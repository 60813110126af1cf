------------------------------- MODULE TTMemory -------------------------------
(***************************************************************************)
(* The memory of the transposition table (transposition.cpp 83-165,        *)
(* transposition.h 26-31, 81-85): isready allocates it at the size of the  *)
(* Hash option, InitTT and ucinewgame have it cleared by as many threads   *)
(* as the search has, each of which takes a slice of whole 2MB blocks, and *)
(* a search writes the entries GetEntry maps its keys to.                  *)
(*                                                                         *)
(* The sizes are parameters: a MB, the block of a slice and an entry in    *)
(* bytes, and the number of keys GetEntry tells apart (2^32).              *)
(*                                                                         *)
(* No name of this module is one of TranspositionTable's: the proofs about *)
(* the table extend both.                                                  *)
(***************************************************************************)
EXTENDS Integers

CONSTANTS
  MB,          \* bytes of a megabyte
  TwoMB,       \* bytes of a block
  EntrySize,   \* sizeof(TTEntry)
  Keys,        \* 2^32, the number of values of (uint32_t)posKey
  MaxHash,     \* MAXHASH, in MB
  MaxThreads   \* bound on the Threads option

ASSUME SizeAssumption ==
  /\ EntrySize \in Nat \ {0}
  /\ MB \in Nat \ {0} /\ MB % EntrySize = 0
  /\ TwoMB \in Nat \ {0} /\ TwoMB % EntrySize = 0
  /\ MaxHash \in Nat \ {0} /\ MaxHash * MB <= Keys * EntrySize
  /\ MaxThreads \in Nat \ {0}
  /\ Keys \in Nat \ {0}

VARIABLES
  threads,      \* threads->count
  requestedMB, currentMB, dirty, count,   \* TT
  table,        \* what each entry holds: "garbage", "zero" or "data"
  pc,           \* "idle", "clearing" (ClearTT waits for its threads), "search"
  cursor        \* per clearing thread the entries left of its memset

ttVars == <<requestedMB, currentMB, dirty, count, table>>
memoryVars == <<threads, ttVars, pc, cursor>>

CeilDiv(a, b) == (a + b - 1) \div b
MIN(a, b) == IF a < b THEN a ELSE b

(* The bytes of a thread's slice: an n-th of the table in whole blocks. *)
SliceBytes(n, total) == CeilDiv(CeilDiv(total, n), TwoMB) * TwoMB

(* ThreadClearTT: the bytes thread index of n threads clears. *)
Begin(index, n, total) == MIN(index * SliceBytes(n, total), total)
End(index, n, total)   == MIN(index * SliceBytes(n, total) + SliceBytes(n, total), total)

(* Mutant: the slices start an n-th of the table apart, not whole blocks. *)
Slice_Unaligned(index, n, entries) ==
  LET total == entries * EntrySize
      begin == MIN(index * CeilDiv(total, n), total)
  IN  (begin \div EntrySize)..((MIN(begin + SliceBytes(n, total), total) \div EntrySize) - 1)

(* The entries among them: memset starts at table + begin / sizeof. *)
Slice(index, n, entries) ==
  LET total == entries * EntrySize
  IN  (Begin(index, n, total) \div EntrySize)..((End(index, n, total) \div EntrySize) - 1)

(* Mutant: rounded instead of truncated. *)
GetEntry_Rounded(key) == (key * count + Keys \div 2) \div Keys

(* GetEntry: the low 32 bits of the key times the count, shifted down. *)
GetEntry(key) == (key * count) \div Keys
-----------------------------------------------------------------------------
SetThreads(n) ==
  /\ pc = "idle"
  /\ threads' = n
  /\ UNCHANGED <<ttVars, pc, cursor>>

SetHash(mb) ==
  /\ pc = "idle"
  /\ requestedMB' = mb
  /\ UNCHANGED <<threads, currentMB, dirty, count, table, pc, cursor>>

(* ClearTT creates the threads; nothing to do when the table is clean. *)
ClearTT(wasDirty, entries) ==
  IF wasDirty
  THEN /\ pc' = "clearing"
       /\ cursor' = [i \in 0..(threads - 1) |-> Slice(i, threads, entries)]
  ELSE UNCHANGED <<pc, cursor>>

InitTT ==
  /\ pc = "idle" /\ currentMB # requestedMB
  /\ currentMB' = requestedMB
  /\ count' = (requestedMB * MB) \div EntrySize
  /\ table' = [e \in 0..(count' - 1) |-> "garbage"]
  /\ dirty' = TRUE
  /\ ClearTT(TRUE, count')
  /\ UNCHANGED <<threads, requestedMB>>

UCINewGame ==
  /\ pc = "idle" /\ dirty
  /\ ClearTT(dirty, count)
  /\ UNCHANGED <<threads, ttVars>>

ClearEntry(i) ==
  /\ pc = "clearing" /\ i \in 0..(threads - 1)
  /\ \E e \in cursor[i] :
       /\ \A f \in cursor[i] : e <= f
       /\ table' = [table EXCEPT ![e] = "zero"]
       /\ cursor' = [cursor EXCEPT ![i] = @ \ {e}]
  /\ UNCHANGED <<threads, requestedMB, currentMB, dirty, count, pc>>

(* ClearTT has joined all its threads. *)
ClearDone ==
  /\ pc = "clearing" /\ \A i \in 0..(threads - 1) : cursor[i] = {}
  /\ pc' = "idle" /\ dirty' = FALSE
  /\ UNCHANGED <<threads, requestedMB, currentMB, count, table, cursor>>

(* Mutant: the search does not mark the table as used. *)
PrepareSearch_NotDirty ==
  /\ pc = "idle" /\ currentMB # 0
  /\ pc' = "search"
  /\ UNCHANGED <<threads, ttVars, cursor>>

PrepareSearch ==
  /\ pc = "idle" /\ currentMB # 0
  /\ pc' = "search" /\ dirty' = TRUE
  /\ UNCHANGED <<threads, requestedMB, currentMB, count, table, cursor>>

StoreEntry(key) ==
  /\ pc = "search"
  /\ table' = [table EXCEPT ![GetEntry(key)] = "data"]
  /\ UNCHANGED <<threads, requestedMB, currentMB, dirty, count, pc, cursor>>

SearchEnds ==
  /\ pc = "search" /\ pc' = "idle"
  /\ UNCHANGED <<threads, ttVars, cursor>>

MemoryInit ==
  /\ threads = 1 /\ requestedMB \in 1..MaxHash /\ currentMB = 0 /\ dirty = FALSE
  /\ count = 0 /\ table = [e \in {} |-> "zero"] /\ pc = "idle"
  /\ cursor = [i \in {0} |-> {}]

MemoryNext ==
  \/ \E n \in 1..MaxThreads : SetThreads(n)
  \/ \E mb \in 1..MaxHash : SetHash(mb)
  \/ InitTT \/ UCINewGame \/ ClearDone \/ PrepareSearch \/ SearchEnds
  \/ \E i \in 0..(MaxThreads - 1) : ClearEntry(i)
  \/ \E key \in 0..(Keys - 1) : StoreEntry(key)

MemorySpec == MemoryInit /\ [][MemoryNext]_memoryVars
-----------------------------------------------------------------------------
(* Type invariant. *)
MemoryTypeOK ==
  /\ threads \in 1..MaxThreads
  /\ requestedMB \in 1..MaxHash /\ currentMB \in 0..MaxHash /\ dirty \in BOOLEAN
  /\ count = (currentMB * MB) \div EntrySize
  /\ table \in [0..(count - 1) -> {"garbage", "zero", "data"}]
  /\ pc \in {"idle", "clearing", "search"} /\ (pc = "search" => dirty /\ currentMB # 0)
  /\ DOMAIN cursor \subseteq 0..(MaxThreads - 1)
  /\ pc = "clearing" => DOMAIN cursor = 0..(threads - 1)

(* Whenever ClearTT is not running, no entry holds the memory as malloc    *)
(* returned it, and a table not marked dirty is all zero: ucinewgame may   *)
(* skip it (transposition.cpp 109, 158-160; search.cpp 558).               *)
TableReady ==
  pc # "clearing" =>
    /\ \A e \in 0..(count - 1) : table[e] # "garbage"
    /\ ~dirty => \A e \in 0..(count - 1) : table[e] = "zero"

(* The clearing threads write disjoint parts of the table and nothing else *)
(* (transposition.cpp 91-100).                                             *)
SlicesApart ==
  pc = "clearing" =>
    \A i \in DOMAIN cursor :
      /\ cursor[i] \subseteq 0..(count - 1)
      /\ \A j \in DOMAIN cursor : i # j => cursor[i] \cap cursor[j] = {}

(* The slices miss nothing: what is not cleared yet is some thread's.      *)
ClearCovers ==
  pc = "clearing" =>
    \A e \in 0..(count - 1) : table[e] = "zero" \/ \E i \in DOMAIN cursor : e \in cursor[i]

SlicesExact == MemoryTypeOK /\ SlicesApart /\ ClearCovers

(* Every key has its entry inside the table, up to MAXHASH (transposition.h *)
(* 27-30, 84).                                                             *)
IndexInTable == currentMB # 0 => \A key \in 0..(Keys - 1) : GetEntry(key) \in 0..(count - 1)
=============================================================================
