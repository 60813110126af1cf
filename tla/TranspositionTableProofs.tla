----------------------- MODULE TranspositionTableProofs -----------------------
(***************************************************************************)
(* Proofs about the transposition table.                                   *)
(*                                                                         *)
(* TTMemory, for every size: GetEntry stays inside the table, the slices   *)
(* of the clearing threads cover the table without overlap, and so a table *)
(* that is in use never shows memory nobody has cleared.                   *)
(*                                                                         *)
(* TranspositionTable, when one thread searches: an entry is whole         *)
(* whenever no store is under way, and a cutoff rests on one store.        *)
(***************************************************************************)
EXTENDS TranspositionTable, TTMemory, SequenceTheorems, TLAPS

LEMMA DivBounds ==
  ASSUME NEW a \in Nat, NEW d \in Nat \ {0}
  PROVE  (a \div d) \in Nat /\ d * (a \div d) <= a /\ a < d * (a \div d) + d
  OBVIOUS

LEMMA DivExact ==
  ASSUME NEW a \in Nat, NEW d \in Nat \ {0}
  PROVE  (a * d) \div d = a
  OBVIOUS

LEMMA ModZero ==
  ASSUME NEW a \in Nat, NEW d \in Nat \ {0}, a % d = 0
  PROVE  a = (a \div d) * d
  OBVIOUS

LEMMA CeilDivBound ==
  ASSUME NEW a \in Nat, NEW d \in Nat \ {0}
  PROVE  CeilDiv(a, d) \in Nat /\ a <= CeilDiv(a, d) * d
<1> DEFINE q == (a + d - 1) \div d
<1>1. a + d - 1 \in Nat
  OBVIOUS
<1>2. q \in Nat /\ a + d - 1 < d * q + d
  BY <1>1, DivBounds
<1> HIDE DEF q
<1>3. a <= q * d
  BY <1>2
<1> QED
  BY <1>2, <1>3 DEF CeilDiv, q

(* Multiplicative index reduction (transposition.h 84): a 32-bit key times *)
(* the count, divided by 2^32, is a valid index.                           *)
LEMMA IndexBound ==
  ASSUME NEW n \in Nat \ {0}, NEW k \in 0..(Keys - 1)
  PROVE  (k * n) \div Keys \in 0..(n - 1)
<1> DEFINE q == (k * n) \div Keys
<1>1. Keys \in Nat \ {0} /\ k * n \in Nat
  BY SizeAssumption
<1>2. q \in Nat /\ Keys * q <= k * n
  BY <1>1, DivBounds
<1>3. k * n < Keys * n
  BY <1>1
<1> HIDE DEF q
<1>4. q < n
  BY <1>1, <1>2, <1>3
<1> QED
  BY <1>2, <1>4 DEF q
-----------------------------------------------------------------------------
(* A slice is a whole number of entries.                                   *)
LEMMA SliceEntries ==
  ASSUME NEW n \in Nat \ {0}, NEW entries \in Nat
  PROVE  \E s \in Nat : /\ SliceBytes(n, entries * EntrySize) = s * EntrySize
                        /\ entries <= n * s
<1> DEFINE total == entries * EntrySize
           slice == CeilDiv(total, n)
           blocks == CeilDiv(slice, TwoMB)
           b == TwoMB \div EntrySize
           s == blocks * b
<1>1. EntrySize \in Nat \ {0} /\ TwoMB \in Nat \ {0} /\ total \in Nat
  BY SizeAssumption
<1>2. slice \in Nat /\ total <= slice * n
  BY <1>1, CeilDivBound
<1> HIDE DEF slice
<1>3. blocks \in Nat /\ slice <= blocks * TwoMB
  BY <1>1, <1>2, CeilDivBound
<1>4. TwoMB = b * EntrySize /\ b \in Nat
  BY <1>1, SizeAssumption, ModZero, DivBounds
<1> HIDE DEF blocks, b, total
<1>5. blocks * TwoMB = s * EntrySize
  BY <1>1, <1>3, <1>4
<1>6. s \in Nat
  BY <1>3, <1>4
<1> HIDE DEF s
<1>7. slice * n <= s * EntrySize * n
  BY <1>1, <1>2, <1>3, <1>5, <1>6
<1>8. entries * EntrySize <= (n * s) * EntrySize
  BY <1>1, <1>2, <1>6, <1>7 DEF total
<1>9. entries <= n * s
  BY <1>1, <1>6, <1>8
<1>10. SliceBytes(n, entries * EntrySize) = s * EntrySize
  BY <1>5 DEF SliceBytes, slice, blocks, total
<1> QED
  BY <1>6, <1>9, <1>10

(* Its first and last entry. *)
LEMMA SliceIs ==
  ASSUME NEW n \in Nat \ {0}, NEW entries \in Nat, NEW s \in Nat, NEW i \in Nat,
         SliceBytes(n, entries * EntrySize) = s * EntrySize
  PROVE  Slice(i, n, entries) = MIN(i * s, entries)..(MIN(i * s + s, entries) - 1)
<1>1. EntrySize \in Nat \ {0}
  BY SizeAssumption
<1>2. ASSUME NEW x \in Nat
      PROVE  MIN(x * EntrySize, entries * EntrySize) \div EntrySize = MIN(x, entries)
  <2>1. x * EntrySize < entries * EntrySize <=> x < entries
    BY <1>1
  <2>2. MIN(x * EntrySize, entries * EntrySize) = MIN(x, entries) * EntrySize
    BY <2>1 DEF MIN
  <2>3. MIN(x, entries) \in Nat
    BY DEF MIN
  <2> QED
    BY <1>1, <2>2, <2>3, DivExact
<1>3. i * s \in Nat /\ i * s + s \in Nat
  OBVIOUS
<1>4. i * (s * EntrySize) = (i * s) * EntrySize
  BY <1>1
<1>5. i * (s * EntrySize) + s * EntrySize = (i * s + s) * EntrySize
  BY <1>1
<1> QED
  BY <1>2, <1>3, <1>4, <1>5 DEF Slice, Begin, End

(* The slices cover the table, stay inside it and do not overlap.          *)
LEMMA SlicesPartition ==
  ASSUME NEW n \in Nat \ {0}, NEW entries \in Nat
  PROVE  /\ \A e \in 0..(entries - 1) : \E i \in 0..(n - 1) : e \in Slice(i, n, entries)
         /\ \A i \in 0..(n - 1) : Slice(i, n, entries) \subseteq 0..(entries - 1)
         /\ \A i, j \in 0..(n - 1) :
              i # j => Slice(i, n, entries) \cap Slice(j, n, entries) = {}
<1>1. PICK s \in Nat : /\ SliceBytes(n, entries * EntrySize) = s * EntrySize
                       /\ entries <= n * s
  BY SliceEntries
<1>2. ASSUME NEW i \in 0..(n - 1)
      PROVE  Slice(i, n, entries) = MIN(i * s, entries)..(MIN(i * s + s, entries) - 1)
  BY <1>1, SliceIs
<1>3. ASSUME NEW e \in 0..(entries - 1)
      PROVE  \E i \in 0..(n - 1) : e \in Slice(i, n, entries)
  <2>1. s # 0
    BY <1>1
  <2> DEFINE i == e \div s
  <2>2. i \in Nat /\ s * i <= e /\ e < s * i + s
    BY <2>1, DivBounds
  <2> HIDE DEF i
  <2>3. s * i < s * n
    BY <1>1, <2>2
  <2>4. i < n
    BY <2>1, <2>2, <2>3
  <2>5. i * s = s * i
    BY <2>2
  <2>6. e \in Slice(i, n, entries)
    BY <1>2, <2>2, <2>4, <2>5 DEF MIN
  <2> QED
    BY <2>2, <2>4, <2>6
<1>4. ASSUME NEW i \in 0..(n - 1)
      PROVE  Slice(i, n, entries) \subseteq 0..(entries - 1)
  <2>1. i * s \in Nat /\ i * s + s \in Nat
    OBVIOUS
  <2> QED
    BY <1>2, <2>1 DEF MIN
<1>5. ASSUME NEW i \in 0..(n - 1), NEW j \in 0..(n - 1), i < j
      PROVE  Slice(i, n, entries) \cap Slice(j, n, entries) = {}
  <2>1. PICK k \in Nat : j = i + 1 + k
    <3>1. j - i - 1 \in Nat /\ j = i + 1 + (j - i - 1)
      BY <1>5
    <3> QED
      BY <3>1
  <2>2. j * s = i * s + s + k * s
    BY <2>1
  <2>3. i * s \in Nat /\ k * s \in Nat
    BY <2>1
  <2>4. MIN(i * s + s, entries) <= MIN(j * s, entries)
    BY <2>2, <2>3 DEF MIN
  <2>5. /\ MIN(i * s, entries) \in Nat /\ MIN(i * s + s, entries) \in Nat
        /\ MIN(j * s, entries) \in Nat /\ MIN(j * s + s, entries) \in Nat
    BY <2>2, <2>3 DEF MIN
  <2> QED
    BY <1>2, <2>4, <2>5
<1>6. ASSUME NEW i \in 0..(n - 1), NEW j \in 0..(n - 1), i # j
      PROVE  Slice(i, n, entries) \cap Slice(j, n, entries) = {}
  <2>1. i < j \/ j < i
    BY <1>6
  <2> QED
    BY <1>5, <2>1
<1> QED
  BY <1>3, <1>4, <1>6
-----------------------------------------------------------------------------
MemoryInv == MemoryTypeOK /\ TableReady /\ SlicesApart /\ ClearCovers

LEMMA CountPositive ==
  ASSUME NEW mb \in Nat \ {0}
  PROVE  (mb * MB) \div EntrySize \in Nat \ {0}
<1>1. EntrySize \in Nat \ {0} /\ MB \in Nat \ {0}
  BY SizeAssumption
<1> DEFINE k == MB \div EntrySize
<1>2. MB = k * EntrySize /\ k \in Nat
  BY <1>1, SizeAssumption, ModZero, DivBounds
<1> HIDE DEF k
<1>3. k # 0
  BY <1>1, <1>2
<1>4. mb * MB = (mb * k) * EntrySize /\ mb * k \in Nat
  BY <1>1, <1>2
<1>5. (mb * MB) \div EntrySize = mb * k
  BY <1>1, <1>4, DivExact
<1>6. mb * k # 0
  BY <1>2, <1>3
<1> QED
  BY <1>4, <1>5, <1>6

LEMMA CountNat == MemoryTypeOK => count \in Nat /\ (currentMB # 0 => count # 0)
<1> SUFFICES ASSUME MemoryTypeOK
             PROVE  count \in Nat /\ (currentMB # 0 => count # 0)
  OBVIOUS
<1>1. CASE currentMB = 0
  <2>1. 0 * MB = 0 /\ 0 \div EntrySize = 0
    BY SizeAssumption, DivExact
  <2> QED
    BY <1>1, <2>1 DEF MemoryTypeOK
<1>2. CASE currentMB # 0
  BY <1>2, CountPositive, SizeAssumption DEF MemoryTypeOK
<1> QED
  BY <1>1, <1>2

LEMMA MemoryInitInv == MemoryInit => MemoryInv
<1> SUFFICES ASSUME MemoryInit
             PROVE  MemoryInv
  OBVIOUS
<1>1. 0 * MB = 0 /\ 0 \div EntrySize = 0
  BY SizeAssumption, DivExact
<1>2. MemoryTypeOK
  <2>1. count = 0 /\ currentMB = 0 /\ count = (currentMB * MB) \div EntrySize
    BY <1>1 DEF MemoryInit
  <2>2. 0..(count - 1) = {}
    BY <2>1
  <2>3. table \in [0..(count - 1) -> {"garbage", "zero", "data"}]
    BY <2>2 DEF MemoryInit
  <2>4. DOMAIN cursor = {0} /\ 0 \in 0..(MaxThreads - 1) /\ threads \in 1..MaxThreads
    BY SizeAssumption DEF MemoryInit
  <2>5. requestedMB \in 1..MaxHash /\ currentMB = 0 /\ dirty = FALSE
    BY DEF MemoryInit
  <2>7. MaxHash \in Nat
    BY SizeAssumption
  <2>8. 0 \in 0..MaxHash
    BY <2>7
  <2>6. pc = "idle"
    BY DEF MemoryInit
  <2> QED
    BY <2>1, <2>3, <2>4, <2>5, <2>6, <2>8 DEF MemoryTypeOK
<1> QED
  BY <1>2 DEF MemoryInit, MemoryInv, TableReady, SlicesApart, ClearCovers

(* A clear starts with the slices of the table. *)
LEMMA ClearStarts ==
  ASSUME NEW entries \in Nat, threads \in 1..MaxThreads, threads' = threads,
         pc' = "clearing", count' = entries,
         cursor' = [i \in 0..(threads - 1) |-> Slice(i, threads, entries)]
  PROVE  TableReady' /\ SlicesApart' /\ ClearCovers'
<1>1. threads \in Nat \ {0}
  BY SizeAssumption
<1>2. DOMAIN cursor' = 0..(threads - 1)
  OBVIOUS
<1>3. \A i \in 0..(threads - 1) : cursor'[i] = Slice(i, threads, entries)
  OBVIOUS
<1>4. /\ \A e \in 0..(entries - 1) : \E i \in 0..(threads - 1) : e \in Slice(i, threads, entries)
      /\ \A i \in 0..(threads - 1) : Slice(i, threads, entries) \subseteq 0..(entries - 1)
      /\ \A i, j \in 0..(threads - 1) :
           i # j => Slice(i, threads, entries) \cap Slice(j, threads, entries) = {}
  BY <1>1, SlicesPartition
<1>5. TableReady'
  BY DEF TableReady
<1>6. SlicesApart'
  BY <1>2, <1>3, <1>4 DEF SlicesApart
<1>7. ClearCovers'
  BY <1>2, <1>3, <1>4 DEF ClearCovers
<1> QED
  BY <1>5, <1>6, <1>7

LEMMA MemoryStepInv == MemoryInv /\ [MemoryNext]_memoryVars => MemoryInv'
<1> SUFFICES ASSUME MemoryInv, [MemoryNext]_memoryVars
             PROVE  MemoryInv'
  OBVIOUS
<1> USE SizeAssumption DEF MemoryInv, MemoryTypeOK, ttVars
<1>0. count \in Nat /\ (currentMB # 0 => count # 0)
  BY CountNat
<1>1. ASSUME NEW n \in 1..MaxThreads, SetThreads(n)
      PROVE  MemoryInv'
  BY <1>1 DEF SetThreads, TableReady, SlicesApart, ClearCovers
<1>2. ASSUME NEW mb \in 1..MaxHash, SetHash(mb)
      PROVE  MemoryInv'
  BY <1>2 DEF SetHash, TableReady, SlicesApart, ClearCovers
<1>3. ASSUME InitTT
      PROVE  MemoryInv'
  <2>1. requestedMB \in Nat \ {0}
    OBVIOUS
  <2>2. count' = (requestedMB * MB) \div EntrySize /\ currentMB' = requestedMB
    BY <1>3 DEF InitTT
  <2>3. count' \in Nat
    BY <2>1, <2>2, CountPositive
  <2>4. /\ pc' = "clearing" /\ threads' = threads /\ dirty' = TRUE
        /\ requestedMB' = requestedMB
        /\ cursor' = [i \in 0..(threads - 1) |-> Slice(i, threads, count')]
        /\ table' = [e \in 0..(count' - 1) |-> "garbage"]
    BY <1>3 DEF InitTT, ClearTT
  <2>5. MemoryTypeOK'
    BY <2>2, <2>4
  <2>6. TableReady' /\ SlicesApart' /\ ClearCovers'
    BY <2>3, <2>4, ClearStarts
  <2> QED
    BY <2>5, <2>6
<1>4. ASSUME UCINewGame
      PROVE  MemoryInv'
  <2>1. /\ pc' = "clearing" /\ UNCHANGED <<threads, ttVars>>
        /\ cursor' = [i \in 0..(threads - 1) |-> Slice(i, threads, count)]
    BY <1>4 DEF UCINewGame, ClearTT
  <2>2. MemoryTypeOK'
    BY <2>1
  <2>3. TableReady' /\ SlicesApart' /\ ClearCovers'
    BY <1>0, <2>1, ClearStarts
  <2> QED
    BY <2>2, <2>3
<1>5. ASSUME NEW t \in 0..(MaxThreads - 1), ClearEntry(t)
      PROVE  MemoryInv'
  <2>1. PICK e \in cursor[t] : /\ table' = [table EXCEPT ![e] = "zero"]
                                /\ cursor' = [cursor EXCEPT ![t] = @ \ {e}]
    BY <1>5 DEF ClearEntry
  <2>2. /\ pc = "clearing" /\ pc' = pc /\ t \in DOMAIN cursor
        /\ UNCHANGED <<threads, requestedMB, currentMB, dirty, count>>
    BY <1>5 DEF ClearEntry
  <2>3. e \in 0..(count - 1)
    BY <2>2 DEF SlicesApart
  <2>4. MemoryTypeOK'
    BY <2>1, <2>2, <2>3
  <2>5. SlicesApart'
    BY <2>1, <2>2 DEF SlicesApart
  <2>6. ClearCovers'
    BY <2>1, <2>2, <2>3 DEF ClearCovers
  <2> QED
    BY <2>2, <2>4, <2>5, <2>6 DEF TableReady
<1>6. ASSUME ClearDone
      PROVE  MemoryInv'
  <2>1. \A e \in 0..(count - 1) : table[e] = "zero"
    BY <1>6 DEF ClearDone, ClearCovers
  <2>2. pc' = "idle" /\ UNCHANGED <<threads, requestedMB, currentMB, count, table, cursor>>
    BY <1>6 DEF ClearDone
  <2>3. MemoryTypeOK'
    BY <1>6 DEF ClearDone
  <2> QED
    BY <2>1, <2>2, <2>3 DEF TableReady, SlicesApart, ClearCovers
<1>7. ASSUME PrepareSearch
      PROVE  MemoryInv'
  BY <1>7 DEF PrepareSearch, TableReady, SlicesApart, ClearCovers
<1>8. ASSUME SearchEnds
      PROVE  MemoryInv'
  BY <1>8 DEF SearchEnds, TableReady, SlicesApart, ClearCovers
<1>9. ASSUME NEW key \in 0..(Keys - 1), StoreEntry(key)
      PROVE  MemoryInv'
  <2>1. /\ table' = [table EXCEPT ![GetEntry(key)] = "data"] /\ pc = "search"
        /\ UNCHANGED <<threads, requestedMB, currentMB, dirty, count, pc, cursor>>
    BY <1>9 DEF StoreEntry
  <2>2. MemoryTypeOK'
    BY <2>1
  <2>3. dirty
    BY <2>1 DEF MemoryTypeOK
  <2> QED
    BY <2>1, <2>2, <2>3 DEF TableReady, SlicesApart, ClearCovers
<1>10. ASSUME UNCHANGED memoryVars
       PROVE  MemoryInv'
  BY <1>10 DEF memoryVars, TableReady, SlicesApart, ClearCovers
<1> QED
  BY <1>1, <1>2, <1>3, <1>4, <1>5, <1>6, <1>7, <1>8, <1>9, <1>10 DEF MemoryNext

LEMMA MemoryInvariance == MemorySpec => []MemoryInv
  BY MemoryInitInv, MemoryStepInv, PTL DEF MemorySpec

(* A table in use is ready: no entry holds uncleared memory, and one that  *)
(* is not dirty is all zero, so that ucinewgame may skip it                *)
(* (transposition.cpp 109, 158-160).                                       *)
THEOREM Ready == MemorySpec => []TableReady
<1>1. MemoryInv => TableReady
  BY DEF MemoryInv
<1> QED
  BY <1>1, MemoryInvariance, PTL

(* The threads that clear a table of any size write disjoint slices of it  *)
(* and miss no entry (transposition.cpp 83-134).                           *)
THEOREM SlicesPartitionTable == MemorySpec => []SlicesExact
<1>1. MemoryInv => SlicesExact
  BY DEF MemoryInv, SlicesExact
<1> QED
  BY <1>1, MemoryInvariance, PTL

(* GetEntry never leaves the table, whatever its size and the key          *)
(* (transposition.h 81-85).                                                *)
THEOREM IndexSafe == MemorySpec => []IndexInTable
<1>1. SlicesExact => IndexInTable
  BY CountNat, IndexBound DEF IndexInTable, GetEntry, SlicesExact
<1> QED
  BY <1>1, SlicesPartitionTable, PTL
-----------------------------------------------------------------------------

\* One thread searches.  With two, none of the properties holds.
OneThread == \A t, u \in Thread : t = u

Places == {"probe", "trust", "cut", "tb", "search", "loop", "write"}
NodeType == [key : Key, depth : 1..(MAXDEPTH - 1), ply : 0..MaxPly, pc : Places,
             ttScore : Int]
EntryType == [posKey : Key \union {0}, score : Int, depth : 0..(MAXDEPTH - 1),
              bound : BOUND_NONE..BOUND_EXACT]

Types ==
  /\ tte \in EntryType
  /\ stack \in [Thread -> Seq(NodeType)]
  /\ store \in [Thread -> [data : EntryType, todo : SUBSET Fields]]
  /\ \A t \in Thread : Len(stack[t]) <= MaxFrames

\* Nodes above the deepest one wait for it.
Waiting ==
  \A t \in Thread : \A i \in 1..(Len(stack[t]) - 1) : stack[t][i].pc \in {"search", "loop"}

\* The entry that the last store means.
Intended == [posKey |-> intent.posKey, score |-> ScoreToTT(intent.score, intent.ply),
             depth |-> intent.depth, bound |-> intent.bound]

\* There was no store yet, or one that the assertions allow.
IntentValid ==
  /\ intent.posKey \in Key \union {0} /\ intent.ply \in 0..MaxPly /\ intent.score \in Int
  /\ \/ /\ intent.depth = 0 /\ intent.bound = BOUND_NONE /\ intent.score = 0
     \/ /\ ValidDepth(intent.depth) /\ ValidBound(intent.bound)
        /\ intent.score \in ScoresAt(intent.ply)

\* During a store the fields that are written are those of the store.
Partial ==
  \A t \in Thread : Writing(t) =>
    /\ store[t].data = Intended /\ store[t].todo # {}
    /\ \A f \in Fields \ store[t].todo : tte[f] = Intended[f]

\* What a node has tested of the entry is still true of it.
Tested ==
  \A t \in Thread : At(t, "trust") \/ At(t, "cut") =>
    /\ tte.posKey = Top(t).key
    /\ Top(t).ttScore = ScoreFromTT(tte.score, Top(t).ply)
    /\ At(t, "cut") => tte.depth >= Top(t).depth

IInv == Types /\ Waiting /\ IntentValid /\ Partial /\ EntryIsWhole /\ Tested
-----------------------------------------------------------------------------

\* The ranges of the constants, and of what a node has.
LEMMA Ranges ==
  /\ Key \subseteq Nat /\ MAXDEPTH \in Nat /\ MAXDEPTH > 0 /\ MaxPly \in Nat
  /\ MaxFrames \in Nat /\ MaxFrames > 0 /\ MATE \in Nat /\ TBWIN_IN_MAX \in Nat
  /\ TBWIN_IN_MAX > 0 /\ TBWIN_IN_MAX + MaxPly <= MATE /\ Scores \subseteq Int
  BY TableAssumption

\* The three ways to change a stack of nodes.
LEMMA Pushed ==
  ASSUME NEW s \in Seq(NodeType), s # <<>>, NEW n \in NodeType, NEW p \in Places
  PROVE  LET r == Append([s EXCEPT ![Len(s)].pc = p], n)
         IN  /\ r \in Seq(NodeType) /\ Len(r) = Len(s) + 1 /\ r[Len(r)] = n
             /\ \A i \in 1..Len(s) : r[i].pc = IF i = Len(s) THEN p ELSE s[i].pc
<1> DEFINE q == [s EXCEPT ![Len(s)].pc = p]
           r == Append(q, n)
<1>1. Len(s) \in Nat /\ Len(s) > 0 /\ s \in [1..Len(s) -> NodeType]
  OBVIOUS
<1>2. q \in [1..Len(s) -> NodeType]
  BY <1>1 DEF NodeType
<1>3. q \in Seq(NodeType) /\ Len(q) = Len(s)
  BY <1>1, <1>2
<1>4. \A i \in 1..Len(s) : q[i].pc = IF i = Len(s) THEN p ELSE s[i].pc
  BY <1>1 DEF NodeType
<1> HIDE DEF q
<1>5. /\ r \in Seq(NodeType) /\ Len(r) = Len(s) + 1 /\ r[Len(s) + 1] = n
      /\ \A i \in 1..Len(s) : r[i] = q[i]
  BY <1>3
<1> QED
  BY <1>4, <1>5 DEF q

LEMMA Changed ==
  ASSUME NEW s \in Seq(NodeType), s # <<>>, NEW p \in Places
  PROVE  LET r == [s EXCEPT ![Len(s)].pc = p]
         IN  /\ r \in Seq(NodeType) /\ Len(r) = Len(s)
             /\ r[Len(r)] = [s[Len(s)] EXCEPT !.pc = p]
             /\ \A i \in 1..(Len(s) - 1) : r[i] = s[i]
<1> DEFINE q == [s EXCEPT ![Len(s)].pc = p]
<1>1. Len(s) \in Nat /\ Len(s) > 0 /\ s \in [1..Len(s) -> NodeType]
  OBVIOUS
<1>2. q \in [1..Len(s) -> NodeType]
  BY <1>1 DEF NodeType
<1>3. q \in Seq(NodeType) /\ Len(q) = Len(s)
  BY <1>1, <1>2
<1> QED
  BY <1>1, <1>3

LEMMA Popped ==
  ASSUME NEW s \in Seq(NodeType), s # <<>>
  PROVE  LET r == SubSeq(s, 1, Len(s) - 1)
         IN  /\ r \in Seq(NodeType) /\ Len(r) = Len(s) - 1
             /\ \A i \in 1..Len(r) : r[i] = s[i]
<1> DEFINE r == SubSeq(s, 1, Len(s) - 1)
           n == Len(s) - 1
<1>1. n \in Nat /\ 1 \in Int /\ n \in Int /\ \A i \in 1..n : s[i] \in NodeType
  OBVIOUS
<1> HIDE DEF n
<1>2. /\ SubSeq(s, 1, n) \in Seq(NodeType)
      /\ Len(SubSeq(s, 1, n)) = IF 1 <= n THEN n - 1 + 1 ELSE 0
      /\ \A i \in 1..(n - 1 + 1) : SubSeq(s, 1, n)[i] = s[1 + i - 1]
  BY <1>1, SubSeqProperties
<1> HIDE DEF r
<1>3. r = SubSeq(s, 1, n)
  BY DEF r, n
<1>4. n - 1 + 1 = n /\ (~(1 <= n) => n = 0)
  BY <1>1
<1>5. Len(r) = n
  BY <1>1, <1>2, <1>3, <1>4
<1>6. \A i \in 1..n : r[i] = s[i]
  <2> TAKE i \in 1..n
  <2>1. 1 + i - 1 = i
    BY <1>1
  <2>2. r[i] = s[1 + i - 1]
    BY <1>2, <1>3, <1>4
  <2> QED
    BY <2>1, <2>2
<1>7. r \in Seq(NodeType) /\ Len(r) = n /\ \A i \in 1..Len(r) : r[i] = s[i]
  BY <1>2, <1>3, <1>5, <1>6
<1> QED
  BY <1>7 DEF r, n

\* The node at the top of a stack.
LEMMA TopNode ==
  ASSUME Types, NEW t \in Thread, stack[t] # <<>>
  PROVE  /\ Top(t) \in NodeType /\ Len(stack[t]) \in Nat /\ Len(stack[t]) > 0
         /\ stack[t] \in Seq(NodeType)
  BY DEF Types, Top

\* What the table keeps of a score in range is an integer, and so is what is read.
LEMMA ScoreTypes ==
  ASSUME NEW score \in Int, NEW ply \in Nat
  PROVE  ScoreToTT(score, ply) \in Int /\ ScoreFromTT(score, ply) \in Int
  BY DEF ScoreToTT, ScoreFromTT
-----------------------------------------------------------------------------

\* What the nodes of a stack must satisfy when no store is under way.
Quiet(s) ==
  /\ s \in Seq(NodeType) /\ Len(s) <= MaxFrames
  /\ \A i \in 1..(Len(s) - 1) : s[i].pc \in {"search", "loop"}
  /\ s # <<>> /\ s[Len(s)].pc \in {"trust", "cut"} =>
       /\ tte.posKey = s[Len(s)].key
       /\ s[Len(s)].ttScore = ScoreFromTT(tte.score, s[Len(s)].ply)
       /\ s[Len(s)].pc = "cut" => tte.depth >= s[Len(s)].depth
  /\ s # <<>> => s[Len(s)].pc # "write"

\* A step of a thread on its stack alone keeps the invariant.
LEMMA StackStep ==
  ASSUME OneThread, IInv, NEW t \in Thread, ~Writing(t), NEW s, Quiet(s),
         stack' = [stack EXCEPT ![t] = s], UNCHANGED <<tte, store, intent>>
  PROVE  IInv'
<1>1. stack'[t] = s /\ Thread = {t} /\ stack' = [u \in Thread |-> s]
  BY DEF IInv, Types, OneThread
<1>2. Types'
  BY <1>1 DEF IInv, Types, Quiet
<1>3. Waiting' /\ IntentValid'
  BY <1>1 DEF IInv, Waiting, IntentValid, Quiet
<1>4. ~Writing(t)'
  BY <1>1 DEF Writing, At, Top, Quiet
<1>5. Partial'
  BY <1>1, <1>4 DEF Partial
<1>6. EntryIsWhole'
  BY <1>1, <1>4 DEF IInv, EntryIsWhole
<1>7. Tested'
  BY <1>1 DEF Tested, At, Top, Quiet
<1> QED
  BY <1>2, <1>3, <1>5, <1>6, <1>7 DEF IInv

\* A stack that loses its deepest node is one that searches.
LEMMA PopQuiet ==
  ASSUME IInv, NEW t \in Thread, stack[t] # <<>>
  PROVE  Quiet(SubSeq(stack[t], 1, Len(stack[t]) - 1))
<1> DEFINE r == SubSeq(stack[t], 1, Len(stack[t]) - 1)
<1>1. stack[t] \in Seq(NodeType) /\ Len(stack[t]) \in Nat /\ Len(stack[t]) > 0
      /\ Len(stack[t]) <= MaxFrames
  BY TopNode DEF IInv, Types
<1>2. r \in Seq(NodeType) /\ Len(r) = Len(stack[t]) - 1 /\ \A i \in 1..Len(r) : r[i] = stack[t][i]
  BY <1>1, Popped
<1>3. \A i \in 1..Len(r) : r[i].pc \in {"search", "loop"}
  BY <1>1, <1>2 DEF IInv, Waiting
<1> HIDE DEF r
<1>4. r # <<>> => Len(r) \in 1..Len(r)
  BY <1>2
<1>5. r # <<>> => r[Len(r)].pc \in {"search", "loop"}
  BY <1>3, <1>4
<1>6. Len(r) <= MaxFrames
  BY <1>1, <1>2, Ranges
<1> QED
  BY <1>2, <1>3, <1>5, <1>6 DEF Quiet, r

\* A node that goes to a place where nothing of the entry is known.
LEMMA GotoQuiet ==
  ASSUME IInv, NEW t \in Thread, stack[t] # <<>>, NEW p \in {"tb", "search", "loop"}
  PROVE  Quiet([stack[t] EXCEPT ![Len(stack[t])].pc = p])
<1> DEFINE r == [stack[t] EXCEPT ![Len(stack[t])].pc = p]
<1>1. stack[t] \in Seq(NodeType) /\ Len(stack[t]) \in Nat /\ Len(stack[t]) > 0
      /\ Len(stack[t]) <= MaxFrames /\ Top(t) \in NodeType
  BY TopNode DEF IInv, Types
<1>2. p \in Places
  BY DEF Places
<1>3. /\ r \in Seq(NodeType) /\ Len(r) = Len(stack[t])
      /\ r[Len(r)] = [Top(t) EXCEPT !.pc = p]
      /\ \A i \in 1..(Len(stack[t]) - 1) : r[i] = stack[t][i]
  BY <1>1, <1>2, Changed DEF Top
<1>4. r[Len(r)].pc = p
  BY <1>1, <1>3 DEF NodeType
<1>5. \A i \in 1..(Len(r) - 1) : r[i].pc \in {"search", "loop"}
  BY <1>1, <1>3 DEF IInv, Waiting
<1> HIDE DEF r
<1> QED
  BY <1>1, <1>3, <1>4, <1>5 DEF Quiet, r
-----------------------------------------------------------------------------

\* Where a thread that takes a step other than a write is not writing.
LEMMA NotWriting ==
  ASSUME NEW t \in Thread, NEW p, At(t, p), p # "write"
  PROVE  ~Writing(t) /\ stack[t] # <<>> /\ Top(t).pc = p
  BY DEF Writing, At

\* EXCEPT on a field of the deepest node is EXCEPT on the stack of the thread.
LEMMA GotoStack ==
  ASSUME Types, NEW t \in Thread, NEW p, Goto(t, p)
  PROVE  stack' = [stack EXCEPT ![t] = [stack[t] EXCEPT ![Len(stack[t])].pc = p]]
  BY DEF Types, Goto

\* A search that begins.
LEMMA RootStep ==
  ASSUME OneThread, IInv, NEW t \in Thread, Root(t)
  PROVE  IInv'
<1>1. PICK key \in Key, depth \in 1..(MAXDEPTH - 1) :
        stack' = [stack EXCEPT ![t] = <<Node(key, depth, 0)>>]
  BY DEF Root
<1>2. Node(key, depth, 0) \in NodeType /\ Node(key, depth, 0).pc = "probe"
  BY Ranges DEF Node, NodeType, Places
<1>3. ~Writing(t)
  BY DEF Root, Writing, At
<1> DEFINE s == <<Node(key, depth, 0)>>
<1>4. s \in Seq(NodeType) /\ Len(s) = 1 /\ s[1].pc = "probe"
  BY <1>2
<1> HIDE DEF s
<1>5. Quiet(s)
  BY <1>4, Ranges DEF Quiet
<1>6. stack' = [stack EXCEPT ![t] = s] /\ UNCHANGED <<tte, store, intent>>
  BY <1>1 DEF s, Root
<1> QED
  BY <1>3, <1>5, <1>6, StackStep

\* A child that is searched from place p.
LEMMA CallStep ==
  ASSUME OneThread, IInv, NEW t \in Thread, ~Writing(t), stack[t] # <<>>,
         NEW p \in {"search", "loop"}, NEW n \in NodeType, n.pc = "probe", Call(t, p, n)
  PROVE  IInv'
<1> DEFINE r == Append([stack[t] EXCEPT ![Len(stack[t])].pc = p], n)
<1>1. stack[t] \in Seq(NodeType) /\ Len(stack[t]) \in Nat /\ Len(stack[t]) > 0
      /\ Top(t) \in NodeType /\ p \in Places
  BY TopNode DEF IInv, Places
<1>2. /\ r \in Seq(NodeType) /\ Len(r) = Len(stack[t]) + 1 /\ r[Len(r)] = n
      /\ \A i \in 1..Len(stack[t]) : r[i].pc = IF i = Len(stack[t]) THEN p ELSE stack[t][i].pc
  BY <1>1, Pushed
<1>3. stack' = [stack EXCEPT ![t] = r] /\ Len(stack[t]) < MaxFrames
      /\ UNCHANGED <<tte, store, intent>>
  BY DEF Call, IInv, Types
<1> HIDE DEF r
<1>4. \A i \in 1..(Len(r) - 1) : r[i].pc \in {"search", "loop"}
  BY <1>1, <1>2 DEF IInv, Waiting
<1>5. Quiet(r)
  BY <1>1, <1>2, <1>3, <1>4, Ranges DEF Quiet
<1> QED
  BY <1>3, <1>5, StackStep

LEMMA ChildStep ==
  ASSUME OneThread, IInv, NEW t \in Thread, SearchChild(t) \/ SearchIID(t)
  PROVE  IInv'
<1>1. CASE SearchChild(t)
  <2>1. PICK place \in {"search", "loop"} :
          /\ At(t, place) /\ Top(t).ply < MaxPly
          /\ \E key \in Key, depth \in 1..Top(t).depth :
               Call(t, place, Node(key, depth, Top(t).ply + 1))
    BY <1>1 DEF SearchChild
  <2>2. PICK key \in Key, depth \in 1..Top(t).depth :
          Call(t, place, Node(key, depth, Top(t).ply + 1))
    BY <2>1
  <2>3. ~Writing(t) /\ stack[t] # <<>>
    BY <2>1, NotWriting
  <2>4. Top(t).depth \in 1..(MAXDEPTH - 1) /\ Top(t).ply \in 0..MaxPly
    BY <2>3, TopNode DEF IInv, NodeType
  <2> DEFINE n == Node(key, depth, Top(t).ply + 1)
  <2>5. depth \in 1..(MAXDEPTH - 1) /\ Top(t).ply + 1 \in 0..MaxPly
    BY <2>1, <2>4, Ranges
  <2>6. n \in NodeType /\ n.pc = "probe"
    BY <2>5 DEF Node, NodeType, Places
  <2> HIDE DEF n
  <2> QED
    BY <2>2, <2>3, <2>6, CallStep DEF n
<1>2. CASE SearchIID(t)
  <2>1. PICK depth \in 1..(Top(t).depth - 1) :
          Call(t, "loop", Node(Top(t).key, depth, Top(t).ply))
    BY <1>2 DEF SearchIID
  <2>2. ~Writing(t) /\ stack[t] # <<>>
    BY <1>2, NotWriting DEF SearchIID
  <2>3. Top(t).depth \in 1..(MAXDEPTH - 1) /\ Top(t).ply \in 0..MaxPly /\ Top(t).key \in Key
    BY <2>2, TopNode DEF IInv, NodeType
  <2> DEFINE n == Node(Top(t).key, depth, Top(t).ply)
  <2>4. depth \in 1..(MAXDEPTH - 1)
    BY <2>3, Ranges
  <2>5. n \in NodeType /\ n.pc = "probe"
    BY <2>3, <2>4 DEF Node, NodeType, Places
  <2> HIDE DEF n
  <2> QED
    BY <2>1, <2>2, <2>5, CallStep DEF n
<1> QED
  BY <1>1, <1>2

\* The probe: a hit is of the same key, and its score that of the entry.
LEMMA ProbeStep ==
  ASSUME OneThread, IInv, NEW t \in Thread, Probe(t)
  PROVE  IInv'
<1>1. ~Writing(t) /\ stack[t] # <<>> /\ Top(t).pc = "probe"
  BY NotWriting DEF Probe
<1>2. /\ stack[t] \in Seq(NodeType) /\ Len(stack[t]) \in Nat /\ Len(stack[t]) > 0
      /\ Len(stack[t]) <= MaxFrames /\ Top(t) \in NodeType /\ tte \in EntryType
  BY <1>1, TopNode DEF IInv, Types
<1>3. PICK pvNode \in BOOLEAN :
        IF ProbeTT(Top(t).key)
        THEN stack' = [stack EXCEPT ![t][Len(stack[t])].ttScore =
                                      ScoreFromTT(tte.score, Top(t).ply),
                                    ![t][Len(stack[t])].pc =
                                      IF pvNode THEN "tb" ELSE "trust"]
        ELSE Goto(t, "tb")
  BY DEF Probe
<1>4. UNCHANGED <<tte, store, intent>>
  BY DEF Probe
<1>5. CASE ~ProbeTT(Top(t).key)
  <2>1. stack' = [stack EXCEPT ![t] = [stack[t] EXCEPT ![Len(stack[t])].pc = "tb"]]
    BY <1>3, <1>5, GotoStack DEF IInv
  <2> QED
    BY <1>1, <1>4, <2>1, GotoQuiet, StackStep
<1>6. CASE ProbeTT(Top(t).key)
  <2> DEFINE score == ScoreFromTT(tte.score, Top(t).ply)
             p == IF pvNode THEN "tb" ELSE "trust"
             n == [Top(t) EXCEPT !.ttScore = score, !.pc = p]
             r == [stack[t] EXCEPT ![Len(stack[t])] = n]
  <2>1. score \in Int
    BY <1>2, ScoreTypes, Ranges DEF NodeType, EntryType
  <2>2. n \in NodeType /\ n.pc = p /\ n.ttScore = score /\ n.key = Top(t).key
        /\ n.ply = Top(t).ply /\ n.depth = Top(t).depth
    BY <1>2, <2>1 DEF NodeType, Places
  <2>3. stack' = [stack EXCEPT ![t] = r]
    <3> DEFINE L == Len(stack[t])
               q == [stack[t] EXCEPT ![L].ttScore = score]
               z == [q EXCEPT ![L].pc = p]
    <3>1. stack' = [stack EXCEPT ![t][L].ttScore = score, ![t][L].pc = p]
      BY <1>3, <1>6
    <3>2. t \in DOMAIN stack
      BY DEF IInv, Types
    <3> HIDE DEF L, score, p
    <3>3. stack' = [stack EXCEPT ![t] = z]
      BY <3>1, <3>2
    <3>4. L \in DOMAIN stack[t] /\ stack[t][L] = Top(t)
      BY <1>2 DEF L, Top
    <3>5. q = [stack[t] EXCEPT ![L] = [Top(t) EXCEPT !.ttScore = score]]
      BY <3>4
    <3>6. z = [stack[t] EXCEPT ![L] = n]
      BY <3>4, <3>5
    <3> QED
      BY <3>3, <3>6 DEF L
  <2>4. n.pc \in {"tb", "trust"}
    BY <2>2
  <2>5. tte.posKey = n.key /\ n.ttScore = ScoreFromTT(tte.score, n.ply)
    BY <1>6, <2>2 DEF ProbeTT
  <2> HIDE DEF n
  <2>6. r \in Seq(NodeType) /\ Len(r) = Len(stack[t]) /\ r[Len(r)] = n
        /\ \A i \in 1..(Len(stack[t]) - 1) : r[i] = stack[t][i]
    BY <1>2, <2>2
  <2> HIDE DEF r
  <2>7. \A i \in 1..(Len(r) - 1) : r[i].pc \in {"search", "loop"}
    BY <1>2, <2>6 DEF IInv, Waiting
  <2>8. Quiet(r)
    BY <1>2, <2>4, <2>5, <2>6, <2>7 DEF Quiet
  <2> QED
    BY <1>1, <1>4, <2>3, <2>8, StackStep
<1> QED
  BY <1>5, <1>6

LEMMA TrustStep ==
  ASSUME OneThread, IInv, NEW t \in Thread, Trust(t)
  PROVE  IInv'
<1>1. ~Writing(t) /\ stack[t] # <<>> /\ Top(t).pc = "trust"
  BY NotWriting DEF Trust
<1>2. UNCHANGED <<tte, store, intent>>
  BY DEF Trust
<1>3. CASE ~(tte.depth >= Top(t).depth)
  <2>1. stack' = [stack EXCEPT ![t] = [stack[t] EXCEPT ![Len(stack[t])].pc = "tb"]]
    BY <1>3, GotoStack DEF IInv, Trust
  <2> QED
    BY <1>1, <1>2, <2>1, GotoQuiet, StackStep
<1>4. CASE tte.depth >= Top(t).depth
  <2> DEFINE r == [stack[t] EXCEPT ![Len(stack[t])].pc = "cut"]
  <2>1. stack' = [stack EXCEPT ![t] = r]
    BY <1>4, GotoStack DEF IInv, Trust
  <2>2. /\ stack[t] \in Seq(NodeType) /\ Len(stack[t]) \in Nat /\ Len(stack[t]) > 0
        /\ Len(stack[t]) <= MaxFrames /\ Top(t) \in NodeType
    BY <1>1, TopNode DEF IInv, Types
  <2>3. "cut" \in Places
    BY DEF Places
  <2>4. /\ r \in Seq(NodeType) /\ Len(r) = Len(stack[t])
        /\ r[Len(r)] = [Top(t) EXCEPT !.pc = "cut"]
        /\ \A i \in 1..(Len(stack[t]) - 1) : r[i] = stack[t][i]
    BY <2>2, <2>3, <1>1, Changed DEF Top
  <2> HIDE DEF r
  <2>5. r[Len(r)].pc = "cut" /\ r[Len(r)].key = Top(t).key /\ r[Len(r)].ply = Top(t).ply
        /\ r[Len(r)].depth = Top(t).depth /\ r[Len(r)].ttScore = Top(t).ttScore
    BY <2>2, <2>4 DEF NodeType
  <2>6. \A i \in 1..(Len(r) - 1) : r[i].pc \in {"search", "loop"}
    BY <2>2, <2>4 DEF IInv, Waiting
  <2>7. tte.posKey = Top(t).key /\ Top(t).ttScore = ScoreFromTT(tte.score, Top(t).ply)
    BY <1>1 DEF IInv, Tested, At
  <2>8. Quiet(r)
    BY <1>4, <2>2, <2>4, <2>5, <2>6, <2>7 DEF Quiet
  <2> QED
    BY <1>1, <1>2, <2>1, <2>8, StackStep
<1> QED
  BY <1>3, <1>4

\* The steps that return or go on without the entry.
LEMMA ReturnStep ==
  ASSUME OneThread, IInv, NEW t \in Thread,
         CutoffTest(t) \/ GoOn(t) \/ ReturnWithoutStore(t) \/ Abort(t)
  PROVE  IInv'
<1>1. ~Writing(t) /\ stack[t] # <<>>
  BY NotWriting DEF CutoffTest, GoOn, ReturnWithoutStore, Abort
<1>2. UNCHANGED <<tte, store, intent>>
  BY DEF CutoffTest, GoOn, ReturnWithoutStore, Abort
<1>3. \/ Pop(t) \/ Goto(t, "tb") \/ Goto(t, "search") \/ Goto(t, "loop")
      \/ stack' = [stack EXCEPT ![t] = <<>>]
  BY DEF CutoffTest, GoOn, ReturnWithoutStore, Abort
<1>4. CASE Pop(t)
  <2>1. stack' = [stack EXCEPT ![t] = SubSeq(stack[t], 1, Len(stack[t]) - 1)]
    BY <1>4 DEF Pop, IInv, Types
  <2> QED
    BY <1>1, <1>2, <2>1, PopQuiet, StackStep
<1>5. ASSUME NEW p \in {"tb", "search", "loop"}, Goto(t, p)
      PROVE  IInv'
  <2>1. stack' = [stack EXCEPT ![t] = [stack[t] EXCEPT ![Len(stack[t])].pc = p]]
    BY <1>5, GotoStack DEF IInv
  <2> QED
    BY <1>1, <1>2, <2>1, GotoQuiet, StackStep
<1>6. CASE stack' = [stack EXCEPT ![t] = <<>>]
  <2> DEFINE s == <<>>
  <2>1. Quiet(s)
    BY Ranges DEF Quiet
  <2> QED
    BY <1>1, <1>2, <1>6, <2>1, StackStep
<1> QED
  BY <1>3, <1>4, <1>5, <1>6

\* A store that is allowed begins: its fields are all still to be written.
LEMMA StoreStep ==
  ASSUME OneThread, IInv, NEW t \in Thread, NEW place \in {"tb", "loop"}, At(t, place),
         NEW score \in ScoresAt(Top(t).ply), NEW depth \in 1..(MAXDEPTH - 1),
         NEW bound \in {BOUND_LOWER, BOUND_UPPER, BOUND_EXACT},
         StoreTTEntry(t, score, depth, bound)
  PROVE  IInv'
<1>1. ~Writing(t) /\ stack[t] # <<>>
  BY NotWriting
<1>2. CASE ~Replaces(Top(t).key, depth, bound)
  <2>1. stack' = [stack EXCEPT ![t] = SubSeq(stack[t], 1, Len(stack[t]) - 1)]
        /\ UNCHANGED <<tte, store, intent>>
    BY <1>2 DEF StoreTTEntry, Pop, IInv, Types
  <2> QED
    BY <1>1, <2>1, PopQuiet, StackStep
<1>3. CASE Replaces(Top(t).key, depth, bound)
  <2> DEFINE r == [stack[t] EXCEPT ![Len(stack[t])].pc = "write"]
             data == [posKey |-> Top(t).key, score |-> ScoreToTT(score, Top(t).ply),
                      depth |-> depth, bound |-> bound]
  <2>1. stack' = [stack EXCEPT ![t] = r]
    BY <1>3, GotoStack DEF IInv, StoreTTEntry
  <2>2. /\ stack[t] \in Seq(NodeType) /\ Len(stack[t]) \in Nat /\ Len(stack[t]) > 0
        /\ Len(stack[t]) <= MaxFrames /\ Top(t) \in NodeType /\ "write" \in Places
    BY <1>1, TopNode DEF IInv, Types, Places
  <2>3. /\ r \in Seq(NodeType) /\ Len(r) = Len(stack[t])
        /\ r[Len(r)] = [Top(t) EXCEPT !.pc = "write"]
        /\ \A i \in 1..(Len(stack[t]) - 1) : r[i] = stack[t][i]
    BY <2>2, <1>1, Changed DEF Top
  <2>4. r[Len(r)].pc = "write" /\ r # <<>>
    BY <2>2, <2>3 DEF NodeType
  <2> HIDE DEF r
  <2>5. \A i \in 1..(Len(r) - 1) : r[i].pc \in {"search", "loop"}
    BY <2>2, <2>3 DEF IInv, Waiting
  <2>6. score \in Int /\ Top(t).key \in Key /\ Top(t).ply \in 0..MaxPly /\ Top(t).ply \in Nat
    BY <2>2, Ranges DEF ScoresAt, NodeType
  <2>7. data \in EntryType
    <3>1. ScoreToTT(score, Top(t).ply) \in Int
      BY <2>6, ScoreTypes
    <3>2. depth \in 0..(MAXDEPTH - 1)
      BY Ranges
    <3>3. bound \in BOUND_NONE..BOUND_EXACT
      BY DEF BOUND_NONE, BOUND_UPPER, BOUND_LOWER, BOUND_EXACT
    <3> QED
      BY <2>6, <3>1, <3>2, <3>3 DEF EntryType
  <2>8. /\ store' = [store EXCEPT ![t] = [data |-> data, todo |-> Fields]]
        /\ intent' = [posKey |-> Top(t).key, score |-> score, ply |-> Top(t).ply,
                      depth |-> depth, bound |-> bound]
        /\ tte' = tte
    BY <1>3 DEF StoreTTEntry
  <2>9. data = Intended'
    BY <2>8 DEF Intended
  <2> HIDE DEF data
  <2>10. Thread = {t} /\ stack'[t] = r /\ store'[t] = [data |-> data, todo |-> Fields]
    BY <2>1, <2>8 DEF OneThread, IInv, Types
  <2>11. Types'
    BY <2>1, <2>2, <2>3, <2>7, <2>8, <2>10 DEF IInv, Types
  <2>12. Waiting'
    BY <2>5, <2>10 DEF Waiting
  <2>13. IntentValid'
    BY <2>6, <2>8 DEF IntentValid, ValidDepth, ValidBound
  <2>14. At(t, "write")' /\ ~At(t, "trust")' /\ ~At(t, "cut")'
    BY <2>4, <2>10 DEF At, Top
  <2>15. Partial'
    BY <2>9, <2>10 DEF Partial, Fields
  <2>16. EntryIsWhole'
    BY <2>14 DEF EntryIsWhole, Writing
  <2>17. Tested'
    BY <2>10, <2>14 DEF Tested
  <2> QED
    BY <2>11, <2>12, <2>13, <2>15, <2>16, <2>17 DEF IInv
<1> QED
  BY <1>2, <1>3

LEMMA StoresStep ==
  ASSUME OneThread, IInv, NEW t \in Thread, StoreWDL(t) \/ StoreResult(t)
  PROVE  IInv'
<1>1. stack[t] # <<>>
  BY DEF StoreWDL, StoreResult, At
<1>2. Top(t).depth \in 1..(MAXDEPTH - 1) /\ MAXDEPTH - 1 \in 1..(MAXDEPTH - 1)
  BY <1>1, TopNode, Ranges DEF IInv, NodeType
<1>3. CASE StoreWDL(t)
  <2>1. PICK score \in ScoresAt(Top(t).ply), bound \in {BOUND_LOWER, BOUND_UPPER, BOUND_EXACT} :
          StoreTTEntry(t, score, MAXDEPTH - 1, bound)
    BY <1>3 DEF StoreWDL
  <2> QED
    BY <1>2, <1>3, <2>1, StoreStep DEF StoreWDL
<1>4. CASE StoreResult(t)
  <2>1. PICK score \in ScoresAt(Top(t).ply), bound \in {BOUND_LOWER, BOUND_UPPER, BOUND_EXACT} :
          StoreTTEntry(t, score, Top(t).depth, bound)
    BY <1>4 DEF StoreResult
  <2> QED
    BY <1>2, <1>4, <2>1, StoreStep DEF StoreResult
<1> QED
  BY <1>3, <1>4

\* A write: the field is that of the store, and with the last one all are.
LEMMA WriteStep ==
  ASSUME OneThread, IInv, NEW t \in Thread, NEW f \in Fields, WriteField(t, f)
  PROVE  IInv'
<1>1. At(t, "write") /\ f \in store[t].todo /\ Thread = {t} /\ stack[t] # <<>>
  BY DEF WriteField, OneThread, At
<1>2. /\ tte \in EntryType /\ store[t].data = Intended /\ store[t].data \in EntryType
      /\ store[t].todo \subseteq Fields
      /\ \A g \in Fields \ store[t].todo : tte[g] = Intended[g]
  BY <1>1 DEF IInv, Types, Partial, Writing
<1>3. /\ tte' = [tte EXCEPT ![f] = Intended[f]]
      /\ store' = [store EXCEPT ![t].todo = @ \ {f}]
      /\ intent' = intent
  BY <1>2 DEF WriteField
<1>4. tte' \in EntryType
  BY <1>2, <1>3 DEF EntryType, Fields
<1>5. Intended' = Intended
  BY <1>3 DEF Intended
<1>6. \A g \in Fields \ (store[t].todo \ {f}) : tte'[g] = Intended[g]
  BY <1>2, <1>3 DEF EntryType, Fields
<1>7. store'[t].todo = store[t].todo \ {f} /\ store'[t].data = Intended
      /\ store' \in [Thread -> [data : EntryType, todo : SUBSET Fields]]
  BY <1>1, <1>2, <1>3 DEF IInv, Types
<1>8. IntentValid'
  BY <1>3 DEF IInv, IntentValid
<1>9. CASE store[t].todo # {f}
  <2>1. stack' = stack
    BY <1>9 DEF WriteField
  <2>2. At(t, "write")' /\ ~At(t, "trust")' /\ ~At(t, "cut")'
    BY <1>1, <2>1 DEF At, Top
  <2>3. Types' /\ Waiting'
    BY <1>4, <1>7, <2>1 DEF IInv, Types, Waiting
  <2>4. Partial'
    BY <1>1, <1>5, <1>6, <1>7, <1>9 DEF Partial
  <2>5. EntryIsWhole' /\ Tested'
    BY <1>1, <2>2 DEF EntryIsWhole, Writing, Tested
  <2> QED
    BY <1>8, <2>3, <2>4, <2>5 DEF IInv
<1>10. CASE store[t].todo = {f}
  <2> DEFINE r == SubSeq(stack[t], 1, Len(stack[t]) - 1)
  <2>1. stack' = [stack EXCEPT ![t] = r]
    BY <1>10 DEF WriteField, Pop, IInv, Types
  <2>2. r \in Seq(NodeType) /\ Len(r) <= MaxFrames /\ Len(r) \in Nat
        /\ \A i \in 1..(Len(r) - 1) : r[i].pc \in {"search", "loop"}
    BY <1>1, PopQuiet DEF Quiet
  <2>3. r # <<>> => r[Len(r)].pc \in {"search", "loop"}
    <3>1. stack[t] \in Seq(NodeType) /\ Len(stack[t]) \in Nat /\ Len(stack[t]) > 0
      BY <1>1, TopNode DEF IInv
    <3>2. r \in Seq(NodeType) /\ Len(r) = Len(stack[t]) - 1
          /\ \A i \in 1..Len(r) : r[i] = stack[t][i]
      BY <1>1, <3>1, Popped
    <3>3. \A i \in 1..Len(r) : r[i].pc \in {"search", "loop"}
      BY <3>1, <3>2 DEF IInv, Waiting
    <3> HIDE DEF r
    <3>4. r # <<>> => Len(r) \in 1..Len(r)
      BY <3>2
    <3> QED
      BY <3>3, <3>4
  <2> HIDE DEF r
  <2>4. stack'[t] = r
    BY <2>1 DEF IInv, Types
  <2>5. ~At(t, "write")' /\ ~At(t, "trust")' /\ ~At(t, "cut")'
    BY <2>3, <2>4 DEF At, Top
  <2>6. Types'
    BY <1>4, <1>7, <2>1, <2>2 DEF IInv, Types
  <2>7. Waiting'
    BY <1>1, <2>2, <2>4 DEF Waiting
  <2>8. Partial' /\ Tested'
    BY <1>1, <2>5 DEF Partial, Writing, Tested
  <2>9. \A g \in Fields : tte'[g] = Intended[g]
    BY <1>6, <1>10
  <2>10. tte'.posKey = Intended.posKey /\ tte'.score = Intended.score
         /\ tte'.depth = Intended.depth /\ tte'.bound = Intended.bound
    BY <2>9 DEF Fields
  <2>11. tte' = Intended
    BY <1>4, <2>10 DEF EntryType, Intended
  <2>12. EntryIsWhole'
    BY <1>5, <2>11 DEF EntryIsWhole, Intended
  <2> QED
    BY <1>8, <2>6, <2>7, <2>8, <2>12 DEF IInv
<1> QED
  BY <1>9, <1>10
-----------------------------------------------------------------------------

LEMMA InitInv ==
  ASSUME Init
  PROVE  IInv
<1> USE DEF Init
<1>1. \A t \in Thread : stack[t] = <<>> /\ ~At(t, "write") /\ ~At(t, "trust") /\ ~At(t, "cut")
  BY DEF At
<1>2. Empty \in EntryType
  BY Ranges DEF Empty, EntryType, BOUND_NONE, BOUND_EXACT
<1>3. Types
  BY <1>2, Ranges DEF Types
<1>4. Waiting /\ Partial /\ Tested
  BY <1>1 DEF Waiting, Partial, Writing, Tested
<1>5. IntentValid
  BY Ranges DEF IntentValid
<1>6. EntryIsWhole
  BY Ranges DEF EntryIsWhole, Empty, ScoreToTT
<1> QED
  BY <1>3, <1>4, <1>5, <1>6 DEF IInv

LEMMA NextInv ==
  ASSUME OneThread, IInv, [Next]_vars
  PROVE  IInv'
<1>1. ASSUME NEW t \in Thread, Step(t)
      PROVE  IInv'
  <2>1. ASSUME NEW f \in Fields, WriteField(t, f)
        PROVE  IInv'
    BY <2>1, WriteStep
  <2> QED
    BY <1>1, <2>1, RootStep, ProbeStep, TrustStep, ReturnStep, ChildStep, StoresStep DEF Step
<1>2. CASE UNCHANGED vars
  <2> USE <1>2 DEF vars
  <2>1. \A t \in Thread, p \in Places : At(t, p)' = At(t, p)
    BY DEF At, Top
  <2>2. Types' /\ Waiting' /\ IntentValid'
    BY DEF IInv, Types, Waiting, IntentValid
  <2>3. Partial' /\ EntryIsWhole' /\ Tested'
    BY DEF IInv, Partial, EntryIsWhole, Tested, Writing, At, Top, Intended
  <2> QED
    BY <2>2, <2>3 DEF IInv
<1> QED
  BY <1>1, <1>2 DEF Next

\* What is stored at one ply and read at another stays in the range of scores,
\* and means the same distance from the position.
LEMMA ScoreRoundTrip ==
  ASSUME NEW p \in 0..MaxPly, NEW q \in 0..MaxPly, NEW score \in ScoresAt(p),
         NEW result, result = ScoreFromTT(ScoreToTT(score, p), q)
  PROVE  /\ ValidScore(result)
         /\ CASE score >= TBWIN_IN_MAX  -> result + q = score + p
              [] score <= -TBWIN_IN_MAX -> result - q = score - p
              [] OTHER                  -> result = score
<1>1. score \in Int /\ score >= -(MATE - p) /\ score <= MATE - p
      /\ p \in Int /\ q \in Int /\ p >= 0 /\ q >= 0 /\ p <= MaxPly /\ q <= MaxPly
      /\ MATE \in Int /\ MaxPly \in Int /\ TBWIN_IN_MAX \in Int /\ TBWIN_IN_MAX > 0
      /\ TBWIN_IN_MAX + MaxPly <= MATE
  BY Ranges DEF ScoresAt
<1>2. CASE score >= TBWIN_IN_MAX
  <2>1. ScoreToTT(score, p) = score + p /\ score + p >= TBWIN_IN_MAX
    BY <1>1, <1>2 DEF ScoreToTT
  <2>2. result = score + p - q
    BY <1>1, <2>1 DEF ScoreFromTT
  <2> QED
    BY <1>1, <1>2, <2>2 DEF ValidScore
<1>3. CASE score <= -TBWIN_IN_MAX
  <2>1. ScoreToTT(score, p) = score - p /\ score - p <= -TBWIN_IN_MAX
        /\ ~(score - p >= TBWIN_IN_MAX)
    BY <1>1, <1>3 DEF ScoreToTT
  <2>2. result = score - p + q
    BY <1>1, <2>1 DEF ScoreFromTT
  <2>3. ~(score >= TBWIN_IN_MAX)
    BY <1>1, <1>3
  <2> QED
    BY <1>1, <1>3, <2>2, <2>3 DEF ValidScore
<1>4. CASE ~(score >= TBWIN_IN_MAX) /\ ~(score <= -TBWIN_IN_MAX)
  <2>1. ScoreToTT(score, p) = score
    BY <1>4 DEF ScoreToTT
  <2>2. result = score
    BY <1>4, <2>1 DEF ScoreFromTT
  <2> QED
    BY <1>1, <1>4, <2>2 DEF ValidScore
<1> QED
  BY <1>2, <1>3, <1>4

\* A node that is about to cut off has the score of the one last store.
LEMMA Justified ==
  ASSUME OneThread, IInv, NEW t \in Thread, At(t, "cut")
  PROVE  /\ ValidBound(tte.bound) /\ ValidDepth(tte.depth) /\ ValidScore(Top(t).ttScore)
         /\ intent.posKey = Top(t).key /\ intent.depth >= Top(t).depth
         /\ ValidBound(intent.bound) /\ SameResult(Top(t).ttScore, Top(t).ply)
<1>1. ~Writing(t) /\ Thread = {t} /\ stack[t] # <<>>
  BY DEF Writing, At, OneThread
<1>2. tte = Intended
  BY <1>1 DEF IInv, EntryIsWhole, Intended
<1>3. tte.depth = intent.depth /\ tte.bound = intent.bound /\ tte.posKey = intent.posKey
      /\ tte.score = ScoreToTT(intent.score, intent.ply)
  BY <1>2 DEF Intended
<1>4. Top(t).depth \in 1..(MAXDEPTH - 1) /\ Top(t).ply \in 0..MaxPly
  BY <1>1, TopNode DEF IInv, NodeType
<1>5. tte.posKey = Top(t).key /\ tte.depth >= Top(t).depth
      /\ Top(t).ttScore = ScoreFromTT(tte.score, Top(t).ply)
  BY DEF IInv, Tested
<1>6. intent.depth # 0
  BY <1>3, <1>4, <1>5, Ranges
<1>7. ValidDepth(intent.depth) /\ ValidBound(intent.bound)
      /\ intent.score \in ScoresAt(intent.ply) /\ intent.ply \in 0..MaxPly
  BY <1>6 DEF IInv, IntentValid
<1>8. Top(t).ttScore = ScoreFromTT(ScoreToTT(intent.score, intent.ply), Top(t).ply)
  BY <1>3, <1>5
<1> DEFINE result == Top(t).ttScore
           q == Top(t).ply
<1> HIDE DEF result, q
<1>9. ValidScore(result)
      /\ CASE intent.score >= TBWIN_IN_MAX  -> result + q = intent.score + intent.ply
           [] intent.score <= -TBWIN_IN_MAX -> result - q = intent.score - intent.ply
           [] OTHER                         -> result = intent.score
  BY <1>4, <1>7, <1>8, ScoreRoundTrip DEF result, q
<1>10. ValidScore(Top(t).ttScore) /\ SameResult(Top(t).ttScore, Top(t).ply)
  BY <1>9 DEF SameResult, result, q
<1> QED
  BY <1>3, <1>5, <1>7, <1>10

LEMMA InvAsserts ==
  ASSUME OneThread, IInv
  PROVE  AssertsHold
<1>1. TypeOK
  <2>1. \A t \in Thread : \A i \in 1..Len(stack[t]) : stack[t][i] \in NodeType
    BY DEF IInv, Types
  <2> QED
    BY <2>1 DEF IInv, Types, TypeOK, NodeType, EntryType, Places, ValidDepth
<1> QED
  BY <1>1, Justified DEF AssertsHold

LEMMA InvCutoff ==
  ASSUME OneThread, IInv
  PROVE  \A t \in Thread :
           At(t, "cut") /\ Len(stack'[t]) < Len(stack[t])
             => /\ intent.posKey = Top(t).key /\ intent.depth >= Top(t).depth
                /\ ValidBound(intent.bound)
                /\ SameResult(Top(t).ttScore, Top(t).ply)
  BY Justified

LEMMA Invariance ==
  ASSUME OneThread
  PROVE  Spec => []IInv
<1>1. Init => IInv
  BY InitInv
<1>2. IInv /\ [Next]_vars => IInv'
  BY NextInv
<1> QED
  BY <1>1, <1>2, PTL DEF Spec

\* One thread, any keys, depths, scores and stacks: the entry never mixes two
\* stores once a store is over, though its fields are written one by one and
\* in any order below nodes that keep the pointer (transposition.cpp 60-72).
THEOREM EntryWhole ==
  ASSUME OneThread
  PROVE  Spec => []EntryIsWhole
<1>1. IInv => EntryIsWhole
  BY DEF IInv
<1> QED
  BY <1>1, Invariance, PTL

\* One thread: the assertions of the probe and of the store hold, a score that
\* was stored at one ply is in range at every other (search.cpp 225-227,
\* transposition.cpp 63-65).
THEOREM Asserts ==
  ASSUME OneThread
  PROVE  Spec => []AssertsHold
<1>1. IInv => AssertsHold
  BY InvAsserts
<1> QED
  BY <1>1, Invariance, PTL

\* One thread: a cutoff rests on one earlier store about the same position, at
\* least as deep and worth the same from there (search.cpp 223-233).
THEOREM Cutoff ==
  ASSUME OneThread
  PROVE  Spec => CutoffSound
<1>1. IInv => \A t \in Thread :
           At(t, "cut") /\ Len(stack'[t]) < Len(stack[t])
             => /\ intent.posKey = Top(t).key /\ intent.depth >= Top(t).depth
                /\ ValidBound(intent.bound)
                /\ SameResult(Top(t).ttScore, Top(t).ply)
  BY InvCutoff
<1> QED
  BY <1>1, Invariance, PTL DEF CutoffSound
=============================================================================
