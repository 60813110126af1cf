----------------------------- MODULE NNUELayers -----------------------------
(***************************************************************************)
(* The layers of the network (eval/nnue/layers and Transform in            *)
(* nnue_feature_transformer.h), each in its scalar form and as AVX2        *)
(* computes it.  A vector register is the sequence of its elements; its    *)
(* two halves are packed, and added, each for itself.                      *)
(***************************************************************************)
EXTENDS Integers, SequencesExt

kSimdWidth       == 32
kWeightScaleBits == 6

Clamp(x, lo, hi) == IF x < lo THEN lo ELSE IF x > hi THEN hi ELSE x
Total(v) == FoldLeft(LAMBDA x, y : x + y, 0, v)

\* Parts first..(first + n - 1) of v, and the parts of a register reordered.
Chunk(v, i, n) == SubSeq(v, (i - 1) * n + 1, i * n)
Permuted(v, order) ==
  LET n == Len(v) \div Len(order)
  IN  [i \in DOMAIN v |-> v[n * order[((i - 1) \div n) + 1] + ((i - 1) % n) + 1]]

-----------------------------------------------------------------------------
(* Instructions.                                                           *)

packs(a, b, bits) ==
  LET h == Len(a) \div 2
      v == SubSeq(a, 1, h) \o SubSeq(b, 1, h) \o
           SubSeq(a, h + 1, 2 * h) \o SubSeq(b, h + 1, 2 * h)
  IN  [i \in DOMAIN v |-> Clamp(v[i], -(2 ^ (bits - 1)), 2 ^ (bits - 1) - 1)]
maddubs(a, b) ==
  [i \in 1..(Len(a) \div 2) |->
     Clamp(a[2 * i - 1] * b[2 * i - 1] + a[2 * i] * b[2 * i], -32768, 32767)]
madd_ones(a) == [i \in 1..(Len(a) \div 2) |-> a[2 * i - 1] + a[2 * i]]
add(a, b)    == [i \in DOMAIN a |-> a[i] + b[i]]
hadd(a) == <<a[1] + a[2], a[3] + a[4], a[1] + a[2], a[3] + a[4],
             a[5] + a[6], a[7] + a[8], a[5] + a[6], a[7] + a[8]>>
max0(a) == [i \in DOMAIN a |-> IF a[i] < 0 THEN 0 ELSE a[i]]

-----------------------------------------------------------------------------
(* Transform: the sums of one color, clipped to 0..127.                    *)

Transform_scalar(sums) == [j \in DOMAIN sums |-> Clamp(sums[j], 0, 127)]
Transform_avx2(sums) ==
  FlattenSeq([j \in 1..(Len(sums) \div kSimdWidth) |->
    Permuted(max0(packs(Chunk(sums, 2 * j - 1, kSimdWidth \div 2),
                        Chunk(sums, 2 * j, kSimdWidth \div 2), 8)), <<0, 2, 1, 3>>)])

(* AffineTransform.                                                        *)

Affine_scalar(input, biases, weights) ==
  [i \in DOMAIN biases |->
     biases[i] + Total([j \in DOMAIN input |-> weights[i][j] * input[j]])]
Affine_avx2(input, biases, weights) ==
  [i \in DOMAIN biases |->
     LET sum == FoldLeft(LAMBDA s, j : add(s, madd_ones(maddubs(
                              Chunk(input, j, kSimdWidth), Chunk(weights[i], j, kSimdWidth)))),
                         <<biases[i], 0, 0, 0, 0, 0, 0, 0>>,
                         [j \in 1..(Len(input) \div kSimdWidth) |-> j])
         twice == hadd(hadd(sum))
     IN  twice[1] + twice[5]]

(* ClippedReLU.                                                            *)

\* Mutant: the halves are left where packing puts them.
kOffsets_None == <<0, 1, 2, 3, 4, 5, 6, 7>>

kOffsets == <<0, 4, 1, 5, 2, 6, 3, 7>>

Shifted(v) == [i \in DOMAIN v |-> v[i] \div 2 ^ kWeightScaleBits]
ClippedReLU_scalar(input) ==
  LET v == Shifted(input) IN [i \in DOMAIN v |-> Clamp(v[i], 0, 127)]
ClippedReLU_avx2(input) ==
  LET In(i) == Chunk(input, i, kSimdWidth \div 4)
      Words(i) == Shifted(packs(In(i), In(i + 1), 16))
  IN  FlattenSeq([i \in 1..(Len(input) \div kSimdWidth) |->
        Permuted(max0(packs(Words(4 * i - 3), Words(4 * i - 1), 8)), kOffsets)])
=============================================================================
