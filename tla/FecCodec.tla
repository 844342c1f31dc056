------------------------------ MODULE FecCodec ------------------------------
(***************************************************************************)
(* The arithmetic of FecCodec: the tables of GF(2^8) its constructor       *)
(* builds, the Cauchy rows of the parity frames, and the elimination that  *)
(* recovers a group.  The bytes at one offset of the frames never meet     *)
(* those at another, so a frame is one byte.                               *)
(***************************************************************************)
EXTENDS Naturals, Sequences, FiniteSetsExt, SequencesExt, Bitwise

VARIABLES gf_exp_, gf_log_,  \* the tables; an index that is not written yet is never read
          i, x               \* the loop of build_gf_tables

tables == <<gf_exp_, gf_log_, i, x>>

Byte == 0 .. 255

TablesInit ==
    /\ gf_exp_ = <<>>
    /\ gf_log_ = <<>>
    /\ i = 0
    /\ x = 1

\* x <<= 1; if (x & 0x100) x ^= 0x11D
Doubled(v) == IF 2 * v >= 256 THEN (2 * v) ^^ 285 ELSE 2 * v

build_gf_tables ==
    \/ /\ i < 255
       /\ gf_exp_' = (i :> x) @@ gf_exp_
       /\ gf_log_' = (x :> i) @@ gf_log_
       /\ x' = Doubled(x)
       /\ i' = i + 1
    \/ /\ i = 255
       /\ gf_exp_' = [n \in 0 .. 511 |-> IF n < 255 THEN gf_exp_[n] ELSE gf_exp_[(n - 255) % 255]]
       /\ gf_log_' = (0 :> 0) @@ gf_log_
       /\ i' = 512
       /\ UNCHANGED x

Built == i = 512

\* Zero has no logarithm.
FaultyGfMul(a, b) == gf_exp_[gf_log_[a] + gf_log_[b]]

gf_mul(a, b) == IF a = 0 \/ b = 0 THEN 0 ELSE gf_exp_[gf_log_[a] + gf_log_[b]]

\* For a # 0.
gf_inv(a) == gf_exp_[255 - gf_log_[a]]

-----------------------------------------------------------------------------
\* enc_[j][c]
enc_(k, j, c) == gf_inv(c ^^ (k + j))

\* Frame idx of a group as a row over the k data bytes: a unit vector for a
\* data frame, the Cauchy row for a parity frame.
Row(k, idx) ==
    [c \in 1 .. k |-> IF idx >= k THEN enc_(k, idx - k, c - 1) ELSE IF c = idx + 1 THEN 1 ELSE 0]

Combination(row, data) ==
    FoldLeft(LAMBDA a, b : a ^^ b, 0, [c \in 1 .. Len(data) |-> gf_mul(row[c], data[c])])

\* compute_parity for one byte.
compute_parity(k, m, data) == [j \in 1 .. m |-> Combination(Row(k, k + j - 1), data)]

\* The frames of a group as try_deliver finds them: slot idx is frame idx.
CodedGroup(k, m, data) == data \o compute_parity(k, m, data)

-----------------------------------------------------------------------------
\* The rows are not swapped.
FaultyEliminated(A, col) ==
    LET rows == Len(A)
    IN  IF A = <<>> \/ A[col][col] = 0 THEN <<>>
        ELSE LET scale  == gf_inv(A[col][col])
                 scaled == [c \in 1 .. rows + 1 |-> gf_mul(A[col][c], scale)]
             IN  [r \in 1 .. rows |->
                    IF r = col THEN scaled
                    ELSE [c \in 1 .. rows + 1 |-> A[r][c] ^^ gf_mul(A[r][col], scaled[c])]]

\* One column of the elimination on a matrix with the received bytes as its
\* last column; <<>> once the matrix has proved singular.
Eliminated(A, col) ==
    LET rows   == Len(A)
        pivots == {r \in col .. rows : A[r][col] # 0}
    IN  IF A = <<>> \/ pivots = {} THEN <<>>
        ELSE LET pivot   == CHOOSE r \in pivots : \A s \in pivots : r <= s
                 swapped == [A EXCEPT ![col] = A[pivot], ![pivot] = A[col]]
                 scale   == gf_inv(swapped[col][col])
                 scaled  == [c \in 1 .. rows + 1 |-> gf_mul(swapped[col][c], scale)]
             IN  [r \in 1 .. rows |->
                    IF r = col THEN scaled
                    ELSE [c \in 1 .. rows + 1 |-> swapped[r][c] ^^ gf_mul(swapped[r][col], scaled[c])]]

\* The received frames, in the order of their indices, as an augmented matrix.
Received(k, frames, indices) ==
    [r \in 1 .. k |-> Append(Row(k, indices[r]), frames[indices[r] + 1])]

gauss_decode(k, frames, indices) ==
    LET A == FoldLeft(Eliminated, Received(k, frames, indices), [c \in 1 .. k |-> c])
    IN  [r \in 1 .. Len(A) |-> A[r][k + 1]]
=============================================================================
