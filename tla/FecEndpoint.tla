---------------------------- MODULE FecEndpoint ----------------------------
(***************************************************************************)
(* A codec: its constructor builds the tables, and it is asked for         *)
(* products and for the recovery of groups; and the stream of FecStream,   *)
(* which rests on the answers.  Bound: a behaviour has either the          *)
(* questions or the stream.                                                *)
(***************************************************************************)
EXTENDS FecStream, FecCodec

CONSTANTS Shapes,  \* the pairs <<k, m>> codecs are built with
          Sample   \* the bytes a data frame may hold

VARIABLE job       \* what the codec was asked, and its answer

endpointVars == <<vars, tables, job>>

Idle == [op |-> "idle"]

\* The products and the inverse of one byte.
Multiply(a) ==
    job' = [op |-> "multiply", a |-> a, products |-> [b \in Byte |-> gf_mul(a, b)],
            inverse |-> IF a = 0 THEN 0 ELSE gf_inv(a)]

\* A group of which exactly the frames got arrive.
Transmit(kk, mm, data, got) ==
    job' = [op |-> "transmit", data |-> data,
            decoded |-> gauss_decode(kk, CodedGroup(kk, mm, data), SetToSortSeq(got, <))]

Ask ==
    /\ Built /\ job = Idle
    /\ \/ \E a \in Byte : Multiply(a)
       \/ \E shape \in Shapes :
            \E data \in [1 .. shape[1] -> Sample],
               got \in kSubset(shape[1], 0 .. shape[1] + shape[2] - 1) :
                 Transmit(shape[1], shape[2], data, got)
    /\ UNCHANGED tables

EndpointInit == Init /\ TablesInit /\ job = Idle

EndpointNext ==
    \/ Init /\ build_gf_tables /\ UNCHANGED <<vars, job>>
    \/ Ask /\ UNCHANGED vars
    \/ TablesInit /\ Next /\ UNCHANGED <<tables, job>>

EndpointSpec == EndpointInit /\ [][EndpointNext]_endpointVars

-----------------------------------------------------------------------------
\* Multiplication in GF(2^8) without tables: the sum of a * x^n over the bits
\* n of b, reduced by x^8 + x^4 + x^3 + x^2 + 1.
Shifted(a) == IF a < 128 THEN 2 * a ELSE (2 * (a - 128)) ^^ 29

Product(a, b) ==
    FoldLeft(LAMBDA acc, n : [sum  |-> IF (b \div 2 ^ n) % 2 = 1 THEN acc.sum ^^ acc.term ELSE acc.sum,
                              term |-> Shifted(acc.term)],
             [sum |-> 0, term |-> a], <<0, 1, 2, 3, 4, 5, 6, 7>>).sum

\* The table-driven gf_mul is multiplication in GF(2^8) modulo 0x11D, zero
\* operands included, and gf_inv is the inverse by which the elimination
\* divides by its pivots.
FieldArithmetic ==
    job.op = "multiply" =>
        /\ \A b \in Byte : job.products[b] = Product(job.a, b)
        /\ job.a # 0 => Product(job.a, job.inverse) = 1

\* Any k of the k + m frames of a group give back its k data bytes in order:
\* every k rows of the identity on top of the Cauchy rows are independent, so
\* the pivot search never fails and the elimination is exact (FecCodec.h:11-16).
AnyKRecover == job.op = "transmit" => job.decoded = job.data
=============================================================================
