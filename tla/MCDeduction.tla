----------------------------- MODULE MCDeduction ----------------------------
(* Requests over two items, with every small amount, for module Deduction. *)
EXTENDS Deduction

CONSTANTS i1, i2, i3, MaxFee, MaxAsked

MCRequests == [fee : [{i1, i2, i3} -> 0 .. MaxFee], off : [{i1, i2, i3} -> 0 .. 1], worth : {1, 2},
               zm : -1 .. MaxAsked, acc : -1 .. MaxAsked, coach : BOOLEAN]

\* The passes visit the items in different orders, the first one with a tie.
MCZmCouponNum == [i \in {i1, i2, i3} |-> IF i = i1 THEN 1 ELSE 2]
MCDelayNum == [i \in {i1, i2, i3} |-> IF i = i3 THEN 1 ELSE IF i = i2 THEN 2 ELSE 3]
=============================================================================
