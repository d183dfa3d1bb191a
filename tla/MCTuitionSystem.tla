--------------------------- MODULE MCTuitionSystem --------------------------
(* One student, two items, batches with and without cash, for TuitionSystem. *)
EXTENDS TuitionSystem, TLC

CONSTANTS i1, i2, c1

NoZhimi == [p \in {i1, i2, Surplus} |-> 0]
NoRetained == [i \in {i1, i2} |-> 0]

\* Both items: zhimi and retained money, some cash.
Mixed == [items |-> {i1, i2}, coupons |-> {}, zhimi |-> [NoZhimi EXCEPT ![i1] = 1],
          retained |-> [NoRetained EXCEPT ![i2] = 2], cash |-> 1]

\* One item wholly deducted from the retained account.
Deducted == [items |-> {i2}, coupons |-> {c1}, zhimi |-> NoZhimi,
             retained |-> [NoRetained EXCEPT ![i2] = 1], cash |-> 0]

MCBills == {Mixed, Deducted}

Symmetry == Permutations(Mark) \cup Permutations(Event)
=============================================================================
