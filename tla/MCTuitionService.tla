--------------------------- MODULE MCTuitionService -------------------------
(* A small student account for TuitionService: two items of fee 4 and 2. *)
EXTENDS TuitionService, TuitionBill

CONSTANTS i1, i2, c1, c2

Fee == [i \in {i1, i2} |-> IF i = i1 THEN 4 ELSE 2]

NoZhimi == [p \in {i1, i2, Surplus} |-> 0]
NoRetained == [i \in {i1, i2} |-> 0]

\* Both items, zhimi on the first, retained on both (2 + 1, of a balance of
\* 3 that other bills also draw on), cash left.
Mixed == [items |-> {i1, i2}, coupons |-> {}, zhimi |-> [NoZhimi EXCEPT ![i1] = 2],
          retained |-> [NoRetained EXCEPT ![i1] = 1, ![i2] = 2], cash |-> 1]

\* One item with a coupon and some retained money, cash left.
Couponed == [items |-> {i1}, coupons |-> {c1}, zhimi |-> NoZhimi,
             retained |-> [NoRetained EXCEPT ![i1] = 2], cash |-> 1]

\* One item wholly deducted from zhimi, with one zhimi asked too many.
Deducted == [items |-> {i2}, coupons |-> {}, zhimi |-> [NoZhimi EXCEPT ![i2] = 2, ![Surplus] = 1],
             retained |-> NoRetained, cash |-> 0]

\* One item wholly deducted by a coupon and retained money.
CouponDeducted == [items |-> {i2}, coupons |-> {c1}, zhimi |-> NoZhimi,
                   retained |-> [NoRetained EXCEPT ![i2] = 1], cash |-> 0]

MCBills == {Mixed, Couponed, Deducted, CouponDeducted}

\* Those that wait for a callback.
CashBills == {Mixed, Couponed}

\* Every one of them is a bill that payTuition can compute.
ASSUME BillsAreBills ==
  \A b \in MCBills : \E off \in [{i1, i2} -> 0 .. 2] :
    /\ IsBill(b, {i1, i2}, Surplus, Fee, off)
    /\ b.coupons = {} => \A i \in b.items : off[i] = 0
    /\ b.cash = MapThenSumSet(LAMBDA i : CashPart(b, i, Fee, off), b.items)

MarkSymmetry == Permutations(Mark) \cup Permutations(Thread)
=============================================================================
