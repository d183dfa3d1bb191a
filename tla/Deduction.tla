------------------------------ MODULE Deduction -----------------------------
(***************************************************************************)
(* How BdsTuitionService.payTuition turns a request into a bill: the checks *)
(* that refuse it, then two passes over the items, each in an order of its  *)
(* own, that use up the requested zhimi (zmDeductionDetail) and the         *)
(* requested retained money (accDeduction).  One step is one item.          *)
(***************************************************************************)
EXTENDS TuitionBill, FiniteSetsExt

CONSTANTS
  Item,        \* the items of the request
  Surplus,     \* the part of a bill that belongs to no item
  Requests,    \* what a client may ask for
  ZmCouponNum, \* order of the zhimi and coupon pass
  DelayNum     \* order of the retained pass

Part == Item \cup {Surplus}

\* fee: fees; off: coupon discount per item; worth: value of the coupons;
\* zm, acc: zhimi and retained money to deduct; coach: an item is a coach fee.
ASSUME DeductionAssumption ==
  /\ Surplus \notin Item /\ IsFiniteSet(Item)
  /\ Requests \subseteq [fee : [Item -> Nat], off : [Item -> Nat], worth : Nat,
                         zm : Int, acc : Int, coach : BOOLEAN]
  /\ ZmCouponNum \in [Item -> Nat] /\ DelayNum \in [Item -> Nat]

VARIABLES
  req,        \* the request
  phase,      \* "check", "refused", "zhimi", "retained", "done"
  left,       \* items the running pass has still to visit
  zmDeduction, accDeduction, \* what is left of the requested deductions
  zhimi, retained,           \* sub serials: what each item takes of them
  payable,    \* what each item has still to pay
  allPayable, \* cash due for the batch so far
  cashSerial  \* items with a cash sub serial

vars == <<req, phase, left, zmDeduction, accDeduction, zhimi, retained, payable,
          allPayable, cashSerial>>

Init ==
  /\ req \in Requests
  /\ phase = "check" /\ left = Item
  /\ zmDeduction = req.zm /\ accDeduction = req.acc
  /\ zhimi = [i \in Item |-> 0] /\ retained = [i \in Item |-> 0]
  /\ payable = req.fee
  /\ allPayable = 0 /\ cashSerial = {}

\* E60043: more coupon discount than the coupons are worth.
CouponsOverdrawn == SumFunction(req.off) > req.worth

\* Mutant: a negative zhimi deduction passes.
RefusableZhimi == (req.coach /\ req.zm > 0) \/ req.acc < 0 \/ CouponsOverdrawn

\* E60025 zhimi on a coach fee, E60013 and E60014 negative deductions, E60043.
Refusable ==
  \/ req.coach /\ req.zm > 0
  \/ req.acc < 0
  \/ req.zm < 0
  \/ CouponsOverdrawn

Check ==
  /\ phase = "check"
  /\ phase' = IF Refusable THEN "refused" ELSE "zhimi"
  /\ UNCHANGED <<req, left, zmDeduction, accDeduction, zhimi, retained, payable, allPayable, cashSerial>>

\* The sort of a pass; items with equal numbers come in the order of the database.
IsNext(i, num) == i \in left /\ \A j \in left : num[i] <= num[j]

\* zmDeductionDetail for one item: coupons first, at most down to nothing, then
\* zhimi, as much as is left of it or as the item still needs.
DeductZhimi(i) ==
  /\ phase = "zhimi" /\ IsNext(i, ZmCouponNum)
  /\ LET sum == NetFee(req.fee, req.off, i)
         take == Lesser(zmDeduction, sum)
     IN  /\ zhimi' = [zhimi EXCEPT ![i] = take]
         /\ zmDeduction' = zmDeduction - take
         /\ payable' = [payable EXCEPT ![i] = sum - take]
  /\ left' = left \ {i}
  /\ UNCHANGED <<req, phase, accDeduction, retained, allPayable, cashSerial>>

\* Mutant: the second pass begins where the first one ended.
SortNothing ==
  /\ phase = "zhimi" /\ left = {}
  /\ phase' = "retained"
  /\ UNCHANGED <<req, left, zmDeduction, accDeduction, zhimi, retained, payable, allPayable, cashSerial>>

\* The serials are sorted again, for the second pass.
SortByDelayNum ==
  /\ phase = "zhimi" /\ left = {}
  /\ phase' = "retained" /\ left' = Item
  /\ UNCHANGED <<req, zmDeduction, accDeduction, zhimi, retained, payable, allPayable, cashSerial>>

\* Mutant: nothing to pay needs no sub serial.
CashIsPaid(i, sum) == sum > 0

\* A cash sub serial is made for what remains, and for a fee of nothing.
NeedsCashSerial(i, sum) == sum > 0 \/ req.fee[i] = 0

\* Mutant: retained money is used only on an item it covers.
DeductRetainedSkipping(i) ==
  /\ phase = "retained" /\ IsNext(i, DelayNum)
  /\ LET take == IF accDeduction >= payable[i] THEN payable[i] ELSE 0
         sum == payable[i] - take
     IN  /\ retained' = [retained EXCEPT ![i] = take]
         /\ accDeduction' = accDeduction - take
         /\ payable' = [payable EXCEPT ![i] = sum]
         /\ allPayable' = allPayable + sum
         /\ cashSerial' = IF NeedsCashSerial(i, sum) THEN cashSerial \cup {i} ELSE cashSerial
  /\ left' = left \ {i}
  /\ UNCHANGED <<req, phase, zmDeduction, zhimi>>

\* accDeduction for one item: retained money likewise.
DeductRetained(i) ==
  /\ phase = "retained" /\ IsNext(i, DelayNum)
  /\ LET take == Lesser(accDeduction, payable[i])
         sum == payable[i] - take
     IN  /\ retained' = [retained EXCEPT ![i] = take]
         /\ accDeduction' = accDeduction - take
         /\ payable' = [payable EXCEPT ![i] = sum]
         /\ allPayable' = allPayable + sum
         /\ cashSerial' = IF NeedsCashSerial(i, sum) THEN cashSerial \cup {i} ELSE cashSerial
  /\ left' = left \ {i}
  /\ UNCHANGED <<req, phase, zmDeduction, zhimi>>

Finish ==
  /\ phase = "retained" /\ left = {}
  /\ phase' = "done"
  /\ UNCHANGED <<req, left, zmDeduction, accDeduction, zhimi, retained, payable, allPayable, cashSerial>>

Next ==
  \/ Check
  \/ \E i \in Item : DeductZhimi(i) \/ DeductRetained(i)
  \/ SortByDelayNum
  \/ Finish

Spec == Init /\ [][Next]_vars

\* The bill of the batch; the zhimi left over becomes its surplus row.
Bill == [items |-> Item, zhimi |-> [p \in Part |-> IF p = Surplus THEN zmDeduction ELSE zhimi[p]],
         retained |-> retained, cash |-> allPayable]

-----------------------------------------------------------------------------
\* Types of the state; no deduction is ever used beyond what was asked.
TypeOK ==
  /\ req \in Requests
  /\ phase \in {"check", "refused", "zhimi", "retained", "done"}
  /\ left \subseteq Item /\ cashSerial \subseteq Item
  /\ zhimi \in [Item -> Nat] /\ retained \in [Item -> Nat] /\ payable \in [Item -> Nat]
  /\ zmDeduction \in Int /\ accDeduction \in Int /\ allPayable \in Nat
  /\ phase \notin {"check", "refused"} => zmDeduction >= 0 /\ accDeduction >= 0

\* The bill payTuition arrives at is one TuitionService may charge: per item
\* coupons, zhimi, retained money and cash make up the fee, and zhimi is left
\* over only when no cash and no retained money is due (so the surplus branch
\* of paySuccess never has a surplus to look at).
DoneIsBill == phase = "done" => IsBill(Bill, Item, Surplus, req.fee, req.off)

\* Every serial has a sub serial, even of a fee of nothing: the callback and
\* the back office find a payment type for each of them.
EverySerialHasASubSerial ==
  phase = "done" => \A i \in Item :
    req.off[i] > 0 \/ zhimi[i] > 0 \/ retained[i] > 0 \/ i \in cashSerial

\* The cash due depends neither on the order of the two passes nor on how ties in
\* them fall: it is what the net fees exceed the asked zhimi and retained money
\* by, all items together, although the passes go item by item and each from what
\* the one before left.
CashWhateverOrder ==
  LET due == SumFunction([i \in Item |-> NetFee(req.fee, req.off, i)])
  IN  phase = "done" => allPayable = due - Lesser(req.zm + req.acc, due)

\* Over all items nothing is lost: asked zhimi is taken or left over, retained
\* money likewise, and the cash is the sum of what the items have still to pay,
\* the same in whatever order they were visited.
DeductionsAddUp ==
  /\ SumFunction(zhimi) + zmDeduction = req.zm
  /\ SumFunction(retained) + accDeduction = req.acc
  /\ phase = "done" => allPayable = SumFunction(payable)
  /\ CashWhateverOrder
=============================================================================
