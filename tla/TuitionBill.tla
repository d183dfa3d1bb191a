----------------------------- MODULE TuitionBill ----------------------------
(***************************************************************************)
(* What a bill is: the split of the fees of some items over coupons, zhimi, *)
(* the retained account and cash that BdsTuitionService.payTuition computes *)
(* and the serials of a batch store.  Module Deduction computes it, module  *)
(* TuitionService charges it.  One unit is 0.01 yuan, which is one zhimi    *)
(* (yz.zhimi.scale = 100).                                                 *)
(***************************************************************************)
EXTENDS Integers

\* The smaller amount: what is left of a deduction never exceeds the fee it meets.
Lesser(a, b) == IF a < b THEN a ELSE b

\* The fee of item i once the coupons took off[i], at most all of it.
NetFee(fee, off, i) == fee[i] - Lesser(off[i], fee[i])

\* What item i leaves to cash.
CashPart(b, i, fee, off) == NetFee(fee, off, i) - b.zhimi[i] - b.retained[i]

\* b is a split of fee over the items of b.items with coupon discounts off: no
\* item is overcharged, cash is due iff some item leaves some, and zhimi asked
\* in excess is possible only when nothing else is left to pay.
IsBill(b, Item, Surplus, fee, off) ==
  /\ \A i \in Item \ b.items : b.zhimi[i] = 0 /\ b.retained[i] = 0
  /\ \A i \in b.items : CashPart(b, i, fee, off) >= 0
  /\ (\E i \in b.items : CashPart(b, i, fee, off) > 0) <=> b.cash > 0
  /\ b.zhimi[Surplus] > 0 => b.cash = 0 /\ \A i \in b.items : b.retained[i] = 0
=============================================================================
