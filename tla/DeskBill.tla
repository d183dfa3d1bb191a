------------------------------- MODULE DeskBill ------------------------------
(***************************************************************************)
(* What a payment at the desk comes to, computed twice: by the page, which   *)
(* spreads the ticked coupons over the ticked items (stdfee-pay.js), and by  *)
(* the back office, which spreads zhimi and retained money over what the     *)
(* coupons leave (BdTuitionService).  Amounts are whole; zhimi are counted    *)
(* by what they are worth.                                                    *)
(***************************************************************************)
EXTENDS Integers, FiniteSets, Functions, Folds

CONSTANTS
  Item,        \* fee items of the student
  YCodes,      \* items whose code begins with Y
  Coaching,    \* items that zhimi may not pay
  Fee,         \* what is due for each item
  Coupon,      \* coupons of the student
  Worth,       \* amount of each coupon
  Covers,      \* itemCodes of each coupon, also of items the student has not got
  RowNo,       \* place of each item on the page
  CouponNo,    \* place of each coupon on the page
  ZmCouponNum, \* order in which zhimi pay
  DelayNum     \* order in which retained money pays

ASSUME BillAssumption ==
  /\ IsFiniteSet(Item) /\ IsFiniteSet(Coupon)
  /\ YCodes \subseteq Item /\ Coaching \subseteq Item
  /\ Fee \in [Item -> Nat]
  /\ Worth \in [Coupon -> Nat \ {0}] /\ \A c \in Coupon : IsFiniteSet(Covers[c])
  /\ RowNo \in [Item -> Nat] /\ CouponNo \in [Coupon -> Nat]
  /\ ZmCouponNum \in [Item -> Nat] /\ DelayNum \in [Item -> Nat]

\* An entry of couponDetails: a coupon pays a price on an item.
Detail == [coupon : Coupon, item : Item, price : Nat]

Deducted(details) == SumFunction([d \in details |-> d.price])
OnItem(details, i) == {d \in details : d.item = i}
OfCoupon(details, c) == {d \in details : d.coupon = c}

Due == [items \in SUBSET Item |-> SumFunctionOnSet(Fee, items)]

AtLeastZero(a) == IF a > 0 THEN a ELSE 0
Least(a, b) == IF a < b THEN a ELSE b

\* What becomes of a state when the members of a set act on it in turn; "last"
\* says which of a set comes last.
InTurn(act(_, _), state, last(_), set) ==
  MapThenFoldSet(LAMBDA x, s : act(s, x), state, LAMBDA x : x, last, set)

-----------------------------------------------------------------------------
\* getParInfos: the ticked items, those with a Y code first.
Before(i, j) ==
  IF (i \in YCodes) = (j \in YCodes) THEN RowNo[i] < RowNo[j] ELSE i \in YCodes

LastItem(items) == CHOOSE i \in items : \A j \in items : ~Before(i, j)

\* The coupons that may pay on an item ...
AvailableCoupons(i, money) == {c \in DOMAIN money : money[c] > 0 /\ i \in Covers[c]}

\* ... those that have the fewest items left first: an item that was visited
\* has been struck from all of them.
Left(c, visited) == Cardinality(Covers[c] \ visited)

Sooner(c, d, visited) ==
  IF Left(c, visited) = Left(d, visited) THEN CouponNo[c] < CouponNo[d]
  ELSE Left(c, visited) < Left(d, visited)

LastCoupon(coupons, visited) ==
  CHOOSE c \in coupons : \A d \in coupons : ~Sooner(c, d, visited)

\* Mutant: the coupon keeps its money.
PayFrom(t, c, i) ==
  IF ~t.open THEN t
  ELSE LET price == Least(t.due, t.money[c])
       IN  [t EXCEPT !.due = @ - price,
                     !.details = @ \cup {[coupon |-> c, item |-> i, price |-> price]},
                     !.open = t.money[c] < t.due]

\* Mutant: the first coupon is the last, whether it pays all or not.
PayByOne(t, c, i) ==
  IF ~t.open THEN t
  ELSE LET price == Least(t.due, t.money[c])
       IN  [t EXCEPT !.due = @ - price,
                     !.money[c] = @ - price,
                     !.details = @ \cup {[coupon |-> c, item |-> i, price |-> price]},
                     !.open = FALSE]

\* One coupon pays on an item: all that is due, and the item is done with, or
\* all it has, and the next coupon goes on.
PayBy(t, c, i) ==
  IF ~t.open THEN t
  ELSE LET price == Least(t.due, t.money[c])
       IN  [t EXCEPT !.due = @ - price,
                     !.money[c] = @ - price,
                     !.details = @ \cup {[coupon |-> c, item |-> i, price |-> price]},
                     !.open = t.money[c] < t.due]

\* One round of setDeduction.
PayItem(s, i) ==
  LET t == InTurn(LAMBDA u, c : PayBy(u, c, i),
                  [due |-> Fee[i], money |-> s.money, details |-> s.details, open |-> TRUE],
                  LAMBDA coupons : LastCoupon(coupons, s.visited),
                  AvailableCoupons(i, s.money))
  IN  [money |-> t.money, details |-> t.details, visited |-> s.visited \cup {i}]

\* setDeduction: what each coupon pays on which item.
SetDeduction ==
  [coupons \in SUBSET Coupon |-> [items \in SUBSET Item |->
     InTurn(PayItem, [money |-> [c \in coupons |-> Worth[c]], details |-> {}, visited |-> {}],
            LastItem, items).details]]

\* deduction: what the coupons pay in all.
CouponAmount ==
  [coupons \in SUBSET Coupon |-> [items \in SUBSET Item |->
     Deducted(SetDeduction[coupons][items])]]

\* Mutant: the rest may be negative.
CollectedRaw(items, coupons, zm, acc) ==
  Due[items] - acc - zm - CouponAmount[coupons][items]

\* The end of couponChange: the sum the clerk is to collect.
Collected(items, coupons, zm, acc) ==
  AtLeastZero(Due[items] - acc - zm - CouponAmount[coupons][items])

-----------------------------------------------------------------------------
\* The last item in an order; items that share a place in it come in any order.
LastBy(order, items) == CHOOSE i \in items : \A j \in items : order[j] <= order[i]

\* Mutant: a pass takes money for an item that is paid.
SpreadBlindly(rest, order, money) ==
  InTurn(LAMBDA s, i : LET pays == Least(Fee[i], s.left)
                       IN  [rest |-> [s.rest EXCEPT ![i] = AtLeastZero(@ - pays)],
                            took |-> [s.took EXCEPT ![i] = pays],
                            left |-> s.left - pays],
         [rest |-> rest, took |-> [i \in DOMAIN rest |-> 0], left |-> money],
         LAMBDA items : LastBy(order, items), DOMAIN rest)

\* Money pays on an item what is left to pay, as far as it goes.
Pays(s, i) ==
  LET pays == Least(s.rest[i], s.left)
  IN  [rest |-> [s.rest EXCEPT ![i] = @ - pays],
       took |-> [s.took EXCEPT ![i] = pays],
       left |-> s.left - pays]

\* One pass of BdTuitionService.payTuition: money goes to the items in an order.
Spread(rest, order, money) ==
  InTurn(Pays, [rest |-> rest, took |-> [i \in DOMAIN rest |-> 0], left |-> money],
         LAMBDA items : LastBy(order, items), DOMAIN rest)

\* The serials of a payment: what each way of paying pays on each item; what
\* is left of the zhimi is the surplus.
ServerBill(items, details, zm, acc) ==
  LET afterCoupons == [i \in items |-> AtLeastZero(Fee[i] - Deducted(OnItem(details, i)))]
      byZhimi == Spread(afterCoupons, ZmCouponNum, zm)
      byRetained == Spread(byZhimi.rest, DelayNum, acc)
  IN  [zhimi |-> byZhimi.took, surplus |-> byZhimi.left,
       retained |-> byRetained.took, cash |-> byRetained.rest]
=============================================================================
