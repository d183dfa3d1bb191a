--------------------------------- MODULE Desk --------------------------------
(***************************************************************************)
(* Payment at the desk: the page stdfee-pay.js on which a clerk ticks fee     *)
(* years and coupons and collects what it shows, and BdTuitionService of the  *)
(* back office, which reckons once more from the database and books it, while *)
(* the student may pay, or spend coupons and zhimi, by other ways.            *)
(* The script of the page runs each event to its end; the boxes that one box  *)
(* ticks by .click() are steps of their own (DeskBoxes), and only the student *)
(* and the database go on between them.                                     *)
(***************************************************************************)
EXTENDS DeskBill, DeskBoxes

CONSTANTS
  None,            \* no request, no bill
  YearOf,          \* the year of each item
  ZmFields,        \* what the clerk enters for zhimi ...
  AccFields,       \* ... and for the retained account
  OpeningZhimi, OpeningRetained, \* balances when the page is opened
  MaxElsewhere     \* bound: how often the student pays or spends elsewhere

\* What is submitted, and the serials that are made out for some of the items.
Request ==
  [items : SUBSET Item, details : SUBSET Detail, zm : Nat, acc : Nat, shown : Nat, print : BOOLEAN]

Bill(items) ==
  [zhimi : [items -> Nat], surplus : Nat, retained : [items -> Nat], cash : [items -> Nat]]

ASSUME DeskAssumption ==
  /\ None \notin Request /\ \A items \in SUBSET Item : None \notin Bill(items)
  /\ YearOf \in [Item -> Year]
  /\ ZmFields \subseteq Nat /\ AccFields \subseteq Nat
  /\ OpeningZhimi \in Nat /\ OpeningRetained \in Nat /\ MaxElsewhere \in Nat

VARIABLES
  listed,        \* coupons the page has received
  ticked,        \* coupons that are ticked
  shown,         \* coupons with class show
  zm, acc,       \* the fields zmDeduction and accDeduction
  details,       \* couponsStr: what is deducted by coupons
  paid,          \* paidAmount: what the clerk collects
  phase,         \* of the payment: "page", "sent", "billed", "charged", "booked"
  request,       \* what was submitted
  bill,          \* the serials of the payment
  unpaid,        \* MySQL: items still to be paid
  usable,        \* MySQL: coupons not used
  zhimi, retained, \* balances
  elsewhere      \* how often the student has paid or spent elsewhere

page == <<listed, ticked, shown, zm, acc, details, paid>>
payment == <<phase, request, bill>>
accounts == <<unpaid, usable, zhimi, retained, elsewhere>>
vars == <<boxes, page, payment, accounts>>

ItemsOf(y) == {i \in Item : y[YearOf[i]]}

Init ==
  /\ BoxesInit
  /\ listed = {} /\ ticked = {} /\ shown = {}
  /\ zm = 0 /\ acc = 0
  /\ details = {} /\ paid = 0
  /\ phase = "page" /\ request = None /\ bill = None
  /\ unpaid = Item /\ usable = Coupon
  /\ zhimi = OpeningZhimi /\ retained = OpeningRetained /\ elsewhere = 0

-----------------------------------------------------------------------------
\* The page is open and its script at rest.
Idle == phase = "page" /\ pending = {}

\* The answer of stdCoupon.do: coupons are listed, and not yet shown.
CouponsArrive ==
  /\ Idle /\ listed = {}
  /\ listed' = usable
  /\ UNCHANGED <<boxes, ticked, shown, zm, acc, details, paid, payment, accounts>>

\* countAmount and couponChange: what the coupons pay, and the rest.
Reckon(items, coupons, z, a) ==
  /\ details' = SetDeduction[coupons][items]
  /\ paid' = Collected(items, coupons, z, a)

\* The box of a year has changed: yearChange reckons with the coupons shown so
\* far, then shows those that go with what is ticked now.
YearChange ==
  /\ Reckon(ItemsOf(year'), shown \cap ticked, zm, acc)
  /\ shown' = {c \in listed : Covers[c] \cap ItemsOf(year') # {}}
  /\ UNCHANGED <<listed, ticked, zm, acc, payment, accounts>>

ClickYear(y) == Idle /\ BoxClicked(y) /\ YearChange

Cascade == \E y \in Year : BoxFollows(y) /\ YearChange

ClickAll == Idle /\ AllClicked /\ UNCHANGED <<page, payment, accounts>>

ClickCoupon(c) ==
  /\ Idle /\ c \in shown
  /\ ticked' = IF c \in ticked THEN ticked \ {c} ELSE ticked \cup {c}
  /\ Reckon(ItemsOf(year), shown \cap ticked', zm, acc)
  /\ UNCHANGED <<boxes, listed, shown, zm, acc, payment, accounts>>

EditZm(z) ==
  /\ Idle
  /\ zm' = z
  /\ Reckon(ItemsOf(year), shown \cap ticked, z, acc)
  /\ UNCHANGED <<boxes, listed, ticked, shown, acc, payment, accounts>>

EditAcc(a) ==
  /\ Idle
  /\ acc' = a
  /\ Reckon(ItemsOf(year), shown \cap ticked, zm, a)
  /\ UNCHANGED <<boxes, listed, ticked, shown, zm, payment, accounts>>

\* The form is valid (the balances are those the page was opened with) and sent
\* to pay.do, or to payAndPrint.do, which does not read couponsStr.
Submit(print) ==
  /\ Idle
  /\ \E y \in Year : year[y]
  /\ zm <= OpeningZhimi /\ acc <= OpeningRetained
  /\ phase' = "sent"
  /\ request' = [items |-> ItemsOf(year), details |-> IF print THEN {} ELSE details,
                 zm |-> zm, acc |-> acc, shown |-> paid, print |-> print]
  /\ UNCHANGED <<boxes, page, bill, accounts>>

-----------------------------------------------------------------------------
\* An exception: the transaction is rolled back, the page gets an error and its
\* token back, and may submit again.
BackToPage == phase' = "page" /\ request' = None /\ bill' = None

\* E60025 zhimi on a coaching fee, E60043 more than a coupon is worth, or a
\* coupon that may not be used any more.
Refusable(r) ==
  \/ r.zm > 0 /\ r.items \cap unpaid \cap Coaching # {}
  \/ \E d \in r.details : d.coupon \notin usable
  \/ \E c \in Coupon : Deducted(OfCoupon(r.details, c)) > Worth[c]

Refuse ==
  /\ phase = "sent" /\ Refusable(request)
  /\ BackToPage
  /\ UNCHANGED <<boxes, page, accounts>>

\* payTuition reads the items that are still unpaid and makes out the serials.
MakeOut ==
  /\ phase = "sent" /\ ~Refusable(request)
  /\ LET items == request.items \cap unpaid
     IN  bill' = ServerBill(items, request.details, request.zm, request.acc)
  /\ phase' = "billed"
  /\ UNCHANGED <<boxes, page, request, accounts>>

\* The movements of one serial, in the user service: zhimi that are short are
\* not taken and nobody is told, retained money that is short is an error.
Move(s, i) ==
  IF ~s.ok THEN s
  ELSE [zhimi |-> IF bill.zhimi[i] <= s.zhimi THEN s.zhimi - bill.zhimi[i] ELSE s.zhimi,
        retained |-> s.retained - bill.retained[i],
        ok |-> bill.retained[i] <= s.retained]

Movements ==
  InTurn(Move, [zhimi |-> zhimi, retained |-> retained, ok |-> TRUE],
         LAMBDA items : LastBy(DelayNum, items), DOMAIN bill.cash)

\* transMore moves the accounts in a transaction of its own; the zhimi in redis
\* in none.
Charge ==
  /\ phase = "billed"
  /\ LET m == Movements
     IN  IF m.ok
         THEN /\ zhimi' = IF bill.surplus <= m.zhimi THEN m.zhimi - bill.surplus ELSE m.zhimi
              /\ retained' = m.retained
              /\ phase' = "charged"
              /\ UNCHANGED <<request, bill>>
         ELSE /\ zhimi' = m.zhimi
              /\ BackToPage
              /\ UNCHANGED retained
  /\ UNCHANGED <<boxes, page, unpaid, usable, elsewhere>>

\* Items become paid, and if a coupon paid on one of them all coupons that were
\* submitted are used.
Commit ==
  /\ phase = "charged"
  /\ phase' = "booked"
  /\ unpaid' = unpaid \ request.items
  /\ usable' = IF \E i \in DOMAIN bill.cash : Deducted(OnItem(request.details, i)) > 0
               THEN usable \ {d.coupon : d \in request.details} ELSE usable
  /\ UNCHANGED <<boxes, page, request, bill, zhimi, retained, elsewhere>>

\* Something after transMore throws, or the commit fails: what was taken is gone.
CommitFails ==
  /\ phase = "charged"
  /\ BackToPage
  /\ UNCHANGED <<boxes, page, accounts>>

-----------------------------------------------------------------------------
\* Meanwhile the student pays an item online, or spends a coupon or some zhimi.
PaidElsewhere(i) ==
  /\ i \in unpaid
  /\ unpaid' = unpaid \ {i}
  /\ UNCHANGED <<boxes, page, payment, usable, zhimi, retained>>

UsedElsewhere(c) ==
  /\ c \in usable
  /\ usable' = usable \ {c}
  /\ UNCHANGED <<boxes, page, payment, unpaid, zhimi, retained>>

SpentElsewhere ==
  /\ zhimi > 0
  /\ zhimi' = zhimi - 1
  /\ UNCHANGED <<boxes, page, payment, unpaid, usable, retained>>

Clerk ==
  \/ \E y \in Year : ClickYear(y)
  \/ ClickAll
  \/ \E c \in Coupon : ClickCoupon(c)
  \/ \E z \in ZmFields : EditZm(z)
  \/ \E a \in AccFields : EditAcc(a)
  \/ \E print \in BOOLEAN : Submit(print)

Server == Refuse \/ MakeOut \/ Charge \/ Commit \/ CommitFails

Elsewhere ==
  /\ elsewhere < MaxElsewhere
  /\ elsewhere' = elsewhere + 1
  /\ \/ \E i \in Item : PaidElsewhere(i)
     \/ \E c \in Coupon : UsedElsewhere(c)
     \/ SpentElsewhere

Next == CouponsArrive \/ Cascade \/ Clerk \/ Server \/ Elsewhere

Spec == Init /\ [][Next]_vars

FairSpec == Spec /\ ScriptRuns

-----------------------------------------------------------------------------
\* Types of the state.
TypeOK ==
  /\ year \in [Year -> BOOLEAN] /\ all \in BOOLEAN
  /\ pending \subseteq Year /\ turn \in BOOLEAN
  /\ listed \subseteq Coupon /\ ticked \subseteq listed /\ shown \subseteq listed
  /\ zm \in ZmFields \cup {0} /\ acc \in AccFields \cup {0}
  /\ details \subseteq Detail /\ paid \in Nat
  /\ phase \in {"page", "sent", "billed", "charged", "booked"}
  /\ request \in Request \cup {None} /\ (phase = "page" <=> request = None)
  /\ bill # None => \E items \in SUBSET request.items : bill \in Bill(items)
  /\ phase \in {"page", "sent"} <=> bill = None
  /\ unpaid \subseteq Item /\ usable \subseteq Coupon
  /\ zhimi \in Nat /\ retained \in Nat /\ elsewhere \in 0..MaxElsewhere

\* Coupons pay only on ticked items they are meant for, no item is paid more
\* than is due, and no coupon pays more than it is worth.
DeductionSound ==
  /\ \A d \in details : d.coupon \in ticked /\ d.item \in ItemsOf(year) \cap Covers[d.coupon]
  /\ \A i \in Item : Deducted(OnItem(details, i)) <= Fee[i]
  /\ \A c \in Coupon : Deducted(OfCoupon(details, c)) <= Worth[c]

\* A coupon that is spent on something is spent as far as it goes: it keeps no
\* money while an item it is meant for is still to be paid.
NothingLeftOver ==
  \A c \in {d.coupon : d \in details}, i \in ItemsOf(year) :
    i \in Covers[c] /\ Deducted(OnItem(details, i)) < Fee[i] =>
      Deducted(OfCoupon(details, c)) = Worth[c]

\* The cash of a bill is what the clerk was shown: the page reckons with sums,
\* the back office item by item, in two orders of its own; it is less if an
\* item was paid elsewhere in between.
BooksShown(r, b) ==
  LET cash == SumFunction(b.cash)
  IN  cash <= r.shown /\ (DOMAIN b.cash = r.items => cash = r.shown)

\* pay.do books what the clerk was shown.
PayBooksWhatIsShown == bill # None /\ ~request.print => BooksShown(request, bill)

\* stdfee-pay.js:178 calls what is shown the sum that is actually paid
\* (实付金额), for both buttons: also payAndPrint.do books it.
BooksWhatIsShown == bill # None => BooksShown(request, bill)
=============================================================================
