--------------------------- MODULE TuitionPromise ---------------------------
(***************************************************************************)
(* What the tuition payment core promises, as if each batch were one step:  *)
(* it is settled at most once, with its items paid, its coupons spent and   *)
(* its whole retained part taken from a balance that covers it, or it is    *)
(* refunded once, with exactly its cash added to that balance, and either   *)
(* is for good.  TuitionService implements it when callbacks of one batch   *)
(* do not overlap.                                                          *)
(***************************************************************************)
EXTENDS Integers, Functions

CONSTANTS Mark, Item, None, Bills, OpeningRetained

VARIABLES bill, status, paid, used, account

vars == <<bill, status, paid, used, account>>

Init ==
  /\ bill = [m \in Mark |-> None] /\ status = [m \in Mark |-> "none"]
  /\ paid = {} /\ used = {} /\ account = OpeningRetained

\* The retained money a bill takes.
Due(b) == SumFunctionOnSet(b.retained, Item)

Place(m, b) ==
  /\ status[m] = "none" /\ b.cash > 0
  /\ b.items \cap paid = {} /\ b.coupons \cap used = {}
  /\ bill' = [bill EXCEPT ![m] = b]
  /\ status' = [status EXCEPT ![m] = "process"]
  /\ UNCHANGED <<paid, used, account>>

Settled(m, b) ==
  /\ Due(b) <= account
  /\ bill' = [bill EXCEPT ![m] = b]
  /\ status' = [status EXCEPT ![m] = "uncheck"]
  /\ paid' = paid \cup b.items /\ used' = used \cup b.coupons
  /\ account' = account - Due(b)

Settle(m) == status[m] = "process" /\ Settled(m, bill[m])

Deduct(m, b) == status[m] = "none" /\ b.cash = 0 /\ Settled(m, b)

Refund(m) ==
  /\ status[m] = "process"
  /\ status' = [status EXCEPT ![m] = "failed"]
  /\ account' = account + bill[m].cash
  /\ UNCHANGED <<bill, paid, used>>

Next == \E m \in Mark :
  \/ Settle(m) \/ Refund(m)
  \/ \E b \in Bills : Place(m, b) \/ Deduct(m, b)

Spec == Init /\ [][Next]_vars
=============================================================================
