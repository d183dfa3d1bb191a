---------------------------- MODULE TuitionSystem ---------------------------
(***************************************************************************)
(* The whole way of a tuition payment: PayPipeline carries the notification *)
(* of a batch to TuitionService, which executes paySuccess for it.  The     *)
(* execution belongs to the event: it starts with the call and goes on when *)
(* the caller has given up.  Placing batches and orders that need no cash    *)
(* come from clients, directly.                                             *)
(***************************************************************************)
EXTENDS Integers, FiniteSets, Functions

CONSTANTS
  Mark, Item, Coupon, Surplus, None, Bills, OpeningRetained, OpeningZhimi, MaxRollback,
  Event, MaxNotify, MaxResend, Shards, OperatorWaits, KeyOutlives,
  Client          \* threads of the user service that serve clients

VARIABLES
  bill, serial, paid, used, account, lock, zhimi, zhimiDb, accountTask, booked, award, rolls, exec,
  collected, acked, key, event, bad, lost, notified, resent

svcVars == <<bill, serial, paid, used, account, lock, zhimi, zhimiDb,
             accountTask, booked, award, rolls, exec>>
pipeVars == <<collected, acked, key, event, bad, lost, notified, resent>>
vars == <<svcVars, pipeVars>>

\* What the two modules assume, of the threads and events of this one.
ASSUME SystemAssumption ==
  /\ Client \cap Event = {} /\ None \notin Client \cup Event \cup Mark \cup Bills
  /\ Surplus \notin Item /\ IsFiniteSet(Mark) /\ IsFiniteSet(Item)
  /\ Bills \subseteq [items : SUBSET Item, coupons : SUBSET Coupon,
                      zhimi : [Item \cup {Surplus} -> Nat], retained : [Item -> Nat], cash : Nat]
  /\ {OpeningRetained, OpeningZhimi, MaxRollback, MaxNotify, MaxResend, Shards} \subseteq Nat
  /\ OperatorWaits \in BOOLEAN /\ KeyOutlives \in BOOLEAN

\* The user service, whose callbacks overlap whenever the pipeline lets them.
Svc == INSTANCE TuitionService WITH Thread <- Event \cup Client, Exclusive <- FALSE

\* The pipeline; what it knows of the service is which collected batches are final.
Pipe == INSTANCE PayPipeline WITH
  final <- {m \in collected : serial[m] \in {"uncheck", "failed"}}

Init == Svc!Init /\ Pipe!Init

-----------------------------------------------------------------------------
\* A client places a batch, or has one deducted wholly.
Order ==
  /\ \/ \E m \in Mark, b \in Bills : Svc!PayTuition(m, b)
     \/ \E t \in Client, m \in Mark, b \in Bills : Svc!PayTuitionDeducted(t, m, b)
     \/ \E t \in Client : Svc!Work(t) \/ Svc!Crash(t)
  /\ UNCHANGED pipeVars

\* The third party collects the cash of a batch that was placed.
Collect(m) == serial[m] = "process" /\ UNCHANGED svcVars /\ Pipe!Collect(m)

\* The task calls paySuccess for an event.  A batch that is final already only
\* gets its answer.
Call(e) ==
  LET m == event[e].mark
  IN  /\ event[e].place = "task"
      /\ IF serial[m] = "process" THEN Svc!PaySuccess(e, m) ELSE UNCHANGED svcVars
      /\ Pipe!Call(e)

\* The execution of an event goes on, or fails and rolls back.
Serve(e) ==
  /\ Svc!Work(e) \/ Svc!Crash(e)
  /\ IF rolls' # rolls THEN Pipe!Throw(e) ELSE UNCHANGED pipeVars

Return(e) == exec[e] = Svc!Idle /\ UNCHANGED svcVars /\ Pipe!Return(e)

\* Steps of proxy, redis, task, operator and third party that leave the service alone.
Deliver ==
  /\ UNCHANGED svcVars
  /\ \/ \E m \in Mark : Pipe!NotifyAgain(m) \/ Pipe!KeyExpires(m)
     \/ \E m \in Mark, e \in Event : Pipe!NotifyFirst(m, e) \/ Pipe!Resend(m, e)
     \/ \E e \in Event : Pipe!Push(e) \/ Pipe!Drop(e) \/ Pipe!Fetch(e) \/ Pipe!TaskCrash(e) \/ Pipe!Timeout(e)

UpdateAccount == (\E k \in DOMAIN accountTask : Svc!UpdateAccount(k)) /\ UNCHANGED pipeVars

Next ==
  \/ Order \/ Deliver \/ UpdateAccount
  \/ \E m \in Mark : Collect(m)
  \/ \E e \in Event : Call(e) \/ Serve(e) \/ Return(e)

Spec == Init /\ [][Next]_vars

\* The event e, or the execution it started, moves on.
Progress(e) ==
  \/ Call(e) \/ Return(e)
  \/ Svc!Work(e) /\ IF rolls' # rolls THEN Pipe!Throw(e) ELSE UNCHANGED pipeVars
  \/ UNCHANGED svcVars /\ (Pipe!Push(e) \/ Pipe!Fetch(e))

FairSpec ==
  /\ Spec
  /\ \A m \in Mark : /\ WF_vars(UNCHANGED svcVars /\ \E e \in Event : Pipe!NotifyFirst(m, e))
                     /\ WF_vars(UNCHANGED svcVars /\ Pipe!KeyExpires(m))
  /\ \A e \in Event : WF_vars(Progress(e))
  /\ \A t \in Client : WF_vars(Svc!Work(t) /\ UNCHANGED pipeVars)

-----------------------------------------------------------------------------
\* The service in this system is TuitionService, and when the operator waits
\* and the dedupe counter outlives the notifications, the one whose callbacks
\* never overlap: the pipeline, not the service, is what keeps them apart.
Apart == INSTANCE TuitionService WITH
  Thread <- Event \cup Client, Exclusive <- OperatorWaits /\ KeyOutlives

ServiceAsAssumed == Apart!Spec

\* What a student is promised of the whole way: a batch is placed, then settled
\* or refunded, once and whole, however often its payment is notified or resent
\* and whatever fails on the way.
PromiseToStudent == Apart!KeepsPromise

\* The pipeline in this system is PayPipeline.
PipelineAsAssumed == Pipe!Spec

\* An execution runs only for an event that is waiting for it or was given up
\* by its caller, and for the batch of that event: no answer goes to another.
ExecutionBelongs ==
  \A e \in Event : exec[e] # Svc!Idle =>
    event[e].place \in {"rpc", "orphan"} /\ event[e].mark = exec[e].mark

\* A batch with cash is settled or refunded only after the third party
\* collected that cash: no item is paid and no refund booked for nothing.
NothingForFree ==
  \A m \in Mark :
    (serial[m] \in {"uncheck", "failed"} /\ bill[m].cash > 0) => m \in collected

\* The retained balance can be reckoned from the batches alone, over service,
\* proxy and third party: it is the opening one, plus the cash of each refunded
\* batch, once and only if the third party has collected it, less what each settled
\* batch took.  A payment notified twice, a late answer or a rollback leaves no
\* trace in it (refundAmount, transMore).
AccountReconciles ==
  account = OpeningRetained + SumFunction([m \in Mark |->
    IF serial[m] = "failed" /\ m \in collected THEN bill[m].cash
    ELSE IF serial[m] = "uncheck" THEN -SumFunction(bill[m].retained) ELSE 0])

\* What paySuccess says of a callback that comes again ("重复操作"): a batch that
\* is final stays as it is.  Refuted by the run where the operator does not wait.
FinalStays ==
  [][\A m \in Mark : serial[m] \in {"uncheck", "failed"} => serial'[m] = serial[m]]_vars

\* A collected payment ends settled or refunded, or is shown to the operator as
\* a bad payment, or was lost in one of the pipeline's windows.
PaymentHandled ==
  \A m \in Mark : m \in collected ~>
    serial[m] \in {"uncheck", "failed"} \/ m \in bad \cup lost
=============================================================================
