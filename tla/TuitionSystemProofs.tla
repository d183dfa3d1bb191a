------------------------- MODULE TuitionSystemProofs ------------------------
(* The composed system, for any number of batches, events, clients and bills:  *)
(* each part is what the other assumes of it, so that what is proved of either *)
(* holds of the whole.                                                         *)
EXTENDS TuitionSystem, Sequences, TLAPS

Thread == Event \cup Client

\* The parts, with what is proved of them.
A == INSTANCE TuitionAccountsProofs WITH
  Thread <- Event \cup Client, Exclusive <- OperatorWaits /\ KeyOutlives
P == INSTANCE PayPipelineProofs WITH
  final <- {m \in collected : serial[m] \in {"uncheck", "failed"}}

\* A client executes only what needs no cash.
ClientsDeduct == \A t \in Client : exec[t] # Svc!Idle => bill[exec[t].mark].cash = 0

\* What waits for a callback, or was collected, needs cash.
CashNeeded ==
  /\ \A m \in Mark : serial[m] = "process" => bill[m].cash # 0
  /\ \A m \in collected : bill[m] # None /\ bill[m].cash # 0

\* Events and bad payment rows are of batches that were collected.
Delivered ==
  /\ \A e \in Event : event[e].mark # None => event[e].mark \in collected
  /\ bad \subseteq collected

Own == ExecutionBelongs /\ ClientsDeduct /\ CashNeeded /\ Delivered /\ NothingForFree

\* The inductive invariant: each part's own, and what ties them together.
IInv == A!IInv /\ P!IInv /\ Own

-----------------------------------------------------------------------------
LEMMA PartsAssume == A!ServiceAssumption /\ P!PipelineAssumption
<1>1. A!ServiceAssumption
  BY SystemAssumption DEF A!ServiceAssumption, A!Part, A!IsFiniteSet, IsFiniteSet
<1>2. P!PipelineAssumption
  BY SystemAssumption DEF P!PipelineAssumption
<1>3. QED
  BY <1>1, <1>2

\* The actions of the service are those the theorems about it speak of.
LEMMA SameWork ==
  ASSUME NEW t
  PROVE  /\ Svc!Work(t) => A!Work(t)
         /\ Svc!Crash(t) => A!Crash(t)
<1>1. Svc!Work(t) => A!Work(t)
  BY Zenon DEF Svc!Work, Svc!WriteRows, Svc!Collide, Svc!Charges, Svc!Part, Svc!TransferZhimi,
         Svc!TransferRetained, Svc!Covered, Svc!Balance, Svc!RollBack, Svc!TransferRefund,
         Svc!BindAndAward, Svc!Commit, Svc!Pays, Svc!Idle, Svc!Transfer,
         A!Work, A!WriteRows, A!Collide, A!Charges, A!Part, A!TransferZhimi,
         A!TransferRetained, A!Covered, A!Balance, A!RollBack, A!TransferRefund,
         A!BindAndAward, A!Commit, A!Pays, A!Idle, A!Transfer
<1>2. Svc!Crash(t) => A!Crash(t)
  BY DEF Svc!Crash, Svc!RollBack, Svc!Idle, A!Crash, A!RollBack, A!Idle
<1>3. QED
  BY <1>1, <1>2

LEMMA SamePay ==
  ASSUME NEW m, NEW b
  PROVE  /\ Svc!PayTuition(m, b) => A!PayTuition(m, b)
         /\ \A t : Svc!PayTuitionDeducted(t, m, b) => A!PayTuitionDeducted(t, m, b)
<1>1. Svc!PayTuition(m, b) => A!PayTuition(m, b)
  BY DEF Svc!PayTuition, Svc!FullyDeducted, Svc!Orderable,
         A!PayTuition, A!FullyDeducted, A!Orderable
<1>2. ASSUME NEW t PROVE Svc!PayTuitionDeducted(t, m, b) => A!PayTuitionDeducted(t, m, b)
  BY DEF Svc!PayTuitionDeducted, Svc!FullyDeducted, Svc!Orderable, Svc!Begin, Svc!Idle,
         A!PayTuitionDeducted, A!FullyDeducted, A!Orderable, A!Begin, A!Idle
<1>3. QED
  BY <1>1, <1>2

\* A callback of the system is one of the service, if no other one of its batch runs.
LEMMA SameCallback ==
  ASSUME NEW t, NEW m, Svc!PaySuccess(t, m),
         OperatorWaits /\ KeyOutlives => \A u \in Thread : exec[u].mark # m
  PROVE  A!PaySuccess(t, m)
BY DEF Thread, Svc!PaySuccess, Svc!Unfinished, Svc!Begin, Svc!Available, Svc!Idle,
       A!PaySuccess, A!Unfinished, A!Begin, A!Available, A!Idle

LEMMA SameUpdate ==
  ASSUME NEW k, Svc!UpdateAccount(k)
  PROVE  A!UpdateAccount(k)
BY DEF Svc!UpdateAccount, Svc!RemoveAt, A!UpdateAccount, A!RemoveAt

LEMMA IdleIs == Svc!Idle = A!Idle /\ A!Idle.mark = None /\ A!Idle.pc = "idle"
BY DEF Svc!Idle, A!Idle

\* What a step of an execution does that the pipeline could notice.
LEMMA Executed ==
  ASSUME A!IInv, NEW t \in Thread, Svc!Work(t) \/ Svc!Crash(t)
  PROVE  /\ exec[t] # A!Idle /\ exec[t].mark \in Mark /\ bill[exec[t].mark] \in Bills
         /\ bill' = bill
         /\ \A u \in Thread : u # t => exec'[u] = exec[u]
         /\ exec'[t] = A!Idle \/ exec'[t].mark = exec[t].mark
         /\ rolls' # rolls => exec'[t] = A!Idle
         /\ \A m \in Mark : m # exec[t].mark => serial'[m] = serial[m]
         /\ serial' = serial \/ serial'[exec[t].mark] \in {"uncheck", "failed"}
<1>1. A!TypeOK /\ A!Busy
  BY DEF A!IInv
<1>2. exec[t] # A!Idle
  <2>1. exec[t].pc # "idle" \/ exec[t] # A!Idle
    BY Zenon, SameWork DEF A!Work, A!WriteRows, A!TransferZhimi, A!TransferRetained, A!TransferRefund,
                    A!BindAndAward, A!Commit, A!Crash
  <2>2. QED
    BY Zenon, <2>1, IdleIs
<1>3. exec[t].mark \in Mark /\ bill[exec[t].mark] \in Bills
  BY <1>1, <1>2 DEF A!Busy, Thread
<1>4. CASE A!RollBack(t) /\ UNCHANGED <<bill, serial>>
  BY <1>1, <1>2, <1>3, <1>4 DEF A!RollBack, A!TypeOK, Thread
<1>5. CASE A!Commit(t)
  BY <1>1, <1>2, <1>3, <1>5 DEF A!Commit, A!TypeOK, Thread
<1>6. CASE A!WriteRows(t) \/ A!TransferRefund(t) \/ A!BindAndAward(t)
  BY <1>1, <1>2, <1>3, <1>6 DEF A!WriteRows, A!TransferRefund, A!BindAndAward, A!TypeOK, Thread
<1>7. ASSUME NEW p, A!TransferZhimi(t, p)
      PROVE  /\ bill' = bill /\ serial' = serial /\ rolls' = rolls
             /\ \A u \in Thread : u # t => exec'[u] = exec[u]
             /\ exec'[t].mark = exec[t].mark
  BY <1>1, <1>7 DEF A!TransferZhimi, A!TypeOK, Thread
<1>8. ASSUME NEW i, A!TransferRetained(t, i), ~A!RollBack(t)
      PROVE  /\ bill' = bill /\ serial' = serial /\ rolls' = rolls
             /\ \A u \in Thread : u # t => exec'[u] = exec[u]
             /\ exec'[t].mark = exec[t].mark
  BY <1>1, <1>8 DEF A!TransferRetained, A!TypeOK, Thread
<1>9. ASSUME NEW i, A!TransferRetained(t, i)
       PROVE  UNCHANGED <<bill, serial>>
  BY <1>9 DEF A!TransferRetained
<1>10. A!Crash(t) => A!RollBack(t) /\ UNCHANGED <<bill, serial>>
  BY DEF A!Crash
<1>11. A!Work(t) \/ A!Crash(t)
  BY SameWork
<1>12. QED
  BY <1>2, <1>3, <1>4, <1>5, <1>6, <1>7, <1>8, <1>9, <1>10, <1>11 DEF A!Work

-----------------------------------------------------------------------------
LEMMA WasDelivered ==
  ASSUME IInv
  PROVE  /\ \A e \in Event : event[e].mark # None => event[e].mark \in collected
         /\ bad \subseteq collected /\ collected \subseteq Mark
BY DEF IInv, Own, Delivered, P!IInv, P!TypeOK

\* Steps of the pipeline alone keep what ties the parts together, if they take
\* no event from an execution and deliver only what was collected.
LEMMA PipeKeepsOwn ==
  ASSUME IInv, UNCHANGED <<svcVars, collected>>, bad' \subseteq collected,
         \A e \in Event : event'[e].mark # None => event'[e].mark \in collected,
         \A e \in Event : event'[e] = event[e] \/ exec[e] = A!Idle
           \/ (event'[e].place \in {"rpc", "orphan"} /\ event'[e].mark = event[e].mark)
  PROVE  Own'
<1>1. ExecutionBelongs'
  BY IdleIs DEF IInv, Own, ExecutionBelongs, svcVars, Svc!Idle
<1>2. ClientsDeduct' /\ CashNeeded' /\ Delivered' /\ NothingForFree'
  BY DEF IInv, Own, ClientsDeduct, CashNeeded, Delivered, NothingForFree, svcVars, Svc!Idle
<1>3. QED
  BY <1>1, <1>2 DEF Own

LEMMA EventKeepsOwn ==
  ASSUME IInv, NEW e \in Event, UNCHANGED svcVars, UNCHANGED collected, bad' \subseteq collected,
         \A f \in Event : f # e => event'[f] = event[f],
         event'[e].mark \in collected \cup {None},
         exec[e] = A!Idle
           \/ (event'[e].place \in {"rpc", "orphan"} /\ event'[e].mark = event[e].mark)
  PROVE  Own'
<1>1. \A f \in Event : event'[f].mark # None => event'[f].mark \in collected
  BY WasDelivered
<1>2. \A f \in Event : event'[f] = event[f] \/ exec[f] = A!Idle
        \/ (event'[f].place \in {"rpc", "orphan"} /\ event'[f].mark = event[f].mark)
  OBVIOUS
<1>3. QED
  BY <1>1, <1>2, PipeKeepsOwn

\* Executions of clients and events keep it.
LEMMA WorkKeepsOwn ==
  ASSUME IInv, NEW t \in Thread, Svc!Work(t) \/ Svc!Crash(t),
         UNCHANGED collected, bad' \subseteq collected,
         \A e \in Event : event'[e].mark # None => event'[e].mark \in collected,
         \A e \in Event : event'[e] = event[e] \/ (e = t /\ exec'[t] = A!Idle)
  PROVE  Own'
<1>1. /\ exec[t] # A!Idle /\ exec[t].mark \in Mark /\ bill[exec[t].mark] \in Bills
      /\ bill' = bill
      /\ \A u \in Thread : u # t => exec'[u] = exec[u]
      /\ exec'[t] = A!Idle \/ exec'[t].mark = exec[t].mark
      /\ \A m \in Mark : m # exec[t].mark => serial'[m] = serial[m]
      /\ serial' = serial \/ serial'[exec[t].mark] \in {"uncheck", "failed"}
  BY Executed DEF IInv
<1>2. ExecutionBelongs'
  <2> SUFFICES ASSUME NEW e \in Event, exec'[e] # Svc!Idle
               PROVE  event'[e].place \in {"rpc", "orphan"} /\ event'[e].mark = exec'[e].mark
    BY IdleIs DEF ExecutionBelongs, Svc!Idle
  <2>1. exec[e] # Svc!Idle => event[e].place \in {"rpc", "orphan"} /\ event[e].mark = exec[e].mark
    BY DEF IInv, Own, ExecutionBelongs
  <2>2. event'[e] = event[e]
    BY Zenon, IdleIs
  <2>3. CASE e = t
    BY Zenon, <1>1, <2>1, <2>2, <2>3, IdleIs
  <2>4. CASE e # t
    <3>1. exec'[e] = exec[e]
      BY Zenon, <1>1, <2>4 DEF Thread
    <3>2. QED
      BY Zenon, <2>1, <2>2, <3>1
  <2>5. QED
    BY Zenon, <2>3, <2>4
<1>3. ClientsDeduct'
  <2> SUFFICES ASSUME NEW u \in Client, exec'[u] # Svc!Idle PROVE bill'[exec'[u].mark].cash = 0
    BY DEF ClientsDeduct
  <2>1. exec[u] # Svc!Idle => bill[exec[u].mark].cash = 0
    BY DEF IInv, Own, ClientsDeduct
  <2>2. CASE u = t
    BY Zenon, <1>1, <2>1, <2>2, IdleIs
  <2>3. CASE u # t
    <3>1. exec'[u] = exec[u]
      BY Zenon, <1>1, <2>3 DEF Thread
    <3>2. QED
      BY Zenon, <1>1, <2>1, <3>1
  <2>4. QED
    BY Zenon, <2>2, <2>3
<1>4. CashNeeded' /\ Delivered'
  BY <1>1 DEF IInv, Own, CashNeeded, Delivered
<1>5. bill[exec[t].mark].cash = 0 \/ exec[t].mark \in collected
  <2>1. CASE t \in Client
    BY <1>1, <2>1, IdleIs DEF IInv, Own, ClientsDeduct
  <2>2. CASE t \in Event
    <3>1. event[t].mark = exec[t].mark /\ exec[t].mark # None
      BY <1>1, <2>2, IdleIs, SystemAssumption DEF IInv, Own, ExecutionBelongs
    <3>2. QED
      BY <2>2, <3>1 DEF IInv, Own, Delivered
  <2>3. QED
    BY <2>1, <2>2 DEF Thread
<1>6. NothingForFree'
  <2>1. ASSUME NEW m \in Mark, serial'[m] \in {"uncheck", "failed"}, bill[m].cash > 0
        PROVE  m \in collected
    <3>1. CASE m = exec[t].mark
      BY <1>5, <2>1, <3>1
    <3>2. CASE m # exec[t].mark
      BY <1>1, <2>1, <3>2 DEF IInv, Own, NothingForFree
    <3>3. QED
      BY <3>1, <3>2
  <2>2. QED
    BY <1>1, <2>1 DEF NothingForFree
<1>7. QED
  BY <1>2, <1>3, <1>4, <1>6 DEF Own

\* A batch is placed where there was none, so nothing that is known is of it.
LEMMA NewBatch ==
  ASSUME IInv, NEW m \in Mark, bill[m] = None
  PROVE  /\ serial[m] = "none" /\ m \notin collected
         /\ \A t \in Thread : exec[t] # A!Idle => exec[t].mark # m
<1>1. None \notin Bills
  BY SystemAssumption
<1>2. serial[m] = "none"
  BY <1>1 DEF IInv, A!IInv, A!Billed
<1>3. m \notin collected
  BY DEF IInv, Own, CashNeeded
<1>4. \A t \in Thread : exec[t] # A!Idle => exec[t].mark # m
  BY <1>1 DEF IInv, A!IInv, A!Busy, Thread
<1>5. QED
  BY <1>2, <1>3, <1>4

LEMMA PlacedKeepsOwn ==
  ASSUME IInv, NEW m \in Mark, NEW b \in Bills, Svc!PayTuition(m, b), UNCHANGED pipeVars
  PROVE  Own'
<1>1. /\ bill[m] = None /\ b.cash # 0
      /\ bill' = [bill EXCEPT ![m] = b] /\ serial' = [serial EXCEPT ![m] = "process"]
      /\ UNCHANGED <<exec, collected, event, bad>>
  BY DEF Svc!PayTuition, Svc!FullyDeducted, pipeVars
<1>2. /\ bill'[m] = b /\ serial'[m] = "process"
      /\ \A n \in Mark : n # m => bill'[n] = bill[n] /\ serial'[n] = serial[n]
  BY <1>1 DEF IInv, A!IInv, A!TypeOK
<1>3. m \notin collected /\ \A t \in Thread : exec[t] # A!Idle => exec[t].mark \in Mark \ {m}
  BY <1>1, NewBatch DEF IInv, A!IInv, A!Busy, Thread
<1>4. ExecutionBelongs' /\ Delivered'
  BY <1>1 DEF IInv, Own, ExecutionBelongs, Delivered, Svc!Idle
<1>5. ClientsDeduct'
  <2>1. ASSUME NEW t \in Client, exec[t] # A!Idle PROVE bill'[exec[t].mark].cash = 0
    <3>1. bill'[exec[t].mark] = bill[exec[t].mark]
      BY <1>2, <1>3, <2>1 DEF Thread
    <3>2. QED
      BY <2>1, <3>1, IdleIs DEF IInv, Own, ClientsDeduct
  <2>2. QED
    BY <1>1, <2>1, IdleIs DEF ClientsDeduct, Svc!Idle
<1>6. collected \subseteq Mark
  BY DEF IInv, P!IInv, P!TypeOK
<1>7. CashNeeded' /\ NothingForFree'
  BY <1>1, <1>2, <1>3, <1>6 DEF IInv, Own, CashNeeded, NothingForFree
<1>8. QED
  BY <1>4, <1>5, <1>7 DEF Own

LEMMA DeductedKeepsOwn ==
  ASSUME IInv, NEW t \in Client, NEW m \in Mark, NEW b \in Bills,
         Svc!PayTuitionDeducted(t, m, b), UNCHANGED pipeVars
  PROVE  Own'
<1>1. /\ bill[m] = None /\ b.cash = 0
      /\ bill' = [bill EXCEPT ![m] = b]
      /\ UNCHANGED <<serial, collected, event, bad>>
  BY DEF Svc!PayTuitionDeducted, Svc!FullyDeducted, pipeVars
<1>2. bill'[m] = b /\ \A n \in Mark : n # m => bill'[n] = bill[n]
  BY <1>1 DEF IInv, A!IInv, A!TypeOK
<1>3. exec'[t].mark = m /\ \A u \in Thread : u # t => exec'[u] = exec[u]
  BY DEF Svc!PayTuitionDeducted, Svc!Begin, IInv, A!IInv, A!TypeOK, Thread
<1>4. /\ serial[m] = "none" /\ m \notin collected
      /\ \A u \in Thread : exec[u] # A!Idle => exec[u].mark \in Mark \ {m}
  BY <1>1, NewBatch DEF IInv, A!IInv, A!Busy, Thread
<1>5. ExecutionBelongs' /\ Delivered'
  BY <1>1, <1>3, SystemAssumption DEF IInv, Own, ExecutionBelongs, Delivered, Thread, Svc!Idle
<1>6. ClientsDeduct'
  BY <1>1, <1>2, <1>3, <1>4, IdleIs DEF IInv, Own, ClientsDeduct, Thread, Svc!Idle
<1>7. collected \subseteq Mark
  BY DEF IInv, P!IInv, P!TypeOK
<1>8. CashNeeded' /\ NothingForFree'
  BY <1>1, <1>2, <1>4, <1>7 DEF IInv, Own, CashNeeded, NothingForFree
<1>9. QED
  BY <1>5, <1>6, <1>8 DEF Own

-----------------------------------------------------------------------------
\* The task calls the service for an event, whose batch was collected.
LEMMA CallKeepsOwn ==
  ASSUME IInv, NEW e \in Event, Call(e)
  PROVE  Own'
<1>1. /\ event[e].place = "task"
      /\ event' = [event EXCEPT ![e].place = "rpc"]
      /\ UNCHANGED <<collected, bad, serial, bill>>
      /\ UNCHANGED exec \/ Svc!PaySuccess(e, event[e].mark)
  BY DEF Call, Pipe!Call, svcVars, Svc!PaySuccess
<1>2. event \in [Event -> [mark : Mark \cup {None}, place : P!Place]]
  BY DEF IInv, P!IInv, P!TypeOK
<1>3. /\ event'[e].place = "rpc" /\ event'[e].mark = event[e].mark
      /\ \A f \in Event : f # e => event'[f] = event[f]
  BY <1>1, <1>2
<1>4. \A f \in Event : event'[f].mark = event[f].mark
  BY <1>3
<1>5. exec[e] = A!Idle
  BY <1>1, IdleIs DEF IInv, Own, ExecutionBelongs
<1>6. /\ \A u \in Thread : u # e => exec'[u] = exec[u]
      /\ exec'[e] = A!Idle \/ exec'[e].mark = event[e].mark
  BY <1>1, <1>5 DEF Svc!PaySuccess, Svc!Begin, IInv, A!IInv, A!TypeOK, Thread
<1>7. ExecutionBelongs'
  BY <1>3, <1>4, <1>6, IdleIs DEF IInv, Own, ExecutionBelongs, Thread, Svc!Idle
<1>8. ClientsDeduct'
  BY <1>1, <1>6, SystemAssumption DEF IInv, Own, ClientsDeduct, Thread, Svc!Idle
<1>9. CashNeeded' /\ NothingForFree' /\ Delivered'
  BY <1>1, <1>4 DEF IInv, Own, CashNeeded, NothingForFree, Delivered
<1>10. QED
  BY <1>7, <1>8, <1>9 DEF Own

LEMMA ServeKeepsOwn ==
  ASSUME IInv, NEW e \in Event, Serve(e)
  PROVE  Own'
<1>1. Svc!Work(e) \/ Svc!Crash(e)
  BY DEF Serve
<1>2. CASE rolls' # rolls
  <2>1. /\ event[e].place # "free" /\ event' = [event EXCEPT ![e] = P!Free]
        /\ UNCHANGED collected /\ bad' \in {bad, bad \cup {event[e].mark}}
    BY <1>2 DEF Serve, Pipe!Throw, Pipe!Free, P!Free
  <2>2. exec'[e] = A!Idle
    BY <1>1, <1>2, Executed DEF IInv, Thread
  <2>3. /\ event'[e].mark = None /\ \A f \in Event : f # e => event'[f] = event[f]
    BY <2>1 DEF P!Free, IInv, P!IInv, P!TypeOK
  <2>4. event[e].mark \in collected
    BY <2>1 DEF IInv, P!IInv, P!TypeOK, Own, Delivered
  <2>5. QED
    BY <1>1, <2>1, <2>2, <2>3, <2>4, WorkKeepsOwn, WasDelivered DEF Thread
<1>3. CASE UNCHANGED pipeVars
  <2>1. UNCHANGED <<collected, event, bad>>
    BY <1>3 DEF pipeVars
  <2>2. QED
    BY <1>1, <2>1, WorkKeepsOwn, WasDelivered DEF Thread
<1>4. QED
  BY <1>2, <1>3 DEF Serve

\* The third party collects what waits for it.
LEMMA CollectKeepsOwn ==
  ASSUME IInv, NEW m \in Mark, Collect(m)
  PROVE  Own'
<1>1. /\ serial[m] = "process" /\ collected' = collected \cup {m}
      /\ UNCHANGED <<svcVars, event, bad>>
  BY DEF Collect, Pipe!Collect
<1>2. bill[m] # None /\ bill[m].cash # 0
  BY <1>1, SystemAssumption DEF IInv, Own, CashNeeded, A!IInv, A!Billed
<1>3. ExecutionBelongs' /\ ClientsDeduct'
  BY <1>1 DEF IInv, Own, ExecutionBelongs, ClientsDeduct, svcVars, Svc!Idle
<1>4. CashNeeded' /\ Delivered' /\ NothingForFree'
  BY <1>1, <1>2 DEF IInv, Own, CashNeeded, Delivered, NothingForFree, svcVars
<1>5. QED
  BY <1>3, <1>4 DEF Own

\* An execution runs for an event only while it is in an RPC or orphaned.
LEMMA FreeOfService ==
  ASSUME IInv, NEW e \in Event, event[e].place \notin {"rpc", "orphan"}
  PROVE  exec[e] = A!Idle
BY IdleIs DEF IInv, Own, ExecutionBelongs

\* Proxy, list, task and operator.
LEMMA DeliverKeepsOwn ==
  ASSUME IInv, Deliver
  PROVE  Own'
<1>1. UNCHANGED svcVars /\ event \in [Event -> [mark : Mark \cup {None}, place : P!Place]]
  BY DEF Deliver, IInv, P!IInv, P!TypeOK
<1>2. ASSUME NEW m \in Mark, Pipe!NotifyAgain(m) \/ Pipe!KeyExpires(m) PROVE Own'
  <2>1. UNCHANGED <<collected, event, bad>>
    BY <1>2 DEF Pipe!NotifyAgain, Pipe!KeyExpires
  <2>2. QED
    BY <1>1, <2>1, PipeKeepsOwn, WasDelivered
<1>3. ASSUME NEW m \in Mark, NEW e \in Event, Pipe!NotifyFirst(m, e) \/ Pipe!Resend(m, e) PROVE Own'
  <2>1. /\ m \in collected /\ event[e].place = "free" /\ UNCHANGED <<collected, bad>>
        /\ \E p : event' = [event EXCEPT ![e] = [mark |-> m, place |-> p]]
    BY <1>3 DEF Pipe!NotifyFirst, Pipe!Resend, Pipe!Free, Pipe!At, IInv, Own, Delivered
  <2>2. event'[e].mark = m /\ \A f \in Event : f # e => event'[f] = event[f]
    BY <1>1, <2>1
  <2>3. exec[e] = A!Idle
    BY <2>1, FreeOfService
  <2>4. QED
    BY <1>1, <2>1, <2>2, <2>3, EventKeepsOwn, WasDelivered
<1>4. ASSUME NEW e \in Event, Pipe!Push(e) \/ Pipe!Drop(e) \/ Pipe!Fetch(e) PROVE Own'
  <2>1. /\ event[e].place \in {"proxy", "queue"} /\ UNCHANGED <<collected, bad>>
        /\ event' = [event EXCEPT ![e] = P!Free] \/ \E p : event' = [event EXCEPT ![e].place = p]
    BY <1>4 DEF Pipe!Push, Pipe!Drop, Pipe!Fetch, Pipe!Free, P!Free
  <2>2. event'[e].mark \in {None, event[e].mark} /\ \A f \in Event : f # e => event'[f] = event[f]
    BY <1>1, <2>1 DEF P!Free
  <2>3. exec[e] = A!Idle
    BY <2>1, FreeOfService
  <2>4. QED
    BY <1>1, <2>1, <2>2, <2>3, EventKeepsOwn, WasDelivered
<1>5. ASSUME NEW e \in Event, Pipe!Timeout(e) \/ Pipe!TaskCrash(e) PROVE Own'
  <2>1. /\ event[e].place \in {"task", "rpc"} /\ UNCHANGED collected
        /\ bad' \in {bad, bad \cup {event[e].mark}}
        /\ event' = [event EXCEPT ![e].place = "orphan"]
           \/ event' = [event EXCEPT ![e] = IF @.place = "task" THEN P!Free
                                            ELSE [mark |-> @.mark, place |-> "orphan"]]
    BY <1>5 DEF Pipe!Timeout, Pipe!TaskCrash, Pipe!Free, Pipe!At, P!Free
  <2>2. /\ event'[e].mark \in {None, event[e].mark}
        /\ event[e].place = "rpc" => event'[e].mark = event[e].mark /\ event'[e].place = "orphan"
        /\ \A f \in Event : f # e => event'[f] = event[f]
    BY <1>1, <2>1 DEF P!Free
  <2>3. event[e].mark \in collected
    BY <2>1 DEF IInv, P!IInv, P!TypeOK, Own, Delivered
  <2>4. event[e].place = "rpc" \/ exec[e] = A!Idle
    BY <2>1, FreeOfService
  <2>5. QED
    BY <1>1, <2>1, <2>2, <2>3, <2>4, EventKeepsOwn, WasDelivered
<1>6. QED
  BY <1>2, <1>3, <1>4, <1>5 DEF Deliver

LEMMA ReturnKeepsOwn ==
  ASSUME IInv, NEW e \in Event, Return(e)
  PROVE  Own'
<1>1. /\ exec[e] = A!Idle /\ UNCHANGED <<svcVars, collected, bad>>
      /\ event' = [event EXCEPT ![e] = P!Free]
  BY IdleIs DEF Return, Pipe!Return, Pipe!Free, P!Free
<1>2. event'[e].mark = None /\ \A f \in Event : f # e => event'[f] = event[f]
  BY <1>1 DEF IInv, P!IInv, P!TypeOK, P!Free
<1>3. QED
  BY <1>1, <1>2, EventKeepsOwn, WasDelivered

LEMMA UpdateKeepsOwn ==
  ASSUME IInv, UpdateAccount
  PROVE  Own'
<1>1. UNCHANGED <<exec, bill, serial, collected, event, bad>>
  BY DEF UpdateAccount, Svc!UpdateAccount, pipeVars
<1>2. QED
  BY <1>1 DEF IInv, Own, ExecutionBelongs, ClientsDeduct, CashNeeded, Delivered, NothingForFree, Svc!Idle

LEMMA OwnKept == ASSUME IInv, [Next]_vars PROVE Own'
<1>1. CASE Order
  <2>1. ASSUME NEW t \in Client, Svc!Work(t) \/ Svc!Crash(t), UNCHANGED pipeVars PROVE Own'
    <3>1. UNCHANGED <<collected, event, bad>>
      BY <2>1 DEF pipeVars
    <3>2. QED
      BY <2>1, <3>1, WorkKeepsOwn, WasDelivered DEF Thread
  <2>2. QED
    BY <1>1, <2>1, PlacedKeepsOwn, DeductedKeepsOwn DEF Order
<1>2. CASE UNCHANGED vars
  <2>1. UNCHANGED <<svcVars, collected, event, bad>>
    BY <1>2 DEF vars, pipeVars
  <2>2. QED
    BY <2>1, PipeKeepsOwn, WasDelivered
<1>3. QED
  BY <1>1, <1>2, DeliverKeepsOwn, UpdateKeepsOwn, CollectKeepsOwn, CallKeepsOwn, ServeKeepsOwn,
     ReturnKeepsOwn DEF Next

-----------------------------------------------------------------------------
\* No other execution of a batch runs when the task calls the service for it, if
\* only one event of the batch is under way: clients execute what is not collected.
LEMMA CalledAlone ==
  ASSUME IInv, NEW e \in Event, event[e].place = "task", OperatorWaits, KeyOutlives,
         NEW u \in Thread
  PROVE  exec[u].mark # event[e].mark
<1>1. event[e].mark \in collected /\ event[e].mark # None
  BY WasDelivered DEF IInv, P!IInv, P!TypeOK
<1>2. SUFFICES ASSUME exec[u].mark = event[e].mark PROVE FALSE
  OBVIOUS
<1>3. exec[u] # A!Idle
  BY <1>1, <1>2, IdleIs
<1>4. CASE u \in Client
  BY <1>1, <1>2, <1>3, <1>4, IdleIs DEF IInv, Own, ClientsDeduct, CashNeeded
<1>5. CASE u \in Event
  <2>1. event[u].place \in {"rpc", "orphan"} /\ event[u].mark = event[e].mark
    BY <1>2, <1>3, <1>5, IdleIs DEF IInv, Own, ExecutionBelongs
  <2>2. u = e
    BY <1>1, <1>5, <2>1 DEF IInv, P!IInv, P!OneUnderWay
  <2>3. QED
    BY <2>1, <2>2
<1>6. QED
  BY <1>4, <1>5 DEF Thread

\* Every step is one of the service, whose callbacks do not overlap, or none.
LEMMA ServiceStep == ASSUME IInv, [Next]_vars PROVE [A!Next]_(A!vars)
<1>1. CASE Order
  <2>1. ASSUME NEW m \in Mark, NEW b \in Bills, Svc!PayTuition(m, b) PROVE A!Next
    BY <2>1, SamePay DEF A!Next
  <2>2. ASSUME NEW t \in Client, NEW m \in Mark, NEW b \in Bills, Svc!PayTuitionDeducted(t, m, b)
        PROVE  A!Next
    BY <2>2, SamePay DEF A!Next
  <2>3. ASSUME NEW t \in Client, Svc!Work(t) \/ Svc!Crash(t) PROVE A!Next
    BY <2>3, SameWork DEF A!Next
  <2>4. QED
    BY <1>1, <2>1, <2>2, <2>3 DEF Order
<1>2. CASE UNCHANGED svcVars
  BY <1>2 DEF svcVars, A!vars
<1>3. CASE UpdateAccount
  <2>1. PICK k \in DOMAIN accountTask : Svc!UpdateAccount(k)
    BY <1>3 DEF UpdateAccount
  <2>2. A!UpdateAccount(k) /\ k \in 1 .. Len(accountTask)
    BY <2>1, SameUpdate DEF A!UpdateAccount
  <2>3. QED
    BY <2>2 DEF A!Next
<1>4. ASSUME NEW e \in Event, Serve(e) PROVE A!Next
  BY <1>4, SameWork DEF Serve, A!Next
<1>5. ASSUME NEW e \in Event, Call(e) PROVE A!Next \/ UNCHANGED svcVars
  <2>1. CASE UNCHANGED svcVars
    BY <2>1
  <2>2. CASE Svc!PaySuccess(e, event[e].mark)
    <3>1. event[e].place = "task" /\ event[e].mark \in Mark
      BY <1>5, WasDelivered DEF Call, IInv, P!IInv, P!TypeOK
    <3>2. OperatorWaits /\ KeyOutlives => \A u \in Thread : exec[u].mark # event[e].mark
      BY <3>1, CalledAlone
    <3>3. A!PaySuccess(e, event[e].mark)
      BY <2>2, <3>2, SameCallback
    <3>4. QED
      BY <3>1, <3>3 DEF A!Next
  <2>3. QED
    BY <1>5, <2>1, <2>2 DEF Call
<1>6. Deliver \/ UNCHANGED vars \/ (\E m \in Mark : Collect(m)) \/ (\E e \in Event : Return(e))
        => UNCHANGED svcVars
  BY DEF Deliver, vars, Collect, Return
<1>7. QED
  BY <1>1, <1>2, <1>3, <1>4, <1>5, <1>6 DEF Next

-----------------------------------------------------------------------------
\* What the pipeline sees does not change with a batch that was not collected.
LEMMA NotSeen ==
  ASSUME UNCHANGED pipeVars, NEW n, n \notin collected,
         \A m \in collected : m # n => serial'[m] = serial[m]
  PROVE  UNCHANGED Pipe!vars
BY DEF pipeVars, Pipe!vars

\* A step of an event's execution is to the pipeline its commit, or nothing.
LEMMA ServedOrThrown ==
  ASSUME IInv, NEW e \in Event, Serve(e)
  PROVE  [Pipe!Throw(e) \/ Pipe!Commit(e)]_(Pipe!vars)
<1> DEFINE m == exec[e].mark
           over == {n \in collected : serial[n] \in {"uncheck", "failed"}}
<1>1. /\ exec[e] # A!Idle /\ m \in Mark
      /\ \A n \in Mark : n # m => serial'[n] = serial[n]
      /\ serial' = serial \/ serial'[m] \in {"uncheck", "failed"}
  BY Executed DEF IInv, Serve, Thread
<1>2. event[e].place \in {"rpc", "orphan"} /\ event[e].mark = m
  BY Zenon, <1>1, IdleIs DEF IInv, Own, ExecutionBelongs
<1>3. m \in collected /\ collected \subseteq Mark
  BY <1>1, <1>2, WasDelivered, SystemAssumption
<1>4. CASE UNCHANGED pipeVars
  <2>1. UNCHANGED <<collected, acked, key, event, bad, lost, notified, resent>>
    BY <1>4 DEF pipeVars
  <2>2. CASE serial' = serial \/ serial[m] \in {"uncheck", "failed"}
    <3>1. over' = over
      BY <1>1, <1>3, <2>1, <2>2
    <3>2. QED
      BY <2>1, <3>1 DEF Pipe!vars
  <2>3. CASE serial'[m] \in {"uncheck", "failed"} /\ serial[m] \notin {"uncheck", "failed"}
    <3>1. over' = over \cup {m} /\ m \notin over
      BY <1>1, <1>3, <2>1, <2>3
    <3>2. QED
      BY <1>2, <2>1, <3>1 DEF Pipe!Commit
  <2>4. QED
    BY <1>1, <2>2, <2>3
<1>5. QED
  BY <1>4 DEF Serve

\* Every step is one of the pipeline, or nothing to it.
LEMMA PipeStep == ASSUME IInv, [Next]_vars PROVE [Pipe!Next]_(Pipe!vars)
<1>1. CASE Order
  <2>1. UNCHANGED pipeVars
    BY <1>1 DEF Order
  <2>2. ASSUME NEW m \in Mark, NEW b \in Bills,
               Svc!PayTuition(m, b) \/ \E t \in Client : Svc!PayTuitionDeducted(t, m, b)
        PROVE  UNCHANGED Pipe!vars
    <3>1. bill[m] = None /\ (serial' = serial \/ serial' = [serial EXCEPT ![m] = "process"])
      BY <2>2 DEF Svc!PayTuition, Svc!PayTuitionDeducted
    <3>2. m \notin collected
      BY <3>1, NewBatch
    <3>3. \A n \in collected : n # m => serial'[n] = serial[n]
      BY <3>1, WasDelivered DEF IInv, A!IInv, A!TypeOK
    <3>4. QED
      BY <2>1, <3>2, <3>3, NotSeen
  <2>3. ASSUME NEW t \in Client, Svc!Work(t) \/ Svc!Crash(t) PROVE UNCHANGED Pipe!vars
    <3>1. /\ exec[t] # A!Idle /\ exec[t].mark \in Mark
          /\ \A n \in Mark : n # exec[t].mark => serial'[n] = serial[n]
      BY <2>3, Executed DEF IInv, Thread
    <3>2. exec[t].mark \notin collected
      BY <3>1, IdleIs DEF IInv, Own, ClientsDeduct, CashNeeded
    <3>3. QED
      BY <2>1, <3>1, <3>2, WasDelivered, NotSeen
  <2>4. QED
    BY <1>1, <2>2, <2>3 DEF Order
<1>2. CASE Deliver
  BY <1>2 DEF Deliver, Pipe!Next
<1>3. CASE UpdateAccount \/ UNCHANGED vars
  BY <1>3 DEF UpdateAccount, Svc!UpdateAccount, pipeVars, svcVars, vars, Pipe!vars
<1>4. ASSUME NEW m \in Mark, Collect(m) PROVE Pipe!Next
  BY <1>4 DEF Collect, Pipe!Next
<1>5. ASSUME NEW e \in Event, Call(e) \/ Return(e) PROVE Pipe!Next
  BY <1>5 DEF Call, Return, Pipe!Next
<1>6. ASSUME NEW e \in Event, Serve(e) PROVE [Pipe!Next]_(Pipe!vars)
  BY <1>6, ServedOrThrown DEF Pipe!Next
<1>7. QED
  BY <1>1, <1>2, <1>3, <1>4, <1>5, <1>6 DEF Next

\* The pipeline's steps are those the theorems about it speak of.
LEMMA SamePipe ==
  ASSUME [Pipe!Next]_(Pipe!vars)
  PROVE  [P!Next]_(P!vars)
<1>1. ASSUME NEW m
      PROVE  Pipe!Collect(m) \/ Pipe!NotifyAgain(m) \/ Pipe!KeyExpires(m)
               => P!Collect(m) \/ P!NotifyAgain(m) \/ P!KeyExpires(m)
  BY DEF Pipe!Collect, Pipe!NotifyAgain, Pipe!KeyExpires, P!Collect, P!NotifyAgain, P!KeyExpires
<1>2. ASSUME NEW m, NEW e
      PROVE  Pipe!NotifyFirst(m, e) \/ Pipe!Resend(m, e) => P!NotifyFirst(m, e) \/ P!Resend(m, e)
  BY DEF Pipe!NotifyFirst, Pipe!Resend, Pipe!FirstTime, Pipe!UnderWay, Pipe!Free, Pipe!At,
         P!NotifyFirst, P!Resend, P!FirstTime, P!UnderWay, P!Free, P!At
<1>3. ASSUME NEW e
      PROVE  Pipe!Push(e) \/ Pipe!Drop(e) \/ Pipe!Fetch(e) \/ Pipe!Call(e)
               => P!Push(e) \/ P!Drop(e) \/ P!Fetch(e) \/ P!Call(e)
  <2>1. Pipe!Push(e) \/ Pipe!Drop(e) \/ Pipe!Call(e) => P!Push(e) \/ P!Drop(e) \/ P!Call(e)
    BY DEF Pipe!Push, Pipe!Drop, Pipe!Call, Pipe!Answer, Pipe!Free,
           P!Push, P!Drop, P!Call, P!Answer, P!Free
  <2>2. Pipe!Fetch(e) => P!Fetch(e)
    BY DEF Pipe!Fetch, P!Fetch, Pipe!Cardinality, P!Cardinality
  <2>3. QED
    BY <2>1, <2>2
<1>4. ASSUME NEW e
      PROVE  Pipe!TaskCrash(e) \/ Pipe!Timeout(e) \/ Pipe!Commit(e) \/ Pipe!Return(e) \/ Pipe!Throw(e)
               => P!TaskCrash(e) \/ P!Timeout(e) \/ P!Commit(e) \/ P!Return(e) \/ P!Throw(e)
  BY DEF Pipe!TaskCrash, Pipe!Timeout, Pipe!Commit, Pipe!Return, Pipe!Throw, Pipe!Free, Pipe!At,
         P!TaskCrash, P!Timeout, P!Commit, P!Return, P!Throw, P!Free, P!At
<1>5. UNCHANGED Pipe!vars => UNCHANGED P!vars
  BY DEF Pipe!vars, P!vars
<1>6. QED
  BY <1>1, <1>2, <1>3, <1>4, <1>5 DEF Pipe!Next, P!Next

\* And those of the service are those of Apart.
LEMMA SameApart ==
  ASSUME [A!Next]_(A!vars)
  PROVE  [Apart!Next]_(Apart!vars)
<1>1. ASSUME NEW m, NEW b, A!PayTuition(m, b) PROVE Apart!PayTuition(m, b)
  BY Zenon, <1>1 DEF A!PayTuition, A!FullyDeducted, A!Orderable,
              Apart!PayTuition, Apart!FullyDeducted, Apart!Orderable
<1>2. ASSUME NEW t, NEW m, NEW b, A!PayTuitionDeducted(t, m, b)
      PROVE  Apart!PayTuitionDeducted(t, m, b)
  BY Zenon, <1>2 DEF A!PayTuitionDeducted, A!FullyDeducted, A!Orderable, A!Begin, A!Idle,
              Apart!PayTuitionDeducted, Apart!FullyDeducted, Apart!Orderable, Apart!Begin, Apart!Idle
<1>3. ASSUME NEW t, NEW m, A!PaySuccess(t, m) PROVE Apart!PaySuccess(t, m)
  BY Zenon, <1>3 DEF A!PaySuccess, A!Unfinished, A!Begin, A!Available, A!Idle,
              Apart!PaySuccess, Apart!Unfinished, Apart!Begin, Apart!Available, Apart!Idle
<1>4. ASSUME NEW t, A!Work(t) PROVE Apart!Work(t)
  BY Zenon, <1>4 DEF A!Work, A!WriteRows, A!Collide, A!Charges, A!Part, A!TransferZhimi,
              A!TransferRetained, A!Covered, A!Balance, A!RollBack, A!TransferRefund,
              A!BindAndAward, A!Commit, A!Pays, A!Idle, A!Transfer,
              Apart!Work, Apart!WriteRows, Apart!Collide, Apart!Charges, Apart!Part,
              Apart!TransferZhimi, Apart!TransferRetained, Apart!Covered, Apart!Balance,
              Apart!RollBack, Apart!TransferRefund, Apart!BindAndAward, Apart!Commit,
              Apart!Pays, Apart!Idle, Apart!Transfer
<1>5. ASSUME NEW t, A!Crash(t) PROVE Apart!Crash(t)
  BY <1>5 DEF A!Crash, A!RollBack, A!Idle, Apart!Crash, Apart!RollBack, Apart!Idle
<1>6. ASSUME NEW k, A!UpdateAccount(k) PROVE Apart!UpdateAccount(k)
  BY <1>6 DEF A!UpdateAccount, A!RemoveAt, Apart!UpdateAccount, Apart!RemoveAt
<1>7. UNCHANGED A!vars => UNCHANGED Apart!vars
  BY DEF A!vars, Apart!vars
<1>8. QED
  BY <1>1, <1>2, <1>3, <1>4, <1>5, <1>6, <1>7 DEF A!Next, Apart!Next

-----------------------------------------------------------------------------
LEMMA SameInit == Init => A!Init /\ Apart!Init
BY DEF Init, Svc!Init, Svc!Transfer, Svc!Part, Svc!Idle, A!Init, A!Transfer, A!Part, A!Idle,
       Apart!Init, Apart!Transfer, Apart!Part, Apart!Idle

LEMMA InitHolds == Init => IInv /\ Pipe!Init /\ Apart!Init
<1> SUFFICES ASSUME Init PROVE IInv /\ Pipe!Init /\ Apart!Init
  OBVIOUS
<1>1. A!Init /\ Apart!Init
  BY SameInit
<1>2. P!Init
  BY DEF Init, Pipe!Init, Pipe!Free, P!Init, P!Free
<1>3. Own
  <2>1. /\ \A t \in Event \cup Client : exec[t] = Svc!Idle
        /\ \A m \in Mark : serial[m] = "none"
    BY DEF Init, Svc!Init
  <2>2. collected = {} /\ bad = {} /\ \A e \in Event : event[e].mark = None
    BY DEF Init, Pipe!Init, Pipe!Free
  <2>3. QED
    BY <2>1, <2>2 DEF Own, ExecutionBelongs, ClientsDeduct, CashNeeded, Delivered, NothingForFree
<1>4. QED
  BY <1>1, <1>2, <1>3, PartsAssume, A!InitHolds, P!InitHolds DEF Init, IInv

\* The promise of the service is the one of the theorems about it.
LEMMA SamePromise ==
  /\ A!Promise!Init => Apart!Promise!Init
  /\ [A!Promise!Next]_(A!Promise!vars) => [Apart!Promise!Next]_(Apart!Promise!vars)
<1>1. A!Promise!Init => Apart!Promise!Init
  BY DEF A!Promise!Init, Apart!Promise!Init
<1>2. \A b : A!Promise!Due(b) = Apart!Promise!Due(b)
  BY Zenon DEF A!Promise!Due, A!Promise!SumFunctionOnSet, A!Promise!FoldFunctionOnSet,
     A!Promise!MapThenFoldSet, Apart!Promise!Due, Apart!Promise!SumFunctionOnSet,
     Apart!Promise!FoldFunctionOnSet, Apart!Promise!MapThenFoldSet
<1>3. ASSUME NEW m \in Mark, NEW b \in Bills
      PROVE  /\ A!Promise!Place(m, b) => Apart!Promise!Place(m, b)
             /\ A!Promise!Deduct(m, b) => Apart!Promise!Deduct(m, b)
  BY <1>2 DEF A!Promise!Place, A!Promise!Deduct, A!Promise!Settled,
              Apart!Promise!Place, Apart!Promise!Deduct, Apart!Promise!Settled
<1>4. ASSUME NEW m \in Mark
      PROVE  /\ A!Promise!Settle(m) => Apart!Promise!Settle(m)
             /\ A!Promise!Refund(m) => Apart!Promise!Refund(m)
  BY <1>2 DEF A!Promise!Settle, A!Promise!Refund, A!Promise!Settled,
              Apart!Promise!Settle, Apart!Promise!Refund, Apart!Promise!Settled
<1>5. UNCHANGED A!Promise!vars => UNCHANGED Apart!Promise!vars
  BY DEF A!Promise!vars, Apart!Promise!vars
<1>6. QED
  BY <1>1, <1>3, <1>4, <1>5 DEF A!Promise!Next, Apart!Promise!Next

LEMMA NextKeeps == ASSUME IInv, [Next]_vars PROVE IInv'
<1>1. A!IInv'
  BY ServiceStep, PartsAssume, A!NextKeeps DEF IInv
<1>2. P!IInv'
  BY PipeStep, SamePipe, PartsAssume, P!NextKeeps DEF IInv
<1>3. QED
  BY <1>1, <1>2, OwnKept DEF IInv

LEMMA Invariance == Spec => []IInv
<1>1. IInv /\ [Next]_vars => IInv'
  BY NextKeeps
<1>2. QED
  BY InitHolds, <1>1, PTL DEF Spec

-----------------------------------------------------------------------------
\* An execution of paySuccess runs only for an event that waits for it or whose
\* caller gave up, and for the batch of that event (UserPaySuccessTask).
THEOREM Belongs == Spec => []ExecutionBelongs
<1>1. IInv => ExecutionBelongs
  BY DEF IInv, Own
<1>2. QED
  BY Invariance, <1>1, PTL

\* A batch with cash is settled or refunded only after the third party collected
\* that cash (paySuccess, payTuition).
THEOREM PaidFor == Spec => []NothingForFree
<1>1. IInv => NothingForFree
  BY DEF IInv, Own
<1>2. QED
  BY Invariance, <1>1, PTL

\* The service in the whole system is TuitionService, and with an operator who
\* waits and a counter that outlives the notifications, the one whose callbacks
\* of a batch never overlap: Exclusive, which its own theorems assume, is what the
\* pipeline provides (BdsPaymentCallBackService).
THEOREM ServiceKept == Spec => ServiceAsAssumed
<1>1. IInv /\ [Next]_vars => [Apart!Next]_(Apart!vars)
  BY ServiceStep, SameApart
<1>2. QED
  BY InitHolds, Invariance, <1>1, PTL DEF Spec, ServiceAsAssumed, Apart!Spec

\* So the student has the promise of the core from the whole system: a batch is
\* settled or refunded once and whole, though its payment is notified again, its
\* answer is late, and the service or the task fails on the way (paySuccess).
THEOREM StudentIsPromised ==
  ASSUME OperatorWaits, KeyOutlives
  PROVE  Spec => PromiseToStudent
<1>1. Init => A!Accounts /\ Apart!Promise!Init
  BY SameInit, PartsAssume, A!AccountsAtStart, A!PromiseStarts, SamePromise
<1>2. IInv /\ A!Accounts /\ [Next]_vars => A!Accounts'
  BY ServiceStep, PartsAssume, A!NextAccounts DEF IInv
<1>3. IInv /\ A!Accounts /\ [Next]_vars => [Apart!Promise!Next]_(Apart!Promise!vars)
  BY ServiceStep, PartsAssume, A!PromiseStep, SamePromise DEF IInv
<1>4. QED
  BY Invariance, <1>1, <1>2, <1>3, PTL DEF Spec, PromiseToStudent, Apart!KeepsPromise, Apart!Promise!Spec

\* The sums here are those of the theorems about the service.
LEMMA SameSum == \A f : A!SumFunction(f) = SumFunction(f)
BY Zenon DEF SumFunction, SumFunctionOnSet, FoldFunctionOnSet, MapThenFoldSet,
             A!SumFunction, A!SumFunctionOnSet, A!FoldFunctionOnSet, A!MapThenFoldSet

\* What the pipeline knows of a batch and what the service booked for it agree.
LEMMA Reconciled ==
  ASSUME IInv, A!Accounts, OperatorWaits, KeyOutlives
  PROVE  AccountReconciles
<1> DEFINE term(m) == IF serial[m] = "failed" /\ m \in collected THEN bill[m].cash
                      ELSE IF serial[m] = "uncheck" THEN -SumFunction(bill[m].retained) ELSE 0
<1>1. account = OpeningRetained + SumFunction([m \in Mark |-> A!ByStatus(m)])
  BY PartsAssume, A!BalanceByStatus, SameSum DEF IInv
<1>2. ASSUME NEW m \in Mark PROVE A!ByStatus(m) = term(m)
  <2>1. serial[m] = "failed" => bill[m].cash \in Nat
    BY PartsAssume, A!BillTypes DEF IInv, A!IInv, A!Billed
  <2>2. serial[m] = "failed" /\ m \notin collected => bill[m].cash = 0
    BY <2>1 DEF IInv, Own, NothingForFree
  <2>3. A!ByStatus(m) = IF serial[m] = "failed" THEN bill[m].cash
                        ELSE IF serial[m] = "uncheck" THEN -SumFunction(bill[m].retained) ELSE 0
    BY SameSum DEF A!ByStatus
  <2>4. QED
    BY <2>2, <2>3
<1>3. [m \in Mark |-> A!ByStatus(m)] = [m \in Mark |-> term(m)]
  BY Zenon, <1>2
<1>4. QED
  BY <1>1, <1>3 DEF AccountReconciles

\* The money of the whole: whatever is notified twice, answered late, rolled back or
\* resent, the retained balance of a student is the opening one with the cash of
\* refunded batches that the third party has collected, once each, and without what
\* settled batches took (paySuccess, refundAmount, transMore).
THEOREM Reconciles ==
  ASSUME OperatorWaits, KeyOutlives
  PROVE  Spec => []AccountReconciles
<1>1. Init => A!Accounts
  BY SameInit, PartsAssume, A!AccountsAtStart
<1>2. IInv /\ A!Accounts /\ [Next]_vars => A!Accounts'
  BY ServiceStep, PartsAssume, A!NextAccounts DEF IInv
<1>3. IInv /\ A!Accounts => AccountReconciles
  BY Reconciled
<1>4. QED
  BY Invariance, <1>1, <1>2, <1>3, PTL DEF Spec

\* The pipeline in the whole system is PayPipeline: what it takes for the commit
\* of the service is one (TransCallBackService, UserPaySuccessTask).
THEOREM PipelineKept == Spec => PipelineAsAssumed
<1>1. IInv /\ [Next]_vars => [Pipe!Next]_(Pipe!vars)
  BY PipeStep
<1>2. QED
  BY InitHolds, Invariance, <1>1, PTL DEF Spec, PipelineAsAssumed, Pipe!Spec
=============================================================================
