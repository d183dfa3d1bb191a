----------------------------- MODULE PayPipeline ----------------------------
(***************************************************************************)
(* The way of a third party's payment notification to the user service:     *)
(*   proxy  TransCallBackService: dedupe by a redis counter, validate, lpush *)
(*   redis  the list YZ_USER_PAYSUCCESS_EVENT                               *)
(*   task   UserPaySuccessTask / UserPaySuccesService: lpop, RPC; an         *)
(*          exception or timeout of the call leaves a bad payment row        *)
(*   bms    BadPaymentOrderService: an operator pushes a bad payment again   *)
(* The service itself is only its outcome here; TuitionSystem puts module    *)
(* TuitionService in its place.  The list is a set of events: the task pops  *)
(* from the end the proxy pushes to, so any order is possible.               *)
(***************************************************************************)
EXTENDS Naturals, FiniteSets

CONSTANTS
  Mark,          \* payment batches
  Event,         \* bound: events under way at a time (UserPaySuccessEvent)
  None,          \* no batch
  MaxNotify,     \* bound: notifications of a batch that pass the dedupe
  MaxResend,     \* bound: resends of a batch
  Shards,        \* sharding items of the job: events the task handles at a time
  OperatorWaits, \* TRUE: the operator resends a batch only when none of its events is under way
  KeyOutlives    \* TRUE: the counter of a batch expires only after the third party stopped notifying

ASSUME PipelineAssumption ==
  /\ None \notin Mark
  /\ Shards \in Nat /\ MaxNotify \in Nat /\ MaxResend \in Nat
  /\ OperatorWaits \in BOOLEAN /\ KeyOutlives \in BOOLEAN

VARIABLES
  collected, \* batches the third party collected the cash of
  acked,     \* batches whose notification it saw answered "success"
  key,       \* batches with a live redis counter (300 s from the first incr)
  event,     \* the events under way: of which batch, and where
  final,     \* batches the service has settled or refunded
  bad,       \* batches with a bad payment row; rows are never removed
  lost,      \* batches an event of which vanished with no row to tell
  notified,  \* notifications of a batch that passed the dedupe
  resent     \* execute_count: resends of a batch

vars == <<collected, acked, key, event, final, bad, lost, notified, resent>>

Free == [mark |-> None, place |-> "free"]

Place == {"free", "proxy", "queue", "task", "rpc", "orphan"}

At(m, place) == [mark |-> m, place |-> place]

UnderWay(m) == \E e \in Event : event[e].mark = m

Init ==
  /\ collected = {} /\ acked = {} /\ key = {}
  /\ event = [e \in Event |-> Free]
  /\ final = {} /\ bad = {} /\ lost = {}
  /\ notified = [m \in Mark |-> 0] /\ resent = [m \in Mark |-> 0]

-----------------------------------------------------------------------------
\* The third party takes the cash of a batch; from then on it notifies.
Collect(m) ==
  /\ m \notin collected
  /\ collected' = collected \cup {m}
  /\ UNCHANGED <<acked, key, event, final, bad, lost, notified, resent>>

\* The answer "success" may itself be lost on its way.
Answer(m) == acked' \in {acked, acked \cup {m}}

\* Mutant: no dedupe.
EveryTime(m) == TRUE

\* incr returns 1: the counter was absent.
FirstTime(m) == m \notin key

\* incr returned 1: the notification goes on to be validated.
NotifyFirst(m, e) ==
  /\ m \in collected \ acked /\ FirstTime(m)
  /\ event[e] = Free
  /\ notified[m] < MaxNotify
  /\ notified' = [notified EXCEPT ![m] = @ + 1]
  /\ key' = key \cup {m}
  /\ event' = [event EXCEPT ![e] = At(m, "proxy")]
  /\ UNCHANGED <<collected, acked, final, bad, lost, resent>>

\* incr returned more: nothing is done, and that too is answered "success".
NotifyAgain(m) ==
  /\ m \in collected \ acked /\ m \in key
  /\ acked' = acked \cup {m}
  /\ UNCHANGED <<collected, key, event, final, bad, lost, notified, resent>>

\* Validated and pushed.
Push(e) ==
  /\ event[e].place = "proxy"
  /\ event' = [event EXCEPT ![e].place = "queue"]
  /\ Answer(event[e].mark)
  /\ UNCHANGED <<collected, key, final, bad, lost, notified, resent>>

\* The proxy stops between incr and lpush, the validation throws or fails, or
\* lpush fails silently: the counter stays, the event does not.
Drop(e) ==
  /\ event[e].place = "proxy"
  /\ event' = [event EXCEPT ![e] = Free]
  /\ lost' = lost \cup {event[e].mark}
  /\ Answer(event[e].mark)
  /\ UNCHANGED <<collected, key, final, bad, notified, resent>>

KeyExpires(m) ==
  /\ m \in key
  /\ KeyOutlives => m \in acked
  /\ key' = key \ {m}
  /\ UNCHANGED <<collected, acked, event, final, bad, lost, notified, resent>>

\* fetchData: lpop removes the event before anything is done with it.
Fetch(e) ==
  /\ event[e].place = "queue"
  /\ Cardinality({f \in Event : event[f].place \in {"task", "rpc"}}) < Shards
  /\ event' = [event EXCEPT ![e].place = "task"]
  /\ UNCHANGED <<collected, acked, key, final, bad, lost, notified, resent>>

\* bdsPaymentApi.paySuccess is called.
Call(e) ==
  /\ event[e].place = "task"
  /\ event' = [event EXCEPT ![e].place = "rpc"]
  /\ UNCHANGED <<collected, acked, key, final, bad, lost, notified, resent>>

\* The task stops: an event it had popped is gone, a call it made runs on.
TaskCrash(e) ==
  /\ event[e].place \in {"task", "rpc"}
  /\ event' = [event EXCEPT ![e] = IF @.place = "task" THEN Free ELSE At(@.mark, "orphan")]
  /\ lost' = lost \cup {event[e].mark}
  /\ UNCHANGED <<collected, acked, key, final, bad, notified, resent>>

\* Mutant: a timeout leaves no bad payment row.
TimeoutSilent(e) ==
  /\ event[e].place = "rpc"
  /\ event' = [event EXCEPT ![e].place = "orphan"]
  /\ UNCHANGED <<collected, acked, key, final, bad, lost, notified, resent>>

\* The RPC times out: a bad payment row is saved while the service runs on.
Timeout(e) ==
  /\ event[e].place = "rpc"
  /\ event' = [event EXCEPT ![e].place = "orphan"]
  /\ bad' = bad \cup {event[e].mark}
  /\ UNCHANGED <<collected, acked, key, final, lost, notified, resent>>

\* The service commits: the batch is settled or refunded, the caller does not
\* know yet.
Commit(e) ==
  /\ event[e].place \in {"rpc", "orphan"}
  /\ event[e].mark \notin final
  /\ final' = final \cup {event[e].mark}
  /\ UNCHANGED <<collected, acked, key, event, bad, lost, notified, resent>>

\* Mutant: the event is only half forgotten.
ReturnHalf(e) ==
  /\ event[e].place \in {"rpc", "orphan"}
  /\ event[e].mark \in final
  /\ event' = [event EXCEPT ![e].mark = None]
  /\ UNCHANGED <<collected, acked, key, final, bad, lost, notified, resent>>

\* The service returns, for a batch it just made final or that was final before.
Return(e) ==
  /\ event[e].place \in {"rpc", "orphan"}
  /\ event[e].mark \in final
  /\ event' = [event EXCEPT ![e] = Free]
  /\ UNCHANGED <<collected, acked, key, final, bad, lost, notified, resent>>

\* Mutant: an exception of the service leaves no bad payment row.
ThrowSilent(e) ==
  /\ event[e].place \in {"rpc", "orphan"}
  /\ event' = [event EXCEPT ![e] = Free]
  /\ UNCHANGED <<collected, acked, key, final, bad, lost, notified, resent>>

\* The service fails and rolls back; a caller that still waits saves a bad row.
Throw(e) ==
  /\ event[e].place \in {"rpc", "orphan"}
  /\ event' = [event EXCEPT ![e] = Free]
  /\ bad' = IF event[e].place = "rpc" THEN bad \cup {event[e].mark} ELSE bad
  /\ UNCHANGED <<collected, acked, key, final, lost, notified, resent>>

\* getBadPaymentOrderByIds: the row is pushed again and stays as it is.
Resend(m, e) ==
  /\ m \in bad
  /\ OperatorWaits => ~UnderWay(m)
  /\ event[e] = Free
  /\ resent[m] < MaxResend
  /\ resent' = [resent EXCEPT ![m] = @ + 1]
  /\ event' = [event EXCEPT ![e] = At(m, "queue")]
  /\ UNCHANGED <<collected, acked, key, final, bad, lost, notified>>

\* What happens without anybody's choice.
Progress(e) == Push(e) \/ Fetch(e) \/ Call(e) \/ Commit(e) \/ Return(e)

Next ==
  \/ \E m \in Mark : Collect(m) \/ NotifyAgain(m) \/ KeyExpires(m)
  \/ \E m \in Mark, e \in Event : NotifyFirst(m, e) \/ Resend(m, e)
  \/ \E e \in Event : Push(e) \/ Drop(e) \/ Fetch(e) \/ Call(e) \/ TaskCrash(e)
                      \/ Timeout(e) \/ Commit(e) \/ Return(e) \/ Throw(e)

Spec == Init /\ [][Next]_vars

\* The third party notifies until it is answered, counters expire, and the
\* proxy, the job (cron, every 5 s) and the service do what they have begun.
\* Nobody resends for sure.
FairSpec ==
  /\ Spec
  /\ \A m \in Mark : WF_vars(\E e \in Event : NotifyFirst(m, e)) /\ WF_vars(KeyExpires(m))
  /\ \A e \in Event : WF_vars(Progress(e))

-----------------------------------------------------------------------------
\* Types of the state; a place is taken exactly by an event of some batch.
TypeOK ==
  /\ collected \subseteq Mark /\ acked \subseteq Mark /\ key \subseteq Mark
  /\ final \subseteq Mark /\ bad \subseteq Mark /\ lost \subseteq Mark
  /\ event \in [Event -> [mark : Mark \cup {None}, place : Place]]
  /\ notified \in [Mark -> Nat] /\ resent \in [Mark -> Nat]
  /\ \A e \in Event : event[e].mark = None <=> event[e].place = "free"

\* At most one event of a batch is under way, so the service never runs two
\* callbacks of one batch at a time: given an operator who waits and a counter
\* that outlives the notifications.
OneUnderWay ==
  (OperatorWaits /\ KeyOutlives) =>
    \A e, f \in Event : event[e].mark = event[f].mark /\ event[e].mark # None => e = f

\* Every batch the proxy has counted or answered for can be accounted for: it
\* is under way, final, a bad row, or lost in one of the windows of Drop and
\* TaskCrash.  No other order of steps makes a payment disappear.
NothingVanishes ==
  \A m \in key \cup acked : UnderWay(m) \/ m \in final \cup bad \cup lost

\* A collected payment is settled or refunded, or shows up as a bad payment,
\* unless it went lost on the way.
Handled == \A m \in Mark : m \in collected ~> m \in final \cup bad \cup lost
=============================================================================
