-------------------------- MODULE PayPipelineProofs -------------------------
(* The dedupe, the accounting and the bad payment rows of the notification   *)
(* pipeline, for any number of batches, events, resends and shards.           *)
EXTENDS PayPipeline, TLAPS

\* The batches that have an event under way.
Waiting == {m \in Mark : UnderWay(m)}

\* While the counter outlives the notifications, a batch that has an event or a
\* bad payment row is one the proxy still counts, or has answered for.
Opened == KeyOutlives => Waiting \cup bad \subseteq key \cup acked

\* An execution whose caller is gone has left a trace: the caller saved a bad
\* payment row when it timed out, or it was lost with the task.
OrphansTold ==
  \A e \in Event : event[e].place = "orphan" => event[e].mark \in bad \cup lost

\* NothingVanishes, said of sets.
Told == key \cup acked \subseteq Waiting \cup final \cup bad \cup lost

\* The inductive invariant.
IInv == TypeOK /\ Opened /\ OrphansTold /\ OneUnderWay /\ Told

-----------------------------------------------------------------------------
\* The record of an event after a step that changes only its place.
LEMMA Moved ==
  ASSUME TypeOK, NEW e \in Event, NEW p \in Place, p # "free", event[e] # Free,
         event' = [event EXCEPT ![e].place = p]
  PROVE  /\ event' \in [Event -> [mark : Mark \cup {None}, place : Place]]
         /\ event[e].mark \in Mark
         /\ \A f \in Event : event'[f].mark = event[f].mark
         /\ \A f \in Event : f # e => event'[f] = event[f]
         /\ event'[e].place = p
         /\ Waiting' = Waiting
         /\ \A f \in Event : event'[f].mark = None <=> event'[f].place = "free"
<1>1. event[e].mark \in Mark /\ event[e] \in [mark : Mark \cup {None}, place : Place]
  BY DEF TypeOK, Free
<1>2. event'[e] = [mark |-> event[e].mark, place |-> p]
  BY <1>1 DEF TypeOK
<1>3. \A f \in Event : f # e => event'[f] = event[f]
  BY DEF TypeOK
<1>4. \A f \in Event : event'[f].mark = event[f].mark
  BY <1>2, <1>3
<1>5. Waiting' = Waiting
  BY <1>4 DEF Waiting, UnderWay
<1>6. event' \in [Event -> [mark : Mark \cup {None}, place : Place]]
  BY <1>1, <1>2, <1>3 DEF TypeOK
<1>7. \A f \in Event : event'[f].mark = None <=> event'[f].place = "free"
  BY <1>1, <1>2, <1>3, PipelineAssumption DEF TypeOK
<1>8. QED
  BY <1>1, <1>2, <1>3, <1>4, <1>5, <1>6, <1>7

\* The events after one of them is over.
LEMMA Freed ==
  ASSUME TypeOK, NEW e \in Event, event[e] # Free, event' = [event EXCEPT ![e] = Free]
  PROVE  /\ event' \in [Event -> [mark : Mark \cup {None}, place : Place]]
         /\ event[e].mark \in Mark
         /\ event'[e] = Free
         /\ \A f \in Event : f # e => event'[f] = event[f]
         /\ Waiting' \subseteq Waiting
         /\ Waiting \ {event[e].mark} \subseteq Waiting'
         /\ \A f \in Event : event'[f].mark = None <=> event'[f].place = "free"
<1>1. event[e].mark \in Mark
  BY DEF TypeOK, Free
<1>2. event'[e] = Free /\ \A f \in Event : f # e => event'[f] = event[f]
  BY DEF TypeOK
<1>3. Free.mark = None /\ Free.place = "free" /\ None \notin Mark
  BY PipelineAssumption DEF Free
<1>4. Waiting' \subseteq Waiting
  BY <1>2, <1>3 DEF Waiting, UnderWay
<1>5. Waiting \ {event[e].mark} \subseteq Waiting'
  BY <1>2 DEF Waiting, UnderWay
<1>6. event' \in [Event -> [mark : Mark \cup {None}, place : Place]]
  BY DEF TypeOK, Free, Place
<1>7. \A f \in Event : event'[f].mark = None <=> event'[f].place = "free"
  BY <1>2, <1>3 DEF TypeOK
<1>8. QED
  BY <1>1, <1>2, <1>4, <1>5, <1>6, <1>7

\* The events after a new one of batch m was put into a free place.
LEMMA Begun ==
  ASSUME TypeOK, NEW e \in Event, NEW m \in Mark, NEW p \in Place, p # "free", p # "orphan",
         event[e] = Free, event' = [event EXCEPT ![e] = At(m, p)]
  PROVE  /\ event' \in [Event -> [mark : Mark \cup {None}, place : Place]]
         /\ event'[e] = At(m, p)
         /\ \A f \in Event : f # e => event'[f] = event[f]
         /\ Waiting' = Waiting \cup {m}
         /\ \A f \in Event : event'[f].mark = None <=> event'[f].place = "free"
<1>1. event'[e] = At(m, p) /\ \A f \in Event : f # e => event'[f] = event[f]
  BY DEF TypeOK
<1>2. At(m, p).mark = m /\ At(m, p).place = p /\ Free.mark = None /\ None \notin Mark
  BY PipelineAssumption DEF At, Free
<1>3. Waiting' = Waiting \cup {m}
  BY <1>1, <1>2 DEF Waiting, UnderWay
<1>4. event' \in [Event -> [mark : Mark \cup {None}, place : Place]]
  BY DEF TypeOK, At
<1>5. \A f \in Event : event'[f].mark = None <=> event'[f].place = "free"
  BY <1>1, <1>2 DEF TypeOK
<1>6. QED
  BY <1>1, <1>3, <1>4, <1>5

-----------------------------------------------------------------------------
LEMMA InitHolds == Init => IInv
BY PipelineAssumption
   DEF Init, IInv, TypeOK, Opened, OrphansTold, OneUnderWay, Told, Waiting, UnderWay, Free, Place

\* Steps that leave the events alone.
LEMMA CounterKeeps ==
  ASSUME NEW m \in Mark, IInv, Collect(m) \/ NotifyAgain(m) \/ KeyExpires(m)
  PROVE  IInv'
<1>1. event' = event /\ bad' = bad /\ lost' = lost /\ final' = final
  BY DEF Collect, NotifyAgain, KeyExpires
<1>2. Waiting' = Waiting
  BY <1>1 DEF Waiting, UnderWay
<1>3. TypeOK'
  BY DEF IInv, TypeOK, Collect, NotifyAgain, KeyExpires
<1>4. Opened' /\ Told'
  BY <1>1, <1>2 DEF IInv, Opened, Told, Collect, NotifyAgain, KeyExpires
<1>5. OrphansTold' /\ OneUnderWay'
  BY <1>1 DEF IInv, OrphansTold, OneUnderWay
<1>6. QED
  BY <1>3, <1>4, <1>5 DEF IInv

\* A first notification finds no other event of its batch: none is counted.
LEMMA NotifyFirstKeeps ==
  ASSUME NEW m \in Mark, NEW e \in Event, IInv, NotifyFirst(m, e)
  PROVE  IInv'
<1>1. /\ TypeOK /\ event[e] = Free /\ event' = [event EXCEPT ![e] = At(m, "proxy")]
      /\ m \notin key \cup acked /\ key' = key \cup {m}
      /\ notified' = [notified EXCEPT ![m] = @ + 1]
      /\ UNCHANGED <<collected, acked, final, bad, lost, resent>>
  BY DEF IInv, NotifyFirst, FirstTime
<1>2. /\ event' \in [Event -> [mark : Mark \cup {None}, place : Place]]
      /\ event'[e] = At(m, "proxy")
      /\ \A f \in Event : f # e => event'[f] = event[f]
      /\ Waiting' = Waiting \cup {m}
      /\ \A f \in Event : event'[f].mark = None <=> event'[f].place = "free"
  BY <1>1, Begun DEF Place
<1>3. TypeOK'
  BY <1>1, <1>2 DEF TypeOK
<1>4. Opened' /\ Told'
  BY <1>1, <1>2 DEF IInv, Opened, Told
<1>5. OrphansTold'
  BY <1>1, <1>2 DEF IInv, OrphansTold, At
<1>6. OneUnderWay'
  <2>1. KeyOutlives => m \notin Waiting
    BY <1>1 DEF IInv, Opened
  <2>2. KeyOutlives => \A f \in Event : event[f].mark # m
    BY <2>1 DEF Waiting, UnderWay
  <2>3. QED
    BY <1>2, <2>2 DEF IInv, OneUnderWay, At
<1>7. QED
  BY <1>3, <1>4, <1>5, <1>6 DEF IInv

\* An operator who waits resends a batch that has no event under way.
LEMMA ResendKeeps ==
  ASSUME NEW m \in Mark, NEW e \in Event, IInv, Resend(m, e)
  PROVE  IInv'
<1>1. /\ TypeOK /\ event[e] = Free /\ event' = [event EXCEPT ![e] = At(m, "queue")]
      /\ m \in bad
      /\ OperatorWaits => ~UnderWay(m)
      /\ resent' = [resent EXCEPT ![m] = @ + 1]
      /\ UNCHANGED <<collected, acked, key, final, bad, lost, notified>>
  BY DEF IInv, Resend
<1>2. /\ event' \in [Event -> [mark : Mark \cup {None}, place : Place]]
      /\ event'[e] = At(m, "queue")
      /\ \A f \in Event : f # e => event'[f] = event[f]
      /\ Waiting' = Waiting \cup {m}
      /\ \A f \in Event : event'[f].mark = None <=> event'[f].place = "free"
  BY <1>1, Begun DEF Place
<1>3. TypeOK'
  BY <1>1, <1>2 DEF TypeOK
<1>4. Opened' /\ Told'
  BY <1>1, <1>2 DEF IInv, Opened, Told
<1>5. OrphansTold'
  BY <1>1, <1>2 DEF IInv, OrphansTold, At
<1>6. OneUnderWay'
  <2>1. OperatorWaits => \A f \in Event : event[f].mark # m
    BY <1>1 DEF UnderWay
  <2>2. QED
    BY <1>2, <2>1 DEF IInv, OneUnderWay, At
<1>7. QED
  BY <1>3, <1>4, <1>5, <1>6 DEF IInv

\* Steps that only move an event on, or leave it where it is.
LEMMA MoveKeeps ==
  ASSUME NEW e \in Event, IInv, Push(e) \/ Fetch(e) \/ Call(e) \/ Timeout(e)
  PROVE  IInv'
<1> DEFINE m == event[e].mark
<1>1. PICK p \in {"queue", "task", "rpc", "orphan"} :
        /\ event' = [event EXCEPT ![e].place = p]
        /\ p = "orphan" => m \in bad'
        /\ acked' = acked \/ acked' = acked \cup {m}
        /\ bad' = bad \/ bad' = bad \cup {m}
        /\ UNCHANGED <<collected, key, final, lost, notified, resent>>
  BY DEF Push, Fetch, Call, Timeout, Answer
<1>2. TypeOK /\ event[e] # Free /\ p \in Place /\ p # "free"
  BY DEF IInv, Push, Fetch, Call, Timeout, Free, Place
<1>3. /\ event' \in [Event -> [mark : Mark \cup {None}, place : Place]]
      /\ m \in Mark
      /\ \A f \in Event : event'[f].mark = event[f].mark
      /\ \A f \in Event : f # e => event'[f] = event[f]
      /\ event'[e].place = p
      /\ Waiting' = Waiting
      /\ \A f \in Event : event'[f].mark = None <=> event'[f].place = "free"
  BY <1>1, <1>2, Moved
<1>4. m \in Waiting
  BY <1>3 DEF Waiting, UnderWay
<1> HIDE DEF m
<1>5. TypeOK'
  BY <1>1, <1>2, <1>3 DEF TypeOK
<1>6. Opened' /\ Told'
  BY <1>1, <1>3, <1>4 DEF IInv, Opened, Told
<1>7. OrphansTold'
  BY <1>1, <1>3 DEF IInv, OrphansTold, m
<1>8. OneUnderWay'
  BY <1>3 DEF IInv, OneUnderWay
<1>9. QED
  BY <1>5, <1>6, <1>7, <1>8 DEF IInv

\* Steps that end an event: each leaves its batch final, bad or lost.
LEMMA EndKeeps ==
  ASSUME NEW e \in Event, IInv, event[e] # Free,
         event' = [event EXCEPT ![e] = Free],
         Drop(e) \/ TaskCrash(e) \/ Return(e) \/ Throw(e)
  PROVE  IInv'
<1> DEFINE m == event[e].mark
<1>1. /\ acked' = acked \/ acked' = acked \cup {m}
      /\ bad' = bad \/ bad' = bad \cup {m}
      /\ lost' = lost \/ lost' = lost \cup {m}
      /\ UNCHANGED <<collected, key, final, notified, resent>>
  BY DEF Drop, TaskCrash, Return, Throw, Answer
<1>2. m \in final' \cup bad' \cup lost'
  BY DEF IInv, OrphansTold, Drop, TaskCrash, Return, Throw
<1>3. TypeOK
  BY DEF IInv
<1>4. /\ event' \in [Event -> [mark : Mark \cup {None}, place : Place]]
      /\ m \in Mark
      /\ event'[e] = Free
      /\ \A f \in Event : f # e => event'[f] = event[f]
      /\ Waiting' \subseteq Waiting /\ Waiting \ {m} \subseteq Waiting'
      /\ \A f \in Event : event'[f].mark = None <=> event'[f].place = "free"
  BY <1>3, Freed
<1>5. m \in Waiting
  BY <1>4 DEF Waiting, UnderWay
<1> HIDE DEF m
<1>6. TypeOK'
  BY <1>1, <1>3, <1>4 DEF TypeOK
<1>7. Opened'
  BY <1>1, <1>4, <1>5 DEF IInv, Opened
<1>8. Told'
  BY <1>1, <1>2, <1>4 DEF IInv, Told
<1>9. OrphansTold'
  BY <1>1, <1>4 DEF IInv, OrphansTold, Free
<1>10. OneUnderWay'
  BY <1>4 DEF IInv, OneUnderWay, Free
<1>11. QED
  BY <1>6, <1>7, <1>8, <1>9, <1>10 DEF IInv

\* The task stops during a call: the execution runs on without it.
LEMMA TaskCrashKeeps ==
  ASSUME NEW e \in Event, IInv, TaskCrash(e), event[e].place = "rpc"
  PROVE  IInv'
<1> DEFINE m == event[e].mark
<1>1. /\ event' = [event EXCEPT ![e].place = "orphan"] /\ lost' = lost \cup {m}
      /\ UNCHANGED <<collected, acked, key, final, bad, notified, resent>>
  BY DEF IInv, TypeOK, TaskCrash, At
<1>2. TypeOK /\ event[e] # Free /\ "orphan" \in Place
  BY DEF IInv, Free, Place
<1>3. /\ event' \in [Event -> [mark : Mark \cup {None}, place : Place]]
      /\ m \in Mark
      /\ \A f \in Event : event'[f].mark = event[f].mark
      /\ \A f \in Event : f # e => event'[f] = event[f]
      /\ Waiting' = Waiting
      /\ \A f \in Event : event'[f].mark = None <=> event'[f].place = "free"
  BY <1>1, <1>2, Moved
<1> HIDE DEF m
<1>4. TypeOK'
  BY <1>1, <1>2, <1>3 DEF TypeOK
<1>5. Opened' /\ Told'
  BY <1>1, <1>3 DEF IInv, Opened, Told
<1>6. OrphansTold'
  BY <1>1, <1>3 DEF IInv, OrphansTold, m
<1>7. OneUnderWay'
  BY <1>3 DEF IInv, OneUnderWay
<1>8. QED
  BY <1>4, <1>5, <1>6, <1>7 DEF IInv

\* The service commits: only what is final changes.
LEMMA CommitKeeps ==
  ASSUME NEW e \in Event, IInv, Commit(e)
  PROVE  IInv'
<1>1. /\ event[e].place \in {"rpc", "orphan"} /\ final' = final \cup {event[e].mark}
      /\ UNCHANGED <<collected, acked, key, event, bad, lost, notified, resent>>
  BY DEF Commit
<1>2. event[e].mark \in Mark
  BY <1>1 DEF IInv, TypeOK
<1>3. Waiting' = Waiting
  BY <1>1 DEF Waiting, UnderWay
<1>4. QED
  BY <1>1, <1>2, <1>3 DEF IInv, TypeOK, Opened, OrphansTold, OneUnderWay, Told

\* Every step keeps the invariant.
LEMMA NextKeeps == ASSUME IInv, [Next]_vars PROVE IInv'
<1>1. ASSUME NEW m \in Mark, Collect(m) \/ NotifyAgain(m) \/ KeyExpires(m) PROVE IInv'
  BY <1>1, CounterKeeps
<1>2. ASSUME NEW m \in Mark, NEW e \in Event, NotifyFirst(m, e) PROVE IInv'
  BY <1>2, NotifyFirstKeeps
<1>3. ASSUME NEW m \in Mark, NEW e \in Event, Resend(m, e) PROVE IInv'
  BY <1>3, ResendKeeps
<1>4. ASSUME NEW e \in Event, Push(e) \/ Fetch(e) \/ Call(e) \/ Timeout(e) PROVE IInv'
  BY <1>4, MoveKeeps
<1>5. ASSUME NEW e \in Event, Drop(e) \/ Return(e) \/ Throw(e) PROVE IInv'
  <2>1. event[e] # Free /\ event' = [event EXCEPT ![e] = Free]
    BY <1>5 DEF Drop, Return, Throw, Free
  <2>2. QED
    BY <1>5, <2>1, EndKeeps
<1>6. ASSUME NEW e \in Event, TaskCrash(e) PROVE IInv'
  <2>1. CASE event[e].place = "rpc"
    BY <1>6, <2>1, TaskCrashKeeps
  <2>2. CASE event[e].place = "task"
    <3>1. event[e] # Free /\ event' = [event EXCEPT ![e] = Free]
      BY <1>6, <2>2 DEF TaskCrash, Free
    <3>2. QED
      BY <1>6, <3>1, EndKeeps
  <2>3. QED
    BY <1>6, <2>1, <2>2 DEF TaskCrash
<1>7. ASSUME NEW e \in Event, Commit(e) PROVE IInv'
  BY <1>7, CommitKeeps
<1>8. CASE UNCHANGED vars
  BY <1>8 DEF vars, IInv, TypeOK, Opened, OrphansTold, OneUnderWay, Told, Waiting, UnderWay
<1>9. QED
  BY <1>1, <1>2, <1>3, <1>4, <1>5, <1>6, <1>7, <1>8 DEF Next

LEMMA Invariance == Spec => []IInv
<1>1. IInv /\ [Next]_vars => IInv'
  BY NextKeeps
<1>2. QED
  BY InitHolds, <1>1, PTL DEF Spec

-----------------------------------------------------------------------------
\* Every place of the pipeline holds an event of a batch, or nothing.
THEOREM TypeCorrect == Spec => []TypeOK
<1>1. IInv => TypeOK
  BY DEF IInv
<1>2. QED
  BY Invariance, <1>1, PTL

\* With an operator who waits and a counter that outlives the notifications
\* (RedisService.incr, getBadPaymentOrderByIds), the service never sees two
\* callbacks of one batch at a time, for any number of batches and events.
THEOREM OneAtATime == Spec => []OneUnderWay
<1>1. IInv => OneUnderWay
  BY DEF IInv
<1>2. QED
  BY Invariance, <1>1, PTL

\* Whatever crashes, times out, fails or comes late: a batch the proxy counted
\* or answered for is under way, final, shown as bad, or was lost in one of the
\* two windows the code leaves (between incr and lpush, and after lpop).
THEOREM Accounted == Spec => []NothingVanishes
<1>1. IInv => NothingVanishes
  BY DEF IInv, Told, Waiting, NothingVanishes
<1>2. QED
  BY Invariance, <1>1, PTL
=============================================================================
