-------------------------- MODULE DomainEngineProofs -------------------------
(***************************************************************************)
(* The optimistic transaction of the domain engine, for any number of calls, *)
(* users and pieces on sale: what a call works on, what it may overdraw,      *)
(* which orders are booked, and that all of it keeps DomainPromise.  What      *)
(* depends on the loads from MySQL is proved under the assumption LoadsInTime;  *)
(* the types and what becomes of the orders do not depend on it.              *)
(***************************************************************************)
EXTENDS DomainEngine, Sums, TLAPS

Phase == {"idle", "watch", "run", "exec", "publish", "done"}
Outcome == {"none", "applied", "refused", "conflict", "broken"}

\* Work that has begun is known.
WorkKnown == \A c \in Call : pc[c] # "idle" => work[c] \in Works

\* What a call that runs has read is still there, unless somebody wrote it.
RunSees ==
  \A c \in Call : pc[c] = "run" /\ c \notin spoiled =>
    /\ IF seen[c] = Gone THEN user[work[c].user] = Gone ELSE seen[c] = Zhimi(work[c].user)
    /\ Exchanges(work[c]) => IF shelf[c] = Gone THEN goods = Gone ELSE shelf[c] = Goods

\* What a call is about to write follows from numbers it was allowed to act on.
ExecSees ==
  \A c \in Call : pc[c] = "exec" =>
    seen[c] \in Int /\ shelf[c] \in Shelf /\ ~Refused(work[c], seen[c], shelf[c])

\* A call has its result when it ends, and not before.
Results ==
  \A c \in Call : /\ pc[c] \in {"idle", "watch", "run", "exec"} => result[c] = "none"
                  /\ pc[c] = "publish" => result[c] = "applied"

\* As long as an event may still change the copy, redis has the original, if keys
\* are loaded in time.
AccountLoaded ==
  \A c \in Call :
    \/ pc[c] = "publish"
    \/ event[<<c, "account">>] \in Underway
    \/ <<c, "account">> \in fetched
    => work[c] \in Works /\ (LoadsInTime => user[work[c].user] # Gone)

SaleLoaded ==
  \A c \in Call :
    \/ pc[c] = "publish" /\ Exchanges(work[c])
    \/ event[<<c, "order">>] \in Underway
    \/ <<c, "order">> \in fetched
    => work[c] \in Works /\ Exchanges(work[c]) /\ (LoadsInTime => goods # Gone)

\* Only what took effect is sent to be booked, only what did not is cancelled.
Orders ==
  \A c \in Call :
    /\ event[<<c, "order">>] \in Underway \/ <<c, "order">> \in fetched => result[c] = "applied"
    /\ c \in compensate \/ jd[c] = "cancelled" => result[c] = "conflict"
    /\ c \in booked => result[c] = "applied" /\ (Confirms => jd[c] = "confirmed")

\* The inductive invariant.
IInv ==
  /\ TypeOK /\ WorkKnown /\ ExecSees /\ Results /\ AccountLoaded /\ SaleLoaded /\ Orders
  /\ LoadsInTime => RunSees /\ SnapshotHolds /\ NeverOverdrawn

-----------------------------------------------------------------------------
\* What is known of the work of a call.
LEMMA WorkParts ==
  ASSUME NEW w \in Works
  PROVE  /\ w \in [kind : {"in", "out", "exchange"}, user : User, count : Nat, check : BOOLEAN]
         /\ w.user \in User /\ w.count \in Nat /\ Cost(w) \in Nat
<1>1. w \in [kind : {"in", "out", "exchange"}, user : User, count : Nat, check : BOOLEAN] /\ SalesPrice \in Nat
  BY CommandAssumption
<1>2. w.count * SalesPrice \in Nat
  BY <1>1
<1>3. QED
  BY <1>1, <1>2 DEF Cost

LEMMA ZhimiAfterType ==
  ASSUME NEW w \in Works, NEW z \in Int
  PROVE  ZhimiAfter(w, z) \in Int /\ ZhimiAfter(w, z) # Gone
BY WorkParts, EngineAssumption DEF ZhimiAfter

LEMMA GoodsAfterType ==
  ASSUME NEW w \in Works, NEW g \in Shelf
  PROVE  GoodsAfter(w, g) \in Shelf /\ GoodsAfter(w, g) # Gone
BY WorkParts, EngineAssumption DEF GoodsAfter, Shelf

LEMMA EventsKnown ==
  ASSUME NEW c \in Call
  PROVE  <<c, "account">> \in Event /\ <<c, "order">> \in Event
BY DEF Event

LEMMA InitHolds == Init => IInv
<1> SUFFICES ASSUME Init PROVE IInv
  OBVIOUS
<1>1. TypeOK
  BY EngineAssumption DEF Init, TypeOK, Shelf, Underway
<1>2. NeverOverdrawn
  BY EngineAssumption, CommandAssumption DEF Init, NeverOverdrawn, Zhimi, Goods
<1>3. WorkKnown /\ RunSees /\ ExecSees /\ SnapshotHolds /\ Results
  BY DEF Init, WorkKnown, RunSees, ExecSees, SnapshotHolds, Results
<1>4. AccountLoaded /\ SaleLoaded /\ Orders
  BY EventsKnown DEF Init, AccountLoaded, SaleLoaded, Orders, Underway
<1>5. QED
  BY <1>1, <1>2, <1>3, <1>4 DEF IInv

-----------------------------------------------------------------------------
\* A call that ends before EXEC has changed nothing but perhaps its order.
LEMMA EndKeeps ==
  ASSUME NEW c \in Call, NEW how \in {"refused", "conflict", "broken"}, IInv,
         pc[c] \in {"watch", "run", "exec"}, End(c, how),
         UNCHANGED <<redis, mysql, local, spoiled, topic, forgotten>>,
         hit' \subseteq Call, struck' \in Nat,
         jd' = jd \/ jd' = [jd EXCEPT ![c] = "placed"],
         compensate' = compensate \/ (how = "conflict" /\ compensate' = compensate \cup {c})
  PROVE  IInv'
<1>1. TypeOK'
  BY DEF IInv, TypeOK, End, redis, mysql, local, topic
<1>2. WorkKnown'
  BY DEF IInv, TypeOK, WorkKnown, End, local
<1>3. LoadsInTime => RunSees' /\ SnapshotHolds'
  BY DEF IInv, TypeOK, RunSees, SnapshotHolds, Zhimi, Goods, End, redis, mysql, local
<1>4. ExecSees'
  BY DEF IInv, TypeOK, ExecSees, End, local
<1>5. Results'
  BY DEF IInv, TypeOK, Results, End
<1>61. AccountLoaded'
  BY DEF IInv, TypeOK, AccountLoaded, Underway, End, redis, local, topic
<1>62. SaleLoaded'
  BY DEF IInv, TypeOK, SaleLoaded, Underway, Exchanges, End, redis, local, topic
<1>6. AccountLoaded' /\ SaleLoaded'
  BY <1>61, <1>62
<1>7. Orders'
  <2>1. result[c] = "none" /\ result'[c] = how /\ \A d \in Call \ {c} : result'[d] = result[d]
    BY DEF IInv, TypeOK, Results, End
  <2>2. \A d \in Call \ {c} : jd'[d] = jd[d] /\ (d \in compensate' <=> d \in compensate)
    BY DEF IInv, TypeOK
  <2>3. jd[c] # "cancelled" /\ c \notin booked /\ c \notin compensate
    BY <2>1 DEF IInv, Orders
  <2>4. jd'[c] # "cancelled" /\ (c \in compensate' => how = "conflict")
    BY <2>3 DEF IInv, TypeOK
  <2>5. event' = event /\ fetched' = fetched /\ booked' = booked
    BY DEF topic, mysql
  <2>6. QED
    BY Zenon, <2>1, <2>2, <2>3, <2>4, <2>5 DEF IInv, Orders
<1>8. LoadsInTime => NeverOverdrawn'
  BY DEF IInv, TypeOK, NeverOverdrawn, Results, Zhimi, Goods, End, redis, mysql, local
<1>9. QED
  BY <1>1, <1>2, <1>3, <1>4, <1>5, <1>6, <1>7, <1>8 DEF IInv

LEMMA WatchKeeps ==
  ASSUME NEW c \in Call, NEW w \in Works, IInv, Watch(c, w)
  PROVE  IInv'
<1> USE DEF Watch
<1>1. TypeOK'
  BY EngineAssumption DEF IInv, TypeOK, redis, mysql, order, topic, faults
<1>2. WorkKnown'
  BY DEF IInv, TypeOK, WorkKnown
<1>3. LoadsInTime => RunSees' /\ SnapshotHolds'
  BY DEF IInv, TypeOK, RunSees, SnapshotHolds, Zhimi, Goods, Exchanges, redis, mysql
<1>4. ExecSees'
  BY DEF IInv, TypeOK, ExecSees
<1>5. Results'
  BY DEF IInv, TypeOK, Results
<1>6. \A d \in Call : work[d] \in Works => d # c /\ work'[d] = work[d]
  BY EngineAssumption DEF IInv, TypeOK
<1>7. AccountLoaded' /\ SaleLoaded'
  <2>1. AccountLoaded'
    BY <1>6 DEF IInv, TypeOK, AccountLoaded, Underway, redis, topic
  <2>2. SaleLoaded'
    BY <1>6 DEF IInv, TypeOK, SaleLoaded, Exchanges, Underway, redis, topic
  <2>3. QED
    BY <2>1, <2>2
<1>8. Orders'
  BY Zenon DEF IInv, Orders, Underway, mysql, order, topic
<1>9. LoadsInTime => NeverOverdrawn'
  <2>1. \A d \in Call : result[d] = "applied" => d # c
    BY DEF IInv, Results
  <2>2. QED
    BY <2>1 DEF IInv, TypeOK, NeverOverdrawn, Zhimi, Goods, redis, mysql
<1>10. QED
  BY <1>1, <1>2, <1>3, <1>4, <1>5, <1>7, <1>8, <1>9 DEF IInv

LEMMA ReadKeeps ==
  ASSUME NEW c \in Call, IInv, Read(c)
  PROVE  IInv'
<1> USE DEF Read
<1>1. work[c] \in Works /\ work[c].user \in User
  BY WorkParts DEF IInv, WorkKnown
<1>2. TypeOK'
  BY <1>1 DEF IInv, TypeOK, redis, mysql, order, topic, faults
<1>3. WorkKnown' /\ Results' /\ Orders'
  BY DEF IInv, TypeOK, WorkKnown, Results, Orders, Underway, mysql, order, topic
<1>4. LoadsInTime => RunSees'
  <2>1. /\ user' = user /\ goods' = goods /\ account' = account /\ sales' = sales
        /\ work' = work /\ spoiled' = spoiled
    BY DEF redis, mysql
  <2>2. /\ seen'[c] = user[work[c].user]
        /\ Exchanges(work[c]) => shelf'[c] = goods
        /\ \A d \in Call \ {c} : pc'[d] = pc[d] /\ seen'[d] = seen[d] /\ shelf'[d] = shelf[d]
    BY DEF IInv, TypeOK
  <2>3. QED
    BY <2>1, <2>2 DEF IInv, RunSees, Zhimi, Goods, Exchanges
<1>5. ExecSees' /\ (LoadsInTime => SnapshotHolds')
  BY DEF IInv, TypeOK, ExecSees, SnapshotHolds, Zhimi, Goods, Exchanges, redis, mysql
<1>6. AccountLoaded'
  BY DEF IInv, TypeOK, AccountLoaded, Underway, redis, topic
<1>7. SaleLoaded'
  BY DEF IInv, TypeOK, SaleLoaded, Exchanges, Underway, redis, topic
<1>8. LoadsInTime => NeverOverdrawn'
  BY DEF IInv, NeverOverdrawn, Zhimi, Goods, redis, mysql
<1>9. QED
  BY <1>2, <1>3, <1>4, <1>5, <1>6, <1>7, <1>8 DEF IInv

LEMMA RunKeeps ==
  ASSUME NEW c \in Call, IInv, Run(c)
  PROVE  IInv'
<1> USE DEF Run
<1>1. work[c] \in Works /\ work[c].user \in User
  BY WorkParts DEF IInv, WorkKnown
<1>2. SeenOrLoaded(c) \in Int /\ ShelfOrLoaded(c) \in Shelf
  BY <1>1 DEF IInv, TypeOK, SeenOrLoaded, ShelfOrLoaded
<1>3. TypeOK'
  BY <1>2 DEF IInv, TypeOK, redis, mysql, topic, faults
<1>4. WorkKnown' /\ Results'
  BY DEF IInv, TypeOK, WorkKnown, Results
<1>5. LoadsInTime => RunSees'
  BY DEF IInv, TypeOK, RunSees, Zhimi, Goods, Exchanges, redis, mysql
<1>6. /\ seen'[c] = SeenOrLoaded(c) /\ shelf'[c] = ShelfOrLoaded(c)
      /\ \A d \in Call \ {c} : pc'[d] = pc[d] /\ seen'[d] = seen[d] /\ shelf'[d] = shelf[d]
  BY DEF IInv, TypeOK
<1>7. ExecSees'
  BY <1>2, <1>6 DEF IInv, ExecSees
<1>8. LoadsInTime => SnapshotHolds'
  <2>1. /\ user' = user /\ goods' = goods /\ account' = account /\ sales' = sales
        /\ work' = work /\ spoiled' = spoiled
    BY DEF redis, mysql
  <2>2. LoadsInTime /\ c \notin spoiled =>
        /\ SeenOrLoaded(c) = Zhimi(work[c].user)
        /\ Exchanges(work[c]) => ShelfOrLoaded(c) = Goods
    BY DEF IInv, RunSees, SeenOrLoaded, ShelfOrLoaded, Zhimi, Goods
  <2>3. QED
    BY <1>6, <2>1, <2>2 DEF IInv, SnapshotHolds, Zhimi, Goods, Exchanges
<1>9. AccountLoaded'
  BY DEF IInv, TypeOK, AccountLoaded, Underway, redis, topic
<1>10. SaleLoaded'
  BY DEF IInv, TypeOK, SaleLoaded, Exchanges, Underway, redis, topic
<1>11. Orders'
  <2>1. \A d \in Call \ {c} : jd'[d] = jd[d]
    BY DEF IInv, TypeOK
  <2>2. result[c] = "none" /\ c \notin booked /\ jd[c] # "cancelled"
    BY DEF IInv, Results, Orders
  <2>3. jd'[c] # "cancelled"
    BY <2>2 DEF IInv, TypeOK
  <2>4. QED
    BY Zenon, <2>1, <2>2, <2>3 DEF IInv, Orders, Underway, mysql, topic
<1>12. LoadsInTime => NeverOverdrawn'
  BY DEF IInv, NeverOverdrawn, Zhimi, Goods, redis, mysql
<1>13. QED
  BY <1>3, <1>4, <1>5, <1>7, <1>8, <1>9, <1>10, <1>11, <1>12 DEF IInv

\* Events on their way: what may still reach MySQL is no more than before.
LEMMA EventsKeep ==
  ASSUME IInv, UNCHANGED <<redis, mysql, pc, local, spoiled, result, order, forgotten>>,
         event' \in [Event -> {"none", "lost", "done"} \cup Underway], fetched' \subseteq Event,
         hit' \subseteq Call, struck' \in Nat,
         \A e \in Event : event'[e] \in Underway \/ e \in fetched' => Unsettled(e)
  PROVE  IInv'
<1>1. TypeOK'
  BY DEF IInv, TypeOK, redis, mysql, local, order, Underway, Shelf
<1>2. WorkKnown' /\ Results' /\ ExecSees'
  BY DEF IInv, WorkKnown, Results, ExecSees, local
<1>3. LoadsInTime => RunSees' /\ SnapshotHolds' /\ NeverOverdrawn'
  BY DEF IInv, RunSees, SnapshotHolds, NeverOverdrawn, Zhimi, Goods, Exchanges, redis, mysql, local
<1>4. AccountLoaded'
  BY EventsKnown DEF IInv, AccountLoaded, Unsettled, Underway, redis, local
<1>5. SaleLoaded'
  BY EventsKnown DEF IInv, SaleLoaded, Exchanges, Unsettled, Underway, redis, local
<1>6. Orders'
  BY Zenon, EventsKnown DEF IInv, Orders, Unsettled, Underway, mysql, order
<1>7. QED
  BY <1>1, <1>2, <1>3, <1>4, <1>5, <1>6 DEF IInv

LEMMA HitsKeeps ==
  ASSUME IInv, NEW S \in SUBSET Call, Hits(S)
  PROVE  hit' \subseteq Call /\ struck' \in Nat /\ forgotten' = forgotten
BY DEF IInv, TypeOK, Hits

LEMMA PollKeeps ==
  ASSUME NEW e \in Event, IInv, Poll(e)
  PROVE  IInv'
<1>1. event' \in [Event -> {"none", "lost", "done"} \cup Underway]
  BY DEF IInv, TypeOK, Poll, Underway
<1>2. \A f \in Event : event'[f] \in Underway \/ f \in fetched' => Unsettled(f)
  BY DEF IInv, TypeOK, Poll, Underway, Unsettled
<1>3. QED
  BY <1>1, <1>2, EventsKeep DEF IInv, TypeOK, Poll, faults

LEMMA CommitKeeps ==
  ASSUME IInv, CommitOffsets
  PROVE  IInv'
<1>1. \A f \in Event : event'[f] \in Underway \/ f \in fetched' => Unsettled(f)
  BY DEF CommitOffsets, Underway, Unsettled
<1>2. QED
  BY <1>1, EventsKeep DEF IInv, TypeOK, CommitOffsets, faults, Underway

LEMMA ConsumeFailsKeeps ==
  ASSUME NEW e \in Event, IInv, ConsumeFails(e)
  PROVE  IInv'
<1>1. hit' \subseteq Call /\ struck' \in Nat /\ forgotten' = forgotten
  BY HitsKeeps DEF ConsumeFails, Event
<1>2. event' \in [Event -> {"none", "lost", "done"} \cup Underway]
  BY DEF IInv, TypeOK, ConsumeFails
<1>3. \A f \in Event : event'[f] \in Underway \/ f \in fetched' => Unsettled(f)
  BY DEF IInv, TypeOK, ConsumeFails, Underway, Unsettled
<1>4. QED
  BY <1>1, <1>2, <1>3, EventsKeep DEF IInv, TypeOK, ConsumeFails

LEMMA TaskCrashKeeps ==
  ASSUME IInv, TaskCrash
  PROVE  IInv'
<1> DEFINE torn == {e \in Event : event[e] = "pool"} \cup fetched
<1>1. {e[1] : e \in torn} \in SUBSET Call
  BY DEF IInv, TypeOK, Event
<1>2. hit' \subseteq Call /\ struck' \in Nat /\ forgotten' = forgotten
  BY <1>1, HitsKeeps DEF TaskCrash
<1>3. event' \in [Event -> {"none", "lost", "done"} \cup Underway] /\ fetched' \subseteq Event
  BY DEF IInv, TypeOK, TaskCrash, Underway
<1>4. \A f \in Event : event'[f] \in Underway \/ f \in fetched' => Unsettled(f)
  BY DEF IInv, TypeOK, TaskCrash, Underway, Unsettled
<1>5. QED
  BY <1>2, <1>3, <1>4, EventsKeep DEF TaskCrash

\* The events of a call that took effect are sent, or some of them.
LEMMA SendKeeps ==
  ASSUME NEW c \in Call, IInv, pc[c] = "publish", pc' = [pc EXCEPT ![c] = "done"],
         UNCHANGED <<redis, mysql, local, spoiled, result, order, fetched, forgotten>>,
         event' \in [Event -> {"none", "lost", "done"} \cup Underway],
         hit' \subseteq Call, struck' \in Nat,
         \A e \in Event : event'[e] \in Underway => event[e] \in Underway \/ e \in EventsOf(c)
  PROVE  IInv'
<1>1. TypeOK'
  BY DEF IInv, TypeOK, redis, mysql, local, order, Underway, Shelf
<1>2. WorkKnown' /\ Results' /\ ExecSees'
  BY DEF IInv, TypeOK, WorkKnown, Results, ExecSees, local
<1>3. LoadsInTime => RunSees' /\ SnapshotHolds' /\ NeverOverdrawn'
  BY DEF IInv, TypeOK, RunSees, SnapshotHolds, NeverOverdrawn, Zhimi, Goods, Exchanges, redis, mysql, local
<1>4. /\ <<c, "account">> \in Event
      /\ \A d \in Call \ {c} : <<d, "account">> \notin EventsOf(c) /\ <<d, "order">> \notin EventsOf(c)
      /\ <<c, "order">> \in EventsOf(c) => Exchanges(work[c])
  BY EventsKnown DEF EventsOf
<1>5. AccountLoaded'
  <2> DEFINE Loads(d) == pc[d] = "publish" \/ event[<<d, "account">>] \in Underway \/ <<d, "account">> \in fetched
             LoadsNext(d) == pc'[d] = "publish" \/ event'[<<d, "account">>] \in Underway \/ <<d, "account">> \in fetched'
  <2>1. user' = user /\ work' = work /\ fetched' = fetched
    BY DEF redis, local
  <2>2. ASSUME NEW d \in Call, LoadsNext(d) PROVE Loads(d)
    <3>1. CASE d # c
      <4>1. event'[<<d, "account">>] \in Underway => event[<<d, "account">>] \in Underway
        BY <1>4, <3>1, EventsKnown
      <4>2. pc'[d] = pc[d]
        BY <3>1 DEF IInv, TypeOK, local
      <4>3. QED
        BY Zenon, <2>1, <2>2, <4>1, <4>2
    <3>2. QED
      BY <3>1
  <2>3. ASSUME NEW d \in Call, Loads(d) PROVE work[d] \in Works /\ (LoadsInTime => user[work[d].user] # Gone)
    BY Zenon, <2>3 DEF IInv, AccountLoaded
  <2> HIDE DEF Loads
  <2>4. QED
    BY Zenon, <2>1, <2>2, <2>3 DEF AccountLoaded
<1>6. SaleLoaded'
  <2>1. \A d \in Call : \/ pc'[d] = "publish" /\ Exchanges(work[d])
                       \/ event'[<<d, "order">>] \in Underway
                       => \/ pc[d] = "publish" /\ Exchanges(work[d])
                          \/ event[<<d, "order">>] \in Underway
    BY <1>4, EventsKnown DEF IInv, TypeOK
  <2>2. work' = work /\ goods' = goods /\ fetched' = fetched
    BY DEF redis, local
  <2>3. QED
    BY <2>1, <2>2 DEF IInv, SaleLoaded, Exchanges, Underway
<1>7. Orders'
  BY Zenon, <1>4, EventsKnown DEF IInv, Results, Orders, Underway, mysql, order
<1>8. QED
  BY <1>1, <1>2, <1>3, <1>5, <1>6, <1>7 DEF IInv

LEMMA PublishKeeps ==
  ASSUME NEW c \in Call, IInv, Publish(c) \/ PublishFails(c)
  PROVE  IInv'
<1>1. hit' \subseteq Call /\ struck' \in Nat /\ forgotten' = forgotten
  BY HitsKeeps DEF IInv, TypeOK, Publish, PublishFails, faults
<1>2. event' \in [Event -> {"none", "lost", "done"} \cup Underway]
  BY DEF IInv, TypeOK, Publish, PublishFails, Underway
<1>3. \A e \in Event : event'[e] \in Underway => event[e] \in Underway \/ e \in EventsOf(c)
  BY DEF IInv, TypeOK, Publish, PublishFails, Underway
<1>4. QED
  BY <1>1, <1>2, <1>3, SendKeeps DEF Publish, PublishFails

\* The pool is done with an order, one way or the other.
LEMMA CancelKeeps ==
  ASSUME NEW c \in Call, IInv, Cancel(c) \/ CancelFails(c)
  PROVE  IInv'
<1>1. /\ c \in compensate /\ compensate' = compensate \ {c}
      /\ jd' = jd \/ jd' = [jd EXCEPT ![c] = "cancelled"]
      /\ UNCHANGED <<redis, mysql, pc, local, spoiled, result, topic>>
  BY DEF Cancel, CancelFails, order
<1>2. hit' \subseteq Call /\ struck' \in Nat /\ forgotten' = forgotten
  BY HitsKeeps DEF IInv, TypeOK, Cancel, CancelFails, faults
<1>3. TypeOK'
  BY <1>1, <1>2 DEF IInv, TypeOK, redis, mysql, local, topic, Underway, Shelf
<1>4. WorkKnown' /\ Results' /\ ExecSees'
  BY <1>1 DEF IInv, WorkKnown, Results, ExecSees, local
<1>5. LoadsInTime => RunSees' /\ SnapshotHolds' /\ NeverOverdrawn'
  BY <1>1 DEF IInv, RunSees, SnapshotHolds, NeverOverdrawn, Zhimi, Goods, Exchanges, redis, mysql, local
<1>6. AccountLoaded'
  BY <1>1 DEF IInv, AccountLoaded, Underway, redis, local, topic
<1>7. SaleLoaded'
  BY <1>1 DEF IInv, SaleLoaded, Exchanges, Underway, redis, local, topic
<1>8. Orders'
  <2>1. result[c] = "conflict" /\ c \notin booked
    BY <1>1 DEF IInv, Orders
  <2>2. \A d \in Call \ {c} : jd'[d] = jd[d]
    BY <1>1 DEF IInv, TypeOK
  <2>3. QED
    BY Zenon, <1>1, <2>1, <2>2 DEF IInv, Orders, Underway, mysql, topic
<1>9. QED
  BY <1>3, <1>4, <1>5, <1>6, <1>7, <1>8 DEF IInv

-----------------------------------------------------------------------------
\* The zhimi of all users, as the promise sees it.
Balance == [u \in User |-> Zhimi(u)]

\* EXEC: the command takes effect on what redis holds, not on what it held.
LEMMA WriteApplies ==
  ASSUME NEW c \in Call, IInv, pc[c] = "exec", Write(c), UNCHANGED <<mysql, local>>
  PROVE  /\ work[c] \in Works /\ result[c] = "none"
         /\ user' \in [User -> Int \cup {Gone}] /\ user'[work[c].user] # Gone
         /\ \A u \in User \ {work[c].user} : user'[u] = user[u]
         /\ goods' \in Shelf \cup {Gone}
         /\ IF Exchanges(work[c]) THEN goods' \in Shelf ELSE goods' = goods
         /\ LoadsInTime =>
              /\ ~Refused(work[c], Balance[work[c].user], Goods)
              /\ Balance' = [Balance EXCEPT ![work[c].user] = ZhimiAfter(work[c], @)]
              /\ Goods' = IF Exchanges(work[c]) THEN GoodsAfter(work[c], Goods) ELSE Goods
<1> DEFINE w == work[c]
<1>1. w \in Works /\ w.user \in User
  BY WorkParts DEF IInv, WorkKnown
<1>2. seen[c] \in Int /\ shelf[c] \in Shelf /\ ~Refused(w, seen[c], shelf[c])
  BY DEF IInv, ExecSees
<1>3. LoadsInTime => seen[c] = Zhimi(w.user) /\ (Exchanges(w) => shelf[c] = Goods)
  BY DEF IInv, SnapshotHolds, Write
<1>4. LoadsInTime => ~Refused(w, Balance[w.user], Goods)
  BY <1>1, <1>2, <1>3 DEF Balance, Refused
<1>5. ZhimiAfter(w, seen[c]) \in Int /\ ZhimiAfter(w, seen[c]) # Gone
  BY <1>1, <1>2, ZhimiAfterType
<1>6. user' = [user EXCEPT ![w.user] = ZhimiAfter(w, seen[c])]
  BY DEF Write
<1>7. /\ user' \in [User -> Int \cup {Gone}] /\ user'[w.user] = ZhimiAfter(w, seen[c])
      /\ \A u \in User \ {w.user} : user'[u] = user[u]
  BY <1>1, <1>5, <1>6 DEF IInv, TypeOK
<1>8. /\ GoodsAfter(w, shelf[c]) \in Shelf /\ GoodsAfter(w, shelf[c]) # Gone
      /\ goods' = IF Exchanges(w) THEN GoodsAfter(w, shelf[c]) ELSE goods
  BY <1>1, <1>2, GoodsAfterType DEF Write
<1>9. goods' \in Shelf \cup {Gone} /\ IF Exchanges(w) THEN goods' \in Shelf ELSE goods' = goods
  BY <1>8 DEF IInv, TypeOK
<1>10. account' = account /\ sales' = sales
  BY DEF mysql
<1>11. LoadsInTime => Balance' = [Balance EXCEPT ![w.user] = ZhimiAfter(w, @)]
  BY <1>1, <1>3, <1>5, <1>7, <1>10 DEF Balance, Zhimi
<1>12. LoadsInTime => Goods' = IF Exchanges(w) THEN GoodsAfter(w, Goods) ELSE Goods
  BY <1>3, <1>8, <1>10 DEF Goods
<1>13. result[c] = "none"
  BY DEF IInv, Results
<1>14. QED
  BY <1>1, <1>4, <1>5, <1>7, <1>9, <1>11, <1>12, <1>13

\* A command that was not refused overdraws nothing, unless it asked for no check.
LEMMA AppliedWithin ==
  ASSUME NEW w \in Works, NEW z \in Int, NEW g \in Shelf, ~Refused(w, z, g)
  PROVE  /\ ZhimiAfter(w, z) < 0 => ~w.check \/ z < 0
         /\ Exchanges(w) => /\ GoodsAfter(w, g).stock >= 0
                            /\ SumCount > 0 => GoodsAfter(w, g).sold[w.user] < SumCount + OnceCount
                            /\ \A u \in User \ {w.user} : GoodsAfter(w, g).sold[u] = g.sold[u]
<1>1. /\ w \in [kind : {"in", "out", "exchange"}, user : User, count : Nat, check : BOOLEAN]
      /\ Cost(w) \in Nat /\ w.count \in Nat /\ w.user \in User
      /\ SumCount \in Nat /\ OnceCount \in Nat
  BY WorkParts, CommandAssumption
<1>2. ZhimiAfter(w, z) < 0 => IF w.kind = "in" THEN z < 0 ELSE w.kind = "out" /\ ~w.check
  BY <1>1 DEF Refused, TooDear, Exchanges, ZhimiAfter
<1>3. ASSUME Exchanges(w)
      PROVE  /\ GoodsAfter(w, g).stock >= 0
             /\ SumCount > 0 => GoodsAfter(w, g).sold[w.user] < SumCount + OnceCount
             /\ \A u \in User \ {w.user} : GoodsAfter(w, g).sold[u] = g.sold[u]
  <2>1. ~SoldOut(w, g) /\ ~TakenEnough(w, g)
    BY <1>3 DEF Refused
  <2>2. /\ g.stock >= w.count /\ w.count <= OnceCount
        /\ SumCount > 0 => g.sold[w.user] < SumCount
        /\ g.stock \in Int /\ g.sold \in [User -> Nat]
    BY <1>1, <2>1 DEF SoldOut, TakenEnough, Shelf
  <2>3. /\ GoodsAfter(w, g).stock = g.stock - w.count
        /\ GoodsAfter(w, g).sold = [g.sold EXCEPT ![w.user] = @ + w.count]
    BY DEF GoodsAfter
  <2>4. QED
    BY <1>1, <2>2, <2>3
<1>4. QED
  BY <1>2, <1>3

LEMMA WriteKeeps ==
  ASSUME NEW c \in Call, NEW next \in {"publish", "done"}, IInv,
         pc[c] = "exec", pc' = [pc EXCEPT ![c] = next], Write(c),
         UNCHANGED <<mysql, local, order, fetched, forgotten>>,
         event' \in [Event -> {"none", "lost", "done"} \cup Underway],
         \A e \in Event : event'[e] \in Underway => event[e] \in Underway,
         hit' \subseteq Call, struck' \in Nat
  PROVE  IInv'
<1> DEFINE w == work[c]
<1>1. /\ w \in Works /\ w.user \in User /\ result[c] = "none"
      /\ LoadsInTime => ~Refused(w, Balance[w.user], Goods)
  BY WriteApplies, WorkParts
<1>2. /\ user' \in [User -> Int \cup {Gone}] /\ user'[w.user] # Gone
      /\ \A u \in User \ {w.user} : user'[u] = user[u]
  BY WriteApplies
<1>3. /\ goods' \in Shelf \cup {Gone}
      /\ IF Exchanges(w) THEN goods' \in Shelf ELSE goods' = goods
  BY WriteApplies
<1>4. LoadsInTime =>
        /\ Balance' = [Balance EXCEPT ![w.user] = ZhimiAfter(w, @)]
        /\ Goods' = IF Exchanges(w) THEN GoodsAfter(w, Goods) ELSE Goods
  BY WriteApplies
<1>5. result' = [result EXCEPT ![c] = "applied"] /\ spoiled' = spoiled \cup Watchers(c) /\ work' = work
  BY DEF Write, local
<1>6. TypeOK'
  BY <1>2, <1>3, <1>5 DEF IInv, TypeOK, Watchers, mysql, local, order, Shelf, Underway
<1>7. \A d \in Call \ {c} : pc'[d] = pc[d] /\ result'[d] = result[d] /\ seen'[d] = seen[d] /\ shelf'[d] = shelf[d]
  BY <1>5 DEF IInv, TypeOK, local
<1>8. WorkKnown' /\ Results' /\ ExecSees'
  BY <1>1, <1>5, <1>7 DEF IInv, TypeOK, WorkKnown, Results, ExecSees, local
<1>9. \A d \in Call \ {c} : pc[d] \in {"run", "exec"} /\ d \notin spoiled' =>
        /\ d \notin spoiled /\ work[d].user # w.user /\ ~(Exchanges(w) /\ Exchanges(work[d]))
        /\ work[d].user \in User
  BY <1>5, WorkParts DEF IInv, WorkKnown, Watchers, WatchesKeyOf
<1>10. pc'[c] \notin {"run", "exec"} /\ account' = account /\ sales' = sales
  BY DEF IInv, TypeOK, mysql
<1>11. LoadsInTime => RunSees'
  BY <1>2, <1>3, <1>5, <1>7, <1>9, <1>10 DEF IInv, RunSees, Zhimi, Goods, Exchanges
<1>12. LoadsInTime => SnapshotHolds'
  BY <1>2, <1>3, <1>5, <1>7, <1>9, <1>10 DEF IInv, SnapshotHolds, Zhimi, Goods, Exchanges
<1>13. Gone \notin Shelf
  BY EngineAssumption DEF Shelf
<1>14. AccountLoaded'
  <2>1. \A d \in Call \ {c} : (pc'[d] = "publish" \/ event'[<<d, "account">>] \in Underway \/ <<d, "account">> \in fetched')
          => work[d] \in Works /\ work[d].user \in User /\ (LoadsInTime => user[work[d].user] # Gone)
    BY <1>7, EventsKnown, WorkParts DEF IInv, AccountLoaded
  <2>2. QED
    BY <1>1, <1>2, <1>5, <2>1 DEF AccountLoaded, Underway
<1>15. SaleLoaded'
  <2>1. \A d \in Call \ {c} : (pc'[d] = "publish" /\ Exchanges(work[d])) \/ event'[<<d, "order">>] \in Underway \/ <<d, "order">> \in fetched'
          => work[d] \in Works /\ Exchanges(work[d]) /\ (LoadsInTime => goods' # Gone)
    BY <1>3, <1>7, <1>13, EventsKnown DEF IInv, SaleLoaded
  <2>2. event'[<<c, "order">>] \in Underway \/ <<c, "order">> \in fetched' => FALSE
    BY <1>1, EventsKnown DEF IInv, Orders
  <2>3. QED
    BY <1>1, <1>3, <1>5, <1>13, <2>1, <2>2 DEF SaleLoaded, Exchanges, Underway
<1>16. Orders'
  <2>1. \A d \in Call : event'[<<d, "order">>] \in Underway => event[<<d, "order">>] \in Underway
    BY EventsKnown
  <2>2. c \notin compensate /\ jd[c] # "cancelled" /\ c \notin booked /\ result'[c] = "applied"
    BY <1>1, <1>5 DEF IInv, TypeOK, Orders
  <2>3. jd' = jd /\ compensate' = compensate /\ booked' = booked /\ fetched' = fetched
    BY DEF mysql, order
  <2>4. QED
    <3>1. \A d \in Call : event'[<<d, "order">>] \in Underway \/ <<d, "order">> \in fetched' => result'[d] = "applied"
      BY <1>7, <2>1, <2>2, <2>3 DEF IInv, Orders
    <3>2. \A d \in Call : d \in compensate' \/ jd'[d] = "cancelled" => result'[d] = "conflict"
      BY <1>7, <2>2, <2>3 DEF IInv, Orders
    <3>3. \A d \in Call : d \in booked' => result'[d] = "applied" /\ (Confirms => jd'[d] = "confirmed")
      BY <1>7, <2>2, <2>3 DEF IInv, Orders
    <3>4. QED
      BY Zenon, <3>1, <3>2, <3>3 DEF Orders
<1>17. LoadsInTime => NeverOverdrawn'
  <2> SUFFICES ASSUME LoadsInTime PROVE NeverOverdrawn'
    OBVIOUS
  <2>1. Balance[w.user] \in Int /\ Goods \in Shelf /\ \A u \in User : Balance[u] = Zhimi(u)
    BY <1>1 DEF IInv, TypeOK, Balance, Zhimi, Goods
  <2>2. \A u \in User : Zhimi(u)' = IF u = w.user THEN ZhimiAfter(w, Zhimi(u)) ELSE Zhimi(u)
    <3>1. \A u \in User : Balance'[u] = Zhimi(u)'
      BY DEF Balance, Zhimi
    <3>2. QED
      BY <1>1, <1>4, <2>1, <3>1 DEF Balance
  <2>3. ASSUME NEW u \in User, Zhimi(u)' < 0
        PROVE  \E d \in Call : result'[d] = "applied" /\ work'[d].user = u /\ ~work'[d].check
    <3>1. CASE Zhimi(u) < 0
      <4>1. PICK d \in Call : result[d] = "applied" /\ work[d].user = u /\ ~work[d].check
        BY <3>1 DEF IInv, NeverOverdrawn
      <4>2. QED
        BY <1>1, <1>5, <1>7, <4>1
    <3>2. CASE ~(Zhimi(u) < 0)
      <4>1. u = w.user /\ ZhimiAfter(w, Zhimi(u)) < 0
        BY <2>2, <2>3, <3>2
      <4>2. ~w.check
        BY <1>1, <2>1, <3>2, <4>1, AppliedWithin
      <4>3. QED
        BY <1>5, <4>1, <4>2 DEF IInv, TypeOK
    <3>3. QED
      BY <3>1, <3>2
  <2>4. Goods'.stock >= 0 /\ (SumCount > 0 => \A u \in User : Goods'.sold[u] < SumCount + OnceCount)
    <3>1. CASE Exchanges(w)
      BY <1>1, <1>4, <2>1, <3>1, AppliedWithin DEF IInv, NeverOverdrawn
    <3>2. CASE ~Exchanges(w)
      BY <1>4, <3>2 DEF IInv, NeverOverdrawn
    <3>3. QED
      BY <3>1, <3>2
  <2>5. QED
    BY <2>3, <2>4 DEF NeverOverdrawn
<1>18. QED
  BY <1>6, <1>8, <1>11, <1>12, <1>14, <1>15, <1>16, <1>17 DEF IInv

LEMMA ExecKeeps ==
  ASSUME NEW c \in Call, IInv, Exec(c) \/ ExecAnswerLost(c)
  PROVE  IInv'
<1>1. CASE Exec(c)
  BY <1>1, WriteKeeps DEF IInv, TypeOK, Exec, topic, faults
<1>2. CASE ExecAnswerLost(c)
  <2>1. hit' \subseteq Call /\ struck' \in Nat /\ forgotten' = forgotten
    BY <1>2, HitsKeeps DEF ExecAnswerLost
  <2>2. /\ event' \in [Event -> {"none", "lost", "done"} \cup Underway]
        /\ \A e \in Event : event'[e] \in Underway => event[e] \in Underway
    BY <1>2 DEF IInv, TypeOK, ExecAnswerLost, Underway
  <2>3. QED
    BY <1>2, <2>1, <2>2, WriteKeeps DEF ExecAnswerLost
<1>3. QED
  BY <1>1, <1>2

-----------------------------------------------------------------------------
\* The copy moves on, redis has the original.
LEMMA ConsumeAccountKeeps ==
  ASSUME NEW c \in Call, IInv, ConsumeAccount(c)
  PROVE  IInv' /\ (LoadsInTime => Balance' = Balance /\ Goods' = Goods)
<1> DEFINE w == work[c]
<1>1. w \in Works /\ w.user \in User /\ (LoadsInTime => user[w.user] # Gone)
  BY WorkParts DEF IInv, AccountLoaded, ConsumeAccount, Underway
<1>2. account' = [account EXCEPT ![w.user] = ZhimiAfter(w, @)]
  BY DEF ConsumeAccount
<1>3. ZhimiAfter(w, account[w.user]) \in Int
  BY <1>1, ZhimiAfterType DEF IInv, TypeOK
<1>4. account' \in [User -> Int] /\ \A u \in User \ {w.user} : account'[u] = account[u]
  BY <1>1, <1>2, <1>3 DEF IInv, TypeOK
<1>5. \A e \in Event : event'[e] \in Underway => event[e] \in Underway
  BY DEF IInv, TypeOK, ConsumeAccount, Underway
<1>6. /\ user' = user /\ goods' = goods /\ sales' = sales /\ booked' = booked /\ pc' = pc
      /\ work' = work /\ seen' = seen /\ shelf' = shelf /\ spoiled' = spoiled /\ result' = result
      /\ jd' = jd /\ compensate' = compensate /\ fetched' = fetched
      /\ hit' = hit /\ struck' = struck /\ forgotten' = forgotten
  BY DEF ConsumeAccount, redis, local, order, faults
<1>7. event' \in [Event -> {"none", "lost", "done"} \cup Underway]
  BY DEF IInv, TypeOK, ConsumeAccount
<1>8. TypeOK'
  BY <1>4, <1>6, <1>7 DEF IInv, TypeOK, Shelf, Underway
<1>9. WorkKnown' /\ Results' /\ ExecSees'
  BY <1>6 DEF IInv, WorkKnown, Results, ExecSees
<1>10. LoadsInTime => \A u \in User : IF user'[u] = Gone THEN user[u] = Gone /\ account'[u] = account[u] ELSE user'[u] = user[u]
  BY <1>1, <1>4, <1>6
<1>11. \A d \in Call : pc[d] # "idle" => work[d].user \in User
  BY WorkParts DEF IInv, WorkKnown
<1>12. LoadsInTime => RunSees' /\ SnapshotHolds'
  BY <1>6, <1>10, <1>11 DEF IInv, RunSees, SnapshotHolds, Zhimi, Goods, Exchanges
<1>13. AccountLoaded'
  BY <1>5, <1>6, EventsKnown DEF IInv, AccountLoaded, Underway
<1>14. SaleLoaded'
  BY <1>5, <1>6, EventsKnown DEF IInv, SaleLoaded, Exchanges, Underway
<1>15. Orders'
  BY <1>5, <1>6, EventsKnown DEF IInv, Orders, Underway
<1>16. LoadsInTime => Balance' = Balance /\ Goods' = Goods
  BY <1>6, <1>10 DEF Balance, Zhimi, Goods
<1>17. LoadsInTime => NeverOverdrawn'
  BY <1>6, <1>10 DEF IInv, NeverOverdrawn, Zhimi, Goods
<1>18. QED
  BY <1>8, <1>9, <1>12, <1>13, <1>14, <1>15, <1>16, <1>17 DEF IInv

LEMMA ConsumeOrderKeeps ==
  ASSUME NEW c \in Call, IInv, ConsumeOrder(c) \/ ConsumeOrderTorn(c)
  PROVE  IInv' /\ Balance' = Balance /\ (LoadsInTime => Goods' = Goods)
<1>1. work[c] \in Works /\ (LoadsInTime => goods # Gone) /\ result[c] = "applied" /\ jd[c] # "cancelled"
  BY DEF IInv, SaleLoaded, Orders, ConsumeOrder, ConsumeOrderTorn, Underway
<1>2. sales' \in Shelf
  <2>1. GoodsAfter(work[c], sales) \in Shelf /\ [sales EXCEPT !.stock = @ - work[c].count] \in Shelf
    BY <1>1, GoodsAfterType, WorkParts DEF IInv, TypeOK, Shelf
  <2>2. QED
    BY <2>1 DEF IInv, TypeOK, ConsumeOrder, ConsumeOrderTorn
<1>3. \A e \in Event : event'[e] \in Underway => event[e] \in Underway
  BY DEF IInv, TypeOK, ConsumeOrder, ConsumeOrderTorn, Underway
<1>4. /\ user' = user /\ goods' = goods /\ account' = account /\ pc' = pc
      /\ work' = work /\ seen' = seen /\ shelf' = shelf /\ spoiled' = spoiled /\ result' = result
      /\ compensate' = compensate /\ fetched' = fetched /\ booked' \in {booked, booked \cup {c}}
      /\ forgotten' = forgotten
  BY DEF ConsumeOrder, ConsumeOrderTorn, Hits, redis, local, faults
<1>5. hit' \subseteq Call /\ struck' \in Nat
  BY HitsKeeps DEF IInv, TypeOK, ConsumeOrder, ConsumeOrderTorn, faults
<1>6. /\ event' \in [Event -> {"none", "lost", "done"} \cup Underway]
      /\ jd' \in [Call -> {"none", "placed", "cancelled", "confirmed"}]
      /\ jd'[c] = (IF Confirms THEN "confirmed" ELSE jd[c]) /\ \A d \in Call \ {c} : jd'[d] = jd[d]
  BY DEF IInv, TypeOK, ConsumeOrder, ConsumeOrderTorn, Confirmed
<1>7. TypeOK'
  BY <1>2, <1>4, <1>5, <1>6 DEF IInv, TypeOK, Shelf, Underway
<1>8. WorkKnown' /\ Results' /\ ExecSees'
  BY <1>4 DEF IInv, WorkKnown, Results, ExecSees
<1>9. Balance' = Balance /\ (LoadsInTime => Goods' = Goods)
  BY <1>1, <1>4 DEF Goods, Balance, Zhimi
<1>10. LoadsInTime => RunSees' /\ SnapshotHolds' /\ NeverOverdrawn'
  BY <1>1, <1>4 DEF IInv, RunSees, SnapshotHolds, NeverOverdrawn, Zhimi, Goods, Exchanges
<1>11. AccountLoaded'
  BY <1>3, <1>4, EventsKnown DEF IInv, AccountLoaded, Underway
<1>12. SaleLoaded'
  BY <1>3, <1>4, EventsKnown DEF IInv, SaleLoaded, Exchanges, Underway
<1>13. Orders'
  <2>1. \A d \in Call : event'[<<d, "order">>] \in Underway => event[<<d, "order">>] \in Underway
    BY <1>3, EventsKnown
  <2>2. \A d \in Call : d \in compensate' \/ jd'[d] = "cancelled" => d \in compensate \/ jd[d] = "cancelled"
    BY <1>4, <1>6
  <2>3. \A d \in Call : d \in booked' => result[d] = "applied" /\ (Confirms => jd'[d] = "confirmed")
    BY <1>1, <1>4, <1>6 DEF IInv, Orders
  <2>4. QED
    BY Zenon, <1>4, <2>1, <2>2, <2>3 DEF IInv, Orders
<1>14. QED
  BY <1>7, <1>8, <1>9, <1>10, <1>11, <1>12, <1>13 DEF IInv

\* A key vanishes: if its copy is up to date, nothing is lost by it.
LEMMA ForgetKeeps ==
  ASSUME NEW u \in User, IInv, Forget(u)
  PROVE  IInv' /\ (LoadsInTime => Balance' = Balance /\ Goods' = Goods)
<1>1. user' = [user EXCEPT ![u] = Gone] /\ (LoadsInTime =>
        /\ user[u] = account[u]
        /\ \A c \in Call : work[c] # Gone /\ work[c].user = u => pc[c] # "publish" /\ ~Unsettled(<<c, "account">>))
  BY DEF Forget, CaughtUp
<1>2. /\ goods' = goods /\ account' = account /\ sales' = sales /\ booked' = booked /\ pc' = pc
      /\ work' = work /\ seen' = seen /\ shelf' = shelf /\ result' = result
      /\ jd' = jd /\ compensate' = compensate /\ event' = event /\ fetched' = fetched
      /\ hit' = hit /\ struck' = struck
  BY DEF Forget, mysql, local, order, topic
<1>3. user' \in [User -> Int \cup {Gone}] /\ user'[u] = Gone /\ \A v \in User \ {u} : user'[v] = user[v]
  BY <1>1 DEF IInv, TypeOK
<1>4. spoiled \subseteq spoiled' /\ spoiled' \subseteq Call /\ forgotten' \in Nat
  BY DEF IInv, TypeOK, Forget
<1>5. TypeOK'
  BY <1>2, <1>3, <1>4 DEF IInv, TypeOK, Shelf, Underway
<1>6. WorkKnown' /\ Results' /\ ExecSees'
  BY <1>2 DEF IInv, WorkKnown, Results, ExecSees
<1>7. LoadsInTime => \A v \in User : (IF user'[v] = Gone THEN account'[v] ELSE user'[v]) = Zhimi(v)
  BY <1>1, <1>2, <1>3 DEF Zhimi
<1>8. LoadsInTime => Balance' = Balance /\ Goods' = Goods
  BY <1>2, <1>7 DEF Balance, Zhimi, Goods
<1>9. \A d \in Call : pc[d] # "idle" => work[d].user \in User
  BY WorkParts DEF IInv, WorkKnown
<1>10. LoadsInTime => RunSees'
  BY <1>2, <1>3, <1>4, <1>7, <1>9 DEF IInv, RunSees, Zhimi, Goods, Exchanges
<1>11. LoadsInTime => SnapshotHolds'
  BY <1>2, <1>4, <1>7, <1>9 DEF IInv, SnapshotHolds, Zhimi, Goods, Exchanges
<1>12. AccountLoaded'
  BY <1>1, <1>2, <1>3, WorkParts, EngineAssumption DEF IInv, AccountLoaded, Unsettled, Underway
<1>13. SaleLoaded'
  BY <1>2 DEF IInv, SaleLoaded, Exchanges, Underway
<1>14. Orders'
  BY <1>2 DEF IInv, Orders, Underway
<1>15. LoadsInTime => NeverOverdrawn'
  BY <1>2, <1>7 DEF IInv, NeverOverdrawn, Zhimi, Goods
<1>16. QED
  BY <1>5, <1>6, <1>8, <1>10, <1>11, <1>12, <1>13, <1>14, <1>15 DEF IInv

LEMMA ForgetGoodsKeeps ==
  ASSUME IInv, ForgetGoods
  PROVE  IInv' /\ (LoadsInTime => Balance' = Balance /\ Goods' = Goods)
<1>1. goods # Gone /\ goods' = Gone /\ (LoadsInTime =>
        /\ goods = sales
        /\ \A c \in Call : work[c] # Gone /\ Exchanges(work[c]) => pc[c] # "publish" /\ ~Unsettled(<<c, "order">>))
  BY DEF ForgetGoods, SaleCaughtUp
<1>2. /\ user' = user /\ account' = account /\ sales' = sales /\ booked' = booked /\ pc' = pc
      /\ work' = work /\ seen' = seen /\ shelf' = shelf /\ result' = result
      /\ jd' = jd /\ compensate' = compensate /\ event' = event /\ fetched' = fetched
      /\ hit' = hit /\ struck' = struck
  BY DEF ForgetGoods, mysql, local, order, topic
<1>3. spoiled \subseteq spoiled' /\ spoiled' \subseteq Call /\ forgotten' \in Nat
  BY DEF IInv, TypeOK, ForgetGoods
<1>4. TypeOK'
  BY <1>1, <1>2, <1>3 DEF IInv, TypeOK, Shelf, Underway
<1>5. WorkKnown' /\ Results' /\ ExecSees'
  BY <1>2 DEF IInv, WorkKnown, Results, ExecSees
<1>6. LoadsInTime => Goods' = Goods /\ Balance' = Balance
  BY <1>1, <1>2 DEF Goods, Balance, Zhimi
<1>7. LoadsInTime => RunSees' /\ SnapshotHolds'
  BY <1>1, <1>2, <1>3, <1>6 DEF IInv, RunSees, SnapshotHolds, Zhimi, Goods, Exchanges
<1>8. AccountLoaded'
  BY <1>2 DEF IInv, AccountLoaded, Underway
<1>9. SaleLoaded'
  BY <1>1, <1>2, EngineAssumption DEF IInv, SaleLoaded, Unsettled, Exchanges, Underway
<1>10. Orders'
  BY <1>2 DEF IInv, Orders, Underway
<1>11. LoadsInTime => NeverOverdrawn'
  BY <1>1, <1>2 DEF IInv, NeverOverdrawn, Zhimi, Goods
<1>12. QED
  BY <1>4, <1>5, <1>6, <1>7, <1>8, <1>9, <1>10, <1>11 DEF IInv

-----------------------------------------------------------------------------
LEMMA RefuseKeeps ==
  ASSUME NEW c \in Call, IInv, Refuse(c) \/ JdRefuses(c)
  PROVE  IInv'
BY EndKeeps DEF IInv, TypeOK, Refuse, JdRefuses, order, faults

LEMMA ConflictKeeps ==
  ASSUME NEW c \in Call, IInv, Conflict(c)
  PROVE  IInv'
BY EndKeeps DEF IInv, TypeOK, Conflict, faults

LEMMA CrashKeeps ==
  ASSUME NEW c \in Call, IInv, Crash(c) \/ JdAnswerLost(c)
  PROVE  IInv'
<1>1. hit' \subseteq Call /\ struck' \in Nat /\ forgotten' = forgotten
  BY HitsKeeps DEF Crash, JdAnswerLost
<1>2. QED
  BY <1>1, EndKeeps DEF Crash, JdAnswerLost, order

LEMMA NextKeeps == IInv /\ [Next]_vars => IInv'
<1> SUFFICES ASSUME IInv, [Next]_vars PROVE IInv'
  OBVIOUS
<1>1. ASSUME NEW c \in Call, NEW w \in Works, Watch(c, w) PROVE IInv'
  BY <1>1, WatchKeeps
<1>2. ASSUME NEW c \in Call, Progress(c) PROVE IInv'
  BY <1>2, EventsKnown, ReadKeeps, RefuseKeeps, RunKeeps, ExecKeeps, ConflictKeeps, PublishKeeps,
     CancelKeeps, PollKeeps, ConsumeAccountKeeps, ConsumeOrderKeeps DEF Progress
<1>3. ASSUME NEW c \in Call, Fault(c) PROVE IInv'
  BY <1>3, CrashKeeps, ExecKeeps, PublishKeeps, CancelKeeps,
     ConsumeOrderKeeps DEF Fault
<1>4. ASSUME NEW c \in Call, JdRefuses(c) PROVE IInv'
  BY <1>4, RefuseKeeps
<1>5. ASSUME NEW e \in Event, ConsumeFails(e) PROVE IInv'
  BY <1>5, ConsumeFailsKeeps
<1>6. ASSUME NEW u \in User, Forget(u) PROVE IInv'
  BY <1>6, ForgetKeeps
<1>7. CASE CommitOffsets \/ TaskCrash \/ ForgetGoods
  BY <1>7, CommitKeeps, TaskCrashKeeps, ForgetGoodsKeeps
<1>8. CASE UNCHANGED vars
  <2>1. UNCHANGED <<redis, mysql, pc, local, spoiled, result, order, forgotten>>
    BY <1>8 DEF vars, redis, mysql, local, order
  <2>2. event' = event /\ fetched' = fetched /\ hit' = hit /\ struck' = struck
    BY <1>8 DEF vars
  <2>3. QED
    BY <2>1, <2>2, EventsKeep DEF IInv, TypeOK, Unsettled
<1>9. QED
  BY <1>1, <1>2, <1>3, <1>4, <1>5, <1>6, <1>7, <1>8 DEF Next

LEMMA Invariance == Spec => []IInv
BY InitHolds, NextKeeps, PTL DEF Spec

\* The state of the engine is what it should be.
THEOREM TypeCorrect == Spec => []TypeOK
<1>1. IInv => TypeOK
  BY DEF IInv
<1>2. QED
  BY <1>1, Invariance, PTL

\* As long as nobody wrote a watched key, the numbers a call is about to write
\* back come from what redis (or MySQL, for a key redis has not got) holds now, if
\* keys are loaded only from a MySQL that has caught up.
THEOREM SnapshotCorrect == ASSUME LoadsInTime PROVE Spec => []SnapshotHolds
<1>1. IInv => SnapshotHolds
  BY DEF IInv
<1>2. QED
  BY <1>1, Invariance, PTL

\* If a key that vanished is loaded only from a MySQL that has caught up with it
\* (which DomainLoaderFactory does not see to): zhimi is overdrawn only where no
\* check was asked for, the sale never sells more than it has, and nobody gets more
\* than the limit and one helping, whatever races, conflicts, crashes, lost answers
\* and lost events there are.
THEOREM OverdrawnNever == ASSUME LoadsInTime PROVE Spec => []NeverOverdrawn
<1>1. IInv => NeverOverdrawn
  BY DEF IInv
<1>2. QED
  BY <1>1, Invariance, PTL

\* Whatever is lost, comes twice or is loaded too early: an order is booked only for an exchange that
\* took effect, and the order of one that did is not cancelled.
THEOREM BookedCorrect == Spec => []BookedIsApplied
<1>1. IInv => BookedIsApplied
  BY DEF IInv, Orders, BookedIsApplied
<1>2. QED
  BY <1>1, Invariance, PTL

-----------------------------------------------------------------------------
\* The calls that took effect, as the promise sees them.
Applied == {c \in Call : result[c] = "applied"}

\* The promise asks of a command what the engine asks.
LEMMA SameCommands ==
  ASSUME NEW w, NEW z, NEW g
  PROVE  /\ Promise!Refused(w, z, g) <=> Refused(w, z, g)
         /\ Promise!ZhimiAfter(w, z) = ZhimiAfter(w, z)
         /\ Promise!GoodsAfter(w, g) = GoodsAfter(w, g)
         /\ Promise!Exchanges(w) <=> Exchanges(w)
BY DEF Promise!Refused, Promise!TooDear, Promise!SoldOut, Promise!TakenEnough, Promise!Cost,
       Promise!Exchanges, Promise!ZhimiAfter, Promise!GoodsAfter,
       Refused, TooDear, SoldOut, TakenEnough, Cost, Exchanges, ZhimiAfter, GoodsAfter

LEMMA InitPromises == Init => Promise!Init
BY EngineAssumption DEF Init, Promise!Init, Zhimi, Goods

\* Most steps change nothing the callers can tell.
Quiet ==
  /\ Balance' = Balance /\ Goods' = Goods /\ Applied' = Applied
  /\ \A c \in Applied : work'[c] = work[c]

\* The step at which a command takes effect.
TakesEffect(c) == pc[c] = "exec" /\ Write(c) /\ UNCHANGED <<mysql, local>>

LEMMA QuietIf ==
  ASSUME IInv, UNCHANGED <<redis, mysql>>, Applied' = Applied,
         \A c \in Call : pc[c] # "idle" => work'[c] = work[c]
  PROVE  Quiet
<1>1. Balance' = Balance /\ Goods' = Goods
  BY DEF Balance, Goods, Zhimi, redis, mysql
<1>2. \A c \in Applied : c \in Call /\ pc[c] # "idle"
  BY DEF IInv, Results, Applied
<1>3. QED
  BY <1>1, <1>2 DEF Quiet

\* EXEC is the only step that is not quiet.
LEMMA QuietOrEffect ==
  ASSUME LoadsInTime, IInv, [Next]_vars
  PROVE  Quiet \/ \E c \in Call : TakesEffect(c)
<1>1. ASSUME NEW c \in Call, Refuse(c) \/ JdRefuses(c) \/ Conflict(c) \/ Crash(c) \/ JdAnswerLost(c)
      PROVE  Quiet
  <2>1. \E how \in {"refused", "conflict", "broken"} : result' = [result EXCEPT ![c] = how]
    BY <1>1 DEF Refuse, JdRefuses, Conflict, Crash, JdAnswerLost, End
  <2>2. pc[c] \in {"watch", "run", "exec"} /\ UNCHANGED <<redis, mysql, local>>
    BY <1>1 DEF Refuse, JdRefuses, Conflict, Crash, JdAnswerLost
  <2>3. result[c] = "none"
    BY <2>2 DEF IInv, Results
  <2>4. Applied' = Applied
    BY <2>1, <2>3 DEF IInv, TypeOK, Applied
  <2>5. QED
    BY <2>2, <2>4, QuietIf DEF local
<1>2. ASSUME NEW c \in Call, Exec(c) \/ ExecAnswerLost(c)
      PROVE  TakesEffect(c)
  BY <1>2 DEF Exec, ExecAnswerLost, TakesEffect
<1>3. ASSUME NEW c \in Call, \/ Read(c) \/ Run(c) \/ Publish(c) \/ PublishFails(c) \/ Cancel(c) \/ CancelFails(c)
                             \/ \E w \in Works : Watch(c, w)
      PROVE  Quiet
  <2>1. result' = result /\ UNCHANGED <<redis, mysql>>
    BY <1>3 DEF Read, Run, Publish, PublishFails, Cancel, CancelFails, Watch
  <2>2. \A d \in Call : pc[d] # "idle" => work'[d] = work[d]
    BY <1>3 DEF IInv, TypeOK, Read, Run, Publish, PublishFails, Cancel, CancelFails, Watch, local
  <2>3. QED
    BY <2>1, <2>2, QuietIf DEF Applied
<1>4. ASSUME NEW e \in Event, Poll(e) \/ ConsumeFails(e)
      PROVE  Quiet
  <2>1. result' = result /\ UNCHANGED <<redis, mysql, local>>
    BY <1>4 DEF Poll, ConsumeFails
  <2>2. QED
    BY <2>1, QuietIf DEF Applied, local
<1>5. ASSUME NEW c \in Call, ConsumeAccount(c) \/ ConsumeOrder(c) \/ ConsumeOrderTorn(c)
      PROVE  Quiet
  <2>1. result' = result /\ work' = work
    BY <1>5 DEF ConsumeAccount, ConsumeOrder, ConsumeOrderTorn, local
  <2>2. QED
    BY <1>5, <2>1, ConsumeAccountKeeps, ConsumeOrderKeeps DEF Quiet, Applied
<1>6. ASSUME (\E u \in User : Forget(u)) \/ ForgetGoods
      PROVE  Quiet
  <2>1. result' = result /\ work' = work
    BY <1>6 DEF Forget, ForgetGoods, local
  <2>2. QED
    BY <1>6, <2>1, ForgetKeeps, ForgetGoodsKeeps DEF Quiet, Applied
<1>7. CASE CommitOffsets \/ TaskCrash \/ UNCHANGED vars
  <2>1. result' = result /\ UNCHANGED <<redis, mysql, local>>
    BY <1>7 DEF CommitOffsets, TaskCrash, vars, redis, mysql, local
  <2>2. QED
    BY <2>1, QuietIf DEF Applied, local
<1>8. QED
  BY <1>1, <1>2, <1>3, <1>4, <1>5, <1>6, <1>7, EventsKnown DEF Next, Progress, Fault

\* EXEC is the moment at which a command takes effect.
LEMMA EffectApplies ==
  ASSUME NEW c \in Call, IInv, TakesEffect(c)
  PROVE  Applied' = Applied \cup {c} /\ c \notin Applied /\ work' = work
<1>1. result[c] = "none"
  BY DEF TakesEffect, IInv, Results
<1>2. QED
  BY <1>1 DEF IInv, TypeOK, Applied, TakesEffect, Write, local

LEMMA WritePromised ==
  ASSUME LoadsInTime, NEW c \in Call, IInv, TakesEffect(c)
  PROVE  Promise!Next
<1>1. /\ work[c] \in Works
      /\ ~Refused(work[c], Balance[work[c].user], Goods)
      /\ Balance' = [Balance EXCEPT ![work[c].user] = ZhimiAfter(work[c], @)]
      /\ Goods' = IF Exchanges(work[c]) THEN GoodsAfter(work[c], Goods) ELSE Goods
  BY WriteApplies DEF TakesEffect
<1>2. Applied' = Applied \cup {c} /\ c \notin Applied
  BY EffectApplies
<1>3. PICK w \in Works : w = work[c]
  BY <1>1
<1>4. Promise!Apply(c, w)
  BY <1>1, <1>2, <1>3, SameCommands DEF Promise!Apply, Balance, Applied
<1>5. QED
  BY <1>4, Zenon DEF Promise!Next

LEMMA NextPromised ==
  ASSUME LoadsInTime PROVE IInv /\ [Next]_vars => [Promise!Next]_(Promise!promise)
<1> SUFFICES ASSUME IInv, [Next]_vars PROVE Promise!Next \/ UNCHANGED Promise!promise
  OBVIOUS
<1>1. CASE Quiet
  BY <1>1 DEF Quiet, Promise!promise, Balance, Applied
<1>2. CASE \E c \in Call : TakesEffect(c)
  BY <1>2, WritePromised
<1>3. QED
  BY <1>1, <1>2, QuietOrEffect

\* Watching, loading (in time), running, conflicts, events and crashes all come to
\* this: every command takes effect at one moment, wholly, at most once,
\* and only if the state of that moment does not refuse it.
THEOREM PromiseKept == ASSUME LoadsInTime PROVE Spec => KeepsPromise
<1>1. Init => Promise!Init
  BY InitPromises
<1>2. IInv /\ [Next]_vars => [Promise!Next]_(Promise!promise)
  BY NextPromised
<1>3. QED
  BY <1>1, <1>2, Invariance, PTL DEF Spec, KeepsPromise, Promise!Spec
-----------------------------------------------------------------------------
\* How far the order of a call that no fault hit has come: it is placed by the
\* step that ends the run, and only an exchange has one.
Followed(c) ==
  /\ pc[c] \in {"idle", "watch", "run"} => jd[c] = "none"
  /\ jd[c] # "none" \/ c \in compensate => Exchanges(work[c])
  /\ jd[c] = "placed" =>
       \/ pc[c] \in {"exec", "publish"}
       \/ c \in compensate
       \/ event[<<c, "order">>] \in Underway
       \/ c \in booked /\ ~Confirms
  /\ jd[c] = "cancelled" <=> result[c] = "conflict" /\ Exchanges(work[c]) /\ c \notin compensate

OrdersFollowed == \A c \in Call \ hit : Followed(c)

\* A step of another call, or of other events, leaves an order alone.
LEMMA OrderLeftAlone ==
  ASSUME NEW c \in Call, Followed(c), pc'[c] = pc[c], work'[c] = work[c], result'[c] = result[c],
         jd'[c] = jd[c], c \in compensate' <=> c \in compensate, booked \subseteq booked',
         event[<<c, "order">>] \in Underway => event'[<<c, "order">>] \in Underway
  PROVE  Followed(c)'
BY DEF Followed, Exchanges, Underway

\* What a fault does to the calls it does not hit: nothing.
LEMMA HitsOnly ==
  ASSUME NEW S \in SUBSET Call, Hits(S)
  PROVE  hit \subseteq hit' /\ S \subseteq hit'
BY DEF Hits

\* A call that ends before its EXEC.
LEMMA EndFollows ==
  ASSUME NEW c \in Call, NEW d \in Call \ hit', IInv, OrdersFollowed,
         Refuse(c) \/ JdRefuses(c) \/ Conflict(c) \/ Crash(c) \/ JdAnswerLost(c)
  PROVE  Followed(d)'
<1>1. hit \subseteq hit' /\ (Crash(c) \/ JdAnswerLost(c) => c \in hit')
  BY HitsOnly DEF Refuse, JdRefuses, Conflict, Crash, JdAnswerLost, faults
<1>2. Followed(d)
  BY <1>1 DEF OrdersFollowed
<1>3. event' = event /\ work' = work /\ booked' = booked
  BY DEF Refuse, JdRefuses, Conflict, Crash, JdAnswerLost, topic, local, mysql
<1>4. CASE d # c
  <2>1. pc'[d] = pc[d] /\ result'[d] = result[d] /\ jd'[d] = jd[d] /\ (d \in compensate' <=> d \in compensate)
    BY <1>4 DEF IInv, TypeOK, Refuse, JdRefuses, Conflict, Crash, JdAnswerLost, End, order
  <2>2. QED
    BY <1>2, <1>3, <2>1, OrderLeftAlone
<1>5. CASE d = c /\ (Refuse(c) \/ JdRefuses(c))
  <2>1. /\ pc[c] = "run" /\ jd' = jd /\ compensate' = compensate
        /\ pc'[c] = "done" /\ result'[c] = "refused"
    BY <1>5 DEF IInv, TypeOK, Refuse, JdRefuses, End, order
  <2>2. QED
    BY <1>2, <1>3, <1>5, <2>1 DEF Followed
<1>6. CASE d = c /\ Conflict(c)
  <2>1. /\ pc[c] = "exec" /\ jd' = jd /\ pc'[c] = "done" /\ result'[c] = "conflict"
        /\ compensate' = IF Exchanges(work[c]) THEN compensate \cup {c} ELSE compensate
    BY <1>6 DEF IInv, TypeOK, Conflict, End
  <2>2. jd[c] # "cancelled"
    BY <2>1 DEF IInv, Results, Orders
  <2>3. QED
    BY <1>2, <1>3, <1>6, <2>1, <2>2 DEF Followed, Exchanges
<1>7. QED
  BY <1>1, <1>4, <1>5, <1>6

\* A call that goes on.
LEMMA ProgressFollows ==
  ASSUME NEW c \in Call, NEW d \in Call \ hit', IInv, OrdersFollowed,
         (\E w \in Works : Watch(c, w)) \/ Read(c) \/ Run(c) \/ Exec(c) \/ Publish(c) \/ Cancel(c)
  PROVE  Followed(d)'
<1> USE DEF Watch, Read, Run, Exec, Publish, Cancel, Write
<1>1. Followed(d) /\ hit' = hit /\ booked' = booked
  BY DEF OrdersFollowed, faults, mysql
<1>2. CASE d # c
  <2>1. /\ pc'[d] = pc[d] /\ work'[d] = work[d] /\ result'[d] = result[d]
        /\ jd'[d] = jd[d] /\ (d \in compensate' <=> d \in compensate)
    BY <1>2 DEF IInv, TypeOK, order, local
  <2>2. event'[<<d, "order">>] = event[<<d, "order">>]
    <3>1. <<d, "order">> \notin EventsOf(c)
      BY <1>2 DEF EventsOf
    <3>2. QED
      BY <3>1, EventsKnown DEF topic
  <2>3. QED
    BY <1>1, <2>1, <2>2, OrderLeftAlone
<1>3. CASE d = c /\ ((\E w \in Works : Watch(c, w)) \/ Read(c))
  <2>1. /\ pc[c] \in {"idle", "watch"} /\ pc'[c] \in {"watch", "run"}
        /\ jd' = jd /\ compensate' = compensate /\ result' = result /\ event' = event
    BY <1>3 DEF IInv, TypeOK, order, topic
  <2>2. jd[c] = "none" /\ result[c] = "none" /\ c \notin compensate
    BY <1>1, <1>3, <2>1 DEF Followed, IInv, Results, Orders
  <2>3. QED
    BY <1>3, <2>1, <2>2 DEF Followed
<1>4. CASE d = c /\ Run(c)
  <2>1. /\ pc[c] = "run" /\ pc'[c] = "exec" /\ compensate' = compensate /\ result' = result /\ work' = work
        /\ jd'[c] = IF Exchanges(work[c]) THEN "placed" ELSE jd[c]
    BY <1>4 DEF IInv, TypeOK
  <2>2. jd[c] = "none" /\ result[c] = "none" /\ c \notin compensate
    BY <1>1, <1>4, <2>1 DEF Followed, IInv, Results, Orders
  <2>3. QED
    BY <1>4, <2>1, <2>2 DEF Followed, Exchanges
<1>5. CASE d = c /\ Exec(c)
  <2>1. /\ pc[c] = "exec" /\ pc'[c] = "publish" /\ result'[c] = "applied"
        /\ jd' = jd /\ compensate' = compensate /\ event' = event /\ work' = work
    BY <1>5 DEF IInv, TypeOK, order, topic, local
  <2>2. jd[c] # "cancelled"
    BY <2>1 DEF IInv, Results, Orders
  <2>3. QED
    BY <1>1, <1>5, <2>1, <2>2 DEF Followed, Exchanges
<1>6. CASE d = c /\ Publish(c)
  <2>1. /\ pc[c] = "publish" /\ pc'[c] = "done" /\ result' = result
        /\ jd' = jd /\ compensate' = compensate /\ work' = work
    BY <1>6 DEF IInv, TypeOK, order, local
  <2>2. Exchanges(work[c]) => event'[<<c, "order">>] = "topic"
    BY <1>6, EventsKnown DEF EventsOf
  <2>3. QED
    BY <1>1, <1>6, <2>1, <2>2 DEF Followed, Exchanges, Underway
<1>7. CASE d = c /\ Cancel(c)
  <2>1. /\ c \in compensate /\ c \notin compensate' /\ jd'[c] = "cancelled"
        /\ pc' = pc /\ result' = result /\ work' = work
    BY <1>7 DEF IInv, TypeOK, local
  <2>2. result[c] = "conflict" /\ pc[c] \notin {"idle", "watch", "run"}
    BY <2>1 DEF IInv, Orders, Results
  <2>3. QED
    BY <1>1, <1>7, <2>1, <2>2 DEF Followed, Exchanges
<1>8. QED
  BY <1>2, <1>3, <1>4, <1>5, <1>6, <1>7

\* The consumers, and what goes wrong after EXEC.
LEMMA EventsFollow ==
  ASSUME NEW d \in Call \ hit', IInv, OrdersFollowed,
         \/ \E e \in Event : Poll(e) \/ ConsumeFails(e)
         \/ \E c \in Call : ConsumeAccount(c) \/ ConsumeOrder(c) \/ ConsumeOrderTorn(c)
         \/ \E c \in Call : ExecAnswerLost(c) \/ PublishFails(c) \/ CancelFails(c)
         \/ TaskCrash
  PROVE  Followed(d)'
<1>1. CASE \E e \in Event : Poll(e) \/ ConsumeFails(e)
  <2>1. PICK e \in Event : Poll(e) \/ ConsumeFails(e)
    BY <1>1
  <2>2. hit \subseteq hit' /\ (ConsumeFails(e) => e[1] \in hit')
    BY <2>1, HitsOnly DEF Poll, ConsumeFails, faults, Event
  <2>3. /\ pc' = pc /\ work' = work /\ result' = result /\ jd' = jd /\ compensate' = compensate
        /\ booked' = booked
    BY <2>1 DEF Poll, ConsumeFails, local, order, mysql
  <2>4. event[<<d, "order">>] \in Underway => event'[<<d, "order">>] \in Underway
    <3>1. <<d, "order">>[1] = d
      OBVIOUS
    <3>2. CASE Poll(e)
      BY <3>2, EventsKnown DEF IInv, TypeOK, Poll, Underway
    <3>3. CASE ConsumeFails(e)
      <4>1. e # <<d, "order">>
        BY <2>2, <3>1, <3>3
      <4>2. QED
        BY <3>3, <4>1, EventsKnown DEF ConsumeFails
    <3>4. QED
      BY <2>1, <3>2, <3>3
  <2>5. QED
    BY <2>2, <2>3, <2>4, OrderLeftAlone DEF OrdersFollowed
<1>2. CASE \E c \in Call : ConsumeAccount(c)
  <2>1. PICK c \in Call : ConsumeAccount(c)
    BY <1>2
  <2>2. /\ hit' = hit /\ pc' = pc /\ work' = work /\ result' = result /\ jd' = jd /\ compensate' = compensate
        /\ event'[<<d, "order">>] = event[<<d, "order">>] /\ booked' = booked
    BY <2>1, EventsKnown DEF IInv, TypeOK, ConsumeAccount, local, order, faults
  <2>3. QED
    BY <2>2, OrderLeftAlone DEF OrdersFollowed
<1>3. CASE \E c \in Call : ConsumeOrder(c) \/ ConsumeOrderTorn(c)
  <2>1. PICK c \in Call : ConsumeOrder(c) \/ ConsumeOrderTorn(c)
    BY <1>3
  <2>2. /\ hit \subseteq hit' /\ (ConsumeOrderTorn(c) => c \in hit')
        /\ booked \subseteq booked' /\ (ConsumeOrder(c) => c \in booked')
    BY <2>1, HitsOnly DEF ConsumeOrder, ConsumeOrderTorn, faults
  <2>3. /\ pc' = pc /\ work' = work /\ result' = result /\ compensate' = compensate
        /\ event[<<c, "order">>] = "pool" /\ jd'[c] = IF Confirms THEN "confirmed" ELSE jd[c]
        /\ d # c => jd'[d] = jd[d] /\ event'[<<d, "order">>] = event[<<d, "order">>]
    BY <2>1, EventsKnown DEF IInv, TypeOK, ConsumeOrder, ConsumeOrderTorn, Confirmed, local
  <2>4. /\ result[c] = "applied" /\ Exchanges(work[c]) /\ pc[c] \notin {"idle", "watch", "run"}
        /\ jd[c] # "cancelled"
    BY <2>3 DEF IInv, Orders, SaleLoaded, Results, Underway
  <2>5. CASE d = c
    BY <2>1, <2>2, <2>3, <2>4, <2>5 DEF OrdersFollowed, Followed, Exchanges
  <2>6. CASE d # c
    BY <2>2, <2>3, <2>6, OrderLeftAlone DEF OrdersFollowed
  <2>7. QED
    BY <2>1, <2>5, <2>6
<1>4. CASE \E c \in Call : ExecAnswerLost(c) \/ PublishFails(c) \/ CancelFails(c)
  <2>1. PICK c \in Call : ExecAnswerLost(c) \/ PublishFails(c) \/ CancelFails(c)
    BY <1>4
  <2>2. hit \subseteq hit' /\ c \in hit'
    BY <2>1, HitsOnly DEF ExecAnswerLost, PublishFails, CancelFails
  <2>3. d # c /\ <<d, "order">> \notin EventsOf(c)
    BY <2>2 DEF EventsOf
  <2>4. /\ pc'[d] = pc[d] /\ work'[d] = work[d] /\ result'[d] = result[d]
        /\ jd'[d] = jd[d] /\ (d \in compensate' <=> d \in compensate) /\ booked' = booked
    BY <2>1, <2>3 DEF IInv, TypeOK, ExecAnswerLost, PublishFails, CancelFails, Write, local, order, mysql
  <2>5. event'[<<d, "order">>] = event[<<d, "order">>]
    BY <2>1, <2>3, EventsKnown DEF ExecAnswerLost, PublishFails, CancelFails, topic
  <2>6. QED
    BY <2>2, <2>4, <2>5, OrderLeftAlone DEF OrdersFollowed
<1>5. CASE TaskCrash
  <2> DEFINE torn == {e \in Event : event[e] = "pool"} \cup fetched
  <2>1. {e[1] : e \in torn} \in SUBSET Call /\ Hits({e[1] : e \in torn})
    BY <1>5 DEF IInv, TypeOK, Event, TaskCrash
  <2>2. hit \subseteq hit' /\ {e[1] : e \in torn} \subseteq hit'
    BY <2>1, HitsOnly
  <2>3. <<d, "order">> \notin torn
    <3>1. <<d, "order">>[1] = d
      OBVIOUS
    <3>2. QED
      BY <2>2, <3>1
  <2>4. /\ pc' = pc /\ work' = work /\ result' = result /\ jd' = jd /\ compensate' = compensate
        /\ event'[<<d, "order">>] = event[<<d, "order">>] /\ booked' = booked
    BY <1>5, <2>3, EventsKnown DEF TaskCrash, local, order, mysql
  <2>5. QED
    BY <2>2, <2>4, OrderLeftAlone DEF OrdersFollowed
<1>6. QED
  BY <1>1, <1>2, <1>3, <1>4, <1>5

LEMMA NextFollows == IInv /\ OrdersFollowed /\ [Next]_vars => OrdersFollowed'
<1> SUFFICES ASSUME IInv, OrdersFollowed, [Next]_vars, NEW d \in Call \ hit' PROVE Followed(d)'
  BY DEF OrdersFollowed
<1>1. ASSUME NEW c \in Call, (\E w \in Works : Watch(c, w)) \/ Progress(c) \/ JdRefuses(c) \/ Fault(c)
      PROVE  Followed(d)'
  BY <1>1, EndFollows, ProgressFollows, EventsFollow, EventsKnown DEF Progress, Fault
<1>2. CASE TaskCrash \/ \E e \in Event : ConsumeFails(e)
  BY <1>2, EventsFollow
<1>3. CASE CommitOffsets \/ (\E u \in User : Forget(u)) \/ ForgetGoods \/ UNCHANGED vars
  <2>1. /\ hit' = hit /\ pc' = pc /\ work' = work /\ result' = result
        /\ jd' = jd /\ compensate' = compensate /\ event' = event
        /\ booked' = booked
    BY <1>3 DEF CommitOffsets, Forget, ForgetGoods, vars, local, order, topic, faults, mysql
  <2>2. QED
    BY <2>1, OrderLeftAlone DEF OrdersFollowed
<1>4. QED
  BY <1>1, <1>2, <1>3 DEF Next

\* Unless a fault hit the call, an order at JD is on its way to be booked or
\* cancelled, and cancelled exactly if the exchange lost its transaction, also
\* where redis was loaded too early.
THEOREM OrderFollows == Spec => []OrderFollowsExchange
<1>1. Init => OrdersFollowed
  BY DEF Init, OrdersFollowed, Followed
<1>2. OrdersFollowed => OrderFollowsExchange
  BY DEF OrdersFollowed, Followed, OrderFollowsExchange
<1>3. QED
  BY <1>1, <1>2, NextFollows, Invariance, PTL DEF Spec

-----------------------------------------------------------------------------
\* The calls of a user, those whose change has not come to the copy yet, and
\* what each call changes.
CallsOf(u) == {c \in Call : work[c] # Gone /\ work[c].user = u}
OnTheWay(c) == pc[c] = "publish" \/ event[<<c, "account">>] \in Underway
Late(u) == {c \in CallsOf(u) : OnTheWay(c)}
Moves(u) == [c \in CallsOf(u) |-> ZhimiAfter(work[c], 0)]

Lag(u) == CallsOf(u) \cap hit = {} => Zhimi(u) = account[u] + SumFunctionOnSet(Moves(u), Late(u))

\* At any time finitely many calls have begun.
Begun == {c \in Call : pc[c] # "idle"}

\* A call has no event before it ends.
EventsLater ==
  \A c \in Call : pc[c] # "done" => event[<<c, "account">>] = "none" /\ <<c, "account">> \notin fetched

Lags == IsFiniteSet(Begun) /\ EventsLater /\ \A u \in User : Lag(u)

LEMMA LateCalls ==
  ASSUME IInv, IsFiniteSet(Begun), NEW u \in User
  PROVE  /\ IsFiniteSet(Late(u)) /\ Late(u) \subseteq CallsOf(u)
         /\ \A c \in CallsOf(u) : c \in Call /\ work[c] \in Works /\ Moves(u)[c] \in Int
<1>1. Late(u) \subseteq Begun /\ Late(u) \subseteq CallsOf(u)
  BY DEF IInv, TypeOK, Late, CallsOf, Begun
<1>2. \A c \in CallsOf(u) : c \in Call /\ work[c] \in Works
  BY DEF IInv, TypeOK, CallsOf
<1>3. \A c \in CallsOf(u) : Moves(u)[c] \in Int
  BY <1>2, ZhimiAfterType DEF Moves
<1>4. QED
  BY <1>1, <1>2, <1>3, FS_Subset

\* A change by an amount is the change of nothing, and the amount.
LEMMA ZhimiMoves ==
  ASSUME NEW w \in Works, NEW z \in Int
  PROVE  ZhimiAfter(w, z) = z + ZhimiAfter(w, 0)
BY WorkParts DEF ZhimiAfter

\* A step that leaves the numbers of a user and what is on the way alone.
LEMMA QuietLag ==
  ASSUME NEW u \in User, IInv, IsFiniteSet(Begun), Lag(u),
         CallsOf(u) \subseteq CallsOf(u)', hit \subseteq hit',
         Zhimi(u)' = Zhimi(u), account'[u] = account[u],
         CallsOf(u)' \cap hit' = {} =>
           /\ \A c \in CallsOf(u) : work'[c] = work[c] /\ (OnTheWay(c)' <=> OnTheWay(c))
           /\ \A c \in CallsOf(u)' : OnTheWay(c)' => c \in CallsOf(u)
  PROVE  Lag(u)'
<1> SUFFICES ASSUME CallsOf(u)' \cap hit' = {}
             PROVE  Zhimi(u)' = account'[u] + SumFunctionOnSet(Moves(u)', Late(u)')
  BY DEF Lag
<1>1. Zhimi(u) = account[u] + SumFunctionOnSet(Moves(u), Late(u))
  BY DEF Lag
<1>2. Late(u)' = Late(u)
  BY DEF Late
<1>3. \A c \in Late(u) : Moves(u)'[c] = Moves(u)[c]
  BY DEF Moves, Late, ZhimiAfter, Cost, Exchanges
<1>4. IsFiniteSet(Late(u))
  BY LateCalls
<1>5. SumFunctionOnSet(Moves(u)', Late(u)) = SumFunctionOnSet(Moves(u), Late(u))
  BY <1>3, <1>4, SumSame
<1>6. QED
  BY <1>1, <1>2, <1>5

\* EXEC: redis moves, and one change more is on its way.
LEMMA ExecLag ==
  ASSUME LoadsInTime, NEW c \in Call, NEW u \in User, IInv, Lags, Exec(c)
  PROVE  Lag(u)'
<1>1. /\ work[c] \in Works /\ work[c].user \in User
      /\ Balance' = [Balance EXCEPT ![work[c].user] = ZhimiAfter(work[c], @)]
  BY WriteApplies, WorkParts DEF Exec
<1>2. /\ pc[c] = "exec" /\ pc'[c] = "publish" /\ (\A d \in Call \ {c} : pc'[d] = pc[d])
      /\ work' = work /\ event' = event /\ account' = account /\ hit' = hit
  BY DEF IInv, TypeOK, Exec, local, topic, mysql, faults
<1>3. \A v \in User : Balance[v] = Zhimi(v) /\ Balance'[v] = Zhimi(v)' /\ Zhimi(v) \in Int
  BY DEF IInv, TypeOK, Balance, Zhimi
<1>4. CallsOf(u)' = CallsOf(u) /\ Moves(u)' = Moves(u)
  BY <1>2 DEF CallsOf, Moves, ZhimiAfter, Cost, Exchanges
<1>5. OnTheWay(c)' /\ ~OnTheWay(c) /\ \A d \in Call \ {c} : OnTheWay(d)' <=> OnTheWay(d)
  BY <1>2 DEF Lags, EventsLater, OnTheWay, Underway
<1>6. CASE work[c].user # u
  <2>1. c \notin CallsOf(u) /\ Zhimi(u)' = Zhimi(u)
    BY <1>1, <1>3, <1>6 DEF CallsOf, Balance
  <2>2. \A d \in CallsOf(u) : d \in Call \ {c}
    BY <2>1 DEF CallsOf
  <2>3. QED
    BY <1>2, <1>4, <1>5, <2>1, <2>2, QuietLag DEF Lags
<1>7. CASE work[c].user = u
  <2> SUFFICES ASSUME CallsOf(u) \cap hit = {}
               PROVE  Zhimi(u)' = account[u] + SumFunctionOnSet(Moves(u), Late(u)')
    BY <1>2, <1>4 DEF Lag
  <2>1. c \in CallsOf(u) /\ Moves(u)[c] = ZhimiAfter(work[c], 0)
    BY <1>1, <1>7, EngineAssumption DEF CallsOf, Moves
  <2>2. Late(u)' = Late(u) \cup {c} /\ c \notin Late(u)
    BY <1>4, <1>5, <2>1 DEF Late, CallsOf
  <2>3. IsFiniteSet(Late(u)') /\ (\A d \in Late(u)' : Moves(u)[d] \in Int) /\ Late(u)' \ {c} = Late(u)
    BY <2>1, <2>2, LateCalls, FS_AddElement DEF Lags
  <2>4. SumFunctionOnSet(Moves(u), Late(u)') = Moves(u)[c] + SumFunctionOnSet(Moves(u), Late(u))
    BY <2>2, <2>3, SumTakes
  <2>5. SumFunctionOnSet(Moves(u), Late(u)) \in Int
    BY <2>2, <2>3, LateCalls, SumType DEF Lags
  <2>6. Zhimi(u)' = Zhimi(u) + ZhimiAfter(work[c], 0)
    BY <1>1, <1>3, <1>7, ZhimiMoves DEF Balance
  <2>7. Zhimi(u) = account[u] + SumFunctionOnSet(Moves(u), Late(u))
    BY DEF Lags, Lag
  <2>8. account[u] \in Int /\ Moves(u)[c] \in Int
    BY <2>1, LateCalls DEF IInv, TypeOK, Lags
  <2>9. QED
    BY <2>1, <2>4, <2>5, <2>6, <2>7, <2>8
<1>8. QED
  BY <1>6, <1>7

\* The copy moves by what arrives, and that is no longer on its way.
LEMMA ConsumeLag ==
  ASSUME LoadsInTime, NEW c \in Call, NEW u \in User, IInv, Lags, ConsumeAccount(c)
  PROVE  Lag(u)'
<1>1. work[c] \in Works /\ work[c].user \in User
  BY WorkParts DEF IInv, AccountLoaded, ConsumeAccount, Underway
<1>2. Balance' = Balance
  BY ConsumeAccountKeeps
<1>3. \A v \in User : Zhimi(v)' = Zhimi(v)
  BY <1>2 DEF Balance, Zhimi
<1>4. /\ pc' = pc /\ work' = work /\ hit' = hit
      /\ event[<<c, "account">>] = "pool" /\ event'[<<c, "account">>] = "done"
      /\ \A d \in Call \ {c} : event'[<<d, "account">>] = event[<<d, "account">>]
      /\ account' = [account EXCEPT ![work[c].user] = ZhimiAfter(work[c], @)]
  BY EventsKnown DEF IInv, TypeOK, ConsumeAccount, local, faults
<1>5. pc[c] # "publish"
  BY <1>4 DEF Lags, EventsLater
<1>6. ~OnTheWay(c)' /\ OnTheWay(c) /\ \A d \in Call \ {c} : OnTheWay(d)' <=> OnTheWay(d)
  BY <1>4, <1>5 DEF OnTheWay, Underway
<1>7. CallsOf(u)' = CallsOf(u) /\ Moves(u)' = Moves(u)
  BY <1>4 DEF CallsOf, Moves, ZhimiAfter, Cost, Exchanges
<1>8. CASE work[c].user # u
  <2>1. c \notin CallsOf(u) /\ account'[u] = account[u]
    BY <1>1, <1>4, <1>8 DEF CallsOf, IInv, TypeOK
  <2>2. \A d \in CallsOf(u) : d \in Call \ {c}
    BY <2>1 DEF CallsOf
  <2>3. QED
    BY <1>3, <1>4, <1>6, <1>7, <2>1, <2>2, QuietLag DEF Lags
<1>9. CASE work[c].user = u
  <2> SUFFICES ASSUME CallsOf(u) \cap hit = {}
               PROVE  Zhimi(u) = account'[u] + SumFunctionOnSet(Moves(u), Late(u)')
    BY <1>3, <1>4, <1>7 DEF Lag
  <2>1. c \in CallsOf(u) /\ Moves(u)[c] = ZhimiAfter(work[c], 0)
    BY <1>1, <1>9, EngineAssumption DEF CallsOf, Moves
  <2>2. Late(u)' = Late(u) \ {c} /\ c \in Late(u)
    BY <1>6, <1>7, <2>1 DEF Late, CallsOf
  <2>3. IsFiniteSet(Late(u)) /\ (\A d \in Late(u) : Moves(u)[d] \in Int) /\ IsFiniteSet(Late(u) \ {c})
    BY LateCalls, FS_Subset DEF Lags
  <2>4. SumFunctionOnSet(Moves(u), Late(u)) = Moves(u)[c] + SumFunctionOnSet(Moves(u), Late(u)')
    BY <2>2, <2>3, SumTakes
  <2>5. SumFunctionOnSet(Moves(u), Late(u)') \in Int
    BY <2>2, <2>3, SumType
  <2>6. account[u] \in Int
    BY DEF IInv, TypeOK
  <2>7. account'[u] = account[u] + ZhimiAfter(work[c], 0)
    BY <1>1, <1>4, <1>9, <2>6, ZhimiMoves DEF IInv, TypeOK
  <2>8. Zhimi(u) = account[u] + SumFunctionOnSet(Moves(u), Late(u))
    BY DEF Lags, Lag
  <2>9. Moves(u)[c] \in Int
    BY <2>2, <2>3
  <2>10. QED
    BY <2>1, <2>4, <2>5, <2>6, <2>7, <2>8, <2>9
<1>10. QED
  BY <1>8, <1>9

\* All other steps.
LEMMA OthersLag ==
  ASSUME LoadsInTime, NEW u \in User, IInv, Lags, [Next]_vars,
         ~(\E c \in Call : Exec(c) \/ ConsumeAccount(c))
  PROVE  Lag(u)'
<1> USE DEF Lags
<1>1. ASSUME NEW c \in Call,
             \/ \E w \in Works : Watch(c, w)
             \/ Read(c) \/ Refuse(c) \/ Run(c) \/ Conflict(c) \/ JdRefuses(c) \/ Crash(c) \/ JdAnswerLost(c)
      PROVE  Lag(u)'
  <2>1. /\ pc[c] \in {"idle", "watch", "run", "exec"} /\ pc'[c] # "publish" /\ (\A d \in Call \ {c} : pc'[d] = pc[d])
        /\ event' = event /\ UNCHANGED <<redis, mysql>>
    BY <1>1 DEF IInv, TypeOK, Watch, Read, Refuse, Run, Conflict, JdRefuses, Crash, JdAnswerLost, End, topic
  <2>2. hit \subseteq hit'
    BY <1>1, HitsOnly DEF Watch, Read, Refuse, Run, Conflict, JdRefuses, Crash, JdAnswerLost, faults
  <2>3. \A d \in Call : work[d] # Gone => work'[d] = work[d]
    BY <1>1 DEF IInv, TypeOK, Watch, Read, Refuse, Run, Conflict, JdRefuses, Crash, JdAnswerLost, local
  <2>4. \A d \in Call : OnTheWay(d)' <=> OnTheWay(d)
    BY <2>1 DEF EventsLater, OnTheWay, Underway
  <2>5. Zhimi(u)' = Zhimi(u) /\ account'[u] = account[u]
    BY <2>1 DEF Zhimi, redis, mysql
  <2>6. CallsOf(u) \subseteq CallsOf(u)' /\ \A d \in CallsOf(u) : d \in Call /\ work'[d] = work[d]
    BY <2>3 DEF CallsOf
  <2>7. \A d \in CallsOf(u)' : OnTheWay(d)' => d \in CallsOf(u)
    <3>1. SUFFICES ASSUME NEW d \in CallsOf(u)', OnTheWay(d) PROVE d \in CallsOf(u)
      BY <2>4 DEF CallsOf
    <3>2. d \in Call /\ work'[d] # Gone /\ work'[d].user = u
      BY DEF CallsOf
    <3>3. work[d] \in Works
      BY <3>1, <3>2 DEF OnTheWay, IInv, AccountLoaded
    <3>4. QED
      BY <2>3, <3>2, <3>3, EngineAssumption DEF CallsOf
  <2>8. QED
    BY <2>2, <2>4, <2>5, <2>6, <2>7, QuietLag
<1>2. ASSUME NEW c \in Call, Publish(c) \/ PublishFails(c) \/ ExecAnswerLost(c)
      PROVE  Lag(u)'
  <2>1. work' = work /\ account' = account
    BY <1>2 DEF Publish, PublishFails, ExecAnswerLost, local, mysql
  <2>2. hit \subseteq hit' /\ (~Publish(c) => c \in hit')
    BY <1>2, HitsOnly DEF Publish, PublishFails, ExecAnswerLost, faults
  <2>3. \A d \in Call \ {c} : OnTheWay(d)' <=> OnTheWay(d)
    <3>1. SUFFICES ASSUME NEW d \in Call \ {c} PROVE OnTheWay(d)' <=> OnTheWay(d)
      OBVIOUS
    <3>2. <<d, "account">> \notin EventsOf(c)
      BY DEF EventsOf
    <3>3. pc'[d] = pc[d] /\ event'[<<d, "account">>] = event[<<d, "account">>]
      <4>1. pc'[d] = pc[d]
        BY <1>2 DEF IInv, TypeOK, Publish, PublishFails, ExecAnswerLost
      <4>2. event'[<<d, "account">>] = event[<<d, "account">>]
        BY <1>2, <3>2, EventsKnown DEF Publish, PublishFails, ExecAnswerLost
      <4>3. QED
        BY <4>1, <4>2
    <3>4. QED
      BY <3>3 DEF OnTheWay
  <2>4. Publish(c) => (OnTheWay(c)' <=> OnTheWay(c))
    BY EventsKnown DEF Publish, OnTheWay, EventsOf, Underway
  <2>5. CallsOf(u)' = CallsOf(u) /\ (c \notin CallsOf(u) \/ CallsOf(u)' \cap hit' # {} \/ Publish(c))
    BY <2>1, <2>2 DEF CallsOf
  <2>6. CallsOf(u)' \cap hit' # {} \/ Zhimi(u)' = Zhimi(u)
    <3>1. CASE UNCHANGED <<redis, mysql>>
      BY <3>1 DEF Zhimi, redis, mysql
    <3>2. CASE ExecAnswerLost(c)
      <4>1. /\ work[c] \in Works /\ work[c].user \in User
            /\ \A v \in User \ {work[c].user} : user'[v] = user[v]
        BY <3>2, WriteApplies, WorkParts DEF ExecAnswerLost
      <4>2. CASE work[c].user = u
        BY <2>1, <2>2, <3>2, <4>1, <4>2, EngineAssumption DEF CallsOf, ExecAnswerLost, Publish
      <4>3. CASE work[c].user # u
        BY <2>1, <4>1, <4>3 DEF Zhimi
      <4>4. QED
        BY <4>2, <4>3
    <3>3. QED
      BY <1>2, <3>1, <3>2 DEF Publish, PublishFails
  <2>7. CASE CallsOf(u)' \cap hit' # {}
    BY <2>7 DEF Lag
  <2>8. CASE CallsOf(u)' \cap hit' = {}
    <3>1. \A d \in CallsOf(u) : OnTheWay(d)' <=> OnTheWay(d)
      BY <2>3, <2>4, <2>5, <2>8 DEF CallsOf
    <3>2. QED
      BY <2>1, <2>2, <2>5, <2>6, <2>8, <3>1, QuietLag
  <2>9. QED
    BY <2>7, <2>8
<1>3. CASE \/ \E e \in Event : Poll(e) \/ ConsumeFails(e)
           \/ \E c \in Call : Cancel(c) \/ CancelFails(c)
           \/ TaskCrash \/ CommitOffsets \/ UNCHANGED vars
  <2>1. pc' = pc /\ work' = work /\ UNCHANGED <<redis, mysql>>
    BY <1>3 DEF Poll, ConsumeFails, Cancel, CancelFails, TaskCrash, CommitOffsets, vars, local, redis, mysql
  <2>2. hit \subseteq hit'
    BY <1>3, HitsOnly DEF Poll, ConsumeFails, Cancel, CancelFails, TaskCrash, CommitOffsets, vars, faults, Hits
  <2>3. Zhimi(u)' = Zhimi(u) /\ account'[u] = account[u] /\ CallsOf(u)' = CallsOf(u)
    BY <2>1 DEF Zhimi, CallsOf, redis, mysql
  <2>4. ASSUME NEW d \in Call \ hit'
        PROVE  event'[<<d, "account">>] \in Underway <=> event[<<d, "account">>] \in Underway
    <3>1. <<d, "account">>[1] = d /\ <<d, "account">> \in Event
      BY EventsKnown
    <3>2. CASE \E e \in Event : Poll(e)
      BY <3>1, <3>2 DEF IInv, TypeOK, Poll, Underway
    <3>3. CASE \E e \in Event : ConsumeFails(e)
      <4>1. PICK e \in Event : ConsumeFails(e)
        BY <3>3
      <4>2. e[1] \in hit'
        BY <4>1, HitsOnly DEF ConsumeFails, Event
      <4>3. QED
        BY <3>1, <4>1, <4>2 DEF ConsumeFails
    <3>4. CASE TaskCrash
      <4> DEFINE torn == {e \in Event : event[e] = "pool"} \cup fetched
      <4>1. {e[1] : e \in torn} \subseteq hit'
        BY <3>4 DEF TaskCrash, Hits
      <4>2. <<d, "account">> \notin torn
        BY <3>1, <4>1
      <4>3. QED
        BY <3>1, <3>4, <4>2 DEF TaskCrash
    <3>5. CASE event' = event
      BY <3>5
    <3>6. QED
      BY <1>3, <3>2, <3>3, <3>4, <3>5 DEF Cancel, CancelFails, CommitOffsets, vars, topic
  <2>5. CallsOf(u)' \cap hit' = {} => \A d \in CallsOf(u) : OnTheWay(d)' <=> OnTheWay(d)
    BY <2>1, <2>3, <2>4 DEF OnTheWay, CallsOf
  <2>6. QED
    BY <2>1, <2>2, <2>3, <2>5, QuietLag
<1>4. ASSUME \/ \E c \in Call : ConsumeOrder(c) \/ ConsumeOrderTorn(c)
             \/ \E v \in User : Forget(v)
             \/ ForgetGoods
      PROVE  Lag(u)'
  <2>1. Balance' = Balance
    BY <1>4, ConsumeOrderKeeps, ForgetKeeps, ForgetGoodsKeeps
  <2>2. Zhimi(u)' = Zhimi(u)
    BY <2>1 DEF Balance, Zhimi
  <2>3. pc' = pc /\ work' = work /\ hit \subseteq hit' /\ account' = account
    BY <1>4 DEF ConsumeOrder, ConsumeOrderTorn, Hits, Forget, ForgetGoods, local, faults, mysql
  <2>4. \A d \in Call : event'[<<d, "account">>] = event[<<d, "account">>]
    <3>1. ASSUME NEW c \in Call, ConsumeOrder(c) \/ ConsumeOrderTorn(c), NEW d \in Call
          PROVE  event'[<<d, "account">>] = event[<<d, "account">>]
      <4>1. /\ \E how \in {"done", "lost"} : event' = [event EXCEPT ![<<c, "order">>] = how]
            /\ DOMAIN event = Event
        BY <3>1 DEF IInv, TypeOK, ConsumeOrder, ConsumeOrderTorn
      <4>2. <<d, "account">> \in Event /\ <<d, "account">> # <<c, "order">>
        BY EventsKnown
      <4>3. QED
        BY <4>1, <4>2
    <3>2. CASE event' = event
      BY <3>2
    <3>3. QED
      BY <1>4, <3>1, <3>2, Zenon DEF Forget, ForgetGoods, topic
  <2>5. CallsOf(u)' = CallsOf(u) /\ \A d \in CallsOf(u) : d \in Call /\ (OnTheWay(d)' <=> OnTheWay(d))
    BY <2>3, <2>4 DEF CallsOf, OnTheWay
  <2>6. QED
    BY <2>2, <2>3, <2>5, QuietLag
<1>5. QED
  BY <1>1, <1>2, <1>3, <1>4, EventsKnown DEF Next, Progress, Fault

\* Finitely many calls begin, and their events come after them.
LEMMA BegunKeeps ==
  ASSUME IInv, Lags, [Next]_vars
  PROVE  IsFiniteSet(Begun') /\ EventsLater'
<1>1. ASSUME NEW c \in Call, NEW w \in Works, Watch(c, w)
      PROVE  IsFiniteSet(Begun') /\ EventsLater'
  <2>1. Begun' \subseteq Begun \cup {c}
    BY <1>1 DEF IInv, TypeOK, Watch, Begun
  <2>2. IsFiniteSet(Begun')
    BY <2>1, FS_AddElement, FS_Subset DEF Lags
  <2>3. QED
    BY <1>1, <2>2 DEF IInv, TypeOK, Lags, EventsLater, Watch, topic
<1>2. SUFFICES ASSUME ~(\E c \in Call, w \in Works : Watch(c, w))
               PROVE  /\ \A d \in Call : pc[d] = "idle" => pc'[d] = "idle"
                      /\ EventsLater'
  BY <1>1, FS_Subset DEF Lags, Begun
<1>3. ASSUME NEW c \in Call,
             Read(c) \/ Refuse(c) \/ Run(c) \/ Exec(c) \/ Conflict(c) \/ JdRefuses(c) \/ Crash(c) \/ JdAnswerLost(c)
      PROVE  (\A d \in Call : pc[d] = "idle" => pc'[d] = "idle") /\ EventsLater'
  <2>1. /\ pc[c] \notin {"idle", "done"} /\ \A d \in Call \ {c} : pc'[d] = pc[d]
        /\ event' = event /\ fetched' = fetched
    BY <1>3 DEF IInv, TypeOK, Read, Refuse, Run, Exec, Conflict, JdRefuses, Crash, JdAnswerLost, End, topic
  <2>2. QED
    BY <2>1 DEF Lags, EventsLater
<1>4. ASSUME NEW c \in Call, Publish(c) \/ PublishFails(c) \/ ExecAnswerLost(c)
      PROVE  (\A d \in Call : pc[d] = "idle" => pc'[d] = "idle") /\ EventsLater'
  <2>1. /\ pc[c] # "idle" /\ pc'[c] = "done" /\ (\A d \in Call \ {c} : pc'[d] = pc[d])
        /\ fetched' = fetched
    BY <1>4 DEF IInv, TypeOK, Publish, PublishFails, ExecAnswerLost
  <2>2. ASSUME NEW d \in Call \ {c} PROVE event'[<<d, "account">>] = event[<<d, "account">>]
    <3>1. <<d, "account">> \notin EventsOf(c) /\ <<d, "account">> \in Event
      BY EventsKnown DEF EventsOf
    <3>2. QED
      BY <1>4, <3>1 DEF Publish, PublishFails, ExecAnswerLost
  <2>3. QED
    BY <2>1, <2>2 DEF Lags, EventsLater
<1>5. ASSUME \/ \E c \in Call : Cancel(c) \/ CancelFails(c) \/ ConsumeAccount(c) \/ ConsumeOrder(c) \/ ConsumeOrderTorn(c)
             \/ \E e \in Event : Poll(e) \/ ConsumeFails(e)
             \/ TaskCrash \/ CommitOffsets \/ (\E u \in User : Forget(u)) \/ ForgetGoods \/ UNCHANGED vars
      PROVE  (\A d \in Call : pc[d] = "idle" => pc'[d] = "idle") /\ EventsLater'
  <2>1. pc' = pc
    BY <1>5 DEF Cancel, CancelFails, ConsumeAccount, ConsumeOrder, ConsumeOrderTorn, Poll, ConsumeFails, TaskCrash,
                CommitOffsets, Forget, ForgetGoods, vars
  <2>2. \A e \in Event : event[e] = "none" /\ e \notin fetched => event'[e] = "none" /\ e \notin fetched'
    <3>1. SUFFICES ASSUME NEW e \in Event, event[e] = "none", e \notin fetched
                   PROVE  event'[e] = "none" /\ e \notin fetched'
      OBVIOUS
    <3>2. CASE \E c \in Call : ConsumeAccount(c) \/ ConsumeOrder(c) \/ ConsumeOrderTorn(c)
      BY <3>1, <3>2 DEF IInv, TypeOK, ConsumeAccount, ConsumeOrder, ConsumeOrderTorn
    <3>3. CASE \E f \in Event : Poll(f) \/ ConsumeFails(f)
      BY <3>1, <3>3 DEF IInv, TypeOK, Poll, ConsumeFails
    <3>4. CASE TaskCrash
      BY <3>1, <3>4 DEF TaskCrash
    <3>5. CASE event' = event /\ fetched' \in {fetched, {}}
      BY <3>1, <3>5
    <3>6. QED
      BY <1>5, <3>2, <3>3, <3>4, <3>5 DEF Cancel, CancelFails, CommitOffsets, Forget, ForgetGoods, vars, topic
  <2>3. QED
    BY <2>1, <2>2, EventsKnown DEF Lags, EventsLater
<1>6. QED
  BY <1>2, <1>3, <1>4, <1>5, EventsKnown DEF Next, Progress, Fault

LEMMA NextLags == ASSUME LoadsInTime PROVE IInv /\ Lags /\ [Next]_vars => Lags'
<1> SUFFICES ASSUME IInv, Lags, [Next]_vars PROVE Lags'
  OBVIOUS
<1>1. \A u \in User : Lag(u)'
  BY ExecLag, ConsumeLag, OthersLag
<1>2. QED
  BY <1>1, BegunKeeps DEF Lags

LEMMA InitLags == Init => Lags
<1> SUFFICES ASSUME Init PROVE Lags
  OBVIOUS
<1>1. Begun = {} /\ EventsLater
  BY EventsKnown DEF Init, Begun, EventsLater
<1>2. ASSUME NEW u \in User PROVE Lag(u)
  <2>1. Late(u) = {} /\ Zhimi(u) = account[u] /\ account[u] \in Int
    BY EngineAssumption DEF Init, Late, CallsOf, Zhimi
  <2>2. QED
    BY <2>1, SumOfNothing DEF Lag
<1>3. QED
  BY <1>1, <1>2, FS_EmptySet DEF Lags

\* However the events are polled and handled by eight threads, if no key is loaded
\* before they are: the copy of a user no fault has hit differs from the zhimi in redis by
\* what is still on its way, to the last zhimi.
THEOREM CopyKept == ASSUME LoadsInTime PROVE Spec => []CopyLagsBehind
<1>1. Lags => CopyLagsBehind
  BY Zenon DEF Lags, Lag, CopyLagsBehind, CallsOf, Late, OnTheWay, Moves
<1>2. QED
  BY <1>1, InitLags, NextLags, Invariance, PTL DEF Spec
-----------------------------------------------------------------------------
\* What the calls of a user that took effect change, and what the sale gave out.
Exchanged == {c \in Applied : Exchanges(work[c])}
Pieces == [c \in Exchanged |-> work[c].count]
Own(u) == {c \in Applied : work[c].user = u}
Effects(u) == [c \in Own(u) |-> ZhimiAfter(work[c], 0)]

ZhimiTold(u) == Zhimi(u) = OpeningZhimi[u] + SumFunctionOnSet(Effects(u), Own(u))
SaleTold ==
  /\ \A u \in User : Goods.sold[u] = SumFunctionOnSet(Pieces, Own(u) \cap Exchanged)
  /\ Goods.stock = OpeningStock - SumFunctionOnSet(Pieces, Exchanged)

Told == IsFiniteSet(Applied) /\ SaleTold /\ \A u \in User : ZhimiTold(u)

LEMMA NumbersTyped ==
  ASSUME IInv
  PROVE  /\ \A u \in User : Zhimi(u) \in Int /\ Balance[u] = Zhimi(u)
         /\ Goods \in Shelf
         /\ \A c \in Applied : c \in Call /\ work[c] \in Works
BY DEF IInv, TypeOK, WorkKnown, Results, Zhimi, Balance, Goods, Applied

\* One call more in a sum.
LEMMA SumGains ==
  ASSUME NEW f, NEW g, NEW S, NEW T, IsFiniteSet(T), NEW x \in T, T \ {x} = S,
         g[x] \in Int, \A y \in S : f[y] \in Int /\ g[y] = f[y]
  PROVE  SumFunctionOnSet(g, T) = SumFunctionOnSet(f, S) + g[x]
<1>1. IsFiniteSet(S)
  BY FS_Subset
<1>2. SumFunctionOnSet(g, T) = g[x] + SumFunctionOnSet(g, S)
  BY <1>1, SumTakes
<1>3. SumFunctionOnSet(g, S) = SumFunctionOnSet(f, S)
  BY <1>1, SumSame
<1>4. SumFunctionOnSet(f, S) \in Int
  BY <1>1, SumType
<1>5. QED
  BY <1>2, <1>3, <1>4

\* What nobody can tell changes no sum.
LEMMA QuietTold ==
  ASSUME Told, Quiet
  PROVE  Told'
<1>1. Applied' = Applied /\ \A c \in Applied : work'[c] = work[c]
  BY DEF Quiet
<1>2. Exchanged' = Exchanged /\ Exchanged \subseteq Applied
  BY <1>1 DEF Exchanged, Exchanges
<1>3. ASSUME NEW u \in User PROVE Own(u)' = Own(u) /\ Own(u) \subseteq Applied
  BY <1>1 DEF Own
<1>4. Pieces' = Pieces
  BY <1>1, <1>2 DEF Pieces
<1>5. ASSUME NEW u \in User PROVE ZhimiTold(u)'
  <2>1. \A c \in Own(u) : Effects(u)'[c] = Effects(u)[c]
    BY <1>1, <1>3 DEF Effects, ZhimiAfter, Cost, Exchanges
  <2>2. IsFiniteSet(Own(u))
    BY <1>3, FS_Subset DEF Told
  <2>3. SumFunctionOnSet(Effects(u)', Own(u)) = SumFunctionOnSet(Effects(u), Own(u))
    BY <2>1, <2>2, SumSame
  <2>4. Zhimi(u)' = Zhimi(u)
    BY DEF Quiet, Balance
  <2>5. QED
    BY <1>3, <2>3, <2>4 DEF Told, ZhimiTold
<1>6. SaleTold'
  BY <1>2, <1>3, <1>4 DEF Told, SaleTold, Quiet
<1>7. QED
  BY <1>1, <1>5, <1>6 DEF Told

\* EXEC adds its command to the sums it belongs to.
LEMMA EffectTold ==
  ASSUME LoadsInTime, NEW c \in Call, IInv, Told, TakesEffect(c)
  PROVE  Told'
<1> DEFINE w == work[c]
<1>1. /\ w \in Works /\ w.user \in User /\ w.count \in Nat
      /\ Balance' = [Balance EXCEPT ![w.user] = ZhimiAfter(w, @)]
      /\ Goods' = IF Exchanges(w) THEN GoodsAfter(w, Goods) ELSE Goods
  BY WriteApplies, WorkParts DEF TakesEffect
<1>2. Applied' = Applied \cup {c} /\ c \notin Applied /\ work' = work
  BY EffectApplies
<1>3. IsFiniteSet(Applied')
  BY <1>2, FS_AddElement DEF Told
<1>4. /\ Exchanged' = IF Exchanges(w) THEN Exchanged \cup {c} ELSE Exchanged
      /\ Exchanged \subseteq Applied /\ c \notin Exchanged
  BY <1>2 DEF Exchanged, Exchanges
<1>5. ASSUME NEW u \in User
      PROVE  /\ Own(u)' = IF w.user = u THEN Own(u) \cup {c} ELSE Own(u)
             /\ Own(u) \subseteq Applied /\ c \notin Own(u) /\ IsFiniteSet(Own(u))
  BY <1>2, FS_Subset DEF Own, Told
<1>6. ASSUME NEW u \in User PROVE ZhimiTold(u)'
  <2>1. /\ IsFiniteSet(Own(u)) /\ c \notin Own(u)
        /\ \A d \in Own(u) : Effects(u)[d] \in Int /\ Effects(u)'[d] = Effects(u)[d]
    BY <1>2, <1>5, NumbersTyped, ZhimiAfterType DEF Effects, ZhimiAfter, Cost, Exchanges
  <2>2. Zhimi(u) = OpeningZhimi[u] + SumFunctionOnSet(Effects(u), Own(u))
    BY DEF Told, ZhimiTold
  <2>3. Zhimi(u)' = IF w.user = u THEN ZhimiAfter(w, Zhimi(u)) ELSE Zhimi(u)
    BY <1>1, NumbersTyped DEF Balance
  <2>4. SumFunctionOnSet(Effects(u), Own(u)) \in Int /\ OpeningZhimi[u] \in Int /\ Zhimi(u) \in Int
    BY <2>1, SumType, NumbersTyped, EngineAssumption
  <2>5. CASE w.user # u
    <3>1. SumFunctionOnSet(Effects(u)', Own(u)) = SumFunctionOnSet(Effects(u), Own(u))
      BY <2>1, SumSame
    <3>2. QED
      BY <1>5, <2>2, <2>3, <2>5, <3>1 DEF ZhimiTold
  <2>6. CASE w.user = u
    <3>1. IsFiniteSet(Own(u)') /\ c \in Own(u)' /\ Own(u)' \ {c} = Own(u)
      BY <1>5, <2>6, FS_AddElement
    <3>2. Effects(u)'[c] = ZhimiAfter(w, 0) /\ ZhimiAfter(w, 0) \in Int
      BY <1>1, <1>2, <3>1, ZhimiAfterType DEF Effects, ZhimiAfter, Cost, Exchanges
    <3>3. SumFunctionOnSet(Effects(u)', Own(u)') = SumFunctionOnSet(Effects(u), Own(u)) + ZhimiAfter(w, 0)
      BY <2>1, <3>1, <3>2, SumGains
    <3>4. ZhimiAfter(w, Zhimi(u)) = Zhimi(u) + ZhimiAfter(w, 0)
      BY <1>1, <2>4, ZhimiMoves
    <3>5. QED
      BY <2>2, <2>3, <2>4, <2>6, <3>2, <3>3, <3>4 DEF ZhimiTold
  <2>7. QED
    BY <2>5, <2>6
<1>7. SaleTold'
  <2>1. CASE ~Exchanges(w)
    <3>1. Goods' = Goods /\ Exchanged' = Exchanged /\ Pieces' = Pieces
      BY <1>1, <1>2, <1>4, <2>1 DEF Pieces
    <3>2. \A u \in User : Own(u)' \cap Exchanged = Own(u) \cap Exchanged
      BY <1>4, <1>5
    <3>3. QED
      BY <3>1, <3>2 DEF Told, SaleTold
  <2>2. CASE Exchanges(w)
    <3>1. /\ Goods \in Shelf /\ Goods'.stock = Goods.stock - w.count
          /\ Goods'.sold = [Goods.sold EXCEPT ![w.user] = @ + w.count]
      BY <1>1, <2>2, NumbersTyped DEF GoodsAfter
    <3>2. /\ Exchanged' = Exchanged \cup {c} /\ c \notin Exchanged /\ IsFiniteSet(Exchanged)
          /\ Pieces'[c] = w.count /\ \A d \in Exchanged : Pieces[d] \in Int /\ Pieces'[d] = Pieces[d]
      BY <1>2, <1>4, <2>2, NumbersTyped, WorkParts, FS_Subset DEF Pieces, Told
    <3>3. SumFunctionOnSet(Pieces', Exchanged') = SumFunctionOnSet(Pieces, Exchanged) + w.count
      <4>1. IsFiniteSet(Exchanged') /\ c \in Exchanged' /\ Exchanged' \ {c} = Exchanged
        BY <3>2, FS_AddElement
      <4>2. QED
        BY <1>1, <3>2, <4>1, SumGains
    <3>4. Goods'.stock = OpeningStock - SumFunctionOnSet(Pieces', Exchanged')
      <4>1. SumFunctionOnSet(Pieces, Exchanged) \in Int /\ OpeningStock \in Int /\ w.count \in Int
        BY <1>1, <3>2, SumType, EngineAssumption
      <4>2. Goods.stock = OpeningStock - SumFunctionOnSet(Pieces, Exchanged)
        BY DEF Told, SaleTold
      <4>3. QED
        BY <3>1, <3>3, <4>1, <4>2
    <3>5. ASSUME NEW u \in User
          PROVE  Goods'.sold[u] = SumFunctionOnSet(Pieces', Own(u)' \cap Exchanged')
      <4> DEFINE S == Own(u) \cap Exchanged
      <4>1. IsFiniteSet(S) /\ c \notin S /\ \A d \in S : Pieces[d] \in Int /\ Pieces'[d] = Pieces[d]
        BY <3>2, FS_Subset
      <4>2. Goods.sold[u] = SumFunctionOnSet(Pieces, S)
        BY DEF Told, SaleTold
      <4>3. CASE w.user = u
        <5> DEFINE T == Own(u)' \cap Exchanged'
        <5>1. T = S \cup {c} /\ IsFiniteSet(T) /\ c \in T /\ T \ {c} = S
          <6>1. T = S \cup {c}
            BY <1>5, <3>2, <4>3
          <6>2. IsFiniteSet(S \cup {c})
            BY <4>1, FS_AddElement
          <6>3. QED
            BY <4>1, <6>1, <6>2
        <5>2. SumFunctionOnSet(Pieces', T) = SumFunctionOnSet(Pieces, S) + w.count
          BY <1>1, <3>2, <4>1, <5>1, SumGains
        <5>3. Goods'.sold[u] = Goods.sold[u] + w.count
          BY <1>1, <3>1, <4>3 DEF Shelf
        <5>4. QED
          BY <4>2, <5>1, <5>2, <5>3
      <4>4. CASE w.user # u
        <5>1. Own(u)' \cap Exchanged' = S
          BY <1>5, <3>2, <4>4
        <5>2. SumFunctionOnSet(Pieces', S) = SumFunctionOnSet(Pieces, S)
          BY <4>1, SumSame
        <5>3. Goods'.sold[u] = Goods.sold[u]
          BY <1>1, <3>1, <4>4 DEF Shelf
        <5>4. QED
          BY <4>2, <5>1, <5>2, <5>3
      <4>5. QED
        BY <4>3, <4>4
    <3>6. QED
      BY <3>4, <3>5 DEF SaleTold
  <2>3. QED
    BY <2>1, <2>2
<1>8. QED
  BY <1>3, <1>6, <1>7 DEF Told

LEMMA InitTold == Init => Told
<1> SUFFICES ASSUME Init PROVE Told
  OBVIOUS
<1>1. Applied = {}
  BY DEF Init, Applied
<1>2. Exchanged = {} /\ \A u \in User : Own(u) = {} /\ Zhimi(u) = OpeningZhimi[u] /\ OpeningZhimi[u] \in Int
  BY <1>1, EngineAssumption DEF Init, Exchanged, Own, Zhimi
<1>3. Goods = [stock |-> OpeningStock, sold |-> [u \in User |-> 0]] /\ OpeningStock \in Int
  BY EngineAssumption DEF Init, Goods
<1>4. ASSUME NEW u \in User PROVE ZhimiTold(u)
  BY <1>2, SumOfNothing DEF ZhimiTold
<1>5. SaleTold
  BY <1>2, <1>3, SumOfNothing DEF SaleTold
<1>6. QED
  BY <1>1, <1>4, <1>5, FS_EmptySet DEF Told

\* If a key that vanished is loaded only from a MySQL that has caught up with it:
\* however calls race, lose their transaction, their answers, their events or their
\* service, no movement of zhimi and no piece on sale is lost or counted twice.
\* A key loaded while an event of it is under way or lost does lose that movement;
\* no theorem covers that case, and the code does not prevent it.
THEOREM EffectsCounted == ASSUME LoadsInTime PROVE Spec => []EffectsAddUp
<1>1. Told => EffectsAddUp
  BY Zenon DEF Told, ZhimiTold, SaleTold, EffectsAddUp, Own, Effects, Exchanged, Pieces, Applied
<1>2. IInv /\ Told /\ [Next]_vars => Told'
  BY QuietOrEffect, QuietTold, EffectTold
<1>3. QED
  BY <1>1, <1>2, InitTold, Invariance, PTL DEF Spec
=============================================================================
