---------------------------- MODULE DomainEngine ----------------------------
(***************************************************************************)
(* The domain engine: every movement of zhimi, and the exchange of zhimi for *)
(* goods of JD, is a list of commands on objects that live in redis.         *)
(*   RedisService.execStepCmds   WATCH, MGET, run the commands, MULTI/EXEC   *)
(*   DomainExecEngine            loads objects that redis has not got, and    *)
(*                               publishes an event per command that worked  *)
(*   DomainConsumerTask          eight threads bring MySQL up to date:        *)
(*     UpdateAccountService      the copy of the zhimi in ats_account         *)
(*     BsOrderService            confirms the order at JD and books it        *)
(* The order is placed at JD while the commands run, before the transaction   *)
(* is known to succeed, and cancelled by a thread pool if it does not.        *)
(*                                                                           *)
(* The loader takes MySQL's word for whatever redis has not got, also when    *)
(* events that would change it are under way or lost.  LoadsInTime is the     *)
(* assumption that this does not happen; nothing in the code enforces it.     *)
(***************************************************************************)
EXTENDS DomainCommands, FiniteSets, Functions

CONSTANTS
  Call,         \* calls of executeCmds, each with one work to do
  Gone,         \* nothing in redis under a key
  OpeningZhimi, \* zhimi of each user at the start
  OpeningStock, \* pieces on sale at the start
  LoadsInTime,  \* a key is loaded only once MySQL has caught up with it
  Confirms,     \* submitState is "1": an order has to be confirmed at JD
  MaxFault,     \* bound: faults
  MaxForget     \* bound: keys that vanish from redis

ASSUME EngineAssumption ==
  /\ Gone \notin Int
  /\ Gone \notin [stock : Int, sold : [User -> Nat]] /\ Gone \notin Works
  /\ OpeningZhimi \in [User -> Nat] /\ OpeningStock \in Nat
  /\ LoadsInTime \in BOOLEAN /\ Confirms \in BOOLEAN
  /\ MaxFault \in Nat /\ MaxForget \in Nat

VARIABLES
  user,       \* redis: the zhimi of each user, or Gone
  goods,      \* redis: the sale, or Gone
  account,    \* MySQL: ats_account.acc_amount of each user
  sales,      \* MySQL: the sale as its table and the booked orders tell
  pc, work,   \* where each call is, and what it is to do
  seen, shelf, \* the zhimi and the sale each call works on
  spoiled,    \* calls with a watched key that was written since
  result,     \* what became of each call
  jd,         \* the order of each call at JD
  compensate, \* calls whose order the pool is to cancel
  event,      \* the events of each call: where they are
  fetched,    \* events polled whose kafka offset is not committed
  booked,     \* calls whose order is in bs_order
  hit,        \* calls hit by a fault: a crash, a lost message, a lost answer
  struck,     \* how many faults there were
  forgotten   \* keys that vanished so far

vars == <<user, goods, account, sales, pc, work, seen, shelf, spoiled, result, jd, compensate,
          event, fetched, booked, hit, struck, forgotten>>

redis == <<user, goods>>
mysql == <<account, sales, booked>>
local == <<work, seen, shelf>>
order == <<jd, compensate>>
topic == <<event, fetched>>
faults == <<hit, struck, forgotten>>

Shelf == [stock : Int, sold : [User -> Nat]]

Event == Call \X {"account", "order"}

\* Mutant: only the account hears of an exchange.
AccountEvent(c) == {<<c, "account">>}

\* The events of a call, one per command that is not only there to collect data.
EventsOf(c) == {<<c, "account">>} \cup (IF Exchanges(work[c]) THEN {<<c, "order">>} ELSE {})

Underway == {"topic", "pool"}

Init ==
  /\ user = [u \in User |-> Gone] /\ goods = Gone
  /\ account = OpeningZhimi
  /\ sales = [stock |-> OpeningStock, sold |-> [u \in User |-> 0]]
  /\ pc = [c \in Call |-> "idle"] /\ work = [c \in Call |-> Gone]
  /\ seen = [c \in Call |-> Gone] /\ shelf = [c \in Call |-> Gone]
  /\ spoiled = {}
  /\ result = [c \in Call |-> "none"]
  /\ jd = [c \in Call |-> "none"] /\ compensate = {}
  /\ event = [e \in Event |-> "none"] /\ fetched = {}
  /\ booked = {}
  /\ hit = {} /\ struck = 0 /\ forgotten = 0

\* The zhimi of a user and the sale as they are: redis has them, or a load from
\* MySQL would give them.
Zhimi(u) == IF user[u] = Gone THEN account[u] ELSE user[u]
Goods == IF goods = Gone THEN sales ELSE goods

-----------------------------------------------------------------------------
\* executeCmds is called, the keys are watched.
Watch(c, w) ==
  /\ pc[c] = "idle"
  /\ pc' = [pc EXCEPT ![c] = "watch"]
  /\ work' = [work EXCEPT ![c] = w]
  /\ UNCHANGED <<redis, mysql, seen, shelf, spoiled, result, order, topic, faults>>

\* MGET; only an exchange has the sale among its keys.
Read(c) ==
  /\ pc[c] = "watch"
  /\ pc' = [pc EXCEPT ![c] = "run"]
  /\ seen' = [seen EXCEPT ![c] = user[work[c].user]]
  /\ shelf' = [shelf EXCEPT ![c] = IF Exchanges(work[c]) THEN goods ELSE Gone]
  /\ UNCHANGED <<redis, mysql, work, spoiled, result, order, topic, faults>>

\* loadDomain: what MGET did not find is read from MySQL when its command runs.
SeenOrLoaded(c) == IF seen[c] = Gone THEN account[work[c].user] ELSE seen[c]
ShelfOrLoaded(c) == IF shelf[c] = Gone THEN sales ELSE shelf[c]

End(c, how) ==
  /\ pc' = [pc EXCEPT ![c] = "done"]
  /\ result' = [result EXCEPT ![c] = how]

\* A command sets an error code: postExecute throws, the transaction is
\* discarded and the exception is swallowed (RedisExecutor.execute).
Refuse(c) ==
  /\ pc[c] = "run"
  /\ Refused(work[c], SeenOrLoaded(c), ShelfOrLoaded(c))
  /\ End(c, "refused")
  /\ UNCHANGED <<redis, mysql, local, spoiled, order, topic, faults>>

\* The commands run on what was seen; the one on the sale places the order at JD.
Run(c) ==
  /\ pc[c] = "run"
  /\ ~Refused(work[c], SeenOrLoaded(c), ShelfOrLoaded(c))
  /\ pc' = [pc EXCEPT ![c] = "exec"]
  /\ seen' = [seen EXCEPT ![c] = SeenOrLoaded(c)]
  /\ shelf' = [shelf EXCEPT ![c] = ShelfOrLoaded(c)]
  /\ jd' = IF Exchanges(work[c]) THEN [jd EXCEPT ![c] = "placed"] ELSE jd
  /\ UNCHANGED <<redis, mysql, work, spoiled, result, compensate, topic, faults>>

\* E200031, and E200025 outside the hours of the sale: JD does not take the order.
JdRefuses(c) ==
  /\ pc[c] = "run" /\ Exchanges(work[c])
  /\ End(c, "refused")
  /\ UNCHANGED <<redis, mysql, local, spoiled, order, topic, faults>>

\* Mutant: only the zhimi is watched.
WatchesUser(c, d) == work[c].user = work[d].user

\* Call d watches a key that call c writes.
WatchesKeyOf(c, d) ==
  \/ work[c].user = work[d].user
  \/ Exchanges(work[c]) /\ Exchanges(work[d])

\* The other calls between their WATCH and their EXEC that c's EXEC disturbs.
Watchers(c) ==
  {d \in Call \ {c} : pc[d] \in {"watch", "run", "exec"} /\ WatchesKeyOf(c, d)}

\* EXEC takes effect: the objects are written as the commands left them.
Write(c) ==
  LET w == work[c]
  IN  /\ c \notin spoiled
      /\ user' = [user EXCEPT ![w.user] = ZhimiAfter(w, seen[c])]
      /\ goods' = IF Exchanges(w) THEN GoodsAfter(w, shelf[c]) ELSE goods
      /\ spoiled' = spoiled \cup Watchers(c)
      /\ result' = [result EXCEPT ![c] = "applied"]

Exec(c) ==
  /\ pc[c] = "exec"
  /\ Write(c)
  /\ pc' = [pc EXCEPT ![c] = "publish"]
  /\ UNCHANGED <<mysql, local, order, topic, faults>>

\* Mutant: the order of an exchange that failed stays.
ConflictKeepsOrder(c) ==
  /\ pc[c] = "exec" /\ c \in spoiled
  /\ End(c, "conflict")
  /\ UNCHANGED <<redis, mysql, local, spoiled, order, topic, faults>>

\* Mutant: the call begins anew, and keeps what it had to do.
ConflictRestarts(c) ==
  /\ pc[c] = "exec" /\ c \in spoiled
  /\ pc' = [pc EXCEPT ![c] = "idle"]
  /\ UNCHANGED <<redis, mysql, local, spoiled, result, order, topic, faults>>

\* Mutant: the loop tries EXEC once more, with the objects it has.
ConflictExecsAgain(c) ==
  /\ pc[c] = "exec" /\ c \in spoiled
  /\ spoiled' = spoiled \ {c}
  /\ UNCHANGED <<redis, mysql, pc, local, result, order, topic, faults>>

\* EXEC comes back empty.  The loop around it has been left: callFailed hands
\* the order to the pool, E60044 is thrown and swallowed.
Conflict(c) ==
  /\ pc[c] = "exec" /\ c \in spoiled
  /\ End(c, "conflict")
  /\ compensate' = IF Exchanges(work[c]) THEN compensate \cup {c} ELSE compensate
  /\ UNCHANGED <<redis, mysql, local, spoiled, jd, topic, faults>>

\* handlerResult: the events are sent, then the call returns.
Publish(c) ==
  /\ pc[c] = "publish"
  /\ pc' = [pc EXCEPT ![c] = "done"]
  /\ event' = [e \in Event |-> IF e \in EventsOf(c) THEN "topic" ELSE event[e]]
  /\ UNCHANGED <<redis, mysql, local, spoiled, result, order, fetched, faults>>

\* The pool cancels the order at JD.
Cancel(c) ==
  /\ c \in compensate
  /\ compensate' = compensate \ {c}
  /\ jd' = [jd EXCEPT ![c] = "cancelled"]
  /\ UNCHANGED <<redis, mysql, pc, local, spoiled, result, topic, faults>>

-----------------------------------------------------------------------------
\* mqConsumer.poll hands an event to the eight threads.
Poll(e) ==
  /\ event[e] = "topic"
  /\ event' = [event EXCEPT ![e] = "pool"]
  /\ fetched' = fetched \cup {e}
  /\ UNCHANGED <<redis, mysql, pc, local, spoiled, result, order, faults>>

\* enable.auto.commit: the offsets of what was polled are committed, handled or not.
CommitOffsets ==
  /\ fetched # {}
  /\ fetched' = {}
  /\ UNCHANGED <<redis, mysql, pc, local, spoiled, result, order, event, faults>>

\* Mutant: the copy takes over the balance that came with the event.
ConsumeBalance(c) ==
  LET w == work[c]  e == <<c, "account">>
  IN  /\ event[e] = "pool"
      /\ event' = [event EXCEPT ![e] = "done"]
      /\ account' = [account EXCEPT ![w.user] = ZhimiAfter(w, seen[c])]
      /\ UNCHANGED <<redis, sales, booked, pc, local, spoiled, result, order, fetched, faults>>

\* UpdateAccountService: the copy moves by the amount of the command.
ConsumeAccount(c) ==
  LET w == work[c]  e == <<c, "account">>
  IN  /\ event[e] = "pool"
      /\ event' = [event EXCEPT ![e] = "done"]
      /\ account' = [account EXCEPT ![w.user] = ZhimiAfter(w, @)]
      /\ UNCHANGED <<redis, sales, booked, pc, local, spoiled, result, order, fetched, faults>>

Confirmed(c) == IF Confirms THEN [jd EXCEPT ![c] = "confirmed"] ELSE jd

\* BsOrderService.addJDNewBsOrder: JD confirms, the order is booked, the sale
\* in MySQL brought up to date.  For an order that is there already (bs_order
\* has its number as key) the insert throws, and that is swallowed.
ConsumeOrder(c) ==
  LET e == <<c, "order">>
  IN  /\ event[e] = "pool"
      /\ event' = [event EXCEPT ![e] = "done"]
      /\ jd' = Confirmed(c)
      /\ booked' = booked \cup {c}
      /\ sales' = IF c \in booked THEN sales ELSE GoodsAfter(work[c], sales)
      /\ UNCHANGED <<redis, account, pc, local, spoiled, result, compensate, fetched, faults>>

-----------------------------------------------------------------------------
\* A fault touches the calls of S.
Hits(S) ==
  /\ struck < MaxFault
  /\ struck' = struck + 1
  /\ hit' = hit \cup S
  /\ UNCHANGED forgotten

\* The service stops, or its connection breaks, before EXEC: redis drops the
\* transaction, and nobody calls callFailed.
Crash(c) ==
  /\ pc[c] \in {"watch", "run", "exec"}
  /\ Hits({c})
  /\ End(c, "broken")
  /\ UNCHANGED <<redis, mysql, local, spoiled, order, topic>>

\* The answer of JD is lost: the order is there, the call is refused.
JdAnswerLost(c) ==
  /\ pc[c] = "run" /\ Exchanges(work[c])
  /\ ~Refused(work[c], SeenOrLoaded(c), ShelfOrLoaded(c))
  /\ Hits({c})
  /\ End(c, "refused")
  /\ jd' = [jd EXCEPT ![c] = "placed"]
  /\ UNCHANGED <<redis, mysql, local, spoiled, compensate, topic>>

\* Mutant: callFailed is called for every exception.
ExecAnswerLostCompensated(c) ==
  /\ pc[c] = "exec"
  /\ Hits({c})
  /\ Write(c)
  /\ pc' = [pc EXCEPT ![c] = "done"]
  /\ event' = [e \in Event |-> IF e \in EventsOf(c) THEN "lost" ELSE event[e]]
  /\ compensate' = IF Exchanges(work[c]) THEN compensate \cup {c} ELSE compensate
  /\ UNCHANGED <<mysql, local, jd, fetched>>

\* The answer of EXEC is lost: redis has executed it, the engine takes it for
\* an exception and publishes nothing.
ExecAnswerLost(c) ==
  /\ pc[c] = "exec"
  /\ Hits({c})
  /\ Write(c)
  /\ pc' = [pc EXCEPT ![c] = "done"]
  /\ event' = [e \in Event |-> IF e \in EventsOf(c) THEN "lost" ELSE event[e]]
  /\ UNCHANGED <<mysql, local, order, fetched>>

\* The service stops after EXEC, or a send fails: some events never get to kafka.
PublishFails(c) ==
  /\ pc[c] = "publish"
  /\ Hits({c})
  /\ pc' = [pc EXCEPT ![c] = "done"]
  /\ \E sent \in SUBSET EventsOf(c) :
       /\ sent # EventsOf(c)
       /\ event' = [e \in Event |-> IF e \in sent THEN "topic"
                                    ELSE IF e \in EventsOf(c) THEN "lost" ELSE event[e]]
  /\ UNCHANGED <<redis, mysql, local, spoiled, result, order, fetched>>

\* The pool stops, or JD does not answer: the order is never cancelled.
CancelFails(c) ==
  /\ c \in compensate
  /\ Hits({c})
  /\ compensate' = compensate \ {c}
  /\ UNCHANGED <<redis, mysql, pc, local, spoiled, result, jd, topic>>

\* A consumer throws, or JD refuses to confirm or is out of reach four times:
\* the task logs it and forgets the event.
ConsumeFails(e) ==
  /\ event[e] = "pool"
  /\ Hits({e[1]})
  /\ event' = [event EXCEPT ![e] = "lost"]
  /\ UNCHANGED <<redis, mysql, pc, local, spoiled, result, order, fetched>>

\* addJDNewBsOrder fails half way, and has no transaction to undo what it did:
\* JD has confirmed, the order may be booked and the pieces taken off the sale,
\* but what the user took of it is not recorded.  The event is forgotten.
ConsumeOrderTorn(c) ==
  LET e == <<c, "order">>
  IN  /\ event[e] = "pool" /\ c \notin booked
      /\ Hits({c})
      /\ event' = [event EXCEPT ![e] = "lost"]
      /\ jd' = Confirmed(c)
      /\ \/ UNCHANGED <<booked, sales>>
         \/ /\ booked' = booked \cup {c}
            /\ sales' \in {sales, [sales EXCEPT !.stock = @ - work[c].count]}
      /\ UNCHANGED <<redis, account, pc, local, spoiled, result, compensate, fetched>>

\* The task stops: what it had polled comes again, handled or not, unless its
\* offset was committed; then what waited in the pool is gone.
TaskCrash ==
  LET torn == {e \in Event : event[e] = "pool"} \cup fetched
  IN  /\ torn # {}
      /\ Hits({e[1] : e \in torn})
      /\ event' = [e \in Event |-> IF e \in fetched THEN "topic"
                                   ELSE IF event[e] = "pool" THEN "lost" ELSE event[e]]
      /\ fetched' = {}
      /\ UNCHANGED <<redis, mysql, pc, local, spoiled, result, order>>

\* Events that may still change the copy of a key.
Unsettled(e) == event[e] \in Underway \/ e \in fetched

\* MySQL has all there is to know of a user, of the sale.
CaughtUp(u) ==
  /\ user[u] = account[u]
  /\ \A c \in Call : work[c] # Gone /\ work[c].user = u => pc[c] # "publish" /\ ~Unsettled(<<c, "account">>)

SaleCaughtUp ==
  /\ goods = sales
  /\ \A c \in Call : work[c] # Gone /\ Exchanges(work[c]) => pc[c] # "publish" /\ ~Unsettled(<<c, "order">>)

\* A key vanishes (it expires, is evicted, or has another version than the
\* commands of a new release): the next command loads it, whatever MySQL knows
\* by then, unless LoadsInTime is assumed.  Redis may count the removal of a key
\* as a write of it.
Forget(u) ==
  /\ user[u] # Gone /\ (LoadsInTime => CaughtUp(u))
  /\ forgotten < MaxForget
  /\ forgotten' = forgotten + 1
  /\ user' = [user EXCEPT ![u] = Gone]
  /\ spoiled' \in {spoiled, spoiled \cup {c \in Call : pc[c] \in {"watch", "run", "exec"} /\ work[c].user = u}}
  /\ UNCHANGED <<goods, mysql, pc, local, result, order, topic, hit, struck>>

ForgetGoods ==
  /\ goods # Gone /\ (LoadsInTime => SaleCaughtUp)
  /\ forgotten < MaxForget
  /\ forgotten' = forgotten + 1
  /\ goods' = Gone
  /\ spoiled' \in {spoiled, spoiled \cup {c \in Call : pc[c] \in {"watch", "run", "exec"} /\ Exchanges(work[c])}}
  /\ UNCHANGED <<user, mysql, pc, local, result, order, topic, hit, struck>>

-----------------------------------------------------------------------------
\* What happens to a call without anybody's choice.
Progress(c) ==
  \/ Read(c) \/ Refuse(c) \/ Run(c) \/ Exec(c) \/ Conflict(c) \/ Publish(c) \/ Cancel(c)
  \/ Poll(<<c, "account">>) \/ Poll(<<c, "order">>)
  \/ ConsumeAccount(c) \/ ConsumeOrder(c)

Fault(c) ==
  \/ Crash(c) \/ JdAnswerLost(c) \/ ExecAnswerLost(c) \/ PublishFails(c) \/ CancelFails(c)
  \/ ConsumeOrderTorn(c)

Next ==
  \/ \E c \in Call, w \in Works : Watch(c, w)
  \/ \E c \in Call : Progress(c) \/ JdRefuses(c) \/ Fault(c)
  \/ CommitOffsets
  \/ \E e \in Event : ConsumeFails(e)
  \/ TaskCrash
  \/ \E u \in User : Forget(u)
  \/ ForgetGoods

Spec == Init /\ [][Next]_vars

\* A call that has begun goes on, the pool and the job (every second) run.
FairSpec == Spec /\ \A c \in Call : WF_vars(Progress(c))

-----------------------------------------------------------------------------
\* Types of the state.
TypeOK ==
  /\ user \in [User -> Int \cup {Gone}] /\ goods \in Shelf \cup {Gone}
  /\ account \in [User -> Int] /\ sales \in Shelf
  /\ pc \in [Call -> {"idle", "watch", "run", "exec", "publish", "done"}]
  /\ work \in [Call -> Works \cup {Gone}]
  /\ \A c \in Call : pc[c] = "idle" <=> work[c] = Gone
  /\ seen \in [Call -> Int \cup {Gone}] /\ shelf \in [Call -> Shelf \cup {Gone}]
  /\ spoiled \subseteq Call /\ compensate \subseteq Call /\ booked \subseteq Call /\ hit \subseteq Call
  /\ result \in [Call -> {"none", "applied", "refused", "conflict", "broken"}]
  /\ jd \in [Call -> {"none", "placed", "cancelled", "confirmed"}]
  /\ event \in [Event -> {"none", "lost", "done"} \cup Underway]
  /\ fetched \subseteq Event
  /\ struck \in Nat /\ forgotten \in Nat

\* The transaction is optimistic: as long as nobody wrote a watched key, what a
\* call works on is what redis holds (or MySQL, if redis has nothing), however
\* long JD and MySQL took.  Assumes LoadsInTime: else
\* the copy may move after it was loaded, which no WATCH sees.
SnapshotHolds ==
  \A c \in Call : pc[c] = "exec" /\ c \notin spoiled =>
    /\ seen[c] = Zhimi(work[c].user)
    /\ Exchanges(work[c]) => shelf[c] = Goods

\* However the calls interleave and whatever faults hit them, zhimi is overdrawn
\* only by a caller who asked for no check (canCheckAccount), the sale never sells
\* more than it has, and a user gets less than the limit plus one helping: as long
\* as keys that vanish are loaded again only from a MySQL that has caught up
\* (LoadsInTime).  A load before that forgets what the events under way tell.
NeverOverdrawn ==
  /\ \A u \in User : Zhimi(u) < 0 =>
       \E c \in Call : result[c] = "applied" /\ work[c].user = u /\ ~work[c].check
  /\ Goods.stock >= 0
  /\ SumCount > 0 => \A u \in User : Goods.sold[u] < SumCount + OnceCount

\* The order at JD and the exchange go together: an order that is neither
\* booked nor cancelled is on its way to be one of them, and one that is booked
\* belongs to an exchange that took effect, unless a fault hit the call.  That
\* does not depend on what redis forgets, or on what MySQL knows by then.
OrderFollowsExchange ==
  \A c \in Call \ hit :
    /\ jd[c] = "placed" =>
         \/ pc[c] \in {"exec", "publish"}
         \/ c \in compensate
         \/ event[<<c, "order">>] \in Underway
         \/ c \in booked /\ ~Confirms
    /\ jd[c] = "cancelled" <=> result[c] = "conflict" /\ Exchanges(work[c]) /\ c \notin compensate

\* No fault, no second delivery and no stale load cancels the order of an exchange
\* that took effect, or books one of an exchange that did not, or one that JD waits
\* to see confirmed.
BookedIsApplied ==
  \A c \in Call : /\ c \in booked => result[c] = "applied" /\ (Confirms => jd[c] = "confirmed")
                  /\ result[c] = "applied" => jd[c] # "cancelled"

\* The copy of a user's zhimi in ats_account lags behind by the events still to
\* be handled, and by nothing else as long as no fault hit one of its calls.  Assumes
\* LoadsInTime: a load with events under way would miss what they are to tell.
CopyLagsBehind ==
  \A u \in User :
    LET calls == {c \in Call : work[c] # Gone /\ work[c].user = u}
        late == {c \in calls : pc[c] = "publish" \/ event[<<c, "account">>] \in Underway}
    IN  calls \cap hit = {} =>
          Zhimi(u) = account[u] + SumFunctionOnSet([c \in calls |-> ZhimiAfter(work[c], 0)], late)

\* Under the assumption LoadsInTime, no update is lost and none is made twice,
\* whatever faults and conflicts there are: the zhimi of a user is the opening moved
\* once by each of his calls that took effect, and the sale has given out what those
\* exchanged.  Without it the claim is false: a key that vanishes while an event is
\* under way or lost is loaded without that event's movement (DomainLoaderFactory).
EffectsAddUp ==
  LET applied == {c \in Call : result[c] = "applied"}
      exchanged == {c \in applied : Exchanges(work[c])}
      pieces == [c \in exchanged |-> work[c].count]
  IN  /\ \A u \in User :
           LET own == {c \in applied : work[c].user = u}
           IN  /\ Zhimi(u) = OpeningZhimi[u] + SumFunctionOnSet([c \in own |-> ZhimiAfter(work[c], 0)], own)
               /\ Goods.sold[u] = SumFunctionOnSet(pieces, own \cap exchanged)
      /\ Goods.stock = OpeningStock - SumFunctionOnSet(pieces, exchanged)

\* The engine keeps its promise through all its steps and faults, under the
\* assumption LoadsInTime.
Promise == INSTANCE DomainPromise WITH
  zhimi <- [u \in User |-> Zhimi(u)],
  goods <- Goods,
  applied <- {c \in Call : result[c] = "applied"}

KeepsPromise == Promise!Spec

\* In the end MySQL agrees with redis, and every order is booked or cancelled,
\* unless a fault intervened.  Assumes LoadsInTime.
CatchesUp ==
  <>[](\/ hit # {}
       \/ /\ \A u \in User : account[u] = Zhimi(u)
          /\ sales = Goods
          /\ \A c \in Call : jd[c] = "placed" => c \in booked)

\* What the loop of execStepCmds says of itself ("重试5次", five more tries) and
\* the line after it ("执行任务失败，抛出异常前端响应", the failure reaches the caller):
\* a call that no command refuses and no fault hits takes effect.
UnrefusedIsApplied ==
  \A c \in Call \ hit : pc[c] = "done" => result[c] \in {"applied", "refused"}
=============================================================================
