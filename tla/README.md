# yz-server: TLA+ models of its payments

yz-server is the back end of a school that takes adult students through
self-study exams: Java services on dubbo, MySQL and redis, an MQ for domain
events, elastic-job for background work, and two web applications. This
directory holds TLA+ modules that model its payment core, the engine its zhimi
(reward points) move through, and the payment desk of its back office; the TLC
runs that check them; and TLAPS proofs about them. Every definition is written from the
code; `PROJECT.json` maps it to the lines it stands for.

## The system

| Part | Where | State it keeps | Operations |
|---|---|---|---|
| Tuition bill computation | `BdsTuitionService` (user) | none of its own: a bill per request | checks, zhimi/coupon pass, retained pass, serials |
| Tuition payment service | `BdsTuitionService`, `BdsPaymentCallBackService`, `AccountService`, `BdsPaymentBindService` (user) | `bd_student_serial`, `bd_sub_serial`, `bd_sub_order`, `bd_student_coupon`, `ats_account`, `ats_account_serial` | payTuition, paySuccess, transMore/trans, bindAndAward |
| Domain command engine | `com.yz.edu.domain`, `RedisService` (sdk) | `YzUserDomain` (zhimi), `JdGoodsSalesDomain` (stock) in redis; orders at JD | executeCmds under WATCH/MULTI, load, compensation, events to the MQ |
| Notification pipeline | `TransCallBackService` (proxy), `UserPaySuccessTask`/`UserPaySuccesService` (task), `BadPaymentOrderService` (bms) | redis counter per batch, redis list, `yz_bad_payment` | dedupe, validate, push; pop, call; save bad row; resend |
| Zhimi copy | `UpdateAccountService`, `DomainConsumerTask` (task) | zhimi row of `ats_account` | apply the change an event carries |
| Job execution | `AbstractTask` (task) | none | lpop/spop, process, log exceptions |
| Third-party clients | `com.yz.edu.pay` | none | build payment requests |
| Points mall | `com.yz.edu.goods`, `BsOrderService` (task) | stock, orders, auctions, lottery | exchange (a domain command), confirm and book; bid, draw |
| Recharge, express and item payments | `AtsRechargeService`, `BdsApplyService`, `BdsPaymentItemService` | their own order tables | other deal types of the same pipeline |
| Payment page at the desk | `stdfee-pay.js` (bms) | boxes, coupons and fields of one page | tick, spread coupons, reckon, submit |
| Back-office finance | `com.yz.edu.bms` service/finance | the same serials | payment at the desk, review, refund |
| Awards and lottery tickets | `UserReChargeService` and others (task) | accounts, tickets | consume recharge events |
| Login, registration, binding | user | redis sessions, `us_*` tables | register, log in, bind |
| Education back office | bms | `bd_*` tables | CRUD, imports, reports |
| Exam crawler, trace observatory, SDK, trace, paging, scaffolding, web pages | their own modules | caches, search indexes | infrastructure |

How the modelled parts interact:

    client --payTuition--> user service ------- MySQL row locks -------+
       |                        |   \--domain command--> redis (zhimi) |
       v                        |                            | event   |
    third party                 ^ dubbo RPC, 30 s, no retry   v         |
       | notifies               |                       UpdateAccount --+
       v                        |
    proxy --incr/lpush--> redis list --lpop--> task --exception--> bad payment row
                                ^                                      |
                                +---------- operator resends ----------+

What is hard about it: a payment crosses five processes and three stores with
no transaction over them. The third party repeats its notification; the proxy
dedupes before it has done anything; the task removes an event before it
handles it; a call that timed out runs on; an operator may send the same bad
payment twice. In the service many executions of different batches compete for
one account, its balance is read without a lock and written under one, and
zhimi is deducted in redis, where a rollback of MySQL does not reach. The
`hazards` of `PROJECT.json` list these at their lines.

What makes each part correct:

* bill: coupons, zhimi, retained money and cash make up each fee exactly, no
  part is negative, and an excess of zhimi remains only where nothing else is due;
* service: a batch is settled or refunded once and for good; its items,
  coupons, retained money and refund agree with its status; nothing is lost or
  invented on the account by any interleaving, rollback or retry; executions end;
* pipeline: one event of a batch under way at a time (under the two assumptions
  stated below), and no collected payment without a trace;
* domain engine: the order at JD shares the fate of its command; and, as long as keys
  are loaded from MySQL only when it has caught up, a command takes effect at one moment
  or not at all, and MySQL catches up when nothing fails;
* desk: clicks come to rest, coupons pay what they may and no more, and what is
  booked is what the clerk was shown;
* whole: the pipeline gives the service what it needs, no answer reaches the
  wrong event, no item is paid without its cash, and a collected payment ends
  somewhere an operator can see.

## The modules

| Module | Models | Notes |
|---|---|---|
| `TuitionBill` | what a bill is | shared by the next two |
| `Deduction` | the two passes of `payTuition` (`getZmDeduction`, `checkCoupons`, `zmDeductionDetail`, `accDeduction`) | one step is one item of a pass; ties in the sort leave the order open |
| `TuitionService` | `payTuition`, `paySuccess`, `trans`, `bindAndAward`, the zhimi consumer | one student, any number of batches and worker threads |
| `TuitionPromise` | abstract: a batch is placed, then settled, deducted or refunded in one step | `TuitionService` implements it (`KeepsPromise`) |
| `PayPipeline` | proxy, redis list, task, bad payment rows, resend | the service is only its outcome |
| `TuitionSystem` | `PayPipeline` and `TuitionService` composed | each event owns the execution its call started |
| `DomainCommands` | what a command asks of the objects, refuses and changes | zhimi in and out, exchange of zhimi for goods |
| `DomainPromise` | abstract: a command takes effect in one step, if it is not refused, at most once | `DomainEngine` implements it (`KeepsPromise`) |
| `DomainEngine` | `execStepCmds`, `DomainExecEngine`, the orders at JD, the events and their consumers | faults; vanishing keys, loaded in time or not |
| `DeskBill` | the two reckonings of a payment at the desk: coupons over items (`stdfee-pay.js`), zhimi and retained money over the rest (`BdTuitionService`) | a loop over a sorted list is a fold over a set that names which element is last (`InTurn`) |
| `DeskBoxes` | the boxes of fee years and the clicks one click causes | |
| `Desk` | the page and the back office, with the student paying elsewhere meanwhile | extends the two |
| `Sums` | lemmas on sums and folds over finite sets | nothing of the program |
| `...Proofs` | theorems | `TuitionAccountsProofs` goes on from `TuitionServiceProofs` |
| `MC...` | small instances for TLC | |

**TuitionService.** A method of the service is a MySQL transaction on a dubbo
thread. `exec[t]` is the transaction of thread t: `pc` says how far it is,
`plan` what it decided ("deduct": payTuition settles by itself; "settle",
"refund": paySuccess), `todo` and `made` the account movements before and after
they were executed, `balance` the uncommitted balance.
`PaySuccess` is everything up to the first write: the check for a repeated
callback and the checks of each sub serial read one snapshot and take no lock.
`WriteRows` takes the row locks on serials, coupons and sub orders, and waits for
other executions that hold them. `TransferRetained`/`TransferRefund` wait for the
account row (`getAccountForUpdate`) and keep it; E40005 rolls back. `TransferZhimi`
is a redis command: it takes effect at once, or fails, and the failure is
swallowed. `BindAndAward` pushes the recharge event before `Commit`, which
publishes everything the transaction wrote. `Crash` stands for an exception, a
deadlock victim or a stop of the service. `UpdateAccount` brings one zhimi event
to the copy in `ats_account`, in any order. The constant `Exclusive` says whether
callbacks of one batch may overlap: the service alone does not prevent it.

**PayPipeline.** `event[e]` is an event and where it is: in the proxy between
`incr` and `lpush`, in the list, popped by the task, in an RPC, or "orphan": its
call goes on with nobody waiting. The list is a set: the task pops from the end
the proxy pushes to. `key` holds the counters that have not expired. `lost`
records the events that vanished in a window of the code (`Drop`, `TaskCrash`),
so that a property can say that there is no other way for a payment to vanish.
Two assumptions are constants: `OperatorWaits` (a bad payment is resent only when
none of its events is under way) and `KeyOutlives` (a counter expires only after
the third party stopped notifying). The code enforces neither; the runs show what
holds with them and what without.

**TuitionSystem** instantiates both modules over shared variables; `final` of the
pipeline is derived from `serial` of the service.

**DomainEngine.** `user` and `goods` are the objects in redis (`Gone`: no such
key), `account` and `sales` what MySQL knows. A call goes through `Watch`, `Read`
(MGET), `Run` (the commands on what was read, or loaded from MySQL; an exchange
places its order at JD here, inside the transaction), `Exec` or `Conflict`, and
`Publish`. `spoiled` is what WATCH records: the calls a key of which was written
since. A conflict hands the order to a pool that cancels it (`Cancel`); nothing is
tried again. The events go through `topic` and `pool` (eight threads, any order);
`CommitOffsets` is kafka's automatic commit, so a stop of the task (`TaskCrash`)
loses what was committed and repeats what was not. `hit` says which calls a fault
touched. `ConsumeOrder` confirms the order at JD (if `submitState` is "1", constant
`Confirms`), books it and brings the sale up to date; it has no transaction, and
`ConsumeOrderTorn` is its failure half way: what is done stays done, and a second
delivery ends at the key of the order, so the sale in MySQL stays behind for good.

`Forget` and `ForgetGoods` take a key out of redis; `DomainLoaderFactory` then loads
it from MySQL, whatever events are still under way or were lost. The constant
`LoadsInTime` is the assumption that a key vanishes only once MySQL has caught up with
it (`CaughtUp`, `SaleCaughtUp`). **Nothing in the code enforces it.** Objects get an
expiry only from commands that create them, but eviction or a release with a new
version of the object is enough to break it, and then movements are lost. With
`LoadsInTime = FALSE` the guards are gone and `SnapshotHolds`, `NeverOverdrawn`,
`CopyLagsBehind`, `EffectsAddUp`, `KeepsPromise` and `CatchesUp` are all violated: they
are claims about the engine in an environment that behaves, and none of them shows
anything about the hazard at `DomainLoaderFactory:114`. The types,
`OrderFollowsExchange` and `BookedIsApplied` do not need the assumption: the run checks
them with it, and `DomainEngineProofs` proves them for either value of `LoadsInTime` and
`Confirms`, a load that misses lost events included.

`bs_order` is taken to have `order_no` as its key. The limit of a user may be passed by
one helping less one piece (`JdGoodsSalesDomain` compares what was taken before), which
`NeverOverdrawn` states as the code has it.

**Desk.** Between two actions of the clerk the script of the page runs to its end;
the boxes that one box ticks by `.click()` are steps (`Cascade`), because each runs
the whole handler, in a state where the others have not followed yet. `YearChange`
reckons with the coupons shown so far and makes the list anew afterwards, as the
page does: a ticked coupon that comes back pays nothing until the next event, and
coupons that arrive late stay hidden until a year is clicked. `Submit(print)` sends
the form to `pay.do` or `payAndPrint.do`; `MakeOut`, `Charge` and `Commit` are
`BdTuitionService.payTuition`, the remote `transMore` in between being a
transaction of its own (`CommitFails`: what it took is gone). The surplus of zhimi
is always charged. A coupon whose detail has price 0 is used up with the others. An
item paid elsewhere between `MakeOut` and `Commit` is booked a second time; no
property claims otherwise.

## The runs

| Run | Question | Bounds |
|---|---|---|
| `deduction` | does every request end refused or in an exact bill, and in the same cash whatever order the passes take? | 3 items, fees 0..2, coupons 0..1, asked amounts -1..5, a tie in one order: every relation of fee, coupon and deduction (smaller, equal, larger, used up between items, left over) occurs |
| `service` | with callbacks of one batch apart: do statuses, items, coupons, account movements and awards agree, and does the service implement `TuitionPromise`? | 2 batches, 2 threads, 4 bills that compete for both items, one coupon and a balance of 3, two rollbacks per batch. Two are the fewest that race; three batches give 450 thousand states and nothing new |
| `overlap` | what do the row locks alone guarantee, and does every execution end? | the same, callbacks of one batch may overlap |
| `pipeline` | one event of a batch under way, nothing vanishes, every collected payment is handled | 2 batches, up to 3 events under way, 2 notifications that pass the dedupe and 2 resends per batch |
| `system` | does the pipeline provide what the service needs; do both behave as their modules say; does the whole keep the promise to the student, and can its account be told from its batches? | 2 batches, 2 events, 1 client, 1 worker of the task |
| `system_live` | does every collected payment end somewhere? | 1 batch whose events overlap |
| `domain` | if keys are loaded in time (`LoadsInTime`): is each command atomic under every fault and no update lost, do orders at JD follow exchanges, does MySQL catch up? | 2 calls with any of 5 works (two users, one sale of 2 pieces at 2 zhimi, one user who can pay for one), 2 faults, 2 vanishing keys: two calls are the fewest that conflict, two faults the fewest that combine (an order half booked and delivered again) |
| `desk` | do the boxes come to rest in order, each click bringing them nearer, are coupons spread soundly, does `pay.do` book what was shown? | 3 years (the fewest where a click on the middle one clicks both ways), 4 items, 2 coupons that compete, one of which also names an item the student has not got, one field value each besides 0, 2 payments or expenses elsewhere; every action fires, coupons are left over, run out, and cover exactly |
| `batch_twice` | violated `FinalStays` | finding 1 |
| `item_twice` | violated `ItemPaidOnce` | finding 2; one thread, so no race is needed |
| `domain_conflict` | violated `UnrefusedIsApplied` | finding 3; no faults |
| `desk_print` | violated `BooksWhatIsShown` | finding 4 |

Bounds in the guards: `MaxRollback` (a callback is tried only after so many
rollbacks of its batch; in the system runs it is never reached), `MaxNotify`,
`MaxResend`, the set `Event` (events under way at a time), `MaxFault`, `MaxForget`
and `MaxElsewhere`. Symmetry (batches, threads, events) is used in safety runs only.
`CHECK_DEADLOCK FALSE` stands everywhere: bills, batches, notifications, calls and
the payment of a page are finite, the system may be done.

Fairness. `TuitionService`: a running execution goes on (worker threads run, InnoDB
serves waiters of a row lock); deadlocks of row locks end by a victim, which is
`Crash`, and no property relies on one happening. `PayPipeline`: the third party
notifies until it is answered, counters expire, proxy, job (cron, every 5 s) and
service continue what they have begun. `DomainEngine`: a call that has begun goes on,
the pool and the consumers take what is there; nothing is assumed of faults.
`Desk`: a script that has begun runs to its end (`ScriptRuns`); nothing is assumed of
the clerk or the server. Nobody is assumed to resend, to pay or to order, and no
failure is assumed to happen.

What the four violations show:

1. *A batch changes its final status.* A call times out, its bad payment row is
   resent while it still runs. The check for a repeated callback takes no lock, so
   both callbacks go on; the second chooses "refund" (the balance is gone) and
   turns a settled batch into a failed one. With an operator who waits it cannot
   happen (`system`; theorems `ServiceKept` and `FinalForGood` together).
2. *An item is paid twice.* Two batches of one item are placed before either is
   settled; nothing looks again when they are. (Two wholly deducted orders at the
   same time do the same; the run has only batches that wait for a callback.)
3. *A command that nothing refuses is dropped.* `execStepCmds` announces five tries
   and an exception; it tries once, the exception is swallowed, and callers take the
   zhimi for moved. Everywhere else `TuitionService` allows for it: `TransferZhimi`
   may do nothing.
4. *More is booked than was shown.* `payAndPrint.do` does not read the coupons of the
   form: the clerk collects the sum with coupons, the back office books the cash
   without.

## What is proved

Every safety property and every refinement that a passing run checks, for every value
of the constants, by TLAPS:

* `Sums` has what the others need of sums and folds over finite sets. The library's
  induction theorems cannot be instantiated here, so it derives induction anew: over
  numbers from the least element of a set of them (`NumberInduction`), over a finite
  set from the number of its members (`SubsetInduction`). `SumFunctionOnSet` is a
  CHOOSE of a table; `TableExists` and `SumTakes` unfold it, the rest follows: sums of
  sums, one term that changes, disjoint unions, sequences. `FoldExists` does the same
  for a fold that takes its elements in an order.
* `DeductionProofs`: `TypeOK`, `DoneIsBill`, `EverySerialHasASubSerial`,
  `DeductionsAddUp`. The inductive invariant says what each pass has done to the items
  it visited: zhimi (and retained) and what is payable add up to the net fee, zhimi is
  left only if all visited items were covered, retained money only if those visited
  need no cash. `DoneIsBill` alone is not inductive: it says nothing before the end. The
  orders of the passes play no part in the proof. `DeductionsAddUp` needs that a pass
  takes from what is left what it adds to the item at hand (`SumsSoFar`). Its last part,
  `CashWhateverOrder`, is the client's view: though the passes go in different orders,
  the cash is what zhimi and retained money leave of all net fees (`FinishedSums`).
  `DeductionAssumption` types the requests and has finitely many items.
* `PayPipelineProofs`: `TypeOK`, `OneUnderWay`, `NothingVanishes`. Needed beside
  them: while counters outlive notifications, a batch with an event or a bad row
  is still counted or was answered for (`Opened`; so a first notification cannot
  meet another event, nor a resend a notification), and an orphaned execution has
  a bad row or is lost (`OrphansTold`; so its end loses nothing).
* `TuitionServiceProofs`: `TypeOK` and `SettledIsPaid` always; `RetainedBookedOnce`,
  `PaidIsBacked` and `FinalIsFinal` when callbacks of one batch do not overlap.
  Needed beside them: what a thread has made and has still to make are together
  the movements of its plan (`MadeIsCharged`), no two threads execute one batch
  (`Alone`), and the batch of an execution is not final (`Open`). Also
  `OncePerAttempt` (of zhimi commands and of the recharge event), under the same
  condition. It is not inductive: a movement in redis outlives the execution that made
  it. The invariant `Attempts` says who accounts for it: a rollback, the status of the batch, or the one
  execution that has it behind it. `ServiceAssumption` types the bills and has
  finitely many batches and items; nothing is assumed of amounts or balances.
* `TuitionAccountsProofs`: `RetainedConserved` and `ZhimiConserved` always, also when
  callbacks overlap. A balance that agrees with what is booked says nothing of the
  executions that are about to write it, so the invariant `Accounts` adds `Hands`: who
  holds the account row has the committed balance with its own movements, each made
  once, and whoever does not hold it has made none. It is the row lock that carries the
  proof, not the order in which threads read. And, when callbacks of one batch do not
  overlap, `KeepsPromise`: `Commit` is the step of `TuitionPromise`, every other step of
  the transaction stutters. It needs the sums (a refund puts back the cash, a settled
  batch takes its retained parts) and that what an execution deducts by itself leaves
  no cash (`DeductedInFull`).
* `TuitionSystemProofs`: `ExecutionBelongs`, `NothingForFree`, `ServiceAsAssumed` and
  `PipelineAsAssumed` of the composed system. Each part gives the other what it assumes,
  so the invariant is the service's own, the pipeline's own and what ties them: who
  executes what (`ExecutionBelongs`), clients execute only what needs no cash
  (`ClientsDeduct`), and what waits for a callback or was collected needs cash
  (`CashNeeded`, `Delivered`). With `OneUnderWay` of the pipeline, a call then meets no
  other execution of its batch (`CalledAlone`), and is a callback of the service that
  its theorems speak of. `SystemAssumption` restates what the two modules assume.
  `AccountReconciles` carries the conservation of the account over to the system: what is
  booked on the account is sorted by the status of its batch (`BalanceByStatus` in
  `TuitionAccountsProofs`: refunds put back the cash, settled batches took their parts,
  no other has a movement), and a refund has its cash from the third party. It too holds
  only with an operator who waits and counters that outlive notifications: a batch handled
  twice is booked twice.
  `PromiseToStudent` puts this and `KeepsPromise` of the service together: with an
  operator who waits and counters that outlive notifications, the whole system, with
  its lost calls, repeated notifications and resends, does to a student's batches what
  `TuitionPromise` does in single steps.
* `DomainEngineProofs`, without assumptions on loads: `TypeOK`, `BookedIsApplied` and
  `OrderFollowsExchange`, under every fault. `OrderFollowsExchange` needs for each call
  that no fault hit what its order was before it was placed (`Followed`).
  Under the assumption `LoadsInTime`, which each of these theorems names: `SnapshotHolds`,
  `NeverOverdrawn`, `CopyLagsBehind`, `EffectsAddUp`, and that the engine implements
  `DomainPromise` (`KeepsPromise`). No theorem says what a load gives while events of its
  key are under way or lost.
  The heart is `SnapshotHolds`: an undisturbed call works on what redis holds, and its
  `Exec` is the step of the promise; every other step is a stutter. It needs that a
  load agrees with what redis held before its key vanished (`AccountLoaded`,
  `SaleLoaded`): that is where the assumption enters, because then no event for the key
  is under way. In the invariant (`IInv`) what depends on it stands behind
  `LoadsInTime =>`. From the same case split
  (`QuietOrEffect`) follows `EffectsAddUp`: sums over the calls that took effect gain the
  call at its `Exec`, and nothing else moves them (`Told`). `CopyLagsBehind` needs that an
  event does not exist before its call ends (`EventsLater`) and that finitely many calls
  have begun, so that a sum over them makes sense (`Lags`): the set of calls itself may be
  infinite.
* `DeskProofs`: `YearsInOrder` for any number of years. Between the clicks that one
  click causes the years are in no order; the invariant says which may still be out of
  it: those still to be clicked (`Filling` when ticking, `Clearing` when unticking).
  `ClicksAdvance` is the variant in `ClicksSettle`: each click of the script brings one
  box more to what was asked and none back, so no page can click for ever.
  `TypeOK`, `DeductionSound`, `NothingLeftOver` and `PayBooksWhatIsShown`, for any items,
  fees and coupons. The work is in lemmas about the reckonings, each an induction over
  the sets a fold runs through. `DeductionIsSound` is `setDeduction`: what a coupon has
  paid and what it still has are its worth (`Spent`), and once an item was visited it is
  paid or no coupon meant for it has money (`Visited`); inside a round the same holds
  of the coupons that had their turn (`Paying`). `BillIsPaid` is the back office: a pass
  takes the lesser of what is due and what there is, so whatever the order the cash is
  what zhimi and retained money leave of the sum. `LeftOnAll` joins the two: what the
  coupons pay in all is what they pay item by item. The invariant proper (`DeskInv`)
  then only says that page, request and bill were each reckoned in this way. Where
  places in an order are shared, `LastBy` takes one; the proofs do not use which.
  `DeskAssumption` types the fields and says that "none" is no request and no bill.

Only model-checked: liveness under fairness (`ExecutionsEnd`, `Handled`,
`PaymentHandled`, `CatchesUp`, `ClicksSettle`), which needs ENABLED, out of the reach of
the provers at hand (of `ClicksSettle` the safety part, `ClicksAdvance`, is proved); and the
four violated properties, which are refuted.

## Abstractions and what is left out

* MySQL is REPEATABLE READ: what a transaction read before its first write is one
  snapshot. `WriteRows` takes the locks of serials, coupons and sub orders in one step, the
  code one after another: a lock-order deadlock appears as `Crash` of a victim.
* `Deduction` leaves out the refusals that depend on who pays and on a switch (E60026: an
  employee pays with zhimi; E60024: coupons are switched off). The model computes a bill
  for such requests too, so what holds of its bills holds of more requests than the code
  accepts.
* Amounts are integers in 0.01 yuan, which is one zhimi (`yz.zhimi.scale` = 100).
* The bills of `TuitionService` are a constant; `MCTuitionService` assumes (and TLC
  evaluates) that each is one `Deduction` could compute.
* Retained account rows of `userId` and `stdId` are taken to be the same row.
* `paySuccess` returns without a change if the amount differs from the payable
  sum; the amount is the one the proxy asked the third party for, so this is left
  out. `payFailed` has no caller.
* Coupon dates and rules, other income to the accounts, the certificate contents
  and wording of third-party messages, WeChat messages, `refreshFollow`, the
  book-sending record, lottery tickets and task cards are left out.
* `TuitionService` takes the events of its own zhimi commands to arrive once each, in any
  order; what happens when they are lost or come twice is in `DomainEngine`.
* Amounts at the desk are whole; the count of coupons, texts and layout are left out.

## Not modelled

* Other deal types (zhimi recharge, express, single items): the same pipeline with
  other tables, each with its own check for a repeated callback.
* Lottery, auction and the older exchange of own goods of the points mall; awards and
  lottery tickets, whose rules are rows of a rule engine's database.
* Review, withdrawal and refund of settled batches, and automatic payments of
  transferred students, in the back office.
* Login, registration and binding; the education back office, which is CRUD and
  reports over single statements; the exam crawler and the trace observatory, which
  are programs of their own; third-party clients, gateway, SDK, paging, scaffolding.
* The web pages but for the payment page: tables and forms. Most of the script lines
  of the repository are copies of libraries (ueditor, jquery, lightbox, H-ui,
  webuploader), which are not the program's own.

Hazards without a property: the form token of the back office (`ControllerAspect:51`),
which is not modelled; the charge at the desk before its transaction commits
(`BdTuitionService:571`), which is modelled and which nothing in the code prevents;
the load from a MySQL that lags behind (`DomainLoaderFactory:114`) and the order that is
booked half way (`BsOrderService:119`), both modelled (see `DomainEngine` above) and
prevented by nothing; and `incr` without `expire` (`RedisService:94`), which leaves a counter behind for a
batch that `PayPipeline` already counts as lost.
