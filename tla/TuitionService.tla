--------------------------- MODULE TuitionService ---------------------------
(***************************************************************************)
(* The tuition payment core of the user service, for one student:          *)
(*   BdsTuitionService.payTuition       places a payment batch             *)
(*   BdsPaymentCallBackService.paySuccess  settles it, or refunds its cash *)
(*   AccountService.transMore / trans   moves the money of both            *)
(* Every method runs in one MySQL transaction (REPEATABLE READ: what it    *)
(* read stays, what it writes takes row locks until commit) on one dubbo   *)
(* worker thread.  The retained account is a row of ats_account; the zhimi *)
(* account lives in redis, outside that transaction, and ats_account only  *)
(* holds a copy of it that a task brings up to date later.                 *)
(* A bill is what payTuition computed for a batch (module Deduction).      *)
(***************************************************************************)
EXTENDS Integers, Sequences, FiniteSetsExt, SequencesExt

CONSTANTS
  Mark,            \* serialMark: the numbers of payment batches
  Item,            \* fee items (sub orders) of the student
  Coupon,          \* coupons of the student
  Thread,          \* worker threads of the user service
  Surplus,         \* the part of a bill that belongs to no item
  None,            \* no bill, no thread, no batch
  Bills,           \* the bills payTuition may compute
  OpeningRetained, \* retained balance (demurrage account) at the start
  OpeningZhimi,    \* zhimi balance at the start
  MaxRollback,     \* bound: callbacks tried after this many rollbacks of a batch
  Exclusive        \* TRUE: the callbacks of one batch never overlap

Part == Item \cup {Surplus}

\* One movement of an account: zhimi out, retained out, or cash back in.
Transfer == ({"zhimi"} \X Part) \cup ({"retained"} \X Item) \cup {<<"refund", Surplus>>}

ASSUME ServiceAssumption ==
  /\ Surplus \notin Item
  /\ None \notin Mark \cup Thread \cup Bills
  /\ IsFiniteSet(Mark) /\ IsFiniteSet(Item)
  /\ Bills \subseteq [items : SUBSET Item, coupons : SUBSET Coupon,
                      zhimi : [Part -> Nat], retained : [Item -> Nat], cash : Nat]
  /\ OpeningRetained \in Nat /\ OpeningZhimi \in Nat /\ MaxRollback \in Nat
  /\ Exclusive \in BOOLEAN

VARIABLES
  bill,        \* the bill of each batch (bd_student_serial, bd_sub_serial)
  serial,      \* serial_status of each batch
  paid,        \* items whose sub_order_status is '2'
  used,        \* coupons with is_use set
  account,     \* the retained balance, ats_account.acc_amount as committed
  lock,        \* the thread that holds the row lock on that account
  zhimi,       \* the zhimi balance in redis
  zhimiDb,     \* the copy of it in ats_account
  accountTask, \* zhimi amounts on their way to that copy
  booked,      \* account movements per batch (ats_account_serial)
  award,       \* recharge events pushed per batch
  rolls,       \* rolled back executions per batch
  exec         \* what each thread is doing

vars == <<bill, serial, paid, used, account, lock, zhimi, zhimiDb,
          accountTask, booked, award, rolls, exec>>

Idle == [pc |-> "idle", mark |-> None, plan |-> "none",
         todo |-> {}, made |-> {}, balance |-> 0]

Final == {"uncheck", "failed"}

Init ==
  /\ bill = [m \in Mark |-> None]
  /\ serial = [m \in Mark |-> "none"]
  /\ paid = {} /\ used = {}
  /\ account = OpeningRetained /\ lock = None
  /\ zhimi = OpeningZhimi /\ zhimiDb = OpeningZhimi
  /\ accountTask = << >>
  /\ booked = [m \in Mark |-> [x \in Transfer |-> 0]]
  /\ award = [m \in Mark |-> 0]
  /\ rolls = [m \in Mark |-> 0]
  /\ exec = [t \in Thread |-> Idle]

-----------------------------------------------------------------------------
\* Mutant: the refund does not clear the transfers collected before it.
ChargesKept(b, plan) ==
  (IF plan = "refund" THEN {<<"refund", Surplus>>} ELSE {})
  \cup {<<"zhimi", i>> : i \in {j \in Item : b.zhimi[j] > 0}}
  \cup {<<"retained", i>> : i \in {j \in Item : b.retained[j] > 0}}

\* The account movements an execution must make: payTuition (plan "deduct")
\* charges the surplus too, paySuccess only the sub serials.
Charges(b, plan) ==
  IF plan = "refund" THEN {<<"refund", Surplus>>}
  ELSE {<<"zhimi", p>> : p \in {q \in IF plan = "deduct" THEN Part ELSE Item : b.zhimi[q] > 0}}
       \cup {<<"retained", i>> : i \in {j \in Item : b.retained[j] > 0}}

Begin(t, m, plan) ==
  exec' = [exec EXCEPT ![t] = [pc |-> "write", mark |-> m, plan |-> plan,
                               todo |-> {}, made |-> {}, balance |-> 0]]

\* getOrder (E60039) and checkCoupons (E60043): read, never locked.
Orderable(b) == b.items \cap paid = {} /\ b.coupons \cap used = {}

\* Mutant: payTuition settles whatever is left to pay.
AlwaysDeducted(b) == TRUE

\* allPayable is 0: nothing is left to the third party.
FullyDeducted(b) == b.cash = 0

\* payTuition with cash left to pay: the batch waits for the third party and
\* nothing of it is reserved.
PayTuition(m, b) ==
  /\ bill[m] = None
  /\ ~FullyDeducted(b)
  /\ Orderable(b)
  /\ bill' = [bill EXCEPT ![m] = b]
  /\ serial' = [serial EXCEPT ![m] = "process"]
  /\ UNCHANGED <<paid, used, account, lock, zhimi, zhimiDb, accountTask, booked, award, rolls, exec>>

\* payTuition with everything deducted: it settles the batch itself.
PayTuitionDeducted(t, m, b) ==
  /\ exec[t] = Idle
  /\ bill[m] = None
  /\ FullyDeducted(b)
  /\ Orderable(b)
  /\ bill' = [bill EXCEPT ![m] = b]
  /\ Begin(t, m, "deduct")
  /\ UNCHANGED <<serial, paid, used, account, lock, zhimi, zhimiDb, accountTask, booked, award, rolls>>

\* The checks of paySuccess, each sub serial by itself, on what its snapshot
\* holds: SOME coupon of the student is unused, the copy of the zhimi balance
\* and the retained balance cover the sub serial.
Available(b) ==
  /\ b.coupons # {} => used # Coupon
  /\ \A i \in Item : b.zhimi[i] > 0 => b.zhimi[i] <= zhimiDb
  /\ \A i \in Item : b.retained[i] > 0 => b.retained[i] <= account

\* Mutant: a batch that is final is taken for one that still waits.
Placed(m) == serial[m] # "none"

\* selectExistFinishedSerial finds nothing: no serial of the batch left status '1'.
Unfinished(m) == serial[m] = "process"

\* paySuccess up to its first write.  A batch that is already final is a
\* repeated callback and changes nothing.
PaySuccess(t, m) ==
  /\ exec[t] = Idle
  /\ Unfinished(m)
  /\ rolls[m] < MaxRollback
  /\ Exclusive => \A u \in Thread : exec[u].mark # m
  /\ Begin(t, m, IF Available(bill[m]) THEN "settle" ELSE "refund")
  /\ UNCHANGED <<bill, serial, paid, used, account, lock, zhimi, zhimiDb, accountTask, booked, award, rolls>>

\* Two executions write a common row: a serial of one batch, a coupon, a sub order.
Collide(t, u) ==
  LET a == bill[exec[t].mark]  b == bill[exec[u].mark]
  IN  \/ exec[t].mark = exec[u].mark
      \/ /\ "refund" \notin {exec[t].plan, exec[u].plan}
         /\ a.items \cap b.items # {} \/ a.coupons \cap b.coupons # {}

\* updateCouponUsed, updateSerialStatus, updateSubOrderStatus: the rows are
\* written, and stay locked until the transaction ends.
WriteRows(t) ==
  /\ exec[t].pc = "write"
  /\ \A u \in Thread \ {t} : exec[u].pc \in {"trans", "commit"} => ~Collide(t, u)
  /\ exec' = [exec EXCEPT ![t].pc = "trans",
                          ![t].todo = Charges(bill[exec[t].mark], exec[t].plan)]
  /\ UNCHANGED <<bill, serial, paid, used, account, lock, zhimi, zhimiDb, accountTask, booked, award, rolls>>

\* Mutant: a command that worked may be sent again.
TransferZhimiRetried(t, p) ==
  LET m == exec[t].mark  x == <<"zhimi", p>>
  IN  /\ exec[t].pc = "trans" /\ x \in exec[t].todo
      /\ bill[m].zhimi[p] <= zhimi
      /\ zhimi' = zhimi - bill[m].zhimi[p]
      /\ accountTask' = Append(accountTask, bill[m].zhimi[p])
      /\ booked' = [booked EXCEPT ![m][x] = @ + 1]
      /\ exec' \in {exec, [exec EXCEPT ![t].todo = @ \ {x}, ![t].made = @ \cup {x}]}
      /\ UNCHANGED <<bill, serial, paid, used, account, lock, zhimiDb, award, rolls>>

\* AccountService.trans on zhimi: one redis command, at once and for good.
\* Too small a balance or a WATCH conflict (module DomainEngine) raises an exception that
\* RedisExecutor.execute swallows: nothing is deducted and trans goes on.
TransferZhimi(t, p) ==
  LET m == exec[t].mark  x == <<"zhimi", p>>
  IN  /\ exec[t].pc = "trans" /\ x \in exec[t].todo
      /\ \/ /\ bill[m].zhimi[p] <= zhimi
            /\ zhimi' = zhimi - bill[m].zhimi[p]
            /\ accountTask' = Append(accountTask, bill[m].zhimi[p])
            /\ booked' = [booked EXCEPT ![m][x] = @ + 1]
            /\ exec' = [exec EXCEPT ![t].todo = @ \ {x}, ![t].made = @ \cup {x}]
         \/ /\ exec' = [exec EXCEPT ![t].todo = @ \ {x}]
            /\ UNCHANGED <<zhimi, accountTask, booked>>
      /\ UNCHANGED <<bill, serial, paid, used, account, lock, zhimiDb, award, rolls>>

\* Mutant: the balance is the one last committed, not the one just written.
StaleBalance(t) == account

\* The balance thread t sees once it has the row: its own uncommitted one, or
\* the last committed one.
Balance(t) == IF lock = t THEN exec[t].balance ELSE account

\* Mutant: the account row stays locked.
RollBackLocked(t) ==
  /\ UNCHANGED lock
  /\ rolls' = [rolls EXCEPT ![exec[t].mark] = @ + 1]
  /\ exec' = [exec EXCEPT ![t] = Idle]

\* Mutant: the exception is noted, and the execution goes on.
RollBackIgnored(t) ==
  /\ rolls' = [rolls EXCEPT ![exec[t].mark] = @ + 1]
  /\ exec' = [exec EXCEPT ![t].pc = "trans", ![t].todo = {}]
  /\ UNCHANGED lock

\* The transaction ends with nothing of it in the database.
RollBack(t) ==
  /\ lock' = IF lock = t THEN None ELSE lock
  /\ rolls' = [rolls EXCEPT ![exec[t].mark] = @ + 1]
  /\ exec' = [exec EXCEPT ![t] = Idle]

\* Mutant: the amount is compared with the balance before this execution.
CoveredBefore(t, amount) == amount <= account

\* E40005 is not raised.
Covered(t, amount) == amount <= Balance(t)

\* AccountService.trans on the retained account: getAccountForUpdate waits for
\* the row; E40005 rolls the whole transaction back.  Within one item the zhimi
\* sub serial comes first.
TransferRetained(t, i) ==
  LET b == bill[exec[t].mark]  x == <<"retained", i>>
  IN  /\ exec[t].pc = "trans" /\ x \in exec[t].todo
      /\ <<"zhimi", i>> \notin exec[t].todo
      /\ lock \in {None, t}
      /\ IF Covered(t, b.retained[i])
         THEN /\ lock' = t
              /\ exec' = [exec EXCEPT ![t].balance = Balance(t) - b.retained[i],
                                      ![t].todo = @ \ {x}, ![t].made = @ \cup {x}]
              /\ UNCHANGED rolls
         ELSE RollBack(t)
      /\ UNCHANGED <<bill, serial, paid, used, account, zhimi, zhimiDb, accountTask, booked, award>>

\* The refund of a failed batch: its cash enters the retained account.
TransferRefund(t) ==
  LET b == bill[exec[t].mark]  x == <<"refund", Surplus>>
  IN  /\ exec[t].pc = "trans" /\ x \in exec[t].todo
      /\ lock \in {None, t}
      /\ lock' = t
      /\ exec' = [exec EXCEPT ![t].balance = Balance(t) + b.cash,
                              ![t].todo = @ \ {x}, ![t].made = @ \cup {x}]
      /\ UNCHANGED <<bill, serial, paid, used, account, zhimi, zhimiDb, accountTask, booked, award, rolls>>

\* bindAndAward, on the settling and on the refunding path: the recharge event
\* is pushed to redis before the commit, unless the push fails, silently.
BindAndAward(t) ==
  /\ exec[t].pc = "trans" /\ exec[t].todo = {}
  /\ award' \in {award, [award EXCEPT ![exec[t].mark] = @ + 1]}
  /\ exec' = [exec EXCEPT ![t].pc = "commit"]
  /\ UNCHANGED <<bill, serial, paid, used, account, lock, zhimi, zhimiDb, accountTask, booked, rolls>>

\* Mutants: the refunding path pays the items too, the settling one forgets to.
PaysAlways(plan) == TRUE
PaysDeducted(plan) == plan = "deduct"

\* updateCouponUsed and updateSubOrderStatus belong to the settling paths.
Pays(plan) == plan # "refund"

\* The end of the transaction: everything the execution wrote appears at once.
Commit(t) ==
  LET e == exec[t]  m == e.mark  b == bill[m]
  IN  /\ e.pc = "commit"
      /\ serial' = [serial EXCEPT ![m] = IF e.plan = "refund" THEN "failed" ELSE "uncheck"]
      /\ paid' = IF Pays(e.plan) THEN paid \cup b.items ELSE paid
      /\ used' = IF Pays(e.plan) THEN used \cup b.coupons ELSE used
      /\ account' = Balance(t)
      /\ lock' = IF lock = t THEN None ELSE lock
      /\ booked' = [booked EXCEPT ![m] = [x \in Transfer |->
                      @[x] + IF x \in e.made /\ x[1] # "zhimi" THEN 1 ELSE 0]]
      /\ exec' = [exec EXCEPT ![t] = Idle]
      /\ UNCHANGED <<bill, zhimi, zhimiDb, accountTask, award, rolls>>

\* An exception, a deadlock victim, a crash of the service: the database
\* forgets the execution, redis does not.
Crash(t) ==
  /\ exec[t] # Idle
  /\ RollBack(t)
  /\ UNCHANGED <<bill, serial, paid, used, account, zhimi, zhimiDb, accountTask, booked, award>>

\* Mutant: the event carries the new balance instead of the change.
UpdateAccountAbsolute(k) ==
  /\ k \in 1 .. Len(accountTask)
  /\ zhimiDb' = zhimi
  /\ accountTask' = RemoveAt(accountTask, k)
  /\ UNCHANGED <<bill, serial, paid, used, account, lock, zhimi, booked, award, rolls, exec>>

\* UpdateAccountService: one zhimi event reaches ats_account; eight consumer
\* threads take them in any order.
UpdateAccount(k) ==
  /\ k \in 1 .. Len(accountTask)
  /\ zhimiDb' = zhimiDb - accountTask[k]
  /\ accountTask' = RemoveAt(accountTask, k)
  /\ UNCHANGED <<bill, serial, paid, used, account, lock, zhimi, booked, award, rolls, exec>>

\* What a running execution does next.
Work(t) ==
  \/ WriteRows(t)
  \/ \E p \in Part : TransferZhimi(t, p)
  \/ \E i \in Item : TransferRetained(t, i)
  \/ TransferRefund(t)
  \/ BindAndAward(t)
  \/ Commit(t)

Next ==
  \/ \E m \in Mark, b \in Bills : PayTuition(m, b)
  \/ \E t \in Thread, m \in Mark, b \in Bills : PayTuitionDeducted(t, m, b)
  \/ \E t \in Thread, m \in Mark : PaySuccess(t, m)
  \/ \E t \in Thread : Work(t) \/ Crash(t)
  \/ \E k \in 1 .. Len(accountTask) : UpdateAccount(k)

Spec == Init /\ [][Next]_vars

\* A running execution goes on: worker threads run, InnoDB serves lock waiters.
FairSpec == Spec /\ \A t \in Thread : WF_vars(Work(t))
-----------------------------------------------------------------------------
\* Types of the state.
TypeOK ==
  /\ bill \in [Mark -> Bills \cup {None}]
  /\ serial \in [Mark -> {"none", "process"} \cup Final]
  /\ paid \subseteq Item /\ used \subseteq Coupon
  /\ account \in Nat /\ lock \in Thread \cup {None}
  /\ zhimi \in Nat /\ zhimiDb \in Int /\ accountTask \in Seq(Nat)
  /\ booked \in [Mark -> [Transfer -> Nat]]
  /\ award \in [Mark -> Nat] /\ rolls \in [Mark -> Nat]
  /\ exec \in [Thread -> [pc : {"idle", "write", "trans", "commit"}, mark : Mark \cup {None},
                           plan : {"none", "deduct", "settle", "refund"},
                           todo : SUBSET Transfer, made : SUBSET Transfer, balance : Nat]]

\* A settled batch has its items paid and its coupons spent, whatever else the
\* other threads did meanwhile (paySuccess, updateSubOrderStatus).
SettledIsPaid ==
  \A m \in Mark : serial[m] = "uncheck" =>
    bill[m].items \subseteq paid /\ bill[m].coupons \subseteq used

\* An item is paid, and a coupon spent, only on behalf of some settled batch:
\* a batch that was refunded or rolled back leaves neither behind.
PaidIsBacked ==
  LET settled == {m \in Mark : serial[m] = "uncheck"}
  IN  /\ \A i \in paid : \E m \in settled : i \in bill[m].items
      /\ \A c \in used : \E m \in settled : c \in bill[m].coupons

\* The retained account moved exactly as the batch's status says: a settled
\* batch took each of its retained parts once, a failed one got its cash back
\* once and took nothing, any other batch moved nothing.
RetainedBookedOnce ==
  \A m \in Mark :
    /\ \A i \in Item : booked[m][<<"retained", i>>] =
         IF serial[m] = "uncheck" /\ bill[m].retained[i] > 0 THEN 1 ELSE 0
    /\ booked[m][<<"refund", Surplus>>] = IF serial[m] = "failed" THEN 1 ELSE 0

Running(m) == \E t \in Thread : exec[t].mark = m

\* Zhimi is outside the transaction, yet no batch takes a part of it more often
\* than it was settled, is being executed, or was rolled back; a refunded
\* batch that was never rolled back took none.
ZhimiOncePerAttempt ==
  \A m \in Mark, p \in Part :
    booked[m][<<"zhimi", p>>] <=
      rolls[m] + IF serial[m] = "uncheck" \/ Running(m) THEN 1 ELSE 0

\* The recharge event of a batch is pushed at most once per execution that was
\* not simply repeated: once for the final one and once for each rollback.
AwardOncePerAttempt ==
  \A m \in Mark :
    award[m] <= rolls[m] + IF serial[m] \in Final \/ Running(m) THEN 1 ELSE 0

\* What takes effect outside the transaction happens once per attempt.
OncePerAttempt == ZhimiOncePerAttempt /\ AwardOncePerAttempt

\* The retained balance is the opening one less what settled batches took plus
\* what failed batches got back: no interleaving loses or invents money.
RetainedConserved ==
  account = OpeningRetained + SumFunction([m \in Mark |->
    IF bill[m] = None THEN 0
    ELSE booked[m][<<"refund", Surplus>>] * bill[m].cash
         - SumFunction([i \in Item |-> booked[m][<<"retained", i>>] * bill[m].retained[i]])])

\* The zhimi of redis is the opening balance less the booked movements, and the
\* copy in ats_account lags behind it by the events still on their way.
ZhimiConserved ==
  /\ zhimi = OpeningZhimi - SumFunction([m \in Mark |->
       IF bill[m] = None THEN 0
       ELSE SumFunction([p \in Part |-> booked[m][<<"zhimi", p>>] * bill[m].zhimi[p]])])
  /\ zhimiDb = zhimi + SumFunction(accountTask)

\* A batch that is settled or refunded stays so: no late, repeated or
\* concurrent callback changes it again ("重复操作", paySuccess).
FinalIsFinal ==
  [][\A m \in Mark : serial[m] \in Final => serial'[m] = serial[m]]_vars

\* The abstract specification: to it a batch is placed, then at once settled or
\* refunded, with everything that belongs to it.  An order being executed is
\* not there yet.
Promise == INSTANCE TuitionPromise WITH
  bill <- [m \in Mark |-> IF serial[m] = "none" THEN None ELSE bill[m]],
  status <- serial

\* payTuition and paySuccess keep that promise, through all their steps,
\* locks, rollbacks and concurrent executions.
KeepsPromise == Promise!Spec

\* Every execution ends, committed or rolled back: the row locks of batches,
\* coupons and items and the account lock never leave threads waiting for ever.
ExecutionsEnd == \A t \in Thread : exec[t] # Idle ~> exec[t] = Idle

\* What the repository says of batches that overlap, refuted by the run
\* item_twice: E60039 "当前科目已缴清，请勿重复缴费", an item is paid once.
ItemPaidOnce ==
  \A m, n \in Mark : m # n /\ serial[m] = "uncheck" /\ serial[n] = "uncheck" =>
    bill[m].items \cap bill[n].items = {}
=============================================================================
