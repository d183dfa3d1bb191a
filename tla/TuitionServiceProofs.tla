------------------------- MODULE TuitionServiceProofs -----------------------
(* What the payment core guarantees for any number of batches, items, coupons *)
(* and threads, and for any bills.                                             *)
EXTENDS TuitionService, TLAPS

\* Movements inside the database transaction.
Ledger == ({"retained"} \X Item) \cup {<<"refund", Surplus>>}

\* A thread that is not idle executes a plan for a batch that has a bill.
Busy ==
  \A t \in Thread : exec[t] = Idle \/
    /\ exec[t].pc \in {"write", "trans", "commit"}
    /\ exec[t].plan \in {"deduct", "settle", "refund"}
    /\ exec[t].mark \in Mark /\ bill[exec[t].mark] \in Bills

\* A batch with a status has a bill.
Billed == \A m \in Mark : serial[m] # "none" => bill[m] \in Bills

\* An execution has made, or has still to make, exactly the movements of its
\* plan, and none is left when it commits.
MadeIsCharged ==
  \A t \in Thread :
    /\ exec[t].pc = "write" => exec[t].made = {}
    /\ exec[t].pc \in {"trans", "commit"} => \A x \in Ledger :
         x \in exec[t].made \cup exec[t].todo <=> x \in Charges(bill[exec[t].mark], exec[t].plan)
    /\ exec[t].pc = "commit" => exec[t].todo = {}

\* No two threads execute one batch.
Alone == \A t, u \in Thread : exec[t].mark = exec[u].mark /\ exec[t].mark # None => t = u

\* A batch that is being executed is not final.
Open ==
  \A t \in Thread : exec[t] # Idle =>
    serial[exec[t].mark] = IF exec[t].plan = "deduct" THEN "none" ELSE "process"

\* What holds where callbacks of one batch never overlap.
Apart == Exclusive => Alone /\ Open /\ RetainedBookedOnce /\ PaidIsBacked

\* The inductive invariant.
IInv == TypeOK /\ Busy /\ Billed /\ MadeIsCharged /\ SettledIsPaid /\ Apart

Exec == [pc : {"idle", "write", "trans", "commit"}, mark : Mark \cup {None},
         plan : {"none", "deduct", "settle", "refund"},
         todo : SUBSET Transfer, made : SUBSET Transfer, balance : Nat]

-----------------------------------------------------------------------------
\* What a bill holds.
LEMMA BillTypes ==
  ASSUME NEW b \in Bills
  PROVE  /\ b.items \subseteq Item /\ b.coupons \subseteq Coupon
         /\ b.zhimi \in [Part -> Nat] /\ b.retained \in [Item -> Nat] /\ b.cash \in Nat
         /\ b # None
BY ServiceAssumption

\* Movements of the database are movements, and not of zhimi.
LEMMA LedgerIsTransfer ==
  /\ \A x \in Transfer : x \in Ledger <=> x[1] # "zhimi"
  /\ Ledger \subseteq Transfer
  /\ \A i \in Item : <<"retained", i>> \in Ledger /\ <<"retained", i>> # <<"refund", Surplus>>
  /\ <<"refund", Surplus>> \in Ledger
  /\ \A p \in Part : <<"zhimi", p>> \in Transfer \ Ledger
BY DEF Ledger, Transfer

\* The movements of a plan.
LEMMA ChargeTypes ==
  ASSUME NEW b \in Bills, NEW plan
  PROVE  /\ Charges(b, plan) \subseteq Transfer
         /\ \A i \in Item : <<"retained", i>> \in Charges(b, plan) <=>
              plan # "refund" /\ b.retained[i] > 0
         /\ <<"refund", Surplus>> \in Charges(b, plan) <=> plan = "refund"
BY BillTypes DEF Charges, Transfer, Part

LEMMA IdleType == Idle \in Exec /\ Idle.pc = "idle" /\ Idle.mark = None /\ Idle.made = {}
BY DEF Idle, Exec

LEMMA InitHolds == Init => IInv
<1> SUFFICES ASSUME Init PROVE IInv
  OBVIOUS
<1>1. TypeOK
  BY ServiceAssumption, IdleType DEF Init, TypeOK, Exec, Final
<1>2. Busy /\ Billed /\ MadeIsCharged /\ SettledIsPaid
  BY IdleType DEF Init, Busy, Billed, MadeIsCharged, SettledIsPaid
<1>3. Alone /\ Open /\ PaidIsBacked
  BY IdleType DEF Init, Alone, Open, PaidIsBacked
<1>4. RetainedBookedOnce
  BY LedgerIsTransfer DEF Init, RetainedBookedOnce
<1>5. QED
  BY <1>1, <1>2, <1>3, <1>4 DEF IInv, Apart

-----------------------------------------------------------------------------
\* Thread t goes on with its execution, and nothing of it is committed.
LEMMA Kept ==
  ASSUME IInv, NEW t \in Thread, exec[t] # Idle,
         UNCHANGED <<bill, serial, paid, used>>,
         \A u \in Thread : u # t => exec'[u] = exec[u],
         exec'[t].pc \in {"write", "trans", "commit"},
         exec'[t].mark = exec[t].mark, exec'[t].plan = exec[t].plan,
         \A m \in Mark, x \in Ledger : booked'[m][x] = booked[m][x]
  PROVE  Busy' /\ Billed' /\ SettledIsPaid' /\ Apart'
<1>1. exec'[t] # Idle
  BY IdleType
<1>2. Busy'
  BY DEF IInv, Busy
<1>3. Billed' /\ SettledIsPaid'
  BY DEF IInv, Billed, SettledIsPaid
<1>4. Apart'
  <2> SUFFICES ASSUME Exclusive PROVE (Alone /\ Open /\ RetainedBookedOnce /\ PaidIsBacked)'
    BY DEF Apart
  <2>1. Alone /\ Open /\ RetainedBookedOnce /\ PaidIsBacked
    BY DEF IInv, Apart
  <2>2. \A u \in Thread : exec'[u].mark = exec[u].mark
    OBVIOUS
  <2>3. Alone'
    BY <2>1, <2>2 DEF Alone
  <2>4. Open'
    BY <2>1 DEF Open
  <2>5. RetainedBookedOnce'
    BY <2>1, LedgerIsTransfer DEF RetainedBookedOnce
  <2>6. PaidIsBacked'
    BY <2>1 DEF PaidIsBacked
  <2>7. QED
    BY <2>3, <2>4, <2>5, <2>6
<1>5. QED
  BY <1>2, <1>3, <1>4

\* Thread t ends its execution without a trace in the database.
LEMMA Ended ==
  ASSUME IInv, NEW t \in Thread, exec' = [exec EXCEPT ![t] = Idle],
         UNCHANGED <<bill, serial, paid, used, booked>>
  PROVE  Busy' /\ Billed' /\ MadeIsCharged' /\ SettledIsPaid' /\ Apart'
<1>1. exec'[t] = Idle /\ \A u \in Thread : u # t => exec'[u] = exec[u]
  BY DEF IInv, TypeOK
<1>2. Busy'
  BY <1>1 DEF IInv, Busy
<1>3. Billed' /\ SettledIsPaid'
  BY DEF IInv, Billed, SettledIsPaid
<1>4. MadeIsCharged'
  BY <1>1, IdleType DEF IInv, MadeIsCharged
<1>5. Apart'
  BY <1>1, IdleType DEF IInv, Apart, Alone, Open, RetainedBookedOnce, PaidIsBacked
<1>6. QED
  BY <1>2, <1>3, <1>4, <1>5

\* Thread t begins to execute a plan for a batch nobody executes.
LEMMA Started ==
  ASSUME IInv, NEW t \in Thread, NEW m \in Mark, NEW plan \in {"deduct", "settle", "refund"},
         exec[t] = Idle, Begin(t, m, plan), bill'[m] \in Bills,
         \A n \in Mark : serial[n] # "none" => bill'[n] = bill[n],
         \A u \in Thread : exec[u] # Idle => bill'[exec[u].mark] = bill[exec[u].mark],
         Exclusive => \A u \in Thread : exec[u].mark # m,
         serial[m] = IF plan = "deduct" THEN "none" ELSE "process",
         UNCHANGED <<serial, paid, used, booked>>
  PROVE  Busy' /\ Billed' /\ MadeIsCharged' /\ SettledIsPaid' /\ Apart' /\ exec' \in [Thread -> Exec]
<1>1. /\ exec'[t] = [pc |-> "write", mark |-> m, plan |-> plan, todo |-> {}, made |-> {}, balance |-> 0]
      /\ \A u \in Thread : u # t => exec'[u] = exec[u]
  BY DEF Begin, IInv, TypeOK
<1>2. /\ exec'[t].pc = "write" /\ exec'[t].mark = m /\ exec'[t].plan = plan /\ exec'[t].made = {}
      /\ exec'[t] \in Exec
  BY <1>1 DEF Exec
<1>3. Busy'
  BY <1>1, <1>2 DEF IInv, Busy
<1>4. Billed' /\ SettledIsPaid'
  BY DEF IInv, Billed, SettledIsPaid
<1>5. MadeIsCharged'
  <2>1. ASSUME NEW u \in Thread, u # t, exec[u].pc \in {"trans", "commit"}
        PROVE  bill'[exec[u].mark] = bill[exec[u].mark]
    BY <2>1, IdleType
  <2>2. QED
    BY <1>1, <1>2, <2>1 DEF IInv, MadeIsCharged
<1>6. Apart'
  <2> SUFFICES ASSUME Exclusive PROVE (Alone /\ Open /\ RetainedBookedOnce /\ PaidIsBacked)'
    BY DEF Apart
  <2>1. Alone /\ Open /\ RetainedBookedOnce /\ PaidIsBacked
    BY DEF IInv, Apart
  <2>2. Alone'
    BY <1>1, <1>2, <2>1 DEF Alone
  <2>3. Open'
    BY <1>1, <1>2, <2>1 DEF Open
  <2>4. RetainedBookedOnce'
    BY <2>1 DEF RetainedBookedOnce
  <2>5. PaidIsBacked'
    BY <2>1 DEF PaidIsBacked
  <2>6. QED
    BY <2>2, <2>3, <2>4, <2>5
<1>7. exec' \in [Thread -> Exec]
  BY <1>1, <1>2 DEF Begin, IInv, TypeOK, Exec
<1>8. QED
  BY <1>3, <1>4, <1>5, <1>6, <1>7

-----------------------------------------------------------------------------
\* A batch that is placed has had no bill, no status and no execution before.
LEMMA PayTuitionKeeps ==
  ASSUME NEW m \in Mark, NEW b \in Bills, IInv, PayTuition(m, b)
  PROVE  IInv'
<1>1. /\ bill[m] = None /\ bill' = [bill EXCEPT ![m] = b] /\ serial' = [serial EXCEPT ![m] = "process"]
      /\ UNCHANGED <<paid, used, account, lock, zhimi, zhimiDb, accountTask, booked, award, rolls, exec>>
  BY DEF PayTuition
<1>2. serial[m] = "none" /\ b # None /\ None \notin Bills
  BY <1>1, BillTypes, ServiceAssumption DEF IInv, Billed, TypeOK
<1>3. \A t \in Thread : exec[t] # Idle => exec[t].mark # m
  BY <1>1, <1>2 DEF IInv, Busy
<1>4. TypeOK'
  BY <1>1 DEF IInv, TypeOK
<1>5. Busy' /\ Billed'
  BY <1>1 DEF IInv, TypeOK, Busy, Billed
<1>6. MadeIsCharged'
  BY <1>1, <1>3, IdleType DEF IInv, TypeOK, Busy, MadeIsCharged
<1>7. SettledIsPaid'
  BY <1>1 DEF IInv, TypeOK, SettledIsPaid
<1>8. Apart'
  <2> SUFFICES ASSUME Exclusive PROVE (Alone /\ Open /\ RetainedBookedOnce /\ PaidIsBacked)'
    BY DEF Apart
  <2>1. Alone /\ Open /\ RetainedBookedOnce /\ PaidIsBacked
    BY DEF IInv, Apart
  <2>2. Alone'
    BY <1>1, <2>1 DEF Alone
  <2>3. Open'
    BY <1>1, <1>3, <2>1 DEF Open, IInv, TypeOK
  <2>4. RetainedBookedOnce'
    BY <1>1, <1>2, <2>1 DEF RetainedBookedOnce, IInv, TypeOK
  <2>5. PaidIsBacked'
    BY <1>1, <1>2, <2>1 DEF PaidIsBacked, IInv, TypeOK
  <2>6. QED
    BY <2>2, <2>3, <2>4, <2>5
<1>9. QED
  BY <1>4, <1>5, <1>6, <1>7, <1>8 DEF IInv

LEMMA PayTuitionDeductedKeeps ==
  ASSUME NEW t \in Thread, NEW m \in Mark, NEW b \in Bills, IInv, PayTuitionDeducted(t, m, b)
  PROVE  IInv'
<1>1. /\ exec[t] = Idle /\ bill[m] = None /\ bill' = [bill EXCEPT ![m] = b] /\ Begin(t, m, "deduct")
      /\ UNCHANGED <<serial, paid, used, account, lock, zhimi, zhimiDb, accountTask, booked, award, rolls>>
  BY DEF PayTuitionDeducted
<1>2. serial[m] = "none" /\ None \notin Bills
  BY <1>1, ServiceAssumption DEF IInv, Billed, TypeOK
<1>3. \A u \in Thread : exec[u].mark # m
  BY <1>1, <1>2, IdleType, ServiceAssumption DEF IInv, Busy
<1>4. bill'[m] = b /\ \A n \in Mark : n # m => bill'[n] = bill[n]
  BY <1>1 DEF IInv, TypeOK
<1>5. \A u \in Thread : exec[u] # Idle => bill'[exec[u].mark] = bill[exec[u].mark]
  BY <1>3, <1>4 DEF IInv, Busy
<1>6. Busy' /\ Billed' /\ MadeIsCharged' /\ SettledIsPaid' /\ Apart' /\ exec' \in [Thread -> Exec]
  BY <1>1, <1>2, <1>3, <1>4, <1>5, Started
<1>7. TypeOK'
  BY <1>1, <1>6 DEF IInv, TypeOK, Exec
<1>8. QED
  BY <1>6, <1>7 DEF IInv

LEMMA PaySuccessKeeps ==
  ASSUME NEW t \in Thread, NEW m \in Mark, IInv, PaySuccess(t, m)
  PROVE  IInv'
<1>1. PICK plan \in {"settle", "refund"} :
        /\ exec[t] = Idle /\ serial[m] = "process" /\ Begin(t, m, plan)
        /\ Exclusive => \A u \in Thread : exec[u].mark # m
        /\ UNCHANGED <<bill, serial, paid, used, account, lock, zhimi, zhimiDb, accountTask, booked, award, rolls>>
  BY DEF PaySuccess, Unfinished
<1>2. bill'[m] \in Bills
  BY <1>1 DEF IInv, Billed
<1>3. Busy' /\ Billed' /\ MadeIsCharged' /\ SettledIsPaid' /\ Apart' /\ exec' \in [Thread -> Exec]
  BY <1>1, <1>2, Started
<1>4. TypeOK'
  BY <1>1, <1>3 DEF IInv, TypeOK, Exec
<1>5. QED
  BY <1>3, <1>4 DEF IInv

\* A running execution: what the invariant says of it.
LEMMA RunningHasBill ==
  ASSUME IInv, NEW t \in Thread, exec[t].pc # "idle"
  PROVE  /\ exec[t] # Idle /\ exec[t] \in Exec
         /\ exec[t].mark \in Mark /\ bill[exec[t].mark] \in Bills
         /\ exec[t].plan \in {"deduct", "settle", "refund"}
BY IdleType DEF IInv, Busy, TypeOK, Exec

LEMMA WriteRowsKeeps ==
  ASSUME NEW t \in Thread, IInv, WriteRows(t)
  PROVE  IInv'
<1> DEFINE todo == Charges(bill[exec[t].mark], exec[t].plan)
<1>1. /\ exec[t].pc = "write"
      /\ exec' = [exec EXCEPT ![t].pc = "trans", ![t].todo = todo]
      /\ UNCHANGED <<bill, serial, paid, used, account, lock, zhimi, zhimiDb, accountTask, booked, award, rolls>>
  BY DEF WriteRows
<1>2. /\ exec[t] # Idle /\ exec[t] \in Exec
      /\ exec[t].mark \in Mark /\ bill[exec[t].mark] \in Bills
      /\ exec[t].made = {}
  BY <1>1, RunningHasBill DEF IInv, MadeIsCharged
<1>3. todo \subseteq Transfer
  BY <1>2, ChargeTypes
<1> HIDE DEF todo
<1>4. /\ exec'[t].pc = "trans" /\ exec'[t].mark = exec[t].mark /\ exec'[t].plan = exec[t].plan
      /\ exec'[t].todo = todo /\ exec'[t].made = {} /\ exec' \in [Thread -> Exec]
      /\ \A u \in Thread : u # t => exec'[u] = exec[u]
  BY <1>1, <1>2, <1>3 DEF IInv, TypeOK, Exec
<1>5. Busy' /\ Billed' /\ SettledIsPaid' /\ Apart'
  BY <1>1, <1>2, <1>4, Kept
<1>6. MadeIsCharged'
  BY <1>1, <1>4 DEF IInv, MadeIsCharged, todo
<1>7. TypeOK'
  BY <1>1, <1>4 DEF IInv, TypeOK, Exec
<1>8. QED
  BY <1>5, <1>6, <1>7 DEF IInv

\* Zhimi is booked at once, outside the ledger the transaction writes.
LEMMA TransferZhimiKeeps ==
  ASSUME NEW t \in Thread, NEW p \in Part, IInv, TransferZhimi(t, p)
  PROVE  IInv'
<1> DEFINE m == exec[t].mark
           x == <<"zhimi", p>>
<1>1. PICK made \in {exec[t].made, exec[t].made \cup {x}} :
        /\ exec[t].pc = "trans" /\ x \in exec[t].todo
        /\ exec' = [exec EXCEPT ![t].todo = @ \ {x}, ![t].made = made]
  <2>1. CASE exec' = [exec EXCEPT ![t].todo = @ \ {x}, ![t].made = @ \cup {x}]
    BY <2>1 DEF TransferZhimi
  <2>2. CASE exec' = [exec EXCEPT ![t].todo = @ \ {x}]
    <3>1. exec' = [exec EXCEPT ![t].todo = @ \ {x}, ![t].made = exec[t].made]
      BY <2>2 DEF IInv, TypeOK
    <3>2. QED
      BY <3>1 DEF TransferZhimi
  <2>3. QED
    BY <2>1, <2>2 DEF TransferZhimi
<1>2. /\ exec[t] # Idle /\ exec[t] \in Exec /\ m \in Mark /\ bill[m] \in Bills
      /\ bill[m].zhimi[p] \in Nat
  BY <1>1, RunningHasBill, BillTypes
<1>3. x \in Transfer \ Ledger
  BY LedgerIsTransfer
<1>4. /\ UNCHANGED <<bill, serial, paid, used, account, lock, zhimiDb, award, rolls>>
      /\ \/ /\ bill[m].zhimi[p] <= zhimi
            /\ zhimi' = zhimi - bill[m].zhimi[p]
            /\ accountTask' = Append(accountTask, bill[m].zhimi[p])
            /\ booked' = [booked EXCEPT ![m][x] = @ + 1]
         \/ UNCHANGED <<zhimi, accountTask, booked>>
  BY DEF TransferZhimi
<1> HIDE DEF m, x
<1>5. /\ exec'[t].pc = "trans" /\ exec'[t].mark = exec[t].mark /\ exec'[t].plan = exec[t].plan
      /\ exec'[t].todo = exec[t].todo \ {x} /\ exec'[t].made = made
      /\ exec' \in [Thread -> Exec]
      /\ \A u \in Thread : u # t => exec'[u] = exec[u]
  BY <1>1, <1>2, <1>3 DEF IInv, TypeOK, Exec
<1>6. /\ booked' \in [Mark -> [Transfer -> Nat]]
      /\ \A n \in Mark, y \in Ledger : booked'[n][y] = booked[n][y]
  <2>1. booked \in [Mark -> [Transfer -> Nat]] /\ Ledger \subseteq Transfer
    BY LedgerIsTransfer DEF IInv, TypeOK
  <2>2. CASE booked' = booked
    BY <2>1, <2>2
  <2>3. CASE booked' = [booked EXCEPT ![m][x] = @ + 1]
    BY <1>2, <1>3, <2>1, <2>3
  <2>4. QED
    BY <1>4, <2>2, <2>3
<1>7. Busy' /\ Billed' /\ SettledIsPaid' /\ Apart'
  BY <1>2, <1>4, <1>5, <1>6, Kept
<1>8. MadeIsCharged'
  BY <1>1, <1>3, <1>4, <1>5 DEF IInv, MadeIsCharged
<1>9. TypeOK'
  <2>1. zhimi' \in Nat /\ accountTask' \in Seq(Nat)
    <3>1. zhimi \in Nat /\ accountTask \in Seq(Nat)
      BY DEF IInv, TypeOK
    <3>2. CASE UNCHANGED <<zhimi, accountTask>>
      BY <3>1, <3>2
    <3>3. CASE /\ bill[m].zhimi[p] <= zhimi
               /\ zhimi' = zhimi - bill[m].zhimi[p]
               /\ accountTask' = Append(accountTask, bill[m].zhimi[p])
      BY <1>2, <3>1, <3>3
    <3>4. QED
      BY <1>4, <3>2, <3>3
  <2>2. QED
    BY <1>4, <1>5, <1>6, <2>1 DEF IInv, TypeOK, Exec
<1>10. QED
  BY <1>7, <1>8, <1>9 DEF IInv

\* An execution rolled back leaves only its count.
LEMMA RollBackKeeps ==
  ASSUME NEW t \in Thread, IInv, exec[t].pc # "idle", RollBack(t),
         UNCHANGED <<bill, serial, paid, used, account, zhimi, zhimiDb, accountTask, booked, award>>
  PROVE  IInv'
<1>1. exec' = [exec EXCEPT ![t] = Idle] /\ rolls' = [rolls EXCEPT ![exec[t].mark] = @ + 1]
      /\ lock' \in {lock, None}
  BY DEF RollBack
<1>2. Busy' /\ Billed' /\ MadeIsCharged' /\ SettledIsPaid' /\ Apart'
  BY <1>1, Ended
<1>3. exec' \in [Thread -> Exec] /\ rolls' \in [Mark -> Nat]
  BY <1>1, RunningHasBill, IdleType DEF IInv, TypeOK, Exec
<1>4. TypeOK'
  BY <1>1, <1>3 DEF IInv, TypeOK, Exec
<1>5. QED
  BY <1>2, <1>4 DEF IInv

\* A movement of the ledger, still uncommitted: from the things to do to the
\* things made.
Moves(t, x, balance) ==
  exec' = [exec EXCEPT ![t].balance = balance, ![t].todo = @ \ {x}, ![t].made = @ \cup {x}]

LEMMA Moved ==
  ASSUME IInv, NEW t \in Thread, NEW x, NEW balance, Moves(t, x, balance)
  PROVE  /\ exec'[t].pc = exec[t].pc /\ exec'[t].mark = exec[t].mark /\ exec'[t].plan = exec[t].plan
         /\ exec'[t].todo = exec[t].todo \ {x} /\ exec'[t].made = exec[t].made \cup {x}
         /\ exec'[t].balance = balance
         /\ \A u \in Thread : u # t => exec'[u] = exec[u]
         /\ x \in Transfer /\ balance \in Nat => exec' \in [Thread -> Exec]
<1> DEFINE moved == [exec[t] EXCEPT !.balance = balance, !.todo = @ \ {x}, !.made = @ \cup {x}]
<1>1. exec \in [Thread -> Exec] /\ exec[t] \in Exec
  BY DEF IInv, TypeOK, Exec
<1>2. exec' = [exec EXCEPT ![t] = moved]
  BY <1>1 DEF Exec, Moves
<1>3. /\ moved.pc = exec[t].pc /\ moved.mark = exec[t].mark /\ moved.plan = exec[t].plan
      /\ moved.todo = exec[t].todo \ {x} /\ moved.made = exec[t].made \cup {x}
      /\ moved.balance = balance
  BY <1>1 DEF Exec
<1>4. x \in Transfer /\ balance \in Nat => moved \in Exec
  BY <1>1 DEF Exec
<1> HIDE DEF moved
<1>5. exec'[t] = moved /\ \A u \in Thread : u # t => exec'[u] = exec[u]
  BY <1>1, <1>2
<1>6. moved \in Exec => exec' \in [Thread -> Exec]
  BY <1>1, <1>2
<1>7. QED
  BY Zenon, <1>3, <1>4, <1>5, <1>6

LEMMA MovementKeeps ==
  ASSUME NEW t \in Thread, NEW x \in Ledger, NEW balance \in Nat, IInv,
         exec[t].pc = "trans", x \in exec[t].todo, lock' = t, Moves(t, x, balance),
         UNCHANGED <<bill, serial, paid, used, account, zhimi, zhimiDb, accountTask, booked, award, rolls>>
  PROVE  IInv'
<1>1. exec[t] # Idle /\ exec[t] \in Exec
  BY RunningHasBill
<1>2. x \in Transfer
  BY LedgerIsTransfer
<1>3. /\ exec'[t].pc = "trans" /\ exec'[t].mark = exec[t].mark /\ exec'[t].plan = exec[t].plan
      /\ exec'[t].todo = exec[t].todo \ {x} /\ exec'[t].made = exec[t].made \cup {x}
      /\ exec' \in [Thread -> Exec]
      /\ \A u \in Thread : u # t => exec'[u] = exec[u]
  BY Zenon, <1>1, <1>2, Moved
<1>4. Busy' /\ Billed' /\ SettledIsPaid' /\ Apart'
  BY <1>1, <1>3, Kept
<1>5. MadeIsCharged'
  BY <1>3 DEF IInv, MadeIsCharged
<1>6. TypeOK'
  BY <1>3 DEF IInv, TypeOK, Exec
<1>7. QED
  BY <1>4, <1>5, <1>6 DEF IInv

\* The balance a thread sees is an amount.
LEMMA BalanceType == ASSUME IInv, NEW t \in Thread PROVE Balance(t) \in Nat
BY DEF IInv, TypeOK, Balance

LEMMA TransferRetainedKeeps ==
  ASSUME NEW t \in Thread, NEW i \in Item, IInv, TransferRetained(t, i)
  PROVE  IInv'
<1> DEFINE b == bill[exec[t].mark]
           x == <<"retained", i>>
<1>1. exec[t].pc = "trans" /\ x \in exec[t].todo
      /\ UNCHANGED <<bill, serial, paid, used, account, zhimi, zhimiDb, accountTask, booked, award>>
  BY DEF TransferRetained
<1>2. CASE Covered(t, b.retained[i])
  <2>1. /\ lock' = t /\ UNCHANGED rolls
        /\ exec' = [exec EXCEPT ![t].balance = Balance(t) - b.retained[i],
                                ![t].todo = @ \ {x}, ![t].made = @ \cup {x}]
    BY <1>2 DEF TransferRetained
  <2>2. Balance(t) - b.retained[i] \in Nat
    BY <1>1, <1>2, RunningHasBill, BillTypes, BalanceType DEF Covered
  <2>3. x \in Ledger
    BY LedgerIsTransfer
  <2> HIDE DEF x, b
  <2>4. QED
    BY Zenon, <1>1, <2>1, <2>2, <2>3, MovementKeeps DEF Moves
<1>3. CASE ~Covered(t, b.retained[i])
  <2>1. RollBack(t)
    BY <1>3 DEF TransferRetained
  <2>2. QED
    BY <1>1, <2>1, RollBackKeeps
<1>4. QED
  BY <1>2, <1>3

LEMMA TransferRefundKeeps ==
  ASSUME NEW t \in Thread, IInv, TransferRefund(t)
  PROVE  IInv'
<1> DEFINE b == bill[exec[t].mark]
           x == <<"refund", Surplus>>
<1>1. /\ exec[t].pc = "trans" /\ x \in exec[t].todo /\ lock' = t
      /\ exec' = [exec EXCEPT ![t].balance = Balance(t) + b.cash,
                              ![t].todo = @ \ {x}, ![t].made = @ \cup {x}]
      /\ UNCHANGED <<bill, serial, paid, used, account, zhimi, zhimiDb, accountTask, booked, award, rolls>>
  BY DEF TransferRefund
<1>2. Balance(t) + b.cash \in Nat
  BY <1>1, RunningHasBill, BillTypes, BalanceType
<1>3. x \in Ledger
  BY LedgerIsTransfer
<1> HIDE DEF x, b
<1>4. QED
  BY Zenon, <1>1, <1>2, <1>3, MovementKeeps DEF Moves

LEMMA BindAndAwardKeeps ==
  ASSUME NEW t \in Thread, IInv, BindAndAward(t)
  PROVE  IInv'
<1>1. /\ exec[t].pc = "trans" /\ exec[t].todo = {}
      /\ award' \in {award, [award EXCEPT ![exec[t].mark] = @ + 1]}
      /\ exec' = [exec EXCEPT ![t].pc = "commit"]
      /\ UNCHANGED <<bill, serial, paid, used, account, lock, zhimi, zhimiDb, accountTask, booked, rolls>>
  BY DEF BindAndAward
<1>2. exec[t] # Idle /\ exec[t] \in Exec /\ exec[t].mark \in Mark
  BY <1>1, RunningHasBill
<1>3. /\ exec'[t].pc = "commit" /\ exec'[t].mark = exec[t].mark /\ exec'[t].plan = exec[t].plan
      /\ exec'[t].todo = {} /\ exec'[t].made = exec[t].made
      /\ exec' \in [Thread -> Exec]
      /\ \A u \in Thread : u # t => exec'[u] = exec[u]
  BY <1>1, <1>2 DEF IInv, TypeOK, Exec
<1>4. Busy' /\ Billed' /\ SettledIsPaid' /\ Apart'
  BY <1>1, <1>2, <1>3, Kept
<1>5. MadeIsCharged'
  BY <1>1, <1>3 DEF IInv, MadeIsCharged
<1>6. award' \in [Mark -> Nat]
  <2>1. award \in [Mark -> Nat]
    BY DEF IInv, TypeOK
  <2>2. CASE award' = award
    BY <2>1, <2>2
  <2>3. CASE award' = [award EXCEPT ![exec[t].mark] = @ + 1]
    BY <1>2, <2>1, <2>3
  <2>4. QED
    BY <1>1, <2>2, <2>3
<1>7. TypeOK'
  BY <1>1, <1>3, <1>6 DEF IInv, TypeOK, Exec
<1>8. QED
  BY <1>4, <1>5, <1>7 DEF IInv

\* What a commit does to the batch and to the rest.
LEMMA Committed ==
  ASSUME NEW t \in Thread, IInv, Commit(t)
  PROVE  LET m == exec[t].mark  plan == exec[t].plan  b == bill[m] IN
         /\ exec[t].pc = "commit" /\ exec[t] # Idle /\ m \in Mark /\ b \in Bills
         /\ plan \in {"deduct", "settle", "refund"}
         /\ serial' = [serial EXCEPT ![m] = IF plan = "refund" THEN "failed" ELSE "uncheck"]
         /\ paid' = IF plan # "refund" THEN paid \cup b.items ELSE paid
         /\ used' = IF plan # "refund" THEN used \cup b.coupons ELSE used
         /\ exec' = [exec EXCEPT ![t] = Idle]
         /\ exec'[t] = Idle /\ \A u \in Thread : u # t => exec'[u] = exec[u]
         /\ account' \in Nat /\ lock' \in {lock, None}
         /\ UNCHANGED <<bill, zhimi, zhimiDb, accountTask, award, rolls>>
BY RunningHasBill, BalanceType DEF Commit, Pays, IInv, TypeOK

\* Every movement of the plan that belongs to the ledger is booked once more.
LEMMA CommittedLedger ==
  ASSUME NEW t \in Thread, IInv, Commit(t)
  PROVE  LET m == exec[t].mark IN
         /\ booked' \in [Mark -> [Transfer -> Nat]]
         /\ \A n \in Mark : n # m => booked'[n] = booked[n]
         /\ \A x \in Ledger : booked'[m][x] = booked[m][x]
              + IF x \in Charges(bill[m], exec[t].plan) THEN 1 ELSE 0
<1> DEFINE m == exec[t].mark
           new == [x \in Transfer |-> booked[m][x]
                     + IF x \in exec[t].made /\ x[1] # "zhimi" THEN 1 ELSE 0]
<1>1. booked' = [booked EXCEPT ![m] = new]
  BY DEF Commit
<1>2. m \in Mark /\ booked \in [Mark -> [Transfer -> Nat]]
  BY RunningHasBill DEF Commit, IInv, TypeOK
<1>3. new \in [Transfer -> Nat]
  BY <1>2
<1>4. ASSUME NEW x \in Ledger
      PROVE  new[x] = booked[m][x] + IF x \in Charges(bill[m], exec[t].plan) THEN 1 ELSE 0
  <2>1. x \in Transfer /\ x[1] # "zhimi"
    BY LedgerIsTransfer
  <2>2. x \in exec[t].made <=> x \in Charges(bill[m], exec[t].plan)
    BY DEF IInv, MadeIsCharged, Commit
  <2>3. QED
    BY <2>1, <2>2
<1> HIDE DEF new
<1>5. QED
  BY <1>1, <1>2, <1>3, <1>4

LEMMA CommitKeeps ==
  ASSUME NEW t \in Thread, IInv, Commit(t)
  PROVE  IInv'
<1> DEFINE m == exec[t].mark
           plan == exec[t].plan
           b == bill[m]
<1>1. /\ exec[t].pc = "commit" /\ exec[t] # Idle /\ m \in Mark /\ b \in Bills
      /\ plan \in {"deduct", "settle", "refund"}
      /\ serial' = [serial EXCEPT ![m] = IF plan = "refund" THEN "failed" ELSE "uncheck"]
      /\ paid' = IF plan # "refund" THEN paid \cup b.items ELSE paid
      /\ used' = IF plan # "refund" THEN used \cup b.coupons ELSE used
      /\ exec' = [exec EXCEPT ![t] = Idle]
      /\ exec'[t] = Idle /\ \A u \in Thread : u # t => exec'[u] = exec[u]
      /\ account' \in Nat /\ lock' \in {lock, None}
      /\ UNCHANGED <<bill, zhimi, zhimiDb, accountTask, award, rolls>>
  BY Committed
<1>2. /\ booked' \in [Mark -> [Transfer -> Nat]]
      /\ \A n \in Mark : n # m => booked'[n] = booked[n]
      /\ \A x \in Ledger : booked'[m][x] = booked[m][x] + IF x \in Charges(b, plan) THEN 1 ELSE 0
  BY CommittedLedger
<1>3. b.items \subseteq Item /\ b.coupons \subseteq Coupon /\ b.retained \in [Item -> Nat]
  BY <1>1, BillTypes
<1>4. serial \in [Mark -> {"none", "process"} \cup Final]
  BY DEF IInv, TypeOK
<1>5. /\ serial'[m] = IF plan = "refund" THEN "failed" ELSE "uncheck"
      /\ \A n \in Mark : n # m => serial'[n] = serial[n]
  BY <1>1, <1>4
<1>6. b = bill[m] /\ m = exec[t].mark /\ plan = exec[t].plan
  OBVIOUS
<1>7. MadeIsCharged'
  BY <1>1, IdleType DEF IInv, MadeIsCharged
<1> HIDE DEF m, plan, b
<1>8. Busy' /\ Billed'
  BY <1>1, <1>5, <1>6 DEF IInv, Busy, Billed
<1>9. SettledIsPaid'
  BY <1>1, <1>5, <1>6 DEF IInv, SettledIsPaid
<1>10. Apart'
  <2> SUFFICES ASSUME Exclusive PROVE (Alone /\ Open /\ RetainedBookedOnce /\ PaidIsBacked)'
    BY DEF Apart
  <2>1. Alone /\ Open /\ RetainedBookedOnce /\ PaidIsBacked
    BY DEF IInv, Apart
  <2>2. Alone'
    BY <1>1, <2>1, IdleType DEF Alone
  <2>3. \A u \in Thread : u # t /\ exec[u] # Idle => exec[u].mark \in Mark /\ exec[u].mark # m
    BY <1>6, <2>1, ServiceAssumption DEF Alone, IInv, Busy
  <2>4. Open'
    BY <1>1, <1>5, <2>1, <2>3 DEF Open
  <2>5. serial[m] \notin Final
    BY <1>1, <1>6, <2>1 DEF Open, Final
  <2>6. RetainedBookedOnce'
    <3>1. ASSUME NEW n \in Mark, n # m
          PROVE  /\ \A i \in Item : booked'[n][<<"retained", i>>] =
                      IF serial'[n] = "uncheck" /\ bill'[n].retained[i] > 0 THEN 1 ELSE 0
                 /\ booked'[n][<<"refund", Surplus>>] = IF serial'[n] = "failed" THEN 1 ELSE 0
      BY <1>1, <1>2, <1>5, <2>1, <3>1 DEF RetainedBookedOnce
    <3>2. /\ \A i \in Item : booked'[m][<<"retained", i>>] =
               IF serial'[m] = "uncheck" /\ bill'[m].retained[i] > 0 THEN 1 ELSE 0
          /\ booked'[m][<<"refund", Surplus>>] = IF serial'[m] = "failed" THEN 1 ELSE 0
      <4>1. /\ \A i \in Item : booked[m][<<"retained", i>>] = 0
            /\ booked[m][<<"refund", Surplus>>] = 0
        BY <1>1, <2>1, <2>5 DEF RetainedBookedOnce, Final
      <4>2. /\ \A i \in Item : <<"retained", i>> \in Charges(b, plan) <=> plan # "refund" /\ b.retained[i] > 0
            /\ <<"refund", Surplus>> \in Charges(b, plan) <=> plan = "refund"
        BY <1>1, ChargeTypes
      <4>3. /\ \A i \in Item : booked'[m][<<"retained", i>>] =
                 IF plan # "refund" /\ b.retained[i] > 0 THEN 1 ELSE 0
            /\ booked'[m][<<"refund", Surplus>>] = IF plan = "refund" THEN 1 ELSE 0
        BY <1>2, <4>1, <4>2, LedgerIsTransfer
      <4>4. QED
        BY <1>1, <1>5, <1>6, <4>3
    <3>3. QED
      BY <3>1, <3>2 DEF RetainedBookedOnce
  <2>7. PaidIsBacked'
    BY <1>1, <1>5, <1>6, <2>1, <2>5 DEF PaidIsBacked, Final
  <2>8. QED
    BY <2>2, <2>4, <2>6, <2>7
<1>11. TypeOK'
  <2>1. exec' \in [Thread -> Exec]
    BY <1>1, IdleType DEF IInv, TypeOK, Exec
  <2>2. serial' \in [Mark -> {"none", "process"} \cup Final]
    BY <1>1, <1>4 DEF Final
  <2>3. QED
    BY <1>1, <1>2, <1>3, <2>1, <2>2 DEF IInv, TypeOK, Exec
<1>12. QED
  BY <1>7, <1>8, <1>9, <1>10, <1>11 DEF IInv

LEMMA CrashKeeps ==
  ASSUME NEW t \in Thread, IInv, Crash(t)
  PROVE  IInv'
<1>1. exec[t].pc # "idle"
  BY DEF Crash, IInv, Busy
<1>2. QED
  BY <1>1, RollBackKeeps DEF Crash

\* The copy of the zhimi balance moves by an amount that was on its way.
LEMMA UpdateAccountKeeps ==
  ASSUME NEW k \in 1 .. Len(accountTask), IInv, UpdateAccount(k)
  PROVE  IInv'
<1>1. /\ zhimiDb' = zhimiDb - accountTask[k] /\ accountTask' = RemoveAt(accountTask, k)
      /\ UNCHANGED <<bill, serial, paid, used, account, lock, zhimi, booked, award, rolls, exec>>
  BY DEF UpdateAccount
<1>2. accountTask \in Seq(Nat) /\ zhimiDb \in Int
  BY DEF IInv, TypeOK
<1>3. accountTask' \in Seq(Nat)
  <2>1. SubSeq(accountTask, 1, k - 1) \in Seq(Nat) /\ SubSeq(accountTask, k + 1, Len(accountTask)) \in Seq(Nat)
    BY <1>2
  <2>2. QED
    BY <1>1, <2>1 DEF RemoveAt
<1>4. zhimiDb' \in Int
  BY <1>1, <1>2
<1>5. QED
  BY <1>1, <1>3, <1>4
     DEF IInv, TypeOK, Busy, Billed, MadeIsCharged, SettledIsPaid, Apart, Alone, Open,
         RetainedBookedOnce, PaidIsBacked

\* Every step keeps the invariant.
LEMMA NextKeeps == ASSUME IInv, [Next]_vars PROVE IInv'
<1>1. ASSUME NEW m \in Mark, NEW b \in Bills, PayTuition(m, b) PROVE IInv'
  BY <1>1, PayTuitionKeeps
<1>2. ASSUME NEW t \in Thread, NEW m \in Mark, NEW b \in Bills, PayTuitionDeducted(t, m, b) PROVE IInv'
  BY <1>2, PayTuitionDeductedKeeps
<1>3. ASSUME NEW t \in Thread, NEW m \in Mark, PaySuccess(t, m) PROVE IInv'
  BY <1>3, PaySuccessKeeps
<1>4. ASSUME NEW t \in Thread, Work(t) PROVE IInv'
  BY <1>4, WriteRowsKeeps, TransferZhimiKeeps, TransferRetainedKeeps, TransferRefundKeeps,
     BindAndAwardKeeps, CommitKeeps DEF Work
<1>5. ASSUME NEW t \in Thread, Crash(t) PROVE IInv'
  BY <1>5, CrashKeeps
<1>6. ASSUME NEW k \in 1 .. Len(accountTask), UpdateAccount(k) PROVE IInv'
  BY <1>6, UpdateAccountKeeps
<1>7. CASE UNCHANGED vars
  BY <1>7 DEF vars, IInv, TypeOK, Busy, Billed, MadeIsCharged, SettledIsPaid, Apart, Alone, Open,
              RetainedBookedOnce, PaidIsBacked
<1>8. QED
  BY <1>1, <1>2, <1>3, <1>4, <1>5, <1>6, <1>7 DEF Next

LEMMA Invariance == Spec => []IInv
<1>1. IInv /\ [Next]_vars => IInv'
  BY NextKeeps
<1>2. QED
  BY InitHolds, <1>1, PTL DEF Spec

-----------------------------------------------------------------------------
\* Balances never go below nothing, and no execution is without a batch and a
\* plan, whatever the threads do (E40005, getAccountForUpdate).
THEOREM TypeCorrect == Spec => []TypeOK
<1>1. IInv => TypeOK
  BY DEF IInv
<1>2. QED
  BY Invariance, <1>1, PTL

\* A settled batch has its items paid and its coupons spent, even where
\* callbacks of one batch overlap (paySuccess).
THEOREM Settled == Spec => []SettledIsPaid
<1>1. IInv => SettledIsPaid
  BY DEF IInv
<1>2. QED
  BY Invariance, <1>1, PTL

\* Where callbacks of one batch never overlap, its retained parts and its refund
\* are booked exactly as its status says, once each (transMore, refundAmount).
THEOREM BookedOnce == ASSUME Exclusive PROVE Spec => []RetainedBookedOnce
<1>1. IInv => RetainedBookedOnce
  BY DEF IInv, Apart
<1>2. QED
  BY Invariance, <1>1, PTL

\* Likewise nothing is paid or spent but for a settled batch.
THEOREM PaidBacked == ASSUME Exclusive PROVE Spec => []PaidIsBacked
<1>1. IInv => PaidIsBacked
  BY DEF IInv, Apart
<1>2. QED
  BY Invariance, <1>1, PTL

\* Only payTuition and the end of an execution touch what is committed.
LEMMA WhoSettles ==
  ASSUME [Next]_vars
  PROVE  \/ \E m \in Mark, b \in Bills : PayTuition(m, b)
         \/ \E t \in Thread, m \in Mark, b \in Bills :
              PayTuitionDeducted(t, m, b) /\ UNCHANGED <<serial, paid, used, account>>
         \/ \E t \in Thread : Commit(t)
         \/ UNCHANGED <<bill, serial, paid, used, account>>
<1> DEFINE Still == UNCHANGED <<bill, serial, paid, used, account>>
<1>1. ASSUME NEW t, NEW m, NEW b, PayTuitionDeducted(t, m, b) PROVE UNCHANGED <<serial, paid, used, account>>
  BY <1>1 DEF PayTuitionDeducted
<1>2. ASSUME NEW t, NEW m, PaySuccess(t, m) PROVE Still
  BY <1>2 DEF PaySuccess
<1>3. ASSUME NEW t, Work(t) PROVE Commit(t) \/ Still
  <2>1. ASSUME WriteRows(t) PROVE Still
    BY <2>1 DEF WriteRows, RollBack
  <2>2. ASSUME NEW q, TransferZhimi(t, q) PROVE Still
    BY <2>2 DEF TransferZhimi
  <2>3. ASSUME NEW i, TransferRetained(t, i) PROVE Still
    BY <2>3 DEF TransferRetained, RollBack
  <2>4. ASSUME TransferRefund(t) \/ BindAndAward(t) PROVE Still
    BY <2>4 DEF TransferRefund, BindAndAward
  <2>5. QED
    BY Zenon, <1>3, <2>1, <2>2, <2>3, <2>4 DEF Work
<1>4. ASSUME NEW t, Crash(t) PROVE Still
  BY <1>4 DEF Crash
<1>5. ASSUME NEW k, UpdateAccount(k) PROVE Still
  BY <1>5 DEF UpdateAccount
<1>6. CASE UNCHANGED vars
  BY <1>6 DEF vars
<1>7. CASE Next
  <2> HIDE DEF Still
  <2>1. QED
    BY Zenon, <1>1, <1>2, <1>3, <1>4, <1>5, <1>7 DEF Next, Still
<1>8. QED
  BY Zenon, <1>6, <1>7

\* Likewise a final batch stays final: the check for a repeated callback
\* (selectExistFinishedSerial) is enough, though it takes no lock.
THEOREM FinalForGood == ASSUME Exclusive PROVE Spec => FinalIsFinal
<1> DEFINE Stays == \A m \in Mark : serial[m] \in Final => serial'[m] = serial[m]
<1>1. ASSUME IInv, [Next]_vars PROVE [Stays]_vars
  <2>1. ASSUME NEW m \in Mark, NEW b \in Bills, PayTuition(m, b) PROVE Stays
    <3>1. bill[m] = None /\ serial' = [serial EXCEPT ![m] = "process"]
      BY <2>1 DEF PayTuition
    <3>2. serial[m] = "none"
      BY <1>1, <3>1, ServiceAssumption DEF IInv, Billed
    <3>3. QED
      BY <1>1, <3>1, <3>2 DEF IInv, TypeOK, Final
  <2>2. ASSUME NEW t \in Thread, Commit(t) PROVE Stays
    <3>1. serial[exec[t].mark] \notin Final /\ exec[t].mark \in Mark
      BY <1>1, <2>2, RunningHasBill DEF IInv, Apart, Open, Commit, Final
    <3>2. \A m \in Mark : m # exec[t].mark => serial'[m] = serial[m]
      BY <1>1, <2>2 DEF Commit, IInv, TypeOK
    <3>3. QED
      BY <3>1, <3>2
  <2>3. CASE UNCHANGED serial
    BY <2>3
  <2>4. CASE UNCHANGED vars
    BY <2>4
  <2>5. QED
    BY Zenon, <1>1, <2>1, <2>2, <2>3, <2>4, WhoSettles
<1>2. [][Stays]_vars => FinalIsFinal
  BY DEF FinalIsFinal
<1> HIDE DEF Stays
<1>3. QED
  BY <1>1, <1>2, Invariance, PTL DEF Spec

-----------------------------------------------------------------------------
\* What the payment core does outside its database transaction, and so cannot
\* take back: zhimi commands and recharge events, counted per attempt.
Zhimi(p) == <<"zhimi", p>>

\* An execution that may have taken the zhimi of a part.
TookZhimi(e, p) ==
  e.pc \in {"trans", "commit"} /\ e.plan # "refund" /\ Zhimi(p) \notin e.todo

\* Zhimi of a batch that no rollback accounts for were taken by the execution
\* that settled it, or by one that runs.
ZhimiOf(m) ==
  \A p \in Part :
    /\ booked[m][Zhimi(p)] <= rolls[m] + 1
    /\ booked[m][Zhimi(p)] > rolls[m] =>
         serial[m] = "uncheck" \/ \E t \in Thread : exec[t].mark = m /\ TookZhimi(exec[t], p)

\* Likewise the recharge event of a batch.
AwardOf(m) ==
  /\ award[m] <= rolls[m] + 1
  /\ award[m] > rolls[m] =>
       serial[m] \in Final \/ \E t \in Thread : exec[t].mark = m /\ exec[t].pc = "commit"

\* A refund takes no zhimi.
RefundTakesNone ==
  \A t \in Thread, p \in Part : exec[t].plan = "refund" => Zhimi(p) \notin exec[t].todo

Attempts == RefundTakesNone /\ \A m \in Mark : ZhimiOf(m) /\ AwardOf(m)

-----------------------------------------------------------------------------
\* Nothing was attempted at the start.
LEMMA NothingAttempted == Init => Attempts
<1> SUFFICES ASSUME Init PROVE Attempts
  OBVIOUS
<1>1. RefundTakesNone
  BY DEF Init, RefundTakesNone, Idle
<1>2. ASSUME NEW m \in Mark, NEW p \in Part
      PROVE  booked[m][Zhimi(p)] = 0 /\ rolls[m] = 0 /\ award[m] = 0
  BY LedgerIsTransfer DEF Init, Zhimi
<1>3. ASSUME NEW m \in Mark PROVE ZhimiOf(m)
  BY <1>2 DEF ZhimiOf
<1>4. ASSUME NEW m \in Mark PROVE AwardOf(m)
  BY DEF Init, AwardOf
<1> QED
  BY <1>1, <1>3, <1>4 DEF Attempts

\* The counters are numbers.
LEMMA CounterTypes ==
  ASSUME IInv, NEW m \in Mark
  PROVE  /\ rolls[m] \in Nat /\ award[m] \in Nat
         /\ \A p \in Part : booked[m][Zhimi(p)] \in Nat
BY LedgerIsTransfer DEF IInv, TypeOK, Zhimi

\* A batch that is being executed is executed by one thread, and is not final.
LEMMA OnlyMine ==
  ASSUME IInv, Exclusive, NEW t \in Thread, exec[t].pc # "idle"
  PROVE  /\ exec[t].mark \in Mark
         /\ \A u \in Thread : exec[u].mark = exec[t].mark => u = t
         /\ serial[exec[t].mark] \notin Final
<1>1. exec[t] # Idle /\ exec[t].mark \in Mark
  BY RunningHasBill
<1>2. exec[t].mark # None
  BY <1>1, ServiceAssumption
<1> QED
  BY <1>1, <1>2 DEF IInv, Apart, Alone, Open, Final

\* A step of one thread leaves the attempts of all batches but its own alone.
LEMMA OwnBatchOnly ==
  ASSUME Attempts, NEW t \in Thread, exec[t].mark \in Mark,
         \A u \in Thread : u # t => exec'[u] = exec[u],
         exec'[t].mark \in {exec[t].mark, None},
         \A m \in Mark : m # exec[t].mark =>
           UNCHANGED <<booked[m], rolls[m], award[m], serial[m]>>,
         \A p \in Part : exec'[t].plan = "refund" => Zhimi(p) \notin exec'[t].todo,
         \A m \in Mark : m = exec[t].mark => (ZhimiOf(m) /\ AwardOf(m))'
  PROVE  Attempts'
<1>1. RefundTakesNone'
  BY DEF Attempts, RefundTakesNone
<1>2. ASSUME NEW m \in Mark, m # exec[t].mark
      PROVE  (ZhimiOf(m) /\ AwardOf(m))'
  <2>1. ZhimiOf(m) /\ AwardOf(m)
    BY DEF Attempts
  <2>2. \A u \in Thread : exec[u].mark = m => exec'[u] = exec[u]
    BY <1>2
  <2>3. ZhimiOf(m)'
    <3>1. ASSUME NEW p \in Part, NEW u \in Thread, exec[u].mark = m, TookZhimi(exec[u], p)
          PROVE  exec'[u].mark = m /\ TookZhimi(exec'[u], p)
      BY <2>2, <3>1
    <3> QED
      BY <1>2, <2>1, <3>1 DEF ZhimiOf
  <2>4. AwardOf(m)'
    BY <1>2, <2>1, <2>2 DEF AwardOf
  <2> QED
    BY <2>3, <2>4
<1> QED
  BY <1>1, <1>2 DEF Attempts

\* A step that leaves the counters and the statuses alone, and goes on with an
\* execution without forgetting what it took.
LEMMA GoesOn ==
  ASSUME Attempts, NEW t \in Thread,
         UNCHANGED <<booked, rolls, award>>,
         \A m \in Mark : serial'[m] = serial[m] \/ serial[m] \notin Final,
         \A u \in Thread : u # t => exec'[u] = exec[u],
         \A p \in Part : exec'[t].plan = "refund" => Zhimi(p) \notin exec'[t].todo,
         exec[t].pc \in {"trans", "commit"} => exec'[t].mark = exec[t].mark,
         \A p \in Part : TookZhimi(exec[t], p) => TookZhimi(exec'[t], p),
         exec[t].pc = "commit" => exec'[t].pc = "commit"
  PROVE  Attempts'
<1>1. RefundTakesNone'
  BY DEF Attempts, RefundTakesNone
<1>2. ASSUME NEW m \in Mark PROVE (ZhimiOf(m) /\ AwardOf(m))'
  <2>1. ZhimiOf(m) /\ AwardOf(m)
    BY DEF Attempts
  <2>2. ASSUME NEW p \in Part, NEW u \in Thread, exec[u].mark = m, TookZhimi(exec[u], p)
        PROVE  exec'[u].mark = m /\ TookZhimi(exec'[u], p)
    <3>1. CASE u = t
      BY <2>2, <3>1 DEF TookZhimi
    <3>2. CASE u # t
      BY <2>2, <3>2
    <3> QED
      BY <3>1, <3>2
  <2>3. serial[m] \in Final => serial'[m] = serial[m]
    OBVIOUS
  <2>4. serial[m] = "uncheck" => serial'[m] = "uncheck"
    BY <2>3 DEF Final
  <2>5. ZhimiOf(m)'
    BY <2>1, <2>2, <2>4 DEF ZhimiOf
  <2>6. ASSUME NEW u \in Thread, exec[u].mark = m, exec[u].pc = "commit"
        PROVE  exec'[u].mark = m /\ exec'[u].pc = "commit"
    <3>1. CASE u = t
      BY <2>6, <3>1
    <3>2. CASE u # t
      BY <2>6, <3>2
    <3> QED
      BY <3>1, <3>2
  <2>7. AwardOf(m)'
    BY <2>1, <2>3, <2>6 DEF AwardOf
  <2> QED
    BY <2>5, <2>7
<1> QED
  BY <1>1, <1>2 DEF Attempts

\* Nothing is executed: a batch is placed, or an event reaches the copy.
LEMMA NothingExecuted ==
  ASSUME Attempts, UNCHANGED <<exec, booked, rolls, award>>,
         \A m \in Mark : serial'[m] = serial[m] \/ serial[m] \notin Final
  PROVE  Attempts'
BY DEF Attempts, RefundTakesNone, ZhimiOf, AwardOf, Final, TookZhimi

\* A rollback is counted, and accounts for what the execution took.
LEMMA RollBackAttempts ==
  ASSUME IInv, Exclusive, Attempts, NEW t \in Thread, exec[t].pc # "idle", RollBack(t),
         UNCHANGED <<serial, booked, award>>
  PROVE  Attempts'
<1> PICK n : n = exec[t].mark
  OBVIOUS
<1>1. n \in Mark /\ \A u \in Thread : exec[u].mark = n => u = t
  BY OnlyMine
<1>2. /\ exec'[t] = Idle /\ \A u \in Thread : u # t => exec'[u] = exec[u]
      /\ rolls'[n] = rolls[n] + 1 /\ \A m \in Mark : m # n => rolls'[m] = rolls[m]
  BY <1>1 DEF RollBack, IInv, TypeOK
<1>3. ZhimiOf(n) /\ AwardOf(n)
  BY <1>1 DEF Attempts
<1>4. ZhimiOf(n)'
  BY <1>1, <1>2, <1>3, CounterTypes DEF ZhimiOf
<1>5. AwardOf(n)'
  BY <1>1, <1>2, <1>3, CounterTypes DEF AwardOf
<1>6. Idle.mark = None /\ Idle.todo = {}
  BY DEF Idle
<1> QED
  BY <1>1, <1>2, <1>4, <1>5, <1>6, OwnBatchOnly

\* The execution takes its row locks and what it has to do.
LEMMA WriteRowsAttempts ==
  ASSUME IInv, Attempts, NEW t \in Thread, WriteRows(t)
  PROVE  Attempts'
<1> DEFINE todo == Charges(bill[exec[t].mark], exec[t].plan)
<1>1. /\ exec[t].pc = "write"
      /\ exec' = [exec EXCEPT ![t].pc = "trans", ![t].todo = todo]
      /\ UNCHANGED <<serial, booked, award, rolls>>
  BY DEF WriteRows
<1>2. \A p \in Part : exec[t].plan = "refund" => Zhimi(p) \notin todo
  BY DEF Charges, Zhimi
<1> HIDE DEF todo
<1>3. /\ exec'[t].plan = exec[t].plan /\ exec'[t].todo = todo
      /\ \A u \in Thread : u # t => exec'[u] = exec[u]
  BY <1>1 DEF IInv, TypeOK, Exec
<1>4. \A p \in Part : ~TookZhimi(exec[t], p)
  BY <1>1 DEF TookZhimi
<1> QED
  BY <1>1, <1>2, <1>3, <1>4, GoesOn

\* A movement is done with, other than by taking zhimi.
LEMMA MovementAttempts ==
  ASSUME IInv, Attempts, NEW t \in Thread, NEW x, NEW made, NEW balance,
         exec[t].pc = "trans",
         exec' = [exec EXCEPT ![t].balance = balance, ![t].todo = @ \ {x}, ![t].made = made],
         UNCHANGED <<serial, booked, award, rolls>>
  PROVE  Attempts'
<1>1. /\ exec'[t].pc = "trans" /\ exec'[t].mark = exec[t].mark /\ exec'[t].plan = exec[t].plan
      /\ exec'[t].todo = exec[t].todo \ {x}
      /\ \A u \in Thread : u # t => exec'[u] = exec[u]
  BY DEF IInv, TypeOK, Exec
<1>2. \A p \in Part : exec'[t].plan = "refund" => Zhimi(p) \notin exec'[t].todo
  BY <1>1 DEF Attempts, RefundTakesNone
<1>3. \A p \in Part : TookZhimi(exec[t], p) => TookZhimi(exec'[t], p)
  BY <1>1 DEF TookZhimi
<1> QED
  BY <1>1, <1>2, <1>3, GoesOn

\* Zhimi are taken once by one execution.
LEMMA TransferZhimiAttempts ==
  ASSUME IInv, Exclusive, Attempts, NEW t \in Thread, NEW p \in Part, TransferZhimi(t, p)
  PROVE  Attempts'
<1> PICK n : n = exec[t].mark
  OBVIOUS
<1>1. /\ exec[t].pc = "trans" /\ Zhimi(p) \in exec[t].todo
      /\ UNCHANGED <<serial, award, rolls>>
  BY DEF TransferZhimi, Zhimi
<1>2. /\ n \in Mark /\ \A u \in Thread : exec[u].mark = n => u = t
      /\ serial[n] \notin Final
  BY <1>1, OnlyMine
<1>3. CASE /\ exec' = [exec EXCEPT ![t].todo = @ \ {Zhimi(p)}]
           /\ UNCHANGED booked
  <2>1. exec' = [exec EXCEPT ![t].balance = exec[t].balance, ![t].todo = @ \ {Zhimi(p)},
                             ![t].made = exec[t].made]
    BY <1>3 DEF IInv, TypeOK, Exec
  <2>2. exec[t].pc = "trans" /\ UNCHANGED <<serial, booked, award, rolls>>
    BY <1>1, <1>3
  <2> QED
    BY <2>1, <2>2, MovementAttempts, Zenon
<1>4. CASE /\ booked' = [booked EXCEPT ![n][Zhimi(p)] = @ + 1]
           /\ exec' = [exec EXCEPT ![t].todo = @ \ {Zhimi(p)}, ![t].made = @ \cup {Zhimi(p)}]
  <2>1. /\ exec'[t].pc = "trans" /\ exec'[t].mark = n /\ exec'[t].plan = exec[t].plan
        /\ exec'[t].todo = exec[t].todo \ {Zhimi(p)}
        /\ \A u \in Thread : u # t => exec'[u] = exec[u]
    BY <1>1, <1>4 DEF IInv, TypeOK, Exec
  <2>2. Zhimi(p) \in Transfer /\ booked \in [Mark -> [Transfer -> Nat]]
    BY LedgerIsTransfer DEF IInv, TypeOK, Zhimi
  <2>3. /\ booked'[n][Zhimi(p)] = booked[n][Zhimi(p)] + 1
        /\ \A x \in Transfer : x # Zhimi(p) => booked'[n][x] = booked[n][x]
        /\ \A m \in Mark : m # n => booked'[m] = booked[m]
    BY <1>2, <1>4, <2>2
  <2>4. \A q \in Part : Zhimi(q) \in Transfer /\ (q # p => Zhimi(q) # Zhimi(p))
    BY Zenon, LedgerIsTransfer DEF Zhimi
  <2>5. ZhimiOf(n) /\ AwardOf(n)
    BY <1>2 DEF Attempts
  <2>6. exec[t].plan # "refund"
    BY <1>1 DEF Attempts, RefundTakesNone
  <2>7. ZhimiOf(n)'
    <3>1. ASSUME NEW q \in Part, q # p
          PROVE  /\ booked'[n][Zhimi(q)] = booked[n][Zhimi(q)]
                 /\ TookZhimi(exec[t], q) => TookZhimi(exec'[t], q)
      BY <2>1, <2>3, <2>4, <3>1 DEF TookZhimi
    <3>2. TookZhimi(exec'[t], p) /\ ~TookZhimi(exec[t], p)
      BY <1>1, <2>1, <2>6 DEF TookZhimi
    <3>3. ~(booked[n][Zhimi(p)] > rolls[n])
      BY <1>2, <2>5, <3>2 DEF ZhimiOf, Final
    <3>4. booked'[n][Zhimi(p)] <= rolls'[n] + 1
      BY <1>1, <1>2, <2>3, <3>3, CounterTypes
    <3>5. ASSUME NEW q \in Part
          PROVE  /\ booked'[n][Zhimi(q)] <= rolls'[n] + 1
                 /\ booked'[n][Zhimi(q)] > rolls'[n] =>
                      \E u \in Thread : exec'[u].mark = n /\ TookZhimi(exec'[u], q)
      <4>1. CASE q = p
        BY <2>1, <3>2, <3>4, <4>1
      <4>2. CASE q # p
        <5>1. /\ booked[n][Zhimi(q)] <= rolls[n] + 1
              /\ booked[n][Zhimi(q)] > rolls[n] => TookZhimi(exec[t], q)
          BY <1>2, <2>5 DEF ZhimiOf, Final
        <5> QED
          BY <1>1, <2>1, <3>1, <4>2, <5>1
      <4> QED
        BY <4>1, <4>2
    <3> QED
      BY <3>5 DEF ZhimiOf
  <2>8. AwardOf(n)'
    <3>1. ~(award[n] > rolls[n])
      BY <1>1, <1>2, <2>5 DEF AwardOf
    <3> QED
      BY <1>1, <1>2, <2>5, <3>1 DEF AwardOf
  <2>9. \A q \in Part : exec'[t].plan = "refund" => Zhimi(q) \notin exec'[t].todo
    BY <2>1, <2>6
  <2> QED
    BY <1>1, <1>2, <2>1, <2>3, <2>7, <2>8, <2>9, OwnBatchOnly
<1> QED
  BY <1>3, <1>4 DEF TransferZhimi, Zhimi

\* The recharge event is pushed once by one execution.
LEMMA BindAndAwardAttempts ==
  ASSUME IInv, Exclusive, Attempts, NEW t \in Thread, BindAndAward(t)
  PROVE  Attempts'
<1> PICK n : n = exec[t].mark
  OBVIOUS
<1>1. /\ exec[t].pc = "trans" /\ exec[t].todo = {}
      /\ award' \in {award, [award EXCEPT ![n] = @ + 1]}
      /\ exec' = [exec EXCEPT ![t].pc = "commit"]
      /\ UNCHANGED <<serial, booked, rolls>>
  BY DEF BindAndAward
<1>2. /\ n \in Mark /\ \A u \in Thread : exec[u].mark = n => u = t
      /\ serial[n] \notin Final
  BY <1>1, OnlyMine
<1>3. /\ exec'[t].pc = "commit" /\ exec'[t].mark = n /\ exec'[t].plan = exec[t].plan
      /\ exec'[t].todo = {}
      /\ \A u \in Thread : u # t => exec'[u] = exec[u]
  BY <1>1 DEF IInv, TypeOK, Exec
<1>4. \A p \in Part : TookZhimi(exec[t], p) => TookZhimi(exec'[t], p)
  BY <1>3 DEF TookZhimi
<1>5. ZhimiOf(n) /\ AwardOf(n)
  BY <1>2 DEF Attempts
<1>6. ~(award[n] > rolls[n])
  BY <1>1, <1>2, <1>5 DEF AwardOf
<1>7. award'[n] <= rolls'[n] + 1 /\ \A m \in Mark : m # n => award'[m] = award[m]
  <2>1. award \in [Mark -> Nat] /\ rolls[n] \in Nat /\ award[n] \in Nat
    BY <1>2, CounterTypes DEF IInv, TypeOK
  <2>2. award'[n] \in {award[n], award[n] + 1} /\ \A m \in Mark : m # n => award'[m] = award[m]
    BY <1>1, <1>2, <2>1
  <2> QED
    BY <1>1, <1>6, <2>1, <2>2
<1>8. AwardOf(n)'
  BY <1>3, <1>7 DEF AwardOf
<1>9. ZhimiOf(n)'
  <2>1. ASSUME NEW p \in Part, NEW u \in Thread, exec[u].mark = n, TookZhimi(exec[u], p)
        PROVE  exec'[u].mark = n /\ TookZhimi(exec'[u], p)
    BY <1>2, <1>3, <1>4, <2>1
  <2> QED
    BY <1>1, <1>5, <2>1 DEF ZhimiOf
<1> QED
  BY <1>1, <1>2, <1>3, <1>7, <1>8, <1>9, OwnBatchOnly

\* What the execution took is accounted for by the status of the batch.
LEMMA CommitAttempts ==
  ASSUME IInv, Exclusive, Attempts, NEW t \in Thread, Commit(t)
  PROVE  Attempts'
<1> PICK n : n = exec[t].mark
  OBVIOUS
<1>1. /\ exec[t].pc = "commit"
      /\ serial' = [serial EXCEPT ![n] = IF exec[t].plan = "refund" THEN "failed" ELSE "uncheck"]
      /\ exec'[t] = Idle /\ \A u \in Thread : u # t => exec'[u] = exec[u]
      /\ UNCHANGED <<award, rolls>>
  BY Committed
<1>2. /\ n \in Mark /\ \A u \in Thread : exec[u].mark = n => u = t
      /\ serial[n] \notin Final
  BY <1>1, OnlyMine
<1>3. /\ serial'[n] = IF exec[t].plan = "refund" THEN "failed" ELSE "uncheck"
      /\ \A m \in Mark : m # n => serial'[m] = serial[m]
  BY <1>1, <1>2 DEF IInv, TypeOK
<1>4. /\ \A m \in Mark : m # n => booked'[m] = booked[m]
      /\ \A p \in Part : booked'[n][Zhimi(p)] = booked[n][Zhimi(p)]
  <2> DEFINE new == [x \in Transfer |-> booked[n][x]
                       + IF x \in exec[t].made /\ x[1] # "zhimi" THEN 1 ELSE 0]
  <2>1. booked' = [booked EXCEPT ![n] = new] /\ booked \in [Mark -> [Transfer -> Nat]]
    BY DEF Commit, IInv, TypeOK
  <2>2. ASSUME NEW p \in Part PROVE new[Zhimi(p)] = booked[n][Zhimi(p)]
    <3>1. Zhimi(p) \in Transfer /\ Zhimi(p)[1] = "zhimi" /\ booked[n][Zhimi(p)] \in Nat
      BY <1>2, LedgerIsTransfer, CounterTypes DEF Zhimi
    <3> QED
      BY <3>1
  <2> HIDE DEF new
  <2> QED
    BY <1>2, <2>1, <2>2
<1>5. ZhimiOf(n) /\ AwardOf(n)
  BY <1>2 DEF Attempts
<1>6. ZhimiOf(n)'
  <2>1. ASSUME NEW p \in Part, booked[n][Zhimi(p)] > rolls[n]
        PROVE  serial'[n] = "uncheck"
    <3>1. TookZhimi(exec[t], p)
      BY <1>2, <1>5, <2>1 DEF ZhimiOf, Final
    <3> QED
      BY <1>3, <3>1 DEF TookZhimi
  <2> QED
    BY <1>1, <1>4, <1>5, <2>1 DEF ZhimiOf
<1>7. AwardOf(n)'
  BY <1>1, <1>3, <1>5 DEF AwardOf, Final
<1>8. Idle.mark = None /\ Idle.todo = {}
  BY DEF Idle
<1> QED
  BY <1>1, <1>2, <1>3, <1>4, <1>6, <1>7, <1>8, OwnBatchOnly

\* A thread begins an execution.
LEMMA BeginAttempts ==
  ASSUME IInv, Attempts, NEW t \in Thread, NEW m, NEW plan, exec[t] = Idle, Begin(t, m, plan),
         UNCHANGED <<serial, booked, award, rolls>>
  PROVE  Attempts'
<1>1. /\ exec'[t].todo = {} /\ \A u \in Thread : u # t => exec'[u] = exec[u]
  BY DEF Begin, IInv, TypeOK
<1>2. exec[t].pc = "idle"
  BY DEF Idle
<1>3. \A p \in Part : ~TookZhimi(exec[t], p)
  BY <1>2 DEF TookZhimi
<1> QED
  BY <1>1, <1>2, <1>3, GoesOn

LEMMA AttemptsHold == ASSUME Exclusive PROVE Spec => []Attempts
<1>1. IInv /\ Attempts /\ [Next]_vars => Attempts'
  <2> SUFFICES ASSUME IInv, Attempts, [Next]_vars PROVE Attempts'
    OBVIOUS
  <2>1. ASSUME NEW m \in Mark, NEW b \in Bills, PayTuition(m, b) PROVE Attempts'
    <3>1. /\ bill[m] = None /\ serial' = [serial EXCEPT ![m] = "process"]
          /\ UNCHANGED <<exec, booked, rolls, award>>
      BY <2>1 DEF PayTuition
    <3>2. serial[m] \notin Final
      BY <3>1, ServiceAssumption DEF IInv, Billed, Final
    <3>3. \A n \in Mark : serial'[n] = serial[n] \/ serial[n] \notin Final
      BY <3>1, <3>2 DEF IInv, TypeOK
    <3> QED
      BY <3>1, <3>3, NothingExecuted
  <2>2. ASSUME NEW t \in Thread, NEW m \in Mark, NEW b \in Bills, PayTuitionDeducted(t, m, b)
        PROVE  Attempts'
    BY <2>2, BeginAttempts DEF PayTuitionDeducted
  <2>3. ASSUME NEW t \in Thread, NEW m \in Mark, PaySuccess(t, m) PROVE Attempts'
    <3>1. PICK plan : Begin(t, m, plan)
      BY <2>3 DEF PaySuccess
    <3> QED
      BY <2>3, <3>1, BeginAttempts DEF PaySuccess
  <2>4. ASSUME NEW t \in Thread, NEW i \in Item, TransferRetained(t, i) PROVE Attempts'
    <3>1. exec[t].pc = "trans" /\ UNCHANGED <<serial, booked, award>>
      BY <2>4 DEF TransferRetained
    <3>2. CASE RollBack(t)
      BY Zenon, <3>1, <3>2, RollBackAttempts
    <3>3. CASE ~RollBack(t)
      <4>1. /\ UNCHANGED rolls
            /\ exec' = [exec EXCEPT ![t].balance = Balance(t) - bill[exec[t].mark].retained[i],
                                    ![t].todo = @ \ {<<"retained", i>>},
                                    ![t].made = @ \cup {<<"retained", i>>}]
        BY <2>4, <3>3 DEF TransferRetained
      <4>2. exec' = [exec EXCEPT ![t].balance = Balance(t) - bill[exec[t].mark].retained[i],
                                 ![t].todo = @ \ {<<"retained", i>>},
                                 ![t].made = exec[t].made \cup {<<"retained", i>>}]
        BY <4>1 DEF IInv, TypeOK, Exec
      <4> QED
        BY Zenon, <3>1, <4>1, <4>2, MovementAttempts
    <3> QED
      BY <3>2, <3>3
  <2>5. ASSUME NEW t \in Thread, TransferRefund(t) PROVE Attempts'
    <3>1. /\ exec[t].pc = "trans" /\ UNCHANGED <<serial, booked, award, rolls>>
          /\ exec' = [exec EXCEPT ![t].balance = Balance(t) + bill[exec[t].mark].cash,
                                  ![t].todo = @ \ {<<"refund", Surplus>>},
                                  ![t].made = @ \cup {<<"refund", Surplus>>}]
      BY <2>5 DEF TransferRefund
    <3>2. exec' = [exec EXCEPT ![t].balance = Balance(t) + bill[exec[t].mark].cash,
                               ![t].todo = @ \ {<<"refund", Surplus>>},
                               ![t].made = exec[t].made \cup {<<"refund", Surplus>>}]
      BY <3>1 DEF IInv, TypeOK, Exec
    <3> QED
      BY Zenon, <3>1, <3>2, MovementAttempts
  <2>6. ASSUME NEW t \in Thread, Work(t) PROVE Attempts'
    BY <2>4, <2>5, <2>6, WriteRowsAttempts, TransferZhimiAttempts, BindAndAwardAttempts,
       CommitAttempts DEF Work
  <2>7. ASSUME NEW t \in Thread, Crash(t) PROVE Attempts'
    <3>1. exec[t].pc # "idle"
      BY <2>7 DEF Crash, IInv, Busy
    <3> QED
      BY <2>7, <3>1, RollBackAttempts DEF Crash
  <2>8. ASSUME NEW k \in 1 .. Len(accountTask), UpdateAccount(k) PROVE Attempts'
    BY <2>8, NothingExecuted DEF UpdateAccount
  <2>9. CASE UNCHANGED vars
    BY <2>9, NothingExecuted DEF vars
  <2> QED
    BY <2>1, <2>2, <2>3, <2>6, <2>7, <2>8, <2>9 DEF Next
<1> QED
  BY NothingAttempted, <1>1, Invariance, PTL DEF Spec

-----------------------------------------------------------------------------
\* Zhimi commands cannot be rolled back with the transaction, yet where callbacks
\* of one batch do not overlap no part of a batch is charged more often than the
\* batch was settled, is being executed, or was rolled back (AccountService.trans).
THEOREM ZhimiPerAttempt == ASSUME Exclusive PROVE Spec => []ZhimiOncePerAttempt
<1>1. IInv /\ Attempts => ZhimiOncePerAttempt
  <2> SUFFICES ASSUME IInv, Attempts, NEW m \in Mark, NEW p \in Part
               PROVE  booked[m][<<"zhimi", p>>] <=
                        rolls[m] + IF serial[m] = "uncheck" \/ Running(m) THEN 1 ELSE 0
    BY Zenon DEF ZhimiOncePerAttempt
  <2>1. rolls[m] \in Nat /\ booked[m][<<"zhimi", p>>] \in Nat
    BY CounterTypes DEF Zhimi
  <2>2. /\ booked[m][<<"zhimi", p>>] <= rolls[m] + 1
        /\ booked[m][<<"zhimi", p>>] > rolls[m] => serial[m] = "uncheck" \/ Running(m)
    BY DEF Attempts, ZhimiOf, Zhimi, Running
  <2> QED
    BY <2>1, <2>2
<1> QED
  BY AttemptsHold, Invariance, <1>1, PTL

\* Likewise the recharge event, pushed to redis before the commit, is pushed at
\* most once for the final execution and once for each rollback (bindAndAward).
THEOREM AwardPerAttempt == ASSUME Exclusive PROVE Spec => []AwardOncePerAttempt
<1>1. IInv /\ Attempts => AwardOncePerAttempt
  <2> SUFFICES ASSUME IInv, Attempts, NEW m \in Mark
               PROVE  award[m] <= rolls[m] + IF serial[m] \in Final \/ Running(m) THEN 1 ELSE 0
    BY DEF AwardOncePerAttempt
  <2>1. rolls[m] \in Nat /\ award[m] \in Nat
    BY CounterTypes
  <2>2. /\ award[m] <= rolls[m] + 1
        /\ award[m] > rolls[m] => serial[m] \in Final \/ Running(m)
    BY DEF Attempts, AwardOf, Running
  <2> QED
    BY <2>1, <2>2
<1> QED
  BY AttemptsHold, Invariance, <1>1, PTL

\* What the service does outside its transaction, zhimi commands and the recharge
\* event, it does once per attempt, where callbacks of one batch do not overlap.
THEOREM PerAttempt == ASSUME Exclusive PROVE Spec => []OncePerAttempt
BY ZhimiPerAttempt, AwardPerAttempt, PTL DEF OncePerAttempt
=============================================================================
