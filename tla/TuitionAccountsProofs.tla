------------------------ MODULE TuitionAccountsProofs ------------------------
(* The money of the payment core: the balances are the opening ones less what *)
(* is booked, however many threads move them, and the core implements the      *)
(* specification in which a batch is settled or refunded in one step.          *)
EXTENDS TuitionServiceProofs, Sums

\* The retained money that the movements made take from the account, and the
\* money they put back.
Took(made, b) ==
  SumFunctionOnSet([i \in Item |-> IF <<"retained", i>> \in made THEN b.retained[i] ELSE 0], Item)
PutBack(made, b) == IF <<"refund", Surplus>> \in made THEN b.cash ELSE 0

\* The thread that holds the account row has the committed balance with its own
\* movements, each made once; any other thread has moved nothing.
HandOf(t) ==
  /\ lock = t => /\ exec[t].pc # "idle"
                 /\ exec[t].balance = account + PutBack(exec[t].made, bill[exec[t].mark])
                                              - Took(exec[t].made, bill[exec[t].mark])
  /\ lock # t => exec[t].made \cap Ledger = {}
  /\ exec[t].made \cap exec[t].todo \cap Ledger = {}

\* Nothing is booked for a batch that has no bill.
NothingBooked == \A m \in Mark : bill[m] = None => \A x \in Transfer : booked[m][x] = 0

\* A batch that payTuition settles has nothing left to the third party.
DeductedInFull == \A t \in Thread : exec[t].plan = "deduct" => bill[exec[t].mark].cash = 0

Hands == (\A t \in Thread : HandOf(t)) /\ NothingBooked /\ DeductedInFull

-----------------------------------------------------------------------------
\* What the movements come to depends on those of the ledger only.
LEMMA SameMovements ==
  ASSUME NEW b \in Bills, NEW made, NEW more, \A x \in Ledger : x \in made <=> x \in more
  PROVE  Took(made, b) = Took(more, b) /\ PutBack(made, b) = PutBack(more, b)
BY LedgerIsTransfer, ServiceAssumption, SumSame DEF Took, PutBack

LEMMA NoMovement ==
  ASSUME NEW b \in Bills, NEW made, made \cap Ledger = {}
  PROVE  Took(made, b) = 0 /\ PutBack(made, b) = 0
BY LedgerIsTransfer, ServiceAssumption, SumOfZeros DEF Took, PutBack

LEMMA MovementTypes ==
  ASSUME NEW b \in Bills, NEW made
  PROVE  Took(made, b) \in Nat /\ PutBack(made, b) \in Nat
<1> DEFINE f == [i \in Item |-> IF <<"retained", i>> \in made THEN b.retained[i] ELSE 0]
<1>1. \A i \in Item : f[i] \in Nat
  BY BillTypes
<1> HIDE DEF f
<1>2. SumFunctionOnSet(f, Item) \in Nat
  BY <1>1, SumOfNaturals, ServiceAssumption
<1>3. QED
  BY <1>2, BillTypes DEF Took, PutBack, f

\* One more retained part is taken.
LEMMA OneMoreTaken ==
  ASSUME NEW b \in Bills, NEW made, NEW i \in Item, <<"retained", i>> \notin made
  PROVE  LET more == made \cup {<<"retained", i>>} IN
         /\ Took(more, b) = Took(made, b) + b.retained[i]
         /\ PutBack(more, b) = PutBack(made, b)
<1> DEFINE more == made \cup {<<"retained", i>>}
           f == [j \in Item |-> IF <<"retained", j>> \in made THEN b.retained[j] ELSE 0]
           g == [j \in Item |-> IF <<"retained", j>> \in more THEN b.retained[j] ELSE 0]
<1>1. \A j \in Item : f[j] \in Int /\ g[j] \in Int /\ (j # i => g[j] = f[j])
  BY BillTypes
<1>2. f[i] = 0 /\ g[i] = b.retained[i] /\ b.retained[i] \in Nat
  BY BillTypes
<1>3. Took(made, b) = SumFunctionOnSet(f, Item) /\ Took(more, b) = SumFunctionOnSet(g, Item)
  BY DEF Took
<1> HIDE DEF f, g
<1>4. SumFunctionOnSet(g, Item) = SumFunctionOnSet(f, Item) + (g[i] - f[i])
  BY <1>1, SumChanges, ServiceAssumption
<1>5. PutBack(more, b) = PutBack(made, b)
  BY DEF PutBack
<1> HIDE DEF more
<1>6. Took(more, b) = Took(made, b) + b.retained[i]
  BY <1>2, <1>3, <1>4
<1>7. QED
  BY <1>5, <1>6 DEF more

\* The refund is put back.
LEMMA RefundPutBack ==
  ASSUME NEW b \in Bills, NEW made, <<"refund", Surplus>> \notin made
  PROVE  LET more == made \cup {<<"refund", Surplus>>} IN
         /\ Took(more, b) = Took(made, b)
         /\ PutBack(more, b) = PutBack(made, b) + b.cash
<1> DEFINE more == made \cup {<<"refund", Surplus>>}
<1>1. \A i \in Item : <<"retained", i>> \in more <=> <<"retained", i>> \in made
  BY LedgerIsTransfer
<1>2. Took(more, b) = Took(made, b)
  BY <1>1, ServiceAssumption, SumSame DEF Took
<1>3. PutBack(more, b) = PutBack(made, b) + b.cash
  BY BillTypes DEF PutBack
<1>4. QED
  BY <1>2, <1>3

\* A thread sees the committed balance with its own movements.
LEMMA BalanceInHand ==
  ASSUME IInv, NEW t \in Thread, HandOf(t), exec[t].pc # "idle"
  PROVE  Balance(t) = account + PutBack(exec[t].made, bill[exec[t].mark])
                              - Took(exec[t].made, bill[exec[t].mark])
<1>1. bill[exec[t].mark] \in Bills /\ account \in Nat
  BY RunningHasBill DEF IInv, TypeOK
<1>2. CASE lock = t
  BY <1>2 DEF HandOf, Balance
<1>3. CASE lock # t
  <2>1. /\ Took(exec[t].made, bill[exec[t].mark]) = 0
        /\ PutBack(exec[t].made, bill[exec[t].mark]) = 0
    BY <1>1, <1>3, NoMovement DEF HandOf
  <2>2. QED
    BY <1>1, <1>3, <2>1 DEF Balance
<1>4. QED
  BY <1>2, <1>3

\* Nothing moves in the hand of a thread.
LEMMA HandKept ==
  ASSUME IInv, NEW t \in Thread, HandOf(t),
         lock' = t <=> lock = t,
         lock = t => /\ account' = account /\ exec'[t].pc # "idle"
                     /\ exec'[t].mark = exec[t].mark /\ exec'[t].balance = exec[t].balance
                     /\ bill'[exec[t].mark] = bill[exec[t].mark],
         \A x \in Ledger : x \in exec'[t].made <=> x \in exec[t].made,
         \A x \in Ledger : x \in exec'[t].made => x \notin exec'[t].todo
  PROVE  HandOf(t)'
<1>1. CASE lock = t
  <2>1. bill[exec[t].mark] \in Bills
    BY <1>1, RunningHasBill DEF HandOf
  <2>2. /\ Took(exec'[t].made, bill[exec[t].mark]) = Took(exec[t].made, bill[exec[t].mark])
        /\ PutBack(exec'[t].made, bill[exec[t].mark]) = PutBack(exec[t].made, bill[exec[t].mark])
    BY <2>1, SameMovements
  <2>3. QED
    BY <1>1, <2>2 DEF HandOf
<1>2. CASE lock # t
  BY <1>2 DEF HandOf
<1>3. QED
  BY <1>1, <1>2

\* A thread that is idle, or starts, has nothing in its hand.
LEMMA HandEmpty ==
  ASSUME NEW t \in Thread, lock' # t, exec'[t].made = {}
  PROVE  HandOf(t)'
BY DEF HandOf

-----------------------------------------------------------------------------
LEMMA HandsAtStart == Init => Hands
<1> SUFFICES ASSUME Init PROVE Hands
  OBVIOUS
<1>1. \A t \in Thread : HandOf(t)
  BY IdleType, ServiceAssumption DEF Init, HandOf
<1>2. NothingBooked /\ DeductedInFull
  BY DEF Init, NothingBooked, DeductedInFull, Idle
<1>3. QED
  BY <1>1, <1>2 DEF Hands

\* A step of thread t only, which moves nothing in the ledger.
LEMMA MovesNothing ==
  ASSUME IInv, Hands, NEW t \in Thread, exec[t].pc # "idle", exec'[t].pc # "idle",
         UNCHANGED <<bill, account, lock>>,
         exec'[t].mark = exec[t].mark, exec'[t].plan = exec[t].plan,
         exec'[t].balance = exec[t].balance,
         \A u \in Thread : u # t => exec'[u] = exec[u],
         \A x \in Ledger : x \in exec'[t].made <=> x \in exec[t].made,
         \A x \in Ledger : x \in exec'[t].made => x \notin exec'[t].todo
  PROVE  (\A u \in Thread : HandOf(u))' /\ DeductedInFull'
<1>1. ASSUME NEW u \in Thread PROVE HandOf(u)'
  <2>1. HandOf(u)
    BY DEF Hands
  <2>2. CASE u = t
    BY <2>1, <2>2, HandKept
  <2>3. CASE u # t
    BY <2>1, <2>3 DEF HandOf
  <2>4. QED
    BY <2>2, <2>3
<1>2. DeductedInFull'
  BY DEF Hands, DeductedInFull
<1>3. QED
  BY <1>1, <1>2

\* Thread t ends its execution; the account keeps its balance, unless the row
\* was its own.
LEMMA LetsGo ==
  ASSUME IInv, Hands, NEW t \in Thread, exec' = [exec EXCEPT ![t] = Idle],
         lock' = IF lock = t THEN None ELSE lock,
         lock = t \/ account' = account, UNCHANGED bill
  PROVE  (\A u \in Thread : HandOf(u))' /\ DeductedInFull'
<1>1. exec'[t] = Idle /\ \A u \in Thread : u # t => exec'[u] = exec[u]
  BY DEF IInv, TypeOK
<1>2. lock' # t
  BY ServiceAssumption
<1>3. ASSUME NEW u \in Thread PROVE HandOf(u)'
  <2>1. HandOf(u)
    BY DEF Hands
  <2>2. CASE u = t
    BY <1>1, <1>2, <2>2, IdleType, HandEmpty
  <2>3. CASE u # t
    <3>1. lock' = u <=> lock = u
      BY <2>3, ServiceAssumption
    <3>2. QED
      BY <1>1, <2>1, <2>3, <3>1 DEF HandOf
  <2>4. QED
    BY <2>2, <2>3
<1>4. Idle.plan # "deduct"
  BY DEF Idle
<1>5. DeductedInFull'
  BY <1>1, <1>4 DEF Hands, DeductedInFull
<1>6. QED
  BY <1>3, <1>5

\* A batch gets a bill it did not have: no execution is for it.
LEMMA BillPlaced ==
  ASSUME IInv, NEW m \in Mark, NEW b \in Bills, bill[m] = None, bill' = [bill EXCEPT ![m] = b]
  PROVE  /\ bill'[m] = b /\ \A n \in Mark : n # m => bill'[n] = bill[n]
         /\ \A u \in Thread : exec[u].mark # m
         /\ \A u \in Thread : exec[u] # Idle => bill'[exec[u].mark] = bill[exec[u].mark]
<1>1. bill'[m] = b /\ \A n \in Mark : n # m => bill'[n] = bill[n]
  BY DEF IInv, TypeOK
<1>2. \A u \in Thread : exec[u].mark # m
  BY IdleType, ServiceAssumption DEF IInv, Busy
<1>3. QED
  BY <1>1, <1>2 DEF IInv, Busy

\* Thread t starts an execution.
LEMMA StartsEmpty ==
  ASSUME IInv, Hands, NEW t \in Thread, NEW m \in Mark, NEW plan,
         exec[t] = Idle, Begin(t, m, plan), UNCHANGED <<account, lock>>,
         \A u \in Thread : exec[u] # Idle => bill'[exec[u].mark] = bill[exec[u].mark],
         plan = "deduct" => bill'[m].cash = 0
  PROVE  (\A u \in Thread : HandOf(u))' /\ DeductedInFull'
<1>1. /\ exec'[t] = [pc |-> "write", mark |-> m, plan |-> plan, todo |-> {}, made |-> {}, balance |-> 0]
      /\ \A u \in Thread : u # t => exec'[u] = exec[u]
  BY DEF Begin, IInv, TypeOK
<1>2. lock # t
  BY IdleType DEF Hands, HandOf
<1>3. ASSUME NEW u \in Thread, u # t PROVE HandOf(u)'
  <2>1. HandOf(u)
    BY DEF Hands
  <2>2. lock = u => exec[u] # Idle
    BY <2>1, IdleType DEF HandOf
  <2>3. QED
    BY <1>1, <1>3, <2>1, <2>2 DEF HandOf
<1>4. HandOf(t)'
  BY <1>1, <1>2, HandEmpty
<1>5. DeductedInFull'
  <2>1. ASSUME NEW u \in Thread, u # t, exec[u].plan = "deduct"
        PROVE  bill'[exec[u].mark].cash = 0
    <3>1. exec[u] # Idle
      BY <2>1 DEF Idle
    <3>2. QED
      BY <2>1, <3>1 DEF Hands, DeductedInFull
  <2>2. QED
    BY <1>1, <2>1 DEF DeductedInFull
<1>6. QED
  BY <1>3, <1>4, <1>5

\* Thread t makes a movement of the ledger.
LEMMA MovesOnce ==
  ASSUME IInv, Hands, NEW t \in Thread, NEW x \in Ledger, NEW balance,
         exec[t].pc = "trans", x \in exec[t].todo, lock \in {None, t}, lock' = t,
         Moves(t, x, balance), UNCHANGED <<bill, account>>,
         LET b == bill[exec[t].mark]  more == exec[t].made \cup {x}
         IN  balance = account + PutBack(more, b) - Took(more, b)
  PROVE  (\A u \in Thread : HandOf(u))' /\ DeductedInFull'
<1>1. /\ exec'[t].pc = "trans" /\ exec'[t].mark = exec[t].mark /\ exec'[t].plan = exec[t].plan
      /\ exec'[t].todo = exec[t].todo \ {x} /\ exec'[t].made = exec[t].made \cup {x}
      /\ exec'[t].balance = balance
      /\ \A u \in Thread : u # t => exec'[u] = exec[u]
  BY Zenon, Moved
<1>2. HandOf(t)'
  <2>1. exec'[t].made \cap exec'[t].todo \cap Ledger = {}
    BY <1>1 DEF Hands, HandOf
  <2>2. /\ bill'[exec'[t].mark] = bill[exec[t].mark] /\ account' = account
        /\ exec'[t].pc # "idle" /\ lock' = t
    BY <1>1
  <2>3. exec'[t].balance = account' + PutBack(exec'[t].made, bill'[exec'[t].mark])
                                    - Took(exec'[t].made, bill'[exec'[t].mark])
    BY Zenon, <1>1, <2>2
  <2>4. QED
    BY Zenon, <2>1, <2>2, <2>3 DEF HandOf
<1>3. ASSUME NEW u \in Thread, u # t PROVE HandOf(u)'
  <2>1. exec'[u] = exec[u]
    BY <1>1, <1>3
  <2>2. exec[u].made \cap Ledger = {} /\ exec[u].made \cap exec[u].todo \cap Ledger = {}
    BY <1>3, ServiceAssumption DEF Hands, HandOf
  <2>3. lock' # u
    BY <1>3
  <2>4. QED
    BY Zenon, <2>1, <2>2, <2>3 DEF HandOf
<1>4. DeductedInFull'
  <2> SUFFICES ASSUME NEW u \in Thread, exec'[u].plan = "deduct" PROVE bill'[exec'[u].mark].cash = 0
    BY DEF DeductedInFull
  <2>1. exec'[u].plan = exec[u].plan /\ exec'[u].mark = exec[u].mark
    BY <1>1
  <2>2. QED
    BY <2>1 DEF Hands, DeductedInFull
<1>5. QED
  BY <1>2, <1>3, <1>4

-----------------------------------------------------------------------------
\* What the booked movements of one batch bring to the retained account, and
\* what they take from the zhimi account.
RetainedMoved(b, moves) ==
  IF b = None THEN 0
  ELSE moves[<<"refund", Surplus>>] * b.cash
       - SumFunction([i \in Item |-> moves[<<"retained", i>>] * b.retained[i]])

ZhimiMoved(b, moves) ==
  IF b = None THEN 0
  ELSE SumFunction([p \in Part |-> moves[<<"zhimi", p>>] * b.zhimi[p]])

RetainedMoves == [m \in Mark |-> RetainedMoved(bill[m], booked[m])]
ZhimiMoves == [m \in Mark |-> ZhimiMoved(bill[m], booked[m])]

LEMMA ProductType == \A j, k \in Nat : j * k \in Nat /\ (j + 1) * k = j * k + k
OBVIOUS

LEMMA PartIsFinite == IsFiniteSet(Part)
BY FS_Singleton, FS_Union, ServiceAssumption DEF Part

LEMMA MoveTypes ==
  ASSUME NEW b \in Bills \cup {None}, NEW moves \in [Transfer -> Nat]
  PROVE  RetainedMoved(b, moves) \in Int /\ ZhimiMoved(b, moves) \in Int
<1>1. CASE b = None
  BY <1>1 DEF RetainedMoved, ZhimiMoved
<1>2. CASE b \in Bills
  <2> DEFINE f == [i \in Item |-> moves[<<"retained", i>>] * b.retained[i]]
             g == [p \in Part |-> moves[<<"zhimi", p>>] * b.zhimi[p]]
  <2>1. /\ \A i \in Item : moves[<<"retained", i>>] \in Nat /\ b.retained[i] \in Nat
        /\ \A p \in Part : moves[<<"zhimi", p>>] \in Nat /\ b.zhimi[p] \in Nat
        /\ moves[<<"refund", Surplus>>] \in Nat /\ b.cash \in Nat
    BY <1>2, BillTypes, LedgerIsTransfer
  <2>2. (\A i \in Item : f[i] \in Int) /\ (\A p \in Part : g[p] \in Int)
    BY <2>1, ProductType
  <2>3. moves[<<"refund", Surplus>>] * b.cash \in Int
    BY <2>1, ProductType
  <2> HIDE DEF f, g
  <2>4. SumFunctionOnSet(f, Item) \in Int /\ SumFunctionOnSet(g, Part) \in Int
    BY <2>2, SumType, PartIsFinite, ServiceAssumption
  <2>5. SumFunction(f) \in Int /\ SumFunction(g) \in Int
    BY <2>4 DEF SumFunction, f, g
  <2>6. QED
    BY <1>2, <2>3, <2>5, ServiceAssumption DEF RetainedMoved, ZhimiMoved, f, g
<1>3. QED
  BY <1>1, <1>2

\* With nothing booked, nothing is moved.
LEMMA NoneMoved ==
  ASSUME NEW b \in Bills, NEW moves, \A x \in Transfer : moves[x] = 0
  PROVE  RetainedMoved(b, moves) = 0 /\ ZhimiMoved(b, moves) = 0
<1> DEFINE f == [i \in Item |-> moves[<<"retained", i>>] * b.retained[i]]
           g == [p \in Part |-> moves[<<"zhimi", p>>] * b.zhimi[p]]
<1>1. /\ \A i \in Item : f[i] = 0
      /\ \A p \in Part : g[p] = 0
      /\ moves[<<"refund", Surplus>>] * b.cash = 0
  BY BillTypes, LedgerIsTransfer
<1> HIDE DEF f, g
<1>2. SumFunctionOnSet(f, Item) = 0 /\ SumFunctionOnSet(g, Part) = 0
  BY <1>1, SumOfZeros, PartIsFinite, ServiceAssumption
<1>3. SumFunction(f) = 0 /\ SumFunction(g) = 0
  BY <1>2 DEF SumFunction, f, g
<1>4. QED
  BY <1>1, <1>3 DEF RetainedMoved, ZhimiMoved, f, g

\* What is booked decides what is moved.
LEMMA SameMoved ==
  ASSUME NEW b \in Bills, NEW moves, NEW more
  PROVE  /\ (\A x \in Ledger : moves[x] = more[x]) => RetainedMoved(b, moves) = RetainedMoved(b, more)
         /\ (\A p \in Part : moves[<<"zhimi", p>>] = more[<<"zhimi", p>>]) =>
              ZhimiMoved(b, moves) = ZhimiMoved(b, more)
BY LedgerIsTransfer DEF RetainedMoved, ZhimiMoved

\* What an execution made, once booked, is moved.
LEMMA MadeIsMoved ==
  ASSUME NEW b \in Bills, NEW made, NEW moves \in [Transfer -> Nat], NEW more \in [Transfer -> Nat],
         \A x \in Ledger : more[x] = moves[x] + IF x \in made THEN 1 ELSE 0
  PROVE  RetainedMoved(b, more) = RetainedMoved(b, moves) + PutBack(made, b) - Took(made, b)
<1> DEFINE f == [i \in Item |-> moves[<<"retained", i>>] * b.retained[i]]
           g == [i \in Item |-> IF <<"retained", i>> \in made THEN b.retained[i] ELSE 0]
           h == [i \in Item |-> more[<<"retained", i>>] * b.retained[i]]
           r == <<"refund", Surplus>>
<1>1. ASSUME NEW i \in Item
      PROVE  f[i] \in Int /\ g[i] \in Int /\ h[i] = f[i] + g[i] /\ h[i] \in Int
  <2>1. PICK j \in Nat, k \in Nat :
          /\ j = moves[<<"retained", i>>] /\ k = b.retained[i]
          /\ more[<<"retained", i>>] = j + IF <<"retained", i>> \in made THEN 1 ELSE 0
    BY BillTypes, LedgerIsTransfer
  <2>2. j * k \in Int /\ (j + 1) * k = j * k + k
    BY ProductType
  <2>3. CASE <<"retained", i>> \in made
    <3>1. f[i] = j * k /\ g[i] = k /\ h[i] = (j + 1) * k
      BY <2>1, <2>3
    <3>2. QED
      BY <2>1, <2>2, <3>1
  <2>4. CASE <<"retained", i>> \notin made
    <3>1. f[i] = j * k /\ g[i] = 0 /\ h[i] = j * k
      BY <2>1, <2>4
    <3>2. QED
      BY <2>2, <3>1
  <2>5. QED
    BY <2>3, <2>4
<1>2. more[r] * b.cash = moves[r] * b.cash + PutBack(made, b) /\ moves[r] * b.cash \in Int
  <2>1. /\ moves[r] \in Nat /\ b.cash \in Nat /\ more[r] = moves[r] + IF r \in made THEN 1 ELSE 0
    BY BillTypes, LedgerIsTransfer
  <2>2. moves[r] * b.cash \in Int /\ (moves[r] + 1) * b.cash = moves[r] * b.cash + b.cash
    BY <2>1, ProductType
  <2>3. CASE r \in made
    BY <2>1, <2>2, <2>3 DEF PutBack
  <2>4. CASE r \notin made
    BY <2>1, <2>2, <2>4 DEF PutBack
  <2>5. QED
    BY <2>3, <2>4
<1>3. Took(made, b) = SumFunctionOnSet(g, Item)
  BY DEF Took
<1>4. /\ RetainedMoved(b, moves) = moves[r] * b.cash - SumFunctionOnSet(f, Item)
      /\ RetainedMoved(b, more) = more[r] * b.cash - SumFunctionOnSet(h, Item)
  BY BillTypes DEF RetainedMoved, SumFunction
<1> HIDE DEF f, g, h, r
<1>5. SumFunctionOnSet(h, Item) = SumFunctionOnSet(f, Item) + SumFunctionOnSet(g, Item)
  BY <1>1, SumOfSums, ServiceAssumption
<1>6. SumFunctionOnSet(f, Item) \in Int /\ SumFunctionOnSet(g, Item) \in Int
  BY <1>1, SumType, ServiceAssumption
<1>7. PutBack(made, b) \in Int
  BY MovementTypes
<1>8. QED
  BY <1>2, <1>3, <1>4, <1>5, <1>6, <1>7

\* One more part of the zhimi.
LEMMA OneMoreZhimi ==
  ASSUME NEW b \in Bills, NEW p \in Part, NEW moves \in [Transfer -> Nat],
         NEW more \in [Transfer -> Nat],
         \A q \in Part : more[<<"zhimi", q>>] = moves[<<"zhimi", q>>] + IF q = p THEN 1 ELSE 0
  PROVE  ZhimiMoved(b, more) = ZhimiMoved(b, moves) + b.zhimi[p]
<1> DEFINE f == [q \in Part |-> moves[<<"zhimi", q>>] * b.zhimi[q]]
           g == [q \in Part |-> more[<<"zhimi", q>>] * b.zhimi[q]]
<1>1. ASSUME NEW q \in Part
      PROVE  f[q] \in Int /\ g[q] \in Int /\ g[q] = IF q = p THEN f[q] + b.zhimi[q] ELSE f[q]
  <2>1. /\ moves[<<"zhimi", q>>] \in Nat /\ b.zhimi[q] \in Nat
        /\ more[<<"zhimi", q>>] = moves[<<"zhimi", q>>] + IF q = p THEN 1 ELSE 0
    BY BillTypes, LedgerIsTransfer
  <2>2. /\ moves[<<"zhimi", q>>] * b.zhimi[q] \in Int
        /\ (moves[<<"zhimi", q>>] + 1) * b.zhimi[q] = moves[<<"zhimi", q>>] * b.zhimi[q] + b.zhimi[q]
    BY <2>1, ProductType
  <2>3. CASE q = p
    BY <2>1, <2>2, <2>3
  <2>4. CASE q # p
    BY <2>1, <2>2, <2>4
  <2>5. QED
    BY <2>3, <2>4
<1>2. /\ ZhimiMoved(b, moves) = SumFunctionOnSet(f, Part)
      /\ ZhimiMoved(b, more) = SumFunctionOnSet(g, Part)
  BY BillTypes DEF ZhimiMoved, SumFunction
<1>3. b.zhimi[p] \in Nat
  BY BillTypes
<1> HIDE DEF f, g
<1>4. SumFunctionOnSet(g, Part) = SumFunctionOnSet(f, Part) + (g[p] - f[p])
  BY <1>1, SumChanges, PartIsFinite
<1>5. SumFunctionOnSet(f, Part) \in Int
  BY <1>1, SumType, PartIsFinite
<1>6. QED
  BY <1>1, <1>2, <1>3, <1>4, <1>5

-----------------------------------------------------------------------------
\* Both properties, now and after a step, with their sums named.
LEMMA Conserved ==
  /\ RetainedConserved <=> account = OpeningRetained + SumFunctionOnSet(RetainedMoves, Mark)
  /\ ZhimiConserved <=> /\ zhimi = OpeningZhimi - SumFunctionOnSet(ZhimiMoves, Mark)
                        /\ zhimiDb = zhimi + SumFunction(accountTask)
  /\ RetainedConserved' <=> account' = OpeningRetained + SumFunctionOnSet(RetainedMoves', Mark)
  /\ ZhimiConserved' <=> /\ zhimi' = OpeningZhimi - SumFunctionOnSet(ZhimiMoves', Mark)
                         /\ zhimiDb' = zhimi' + SumFunction(accountTask')
BY DEF RetainedConserved, ZhimiConserved, SumFunction, RetainedMoves, ZhimiMoves,
       RetainedMoved, ZhimiMoved

LEMMA ConservedAtStart == Init => RetainedConserved /\ ZhimiConserved
<1> SUFFICES ASSUME Init PROVE RetainedConserved /\ ZhimiConserved
  OBVIOUS
<1>1. \A m \in Mark : RetainedMoves[m] = 0 /\ ZhimiMoves[m] = 0
  BY DEF Init, RetainedMoves, ZhimiMoves, RetainedMoved, ZhimiMoved
<1>2. SumFunctionOnSet(RetainedMoves, Mark) = 0 /\ SumFunctionOnSet(ZhimiMoves, Mark) = 0
  BY <1>1, SumOfZeros, ServiceAssumption
<1>3. accountTask = << >> /\ DOMAIN << >> = {}
  BY DEF Init
<1>4. SumFunction(accountTask) = 0
  BY <1>3, SumOfNothing DEF SumFunction
<1>5. QED
  BY <1>2, <1>4, Conserved, ServiceAssumption DEF Init

\* The terms of both sums are numbers.
LEMMA TermTypes ==
  ASSUME IInv
  PROVE  \A m \in Mark : RetainedMoves[m] \in Int /\ ZhimiMoves[m] \in Int
BY MoveTypes DEF IInv, TypeOK, RetainedMoves, ZhimiMoves

\* A step that leaves an account and what was moved of it alone.
LEMMA RetainedAlone ==
  ASSUME RetainedConserved, UNCHANGED account,
         \A m \in Mark : RetainedMoved(bill'[m], booked'[m]) = RetainedMoved(bill[m], booked[m])
  PROVE  RetainedConserved'
<1>1. RetainedMoves' = RetainedMoves
  BY DEF RetainedMoves
<1>2. QED
  BY <1>1 DEF RetainedConserved, RetainedMoves, RetainedMoved

LEMMA ZhimiAlone ==
  ASSUME ZhimiConserved, UNCHANGED <<zhimi, zhimiDb, accountTask>>,
         \A m \in Mark : ZhimiMoved(bill'[m], booked'[m]) = ZhimiMoved(bill[m], booked[m])
  PROVE  ZhimiConserved'
<1>1. ZhimiMoves' = ZhimiMoves
  BY DEF ZhimiMoves
<1>2. QED
  BY <1>1 DEF ZhimiConserved, ZhimiMoves, ZhimiMoved

\* The invariant of the accounts.
Accounts == Hands /\ RetainedConserved /\ ZhimiConserved

\* A step that books nothing, and places no bill.
LEMMA BooksNothing ==
  ASSUME Accounts, UNCHANGED <<bill, booked, account, zhimi, zhimiDb, accountTask>>,
         (\A u \in Thread : HandOf(u))' /\ DeductedInFull'
  PROVE  Accounts'
<1>1. RetainedConserved' /\ ZhimiConserved'
  BY RetainedAlone, ZhimiAlone DEF Accounts
<1>2. NothingBooked'
  BY DEF Accounts, Hands, NothingBooked
<1>3. QED
  BY <1>1, <1>2 DEF Accounts, Hands

\* A bill is placed, for which nothing is booked yet.
LEMMA PlacesBill ==
  ASSUME IInv, Accounts, NEW m \in Mark, NEW b \in Bills, bill[m] = None,
         bill' = [bill EXCEPT ![m] = b],
         UNCHANGED <<booked, account, zhimi, zhimiDb, accountTask>>,
         (\A u \in Thread : HandOf(u))' /\ DeductedInFull'
  PROVE  Accounts'
<1>1. bill'[m] = b /\ \A n \in Mark : n # m => bill'[n] = bill[n]
  BY BillPlaced
<1>2. \A x \in Transfer : booked[m][x] = 0
  BY DEF Accounts, Hands, NothingBooked
<1>3. RetainedMoved(b, booked[m]) = 0 /\ ZhimiMoved(b, booked[m]) = 0
  BY <1>2, NoneMoved
<1>4. RetainedMoved(bill[m], booked[m]) = 0 /\ ZhimiMoved(bill[m], booked[m]) = 0
  BY DEF RetainedMoved, ZhimiMoved
<1>5. \A n \in Mark : /\ RetainedMoved(bill'[n], booked'[n]) = RetainedMoved(bill[n], booked[n])
                      /\ ZhimiMoved(bill'[n], booked'[n]) = ZhimiMoved(bill[n], booked[n])
  BY <1>1, <1>3, <1>4
<1>6. RetainedConserved' /\ ZhimiConserved'
  BY <1>5, RetainedAlone, ZhimiAlone DEF Accounts
<1>7. NothingBooked'
  BY <1>1, <1>2 DEF Accounts, Hands, NothingBooked
<1>8. QED
  BY <1>6, <1>7 DEF Accounts, Hands

LEMMA PayTuitionAccounts ==
  ASSUME IInv, Accounts, NEW m \in Mark, NEW b \in Bills, PayTuition(m, b)
  PROVE  Accounts'
<1>1. /\ bill[m] = None /\ bill' = [bill EXCEPT ![m] = b]
      /\ UNCHANGED <<account, lock, zhimi, zhimiDb, accountTask, booked, exec>>
  BY DEF PayTuition
<1>2. \A u \in Thread : exec[u] # Idle => bill'[exec[u].mark] = bill[exec[u].mark]
  BY <1>1, BillPlaced
<1>3. ASSUME NEW u \in Thread PROVE HandOf(u)'
  <2>1. HandOf(u)
    BY DEF Accounts, Hands
  <2>2. lock = u => exec[u] # Idle
    BY <2>1, IdleType DEF HandOf
  <2>3. QED
    BY <1>1, <1>2, <2>1, <2>2 DEF HandOf
<1>4. DeductedInFull'
  <2>1. ASSUME NEW u \in Thread, exec[u].plan = "deduct" PROVE exec[u] # Idle
    BY <2>1 DEF Idle
  <2>2. QED
    BY <1>1, <1>2, <2>1 DEF Accounts, Hands, DeductedInFull
<1>5. QED
  BY <1>1, <1>3, <1>4, PlacesBill

LEMMA PayTuitionDeductedAccounts ==
  ASSUME IInv, Accounts, NEW t \in Thread, NEW m \in Mark, NEW b \in Bills,
         PayTuitionDeducted(t, m, b)
  PROVE  Accounts'
<1>1. /\ exec[t] = Idle /\ bill[m] = None /\ bill' = [bill EXCEPT ![m] = b] /\ b.cash = 0
      /\ Begin(t, m, "deduct")
      /\ UNCHANGED <<account, lock, zhimi, zhimiDb, accountTask, booked>>
  BY DEF PayTuitionDeducted, FullyDeducted
<1>2. bill'[m] = b /\ \A u \in Thread : exec[u] # Idle => bill'[exec[u].mark] = bill[exec[u].mark]
  BY <1>1, BillPlaced
<1>3. (\A u \in Thread : HandOf(u))' /\ DeductedInFull'
  BY <1>1, <1>2, StartsEmpty DEF Accounts
<1>4. QED
  BY <1>1, <1>3, PlacesBill

LEMMA PaySuccessAccounts ==
  ASSUME IInv, Accounts, NEW t \in Thread, NEW m \in Mark, PaySuccess(t, m)
  PROVE  Accounts'
<1>1. PICK plan \in {"settle", "refund"} :
        /\ exec[t] = Idle /\ Begin(t, m, plan)
        /\ UNCHANGED <<bill, account, lock, zhimi, zhimiDb, accountTask, booked>>
  BY DEF PaySuccess
<1>2. (\A u \in Thread : HandOf(u))' /\ DeductedInFull'
  BY <1>1, StartsEmpty DEF Accounts
<1>3. QED
  BY <1>1, <1>2, BooksNothing

LEMMA WriteRowsAccounts ==
  ASSUME IInv, Accounts, NEW t \in Thread, WriteRows(t)
  PROVE  Accounts'
<1> DEFINE todo == Charges(bill[exec[t].mark], exec[t].plan)
<1>1. /\ exec[t].pc = "write" /\ exec' = [exec EXCEPT ![t].pc = "trans", ![t].todo = todo]
      /\ UNCHANGED <<bill, account, lock, zhimi, zhimiDb, accountTask, booked>>
  BY DEF WriteRows
<1> HIDE DEF todo
<1>2. /\ exec'[t].pc = "trans" /\ exec'[t].mark = exec[t].mark /\ exec'[t].plan = exec[t].plan
      /\ exec'[t].balance = exec[t].balance /\ exec'[t].made = exec[t].made
      /\ \A u \in Thread : u # t => exec'[u] = exec[u]
  BY <1>1 DEF IInv, TypeOK, Exec
<1>3. exec[t].made = {}
  BY <1>1 DEF IInv, MadeIsCharged
<1>4. (\A u \in Thread : HandOf(u))' /\ DeductedInFull'
  BY <1>1, <1>2, <1>3, MovesNothing DEF Accounts
<1>5. QED
  BY <1>1, <1>4, BooksNothing

LEMMA BindAndAwardAccounts ==
  ASSUME IInv, Accounts, NEW t \in Thread, BindAndAward(t)
  PROVE  Accounts'
<1>1. /\ exec[t].pc = "trans" /\ exec[t].todo = {} /\ exec' = [exec EXCEPT ![t].pc = "commit"]
      /\ UNCHANGED <<bill, account, lock, zhimi, zhimiDb, accountTask, booked>>
  BY DEF BindAndAward
<1>2. /\ exec'[t].pc = "commit" /\ exec'[t].mark = exec[t].mark /\ exec'[t].plan = exec[t].plan
      /\ exec'[t].balance = exec[t].balance /\ exec'[t].made = exec[t].made /\ exec'[t].todo = {}
      /\ \A u \in Thread : u # t => exec'[u] = exec[u]
  BY <1>1 DEF IInv, TypeOK, Exec
<1>3. (\A u \in Thread : HandOf(u))' /\ DeductedInFull'
  BY <1>1, <1>2, MovesNothing DEF Accounts
<1>4. QED
  BY <1>1, <1>3, BooksNothing

\* The database forgets an execution, and keeps the balance it had.
LEMMA RollBackAccounts ==
  ASSUME IInv, Accounts, NEW t \in Thread, RollBack(t),
         UNCHANGED <<bill, account, zhimi, zhimiDb, accountTask, booked>>
  PROVE  Accounts'
<1>1. (\A u \in Thread : HandOf(u))' /\ DeductedInFull'
  BY LetsGo DEF RollBack, Accounts
<1>2. QED
  BY <1>1, BooksNothing

LEMMA TransferRetainedAccounts ==
  ASSUME IInv, Accounts, NEW t \in Thread, NEW i \in Item, TransferRetained(t, i)
  PROVE  Accounts'
<1> DEFINE b == bill[exec[t].mark]
           x == <<"retained", i>>
           more == exec[t].made \cup {x}
<1>1. /\ exec[t].pc = "trans" /\ x \in exec[t].todo /\ lock \in {None, t}
      /\ UNCHANGED <<bill, account, zhimi, zhimiDb, accountTask, booked>>
  BY DEF TransferRetained
<1>2. CASE Covered(t, b.retained[i])
  <2>1. /\ lock' = t
        /\ exec' = [exec EXCEPT ![t].balance = Balance(t) - b.retained[i],
                                ![t].todo = @ \ {x}, ![t].made = @ \cup {x}]
    BY <1>2 DEF TransferRetained
  <2>2. x \in Ledger
    BY LedgerIsTransfer
  <2>3. x \notin exec[t].made /\ HandOf(t)
    BY <1>1, <2>2 DEF Accounts, Hands, HandOf
  <2>4. b \in Bills /\ b.retained[i] \in Nat /\ account \in Nat
    BY <1>1, RunningHasBill, BillTypes DEF IInv, TypeOK
  <2>5. Balance(t) = account + PutBack(exec[t].made, b) - Took(exec[t].made, b)
    BY <1>1, <2>3, BalanceInHand
  <2>6. Took(more, b) = Took(exec[t].made, b) + b.retained[i] /\ PutBack(more, b) = PutBack(exec[t].made, b)
    BY <2>3, <2>4, OneMoreTaken
  <2>7. Took(exec[t].made, b) \in Nat /\ PutBack(exec[t].made, b) \in Nat
    BY <2>4, MovementTypes
  <2> HIDE DEF b, x, more
  <2>8. Balance(t) - b.retained[i] = account + PutBack(more, b) - Took(more, b)
    BY <2>4, <2>5, <2>6, <2>7
  <2>9. (\A u \in Thread : HandOf(u))' /\ DeductedInFull'
    BY Zenon, <1>1, <2>1, <2>2, <2>8, MovesOnce DEF Accounts, Moves, b, more
  <2>10. QED
    BY Zenon, <1>1, <2>9, BooksNothing
<1>3. CASE ~Covered(t, b.retained[i])
  BY <1>1, <1>3, RollBackAccounts DEF TransferRetained
<1>4. QED
  BY <1>2, <1>3

LEMMA TransferRefundAccounts ==
  ASSUME IInv, Accounts, NEW t \in Thread, TransferRefund(t)
  PROVE  Accounts'
<1> DEFINE b == bill[exec[t].mark]
           x == <<"refund", Surplus>>
           more == exec[t].made \cup {x}
<1>1. /\ exec[t].pc = "trans" /\ x \in exec[t].todo /\ lock \in {None, t} /\ lock' = t
      /\ exec' = [exec EXCEPT ![t].balance = Balance(t) + b.cash,
                              ![t].todo = @ \ {x}, ![t].made = @ \cup {x}]
      /\ UNCHANGED <<bill, account, zhimi, zhimiDb, accountTask, booked>>
  BY DEF TransferRefund
<1>2. x \in Ledger
  BY LedgerIsTransfer
<1>3. x \notin exec[t].made /\ HandOf(t)
  BY <1>1, <1>2 DEF Accounts, Hands, HandOf
<1>4. b \in Bills /\ b.cash \in Nat /\ account \in Nat
  BY <1>1, RunningHasBill, BillTypes DEF IInv, TypeOK
<1>5. Balance(t) = account + PutBack(exec[t].made, b) - Took(exec[t].made, b)
  BY <1>1, <1>3, BalanceInHand
<1>6. Took(more, b) = Took(exec[t].made, b) /\ PutBack(more, b) = PutBack(exec[t].made, b) + b.cash
  BY <1>3, <1>4, RefundPutBack
<1>7. Took(exec[t].made, b) \in Nat /\ PutBack(exec[t].made, b) \in Nat
  BY <1>4, MovementTypes
<1> HIDE DEF b, x, more
<1>8. Balance(t) + b.cash = account + PutBack(more, b) - Took(more, b)
  BY <1>4, <1>5, <1>6, <1>7
<1>9. (\A u \in Thread : HandOf(u))' /\ DeductedInFull'
  BY Zenon, <1>1, <1>2, <1>8, MovesOnce DEF Accounts, Moves, b, more
<1>10. QED
  BY Zenon, <1>1, <1>9, BooksNothing

\* Zhimi leave the account at once, and are booked and on their way to the copy.
LEMMA TransferZhimiAccounts ==
  ASSUME IInv, Accounts, NEW t \in Thread, NEW p \in Part, TransferZhimi(t, p)
  PROVE  Accounts'
<1> DEFINE m == exec[t].mark
           b == bill[m]
           x == <<"zhimi", p>>
<1>1. /\ exec[t].pc = "trans" /\ x \in exec[t].todo
      /\ UNCHANGED <<bill, account, lock, zhimiDb>>
  BY DEF TransferZhimi
<1>2. m \in Mark /\ b \in Bills /\ b.zhimi[p] \in Nat
  BY <1>1, RunningHasBill, BillTypes
<1>3. x \in Transfer \ Ledger
  BY LedgerIsTransfer
<1>4. /\ exec'[t].pc = "trans" /\ exec'[t].mark = m /\ exec'[t].plan = exec[t].plan
      /\ exec'[t].balance = exec[t].balance
      /\ exec'[t].todo = exec[t].todo \ {x} /\ exec'[t].made \in {exec[t].made, exec[t].made \cup {x}}
      /\ \A u \in Thread : u # t => exec'[u] = exec[u]
  <2>1. exec \in [Thread -> Exec] /\ exec[t] \in Exec
    BY DEF IInv, TypeOK, Exec
  <2> DEFINE taken == [exec[t] EXCEPT !.todo = exec[t].todo \ {x}, !.made = exec[t].made \cup {x}]
             failed == [exec[t] EXCEPT !.todo = exec[t].todo \ {x}]
  <2>2. exec' = [exec EXCEPT ![t] = taken] \/ exec' = [exec EXCEPT ![t] = failed]
    <3>1. CASE exec' = [exec EXCEPT ![t].todo = @ \ {x}, ![t].made = @ \cup {x}]
      BY <2>1, <3>1 DEF Exec
    <3>2. CASE exec' = [exec EXCEPT ![t].todo = @ \ {x}]
      BY <3>2
    <3>3. QED
      BY Zenon, <3>1, <3>2 DEF TransferZhimi
  <2>3. /\ taken.pc = exec[t].pc /\ taken.mark = m /\ taken.plan = exec[t].plan
        /\ taken.balance = exec[t].balance /\ taken.todo = exec[t].todo \ {x}
        /\ taken.made = exec[t].made \cup {x}
    BY <2>1 DEF Exec
  <2>4. /\ failed.pc = exec[t].pc /\ failed.mark = m /\ failed.plan = exec[t].plan
        /\ failed.balance = exec[t].balance /\ failed.todo = exec[t].todo \ {x}
        /\ failed.made = exec[t].made
    BY <2>1 DEF Exec
  <2> HIDE DEF taken, failed
  <2>5. exec'[t] \in {taken, failed} /\ \A u \in Thread : u # t => exec'[u] = exec[u]
    BY <2>1, <2>2
  <2>6. exec'[t].made \in {exec[t].made, exec[t].made \cup {x}}
    BY Zenon, <2>3, <2>4, <2>5
  <2>7. exec[t].pc = "trans"
    BY <1>1
  <2>8. QED
    BY Zenon, <2>3, <2>4, <2>5, <2>6, <2>7
<1>5. /\ \A y \in Ledger : y \in exec'[t].made <=> y \in exec[t].made
      /\ \A y \in Ledger : y \in exec'[t].made => y \notin exec'[t].todo
  BY <1>3, <1>4 DEF Accounts, Hands, HandOf
<1>6. (\A u \in Thread : HandOf(u))' /\ DeductedInFull'
  BY <1>1, <1>4, <1>5, MovesNothing DEF Accounts
<1>7. CASE UNCHANGED <<zhimi, accountTask, booked>>
  BY <1>1, <1>6, <1>7, BooksNothing
<1>8. CASE /\ zhimi' = zhimi - b.zhimi[p]
           /\ accountTask' = Append(accountTask, b.zhimi[p])
           /\ booked' = [booked EXCEPT ![m][x] = @ + 1]
  <2>1. booked \in [Mark -> [Transfer -> Nat]] /\ booked' \in [Mark -> [Transfer -> Nat]]
    BY TransferZhimiKeeps DEF IInv, TypeOK
  <2>2. /\ \A y \in Transfer : booked'[m][y] = booked[m][y] + IF y = x THEN 1 ELSE 0
        /\ \A n \in Mark : n # m => booked'[n] = booked[n]
    <3>1. booked[m] \in [Transfer -> Nat] /\ booked'[m] = [booked[m] EXCEPT ![x] = @ + 1]
      BY <1>2, <1>8, <2>1
    <3>2. \A y \in Transfer : booked'[m][y] = booked[m][y] + IF y = x THEN 1 ELSE 0
      BY <3>1
    <3>3. QED
      BY <1>2, <1>8, <2>1, <3>2
  <2>3. /\ \A y \in Ledger : booked'[m][y] = booked[m][y]
        /\ \A q \in Part : booked'[m][<<"zhimi", q>>] = booked[m][<<"zhimi", q>>] + IF q = p THEN 1 ELSE 0
    <3>1. booked[m] \in [Transfer -> Nat]
      BY <1>2, <2>1
    <3>2. ASSUME NEW y \in Ledger PROVE booked'[m][y] = booked[m][y]
      BY <1>3, <2>2, <3>1, LedgerIsTransfer
    <3>3. ASSUME NEW q \in Part
          PROVE  booked'[m][<<"zhimi", q>>] = booked[m][<<"zhimi", q>>] + IF q = p THEN 1 ELSE 0
      <4>1. <<"zhimi", q>> \in Transfer /\ (<<"zhimi", q>> = x <=> q = p)
        BY LedgerIsTransfer
      <4>2. QED
        BY <2>2, <4>1
    <3>4. QED
      BY <3>2, <3>3
  <2> HIDE DEF m, b, x
  <2>4. RetainedConserved'
    <3>1. \A n \in Mark : RetainedMoved(bill'[n], booked'[n]) = RetainedMoved(bill[n], booked[n])
      <4> SUFFICES ASSUME NEW n \in Mark
                   PROVE  RetainedMoved(bill'[n], booked'[n]) = RetainedMoved(bill[n], booked[n])
        OBVIOUS
      <4>1. bill' = bill
        BY <1>1
      <4>2. CASE n # m
        <5>1. booked'[n] = booked[n]
          BY <2>2, <4>2
        <5>2. QED
          BY Zenon, <4>1, <5>1
      <4>3. CASE n = m
        <5>1. RetainedMoved(b, booked'[m]) = RetainedMoved(b, booked[m])
          BY <1>2, <2>3, SameMoved
        <5>2. QED
          BY Zenon, <4>1, <4>3, <5>1 DEF b
      <4>4. QED
        BY Zenon, <4>2, <4>3
    <3>2. QED
      BY <1>1, <3>1, RetainedAlone DEF Accounts
  <2>5. ZhimiConserved'
    <3> DEFINE after == ZhimiMoves'
    <3>1. after[m] = ZhimiMoves[m] + b.zhimi[p] /\ \A n \in Mark : n # m => after[n] = ZhimiMoves[n]
      <4>1. ZhimiMoved(b, booked'[m]) = ZhimiMoved(b, booked[m]) + b.zhimi[p]
        BY <1>2, <2>1, <2>3, OneMoreZhimi
      <4>2. QED
        BY <1>1, <1>2, <2>2, <4>1 DEF ZhimiMoves, b
    <3>2. \A n \in Mark : ZhimiMoves[n] \in Int
      BY TermTypes
    <3>3. \A n \in Mark : after[n] \in Int
      BY <1>2, <3>1, <3>2
    <3> HIDE DEF after
    <3>4. SumFunctionOnSet(after, Mark) = SumFunctionOnSet(ZhimiMoves, Mark) + (after[m] - ZhimiMoves[m])
      BY <1>2, <3>1, <3>2, <3>3, SumChanges, ServiceAssumption
    <3>5. SumFunctionOnSet(ZhimiMoves, Mark) \in Int /\ ZhimiMoves[m] \in Int
      BY <1>2, <3>2, SumType, ServiceAssumption
    <3>6. SumFunctionOnSet(ZhimiMoves', Mark) = SumFunctionOnSet(ZhimiMoves, Mark) + b.zhimi[p]
      BY <1>2, <3>1, <3>4, <3>5 DEF after
    <3>7. accountTask \in Seq(Int) /\ accountTask \in Seq(Nat)
      BY DEF IInv, TypeOK
    <3>8. SumFunction(accountTask') = SumFunction(accountTask) + b.zhimi[p]
      BY <1>2, <1>8, <3>7, SumAppends
    <3>9. SumFunction(accountTask) \in Int
      BY <3>7, SequenceSumType
    <3>10. /\ zhimi = OpeningZhimi - SumFunctionOnSet(ZhimiMoves, Mark)
           /\ zhimiDb = zhimi + SumFunction(accountTask)
      BY Conserved DEF Accounts
    <3>11. OpeningZhimi \in Int
      BY ServiceAssumption
    <3>12. /\ zhimi' = OpeningZhimi - SumFunctionOnSet(ZhimiMoves', Mark)
           /\ zhimiDb' = zhimi' + SumFunction(accountTask')
      <4>1. zhimi' = zhimi - b.zhimi[p] /\ zhimiDb' = zhimiDb
        BY <1>1, <1>8
      <4>2. QED
        BY <1>2, <3>5, <3>6, <3>8, <3>9, <3>10, <3>11, <4>1
    <3>13. QED
      BY <3>12, Conserved
  <2>6. NothingBooked'
    BY <1>1, <1>2, <2>2, ServiceAssumption DEF Accounts, Hands, NothingBooked, b
  <2>7. QED
    BY <1>6, <2>4, <2>5, <2>6 DEF Accounts, Hands
<1>9. QED
  BY <1>7, <1>8 DEF TransferZhimi

\* What the execution made of the ledger is booked as the balance it leaves.
LEMMA CommitAccounts ==
  ASSUME IInv, Accounts, NEW t \in Thread, Commit(t)
  PROVE  Accounts'
<1> DEFINE m == exec[t].mark
           b == bill[m]
           made == exec[t].made
<1>1. /\ exec[t].pc = "commit" /\ exec[t] # Idle /\ m \in Mark /\ b \in Bills
      /\ exec' = [exec EXCEPT ![t] = Idle]
      /\ UNCHANGED <<bill, zhimi, zhimiDb, accountTask>>
  BY Committed
<1>2. account' = Balance(t) /\ lock' = IF lock = t THEN None ELSE lock
  BY DEF Commit
<1>3. (\A u \in Thread : HandOf(u))' /\ DeductedInFull'
  <2>1. lock = t \/ account' = account
    BY <1>2 DEF Balance
  <2>2. QED
    BY <1>1, <1>2, <2>1, LetsGo DEF Accounts
<1>4. /\ booked \in [Mark -> [Transfer -> Nat]] /\ booked' \in [Mark -> [Transfer -> Nat]]
      /\ \A n \in Mark : n # m => booked'[n] = booked[n]
      /\ \A x \in Ledger : booked'[m][x] = booked[m][x] + IF x \in made THEN 1 ELSE 0
  <2>1. \A x \in Ledger : x \in made <=> x \in Charges(b, exec[t].plan)
    BY <1>1 DEF IInv, MadeIsCharged
  <2>2. QED
    BY <2>1, CommittedLedger DEF IInv, TypeOK
<1>5. \A p \in Part : booked'[m][<<"zhimi", p>>] = booked[m][<<"zhimi", p>>]
  <2> DEFINE new == [x \in Transfer |-> booked[m][x] + IF x \in made /\ x[1] # "zhimi" THEN 1 ELSE 0]
  <2>1. booked' = [booked EXCEPT ![m] = new]
    BY DEF Commit
  <2>2. ASSUME NEW p \in Part PROVE new[<<"zhimi", p>>] = booked[m][<<"zhimi", p>>]
    <3>1. <<"zhimi", p>> \in Transfer /\ <<"zhimi", p>>[1] = "zhimi" /\ booked[m][<<"zhimi", p>>] \in Nat
      BY <1>1, <1>4, LedgerIsTransfer
    <3>2. QED
      BY <3>1
  <2> HIDE DEF new
  <2>3. QED
    BY Zenon, <1>1, <1>4, <2>1, <2>2
<1>6. Balance(t) = account + PutBack(made, b) - Took(made, b)
  BY <1>1, BalanceInHand DEF Accounts, Hands
<1>7. b = bill[m]
  OBVIOUS
<1> HIDE DEF m, b, made
<1>8. RetainedConserved'
  <2> DEFINE after == RetainedMoves'
  <2>1. /\ after[m] = RetainedMoves[m] + PutBack(made, b) - Took(made, b)
        /\ \A n \in Mark : n # m => after[n] = RetainedMoves[n]
    <3>1. RetainedMoved(b, booked'[m]) = RetainedMoved(b, booked[m]) + PutBack(made, b) - Took(made, b)
      BY <1>1, <1>4, MadeIsMoved
    <3>2. QED
      BY <1>1, <1>4, <1>7, <3>1 DEF RetainedMoves
  <2>2. \A n \in Mark : RetainedMoves[n] \in Int
    BY TermTypes
  <2>3. Took(made, b) \in Int /\ PutBack(made, b) \in Int
    BY <1>1, MovementTypes
  <2>4. \A n \in Mark : after[n] \in Int
    BY <1>1, <2>1, <2>2, <2>3
  <2> HIDE DEF after
  <2>5. SumFunctionOnSet(after, Mark) = SumFunctionOnSet(RetainedMoves, Mark) + (after[m] - RetainedMoves[m])
    BY <1>1, <2>1, <2>2, <2>4, SumChanges, ServiceAssumption
  <2>6. SumFunctionOnSet(RetainedMoves, Mark) \in Int /\ RetainedMoves[m] \in Int
    BY <1>1, <2>2, SumType, ServiceAssumption
  <2>7. SumFunctionOnSet(RetainedMoves', Mark)
          = SumFunctionOnSet(RetainedMoves, Mark) + PutBack(made, b) - Took(made, b)
    BY <2>1, <2>3, <2>5, <2>6 DEF after
  <2>8. account = OpeningRetained + SumFunctionOnSet(RetainedMoves, Mark) /\ OpeningRetained \in Int
    BY Conserved, ServiceAssumption DEF Accounts
  <2>9. account' = OpeningRetained + SumFunctionOnSet(RetainedMoves', Mark)
    BY <1>2, <1>6, <2>3, <2>6, <2>7, <2>8
  <2>10. QED
    BY <2>9, Conserved
<1>9. ZhimiConserved'
  <2>1. \A n \in Mark : ZhimiMoved(bill'[n], booked'[n]) = ZhimiMoved(bill[n], booked[n])
    BY <1>1, <1>4, <1>5, <1>7, SameMoved
  <2>2. QED
    BY <1>1, <2>1, ZhimiAlone DEF Accounts
<1>10. NothingBooked'
  BY <1>1, <1>4, <1>7, ServiceAssumption DEF Accounts, Hands, NothingBooked
<1>11. QED
  BY <1>3, <1>8, <1>9, <1>10 DEF Accounts, Hands

\* The copy comes nearer to the balance by what was on its way.
LEMMA UpdateAccountAccounts ==
  ASSUME IInv, Accounts, NEW k \in 1 .. Len(accountTask), UpdateAccount(k)
  PROVE  Accounts'
<1>1. /\ zhimiDb' = zhimiDb - accountTask[k] /\ accountTask' = RemoveAt(accountTask, k)
      /\ UNCHANGED <<bill, account, lock, zhimi, booked, exec>>
  BY DEF UpdateAccount
<1>2. accountTask \in Seq(Int) /\ accountTask[k] \in Int /\ zhimi \in Int
  BY DEF IInv, TypeOK
<1>3. SumFunction(accountTask') = SumFunction(accountTask) - accountTask[k]
  BY <1>1, <1>2, SumRemoves
<1>4. SumFunction(accountTask) \in Int
  BY <1>2, SequenceSumType
<1>5. zhimi = OpeningZhimi - SumFunctionOnSet(ZhimiMoves, Mark) /\ zhimiDb = zhimi + SumFunction(accountTask)
  BY Conserved DEF Accounts
<1>6. zhimiDb' = zhimi' + SumFunction(accountTask')
  <2>1. zhimi' = zhimi
    BY <1>1
  <2>2. QED
    BY <1>1, <1>2, <1>3, <1>4, <1>5, <2>1
<1>7. ZhimiMoves' = ZhimiMoves
  BY <1>1 DEF ZhimiMoves
<1>8. ZhimiConserved'
  BY <1>1, <1>5, <1>6, <1>7, Conserved
<1>9. RetainedConserved'
  BY <1>1, RetainedAlone DEF Accounts
<1>10. (\A u \in Thread : HandOf(u))' /\ NothingBooked' /\ DeductedInFull'
  BY <1>1 DEF Accounts, Hands, HandOf, NothingBooked, DeductedInFull
<1>11. QED
  BY <1>8, <1>9, <1>10 DEF Accounts, Hands

LEMMA NextAccounts == ASSUME IInv, Accounts, [Next]_vars PROVE Accounts'
<1>1. ASSUME NEW m \in Mark, NEW b \in Bills, PayTuition(m, b) PROVE Accounts'
  BY <1>1, PayTuitionAccounts
<1>2. ASSUME NEW t \in Thread, NEW m \in Mark, NEW b \in Bills, PayTuitionDeducted(t, m, b)
      PROVE  Accounts'
  BY <1>2, PayTuitionDeductedAccounts
<1>3. ASSUME NEW t \in Thread, NEW m \in Mark, PaySuccess(t, m) PROVE Accounts'
  BY <1>3, PaySuccessAccounts
<1>4. ASSUME NEW t \in Thread, Work(t) PROVE Accounts'
  BY <1>4, WriteRowsAccounts, TransferZhimiAccounts, TransferRetainedAccounts,
     TransferRefundAccounts, BindAndAwardAccounts, CommitAccounts DEF Work
<1>5. ASSUME NEW t \in Thread, Crash(t) PROVE Accounts'
  BY <1>5, RollBackAccounts DEF Crash
<1>6. ASSUME NEW k \in 1 .. Len(accountTask), UpdateAccount(k) PROVE Accounts'
  BY <1>6, UpdateAccountAccounts
<1>7. CASE UNCHANGED vars
  <2>1. /\ UNCHANGED <<bill, booked, account, zhimi, zhimiDb, accountTask, lock, exec>>
    BY <1>7 DEF vars
  <2>2. (\A u \in Thread : HandOf(u))' /\ DeductedInFull'
    BY <2>1 DEF Accounts, Hands, HandOf, DeductedInFull
  <2>3. QED
    BY <2>1, <2>2, BooksNothing
<1>8. QED
  BY <1>1, <1>2, <1>3, <1>4, <1>5, <1>6, <1>7 DEF Next

LEMMA AccountsAtStart == Init => Accounts
BY HandsAtStart, ConservedAtStart DEF Accounts

LEMMA AccountsHold == Spec => []Accounts
<1>1. IInv /\ Accounts /\ [Next]_vars => Accounts'
  BY NextAccounts
<1>2. QED
  BY AccountsAtStart, <1>1, Invariance, PTL DEF Spec

-----------------------------------------------------------------------------
\* The retained balance is the opening one less what settled batches took plus
\* what failed ones got back, to the last cent and in every interleaving of any
\* number of threads, even where callbacks of one batch overlap
\* (getAccountForUpdate, transMore, refundAmount).
THEOREM RetainedKept == Spec => []RetainedConserved
<1>1. Accounts => RetainedConserved
  BY DEF Accounts
<1>2. QED
  BY AccountsHold, <1>1, PTL

\* The zhimi balance is the opening one less every booked part, rolled back or
\* not, and the copy in ats_account is off by exactly the events still on their
\* way, whatever their order (AccountService.trans, UpdateAccountService).
THEOREM ZhimiKept == Spec => []ZhimiConserved
<1>1. Accounts => ZhimiConserved
  BY DEF Accounts
<1>2. QED
  BY AccountsHold, <1>1, PTL

-----------------------------------------------------------------------------
\* What a batch with a given status has moved on the retained account.
ByStatus(m) ==
  IF serial[m] = "failed" THEN bill[m].cash
  ELSE IF serial[m] = "uncheck" THEN -SumFunction(bill[m].retained) ELSE 0

\* A part that is booked once, or that is nothing, counts as it is.
LEMMA CountsOnce ==
  ASSUME NEW s, NEW n \in Nat, NEW k, k = IF s /\ n > 0 THEN 1 ELSE 0
  PROVE  k * n = IF s THEN n ELSE 0
<1>1. CASE s /\ n > 0
  BY <1>1
<1>2. CASE ~(s /\ n > 0)
  BY <1>2
<1>3. QED
  BY <1>1, <1>2

\* Where callbacks of one batch do not overlap, what is booked of a batch says
\* no more and no less than its status.
LEMMA StatusTells ==
  ASSUME IInv, NothingBooked, Exclusive, NEW m \in Mark
  PROVE  RetainedMoves[m] = ByStatus(m)
<1> DEFINE b == bill[m]  moves == booked[m]
<1>1. /\ RetainedBookedOnce /\ RetainedMoves[m] = RetainedMoved(b, moves)
      /\ b \in Bills \cup {None} /\ (serial[m] # "none" => b \in Bills)
  BY DEF IInv, Apart, Billed, TypeOK, RetainedMoves
<1>2. /\ \A i \in Item : moves[<<"retained", i>>] =
           IF serial[m] = "uncheck" /\ b.retained[i] > 0 THEN 1 ELSE 0
      /\ moves[<<"refund", Surplus>>] = IF serial[m] = "failed" THEN 1 ELSE 0
  BY <1>1 DEF RetainedBookedOnce
<1>3. CASE b = None
  BY <1>1, <1>3, ServiceAssumption DEF RetainedMoved, ByStatus
<1>4. CASE b \in Bills
  <2> DEFINE f == [i \in Item |-> moves[<<"retained", i>>] * b.retained[i]]
  <2>1. b # None /\ b.cash \in Nat /\ b.retained \in [Item -> Nat]
    BY <1>4, BillTypes
  <2>2. RetainedMoved(b, moves) = moves[<<"refund", Surplus>>] * b.cash - SumFunction(f)
    BY <2>1 DEF RetainedMoved
  <2>3. ASSUME NEW i \in Item PROVE f[i] = IF serial[m] = "uncheck" THEN b.retained[i] ELSE 0
    <3>1. /\ f[i] = moves[<<"retained", i>>] * b.retained[i] /\ b.retained[i] \in Nat
          /\ moves[<<"retained", i>>] = IF serial[m] = "uncheck" /\ b.retained[i] > 0 THEN 1 ELSE 0
      BY <1>2, <2>1
    <3> HIDE DEF b, moves, f
    <3>2. QED
      BY <3>1, CountsOnce
  <2>4. SumFunction(f) = IF serial[m] = "uncheck" THEN SumFunction(b.retained) ELSE 0
    <3>1. CASE serial[m] = "uncheck"
      <4>1. \A i \in Item : f[i] = b.retained[i]
        BY Zenon, <2>3, <3>1
      <4>2. f = b.retained
        BY <2>1, <4>1
      <4> HIDE DEF f
      <4>3. QED
        BY <3>1, <4>2
    <3>2. CASE serial[m] # "uncheck"
      <4>1. \A i \in Item : f[i] = 0
        BY Zenon, <2>3, <3>2
      <4>2. DOMAIN f = Item
        OBVIOUS
      <4> HIDE DEF f
      <4>3. SumFunctionOnSet(f, Item) = 0
        BY <4>1, SumOfZeros, ServiceAssumption
      <4>4. QED
        BY <3>2, <4>2, <4>3 DEF SumFunction
    <3>3. QED
      BY <3>1, <3>2
  <2>5. SumFunction(b.retained) \in Int
    BY <2>1, SumType, ServiceAssumption DEF SumFunction
  <2> HIDE DEF f
  <2>6. CASE serial[m] = "failed"
    BY <1>1, <1>2, <2>1, <2>2, <2>4, <2>6 DEF ByStatus
  <2>7. CASE serial[m] # "failed"
    BY <1>1, <1>2, <2>1, <2>2, <2>4, <2>5, <2>7 DEF ByStatus
  <2>8. QED
    BY <2>6, <2>7
<1>5. QED
  BY <1>1, <1>3, <1>4

\* So the balance follows from the statuses.
LEMMA BalanceByStatus ==
  ASSUME IInv, Accounts, Exclusive
  PROVE  account = OpeningRetained + SumFunction([m \in Mark |-> ByStatus(m)])
<1>1. \A m \in Mark : RetainedMoves[m] = ByStatus(m)
  BY StatusTells DEF Accounts, Hands
<1>2. RetainedMoves = [m \in Mark |-> ByStatus(m)]
  BY <1>1 DEF RetainedMoves
<1>3. account = OpeningRetained + SumFunction(RetainedMoves)
  BY Conserved DEF Accounts, SumFunction, RetainedMoves
<1>4. QED
  BY <1>2, <1>3

-----------------------------------------------------------------------------
\* The sums of the promise are the sums of this module.
LEMMA DueIsSum == \A b : Promise!Due(b) = SumFunctionOnSet(b.retained, Item)
BY Zenon DEF Promise!Due, Promise!SumFunctionOnSet, Promise!FoldFunctionOnSet,
       SumFunctionOnSet, FoldFunctionOnSet, Promise!MapThenFoldSet, MapThenFoldSet

\* The bills the promise sees.
PlacedBill == [m \in Mark |-> IF serial[m] = "none" THEN None ELSE bill[m]]

LEMMA PromiseStutters ==
  ASSUME UNCHANGED <<serial, paid, used, account>>,
         \A m \in Mark : serial[m] # "none" => bill'[m] = bill[m]
  PROVE  UNCHANGED Promise!vars
<1>1. PlacedBill' = PlacedBill
  BY DEF PlacedBill
<1>2. QED
  BY <1>1 DEF Promise!vars, PlacedBill

\* The bill and the status of one batch change.
LEMMA OneBatch ==
  ASSUME IInv, NEW m \in Mark, NEW b \in Bills, NEW s, s # "none",
         serial' = [serial EXCEPT ![m] = s], bill'[m] = b,
         \A n \in Mark : n # m /\ serial[n] # "none" => bill'[n] = bill[n]
  PROVE  PlacedBill' = [PlacedBill EXCEPT ![m] = b]
<1>1. /\ serial'[m] = s /\ \A n \in Mark : n # m => serial'[n] = serial[n]
  BY DEF IInv, TypeOK
<1>2. QED
  BY <1>1 DEF PlacedBill

LEMMA PayTuitionPlaces ==
  ASSUME IInv, NEW m \in Mark, NEW b \in Bills, PayTuition(m, b)
  PROVE  Promise!Place(m, b)
<1>1. /\ bill[m] = None /\ b.cash # 0 /\ b.items \cap paid = {} /\ b.coupons \cap used = {}
      /\ bill' = [bill EXCEPT ![m] = b] /\ serial' = [serial EXCEPT ![m] = "process"]
      /\ UNCHANGED <<paid, used, account>>
  BY DEF PayTuition, FullyDeducted, Orderable
<1>2. b.cash > 0
  BY <1>1, BillTypes
<1>3. serial[m] = "none"
  BY <1>1, ServiceAssumption DEF IInv, Billed
<1>4. PlacedBill' = [PlacedBill EXCEPT ![m] = b]
  <2>1. bill'[m] = b /\ \A n \in Mark : n # m /\ serial[n] # "none" => bill'[n] = bill[n]
    BY <1>1, BillPlaced
  <2>2. serial' = [serial EXCEPT ![m] = "process"] /\ "process" # "none"
    BY <1>1
  <2>3. QED
    BY <2>1, <2>2, OneBatch
<1>5. QED
  BY <1>1, <1>2, <1>3, <1>4 DEF Promise!Place, PlacedBill

\* All the retained parts of a bill are what it is due.
LEMMA AllTaken ==
  ASSUME NEW b \in Bills, NEW made,
         \A i \in Item : <<"retained", i>> \in made <=> b.retained[i] > 0
  PROVE  Took(made, b) = Promise!Due(b)
<1> DEFINE f == [i \in Item |-> IF <<"retained", i>> \in made THEN b.retained[i] ELSE 0]
           g == b.retained
<1>1. ASSUME NEW i \in Item PROVE f[i] = g[i]
  <2>1. b.retained[i] \in Nat /\ (<<"retained", i>> \in made <=> b.retained[i] > 0)
    BY BillTypes
  <2>2. QED
    BY <2>1
<1>2. Took(made, b) = SumFunctionOnSet(f, Item)
  BY DEF Took
<1> HIDE DEF f
<1>3. SumFunctionOnSet(f, Item) = SumFunctionOnSet(g, Item)
  BY <1>1, SumSame, ServiceAssumption
<1>4. QED
  BY <1>2, <1>3, DueIsSum

LEMMA CommitSettlesOrRefunds ==
  ASSUME IInv, Exclusive, Accounts, NEW t \in Thread, Commit(t)
  PROVE  Promise!Next
<1> PICK m, b, plan, made :
      m = exec[t].mark /\ b = bill[m] /\ plan = exec[t].plan /\ made = exec[t].made
  OBVIOUS
<1>1. /\ exec[t].pc = "commit" /\ exec[t] # Idle /\ m \in Mark /\ b \in Bills
      /\ plan \in {"deduct", "settle", "refund"}
      /\ serial' = [serial EXCEPT ![m] = IF plan = "refund" THEN "failed" ELSE "uncheck"]
      /\ paid' = IF plan # "refund" THEN paid \cup b.items ELSE paid
      /\ used' = IF plan # "refund" THEN used \cup b.coupons ELSE used
      /\ account' \in Nat /\ UNCHANGED bill
  BY Committed
<1>2. serial[m] = IF plan = "deduct" THEN "none" ELSE "process"
  BY <1>1 DEF IInv, Apart, Open
<1>known. m \in Mark /\ b \in Bills
  BY <1>1
<1>3. account' = account + PutBack(made, b) - Took(made, b)
  BY <1>1, BalanceInHand DEF Commit, Accounts, Hands
<1>4. \A x \in Ledger : x \in made <=> x \in Charges(b, plan)
  BY <1>1 DEF IInv, MadeIsCharged
<1>5. /\ \A i \in Item : <<"retained", i>> \in made <=> plan # "refund" /\ b.retained[i] > 0
      /\ <<"refund", Surplus>> \in made <=> plan = "refund"
  BY <1>1, <1>4, ChargeTypes, LedgerIsTransfer
<1>6. Took(made, b) \in Nat /\ account \in Nat /\ b.cash \in Nat
  BY <1>1, MovementTypes, BillTypes DEF IInv, TypeOK
<1>7. plan = "deduct" => b.cash = 0
  BY DEF Accounts, Hands, DeductedInFull
<1>8. b = bill[m]
  OBVIOUS
<1>9. PlacedBill' = [PlacedBill EXCEPT ![m] = b]
  BY <1>1, <1>8, OneBatch
<1>10. CASE plan = "refund"
  <2>1. made \cap Ledger = {<<"refund", Surplus>>}
    BY <1>5, <1>10, LedgerIsTransfer DEF Ledger
  <2>2. Took(made, b) = 0 /\ PutBack(made, b) = b.cash
    <3>1. \A i \in Item : <<"retained", i>> \notin made
      BY Zenon, <1>5, <1>10
    <3>2. QED
      BY <1>5, <1>10, <3>1, SumOfZeros, ServiceAssumption DEF Took, PutBack
  <2>3. account' = account + b.cash
    BY <1>3, <1>6, <2>2
  <2>4. PlacedBill' = PlacedBill /\ PlacedBill[m] = b
    BY <1>1, <1>2, <1>8, <1>9, <1>10 DEF PlacedBill
  <2>5. Promise!Refund(m)
    BY <1>1, <1>2, <1>10, <2>3, <2>4 DEF Promise!Refund, PlacedBill
  <2>6. QED
    BY <1>1, <2>5 DEF Promise!Next
<1>11. CASE plan # "refund"
  <2>1. Took(made, b) = Promise!Due(b) /\ PutBack(made, b) = 0
    BY <1>1, <1>5, <1>11, AllTaken DEF PutBack
  <2>2. account' = account - Promise!Due(b) /\ Promise!Due(b) <= account
    BY <1>1, <1>3, <1>6, <2>1
  <2>3. Promise!Settled(m, b)
    BY <1>1, <1>9, <1>11, <2>2 DEF Promise!Settled, PlacedBill
  <2>4. CASE plan = "deduct"
    <3>1. Promise!Deduct(m, b)
      BY <1>2, <1>7, <2>3, <2>4 DEF Promise!Deduct
    <3>2. QED
      BY <1>known, <3>1 DEF Promise!Next
  <2>5. CASE plan = "settle"
    <3>1. PlacedBill[m] = b
      <4>1. serial[m] # "none"
        BY Zenon, <1>2, <2>5
      <4>2. QED
        BY <1>known, <1>8, <4>1 DEF PlacedBill
    <3>2. Promise!Settle(m)
      BY <1>2, <2>3, <2>5, <3>1 DEF Promise!Settle, Promise!Settled, PlacedBill
    <3>3. QED
      BY <1>known, <3>2 DEF Promise!Next
  <2>6. QED
    BY <1>1, <1>11, <2>4, <2>5
<1>12. QED
  BY <1>10, <1>11

\* A step of the core is a step of the promise, or is not seen.
LEMMA PromiseStep ==
  ASSUME IInv, Exclusive, Accounts, [Next]_vars
  PROVE  [Promise!Next]_(Promise!vars)
<1>1. ASSUME NEW m \in Mark, NEW b \in Bills, PayTuition(m, b) PROVE Promise!Next
  BY <1>1, PayTuitionPlaces DEF Promise!Next
<1>2. ASSUME NEW t \in Thread, NEW m \in Mark, NEW b \in Bills, PayTuitionDeducted(t, m, b)
      PROVE  UNCHANGED Promise!vars
  <2>1. /\ bill[m] = None /\ bill' = [bill EXCEPT ![m] = b]
        /\ UNCHANGED <<serial, paid, used, account>>
    BY <1>2 DEF PayTuitionDeducted
  <2>2. serial[m] = "none" /\ \A n \in Mark : n # m => bill'[n] = bill[n]
    BY <2>1, BillPlaced, ServiceAssumption DEF IInv, Billed
  <2>3. QED
    BY <2>1, <2>2, PromiseStutters
<1>3. ASSUME NEW t \in Thread, Commit(t) PROVE Promise!Next
  BY <1>3, CommitSettlesOrRefunds
<1>4. CASE UNCHANGED <<bill, serial, paid, used, account>>
  BY <1>4, PromiseStutters
<1>5. QED
  BY <1>1, <1>2, <1>3, <1>4, WhoSettles

LEMMA PromiseStarts == Init => Promise!Init
BY DEF Init, Promise!Init

\* The payment core implements its promise where callbacks of one batch do not
\* overlap: the step of payTuition that leaves cash to pay places a batch, a
\* commit settles or refunds it whole, and everything else the threads do, row
\* locks, zhimi commands, rollbacks and crashes included, is not seen.
THEOREM PromiseKept == ASSUME Exclusive PROVE Spec => KeepsPromise
<1>1. IInv /\ Accounts /\ [Next]_vars => [Promise!Next]_(Promise!vars)
  BY PromiseStep
<1>2. QED
  BY PromiseStarts, <1>1, Invariance, AccountsHold, PTL DEF Spec, KeepsPromise, Promise!Spec
=============================================================================
