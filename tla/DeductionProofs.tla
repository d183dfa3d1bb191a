--------------------------- MODULE DeductionProofs --------------------------
(* What payTuition's two deduction passes guarantee for every set of items, *)
(* every request and every order of the passes.                             *)
EXTENDS Deduction, Sums

\* What the zhimi pass has done so far: visited items have their net fee split
\* over zhimi and what is payable, and zhimi is left only when it covered them all.
ZhimiPass ==
  /\ \A i \in Item \ left : zhimi[i] + payable[i] = NetFee(req.fee, req.off, i)
  /\ zmDeduction > 0 => \A i \in Item \ left : payable[i] = 0
  /\ retained = [i \in Item |-> 0] /\ allPayable = 0 /\ cashSerial = {}

\* What the retained pass has done so far.
RetainedPass ==
  /\ \A i \in Item : zhimi[i] + retained[i] + payable[i] = NetFee(req.fee, req.off, i)
  /\ \A i \in left : retained[i] = 0
  /\ zmDeduction > 0 => \A i \in Item : payable[i] = 0 /\ retained[i] = 0
  /\ accDeduction > 0 => \A i \in Item \ left : payable[i] = 0
  /\ (\E i \in Item \ left : payable[i] > 0) <=> allPayable > 0
  /\ \A i \in Item \ left : NeedsCashSerial(i, payable[i]) => i \in cashSerial

\* The inductive invariant.
Passes ==
  /\ phase = "check" => left = Item /\ zmDeduction = req.zm /\ accDeduction = req.acc
                        /\ payable = req.fee /\ zhimi = [i \in Item |-> 0]
                        /\ retained = [i \in Item |-> 0] /\ allPayable = 0 /\ cashSerial = {}
  /\ phase = "zhimi" => ZhimiPass
  /\ phase \in {"retained", "done"} => RetainedPass
  /\ phase = "done" => left = {}

IInv == TypeOK /\ Passes

-----------------------------------------------------------------------------
\* The smaller of two amounts is an amount, and the rest of either is one too.
LEMMA LesserFits ==
  ASSUME NEW a \in Nat, NEW b \in Nat
  PROVE  /\ Lesser(a, b) \in Nat
         /\ a - Lesser(a, b) \in Nat /\ b - Lesser(a, b) \in Nat
         /\ a - Lesser(a, b) > 0 => b - Lesser(a, b) = 0
BY DEF Lesser

\* What a request says about an item.
LEMMA RequestTypes ==
  ASSUME req \in Requests
  PROVE  /\ req.fee \in [Item -> Nat] /\ req.off \in [Item -> Nat]
         /\ req.zm \in Int /\ req.acc \in Int
BY DeductionAssumption

\* The net fee of an item is an amount, and its fee where no coupon applies.
LEMMA NetFeeFits ==
  ASSUME req \in Requests, NEW i \in Item
  PROVE  /\ NetFee(req.fee, req.off, i) \in Nat
         /\ req.off[i] = 0 => NetFee(req.fee, req.off, i) = req.fee[i]
BY RequestTypes, LesserFits DEF NetFee, Lesser

LEMMA InitHolds == Init => IInv
BY RequestTypes DEF Init, IInv, TypeOK, Passes

\* The checks let a deduction into the passes only if it is not negative.
LEMMA CheckKeeps == IInv /\ Check => IInv'
<1> SUFFICES ASSUME IInv, Check PROVE IInv'
  OBVIOUS
<1>1. TypeOK'
  BY RequestTypes DEF IInv, TypeOK, Passes, Check, Refusable
<1>2. Passes'
  BY DEF IInv, TypeOK, Check, Passes, ZhimiPass
<1>3. QED
  BY <1>1, <1>2 DEF IInv

\* One item of the zhimi pass.
LEMMA DeductZhimiKeeps == ASSUME NEW i \in Item PROVE IInv /\ DeductZhimi(i) => IInv'
<1> SUFFICES ASSUME IInv, DeductZhimi(i) PROVE IInv'
  OBVIOUS
<1> DEFINE sum == NetFee(req.fee, req.off, i)
           take == Lesser(zmDeduction, sum)
<1>1. TypeOK /\ Passes /\ phase = "zhimi" /\ i \in left /\ ZhimiPass
  BY DEF IInv, Passes, DeductZhimi, IsNext
<1>2. sum \in Nat /\ zmDeduction \in Nat
  BY <1>1, NetFeeFits DEF TypeOK
<1>3. /\ take \in Nat /\ zmDeduction - take \in Nat /\ sum - take \in Nat
      /\ zmDeduction - take > 0 => sum - take = 0
  BY <1>2, LesserFits
<1>4. /\ zhimi' = [zhimi EXCEPT ![i] = take] /\ payable' = [payable EXCEPT ![i] = sum - take]
      /\ zmDeduction' = zmDeduction - take /\ left' = left \ {i}
      /\ UNCHANGED <<req, phase, accDeduction, retained, allPayable, cashSerial>>
  BY DEF DeductZhimi
<1> HIDE DEF sum, take
<1>5. TypeOK'
  BY <1>1, <1>2, <1>3, <1>4 DEF TypeOK
<1>6. ZhimiPass'
  <2>1. ASSUME NEW j \in (Item \ left)'
        PROVE  (zhimi[j] + payable[j] = NetFee(req.fee, req.off, j))'
    <3>1. CASE j = i
      BY <1>1, <1>2, <1>3, <1>4, <3>1 DEF TypeOK, sum
    <3>2. CASE j # i
      BY <1>1, <1>4, <3>2, <2>1 DEF TypeOK, ZhimiPass
    <3>3. QED
      BY <3>1, <3>2
  <2>2. ASSUME zmDeduction' > 0, NEW j \in (Item \ left)'
        PROVE  payable'[j] = 0
    <3>1. zmDeduction > 0
      BY <1>2, <1>3, <1>4, <2>2
    <3>2. QED
      BY <1>1, <1>3, <1>4, <2>2, <3>1 DEF TypeOK, ZhimiPass
  <2>3. QED
    BY <1>1, <1>4, <2>1, <2>2 DEF ZhimiPass
<1>7. QED
  BY <1>1, <1>4, <1>5, <1>6 DEF IInv, Passes

\* Between the passes everything is visited once and about to be visited again.
LEMMA SortByDelayNumKeeps == IInv /\ SortByDelayNum => IInv'
<1> SUFFICES ASSUME IInv, SortByDelayNum PROVE IInv'
  OBVIOUS
<1>1. TypeOK'
  BY DEF IInv, TypeOK, SortByDelayNum
<1>2. RetainedPass'
  BY DEF IInv, TypeOK, Passes, ZhimiPass, SortByDelayNum, RetainedPass
<1>3. QED
  BY <1>1, <1>2 DEF IInv, Passes, SortByDelayNum

\* One item of the retained pass.
LEMMA DeductRetainedKeeps == ASSUME NEW i \in Item PROVE IInv /\ DeductRetained(i) => IInv'
<1> SUFFICES ASSUME IInv, DeductRetained(i) PROVE IInv'
  OBVIOUS
<1> DEFINE take == Lesser(accDeduction, payable[i])
           sum == payable[i] - take
<1>1. TypeOK /\ Passes /\ phase = "retained" /\ i \in left /\ RetainedPass
  BY DEF IInv, Passes, DeductRetained, IsNext
<1>2. payable[i] \in Nat /\ accDeduction \in Nat
  BY <1>1 DEF TypeOK
<1>3. /\ take \in Nat /\ accDeduction - take \in Nat /\ sum \in Nat
      /\ accDeduction - take > 0 => sum = 0
  BY <1>2, LesserFits
<1>4. /\ retained' = [retained EXCEPT ![i] = take] /\ payable' = [payable EXCEPT ![i] = sum]
      /\ accDeduction' = accDeduction - take /\ left' = left \ {i}
      /\ allPayable' = allPayable + sum
      /\ cashSerial' = IF NeedsCashSerial(i, sum) THEN cashSerial \cup {i} ELSE cashSerial
      /\ UNCHANGED <<req, phase, zmDeduction, zhimi>>
  BY DEF DeductRetained
<1>5. payable[i] = 0 => take = 0 /\ sum = 0
  <2> SUFFICES ASSUME payable[i] = 0 PROVE take = 0 /\ sum = 0
    OBVIOUS
  <2>1. take = 0
    BY <1>2 DEF Lesser
  <2>2. QED
    BY <2>1
<1>6. take + sum = payable[i]
  BY <1>2, <1>3
<1> HIDE DEF sum, take
<1>7. TypeOK'
  BY <1>1, <1>2, <1>3, <1>4 DEF TypeOK
<1>8. RetainedPass'
  <2>1. ASSUME NEW j \in Item
        PROVE  (zhimi[j] + retained[j] + payable[j] = NetFee(req.fee, req.off, j))'
    BY <1>1, <1>2, <1>3, <1>4, <1>6 DEF TypeOK, RetainedPass
  <2>2. (\A j \in left : retained[j] = 0)'
    BY <1>1, <1>4 DEF TypeOK, RetainedPass
  <2>3. (zmDeduction > 0 => \A j \in Item : payable[j] = 0 /\ retained[j] = 0)'
    BY <1>1, <1>4, <1>5 DEF TypeOK, RetainedPass
  <2>4. ((\E j \in Item \ left : payable[j] > 0) <=> allPayable > 0)'
    BY <1>1, <1>2, <1>3, <1>4 DEF TypeOK, RetainedPass
  <2>5. (accDeduction > 0 => \A j \in Item \ left : payable[j] = 0)'
    <3>1. accDeduction' > 0 => accDeduction > 0 /\ sum = 0
      BY <1>2, <1>3, <1>4
    <3>2. QED
      BY <1>1, <1>4, <3>1 DEF TypeOK, RetainedPass
  <2>6. (\A j \in Item \ left : NeedsCashSerial(j, payable[j]) => j \in cashSerial)'
    BY <1>1, <1>3, <1>4 DEF TypeOK, RetainedPass, NeedsCashSerial
  <2>7. QED
    BY <2>1, <2>2, <2>3, <2>4, <2>6, <2>5 DEF RetainedPass
<1>9. QED
  BY <1>1, <1>4, <1>7, <1>8 DEF IInv, Passes

LEMMA FinishKeeps == IInv /\ Finish => IInv'
BY DEF IInv, TypeOK, Passes, RetainedPass, NeedsCashSerial, Finish

LEMMA Invariance == Spec => []IInv
<1>1. IInv /\ [Next]_vars => IInv'
  <2> SUFFICES ASSUME IInv, [Next]_vars PROVE IInv'
    OBVIOUS
  <2>1. CASE Check
    BY <2>1, CheckKeeps
  <2>2. ASSUME NEW i \in Item, DeductZhimi(i) PROVE IInv'
    BY <2>2, DeductZhimiKeeps
  <2>3. ASSUME NEW i \in Item, DeductRetained(i) PROVE IInv'
    BY <2>3, DeductRetainedKeeps
  <2>4. CASE SortByDelayNum
    BY <2>4, SortByDelayNumKeeps
  <2>5. CASE Finish
    BY <2>5, FinishKeeps
  <2>6. CASE UNCHANGED vars
    BY <2>6 DEF vars, IInv, TypeOK, Passes, ZhimiPass, RetainedPass, NeedsCashSerial
  <2>7. QED
    BY <2>1, <2>2, <2>3, <2>4, <2>5, <2>6 DEF Next
<1>2. QED
  BY InitHolds, <1>1, PTL DEF Spec

-----------------------------------------------------------------------------
\* No deduction is used beyond what was asked, and none turns an amount negative
\* (zmDeductionDetail, accDeduction).
THEOREM TypeCorrect == Spec => []TypeOK
<1>1. IInv => TypeOK
  BY DEF IInv
<1>2. QED
  BY Invariance, <1>1, PTL

\* Whatever the items, the request and the orders of the two passes: a bill that
\* payTuition arrives at splits each net fee exactly, and leaves zhimi over only
\* when neither cash nor retained money is due.
THEOREM BillIsExact == Spec => []DoneIsBill
<1>1. IInv => DoneIsBill
  <2> SUFFICES ASSUME IInv, phase = "done" PROVE IsBill(Bill, Item, Surplus, req.fee, req.off)
    BY DEF DoneIsBill
  <2>1. TypeOK /\ RetainedPass /\ left = {}
    BY DEF IInv, Passes
  <2>2. /\ Bill.items = Item /\ Bill.retained = retained /\ Bill.cash = allPayable
        /\ Bill.zhimi[Surplus] = zmDeduction /\ \A i \in Item : Bill.zhimi[i] = zhimi[i]
    BY DeductionAssumption DEF Bill, Part
  <2>3. ASSUME NEW i \in Item PROVE CashPart(Bill, i, req.fee, req.off) = payable[i]
    BY <2>1, <2>2, NetFeeFits DEF CashPart, RetainedPass, TypeOK
  <2>4. QED
    BY <2>1, <2>2, <2>3 DEF IsBill, RetainedPass, TypeOK
<1>2. QED
  BY Invariance, <1>1, PTL

\* Every serial of a bill has a sub serial, also that of an item without a fee
\* (accDeduction makes a cash sub serial of nothing for it).
THEOREM SubSerials == Spec => []EverySerialHasASubSerial
<1>1. IInv => EverySerialHasASubSerial
  BY RequestTypes, NetFeeFits
     DEF IInv, TypeOK, Passes, RetainedPass, NeedsCashSerial, EverySerialHasASubSerial
<1>2. QED
  BY Invariance, <1>1, PTL

-----------------------------------------------------------------------------
\* The sums so far: what the passes have handed out and still hold is what was
\* asked, and cash is due for what the second pass has visited.
SumsSoFar ==
  /\ SumFunctionOnSet(zhimi, Item) + zmDeduction = req.zm
  /\ SumFunctionOnSet(retained, Item) + accDeduction = req.acc
  /\ phase \in {"retained", "done"} => allPayable = SumFunctionOnSet(payable, Item \ left)
  /\ phase \notin {"retained", "done"} => allPayable = 0
  /\ phase \in {"check", "zhimi"} => \A i \in left : zhimi[i] = 0

\* Nothing is handed out at the start.
LEMMA NothingHandedOut == Init => SumsSoFar
<1> SUFFICES ASSUME Init PROVE SumsSoFar
  OBVIOUS
<1>1. \A i \in Item : zhimi[i] = 0 /\ retained[i] = 0
  BY DEF Init
<1>2. SumFunctionOnSet(zhimi, Item) = 0 /\ SumFunctionOnSet(retained, Item) = 0
  BY <1>1, SumOfZeros, DeductionAssumption
<1>3. req.zm \in Int /\ req.acc \in Int
  BY RequestTypes DEF Init
<1>4. QED
  BY <1>2, <1>3 DEF Init, SumsSoFar

\* One item gets its share.
LEMMA ShareAdds ==
  ASSUME NEW f, NEW g, NEW i \in Item, \A j \in Item : f[j] \in Nat /\ g[j] \in Nat,
         f[i] = 0, \A j \in Item : j # i => g[j] = f[j]
  PROVE  /\ SumFunctionOnSet(g, Item) = SumFunctionOnSet(f, Item) + g[i]
         /\ SumFunctionOnSet(f, Item) \in Int
<1>1. SumFunctionOnSet(g, Item) = SumFunctionOnSet(f, Item) + (g[i] - f[i])
  BY SumChanges, DeductionAssumption
<1>2. SumFunctionOnSet(f, Item) \in Int
  BY SumType, DeductionAssumption
<1>3. QED
  BY <1>1, <1>2

LEMMA DeductZhimiAddsUp ==
  ASSUME IInv, SumsSoFar, NEW i \in Item, DeductZhimi(i)
  PROVE  SumsSoFar'
<1> DEFINE sum == NetFee(req.fee, req.off, i)
           take == Lesser(zmDeduction, sum)
<1>1. /\ zhimi' = [zhimi EXCEPT ![i] = take] /\ zmDeduction' = zmDeduction - take
      /\ phase = "zhimi" /\ zhimi[i] = 0 /\ left' = left \ {i}
      /\ UNCHANGED <<req, phase, accDeduction, retained, allPayable>>
  BY DEF DeductZhimi, IsNext, SumsSoFar
<1>2. /\ zhimi \in [Item -> Nat] /\ zmDeduction \in Nat /\ req.zm \in Int
  BY <1>1, RequestTypes DEF IInv, TypeOK
<1>3. take \in Nat
  BY <1>2, NetFeeFits, LesserFits DEF IInv, TypeOK
<1> HIDE DEF take
<1>4. SumFunctionOnSet(zhimi, Item) + zmDeduction = req.zm
  BY DEF SumsSoFar
<1>5. SumFunctionOnSet(zhimi', Item) + zmDeduction' = req.zm
  <2> DEFINE g == zhimi'
  <2>1. /\ \A j \in Item : zhimi[j] \in Nat /\ g[j] \in Nat
        /\ \A j \in Item : j # i => g[j] = zhimi[j]
        /\ g[i] = take /\ zhimi[i] = 0 /\ zmDeduction' = zmDeduction - take
    BY <1>1, <1>2, <1>3
  <2> HIDE DEF g
  <2>2. /\ SumFunctionOnSet(g, Item) = SumFunctionOnSet(zhimi, Item) + g[i]
        /\ SumFunctionOnSet(zhimi, Item) \in Int
    BY <2>1, ShareAdds
  <2>3. SumFunctionOnSet(g, Item) + zmDeduction' = req.zm
    BY <1>2, <1>3, <1>4, <2>1, <2>2
  <2>4. QED
    BY <2>3 DEF g
<1>6. \A j \in left' : zhimi'[j] = 0
  BY <1>1, <1>2 DEF SumsSoFar
<1>7. QED
  BY <1>1, <1>5, <1>6 DEF SumsSoFar

LEMMA DeductRetainedAddsUp ==
  ASSUME IInv, SumsSoFar, NEW i \in Item, DeductRetained(i)
  PROVE  SumsSoFar'
<1> DEFINE take == Lesser(accDeduction, payable[i])
           sum == payable[i] - take
<1>1. /\ retained' = [retained EXCEPT ![i] = take] /\ accDeduction' = accDeduction - take
      /\ payable' = [payable EXCEPT ![i] = sum] /\ allPayable' = allPayable + sum
      /\ left' = left \ {i} /\ phase = "retained" /\ i \in left
      /\ UNCHANGED <<req, phase, zmDeduction, zhimi>>
  BY DEF DeductRetained, IsNext
<1>2. /\ retained \in [Item -> Nat] /\ accDeduction \in Nat /\ payable \in [Item -> Nat]
      /\ req.acc \in Int /\ retained[i] = 0 /\ left \subseteq Item
  BY <1>1, RequestTypes DEF IInv, TypeOK, Passes, RetainedPass
<1>3. take \in Nat /\ sum \in Nat
  BY <1>2, LesserFits
<1> HIDE DEF take, sum
<1>4. SumFunctionOnSet(retained, Item) + accDeduction = req.acc
  BY DEF SumsSoFar
<1>5. SumFunctionOnSet(retained', Item) + accDeduction' = req.acc
  <2> DEFINE g == retained'
  <2>1. /\ \A j \in Item : retained[j] \in Nat /\ g[j] \in Nat
        /\ \A j \in Item : j # i => g[j] = retained[j]
        /\ g[i] = take /\ retained[i] = 0 /\ accDeduction' = accDeduction - take
    BY <1>1, <1>2, <1>3
  <2> HIDE DEF g
  <2>2. /\ SumFunctionOnSet(g, Item) = SumFunctionOnSet(retained, Item) + g[i]
        /\ SumFunctionOnSet(retained, Item) \in Int
    BY <2>1, ShareAdds
  <2>3. SumFunctionOnSet(g, Item) + accDeduction' = req.acc
    BY <1>2, <1>3, <1>4, <2>1, <2>2
  <2>4. QED
    BY <2>3 DEF g
<1>6. allPayable' = SumFunctionOnSet(payable', Item \ left')
  <2> DEFINE seen == Item \ left  rest == payable'
  <2>1. Item \ left' = seen \cup {i} /\ (seen \cup {i}) \ {i} = seen /\ i \notin seen
    BY <1>1, <1>2
  <2>2. IsFiniteSet(seen) /\ IsFiniteSet(seen \cup {i})
    BY DeductionAssumption, FS_Subset
  <2>3. /\ \A j \in seen \cup {i} : rest[j] \in Int /\ payable[j] \in Int
        /\ \A j \in seen : rest[j] = payable[j]
        /\ rest[i] = sum
    BY <1>1, <1>2, <1>3
  <2>4. allPayable = SumFunctionOnSet(payable, seen)
    BY <1>1 DEF SumsSoFar
  <2>5. allPayable' = allPayable + sum
    BY <1>1
  <2> HIDE DEF seen, rest
  <2>6. SumFunctionOnSet(rest, seen \cup {i}) = rest[i] + SumFunctionOnSet(rest, seen)
    BY <2>1, <2>2, <2>3, SumTakes
  <2>7. SumFunctionOnSet(rest, seen) = SumFunctionOnSet(payable, seen)
    BY <2>2, <2>3, SumSame
  <2>8. SumFunctionOnSet(payable, seen) \in Int
    BY <2>2, <2>3, SumType
  <2>9. allPayable' = SumFunctionOnSet(rest, seen \cup {i})
    BY <1>3, <2>3, <2>4, <2>5, <2>6, <2>7, <2>8
  <2>10. QED
    BY <2>1, <2>9 DEF rest
<1>7. QED
  BY <1>1, <1>5, <1>6 DEF SumsSoFar

\* The second pass has not visited anything when it begins.
LEMMA SortAddsUp ==
  ASSUME SumsSoFar, SortByDelayNum
  PROVE  SumsSoFar'
<1>1. /\ phase = "zhimi" /\ phase' = "retained" /\ left' = Item
      /\ UNCHANGED <<req, zmDeduction, accDeduction, zhimi, retained, payable, allPayable>>
  BY DEF SortByDelayNum
<1>2. allPayable' = 0 /\ Item \ left' = {}
  BY <1>1 DEF SumsSoFar
<1> DEFINE rest == payable'
<1>3. SumFunctionOnSet(rest, {}) = 0
  BY SumOfNothing
<1>4. allPayable' = SumFunctionOnSet(payable', Item \ left')
  BY <1>2, <1>3
<1>5. QED
  BY <1>1, <1>4 DEF SumsSoFar

LEMMA StepAddsUp == ASSUME IInv, SumsSoFar, [Next]_vars PROVE SumsSoFar'
<1>1. CASE Check
  BY <1>1 DEF Check, SumsSoFar
<1>2. CASE Finish
  BY <1>2 DEF Finish, SumsSoFar
<1>3. CASE UNCHANGED vars
  BY <1>3 DEF vars, SumsSoFar
<1>4. QED
  BY <1>1, <1>2, <1>3, SortAddsUp, DeductZhimiAddsUp, DeductRetainedAddsUp DEF Next

\* A finished bill with all its sums: what is due is what the deductions took and
\* what is left to pay, and what a deduction leaves over leaves nothing to pay.
LEMMA FinishedSums ==
  ASSUME IInv, SumsSoFar, phase = "done"
  PROVE  LET Sum(f) == SumFunctionOnSet(f, Item)
         IN  /\ {Sum(zhimi), Sum(retained), Sum(payable), zmDeduction, accDeduction} \subseteq Nat
             /\ Sum([i \in Item |-> NetFee(req.fee, req.off, i)])
                  = Sum(zhimi) + Sum(retained) + Sum(payable)
             /\ Sum(zhimi) + zmDeduction = req.zm /\ Sum(retained) + accDeduction = req.acc
             /\ allPayable = Sum(payable)
             /\ zmDeduction > 0 => Sum(retained) = 0 /\ Sum(payable) = 0
             /\ accDeduction > 0 => Sum(payable) = 0
<1> DEFINE Sum(f) == SumFunctionOnSet(f, Item)
           net == [i \in Item |-> NetFee(req.fee, req.off, i)]
           rest == [i \in Item |-> retained[i] + payable[i]]
<1>1. TypeOK /\ RetainedPass /\ left = {} /\ IsFiniteSet(Item)
  BY DeductionAssumption DEF IInv, Passes
<1>2. /\ \A i \in Item : zhimi[i] \in Nat /\ retained[i] \in Nat /\ payable[i] \in Nat
      /\ zmDeduction \in Nat /\ accDeduction \in Nat
  BY <1>1 DEF TypeOK
<1>3. \A i \in Item : rest[i] = retained[i] + payable[i] /\ net[i] = zhimi[i] + rest[i]
  BY <1>1, <1>2 DEF RetainedPass
<1>4. Sum(zhimi) \in Nat /\ Sum(retained) \in Nat /\ Sum(payable) \in Nat
  BY <1>1, <1>2, SumOfNaturals
<1> HIDE DEF net, rest
<1>5. Sum(rest) = Sum(retained) + Sum(payable)
  BY <1>1, <1>2, <1>3, SumOfSums
<1>6. Sum(net) = Sum(zhimi) + Sum(rest)
  BY <1>1, <1>2, <1>3, SumOfSums
<1>7. Sum(net) = Sum(zhimi) + Sum(retained) + Sum(payable)
  BY <1>4, <1>5, <1>6
<1>8. zmDeduction > 0 => Sum(retained) = 0 /\ Sum(payable) = 0
  BY <1>1, SumOfZeros DEF RetainedPass
<1>9. accDeduction > 0 => Sum(payable) = 0
  BY <1>1, SumOfZeros DEF RetainedPass
<1>10. /\ Sum(zhimi) + zmDeduction = req.zm /\ Sum(retained) + accDeduction = req.acc
       /\ allPayable = Sum(payable)
  BY <1>1 DEF SumsSoFar
<1>11. QED
  BY <1>2, <1>4, <1>7, <1>8, <1>9, <1>10 DEF net

\* The cash of a batch (allPayable of accDeduction) is what all net fees together
\* exceed the asked deductions by: neither the order of the two sorts nor the
\* order in which the database returns equal numbers changes what a client pays.
THEOREM CashIsWhatRemains == Spec => []CashWhateverOrder
<1>1. IInv /\ SumsSoFar /\ [Next]_vars => SumsSoFar'
  BY StepAddsUp
<1>2. IInv /\ SumsSoFar => CashWhateverOrder
  <2> SUFFICES ASSUME IInv, SumsSoFar, phase = "done" PROVE CashWhateverOrder
    BY DEF CashWhateverOrder
  <2> DEFINE net == [i \in Item |-> NetFee(req.fee, req.off, i)]
             due == SumFunctionOnSet(net, Item)
             taken == SumFunctionOnSet(zhimi, Item)
             used == SumFunctionOnSet(retained, Item)
             cash == SumFunctionOnSet(payable, Item)
  <2>1. /\ {taken, used, cash, zmDeduction, accDeduction} \subseteq Nat
        /\ due = taken + used + cash
        /\ taken + zmDeduction = req.zm /\ used + accDeduction = req.acc
        /\ allPayable = cash
        /\ zmDeduction > 0 => used = 0 /\ cash = 0
        /\ accDeduction > 0 => cash = 0
    BY FinishedSums
  <2>2. SumFunction(net) = due
    BY DEF SumFunction
  <2> HIDE DEF due, taken, used, cash, net
  <2>3. due \in Nat /\ req.zm + req.acc = taken + zmDeduction + used + accDeduction
    BY <2>1
  <2>4. allPayable = due - Lesser(req.zm + req.acc, due)
    BY <2>1, <2>3 DEF Lesser
  <2>5. QED
    BY <2>2, <2>4 DEF CashWhateverOrder, net
<1>3. QED
  BY Invariance, NothingHandedOut, <1>1, <1>2, PTL DEF Spec

\* Over all items nothing is lost: zhimi and retained money that were asked are
\* taken by items or left over, and the cash of the batch (allPayable) is what the
\* items have still to pay, in whatever order they were visited.
THEOREM NothingLost == Spec => []DeductionsAddUp
<1>1. IInv /\ SumsSoFar /\ [Next]_vars => SumsSoFar'
  BY StepAddsUp
<1>2. IInv /\ SumsSoFar /\ CashWhateverOrder => DeductionsAddUp
  <2> SUFFICES ASSUME IInv, SumsSoFar, CashWhateverOrder PROVE DeductionsAddUp
    OBVIOUS
  <2>1. DOMAIN zhimi = Item /\ DOMAIN retained = Item /\ DOMAIN payable = Item
    BY DEF IInv, TypeOK
  <2>2. phase = "done" => Item \ left = Item
    BY DEF IInv, Passes
  <2>3. QED
    BY <2>1, <2>2 DEF SumsSoFar, DeductionsAddUp, SumFunction
<1>3. QED
  BY Invariance, NothingHandedOut, CashIsWhatRemains, <1>1, <1>2, PTL DEF Spec
=============================================================================
