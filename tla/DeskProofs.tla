------------------------------ MODULE DeskProofs -----------------------------
(***************************************************************************)
(* For any number of years the clicks on the desk page end in order; for any  *)
(* fees and coupons setDeduction is sound and leaves nothing over, and the    *)
(* bill of the back office is what the page has shown.                        *)
(***************************************************************************)
EXTENDS Desk, Sums, TLAPS

BoxesTypeOK ==
  /\ year \in [Year -> BOOLEAN] /\ all \in BOOLEAN
  /\ pending \subseteq Year /\ turn \in BOOLEAN

\* While boxes are being ticked, those that are or will be ticked have no gap.
Filling ==
  turn =>
    /\ \A y \in pending : ~year[y]
    /\ \A x, y \in Year :
         x < y /\ (year[y] \/ y \in pending) => year[x] \/ x \in pending

\* While boxes are being cleared, those that stay ticked have none.
Clearing ==
  ~turn =>
    /\ \A y \in pending : year[y]
    /\ \A x, y \in Year :
         x < y /\ year[y] /\ y \notin pending => year[x] /\ x \notin pending

\* When the script rests, the box of all is right.
AllIsAll == pending = {} => (all <=> \A y \in Year : year[y])

BoxesInv == BoxesTypeOK /\ Filling /\ Clearing /\ AllIsAll

\* The invariant holds on a page that has just been opened.
LEMMA BoxesInitially == BoxesInit => BoxesInv
<1> SUFFICES ASSUME BoxesInit
             PROVE  BoxesInv
  OBVIOUS
<1>1. 1 \in Year
  BY YearsAssumption DEF Year
<1>2. BoxesTypeOK
  BY DEF BoxesInit, BoxesTypeOK
<1>3. Filling /\ Clearing
  BY DEF BoxesInit, Filling, Clearing
<1>4. AllIsAll
  BY <1>1 DEF BoxesInit, AllIsAll
<1> QED
  BY <1>2, <1>3, <1>4 DEF BoxesInv

\* When the script rests, the ticked years are the first ones.
LEMMA RestInOrder == BoxesInv => YearsInOrder
BY DEF BoxesInv, BoxesTypeOK, Filling, Clearing, AllIsAll, YearsInOrder

\* What a change of one box does to the boxes.
LEMMA ChangeTypes ==
  ASSUME BoxesTypeOK, NEW y \in Year, NEW v \in BOOLEAN, BoxChanges(y, v)
  PROVE  /\ BoxesTypeOK'
         /\ AllIsAll'
         /\ year'[y] = v /\ \A x \in Year \ {y} : year'[x] = year[x]
         /\ turn' = v
         /\ pending' = (pending \ {y}) \cup Followers(y, v)
<1>1. year' = [year EXCEPT ![y] = v]
  BY DEF BoxChanges
<1>2. year' \in [Year -> BOOLEAN] /\ year'[y] = v /\ \A x \in Year \ {y} : year'[x] = year[x]
  BY <1>1 DEF BoxesTypeOK
<1>3. pending' \subseteq Year
  BY DEF BoxChanges, BoxesTypeOK, Followers
<1>4. (all' <=> \A x \in Year : year'[x]) /\ all' \in BOOLEAN
  BY DEF BoxChanges
<1> QED
  BY <1>2, <1>3, <1>4 DEF BoxChanges, BoxesTypeOK, AllIsAll

\* The clerk clicks the box of a year.
LEMMA ClickKeeps ==
  ASSUME BoxesInv, NEW y \in Year, BoxClicked(y)
  PROVE  BoxesInv'
<1>1. pending = {} /\ year[y] \in BOOLEAN /\ BoxChanges(y, ~year[y])
  BY DEF BoxClicked, BoxesInv, BoxesTypeOK
<1> DEFINE v == ~year[y]
<1>2. /\ BoxesTypeOK' /\ AllIsAll'
      /\ year'[y] = v /\ \A x \in Year \ {y} : year'[x] = year[x]
      /\ turn' = v /\ pending' = Followers(y, v)
  BY <1>1, ChangeTypes DEF BoxesInv
<1>3. \A x, z \in Year : x < z /\ year[z] => year[x]
  BY <1>1 DEF BoxesInv, BoxesTypeOK, Filling, Clearing
<1>4. Filling'
  <2>1. SUFFICES ASSUME turn'
                 PROVE  /\ \A z \in pending' : ~year'[z]
                        /\ \A x, z \in Year : x < z /\ (year'[z] \/ z \in pending')
                             => year'[x] \/ x \in pending'
    BY DEF Filling
  <2>2. v /\ pending' = {x \in Year : x < y /\ ~year[x]}
    BY <1>2, <2>1 DEF Followers
  <2>3. \A x \in Year : x < y => year'[x] \/ x \in pending'
    BY <1>2, <2>2 DEF Year
  <2> QED
    BY <1>2, <1>3, <2>2, <2>3 DEF Year
<1>5. Clearing'
  <2>1. SUFFICES ASSUME ~turn'
                 PROVE  /\ \A z \in pending' : year'[z]
                        /\ \A x, z \in Year : x < z /\ year'[z] /\ z \notin pending'
                             => year'[x] /\ x \notin pending'
    BY DEF Clearing
  <2>2. ~v /\ pending' = {x \in Year : x > y /\ year[x]}
    BY <1>2, <2>1 DEF Followers
  <2>3. ASSUME NEW z \in Year, year'[z], z \notin pending'
        PROVE  z < y /\ year[z]
    <3>1. z # y
      BY <1>2, <2>2, <2>3
    <3>2. year'[z] = year[z]
      BY <1>2, <3>1
    <3>3. ~(z > y)
      BY <2>2, <2>3, <3>2
    <3> QED
      BY <2>3, <3>1, <3>2, <3>3 DEF Year
  <2>4. \A z \in Year : z < y /\ year[z] => year'[z] /\ z \notin pending'
    BY <1>2, <2>2 DEF Year
  <2>5. ASSUME NEW z \in pending'
        PROVE  year'[z]
    <3>1. z \in Year /\ z > y /\ year[z]
      BY <2>2, <2>5
    <3>2. z \in Year \ {y}
      BY <3>1 DEF Year
    <3>3. year'[z] = year[z]
      BY <1>2, <3>2
    <3> QED
      BY <3>1, <3>3
  <2>6. ASSUME NEW x \in Year, NEW z \in Year, x < z, year'[z], z \notin pending'
        PROVE  year'[x] /\ x \notin pending'
    <3>1. z < y /\ year[z]
      BY <2>3, <2>6
    <3>2. x < y /\ year[x]
      BY <1>3, <2>6, <3>1 DEF Year
    <3> QED
      BY <2>4, <3>2
  <2> QED
    BY <2>5, <2>6
<1> QED
  BY <1>2, <1>4, <1>5 DEF BoxesInv

\* The script clicks a box.
LEMMA FollowKeeps ==
  ASSUME BoxesInv, NEW y \in Year, BoxFollows(y)
  PROVE  BoxesInv'
<1>1. y \in pending /\ (\A x \in pending : y <= x) /\ turn \in BOOLEAN /\ BoxChanges(y, turn)
  BY DEF BoxFollows, BoxesInv, BoxesTypeOK
<1>2. /\ BoxesTypeOK' /\ AllIsAll'
      /\ year'[y] = turn /\ \A x \in Year \ {y} : year'[x] = year[x]
      /\ turn' = turn /\ pending' = (pending \ {y}) \cup Followers(y, turn)
  BY <1>1, ChangeTypes DEF BoxesInv
<1>3. Filling'
  <2>1. SUFFICES ASSUME turn
                 PROVE  /\ \A z \in pending' : ~year'[z]
                        /\ \A x, z \in Year : x < z /\ (year'[z] \/ z \in pending')
                             => year'[x] \/ x \in pending'
    BY <1>2 DEF Filling
  <2>2. /\ \A z \in pending : ~year[z]
        /\ \A x, z \in Year : x < z /\ (year[z] \/ z \in pending) => year[x] \/ x \in pending
    BY <2>1 DEF BoxesInv, Filling
  <2>3. Followers(y, turn) = {}
    BY <1>1, <2>1, <2>2 DEF Followers, Year
  <2>4. pending' = pending \ {y}
    BY <1>2, <2>3
  <2>5. \A x \in Year : (year'[x] \/ x \in pending') <=> (year[x] \/ x \in pending)
    BY <1>1, <1>2, <2>1, <2>4
  <2>6. \A z \in pending' : ~year'[z]
    BY <1>2, <2>2, <2>4 DEF BoxesTypeOK
  <2> QED
    BY <2>2, <2>5, <2>6
<1>4. Clearing'
  <2>1. SUFFICES ASSUME ~turn
                 PROVE  /\ \A z \in pending' : year'[z]
                        /\ \A x, z \in Year : x < z /\ year'[z] /\ z \notin pending'
                             => year'[x] /\ x \notin pending'
    BY <1>2 DEF Clearing
  <2>2. /\ \A z \in pending : year[z]
        /\ \A x, z \in Year : x < z /\ year[z] /\ z \notin pending
             => year[x] /\ x \notin pending
    BY <2>1 DEF BoxesInv, Clearing
  <2>3. pending' = (pending \ {y}) \cup {x \in Year : x > y /\ year[x]}
    BY <1>2, <2>1 DEF Followers
  <2>4. \A z \in Year : (year'[z] /\ z \notin pending') <=>
                        (year[z] /\ z \notin pending /\ z < y)
    BY <1>1, <1>2, <2>1, <2>3 DEF Year
  <2>5. \A z \in pending' : year'[z]
    BY <1>1, <1>2, <2>2, <2>3 DEF Year, BoxesInv, BoxesTypeOK
  <2> QED
    BY <2>2, <2>4, <2>5 DEF Year
<1> QED
  BY <1>2, <1>3, <1>4 DEF BoxesInv

\* The clerk clicks the box of all.
LEMMA AllKeeps == BoxesInv /\ AllClicked => BoxesInv'
<1> SUFFICES ASSUME BoxesInv, AllClicked
             PROVE  BoxesInv'
  OBVIOUS
<1>1. /\ year' = year /\ pending' = {y \in Year : year[y] # all'}
      /\ turn' = all' /\ all' \in BOOLEAN
  BY DEF AllClicked, BoxesInv, BoxesTypeOK
<1>2. BoxesTypeOK'
  BY <1>1 DEF BoxesInv, BoxesTypeOK
<1>3. AllIsAll'
  BY <1>1, YearsAssumption DEF AllIsAll, BoxesInv, BoxesTypeOK, Year
<1>4. Filling'
  BY <1>1 DEF Filling, BoxesInv, BoxesTypeOK
<1>5. Clearing'
  BY <1>1 DEF Clearing, BoxesInv, BoxesTypeOK
<1> QED
  BY <1>2, <1>3, <1>4, <1>5 DEF BoxesInv

\* A step of the desk clicks one box, or all, or leaves the boxes alone.
LEMMA StepOfBoxes ==
  [Next]_vars => \/ UNCHANGED boxes
                 \/ AllClicked
                 \/ \E y \in Year : BoxClicked(y) \/ BoxFollows(y)
<1>1. CouponsArrive \/ Elsewhere \/ Server => UNCHANGED boxes
  BY DEF CouponsArrive, Elsewhere, PaidElsewhere, UsedElsewhere, SpentElsewhere,
         Server, Refuse, MakeOut, Charge, Commit, CommitFails
<1>2. Cascade => \E y \in Year : BoxFollows(y)
  BY DEF Cascade
<1>3. Clerk => \/ UNCHANGED boxes
               \/ AllClicked
               \/ \E y \in Year : BoxClicked(y)
  BY DEF Clerk, ClickYear, ClickAll, ClickCoupon, EditZm, EditAcc, Submit
<1>4. UNCHANGED vars => UNCHANGED boxes
  BY DEF vars
<1> QED
  BY <1>1, <1>2, <1>3, <1>4 DEF Next

\* The boxes stay boxes.
LEMMA BoxesKeep ==
  ASSUME BoxesInv, [Next]_vars
  PROVE  BoxesInv'
<1>1. CASE UNCHANGED boxes
  BY <1>1 DEF boxes, BoxesInv, BoxesTypeOK, Filling, Clearing, AllIsAll
<1>2. CASE AllClicked
  BY <1>2, AllKeeps
<1>3. CASE \E y \in Year : BoxClicked(y) \/ BoxFollows(y)
  BY <1>3, ClickKeeps, FollowKeeps
<1>4. QED
  BY <1>1, <1>2, <1>3, StepOfBoxes

\* What the box of a year does to the others (stdfee-pay.js, the handler of
\* .YZSDcheck), on a page with any number of years: when the script rests, the
\* years are ticked from the first without a gap, and the box of all is right.
THEOREM StayInOrder == Spec => []YearsInOrder
<1>1. Init => BoxesInv
  BY BoxesInitially DEF Init
<1>2. BoxesInv /\ [Next]_vars => BoxesInv'
  BY BoxesKeep
<1> QED
  BY <1>1, <1>2, RestInOrder, PTL DEF Spec

\* A click of the script is never on a box that is as it should be.
LEMMA FollowAdvances ==
  ASSUME BoxesInv, NEW y \in Year, BoxFollows(y)
  PROVE  turn' = turn /\ Amiss' \subseteq Amiss /\ Amiss' # Amiss
<1>1. y \in pending /\ turn \in BOOLEAN /\ BoxChanges(y, turn)
  BY DEF BoxFollows, BoxesInv, BoxesTypeOK
<1>2. turn' = turn /\ year'[y] = turn /\ \A x \in Year \ {y} : year'[x] = year[x]
  BY <1>1, ChangeTypes DEF BoxesInv
<1>3. year[y] # turn
  BY <1>1 DEF BoxesInv, BoxesTypeOK, Filling, Clearing
<1>4. y \in Amiss /\ y \notin Amiss'
  BY <1>2, <1>3 DEF Amiss
<1>5. Amiss' \subseteq Amiss
  BY <1>2, <1>4 DEF Amiss
<1> QED
  BY <1>2, <1>4, <1>5

\* The variant behind the end of the script's clicks (the handler of .YZSDcheck,
\* stdfee-pay.js): on a page with any number of years each of them brings one more
\* box to what was asked for and none back, and the clerk does not come between.
THEOREM EachClickAdvances == Spec => ClicksAdvance
<1>1. BoxesInv /\ [Next]_vars
        => [pending # {} => turn' = turn /\ Amiss' \subseteq Amiss /\ Amiss' # Amiss]_boxes
  <2> SUFFICES ASSUME BoxesInv, [Next]_vars, pending # {}
               PROVE  \/ UNCHANGED boxes
                      \/ turn' = turn /\ Amiss' \subseteq Amiss /\ Amiss' # Amiss
    OBVIOUS
  <2>1. ~AllClicked /\ \A y \in Year : ~BoxClicked(y)
    BY DEF AllClicked, BoxClicked
  <2>2. CASE UNCHANGED boxes
    BY <2>2
  <2>3. CASE \E y \in Year : BoxFollows(y)
    BY <2>3, FollowAdvances
  <2> QED
    BY <2>1, <2>2, <2>3, StepOfBoxes
<1>2. Init => BoxesInv
  BY BoxesInitially DEF Init
<1>3. BoxesInv /\ [Next]_vars => BoxesInv'
  BY BoxesKeep
<1> QED
  BY <1>1, <1>2, <1>3, PTL DEF Spec, ClicksAdvance

-----------------------------------------------------------------------------
\* The last item in an order is one of them, also where items share a place.
LEMMA LastByType ==
  ASSUME NEW order \in [Item -> Nat], NEW items \in SUBSET Item, items # {}
  PROVE  LastBy(order, items) \in items
<1>1. IsFiniteSet(items)
  BY BillAssumption, FS_Subset
<1>2. \E i \in items : \A j \in items : order[j] <= order[i]
  BY <1>1, HighestRank
<1>3. QED
  BY <1>2 DEF LastBy

\* h has what money has paid on every subset of the items.
SpreadStart(rest, money) == [rest |-> rest, took |-> [i \in DOMAIN rest |-> 0], left |-> money]

IsSpread(h, rest, order, money) ==
  h = [s \in SUBSET (DOMAIN rest) |->
         IF s = {} THEN SpreadStart(rest, money)
         ELSE Pays(h[s \ {LastBy(order, s)}], LastBy(order, s))]

LEMMA SpreadUnfolds ==
  ASSUME NEW rest, NEW order, NEW money
  PROVE  Spread(rest, order, money) = (CHOOSE h : IsSpread(h, rest, order, money))[DOMAIN rest]
BY Zenon DEF Spread, SpreadStart, InTurn, MapThenFoldSet, IsSpread

LEMMA SpreadExists ==
  ASSUME NEW order \in [Item -> Nat], NEW items \in SUBSET Item, NEW rest \in [items -> Int], NEW money \in Int
  PROVE  \E h : IsSpread(h, rest, order, money)
<1> DEFINE St == [rest : [items -> Int], took : [items -> Int], left : Int]
           act == [p \in items \X St |-> Pays(p[2], p[1])]
           last == [s \in SUBSET items |-> LastBy(order, s)]
           base == SpreadStart(rest, money)
<1>1. IsFiniteSet(items) /\ DOMAIN rest = items
  BY BillAssumption, FS_Subset
<1>2. base \in St
  BY DEF SpreadStart
<1>3. \A i \in items, t \in St : Pays(t, i) \in St
  BY DEF Pays, Least
<1>4. act \in [items \X St -> St]
  BY <1>3
<1>5. \A s \in SUBSET items : s # {} => last[s] \in s
  BY LastByType
<1>6. \A i \in items, t \in St : act[<<i, t>>] = Pays(t, i)
  OBVIOUS
<1>7. \A s \in SUBSET items : last[s] = LastBy(order, s)
  OBVIOUS
<1> HIDE DEF St, act, last, base
<1>8. PICK h \in [SUBSET items -> St] : IsFold(h, items, last, base, act)
  BY <1>1, <1>2, <1>4, <1>5, FoldExists
<1>9. \A s \in SUBSET items : s # {} => act[<<last[s], h[s \ {last[s]}]>>] = Pays(h[s \ {LastBy(order, s)}], LastBy(order, s))
  BY <1>5, <1>6, <1>7
<1>10. \A s \in SUBSET items : h[s] = IF s = {} THEN base ELSE Pays(h[s \ {LastBy(order, s)}], LastBy(order, s))
  BY <1>8, <1>9 DEF IsFold
<1>11. h = [s \in SUBSET items |-> IF s = {} THEN SpreadStart(rest, money)
                                   ELSE Pays(h[s \ {LastBy(order, s)}], LastBy(order, s))]
  BY <1>10 DEF base
<1>12. QED
  BY <1>1, <1>11 DEF IsSpread

\* One pass: money pays what there is to pay, until it or the items run out.
Passed(after, items, rest, money) ==
  /\ after.rest \in [items -> Nat] /\ after.took \in [items -> Nat] /\ after.left \in Nat
  /\ SumFunction(after.rest) = AtLeastZero(SumFunction(rest) - money)

LEMMA SpreadPays ==
  ASSUME NEW order \in [Item -> Nat], NEW items \in SUBSET Item, NEW rest \in [items -> Nat], NEW money \in Nat
  PROVE  Passed(Spread(rest, order, money), items, rest, money)
<1> DEFINE h == CHOOSE h : IsSpread(h, rest, order, money)
           Sum(f) == SumFunctionOnSet(f, items)
           Good(s, t) ==
             /\ t \in [rest : [items -> Nat], took : [items -> Nat], left : Nat]
             /\ Sum(t.rest) = Sum(rest) - (money - t.left)
             /\ t.left > 0 => \A i \in s : t.rest[i] = 0
           T == {s \in SUBSET items : Good(s, h[s])}
<1>1. IsFiniteSet(items) /\ DOMAIN rest = items
  BY BillAssumption, FS_Subset
<1>2. IsSpread(h, rest, order, money)
  BY SpreadExists
<1> HIDE DEF h
<1>3. Sum(rest) \in Nat
  BY <1>1, SumOfNaturals
<1>4. ASSUME NEW s \in SUBSET items, \A i \in s : s \ {i} \in T PROVE s \in T
  <2>1. CASE s = {}
    <3>1. h[s] = SpreadStart(rest, money)
      BY <1>1, <1>2, <2>1 DEF IsSpread
    <3>2. QED
      BY <1>1, <1>3, <2>1, <3>1 DEF SpreadStart
  <2>2. CASE s # {}
    <3> DEFINE i == LastBy(order, s)
               t == h[s \ {i}]
               pays == Least(t.rest[i], t.left)
    <3>1. i \in s /\ i \in items /\ h[s] = Pays(t, i)
      BY <1>1, <1>2, <2>2, LastByType DEF IsSpread
    <3>2. Good(s \ {i}, t)
      BY <1>4, <3>1
    <3> HIDE DEF i, t
    <3>3. pays \in Nat /\ t.rest[i] - pays \in Nat /\ t.left - pays \in Nat /\ t.rest[i] \in Nat
      BY <3>1, <3>2 DEF Least
    <3>4. h[s] = [rest |-> [t.rest EXCEPT ![i] = @ - pays], took |-> [t.took EXCEPT ![i] = pays], left |-> t.left - pays]
      BY <3>1 DEF Pays
    <3> HIDE DEF pays
    <3>5. h[s] \in [rest : [items -> Nat], took : [items -> Nat], left : Nat]
      BY <3>1, <3>2, <3>3, <3>4
    <3>6. /\ h[s].left = t.left - pays
          /\ h[s].rest[i] = t.rest[i] - pays /\ \A j \in items \ {i} : h[s].rest[j] = t.rest[j]
      BY <3>1, <3>2, <3>3, <3>4
    <3>7. Sum(h[s].rest) = Sum(t.rest) - pays
      <4>1. Sum(h[s].rest) = Sum(t.rest) + (h[s].rest[i] - t.rest[i])
        BY <1>1, <3>1, <3>2, <3>5, <3>6, SumChanges
      <4>2. Sum(t.rest) \in Nat
        BY <1>1, <3>2, SumOfNaturals
      <4>3. QED
        BY <3>3, <3>6, <4>1, <4>2
    <3>8. h[s].left > 0 => \A j \in s : h[s].rest[j] = 0
      <4>1. SUFFICES ASSUME h[s].left > 0, NEW j \in s PROVE h[s].rest[j] = 0
        OBVIOUS
      <4>2. pays = t.rest[i] /\ t.left > 0
        BY <3>2, <3>3, <3>6, <4>1 DEF pays, Least
      <4>3. QED
        BY <3>1, <3>2, <3>3, <3>6, <4>2
    <3>9. Good(s, h[s])
      BY <1>3, <3>2, <3>3, <3>5, <3>6, <3>7, <3>8
    <3>10. QED
      BY <3>9
  <2>3. QED
    BY <2>1, <2>2
<1> HIDE DEF T
<1>5. items \in T
  BY <1>1, <1>4, SubsetInduction
<1>6. Good(items, h[items]) /\ Spread(rest, order, money) = h[items]
  BY <1>1, <1>5, SpreadUnfolds DEF T, h
<1>7. h[items].left > 0 => Sum(h[items].rest) = 0
  BY <1>1, <1>6, SumOfZeros
<1>8. Sum(h[items].rest) \in Nat
  BY <1>1, <1>6, SumOfNaturals
<1>9. Sum(h[items].rest) = AtLeastZero(Sum(rest) - money)
  BY <1>3, <1>6, <1>7, <1>8 DEF AtLeastZero
<1>10. SumFunction(h[items].rest) = Sum(h[items].rest) /\ SumFunction(rest) = Sum(rest)
  BY <1>1, <1>6 DEF SumFunction
<1>11. QED
  BY <1>6, <1>9, <1>10 DEF Passed

-----------------------------------------------------------------------------
\* The item that comes last on the page is one of the items, also where rows
\* share a place ...
LEMMA LastItemType ==
  ASSUME NEW items \in SUBSET Item, items # {}
  PROVE  LastItem(items) \in items
<1>1. IsFiniteSet(items) /\ IsFiniteSet(items \ YCodes)
  BY BillAssumption, FS_Subset
<1>2. \A i \in Item : RowNo[i] \in Int
  BY BillAssumption
<1>3. \E i \in items : \A j \in items : ~Before(i, j)
  <2>1. CASE items \ YCodes = {}
    <3>1. PICK i \in items : \A j \in items : RowNo[j] <= RowNo[i]
      BY <1>1, <1>2, HighestRank
    <3>2. \A j \in items : ~Before(i, j)
      BY <1>2, <2>1, <3>1 DEF Before
    <3>3. QED
      BY <3>2
  <2>2. CASE items \ YCodes # {}
    <3>1. PICK i \in items \ YCodes : \A j \in items \ YCodes : RowNo[j] <= RowNo[i]
      <4>1. \A j \in items \ YCodes : RowNo[j] \in Int
        BY <1>2
      <4>2. QED
        BY <1>1, <2>2, <4>1, HighestRank
    <3>2. \A j \in items : ~Before(i, j)
      BY <1>2, <3>1 DEF Before
    <3>3. QED
      BY <3>2
  <2>3. QED
    BY <2>1, <2>2
<1>4. QED
  BY <1>3 DEF LastItem

\* ... and so is the coupon that comes last.
LEMMA LastCouponType ==
  ASSUME NEW coupons \in SUBSET Coupon, coupons # {}, NEW visited
  PROVE  LastCoupon(coupons, visited) \in coupons
<1> DEFINE left == [c \in coupons |-> Left(c, visited)]
           least == {c \in coupons : \A d \in coupons : left[d] <= left[c]}
<1>1. IsFiniteSet(coupons) /\ IsFiniteSet(least)
  BY BillAssumption, FS_Subset
<1>2. \A c \in coupons : left[c] = Left(c, visited) /\ left[c] \in Nat /\ CouponNo[c] \in Nat
  <2> SUFFICES ASSUME NEW c \in coupons PROVE Left(c, visited) \in Nat /\ CouponNo[c] \in Nat
    OBVIOUS
  <2>1. IsFiniteSet(Covers[c] \ visited)
    BY BillAssumption, FS_Subset
  <2>2. QED
    BY <2>1, FS_CardinalityType, BillAssumption DEF Left
<1> HIDE DEF left
<1>3. least # {}
  <2>1. \A c \in coupons : left[c] \in Int
    BY <1>2
  <2>2. \E c \in coupons : \A d \in coupons : left[d] <= left[c]
    BY <1>1, <2>1, HighestRank
  <2>3. QED
    BY <2>2
<1>4. PICK c \in least : \A d \in least : CouponNo[d] <= CouponNo[c]
  <2>1. \A d \in least : CouponNo[d] \in Int
    BY <1>2
  <2> HIDE DEF least
  <2>2. QED
    BY <1>1, <1>3, <2>1, HighestRank
<1>5. ASSUME NEW d \in coupons PROVE ~Sooner(c, d, visited)
  <2>1. left[d] <= left[c] /\ left[c] \in Nat /\ left[d] \in Nat
    BY <1>2, <1>4
  <2>2. CASE left[d] = left[c]
    <3>1. d \in least
      BY <1>4, <2>2
    <3>2. CouponNo[d] <= CouponNo[c] /\ CouponNo[d] \in Nat /\ CouponNo[c] \in Nat
      BY <1>2, <1>4, <3>1
    <3>3. QED
      BY <1>2, <1>4, <2>2, <3>2 DEF Sooner
  <2>3. CASE left[d] # left[c]
    <3>1. ~(Left(c, visited) < Left(d, visited)) /\ Left(c, visited) # Left(d, visited)
      BY <1>2, <1>4, <2>1, <2>3
    <3>2. QED
      BY <3>1 DEF Sooner
  <2>4. QED
    BY <2>2, <2>3
<1>6. QED
  BY <1>4, <1>5 DEF LastCoupon

\* What coupons pay is a number of the entries ...
LEMMA DeductedType ==
  ASSUME NEW D \in SUBSET Detail, IsFiniteSet(D)
  PROVE  Deducted(D) \in Nat
<1> DEFINE f == [d \in D |-> d.price]
<1>1. \A d \in D : f[d] \in Nat
  BY DEF Detail
<1>2. DOMAIN f = D
  OBVIOUS
<1> HIDE DEF f
<1>3. SumFunctionOnSet(f, D) \in Nat
  BY <1>1, SumOfNaturals
<1>4. QED
  BY <1>2, <1>3 DEF Deducted, SumFunction, f

LEMMA DeductedNothing == Deducted({}) = 0
<1>1. DOMAIN [d \in {} |-> d.price] = {}
  OBVIOUS
<1>2. QED
  BY <1>1, SumOfNothing DEF Deducted, SumFunction

\* ... and a new entry adds its price.
LEMMA DeductedAdds ==
  ASSUME NEW D \in SUBSET Detail, IsFiniteSet(D), NEW d \in Detail, d \notin D
  PROVE  Deducted(D \cup {d}) = Deducted(D) + d.price
<1> DEFINE f == [e \in D |-> e.price]
           g == [e \in D \cup {d} |-> e.price]
<1>1. IsFiniteSet(D \cup {d}) /\ (D \cup {d}) \ {d} = D
  BY FS_AddElement
<1>2. DOMAIN f = D /\ DOMAIN g = D \cup {d} /\ g[d] = d.price
  OBVIOUS
<1>3. \A e \in D \cup {d} : g[e] \in Int
  BY DEF Detail
<1>4. \A e \in D : f[e] = g[e] /\ f[e] \in Int
  BY <1>3
<1> HIDE DEF f, g
<1>5. SumFunctionOnSet(g, D \cup {d}) = g[d] + SumFunctionOnSet(g, (D \cup {d}) \ {d})
  <2>1. d \in D \cup {d}
    OBVIOUS
  <2>2. QED
    BY <1>1, <1>3, <2>1, SumTakes
<1>6. SumFunctionOnSet(f, D) = SumFunctionOnSet(g, D) /\ SumFunctionOnSet(f, D) \in Int
  BY <1>4, SumSame, SumType
<1>7. SumFunctionOnSet(g, D \cup {d}) = d.price + SumFunctionOnSet(f, D)
  BY Zenon, <1>1, <1>2, <1>5, <1>6
<1>8. Deducted(D) = SumFunctionOnSet(f, D) /\ Deducted(D \cup {d}) = SumFunctionOnSet(g, D \cup {d})
  <2>1. Deducted(D) = SumFunction(f) /\ Deducted(D \cup {d}) = SumFunction(g)
    BY Zenon DEF Deducted, f, g
  <2>2. QED
    BY <1>2, <2>1 DEF SumFunction
<1>9. d.price \in Int
  BY DEF Detail
<1>10. QED
  BY <1>6, <1>7, <1>8, <1>9

\* A coupon that has not paid on an item yet pays on it.
LEMMA EntryAdds ==
  ASSUME NEW D \in SUBSET Detail, IsFiniteSet(D), NEW d \in Detail,
         \A e \in D : e.coupon = d.coupon => e.item # d.item
  PROVE  /\ Deducted(OnItem(D \cup {d}, d.item)) = Deducted(OnItem(D, d.item)) + d.price
         /\ Deducted(OfCoupon(D \cup {d}, d.coupon)) = Deducted(OfCoupon(D, d.coupon)) + d.price
         /\ \A j : j # d.item => OnItem(D \cup {d}, j) = OnItem(D, j)
         /\ \A c : c # d.coupon => OfCoupon(D \cup {d}, c) = OfCoupon(D, c)
<1>1. /\ OnItem(D \cup {d}, d.item) = OnItem(D, d.item) \cup {d}
      /\ OfCoupon(D \cup {d}, d.coupon) = OfCoupon(D, d.coupon) \cup {d}
      /\ \A j : j # d.item => OnItem(D \cup {d}, j) = OnItem(D, j)
      /\ \A c : c # d.coupon => OfCoupon(D \cup {d}, c) = OfCoupon(D, c)
  BY DEF OnItem, OfCoupon
<1>2. /\ OnItem(D, d.item) \in SUBSET Detail /\ IsFiniteSet(OnItem(D, d.item)) /\ d \notin OnItem(D, d.item)
      /\ OfCoupon(D, d.coupon) \in SUBSET Detail /\ IsFiniteSet(OfCoupon(D, d.coupon)) /\ d \notin OfCoupon(D, d.coupon)
  BY FS_Subset DEF OnItem, OfCoupon
<1>3. /\ Deducted(OnItem(D, d.item) \cup {d}) = Deducted(OnItem(D, d.item)) + d.price
      /\ Deducted(OfCoupon(D, d.coupon) \cup {d}) = Deducted(OfCoupon(D, d.coupon)) + d.price
  BY <1>2, DeductedAdds
<1>4. QED
  BY Zenon, <1>1, <1>3

\* What coupons have, and what they have paid.
Spent(coupons, money, D) ==
  /\ money \in [coupons -> Nat] /\ D \in SUBSET Detail /\ IsFiniteSet(D)
  /\ \A d \in D : d.coupon \in coupons /\ d.item \in Covers[d.coupon]
  /\ \A c \in coupons : Deducted(OfCoupon(D, c)) + money[c] = Worth[c]

\* The coupons of "did" have paid on an item what there was to pay, or all they
\* had; x is what was before.
Paying(coupons, x, i, did, t) ==
  /\ t \in [due : Nat, money : [coupons -> Nat], details : SUBSET Detail, open : BOOLEAN]
  /\ Spent(coupons, t.money, t.details)
  /\ \A d \in t.details : d \in x.details \/ (d.item = i /\ d.coupon \in did)
  /\ \A j \in Item : j # i => OnItem(t.details, j) = OnItem(x.details, j)
  /\ Deducted(OnItem(t.details, i)) + t.due = Fee[i]
  /\ t.open => \A c \in did : t.money[c] = 0
  /\ t.due = 0 \/ t.open
  /\ \A c \in coupons : t.money[c] <= x.money[c]

LEMMA PayByKeeps ==
  ASSUME NEW coupons \in SUBSET Coupon, NEW x, x.money \in [coupons -> Nat],
         NEW i \in Item, \A d \in x.details : d.item # i,
         NEW did \in SUBSET coupons, NEW c \in coupons \ did, i \in Covers[c],
         NEW t, Paying(coupons, x, i, did, t)
  PROVE  Paying(coupons, x, i, did \cup {c}, PayBy(t, c, i))
<1>1. /\ t \in [due : Nat, money : [coupons -> Nat], details : SUBSET Detail, open : BOOLEAN]
      /\ Spent(coupons, t.money, t.details)
      /\ \A d \in t.details : d \in x.details \/ (d.item = i /\ d.coupon \in did)
      /\ \A j \in Item : j # i => OnItem(t.details, j) = OnItem(x.details, j)
      /\ Deducted(OnItem(t.details, i)) + t.due = Fee[i]
      /\ t.open => \A e \in did : t.money[e] = 0
      /\ t.due = 0 \/ t.open
      /\ \A e \in coupons : t.money[e] <= x.money[e]
  BY DEF Paying
<1>2. CASE ~t.open
  <2>1. PayBy(t, c, i) = t
    BY <1>2 DEF PayBy
  <2>2. \A d \in t.details : d \in x.details \/ (d.item = i /\ d.coupon \in did \cup {c})
    BY <1>1
  <2>3. QED
    BY <1>1, <1>2, <2>1, <2>2 DEF Paying
<1>3. CASE t.open
  <2> DEFINE price == Least(t.due, t.money[c])
             entry == [coupon |-> c, item |-> i, price |-> price]
             u == PayBy(t, c, i)
  <2>1. /\ t.money \in [coupons -> Nat] /\ t.details \in SUBSET Detail /\ IsFiniteSet(t.details)
        /\ \A d \in t.details : d.coupon \in coupons /\ d.item \in Covers[d.coupon]
        /\ \A e \in coupons : Deducted(OfCoupon(t.details, e)) + t.money[e] = Worth[e]
    BY <1>1 DEF Spent
  <2>2. /\ t.due \in Nat /\ t.money[c] \in Nat /\ price \in Nat
        /\ price <= t.due /\ price <= t.money[c]
        /\ IF t.money[c] < t.due THEN price = t.money[c] ELSE price = t.due
    BY <1>1, <2>1 DEF Least
  <2> HIDE DEF price
  <2>3. u = [t EXCEPT !.due = @ - price,
                      !.money[c] = @ - price,
                      !.details = @ \cup {entry},
                      !.open = t.money[c] < t.due]
    BY <1>3 DEF PayBy, price
  <2>4. /\ u.due = t.due - price
        /\ u.money = [t.money EXCEPT ![c] = @ - price]
        /\ u.details = t.details \cup {entry}
    BY <1>1, <2>3
  <2>20. u.open \in BOOLEAN /\ (u.open <=> t.money[c] < t.due)
    <3>1. u.open = (t.money[c] < t.due)
      BY <1>1, <2>3
    <3>2. (t.money[c] < t.due) \in BOOLEAN
      OBVIOUS
    <3> HIDE DEF u
    <3>3. QED
      BY <3>1, <3>2
  <2>5. entry \in Detail /\ entry.coupon = c /\ entry.item = i /\ entry.price = price
    BY <2>2 DEF Detail
  <2>6. \A e \in t.details : e.coupon = c => e.item # i
    BY <1>1
  <2> HIDE DEF entry
  <2>7. /\ Deducted(OnItem(u.details, i)) = Deducted(OnItem(t.details, i)) + price
        /\ Deducted(OfCoupon(u.details, c)) = Deducted(OfCoupon(t.details, c)) + price
        /\ \A j : j # i => OnItem(u.details, j) = OnItem(t.details, j)
        /\ \A e : e # c => OfCoupon(u.details, e) = OfCoupon(t.details, e)
    <3>1. \A e \in t.details : e.coupon = entry.coupon => e.item # entry.item
      BY <2>5, <2>6
    <3>2. /\ Deducted(OnItem(t.details \cup {entry}, entry.item)) = Deducted(OnItem(t.details, entry.item)) + entry.price
          /\ Deducted(OfCoupon(t.details \cup {entry}, entry.coupon)) = Deducted(OfCoupon(t.details, entry.coupon)) + entry.price
          /\ \A j : j # entry.item => OnItem(t.details \cup {entry}, j) = OnItem(t.details, j)
          /\ \A e : e # entry.coupon => OfCoupon(t.details \cup {entry}, e) = OfCoupon(t.details, e)
      BY <2>1, <2>5, <3>1, EntryAdds
    <3>3. QED
      BY Zenon, <2>4, <2>5, <3>2
  <2>8. u.details \in SUBSET Detail /\ IsFiniteSet(u.details) /\ u.money \in [coupons -> Nat]
    <3>1. IsFiniteSet(t.details \cup {entry})
      BY <2>1, FS_AddElement
    <3>2. u.money \in [coupons -> Nat]
      BY <2>1, <2>2, <2>4
    <3>3. QED
      BY <2>1, <2>4, <2>5, <3>1, <3>2
  <2>9. u \in [due : Nat, money : [coupons -> Nat], details : SUBSET Detail, open : BOOLEAN]
    <3>1. u.due \in Nat /\ u.open \in BOOLEAN
      BY <2>2, <2>4, <2>20
    <3> HIDE DEF u
    <3>2. u = [due |-> u.due, money |-> u.money, details |-> u.details, open |-> u.open]
      BY <1>1, <2>3
    <3>3. QED
      BY <2>8, <3>1, <3>2
  <2> HIDE DEF u
  <2>10. u.money[c] = t.money[c] - price /\ \A e \in coupons : e # c => u.money[e] = t.money[e]
    BY <2>1, <2>4
  <2>11. Spent(coupons, u.money, u.details)
    <3>1. \A d \in u.details : d.coupon \in coupons /\ d.item \in Covers[d.coupon]
      BY <2>1, <2>4, <2>5
    <3>2. ASSUME NEW e \in coupons PROVE Deducted(OfCoupon(u.details, e)) + u.money[e] = Worth[e]
      <4>1. CASE e = c
        <5>1. Deducted(OfCoupon(t.details, c)) \in Nat
          <6>1. OfCoupon(t.details, c) \in SUBSET Detail /\ IsFiniteSet(OfCoupon(t.details, c))
            BY <2>1, FS_Subset DEF OfCoupon
          <6>2. QED
            BY <6>1, DeductedType
        <5>2. Deducted(OfCoupon(t.details, c)) + t.money[c] = Worth[c]
          BY <2>1
        <5>3. QED
          BY <2>2, <2>7, <2>10, <4>1, <5>1, <5>2
      <4>2. CASE e # c
        BY <2>1, <2>7, <2>10, <4>2
      <4>3. QED
        BY <4>1, <4>2
    <3>3. QED
      BY <2>8, <3>1, <3>2 DEF Spent
  <2>12. \A d \in u.details : d \in x.details \/ (d.item = i /\ d.coupon \in did \cup {c})
    BY <1>1, <2>4, <2>5
  <2>13. \A j \in Item : j # i => OnItem(u.details, j) = OnItem(x.details, j)
    BY <1>1, <2>7
  <2>14. Deducted(OnItem(u.details, i)) + u.due = Fee[i]
    <3>1. Deducted(OnItem(t.details, i)) \in Nat
      <4>1. OnItem(t.details, i) \in SUBSET Detail /\ IsFiniteSet(OnItem(t.details, i))
        BY <2>1, FS_Subset DEF OnItem
      <4>2. QED
        BY <4>1, DeductedType
    <3>2. /\ Deducted(OnItem(u.details, i)) = Deducted(OnItem(t.details, i)) + price
          /\ Deducted(OnItem(t.details, i)) + t.due = Fee[i]
          /\ u.due = t.due - price /\ t.due \in Nat /\ price \in Nat
      BY <1>1, <2>2, <2>4, <2>7
    <3>3. QED
      BY <3>1, <3>2
  <2>15. u.open => \A e \in did \cup {c} : u.money[e] = 0
    <3>1. \A e \in did : u.money[e] = 0
      BY <1>1, <1>3, <2>10
    <3>2. u.open => u.money[c] = 0
      BY <2>2, <2>10, <2>20
    <3>3. QED
      BY <3>1, <3>2
  <2>16. u.due = 0 \/ u.open
    BY <2>2, <2>4, <2>20
  <2>17. \A e \in coupons : u.money[e] <= x.money[e]
    <3>1. ASSUME NEW e \in coupons PROVE u.money[e] <= x.money[e]
      <4>1. t.money[e] <= x.money[e]
        BY <1>1
      <4>2. t.money[e] \in Nat
        BY <2>1
      <4>3. u.money[e] <= t.money[e] /\ u.money[e] \in Nat
        <5>1. CASE e = c
          BY <2>2, <2>8, <2>10, <5>1
        <5>2. CASE e # c
          BY <2>10, <4>2, <5>2
        <5>3. QED
          BY <5>1, <5>2
      <4>4. x.money[e] \in Nat
        OBVIOUS
      <4>5. QED
        BY <4>1, <4>2, <4>3, <4>4
    <3>2. QED
      BY <3>1
  <2>18. Paying(coupons, x, i, did \cup {c}, u)
    BY <2>9, <2>11, <2>12, <2>13, <2>14, <2>15, <2>16, <2>17 DEF Paying
  <2>19. QED
    BY <2>18 DEF u
<1>4. QED
  BY <1>1, <1>2, <1>3

\* h has what coupons have paid on an item, for every subset of those that may.
PayStart(x, i) == [due |-> Fee[i], money |-> x.money, details |-> x.details, open |-> TRUE]

IsPaying(h, x, i) ==
  h = [s \in SUBSET AvailableCoupons(i, x.money) |->
         IF s = {} THEN PayStart(x, i)
         ELSE PayBy(h[s \ {LastCoupon(s, x.visited)}], LastCoupon(s, x.visited), i)]

Paid(x, i) == (CHOOSE h : IsPaying(h, x, i))[AvailableCoupons(i, x.money)]

LEMMA PayItemUnfolds ==
  ASSUME NEW x, NEW i
  PROVE  PayItem(x, i) = [money |-> Paid(x, i).money, details |-> Paid(x, i).details,
                          visited |-> x.visited \cup {i}]
BY Zenon DEF PayItem, PayStart, InTurn, MapThenFoldSet, IsPaying, Paid

\* A state of the fold, with amounts that may be negative as well.
AnyDetail == [coupon : Coupon, item : Item, price : Int]
AnyPaying(coupons) == [due : Int, money : [coupons -> Int], details : SUBSET AnyDetail, open : BOOLEAN]

LEMMA PayByType ==
  ASSUME NEW coupons \in SUBSET Coupon, NEW c \in coupons, NEW i \in Item, NEW t \in AnyPaying(coupons)
  PROVE  PayBy(t, c, i) \in AnyPaying(coupons)
<1>1. CASE ~t.open
  BY <1>1 DEF PayBy
<1>2. CASE t.open
  <2> DEFINE price == Least(t.due, t.money[c])
             entry == [coupon |-> c, item |-> i, price |-> price]
             less == t.money[c] < t.due
  <2>1. t.due \in Int /\ t.money \in [coupons -> Int] /\ t.details \in SUBSET AnyDetail
    BY DEF AnyPaying
  <2>2. price \in Int
    BY <2>1 DEF Least
  <2>3. PayBy(t, c, i) = [t EXCEPT !.due = @ - price, !.money[c] = @ - price,
                                   !.details = @ \cup {entry}, !.open = less]
    BY <1>2 DEF PayBy
  <2>4. less \in BOOLEAN
    OBVIOUS
  <2> HIDE DEF price, less
  <2>5. entry \in AnyDetail
    BY <2>2 DEF AnyDetail
  <2> HIDE DEF entry
  <2>6. t.details \cup {entry} \in SUBSET AnyDetail
    BY <2>1, <2>5
  <2>7. t.money[c] - price \in Int /\ t.due - price \in Int
    BY <2>1, <2>2
  <2>8. [t.money EXCEPT ![c] = @ - price] \in [coupons -> Int]
    BY <2>1, <2>7
  <2>9. PayBy(t, c, i) = [due |-> t.due - price, money |-> [t.money EXCEPT ![c] = @ - price],
                          details |-> t.details \cup {entry}, open |-> less]
    BY <2>3 DEF AnyPaying
  <2>10. QED
    BY <2>4, <2>6, <2>7, <2>8, <2>9 DEF AnyPaying
<1>3. QED
  BY <1>1, <1>2

LEMMA PayingExists ==
  ASSUME NEW coupons \in SUBSET Coupon, NEW i \in Item,
         NEW x, x.money \in [coupons -> Int], x.details \in SUBSET AnyDetail
  PROVE  \E h : IsPaying(h, x, i)
<1> DEFINE A == AvailableCoupons(i, x.money)
           St == AnyPaying(coupons)
           act == [p \in A \X St |-> PayBy(p[2], p[1], i)]
           last == [s \in SUBSET A |-> LastCoupon(s, x.visited)]
           base == PayStart(x, i)
<1>1. IsFiniteSet(A) /\ A \in SUBSET coupons
  BY BillAssumption, FS_Subset DEF AvailableCoupons
<1> HIDE DEF A
<1>2. base \in St
  BY BillAssumption DEF PayStart, AnyPaying
<1>3. \A c \in A, t \in St : PayBy(t, c, i) \in St
  BY <1>1, PayByType
<1>4. act \in [A \X St -> St]
  BY <1>3
<1>5. \A s \in SUBSET A : s # {} => last[s] \in s
  BY <1>1, LastCouponType
<1>6. \A c \in A, t \in St : act[<<c, t>>] = PayBy(t, c, i)
  OBVIOUS
<1>7. \A s \in SUBSET A : last[s] = LastCoupon(s, x.visited)
  OBVIOUS
<1> HIDE DEF St, act, last, base
<1>8. PICK h \in [SUBSET A -> St] : IsFold(h, A, last, base, act)
  BY <1>1, <1>2, <1>4, <1>5, FoldExists
<1>9. \A s \in SUBSET A : s # {} => act[<<last[s], h[s \ {last[s]}]>>] = PayBy(h[s \ {LastCoupon(s, x.visited)}], LastCoupon(s, x.visited), i)
  <2> SUFFICES ASSUME NEW s \in SUBSET A, s # {}
               PROVE  act[<<last[s], h[s \ {last[s]}]>>] = PayBy(h[s \ {LastCoupon(s, x.visited)}], LastCoupon(s, x.visited), i)
    OBVIOUS
  <2>1. last[s] \in A /\ h[s \ {last[s]}] \in St
    BY <1>5
  <2>2. act[<<last[s], h[s \ {last[s]}]>>] = PayBy(h[s \ {last[s]}], last[s], i)
    BY Zenon, <1>6, <2>1
  <2>3. last[s] = LastCoupon(s, x.visited)
    BY Zenon, <1>7
  <2>4. QED
    BY Zenon, <2>2, <2>3
<1>10. \A s \in SUBSET A : h[s] = IF s = {} THEN base ELSE PayBy(h[s \ {LastCoupon(s, x.visited)}], LastCoupon(s, x.visited), i)
  BY <1>8, <1>9 DEF IsFold
<1>11. h = [s \in SUBSET A |-> IF s = {} THEN PayStart(x, i)
                               ELSE PayBy(h[s \ {LastCoupon(s, x.visited)}], LastCoupon(s, x.visited), i)]
  BY <1>10 DEF base
<1>12. QED
  BY <1>11 DEF IsPaying, A

\* All coupons that may pay on an item have done so.
LEMMA AllPaying ==
  ASSUME NEW coupons \in SUBSET Coupon, NEW i \in Item, NEW x,
         Spent(coupons, x.money, x.details), \A d \in x.details : d.item # i
  PROVE  Paying(coupons, x, i, AvailableCoupons(i, x.money), Paid(x, i))
<1> DEFINE A == AvailableCoupons(i, x.money)
           h == CHOOSE h : IsPaying(h, x, i)
           T == {s \in SUBSET A : Paying(coupons, x, i, s, h[s])}
<1>1. IsFiniteSet(A) /\ A \in SUBSET coupons /\ \A c \in A : i \in Covers[c]
  BY BillAssumption, FS_Subset DEF AvailableCoupons, Spent
<1>2. x.money \in [coupons -> Nat] /\ x.details \in SUBSET Detail
  BY DEF Spent
<1>3. IsPaying(h, x, i)
  <2>1. x.money \in [coupons -> Int] /\ x.details \in SUBSET AnyDetail
    BY <1>2 DEF AnyDetail, Detail
  <2>2. QED
    BY <2>1, PayingExists
<1> HIDE DEF h
<1>4. ASSUME NEW s \in SUBSET A, \A c \in s : s \ {c} \in T PROVE s \in T
  <2>1. CASE s = {}
    <3>1. h[s] = PayStart(x, i)
      BY <1>3, <2>1 DEF IsPaying
    <3>2. OnItem(x.details, i) = {}
      BY DEF OnItem
    <3>3. Deducted(OnItem(x.details, i)) + Fee[i] = Fee[i] /\ Fee[i] \in Nat
      BY <3>2, DeductedNothing, BillAssumption
    <3>4. Paying(coupons, x, i, {}, PayStart(x, i))
      BY <1>2, <3>3 DEF Paying, PayStart
    <3>5. QED
      BY <2>1, <3>1, <3>4
  <2>2. CASE s # {}
    <3> DEFINE c == LastCoupon(s, x.visited)
    <3>1. c \in s
      BY <1>1, <2>2, LastCouponType
    <3>2. h[s] = PayBy(h[s \ {c}], c, i)
      BY <1>3, <2>2 DEF IsPaying
    <3> HIDE DEF c
    <3>3. Paying(coupons, x, i, s \ {c}, h[s \ {c}])
      BY <1>4, <3>1
    <3>4. c \in coupons \ (s \ {c}) /\ s \ {c} \in SUBSET coupons /\ i \in Covers[c] /\ (s \ {c}) \cup {c} = s
      BY <1>1, <3>1
    <3>5. Paying(coupons, x, i, (s \ {c}) \cup {c}, h[s])
      BY <1>2, <3>2, <3>3, <3>4, PayByKeeps
    <3>6. Paying(coupons, x, i, s, h[s])
      BY Zenon, <3>4, <3>5
    <3>7. QED
      BY <3>6
  <2>3. QED
    BY <2>1, <2>2
<1>5. A \in T
  <2> HIDE DEF T, A
  <2>1. QED
    BY <1>1, <1>4, SubsetInduction
<1>6. QED
  BY <1>5 DEF Paid, h

\* One round of setDeduction has a state again ...
AnyRound(coupons) == [money : [coupons -> Int], details : SUBSET AnyDetail, visited : SUBSET Item]

LEMMA PayItemType ==
  ASSUME NEW coupons \in SUBSET Coupon, NEW i \in Item, NEW x \in AnyRound(coupons)
  PROVE  PayItem(x, i) \in AnyRound(coupons)
<1> DEFINE A == AvailableCoupons(i, x.money)
           h == CHOOSE h : IsPaying(h, x, i)
           T == {s \in SUBSET A : h[s] \in AnyPaying(coupons)}
<1>1. x.money \in [coupons -> Int] /\ x.details \in SUBSET AnyDetail /\ x.visited \in SUBSET Item
  BY DEF AnyRound
<1>2. IsFiniteSet(A) /\ A \in SUBSET coupons
  BY <1>1, BillAssumption, FS_Subset DEF AvailableCoupons
<1>3. IsPaying(h, x, i)
  BY <1>1, PayingExists
<1> HIDE DEF h
<1>4. ASSUME NEW s \in SUBSET A, \A c \in s : s \ {c} \in T PROVE s \in T
  <2>1. CASE s = {}
    <3>1. h[s] = PayStart(x, i)
      BY <1>3, <2>1 DEF IsPaying
    <3>2. PayStart(x, i) \in AnyPaying(coupons)
      BY <1>1, BillAssumption DEF PayStart, AnyPaying
    <3>3. QED
      BY <3>1, <3>2
  <2>2. CASE s # {}
    <3> DEFINE c == LastCoupon(s, x.visited)
    <3>1. c \in s /\ c \in coupons
      BY <1>2, <2>2, LastCouponType
    <3>2. h[s] = PayBy(h[s \ {c}], c, i)
      BY <1>3, <2>2 DEF IsPaying
    <3> HIDE DEF c
    <3>3. h[s \ {c}] \in AnyPaying(coupons)
      BY <1>4, <3>1
    <3>4. h[s] \in AnyPaying(coupons)
      BY <3>1, <3>2, <3>3, PayByType
    <3>5. QED
      BY <3>4
  <2>3. QED
    BY <2>1, <2>2
<1>5. A \in T
  <2> HIDE DEF T, A
  <2>1. QED
    BY <1>2, <1>4, SubsetInduction
<1>6. Paid(x, i) \in AnyPaying(coupons)
  BY <1>5 DEF Paid, h
<1>7. PayItem(x, i) = [money |-> Paid(x, i).money, details |-> Paid(x, i).details, visited |-> x.visited \cup {i}]
  BY PayItemUnfolds
<1>8. QED
  BY <1>1, <1>6, <1>7 DEF AnyPaying, AnyRound

\* ... and what has been paid so far is right: an item of the round is paid, or
\* the coupons that are meant for it have nothing left.
Visited(coupons, s, x) ==
  /\ Spent(coupons, x.money, x.details)
  /\ \A d \in x.details : d.item \in s
  /\ \A i \in s : /\ Deducted(OnItem(x.details, i)) <= Fee[i]
                  /\ Deducted(OnItem(x.details, i)) < Fee[i] =>
                       \A c \in coupons : i \in Covers[c] => x.money[c] = 0

LEMMA PayItemKeeps ==
  ASSUME NEW coupons \in SUBSET Coupon, NEW s \in SUBSET Item, NEW i \in Item \ s,
         NEW x, Visited(coupons, s, x)
  PROVE  Visited(coupons, s \cup {i}, PayItem(x, i))
<1> DEFINE t == Paid(x, i)  y == PayItem(x, i)
<1>1. /\ Spent(coupons, x.money, x.details)
      /\ \A d \in x.details : d.item \in s
      /\ \A j \in s : /\ Deducted(OnItem(x.details, j)) <= Fee[j]
                      /\ Deducted(OnItem(x.details, j)) < Fee[j] =>
                           \A c \in coupons : j \in Covers[c] => x.money[c] = 0
  BY DEF Visited
<1>2. x.money \in [coupons -> Nat]
  BY <1>1 DEF Spent
<1>3. Paying(coupons, x, i, AvailableCoupons(i, x.money), t)
  BY <1>1, AllPaying
<1>4. y.money = t.money /\ y.details = t.details
  BY PayItemUnfolds
<1> HIDE DEF t, y
<1>5. /\ t \in [due : Nat, money : [coupons -> Nat], details : SUBSET Detail, open : BOOLEAN]
      /\ Spent(coupons, t.money, t.details)
      /\ \A d \in t.details : d \in x.details \/ d.item = i
      /\ \A j \in Item : j # i => OnItem(t.details, j) = OnItem(x.details, j)
      /\ Deducted(OnItem(t.details, i)) + t.due = Fee[i]
      /\ t.open => \A c \in AvailableCoupons(i, x.money) : t.money[c] = 0
      /\ t.due = 0 \/ t.open
      /\ \A c \in coupons : t.money[c] <= x.money[c]
  BY <1>3 DEF Paying
<1>6. t.due \in Nat /\ t.money \in [coupons -> Nat]
  BY <1>5
<1>7. Deducted(OnItem(t.details, i)) \in Nat
  <2>1. OnItem(t.details, i) \in SUBSET Detail /\ IsFiniteSet(OnItem(t.details, i))
    BY <1>5, FS_Subset DEF OnItem, Spent
  <2>2. QED
    BY <2>1, DeductedType
<1>8. Deducted(OnItem(t.details, i)) <= Fee[i]
  BY <1>5, <1>6, <1>7
<1>9. ASSUME Deducted(OnItem(t.details, i)) < Fee[i], NEW c \in coupons, i \in Covers[c]
      PROVE  t.money[c] = 0
  <2>1. t.due # 0
    BY <1>5, <1>6, <1>7, <1>9
  <2>2. t.open
    BY <1>5, <2>1
  <2>3. CASE c \in AvailableCoupons(i, x.money)
    BY <1>5, <2>2, <2>3
  <2>4. CASE c \notin AvailableCoupons(i, x.money)
    <3>1. ~(x.money[c] > 0) /\ x.money[c] \in Nat /\ t.money[c] \in Nat
      BY <1>2, <1>6, <1>9, <2>4 DEF AvailableCoupons
    <3>2. t.money[c] <= x.money[c]
      BY <1>5
    <3>3. QED
      BY <3>1, <3>2
  <2>5. QED
    BY <2>3, <2>4
<1>10. ASSUME NEW j \in s
       PROVE  /\ Deducted(OnItem(t.details, j)) <= Fee[j]
              /\ Deducted(OnItem(t.details, j)) < Fee[j] =>
                   \A c \in coupons : j \in Covers[c] => t.money[c] = 0
  <2>1. OnItem(t.details, j) = OnItem(x.details, j)
    BY <1>5
  <2>2. \A c \in coupons : x.money[c] = 0 => t.money[c] = 0
    BY <1>2, <1>5, <1>6
  <2>3. QED
    BY <1>1, <2>1, <2>2
<1>11. \A d \in t.details : d.item \in s \cup {i}
  BY <1>1, <1>5
<1>12. \A j \in s \cup {i} : /\ Deducted(OnItem(t.details, j)) <= Fee[j]
                             /\ Deducted(OnItem(t.details, j)) < Fee[j] =>
                                  \A c \in coupons : j \in Covers[c] => t.money[c] = 0
  BY <1>8, <1>9, <1>10
<1>13. Visited(coupons, s \cup {i}, y)
  BY <1>4, <1>5, <1>11, <1>12 DEF Visited
<1>14. QED
  BY <1>13 DEF y

\* h has what the coupons have paid, for every subset of the items.
DeductionStart(coupons) == [money |-> [c \in coupons |-> Worth[c]], details |-> {}, visited |-> {}]

IsDeduction(h, coupons, items) ==
  h = [s \in SUBSET items |->
         IF s = {} THEN DeductionStart(coupons) ELSE PayItem(h[s \ {LastItem(s)}], LastItem(s))]

LEMMA DeductionUnfolds ==
  ASSUME NEW coupons \in SUBSET Coupon, NEW items \in SUBSET Item
  PROVE  SetDeduction[coupons][items] = ((CHOOSE h : IsDeduction(h, coupons, items))[items]).details
<1>1. SetDeduction[coupons][items] = InTurn(PayItem, DeductionStart(coupons), LastItem, items).details
  BY DEF SetDeduction, DeductionStart
<1>2. InTurn(PayItem, DeductionStart(coupons), LastItem, items) = (CHOOSE h : IsDeduction(h, coupons, items))[items]
  BY Zenon DEF InTurn, MapThenFoldSet, IsDeduction
<1>3. QED
  BY Zenon, <1>1, <1>2

LEMMA DeductionExists ==
  ASSUME NEW coupons \in SUBSET Coupon, NEW items \in SUBSET Item
  PROVE  \E h : IsDeduction(h, coupons, items)
<1> DEFINE St == AnyRound(coupons)
           act == [p \in items \X St |-> PayItem(p[2], p[1])]
           last == [s \in SUBSET items |-> LastItem(s)]
           base == DeductionStart(coupons)
<1>1. IsFiniteSet(items)
  BY BillAssumption, FS_Subset
<1>2. base \in St
  BY BillAssumption DEF DeductionStart, AnyRound
<1>3. \A i \in items, x \in St : PayItem(x, i) \in St
  BY PayItemType
<1>4. act \in [items \X St -> St]
  BY <1>3
<1>5. \A s \in SUBSET items : s # {} => last[s] \in s
  BY LastItemType
<1>6. \A i \in items, x \in St : act[<<i, x>>] = PayItem(x, i)
  OBVIOUS
<1>7. \A s \in SUBSET items : last[s] = LastItem(s)
  OBVIOUS
<1> HIDE DEF St, act, last, base
<1>8. PICK h \in [SUBSET items -> St] : IsFold(h, items, last, base, act)
  BY <1>1, <1>2, <1>4, <1>5, FoldExists
<1>9. \A s \in SUBSET items : s # {} => act[<<last[s], h[s \ {last[s]}]>>] = PayItem(h[s \ {LastItem(s)}], LastItem(s))
  BY <1>5, <1>6, <1>7
<1>10. \A s \in SUBSET items : h[s] = IF s = {} THEN base ELSE PayItem(h[s \ {LastItem(s)}], LastItem(s))
  BY <1>8, <1>9 DEF IsFold
<1>11. h = [s \in SUBSET items |-> IF s = {} THEN DeductionStart(coupons) ELSE PayItem(h[s \ {LastItem(s)}], LastItem(s))]
  BY <1>10 DEF base
<1>12. QED
  BY <1>11 DEF IsDeduction

\* What setDeduction returns is sound, and leaves nothing over.
LEMMA DeductionIsSound ==
  ASSUME NEW coupons \in SUBSET Coupon, NEW items \in SUBSET Item
  PROVE  LET D == SetDeduction[coupons][items]
         IN  /\ D \in SUBSET Detail /\ IsFiniteSet(D)
             /\ \A d \in D : d.coupon \in coupons /\ d.item \in items \cap Covers[d.coupon]
             /\ \A i \in Item : Deducted(OnItem(D, i)) <= Fee[i]
             /\ \A c \in Coupon : Deducted(OfCoupon(D, c)) <= Worth[c]
             /\ \A c \in coupons, i \in items :
                  i \in Covers[c] /\ Deducted(OnItem(D, i)) < Fee[i] => Deducted(OfCoupon(D, c)) = Worth[c]
<1> DEFINE D == SetDeduction[coupons][items]
           h == CHOOSE h : IsDeduction(h, coupons, items)
           T == {s \in SUBSET items : Visited(coupons, s, h[s])}
           x == h[items]
<1>1. IsFiniteSet(items)
  BY BillAssumption, FS_Subset
<1>2. IsDeduction(h, coupons, items) /\ D = x.details
  BY DeductionExists, DeductionUnfolds
<1> HIDE DEF h, D
<1>3. ASSUME NEW s \in SUBSET items, \A i \in s : s \ {i} \in T PROVE s \in T
  <2>1. CASE s = {}
    <3>1. h[s] = DeductionStart(coupons)
      BY <1>2, <2>1 DEF IsDeduction
    <3>2. \A c : OfCoupon({}, c) = {}
      BY DEF OfCoupon
    <3>3. \A c \in coupons : Deducted(OfCoupon({}, c)) + Worth[c] = Worth[c]
      <4>1. \A c \in coupons : Deducted(OfCoupon({}, c)) = 0
        BY Zenon, <3>2, DeductedNothing
      <4>2. \A c \in coupons : Worth[c] \in Nat
        BY BillAssumption
      <4>3. QED
        BY <4>1, <4>2
    <3>4. IsFiniteSet({})
      BY FS_EmptySet
    <3>5. Spent(coupons, DeductionStart(coupons).money, DeductionStart(coupons).details)
      BY <3>3, <3>4, BillAssumption DEF Spent, DeductionStart
    <3>6. Visited(coupons, {}, DeductionStart(coupons))
      BY <3>5 DEF Visited, DeductionStart
    <3>7. QED
      BY <2>1, <3>1, <3>6
  <2>2. CASE s # {}
    <3> DEFINE i == LastItem(s)
    <3>1. i \in s
      BY <2>2, LastItemType
    <3>2. h[s] = PayItem(h[s \ {i}], i)
      BY <1>2, <2>2 DEF IsDeduction
    <3> HIDE DEF i
    <3>3. Visited(coupons, s \ {i}, h[s \ {i}])
      BY <1>3, <3>1
    <3>4. i \in Item \ (s \ {i}) /\ s \ {i} \in SUBSET Item /\ (s \ {i}) \cup {i} = s
      BY <3>1
    <3>5. Visited(coupons, (s \ {i}) \cup {i}, h[s])
      BY <3>2, <3>3, <3>4, PayItemKeeps
    <3>6. Visited(coupons, s, h[s])
      BY Zenon, <3>4, <3>5
    <3>7. QED
      BY <3>6
  <2>3. QED
    BY <2>1, <2>2
<1>4. Visited(coupons, items, x)
  <2>1. items \in T
    <3> HIDE DEF T
    <3>1. QED
      BY <1>1, <1>3, SubsetInduction
  <2>2. QED
    BY <2>1
<1> HIDE DEF x
<1>5. /\ Spent(coupons, x.money, D)
      /\ \A d \in D : d.item \in items
      /\ \A i \in items : /\ Deducted(OnItem(D, i)) <= Fee[i]
                          /\ Deducted(OnItem(D, i)) < Fee[i] =>
                               \A c \in coupons : i \in Covers[c] => x.money[c] = 0
  BY <1>2, <1>4 DEF Visited
<1>6. /\ x.money \in [coupons -> Nat] /\ D \in SUBSET Detail /\ IsFiniteSet(D)
      /\ \A d \in D : d.coupon \in coupons /\ d.item \in Covers[d.coupon]
      /\ \A c \in coupons : Deducted(OfCoupon(D, c)) + x.money[c] = Worth[c]
  BY <1>5 DEF Spent
<1>7. ASSUME NEW i \in Item PROVE Deducted(OnItem(D, i)) <= Fee[i]
  <2>1. CASE i \in items
    BY <1>5, <2>1
  <2>2. CASE i \notin items
    <3>1. OnItem(D, i) = {}
      BY <1>5, <2>2 DEF OnItem
    <3>2. Deducted(OnItem(D, i)) = 0 /\ Fee[i] \in Nat
      BY <3>1, DeductedNothing, BillAssumption
    <3>3. QED
      BY <3>2
  <2>3. QED
    BY <2>1, <2>2
<1>8. ASSUME NEW c \in Coupon
      PROVE  /\ Deducted(OfCoupon(D, c)) <= Worth[c]
             /\ c \in coupons /\ x.money[c] = 0 => Deducted(OfCoupon(D, c)) = Worth[c]
  <2>1. Deducted(OfCoupon(D, c)) \in Nat /\ Worth[c] \in Nat
    <3>1. OfCoupon(D, c) \in SUBSET Detail /\ IsFiniteSet(OfCoupon(D, c))
      BY <1>6, FS_Subset DEF OfCoupon
    <3>2. QED
      BY <3>1, DeductedType, BillAssumption
  <2>2. CASE c \in coupons
    <3>1. x.money[c] \in Nat /\ Deducted(OfCoupon(D, c)) + x.money[c] = Worth[c]
      BY <1>6, <2>2
    <3>2. QED
      BY <2>1, <3>1
  <2>3. CASE c \notin coupons
    <3>1. OfCoupon(D, c) = {}
      BY <1>6, <2>3 DEF OfCoupon
    <3>2. Deducted(OfCoupon(D, c)) = 0
      BY <3>1, DeductedNothing
    <3>3. QED
      BY <2>1, <2>3, <3>2
  <2>4. QED
    BY <2>2, <2>3
<1>9. \A c \in coupons, i \in items :
        i \in Covers[c] /\ Deducted(OnItem(D, i)) < Fee[i] => Deducted(OfCoupon(D, c)) = Worth[c]
  BY <1>5, <1>8
<1>10. QED
  BY <1>5, <1>6, <1>7, <1>8, <1>9 DEF D

-----------------------------------------------------------------------------
\* What two sets of entries pay that have nothing in common.
LEMMA DeductedUnion ==
  ASSUME NEW D \in SUBSET Detail, IsFiniteSet(D), NEW A \in SUBSET D, NEW B \in SUBSET D, A \cap B = {}
  PROVE  Deducted(A \cup B) = Deducted(A) + Deducted(B)
<1> DEFINE f == [d \in D |-> d.price]
<1>1. \A s \in SUBSET D : Deducted(s) = SumFunctionOnSet(f, s)
  <2> SUFFICES ASSUME NEW s \in SUBSET D PROVE Deducted(s) = SumFunctionOnSet(f, s)
    OBVIOUS
  <2> DEFINE g == [d \in s |-> d.price]
  <2>1. Deducted(s) = SumFunction(g)
    BY Zenon DEF Deducted
  <2>2. DOMAIN g = s /\ \A d \in s : g[d] = f[d]
    OBVIOUS
  <2>3. IsFiniteSet(s)
    BY FS_Subset
  <2> HIDE DEF f, g
  <2>4. SumFunctionOnSet(g, s) = SumFunctionOnSet(f, s)
    BY <2>2, <2>3, SumSame
  <2>5. QED
    BY <2>1, <2>2, <2>4 DEF SumFunction
<1>2. \A d \in D : f[d] \in Int
  BY DEF Detail
<1> HIDE DEF f
<1>3. IsFiniteSet(A) /\ IsFiniteSet(B)
  BY FS_Subset
<1>4. \A d \in A \cup B : f[d] \in Int
  BY <1>2
<1>5. SumFunctionOnSet(f, A \cup B) = SumFunctionOnSet(f, A) + SumFunctionOnSet(f, B)
  BY <1>3, <1>4, SumOfUnion
<1>6. A \cup B \in SUBSET D
  OBVIOUS
<1>7. QED
  BY Zenon, <1>1, <1>5, <1>6

\* What coupons pay in all is what they pay item by item.
LEMMA DeductedByItem ==
  ASSUME NEW D \in SUBSET Detail, IsFiniteSet(D), NEW R, IsFiniteSet(R), \A d \in D : d.item \in R
  PROVE  Deducted(D) = SumFunctionOnSet([i \in R |-> Deducted(OnItem(D, i))], R)
<1> DEFINE g == [i \in R |-> Deducted(OnItem(D, i))]
           On(s) == {d \in D : d.item \in s}
           T == {s \in SUBSET R : Deducted(On(s)) = SumFunctionOnSet(g, s)}
<1>1. \A i \in R : g[i] = Deducted(OnItem(D, i)) /\ g[i] \in Nat
  <2> SUFFICES ASSUME NEW i \in R PROVE Deducted(OnItem(D, i)) \in Nat
    OBVIOUS
  <2>1. OnItem(D, i) \in SUBSET Detail /\ IsFiniteSet(OnItem(D, i))
    BY FS_Subset DEF OnItem
  <2>2. QED
    BY <2>1, DeductedType
<1> HIDE DEF g
<1>2. \A A, B \in SUBSET D : A \cap B = {} => Deducted(A \cup B) = Deducted(A) + Deducted(B)
  BY DeductedUnion
<1>3. ASSUME NEW s \in SUBSET R, \A i \in s : s \ {i} \in T PROVE s \in T
  <2>1. CASE s = {}
    <3>1. On(s) = {}
      BY <2>1
    <3>2. QED
      BY <2>1, <3>1, DeductedNothing, SumOfNothing
  <2>2. CASE s # {}
    <3>1. PICK i \in s : TRUE
      BY <2>2
    <3>2. On(s) = On(s \ {i}) \cup OnItem(D, i) /\ On(s \ {i}) \cap OnItem(D, i) = {}
      BY <3>1 DEF OnItem
    <3>3. On(s \ {i}) \in SUBSET D /\ OnItem(D, i) \in SUBSET D
      BY DEF OnItem
    <3>4. Deducted(On(s \ {i})) = SumFunctionOnSet(g, s \ {i})
      BY <1>3
    <3> HIDE DEF On
    <3>5. Deducted(On(s \ {i}) \cup OnItem(D, i)) = Deducted(On(s \ {i})) + Deducted(OnItem(D, i))
      <4> DEFINE before == On(s \ {i})  here == OnItem(D, i)
      <4>1. before \in SUBSET D /\ here \in SUBSET D /\ before \cap here = {}
        BY <3>2, <3>3
      <4> HIDE DEF before, here
      <4>2. Deducted(before \cup here) = Deducted(before) + Deducted(here)
        BY <1>2, <4>1
      <4>3. QED
        BY Zenon, <4>2 DEF before, here
    <3>6. SumFunctionOnSet(g, s) = g[i] + SumFunctionOnSet(g, s \ {i}) /\ SumFunctionOnSet(g, s \ {i}) \in Int
      <4>1. IsFiniteSet(s) /\ IsFiniteSet(s \ {i}) /\ \A j \in s : g[j] \in Int
        BY <1>1, FS_Subset
      <4>2. \A j \in s \ {i} : g[j] \in Int
        BY <4>1
      <4>3. QED
        BY <4>1, <4>2, SumTakes, SumType
    <3>7. Deducted(On(s)) = SumFunctionOnSet(g, s \ {i}) + g[i] /\ g[i] \in Int
      <4>1. g[i] = Deducted(OnItem(D, i)) /\ g[i] \in Int
        BY <1>1
      <4>2. QED
        BY Zenon, <3>2, <3>4, <3>5, <4>1
    <3>8. Deducted(On(s)) = SumFunctionOnSet(g, s)
      BY <3>6, <3>7
    <3>9. QED
      BY <3>8
  <2>3. QED
    BY <2>1, <2>2
<1>4. R \in T
  <2> HIDE DEF T
  <2>1. QED
    BY <1>3, SubsetInduction
<1>5. On(R) = D
  OBVIOUS
<1>6. QED
  BY Zenon, <1>4, <1>5 DEF g

\* What the coupons leave of items.
LeftOf(D, i) == AtLeastZero(Fee[i] - Deducted(OnItem(D, i)))
LeftOn(D, items) == SumFunction([i \in items |-> LeftOf(D, i)])

LEMMA LeftOnType ==
  ASSUME NEW D \in SUBSET Detail, IsFiniteSet(D), NEW items \in SUBSET Item
  PROVE  /\ \A i \in items : LeftOf(D, i) \in Nat /\ Deducted(OnItem(D, i)) \in Nat
         /\ LeftOn(D, items) \in Nat
<1>1. ASSUME NEW i \in items PROVE LeftOf(D, i) \in Nat /\ Deducted(OnItem(D, i)) \in Nat
  <2>1. OnItem(D, i) \in SUBSET Detail /\ IsFiniteSet(OnItem(D, i))
    BY FS_Subset DEF OnItem
  <2>2. Deducted(OnItem(D, i)) \in Nat
    BY <2>1, DeductedType
  <2>3. QED
    BY <2>2, BillAssumption DEF LeftOf, AtLeastZero
<1> DEFINE f == [i \in items |-> LeftOf(D, i)]
<1>2. DOMAIN f = items /\ \A i \in items : f[i] \in Nat
  BY <1>1
<1>3. IsFiniteSet(items)
  BY BillAssumption, FS_Subset
<1> HIDE DEF f
<1>4. SumFunctionOnSet(f, items) \in Nat
  BY <1>2, <1>3, SumOfNaturals
<1>5. LeftOn(D, items) \in Nat
  BY <1>2, <1>4 DEF LeftOn, SumFunction, f
<1>6. QED
  BY <1>1, <1>5

\* A bill on fewer items is no larger ...
LEMMA LeftOnLess ==
  ASSUME NEW D \in SUBSET Detail, IsFiniteSet(D), NEW R \in SUBSET Item, NEW items \in SUBSET R
  PROVE  LeftOn(D, items) <= LeftOn(D, R)
<1> DEFINE f == [i \in R |-> LeftOf(D, i)]
           g == [i \in items |-> LeftOf(D, i)]
<1>1. IsFiniteSet(R) /\ IsFiniteSet(items)
  BY BillAssumption, FS_Subset
<1>2. DOMAIN f = R /\ DOMAIN g = items /\ \A i \in items : g[i] = f[i]
  OBVIOUS
<1>3. \A i \in R : f[i] \in Nat
  BY LeftOnType
<1> HIDE DEF f, g
<1>4. SumFunctionOnSet(f, items) <= SumFunctionOnSet(f, R)
  BY <1>1, <1>3, SumOfMore
<1>5. SumFunctionOnSet(g, items) = SumFunctionOnSet(f, items)
  BY <1>1, <1>2, SumSame
<1>6. LeftOn(D, items) = SumFunctionOnSet(g, items) /\ LeftOn(D, R) = SumFunctionOnSet(f, R)
  <2>1. LeftOn(D, items) = SumFunction(g) /\ LeftOn(D, R) = SumFunction(f)
    BY Zenon DEF LeftOn, f, g
  <2>2. QED
    BY <1>2, <2>1 DEF SumFunction
<1>7. QED
  BY Zenon, <1>4, <1>5, <1>6

\* ... and on all items it is the dues less what the coupons pay.
LEMMA LeftOnAll ==
  ASSUME NEW D \in SUBSET Detail, IsFiniteSet(D), NEW R \in SUBSET Item,
         \A d \in D : d.item \in R, \A i \in R : Deducted(OnItem(D, i)) <= Fee[i]
  PROVE  LeftOn(D, R) = Due[R] - Deducted(D)
<1> DEFINE f == [i \in R |-> LeftOf(D, i)]
           g == [i \in R |-> Deducted(OnItem(D, i))]
<1>1. IsFiniteSet(R)
  BY BillAssumption, FS_Subset
<1>2. \A i \in R : /\ Fee[i] \in Int /\ f[i] \in Int /\ g[i] \in Int
                   /\ Fee[i] = f[i] + g[i]
  <2> SUFFICES ASSUME NEW i \in R
               PROVE  /\ Fee[i] \in Int /\ LeftOf(D, i) \in Int /\ Deducted(OnItem(D, i)) \in Int
                      /\ Fee[i] = LeftOf(D, i) + Deducted(OnItem(D, i))
    OBVIOUS
  <2>1. Fee[i] \in Nat /\ Deducted(OnItem(D, i)) \in Nat /\ Deducted(OnItem(D, i)) <= Fee[i]
    BY LeftOnType, BillAssumption
  <2>2. QED
    BY <2>1 DEF LeftOf, AtLeastZero
<1>3. DOMAIN f = R
  OBVIOUS
<1>4. Deducted(D) = SumFunctionOnSet(g, R)
  BY <1>1, DeductedByItem
<1>5. LeftOn(D, R) = SumFunctionOnSet(f, R)
  BY Zenon, <1>3 DEF LeftOn, SumFunction, f
<1> HIDE DEF f, g
<1>6. SumFunctionOnSet(Fee, R) = SumFunctionOnSet(f, R) + SumFunctionOnSet(g, R)
  BY <1>1, <1>2, SumOfSums
<1>7. SumFunctionOnSet(f, R) \in Int /\ SumFunctionOnSet(g, R) \in Int
  BY <1>1, <1>2, SumType
<1>8. Due[R] = SumFunctionOnSet(Fee, R)
  BY DEF Due
<1>9. QED
  BY <1>4, <1>5, <1>6, <1>7, <1>8

\* The serials of a payment: whatever the orders are, what the clerk collects is
\* what zhimi and retained money leave of the items.
LEMMA BillIsPaid ==
  ASSUME NEW items \in SUBSET Item, NEW D \in SUBSET Detail, IsFiniteSet(D), NEW z \in Nat, NEW a \in Nat
  PROVE  /\ ServerBill(items, D, z, a) \in Bill(items)
         /\ SumFunction(ServerBill(items, D, z, a).cash) = AtLeastZero(LeftOn(D, items) - z - a)
<1> DEFINE after == [i \in items |-> LeftOf(D, i)]
           byZhimi == Spread(after, ZmCouponNum, z)
           byRetained == Spread(byZhimi.rest, DelayNum, a)
           b == ServerBill(items, D, z, a)
<1>1. b = [zhimi |-> byZhimi.took, surplus |-> byZhimi.left,
           retained |-> byRetained.took, cash |-> byRetained.rest]
  BY DEF ServerBill, LeftOf
<1>2. ZmCouponNum \in [Item -> Nat] /\ DelayNum \in [Item -> Nat]
  BY BillAssumption
<1>3. after \in [items -> Nat] /\ SumFunction(after) \in Nat /\ SumFunction(after) = LeftOn(D, items)
  <2>1. \A i \in items : LeftOf(D, i) \in Nat
    BY LeftOnType
  <2>2. LeftOn(D, items) \in Nat
    BY LeftOnType
  <2>3. SumFunction(after) = LeftOn(D, items)
    BY Zenon DEF LeftOn
  <2>4. QED
    BY <2>1, <2>2, <2>3
<1> HIDE DEF after
<1>4. /\ byZhimi.rest \in [items -> Nat] /\ byZhimi.took \in [items -> Nat] /\ byZhimi.left \in Nat
      /\ SumFunction(byZhimi.rest) = AtLeastZero(SumFunction(after) - z)
  <2>1. Passed(byZhimi, items, after, z)
    BY <1>2, <1>3, SpreadPays
  <2>2. QED
    BY <2>1 DEF Passed
<1> HIDE DEF byZhimi
<1>5. /\ byRetained.rest \in [items -> Nat] /\ byRetained.took \in [items -> Nat]
      /\ SumFunction(byRetained.rest) = AtLeastZero(SumFunction(byZhimi.rest) - a)
  <2>1. Passed(byRetained, items, byZhimi.rest, a)
    BY <1>2, <1>4, SpreadPays
  <2>2. QED
    BY <2>1 DEF Passed
<1> HIDE DEF byRetained, b
<1>6. b.cash = byRetained.rest
  BY <1>1
<1>7. SumFunction(byRetained.rest) = AtLeastZero(LeftOn(D, items) - z - a)
  <2> DEFINE n == LeftOn(D, items)  m == SumFunction(byZhimi.rest)
  <2>1. m = AtLeastZero(n - z) /\ n \in Nat /\ SumFunction(byRetained.rest) = AtLeastZero(m - a)
    BY Zenon, <1>3, <1>4, <1>5
  <2> HIDE DEF m, n
  <2>2. AtLeastZero(AtLeastZero(n - z) - a) = AtLeastZero(n - z - a)
    BY <2>1 DEF AtLeastZero
  <2>3. QED
    BY Zenon, <2>1, <2>2 DEF n
<1>8. SumFunction(b.cash) = AtLeastZero(LeftOn(D, items) - z - a)
  BY Zenon, <1>6, <1>7
<1>9. b \in Bill(items)
  BY <1>1, <1>4, <1>5 DEF Bill
<1>10. QED
  BY <1>8, <1>9 DEF b

-----------------------------------------------------------------------------
\* h has what the movements of a bill leave, for every subset of its items.
MoveStart == [zhimi |-> zhimi, retained |-> retained, ok |-> TRUE]

IsMoved(h) ==
  h = [s \in SUBSET (DOMAIN bill.cash) |->
         IF s = {} THEN MoveStart ELSE Move(h[s \ {LastBy(DelayNum, s)}], LastBy(DelayNum, s))]

LEMMA MovementsUnfold == Movements = (CHOOSE h : IsMoved(h))[DOMAIN bill.cash]
BY Zenon DEF Movements, MoveStart, InTurn, MapThenFoldSet, IsMoved

\* Zhimi that are short are not taken, and retained money that is short is told.
Balances == {s \in [zhimi : Nat, retained : Int, ok : BOOLEAN] : s.ok => s.retained \in Nat}

LEMMA MoveType ==
  ASSUME NEW items \in SUBSET Item, bill \in Bill(items), NEW i \in items, NEW s \in Balances
  PROVE  Move(s, i) \in Balances
<1>1. CASE ~s.ok
  BY <1>1 DEF Move
<1>2. CASE s.ok
  <2> DEFINE left == IF bill.zhimi[i] <= s.zhimi THEN s.zhimi - bill.zhimi[i] ELSE s.zhimi
             enough == bill.retained[i] <= s.retained
  <2>1. s.zhimi \in Nat /\ s.retained \in Nat /\ bill.zhimi[i] \in Nat /\ bill.retained[i] \in Nat
    BY <1>2 DEF Balances, Bill
  <2>2. Move(s, i) = [zhimi |-> left, retained |-> s.retained - bill.retained[i], ok |-> enough]
    BY <1>2 DEF Move
  <2>3. left \in Nat
    BY <2>1
  <2>4. enough \in BOOLEAN /\ s.retained - bill.retained[i] \in Int
    BY <2>1
  <2>5. enough => s.retained - bill.retained[i] \in Nat
    BY <2>1
  <2> HIDE DEF left, enough
  <2>6. QED
    BY <2>2, <2>3, <2>4, <2>5 DEF Balances
<1>3. QED
  BY <1>1, <1>2

LEMMA MovementsType ==
  ASSUME NEW items \in SUBSET Item, bill \in Bill(items), zhimi \in Nat, retained \in Nat
  PROVE  Movements \in Balances
<1> DEFINE St == Balances
           act == [p \in items \X St |-> Move(p[2], p[1])]
           last == [s \in SUBSET items |-> LastBy(DelayNum, s)]
           base == MoveStart
           h == CHOOSE h : IsMoved(h)
           T == {s \in SUBSET items : h[s] \in Balances}
<1>1. IsFiniteSet(items) /\ DOMAIN bill.cash = items
  BY BillAssumption, FS_Subset DEF Bill
<1>2. MoveStart \in Balances
  BY DEF MoveStart, Balances
<1>3. \A i \in items, s \in St : Move(s, i) \in St
  BY MoveType
<1>4. \A s \in SUBSET items : s # {} => LastBy(DelayNum, s) \in s
  BY BillAssumption, LastByType
<1>5. \E g : IsMoved(g)
  <2>1. base \in St /\ act \in [items \X St -> St]
    BY <1>2, <1>3
  <2>2. \A s \in SUBSET items : s # {} => last[s] \in s
    BY <1>4
  <2>3. \A i \in items, s \in St : act[<<i, s>>] = Move(s, i)
    OBVIOUS
  <2>4. \A s \in SUBSET items : last[s] = LastBy(DelayNum, s)
    OBVIOUS
  <2> HIDE DEF St, act, last, base, h
  <2>5. PICK g \in [SUBSET items -> St] : IsFold(g, items, last, base, act)
    BY <1>1, <2>1, <2>2, FoldExists
  <2>6. \A s \in SUBSET items : s # {} => act[<<last[s], g[s \ {last[s]}]>>] = Move(g[s \ {LastBy(DelayNum, s)}], LastBy(DelayNum, s))
    BY <2>2, <2>3, <2>4
  <2>7. \A s \in SUBSET items : g[s] = IF s = {} THEN base ELSE Move(g[s \ {LastBy(DelayNum, s)}], LastBy(DelayNum, s))
    BY <2>5, <2>6 DEF IsFold
  <2>8. g = [s \in SUBSET items |-> IF s = {} THEN MoveStart
                                    ELSE Move(g[s \ {LastBy(DelayNum, s)}], LastBy(DelayNum, s))]
    BY <2>7 DEF base
  <2>9. QED
    BY <1>1, <2>8 DEF IsMoved
<1>6. IsMoved(h)
  BY <1>5
<1> HIDE DEF h
<1>7. ASSUME NEW s \in SUBSET items, \A i \in s : s \ {i} \in T PROVE s \in T
  <2>1. CASE s = {}
    <3>1. h[s] = MoveStart
      BY <1>1, <1>6, <2>1 DEF IsMoved
    <3>2. QED
      BY <1>2, <3>1
  <2>2. CASE s # {}
    <3> DEFINE i == LastBy(DelayNum, s)
    <3>1. i \in s /\ i \in items
      BY <1>4, <2>2
    <3>2. h[s] = Move(h[s \ {i}], i)
      BY <1>1, <1>6, <2>2 DEF IsMoved
    <3> HIDE DEF i
    <3>3. h[s \ {i}] \in Balances
      BY <1>7, <3>1
    <3>4. h[s] \in Balances
      BY <3>1, <3>2, <3>3, MoveType
    <3>5. QED
      BY <3>4
  <2>3. QED
    BY <2>1, <2>2
<1>8. items \in T
  <2> HIDE DEF T
  <2>1. QED
    BY <1>1, <1>7, SubsetInduction
<1>9. Movements = h[items]
  BY <1>1, MovementsUnfold DEF h
<1>10. QED
  BY <1>8, <1>9

-----------------------------------------------------------------------------
PageTypes ==
  /\ listed \subseteq Coupon /\ ticked \subseteq listed /\ shown \subseteq listed
  /\ zm \in ZmFields \cup {0} /\ acc \in AccFields \cup {0}

\* What the page shows was reckoned with coupons that are ticked still, and with
\* the years and fields as they are.
PageReckoned ==
  \E coupons \in SUBSET ticked :
    /\ details = SetDeduction[coupons][ItemsOf(year)]
    /\ paid = Collected(ItemsOf(year), coupons, zm, acc)

PaymentTypes ==
  /\ phase \in {"page", "sent", "billed", "charged", "booked"}
  /\ request \in Request \cup {None} /\ (phase = "page" <=> request = None)
  /\ bill # None => \E items \in SUBSET request.items : bill \in Bill(items)
  /\ phase \in {"page", "sent"} <=> bill = None

\* What was submitted by pay.do was reckoned with some coupons.
RequestReckoned ==
  request # None =>
    /\ IsFiniteSet(request.details)
    /\ ~request.print =>
         \E coupons \in SUBSET Coupon :
           /\ request.details = SetDeduction[coupons][request.items]
           /\ request.shown = Collected(request.items, coupons, request.zm, request.acc)

\* The bill is on items of the request.
BillMadeOut ==
  bill # None =>
    \E items \in SUBSET request.items :
      bill = ServerBill(items, request.details, request.zm, request.acc)

AccountTypes ==
  /\ unpaid \subseteq Item /\ usable \subseteq Coupon
  /\ zhimi \in Nat /\ retained \in Nat /\ elsewhere \in 0..MaxElsewhere

PageInv == PageTypes /\ PageReckoned
PaymentInv == PaymentTypes /\ RequestReckoned /\ BillMadeOut
DeskInv == BoxesTypeOK /\ PageInv /\ PaymentInv /\ AccountTypes

\* What a page reckons is an amount.
LEMMA ReckonedType ==
  ASSUME NEW coupons \in SUBSET Coupon, NEW items \in SUBSET Item, NEW z \in Nat, NEW a \in Nat
  PROVE  /\ SetDeduction[coupons][items] \in SUBSET Detail /\ IsFiniteSet(SetDeduction[coupons][items])
         /\ CouponAmount[coupons][items] = Deducted(SetDeduction[coupons][items])
         /\ CouponAmount[coupons][items] \in Nat
         /\ Due[items] \in Nat
         /\ Collected(items, coupons, z, a) \in Nat
<1>1. SetDeduction[coupons][items] \in SUBSET Detail /\ IsFiniteSet(SetDeduction[coupons][items])
  BY DeductionIsSound
<1>2. CouponAmount[coupons][items] = Deducted(SetDeduction[coupons][items])
  BY DEF CouponAmount
<1>3. CouponAmount[coupons][items] \in Nat
  BY <1>1, <1>2, DeductedType
<1>4. Due[items] \in Nat
  <2>1. IsFiniteSet(items) /\ \A i \in items : Fee[i] \in Nat
    BY BillAssumption, FS_Subset
  <2>2. SumFunctionOnSet(Fee, items) \in Nat
    BY <2>1, SumOfNaturals
  <2>3. QED
    BY <2>2 DEF Due
<1>5. Collected(items, coupons, z, a) \in Nat
  BY <1>3, <1>4 DEF Collected, AtLeastZero
<1>6. QED
  BY <1>1, <1>2, <1>3, <1>4, <1>5

LEMMA Fields == PageTypes => zm \in Nat /\ acc \in Nat
BY DeskAssumption DEF PageTypes

LEMMA ItemsOfType == \A y : ItemsOf(y) \in SUBSET Item
BY DEF ItemsOf

\* The page that has just been opened.
LEMMA DeskInitially == Init => DeskInv
<1> SUFFICES ASSUME Init PROVE DeskInv
  OBVIOUS
<1> DEFINE D == SetDeduction[{}][ItemsOf(year)]
<1>1. BoxesTypeOK
  BY DEF Init, BoxesInit, BoxesTypeOK
<1>2. ItemsOf(year) = {}
  BY DeskAssumption DEF Init, BoxesInit, ItemsOf
<1>3. /\ D \in SUBSET Detail /\ CouponAmount[{}][ItemsOf(year)] = Deducted(D)
      /\ \A d \in D : d.coupon \in {}
  BY <1>2, DeductionIsSound, ReckonedType
<1>4. D = {}
  BY <1>3
<1>5. Due[{}] = 0
  BY SumOfNothing DEF Due
<1>6. Collected(ItemsOf(year), {}, 0, 0) = 0
  <2>1. Due[ItemsOf(year)] = 0 /\ CouponAmount[{}][ItemsOf(year)] = 0
    BY Zenon, <1>2, <1>3, <1>4, <1>5, DeductedNothing
  <2>2. QED
    BY <2>1 DEF Collected, AtLeastZero
<1>7. PageReckoned
  BY <1>4, <1>6 DEF PageReckoned, Init
<1>8. PageTypes /\ AccountTypes
  BY DeskAssumption DEF PageTypes, AccountTypes, Init
<1>9. PaymentInv
  BY DEF PaymentInv, PaymentTypes, RequestReckoned, BillMadeOut, Init
<1>10. QED
  BY <1>1, <1>7, <1>8, <1>9 DEF DeskInv, PageInv

\* The page keeps what its steps change.
LEMMA PageKeeps ==
  ASSUME DeskInv, [Next]_vars
  PROVE  PageInv'
<1>1. /\ listed \subseteq Coupon /\ ticked \subseteq listed /\ shown \subseteq listed
      /\ zm \in ZmFields \cup {0} /\ acc \in AccFields \cup {0}
      /\ PageReckoned /\ usable \subseteq Coupon
  BY DEF DeskInv, PageInv, PageTypes, AccountTypes
<1>2. ASSUME UNCHANGED <<year, page>> PROVE PageInv'
  <2>1. PageTypes'
    BY <1>1, <1>2 DEF PageTypes, page
  <2>2. PageReckoned'
    BY <1>1, <1>2 DEF PageReckoned, page, ItemsOf
  <2>3. QED
    BY <2>1, <2>2 DEF PageInv
<1>3. ASSUME CouponsArrive PROVE PageInv'
  <2>1. /\ listed' = usable /\ listed = {}
        /\ UNCHANGED <<year, ticked, shown, zm, acc, details, paid>>
    BY <1>3 DEF CouponsArrive, boxes
  <2>2. PageTypes'
    BY <1>1, <2>1 DEF PageTypes
  <2>3. PageReckoned'
    BY <1>1, <2>1 DEF PageReckoned, ItemsOf
  <2>4. QED
    BY <2>2, <2>3 DEF PageInv
<1>4. ASSUME YearChange PROVE PageInv'
  <2>1. /\ details' = SetDeduction[shown \cap ticked][ItemsOf(year')]
        /\ paid' = Collected(ItemsOf(year'), shown \cap ticked, zm, acc)
        /\ shown' \subseteq listed
        /\ UNCHANGED <<listed, ticked, zm, acc>>
    BY <1>4 DEF YearChange, Reckon
  <2>2. PageTypes'
    BY <1>1, <2>1 DEF PageTypes
  <2>3. PageReckoned'
    <3>1. shown \cap ticked \in SUBSET ticked'
      BY <2>1
    <3>2. ItemsOf(year') = ItemsOf(year)'
      BY DEF ItemsOf
    <3>3. QED
      BY <2>1, <3>1, <3>2 DEF PageReckoned
  <2>4. QED
    BY <2>2, <2>3 DEF PageInv
<1>5. ASSUME UNCHANGED year, UNCHANGED <<listed, shown>>, ticked' \subseteq listed,
             zm' \in ZmFields \cup {0}, acc' \in AccFields \cup {0},
             Reckon(ItemsOf(year), shown \cap ticked', zm', acc')
      PROVE  PageInv'
  <2>1. PageTypes'
    BY <1>1, <1>5 DEF PageTypes
  <2>2. PageReckoned'
    <3>1. shown \cap ticked' \in SUBSET ticked'
      OBVIOUS
    <3>2. ItemsOf(year)' = ItemsOf(year)
      BY <1>5 DEF ItemsOf
    <3>3. QED
      BY <1>5, <3>1, <3>2 DEF PageReckoned, Reckon
  <2>3. QED
    BY <2>1, <2>2 DEF PageInv
<1>6. ASSUME NEW c \in Coupon, ClickCoupon(c) PROVE PageInv'
  <2>1. ticked' \subseteq listed
    BY <1>1, <1>6 DEF ClickCoupon
  <2>2. UNCHANGED <<year, listed, shown, zm, acc>>
    BY <1>6 DEF ClickCoupon, boxes
  <2>3. Reckon(ItemsOf(year), shown \cap ticked', zm', acc')
    BY <1>6, <2>2 DEF ClickCoupon
  <2>4. QED
    BY <1>1, <1>5, <2>1, <2>2, <2>3
<1>7. ASSUME NEW z \in ZmFields, EditZm(z) PROVE PageInv'
  <2>1. zm' = z /\ UNCHANGED <<year, listed, ticked, shown, acc>>
    BY <1>7 DEF EditZm, boxes
  <2>2. Reckon(ItemsOf(year), shown \cap ticked', zm', acc')
    BY <1>7, <2>1 DEF EditZm
  <2>3. QED
    BY <1>1, <1>5, <2>1, <2>2
<1>8. ASSUME NEW a \in AccFields, EditAcc(a) PROVE PageInv'
  <2>1. acc' = a /\ UNCHANGED <<year, listed, ticked, shown, zm>>
    BY <1>8 DEF EditAcc, boxes
  <2>2. Reckon(ItemsOf(year), shown \cap ticked', zm', acc')
    BY <1>8, <2>1 DEF EditAcc
  <2>3. QED
    BY <1>1, <1>5, <2>1, <2>2
<1>9. ASSUME Clerk PROVE PageInv'
  <2>1. CASE \E y \in Year : ClickYear(y)
    BY <1>4, <2>1 DEF ClickYear
  <2>2. CASE ClickAll
    BY <1>2, <2>2 DEF ClickAll, AllClicked
  <2>3. CASE \E print \in BOOLEAN : Submit(print)
    BY <1>2, <2>3 DEF Submit, boxes
  <2>4. QED
    BY <1>6, <1>7, <1>8, <1>9, <2>1, <2>2, <2>3 DEF Clerk
<1>10. Cascade => PageInv'
  BY <1>4 DEF Cascade
<1>11. Server \/ Elsewhere => UNCHANGED <<year, page>>
  BY DEF Server, Refuse, MakeOut, Charge, Commit, CommitFails, Elsewhere, PaidElsewhere,
         UsedElsewhere, SpentElsewhere, boxes
<1>12. UNCHANGED vars => UNCHANGED <<year, page>>
  BY DEF vars, boxes
<1>13. QED
  BY <1>2, <1>3, <1>9, <1>10, <1>11, <1>12 DEF Next

\* The payment keeps what its steps change.
LEMMA PaymentKeeps ==
  ASSUME DeskInv, [Next]_vars
  PROVE  PaymentInv'
<1>1. /\ PageTypes /\ PageReckoned
      /\ PaymentTypes /\ RequestReckoned /\ BillMadeOut /\ AccountTypes
  BY DEF DeskInv, PageInv, PaymentInv
<1>2. ASSUME UNCHANGED payment PROVE PaymentInv'
  BY <1>1, <1>2 DEF PaymentInv, PaymentTypes, RequestReckoned, BillMadeOut, payment
<1>3. ASSUME BackToPage PROVE PaymentInv'
  BY <1>3 DEF BackToPage, PaymentInv, PaymentTypes, RequestReckoned, BillMadeOut
<1>4. ASSUME NEW print \in BOOLEAN, Submit(print) PROVE PaymentInv'
  <2>1. /\ phase' = "sent" /\ bill' = bill /\ phase = "page"
        /\ request' = [items |-> ItemsOf(year), details |-> IF print THEN {} ELSE details,
                       zm |-> zm, acc |-> acc, shown |-> paid, print |-> print]
    BY <1>4 DEF Submit, Idle
  <2>2. bill = None
    BY <1>1, <2>1 DEF PaymentTypes
  <2>3. PICK coupons \in SUBSET ticked : /\ details = SetDeduction[coupons][ItemsOf(year)]
                                         /\ paid = Collected(ItemsOf(year), coupons, zm, acc)
    BY <1>1 DEF PageReckoned
  <2>4. coupons \in SUBSET Coupon /\ zm \in Nat /\ acc \in Nat
    BY <1>1, Fields DEF PageTypes
  <2>5. ItemsOf(year) \in SUBSET Item
    BY ItemsOfType
  <2>6. details \in SUBSET Detail /\ IsFiniteSet(details) /\ paid \in Nat
    BY <2>3, <2>4, <2>5, ReckonedType
  <2>7. request' \in Request /\ IsFiniteSet(request'.details)
    <3>1. IsFiniteSet({})
      BY FS_EmptySet
    <3>2. request'.details = IF print THEN {} ELSE details
      BY <2>1
    <3>3. request' \in Request
      BY <2>1, <2>4, <2>5, <2>6 DEF Request
    <3>4. QED
      BY <2>6, <3>1, <3>2, <3>3
  <2>8. request' # None
    BY <2>7, DeskAssumption
  <2>9. PaymentTypes'
    BY <2>1, <2>2, <2>7, <2>8 DEF PaymentTypes
  <2>10. RequestReckoned'
    <3>1. SUFFICES ASSUME ~request'.print
                   PROVE  /\ request'.details = SetDeduction[coupons][request'.items]
                          /\ request'.shown = Collected(request'.items, coupons, request'.zm, request'.acc)
      BY <2>4, <2>7 DEF RequestReckoned
    <3>2. /\ request'.details = details /\ request'.items = ItemsOf(year) /\ request'.shown = paid
          /\ request'.zm = zm /\ request'.acc = acc
      BY <2>1, <3>1
    <3>3. QED
      BY Zenon, <2>3, <3>2
  <2>11. BillMadeOut'
    BY <2>1, <2>2 DEF BillMadeOut
  <2>12. QED
    BY <2>9, <2>10, <2>11 DEF PaymentInv
<1>5. ASSUME MakeOut PROVE PaymentInv'
  <2> DEFINE items == request.items \cap unpaid
  <2>1. /\ phase = "sent" /\ phase' = "billed" /\ request' = request
        /\ bill' = ServerBill(items, request.details, request.zm, request.acc)
    BY <1>5 DEF MakeOut
  <2>2. request \in Request /\ request # None
    BY <1>1, <2>1 DEF PaymentTypes
  <2>3. /\ items \in SUBSET request.items /\ items \in SUBSET Item
        /\ request.details \in SUBSET Detail /\ request.zm \in Nat /\ request.acc \in Nat
    BY <2>2 DEF Request
  <2>4. IsFiniteSet(request.details)
    BY <1>1, <2>2 DEF RequestReckoned
  <2> HIDE DEF items
  <2>5. bill' \in Bill(items)
    BY <2>1, <2>3, <2>4, BillIsPaid
  <2>6. bill' # None
    BY <2>3, <2>5, DeskAssumption
  <2>7. PaymentTypes'
    BY <2>1, <2>2, <2>3, <2>5, <2>6 DEF PaymentTypes
  <2>8. RequestReckoned'
    BY <1>1, <2>1 DEF RequestReckoned
  <2>9. BillMadeOut'
    BY <2>1, <2>3 DEF BillMadeOut
  <2>10. QED
    BY <2>7, <2>8, <2>9 DEF PaymentInv
<1>6. ASSUME phase \in {"billed", "charged"}, phase' \in {"charged", "booked"}, UNCHANGED <<request, bill>>
      PROVE  PaymentInv'
  <2>1. PaymentTypes'
    BY <1>1, <1>6 DEF PaymentTypes
  <2>2. RequestReckoned' /\ BillMadeOut'
    BY <1>1, <1>6 DEF RequestReckoned, BillMadeOut
  <2>3. QED
    BY <2>1, <2>2 DEF PaymentInv
<1>7. ASSUME Charge PROVE PaymentInv'
  BY <1>3, <1>6, <1>7 DEF Charge
<1>8. ASSUME Commit PROVE PaymentInv'
  BY <1>6, <1>8 DEF Commit
<1>9. Refuse \/ CommitFails => BackToPage
  BY DEF Refuse, CommitFails
<1>10. CouponsArrive \/ Cascade \/ Elsewhere => UNCHANGED payment
  BY DEF CouponsArrive, Cascade, YearChange, Elsewhere, PaidElsewhere, UsedElsewhere, SpentElsewhere
<1>11. Clerk => UNCHANGED payment \/ \E print \in BOOLEAN : Submit(print)
  BY DEF Clerk, ClickYear, YearChange, ClickAll, ClickCoupon, EditZm, EditAcc
<1>12. UNCHANGED vars => UNCHANGED payment
  BY DEF vars
<1>13. QED
  BY <1>2, <1>3, <1>4, <1>5, <1>7, <1>8, <1>9, <1>10, <1>11, <1>12 DEF Next, Server

\* So do the accounts.
LEMMA AccountsKeep ==
  ASSUME DeskInv, [Next]_vars
  PROVE  AccountTypes'
<1>1. /\ unpaid \subseteq Item /\ usable \subseteq Coupon
      /\ zhimi \in Nat /\ retained \in Nat /\ elsewhere \in 0..MaxElsewhere
      /\ PaymentTypes /\ MaxElsewhere \in Nat
  BY DeskAssumption DEF DeskInv, PaymentInv, AccountTypes
<1>2. ASSUME UNCHANGED accounts PROVE AccountTypes'
  BY <1>1, <1>2 DEF AccountTypes, accounts
<1>3. ASSUME Charge PROVE AccountTypes'
  <2> DEFINE m == Movements
  <2>1. phase = "billed" /\ UNCHANGED <<unpaid, usable, elsewhere>>
    BY <1>3 DEF Charge
  <2>2. bill # None /\ request # None
    BY <1>1, <2>1 DEF PaymentTypes
  <2>3. PICK items \in SUBSET request.items : bill \in Bill(items)
    BY <1>1, <2>2 DEF PaymentTypes
  <2>4. items \in SUBSET Item
    BY <1>1, <2>2 DEF PaymentTypes, Request
  <2>5. m \in Balances
    BY <1>1, <2>3, <2>4, MovementsType
  <2>6. bill.surplus \in Nat
    BY <2>3 DEF Bill
  <2> HIDE DEF m
  <2>7. m.zhimi \in Nat /\ (m.ok => m.retained \in Nat)
    BY <2>5 DEF Balances
  <2>8. IF m.ok
        THEN /\ zhimi' = IF bill.surplus <= m.zhimi THEN m.zhimi - bill.surplus ELSE m.zhimi
             /\ retained' = m.retained
        ELSE zhimi' = m.zhimi /\ retained' = retained
    BY <1>3 DEF Charge, m
  <2>9. zhimi' \in Nat /\ retained' \in Nat
    BY <1>1, <2>6, <2>7, <2>8
  <2>10. QED
    BY <1>1, <2>1, <2>9 DEF AccountTypes
<1>4. ASSUME Commit PROVE AccountTypes'
  <2>1. unpaid' \subseteq unpaid /\ usable' \subseteq usable /\ UNCHANGED <<zhimi, retained, elsewhere>>
    BY <1>4 DEF Commit
  <2>2. QED
    BY <1>1, <2>1 DEF AccountTypes
<1>5. ASSUME Elsewhere PROVE AccountTypes'
  <2>1. elsewhere' \in 0..MaxElsewhere
    BY <1>1, <1>5 DEF Elsewhere
  <2>2. /\ unpaid' \subseteq unpaid /\ usable' \subseteq usable /\ retained' = retained
        /\ zhimi' = zhimi \/ (zhimi > 0 /\ zhimi' = zhimi - 1)
    BY <1>5 DEF Elsewhere, PaidElsewhere, UsedElsewhere, SpentElsewhere
  <2>3. QED
    BY <1>1, <2>1, <2>2 DEF AccountTypes
<1>6. CouponsArrive \/ Cascade \/ Refuse \/ MakeOut \/ CommitFails => UNCHANGED accounts
  BY DEF CouponsArrive, Cascade, YearChange, Refuse, MakeOut, CommitFails, accounts
<1>7. Clerk => UNCHANGED accounts
  BY DEF Clerk, ClickYear, YearChange, ClickAll, ClickCoupon, EditZm, EditAcc, Submit
<1>8. UNCHANGED vars => UNCHANGED accounts
  BY DEF vars
<1>9. QED
  BY <1>2, <1>3, <1>4, <1>5, <1>6, <1>7, <1>8 DEF Next, Server

LEMMA DeskInvariant == Spec => [](BoxesInv /\ DeskInv)
<1>1. Init => BoxesInv /\ DeskInv
  BY BoxesInitially, DeskInitially DEF Init
<1>2. BoxesInv /\ DeskInv /\ [Next]_vars => (BoxesInv /\ DeskInv)'
  <2> SUFFICES ASSUME BoxesInv, DeskInv, [Next]_vars PROVE BoxesInv' /\ DeskInv'
    OBVIOUS
  <2>1. BoxesInv'
    BY BoxesKeep
  <2>2. BoxesTypeOK'
    BY <2>1 DEF BoxesInv
  <2>3. QED
    BY <2>1, <2>2, PageKeeps, PaymentKeeps, AccountsKeep DEF DeskInv
<1>3. QED
  BY <1>1, <1>2, PTL DEF Spec

\* The types of the page, the payment and the accounts.
THEOREM DeskTypes == Spec => []TypeOK
<1>1. DeskInv => TypeOK
  <2> SUFFICES ASSUME DeskInv PROVE TypeOK
    OBVIOUS
  <2>1. PICK coupons \in SUBSET ticked : /\ details = SetDeduction[coupons][ItemsOf(year)]
                                         /\ paid = Collected(ItemsOf(year), coupons, zm, acc)
    BY DEF DeskInv, PageInv, PageReckoned
  <2>2. coupons \in SUBSET Coupon /\ zm \in Nat /\ acc \in Nat /\ ItemsOf(year) \in SUBSET Item
    BY Fields, ItemsOfType DEF DeskInv, PageInv, PageTypes
  <2>3. details \subseteq Detail /\ paid \in Nat
    BY <2>1, <2>2, ReckonedType
  <2>4. QED
    BY <2>3 DEF TypeOK, DeskInv, BoxesTypeOK, PageInv, PageTypes, PaymentInv, PaymentTypes, AccountTypes
<1>2. QED
  BY <1>1, DeskInvariant, PTL

\* Whatever the clerk ticks and in whatever order, what the page deducts
\* (stdfee-pay.js, setDeduction) keeps to the items, the dues and the coupons.
THEOREM DeductionHeld == Spec => []DeductionSound
<1>1. DeskInv => DeductionSound
  <2> SUFFICES ASSUME DeskInv PROVE DeductionSound
    OBVIOUS
  <2>1. PICK coupons \in SUBSET ticked : details = SetDeduction[coupons][ItemsOf(year)]
    BY DEF DeskInv, PageInv, PageReckoned
  <2>2. coupons \in SUBSET Coupon /\ ItemsOf(year) \in SUBSET Item
    BY ItemsOfType DEF DeskInv, PageInv, PageTypes
  <2>3. /\ \A d \in details : d.coupon \in coupons /\ d.item \in ItemsOf(year) \cap Covers[d.coupon]
        /\ \A i \in Item : Deducted(OnItem(details, i)) <= Fee[i]
        /\ \A c \in Coupon : Deducted(OfCoupon(details, c)) <= Worth[c]
    BY <2>1, <2>2, DeductionIsSound
  <2>4. QED
    BY <2>3 DEF DeductionSound
<1>2. QED
  BY <1>1, DeskInvariant, PTL

\* setDeduction spends a coupon as far as it goes, however the items and the
\* coupons overlap.
THEOREM CouponsSpent == Spec => []NothingLeftOver
<1>1. DeskInv => NothingLeftOver
  <2> SUFFICES ASSUME DeskInv PROVE NothingLeftOver
    OBVIOUS
  <2>1. PICK coupons \in SUBSET ticked : details = SetDeduction[coupons][ItemsOf(year)]
    BY DEF DeskInv, PageInv, PageReckoned
  <2>2. coupons \in SUBSET Coupon /\ ItemsOf(year) \in SUBSET Item
    BY ItemsOfType DEF DeskInv, PageInv, PageTypes
  <2>3. /\ \A d \in details : d.coupon \in coupons
        /\ \A c \in coupons, i \in ItemsOf(year) :
             i \in Covers[c] /\ Deducted(OnItem(details, i)) < Fee[i] => Deducted(OfCoupon(details, c)) = Worth[c]
    BY <2>1, <2>2, DeductionIsSound
  <2>4. QED
    BY <2>3 DEF NothingLeftOver
<1>2. QED
  BY <1>1, DeskInvariant, PTL

\* The sum on the page and the bill of the back office, which are reckoned in
\* different ways, agree whatever the fees, the coupons and the orders are.
THEOREM PayBooked == Spec => []PayBooksWhatIsShown
<1>1. DeskInv => PayBooksWhatIsShown
  <2> SUFFICES ASSUME DeskInv, bill # None, ~request.print PROVE BooksShown(request, bill)
    BY DEF PayBooksWhatIsShown
  <2> DEFINE R == request.items  D == request.details  z == request.zm  a == request.acc
  <2>1. request \in Request /\ request # None
    BY DEF DeskInv, PaymentInv, PaymentTypes
  <2>2. R \in SUBSET Item /\ D \in SUBSET Detail /\ z \in Nat /\ a \in Nat
    BY <2>1 DEF Request
  <2>3. PICK coupons \in SUBSET Coupon : D = SetDeduction[coupons][R] /\ request.shown = Collected(R, coupons, z, a)
    BY <2>1 DEF DeskInv, PaymentInv, RequestReckoned
  <2>4. PICK items \in SUBSET R : bill = ServerBill(items, D, z, a)
    BY DEF DeskInv, PaymentInv, BillMadeOut
  <2> HIDE DEF R, D, z, a
  <2>5. /\ IsFiniteSet(D) /\ \A d \in D : d.item \in R
        /\ \A i \in R : Deducted(OnItem(D, i)) <= Fee[i]
    <3> DEFINE S == SetDeduction[coupons][R]
    <3>1. /\ IsFiniteSet(S) /\ \A d \in S : d.item \in R
          /\ \A i \in Item : Deducted(OnItem(S, i)) <= Fee[i]
      BY <2>2, DeductionIsSound
    <3> HIDE DEF S
    <3>2. D = S
      BY <2>3 DEF S
    <3>3. \A i \in R : i \in Item
      BY <2>2
    <3>4. QED
      BY Zenon, <3>1, <3>2, <3>3
  <2>6. items \in SUBSET Item
    BY <2>2
  <2>7. bill \in Bill(items) /\ SumFunction(bill.cash) = AtLeastZero(LeftOn(D, items) - z - a)
    BY Zenon, <2>2, <2>4, <2>5, <2>6, BillIsPaid
  <2>8. LeftOn(D, R) = Due[R] - Deducted(D) /\ LeftOn(D, items) <= LeftOn(D, R)
    BY <2>2, <2>5, LeftOnAll, LeftOnLess
  <2>9. LeftOn(D, R) \in Nat /\ LeftOn(D, items) \in Nat
    BY <2>2, <2>5, <2>6, LeftOnType
  <2>10. request.shown = AtLeastZero(LeftOn(D, R) - z - a)
    <3>1. /\ CouponAmount[coupons][R] = Deducted(D) /\ CouponAmount[coupons][R] \in Nat /\ Due[R] \in Nat
      BY <2>2, <2>3, ReckonedType
    <3>2. request.shown = AtLeastZero(Due[R] - a - z - CouponAmount[coupons][R])
      BY <2>3 DEF Collected
    <3>3. Due[R] - a - z - CouponAmount[coupons][R] = LeftOn(D, R) - z - a
      BY <2>2, <2>8, <2>9, <3>1
    <3>4. QED
      BY Zenon, <3>2, <3>3
  <2>11. AtLeastZero(LeftOn(D, items) - z - a) <= AtLeastZero(LeftOn(D, R) - z - a)
    BY <2>2, <2>8, <2>9 DEF AtLeastZero
  <2>12. SumFunction(bill.cash) <= request.shown
    BY Zenon, <2>7, <2>10, <2>11
  <2>13. DOMAIN bill.cash = R => SumFunction(bill.cash) = request.shown
    <3>1. DOMAIN bill.cash = items
      BY <2>7 DEF Bill
    <3>2. QED
      BY Zenon, <2>7, <2>10, <3>1
  <2>14. QED
    BY <2>12, <2>13 DEF BooksShown, R
<1>2. QED
  BY <1>1, DeskInvariant, PTL
=============================================================================
