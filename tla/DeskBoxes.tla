------------------------------ MODULE DeskBoxes ------------------------------
(***************************************************************************)
(* The boxes of the fee years on stdfee-pay.js.  Ticking one makes the script *)
(* click others, each of which has the same handler; the script runs to its   *)
(* end before the clerk can click again.                                      *)
(***************************************************************************)
EXTENDS Integers

CONSTANT Years \* rows of fee years on the page, numbered from 1

Year == 1..Years

ASSUME YearsAssumption == Years \in Nat \ {0}

VARIABLES
  year,         \* the boxes of the years; those of their items follow at once
  all,          \* the box of all
  pending, turn \* boxes whose click() is still to come, and what they become

boxes == <<year, all, pending, turn>>

BoxesInit ==
  /\ year = [y \in Year |-> FALSE] /\ all = FALSE
  /\ pending = {} /\ turn = FALSE

\* Mutant: ticking a year leaves the years before it alone.
Follows(y, v) == IF v THEN {} ELSE {x \in Year : x > y /\ year[x]}

\* Mutant: every other year is clicked.
FollowsAll(y, v) == Year \ {y}

\* The years that a change of year y has clicked: those before it that are not
\* ticked, or those after it that are.
Followers(y, v) ==
  IF v THEN {x \in Year : x < y /\ ~year[x]} ELSE {x \in Year : x > y /\ year[x]}

\* The handler of .YZSDcheck, when the box of a year becomes v.
BoxChanges(y, v) ==
  /\ year' = [year EXCEPT ![y] = v]
  /\ all' = \A x \in Year : year'[x]
  /\ pending' = (pending \ {y}) \cup Followers(y, v)
  /\ turn' = v

\* The clerk clicks the box of a year.
BoxClicked(y) == pending = {} /\ BoxChanges(y, ~year[y])

\* The script clicks the first of the boxes that it has still to click.
BoxFollows(y) ==
  /\ y \in pending /\ \A x \in pending : y <= x
  /\ BoxChanges(y, turn)

\* .YZSDcheckAll: every year that differs is clicked.
AllClicked ==
  /\ pending = {}
  /\ all' = ~all
  /\ pending' = {y \in Year : year[y] # all'}
  /\ turn' = all'
  /\ UNCHANGED year

\* A script that has begun runs to its end.
ScriptRuns == WF_boxes(\E y \in Year : BoxFollows(y))

\* Whatever boxes are clicked, the clicks they cause leave the years ticked from
\* the first without a gap, and the box of all says whether these are all.
YearsInOrder ==
  pending = {} =>
    /\ \A x, y \in Year : x < y /\ year[y] => year[x]
    /\ all <=> \A y \in Year : year[y]

\* Years whose boxes are not, or not yet, as the script's last click.
Amiss == {y \in Year : year[y] # turn}

\* Until it comes to its end, every click of the script brings one more box to
\* where the clerk wants them and none away from there, so that on a page of any
\* length a click never causes more clicks than there are years.
ClicksAdvance ==
  [][pending # {} => turn' = turn /\ Amiss' \subseteq Amiss /\ Amiss' # Amiss]_boxes

\* The clicks one click causes come to an end, each bringing it nearer.
ClicksSettle == ClicksAdvance /\ []<>(pending = {})
=============================================================================
