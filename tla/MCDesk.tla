-------------------------------- MODULE MCDesk -------------------------------
(* Three years with four items, and two coupons, for module Desk. *)
EXTENDS Desk, TLC

CONSTANTS y0, y1, s1, y2, big, small, other

\* A fee of the first year, tuition and books of the second, coaching in the third.
MCYearOf == y0 :> 1 @@ y1 :> 2 @@ s1 :> 2 @@ y2 :> 3
MCFee == y0 :> 1 @@ y1 :> 3 @@ s1 :> 2 @@ y2 :> 2
MCRowNo == y0 :> 1 @@ s1 :> 2 @@ y1 :> 3 @@ y2 :> 4

\* Two coupons compete for tuition and books of the second year; one also goes
\* with coaching, the other with an item the student has not got: three items
\* each, so that the page's order of the coupons decides which of them pays first.
MCWorth == big :> 4 @@ small :> 1
MCCovers == big :> {y1, s1, y2} @@ small :> {s1, y1, other}
MCCouponNo == small :> 1 @@ big :> 2

MCZmCouponNum == y0 :> 4 @@ y1 :> 2 @@ s1 :> 1 @@ y2 :> 3
MCDelayNum == y0 :> 1 @@ y1 :> 3 @@ s1 :> 4 @@ y2 :> 2
=============================================================================
