---------------------------- MODULE DomainPromise ---------------------------
(***************************************************************************)
(* What the domain engine promises to its callers: a command that is not     *)
(* refused by the present state takes effect at one moment, wholly and at     *)
(* most once.  It need not take effect at all.                                *)
(***************************************************************************)
EXTENDS DomainCommands

CONSTANTS Call, OpeningZhimi, OpeningStock

VARIABLES zhimi, goods, applied

promise == <<zhimi, goods, applied>>

Init ==
  /\ zhimi = OpeningZhimi
  /\ goods = [stock |-> OpeningStock, sold |-> [u \in User |-> 0]]
  /\ applied = {}

Apply(c, w) ==
  /\ c \notin applied
  /\ ~Refused(w, zhimi[w.user], goods)
  /\ zhimi' = [zhimi EXCEPT ![w.user] = ZhimiAfter(w, @)]
  /\ goods' = IF Exchanges(w) THEN GoodsAfter(w, goods) ELSE goods
  /\ applied' = applied \cup {c}

Next == \E c \in Call, w \in Works : Apply(c, w)

Spec == Init /\ [][Next]_promise
=============================================================================
