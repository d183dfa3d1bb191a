--------------------------- MODULE DomainCommands ---------------------------
(***************************************************************************)
(* What one command of the domain engine asks of the state of its domain    *)
(* objects: YzUserDomain.editZhimi and exchange on the zhimi of a user,      *)
(* JdGoodsSalesDomain.exchange on the goods of a sale.  There is one sale.   *)
(***************************************************************************)
EXTENDS Integers

CONSTANTS
  User,       \* users with a zhimi account
  Works,      \* what callers ask for
  SalesPrice, \* zhimi one piece costs
  OnceCount,  \* pieces a user may take at a time
  SumCount    \* pieces after which a user may take no more; 0: no limit

\* kind: zhimi "in" or "out" (AccountService.trans), or an "exchange" of count
\* pieces (confirmExchangeGoods); check: canCheckAccount.
ASSUME CommandAssumption ==
  /\ Works \subseteq [kind : {"in", "out", "exchange"}, user : User, count : Nat, check : BOOLEAN]
  /\ SalesPrice \in Nat /\ OnceCount \in Nat /\ SumCount \in Nat

Exchanges(w) == w.kind = "exchange"

\* The zhimi a command takes out.
Cost(w) == IF Exchanges(w) THEN w.count * SalesPrice ELSE w.count

\* E200022: zhimi is short.
TooDear(w, zhimi) == (Exchanges(w) \/ (w.kind = "out" /\ w.check)) /\ Cost(w) > zhimi

\* Mutant: a sale that runs out on the way is not noticed.
SoldOutBefore(w, goods) == goods.stock <= 0

\* E200012: stock is short.
SoldOut(w, goods) == goods.stock < w.count \/ goods.stock <= 0

\* E200025: too many at a time, or the user has had enough before.
TakenEnough(w, goods) == w.count > OnceCount \/ (SumCount > 0 /\ goods.sold[w.user] >= SumCount)

Refused(w, zhimi, goods) ==
  \/ TooDear(w, zhimi)
  \/ Exchanges(w) /\ (SoldOut(w, goods) \/ TakenEnough(w, goods))

ZhimiAfter(w, zhimi) == IF w.kind = "in" THEN zhimi + w.count ELSE zhimi - Cost(w)

\* salesCount and the exchange records.
GoodsAfter(w, goods) ==
  [stock |-> goods.stock - w.count, sold |-> [goods.sold EXCEPT ![w.user] = @ + w.count]]
=============================================================================
