------------------------------- MODULE Grants -------------------------------
(***************************************************************************)
(* What lets a hot key act for the node account: the authz grants and the  *)
(* fee allowance, how the node judges them at start (lite/grants.go), and  *)
(* the grants "dvpnd keys authz-commands" tells the operator to make.      *)
(*                                                                         *)
(* Time is in weeks.  A fee allowance is a record; `inner' of the one      *)
(* limited to some messages is a further one.                              *)
(***************************************************************************)
EXTENDS Integers, Sequences

CONSTANTS
  Never,   \* no grant, no allowance, no expiry, no spend limit
  TxFee    \* the fee of one transaction, in each denomination of gas_prices

NodeMsgs == {"register", "details", "status", "session"}
GrantWarningWindow == 2

\* What the chain holds for one message is Never or its expiry; `exec' says
\* whether an allowance limited to some messages covers MsgExec.
Basic(expiry, limit) == [type |-> "basic", expiry |-> expiry, limit |-> limit]
AllowedMsg(exec, inner) ==
  [type |-> "allowed", exec |-> exec, inner |-> inner]

\* What the chain may hold.
Expiry == Nat \cup {Never}
SpendLimit ==
  [{"udvpn"} -> Nat] \cup [{"other"} -> Nat] \cup [{"udvpn", "other"} -> Nat]
Basics == [type: {"basic"}, expiry: Expiry, limit: SpendLimit \cup {Never}]
Granted ==
  [grants: [NodeMsgs -> [expiry: Expiry] \cup {Never}],
   allowance: Basics \cup [type: {"allowed"}, exec: BOOLEAN, inner: Basics]
                \cup {Never}]

Expired(expiry, now) == expiry # Never /\ expiry <= now
Soon(expiry, now) ==
  expiry # Never /\ expiry > now /\ expiry < now + GrantWarningWindow

\* An allowance limited to some messages is unwrapped once.
Inner(a) == IF a.type = "allowed" THEN a.inner ELSE a

\* A spend limit per denomination; a denomination that is not listed has none
\* left.
Left(limit, denom) == IF denom \in DOMAIN limit THEN limit[denom] ELSE 0

-----------------------------------------------------------------------------
(* EvaluateGrants.                                                         *)

GrantProblems(now, grants) ==
  {m \in NodeMsgs : grants[m] = Never \/ Expired(grants[m].expiry, now)}

\* Mutant: the grants and the allowance's existence only.
ProblemsGrantsOnly(now, grants, allowance, minSpend) ==
  GrantProblems(now, grants) \cup (IF allowance = Never THEN {"none"} ELSE {})

Problems(now, grants, allowance, minSpend) ==
  GrantProblems(now, grants) \cup
  IF allowance = Never THEN {"no allowance"}
  ELSE LET a == Inner(allowance)
           low == {d \in DOMAIN minSpend : Left(a.limit, d) < minSpend[d]}
       IN {p \in {"exec", "expired", "exhausted"} :
             \/ /\ p = "exec"
                /\ allowance.type = "allowed" /\ ~allowance.exec
             \/ p = "expired" /\ Expired(a.expiry, now)
             \/ /\ p = "exhausted" /\ a.limit # Never
                /\ \E d \in low : Left(a.limit, d) = 0}

Warnings(now, grants, allowance, minSpend) ==
  {m \in NodeMsgs : grants[m] # Never /\ Soon(grants[m].expiry, now)} \cup
  IF allowance = Never THEN {}
  ELSE LET a == Inner(allowance)
       IN {w \in {"expires", "low"} :
             \/ w = "expires" /\ Soon(a.expiry, now)
             \/ /\ w = "low" /\ a.limit # Never
                /\ \E d \in DOMAIN minSpend :
                     Left(a.limit, d) \in 1..(minSpend[d] - 1)}

\* expectedFees: a status update and a session report per interval over the
\* window; gas prices that do not parse give none.
ExpectedFees(gas_prices, intervals) ==
  LET seconds == GrantWarningWindow * 7 * 86400
      count(i) == IF intervals[i] > 0 THEN seconds \div intervals[i] ELSE 0
  IN [d \in IF gas_prices = "ok" THEN {"udvpn"} ELSE {} |->
        TxFee * (count(1) + count(2))]

-----------------------------------------------------------------------------
(* The chain.                                                              *)

\* Whether the chain lets the hot key send message m at `now', with a fee in
\* each of `denoms' from the node account.
Authorised(m, now, grants, allowance, denoms) ==
  /\ grants[m] # Never
  /\ ~Expired(grants[m].expiry, now)
  /\ allowance # Never
  /\ allowance.type = "allowed" => allowance.exec
  /\ ~Expired(Inner(allowance).expiry, now)
  /\ Inner(allowance).limit # Never =>
       \A d \in denoms : Left(Inner(allowance).limit, d) >= TxFee

-----------------------------------------------------------------------------
(* keys authz-commands.                                                    *)

\* One grant per message, all with the same expiry.
PrintedGrants(now, validFor) ==
  [m \in NodeMsgs |-> [expiry |-> now + validFor]]

\* A fee allowance limited to MsgExec.
PrintedAllowance(now, validFor, limit) ==
  AllowedMsg(TRUE, Basic(now + validFor, limit))
=============================================================================
