----------------------------- MODULE MCSessions -----------------------------
(* Small instances of Sessions for TLC.                                    *)
EXTENDS Sessions, TLC

CONSTANTS s1, s2, k1, k2, h1, h2

\* Two sessions of one account.
OneOwner == (s1 :> "a" @@ s2 :> "a")
NodeSessions == (s1 :> 0 @@ s2 :> 0)
NoCap == (s1 :> 0 @@ s2 :> 0)
TwoOwners == (s1 :> "a" @@ s2 :> "b")
PlanSessions == (s1 :> 1 @@ s2 :> 1)
SoleOwner == (s1 :> "a")
SoleNodeSession == (s1 :> 0)
SoleCap == (s1 :> 2)
CapOne == (s1 :> 1)

\* Any session may ask with any key, or each with a key of its own.
AnyKey == {s1, s2} \X {k1, k2}
OwnKey == {<<s1, k1>>, <<s2, k2>>}
SoleAsk == {<<s1, k1>>}
TwoKeys == {<<s1, k1>>, <<s1, k2>>}

HandlerSymmetry == Permutations({h1, h2})
=============================================================================
