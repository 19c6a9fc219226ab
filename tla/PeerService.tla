----------------------------- MODULE PeerService -----------------------------
(* What the node relies on when it calls types.Service.Peers(): an account   *)
(* of what each registered key has moved.  The services keep it in different *)
(* ways (see Services and OpenVPN); this is the promise they share.          *)
EXTENDS Integers

CONSTANT Key

VARIABLES
  known,  \* the keys the service answers for
  used,   \* what each key has moved since the service started
  tail,   \* what connections that ended during a reading had moved, per key
  report, \* what the last reading returned: a count for each key it lists
  seen    \* the part of a known key's last count that stays true

vars == <<known, used, tail, report, seen>>

Zero == [k \in Key |-> 0]

Init ==
  /\ known = {}
  /\ used = Zero /\ tail = Zero /\ seen = Zero
  /\ report = <<>>

Register(k) ==
  /\ k \notin known
  /\ known' = known \cup {k}
  /\ UNCHANGED <<used, tail, report, seen>>

\* A key that is removed takes its account with it.
Forget(k) ==
  /\ k \in known
  /\ known' = known \ {k}
  /\ seen' = [seen EXCEPT ![k] = 0]
  /\ UNCHANGED <<used, tail, report>>

Use(k) ==
  /\ used' = [used EXCEPT ![k] = @ + 1]
  /\ UNCHANGED <<known, tail, report, seen>>

\* A reading starts, and a connection ends in the middle of one.
Begin ==
  /\ report' = <<>>
  /\ UNCHANGED <<known, used, tail, seen>>

End(k) ==
  /\ \E n \in 1 .. used[k] : tail' = [tail EXCEPT ![k] = @ + n]
  /\ UNCHANGED <<known, used, report, seen>>

\* A report covers every known key.  It charges a key at most what it moved,
\* and what ended during the reading at most twice; it is never below the part
\* of the report before that stays true.
Fits(r) ==
  /\ known \subseteq DOMAIN r
  /\ \A k \in DOMAIN r : r[k] <= used[k] + tail[k]
  /\ \A k \in known : seen[k] <= r[k]

Report ==
  /\ \E S \in SUBSET Key : report' \in [S -> Nat]
  /\ Fits(report')
  /\ seen' = [k \in Key |-> IF k \in known /\ report'[k] - tail[k] > seen[k]
                            THEN report'[k] - tail[k] ELSE seen[k]]
  /\ tail' = Zero
  /\ UNCHANGED <<known, used>>

Next ==
  \/ \E k \in Key : Register(k) \/ Forget(k) \/ Use(k) \/ End(k)
  \/ Begin
  \/ Report

Spec == Init /\ [][Next]_vars
=============================================================================
