------------------------------ MODULE Sessions ------------------------------
(***************************************************************************)
(* The session engine of the node: handshakes admit peers, set_sessions    *)
(* stores their usage, update_sessions reports it and retires what ended,  *)
(* start-up reconciliation settles what a stopped process left behind.     *)
(*                                                                         *)
(* Handshake handlers, the two jobs, the clients' traffic and the chain    *)
(* all move independently.  Handlers and jobs meet at one mutex (`lock',   *)
(* context.Admission()), at the VPN service (`peer') and at the sqlite     *)
(* table (`row').                                                          *)
(***************************************************************************)
EXTENDS Integers, FiniteSets, FiniteSetsExt

CONSTANTS
  Session,       \* session ids on the chain, all naming this node
  Key,           \* peer keys clients ask with
  Handler,       \* handshake requests being served at once
  None,          \* absence of a row, a peer, a key, a lock holder
  Owner,         \* account of each session
  SubOf,         \* subscription of each session, 0 for a node session
  MaxBytes,      \* byte cap of each session, 0 for none
  Granted,       \* bytes a subscription grants each account
  Asks,          \* the <<session, key>> pairs clients ask for
  MaxPeers,      \* qos.max_peers
  TrafficBound,  \* bound on the traffic units of each session
  CrashBound,    \* bound on the number of crashes
  LateInclusion  \* may a transaction given up on still get into a block

ASSUME SessionsAssumption ==
  /\ IsFiniteSet(Key)
  /\ None \notin Session \cup Key \cup Handler \cup {"set"}
  /\ "set" \notin Handler
  /\ SubOf \in [Session -> Nat]
  /\ MaxBytes \in [Session -> Nat]
  /\ Granted \in Nat
  /\ Asks \subseteq Session \X Key
  /\ MaxPeers \in Nat
  /\ TrafficBound \in Nat
  /\ CrashBound \in Nat
  /\ LateInclusion \in BOOLEAN

VARIABLES
  node,     \* "down", "booting" (reconciled, rows not cleared), "up"
  crashes,  \* number of crashes so far
  chain,    \* the chain's session records
  plan,     \* the chain's subscription records
  late,     \* a transaction the client gave up on that is still in a mempool
  peer,     \* the VPN service: a peer's counters, per key
  row,      \* the sqlite table: one row per admitted session
  lock,     \* the admission mutex
  pc,       \* where each handshake handler is
  req,      \* what each handler was asked for and what the chain told it
  set,      \* the set_sessions job
  upd,      \* the update_sessions job
  used,     \* history: traffic that really moved in each session
  orphans   \* history: keys whose row could not be written nor peer removed

chainVars == <<chain, plan, late>>
handlers == <<pc, req>>
history == <<used, orphans>>
vars == <<node, crashes, chain, plan, late, peer, row, lock, pc, req, set,
          upd, used, orphans>>

-----------------------------------------------------------------------------
(* Byte pairs, rows, peers and the states of the handlers and jobs.        *)

Bytes == [up: Nat, down: Nat]
Zero == [up |-> 0, down |-> 0]
Total(b) == b.up + b.down
Plus(a, b) == [up |-> a.up + b.up, down |-> a.down + b.down]
AtLeast(a, b) == a.up >= b.up /\ a.down >= b.down

\* `base' is what the chain held at admission, `bytes' the session's total.
\* The address and subscription columns are Owner[s] and SubOf[s].
Row == [key: Key, available: Nat, base: Bytes, bytes: Bytes]

\* `s' is history: the session the peer was added for.
Peer == [s: Session, bytes: Bytes]

ASSUME NoneAssumption == None \notin Row \cup Peer \cup Bytes

\* "inactive" is also a record the chain has deleted: every reader treats a
\* nil record and an Inactive one alike.
Status == {"active", "pending", "inactive"}

Subscriptions == {SubOf[s] : s \in Session}
NoTx == [s \in Session |-> None]
Tx == [Session -> Bytes \cup {None}]

NoRequest ==
  [s |-> None, k |-> None, base |-> Zero, left |-> 0, utilised |-> 0]
IdleSet == [pc |-> "idle", peers |-> [k \in Key |-> None]]
IdleUpdate ==
  [pc |-> "idle", items |-> [s \in Session |-> None], todo |-> {},
   batch |-> {}, cur |-> None, removePeer |-> FALSE, removeSession |-> FALSE]

HandlerPc == {"idle", "session", "plan", "lock", "add", "record"}
Request ==
  [s: Session \cup {None}, k: Key \cup {None}, base: Bytes, left: Nat,
   utilised: Nat]
SetState ==
  [pc: {"idle", "lock", "pass"}, peers: [Key -> Bytes \cup {None}]]
UpdateState ==
  [pc: {"idle", "check", "retire", "send", "requery", "resend", "each"},
   items: [Session -> Row \cup {None}], todo: SUBSET Session,
   batch: SUBSET Session, cur: Session \cup {None}, removePeer: BOOLEAN,
   removeSession: BOOLEAN]

TypeOK ==
  /\ node \in {"down", "booting", "up"}
  /\ crashes \in 0..CrashBound
  /\ chain \in [Session -> [status: Status, bytes: Bytes]]
  /\ plan \in [Subscriptions -> Status]
  /\ late \in Tx
  /\ peer \in [Key -> Peer \cup {None}]
  /\ row \in [Session -> Row \cup {None}]
  /\ lock \in Handler \cup {"set", None}
  /\ pc \in [Handler -> HandlerPc]
  /\ req \in [Handler -> Request]
  /\ set \in SetState
  /\ upd \in UpdateState
  /\ used \in [Session -> Bytes]
  /\ orphans \in SUBSET Key

Init ==
  /\ node = "down"
  /\ crashes = 0
  /\ chain = [s \in Session |-> [status |-> "active", bytes |-> Zero]]
  /\ plan = [p \in Subscriptions |-> "active"]
  /\ late = NoTx
  /\ peer = [k \in Key |-> None]
  /\ row = [s \in Session |-> None]
  /\ lock = None
  /\ pc = [h \in Handler |-> "idle"]
  /\ req = [h \in Handler |-> NoRequest]
  /\ set = IdleSet
  /\ upd = IdleUpdate
  /\ used = [s \in Session |-> Zero]
  /\ orphans = {}

-----------------------------------------------------------------------------
(* The VPN service and the session table, as the handlers and jobs see     *)
(* them.  A RemovePeer that returns an error may or may not have removed   *)
(* the peer: each caller picks which.                                      *)

Peers == {k \in Key : peer[k] # None}
Stored == {s \in Session : row[s] # None}
KeyStored(k) == \E s \in Stored : row[s].key = k
ServedBytes(r) == Total(r.bytes) - Total(r.base)

RemovePeers(K) ==
  /\ peer' = [k \in Key |-> IF k \in K THEN None ELSE peer[k]]
  /\ orphans' = orphans \ K

\* A client moves one unit of traffic through its peer.  It has the tunnel's
\* configuration only from the reply, after the row is written.
Traffic(k) ==
  /\ k \in Peers /\ KeyStored(k)
  /\ LET s == peer[k].s IN
     /\ Total(used[s]) < TrafficBound
     /\ \E unit \in {[up |-> 1, down |-> 0], [up |-> 0, down |-> 1]} :
          /\ peer' = [peer EXCEPT ![k].bytes = Plus(@, unit)]
          /\ used' = [used EXCEPT ![s] = Plus(@, unit)]
  /\ UNCHANGED <<node, crashes, chainVars, row, lock, handlers, set, upd, orphans>>

-----------------------------------------------------------------------------
(* The chain (external).  A session or subscription ends by way of         *)
(* "pending" or at once.                                                   *)

EndSession(s) ==
  /\ \/ /\ chain[s].status = "active"
        /\ chain' = [chain EXCEPT ![s].status = "pending"]
     \/ /\ chain[s].status # "inactive"
        /\ chain' = [chain EXCEPT ![s].status = "inactive"]
  /\ UNCHANGED <<node, crashes, plan, late, peer, row, lock, handlers, set, upd, history>>

EndPlan(p) ==
  /\ p # 0
  /\ \/ plan[p] = "active" /\ plan' = [plan EXCEPT ![p] = "pending"]
     \/ plan[p] # "inactive" /\ plan' = [plan EXCEPT ![p] = "inactive"]
  /\ UNCHANGED <<node, crashes, chain, late, peer, row, lock, handlers, set, upd, history>>

\* The chain takes a transaction whole or not at all: every session it names
\* must still be there and not inactive, and no total may go down.
Acceptable(tx) ==
  \A s \in Session : tx[s] # None =>
    /\ chain[s].status # "inactive"
    /\ AtLeast(tx[s], chain[s].bytes)

Applied(tx) ==
  [s \in Session |-> IF tx[s] = None THEN chain[s]
                     ELSE [chain[s] EXCEPT !.bytes = tx[s]]]

\* UpdateSessions sends a transaction and says whether it was seen included.
\* An included one uses up the account's sequence number, and with it any
\* transaction still waiting.  One the client stopped waiting for may stay in
\* a mempool.
UpdateSessions(tx, ok) ==
  \/ /\ ok /\ Acceptable(tx)
     /\ chain' = Applied(tx) /\ late' = NoTx
  \/ ~ok /\ UNCHANGED <<chain, late>>
  \/ /\ ~ok /\ LateInclusion /\ late = NoTx
     /\ late' = tx /\ UNCHANGED chain

IncludeLate ==
  /\ late # NoTx
  /\ chain' = IF Acceptable(late) THEN Applied(late) ELSE chain
  /\ late' = NoTx
  /\ UNCHANGED <<node, crashes, plan, peer, row, lock, handlers, set, upd, history>>

-----------------------------------------------------------------------------
(* A handshake: admit().  Its refusals before the lock change nothing, so  *)
(* a request that fails checkCapacity at the door is not shown.            *)

\* Mutant: the key's uniqueness is not looked at.
CheckCapacityById(s, k) ==
  /\ Cardinality(Peers) < MaxPeers
  /\ row[s] = None

CheckCapacity(s, k) ==
  /\ Cardinality(Peers) < MaxPeers
  /\ row[s] = None
  /\ ~KeyStored(k)

\* The reply goes out (or an error does) and the handler is done.
Leave(h) ==
  /\ pc' = [pc EXCEPT ![h] = "idle"]
  /\ req' = [req EXCEPT ![h] = NoRequest]

Begin(h) ==
  /\ node = "up"
  /\ pc[h] = "idle"
  /\ \E ask \in Asks :
       /\ CheckCapacity(ask[1], ask[2])
       /\ req' = [req EXCEPT ![h] = [NoRequest EXCEPT !.s = ask[1], !.k = ask[2]]]
  /\ pc' = [pc EXCEPT ![h] = "session"]
  /\ UNCHANGED <<node, crashes, chainVars, peer, row, lock, set, upd, history>>

\* The chain's session record: it must be active and under its byte cap.
\* Any query may fail.
QuerySession(h) ==
  LET s == req[h].s IN
  /\ pc[h] = "session"
  /\ \/ Leave(h)
     \/ /\ chain[s].status = "active"
        /\ MaxBytes[s] > 0 => Total(chain[s].bytes) < MaxBytes[s]
        /\ pc' = [pc EXCEPT ![h] = IF SubOf[s] = 0 THEN "lock" ELSE "plan"]
        /\ req' = [req EXCEPT ![h] =
             [s |-> s, k |-> req[h].k, base |-> chain[s].bytes, utilised |-> 0,
              left |-> IF MaxBytes[s] > 0
                         THEN MaxBytes[s] - Total(chain[s].bytes) ELSE 0]]
  /\ UNCHANGED <<node, crashes, chainVars, peer, row, lock, set, upd, history>>

\* The subscription must be active; what the chain says the allocation has
\* used is any number it may hold.
QueryPlan(h) ==
  /\ pc[h] = "plan"
  /\ \/ Leave(h)
     \/ /\ plan[SubOf[req[h].s]] = "active"
        /\ \E utilised \in 0..Granted :
             req' = [req EXCEPT ![h].utilised = utilised]
        /\ pc' = [pc EXCEPT ![h] = "lock"]
  /\ UNCHANGED <<node, crashes, chainVars, peer, row, lock, set, upd, history>>

\* Mutant: looks for rows of the session instead of the account.
SameSetById(s) == {t \in Stored : t = s}

\* The rows gorm's struct condition selects: a zero Subscription is left out
\* of the WHERE clause, so a node session selects all the account's rows.
SameSet(s) ==
  {t \in Stored : Owner[t] = Owner[s] /\ (SubOf[s] = 0 \/ SubOf[t] = SubOf[s])}

\* Bytes stored for the allocation, on top of what the chain answered.
Served(table, S) ==
  LET served(s) == ServedBytes(table[s]) IN MapThenSumSet(served, S)
Utilised(h) == req[h].utilised + Served(row, SameSet(req[h].s))

\* Mutant: an allocation used up is not refused.
AvailableUnchecked(h) ==
  {IF SubOf[req[h].s] = 0 THEN req[h].left ELSE Granted - Utilised(h)}

\* The bytes this admission may still move, 0 for no limit; no value when
\* the allocation is used up.
Available(h) ==
  IF SubOf[req[h].s] = 0 THEN {req[h].left}
  ELSE {IF req[h].left = 0 \/ left < req[h].left THEN left ELSE req[h].left :
          left \in {n \in 1..Granted : n = Granted - Utilised(h)}}

\* Mutant: what was checked before the chain queries is relied on.
NoRecheck(h) == TRUE

\* The answer at the door is stale by now.
Recheck(h) == CheckCapacity(req[h].s, req[h].k)

\* Takes the lock, checks again, and drops the account's earlier peers; an
\* error on the way (the database, a peer that will not go) ends it there.
Lock(h) ==
  LET s == req[h].s
      earlier == {row[t].key : t \in SameSet(s)} \cap Peers
  IN
  /\ pc[h] = "lock" /\ lock = None
  /\ \/ Leave(h) /\ UNCHANGED <<peer, orphans, lock>>
     \/ /\ Recheck(h)
        /\ \E left \in Available(h) :
             \/ /\ RemovePeers(earlier)
                /\ pc' = [pc EXCEPT ![h] = "add"]
                /\ req' = [req EXCEPT ![h].left = left]
                /\ lock' = h
             \/ \E gone \in SUBSET earlier :
                  RemovePeers(gone) /\ Leave(h) /\ UNCHANGED lock
  /\ UNCHANGED <<node, crashes, chainVars, row, set, upd, used>>

\* A service given a key it still has (an orphan) keeps its counters, starts
\* them again or refuses.
AddPeer(h) ==
  LET k == req[h].k IN
  /\ pc[h] = "add"
  /\ \/ /\ Leave(h) /\ lock' = None
        /\ UNCHANGED <<peer, orphans>>
     \/ /\ \E b \in {Zero} \cup {peer[x].bytes : x \in Peers \cap {k}} :
             peer' = [peer EXCEPT ![k] = [s |-> req[h].s, bytes |-> b]]
        /\ orphans' = orphans \ {k}
        /\ pc' = [pc EXCEPT ![h] = "record"]
        /\ UNCHANGED <<req, lock>>
  /\ UNCHANGED <<node, crashes, chainVars, row, set, upd, used>>

\* Writes the row and unlocks.  When the row cannot be written (the unique
\* indexes on id and key, or any database error) the peer is taken out again,
\* if the service lets it.
CreateRow(h) ==
  LET s == req[h].s
      k == req[h].k
  IN
  /\ pc[h] = "record"
  /\ \/ /\ row[s] = None /\ ~KeyStored(k)
        /\ row' = [row EXCEPT ![s] =
             [key |-> k, available |-> req[h].left, base |-> req[h].base,
              bytes |-> req[h].base]]
        /\ UNCHANGED <<peer, orphans>>
     \/ RemovePeers({k}) /\ UNCHANGED row
     \/ orphans' = orphans \cup {k} /\ UNCHANGED <<peer, row>>
  /\ Leave(h) /\ lock' = None
  /\ UNCHANGED <<node, crashes, chainVars, set, upd, used>>

-----------------------------------------------------------------------------
(* The set_sessions job: setSessions().                                    *)

\* Mutant: only peers the node has a row for are looked at.
ReadKnownPeers ==
  /\ node = "up"
  /\ set.pc = "idle"
  /\ set' = [pc |-> "lock",
             peers |-> [k \in Key |-> IF k \in Peers /\ KeyStored(k)
                                     THEN peer[k].bytes ELSE None]]
  /\ UNCHANGED <<node, crashes, chainVars, peer, row, lock, handlers, upd, history>>

\* Peers() is read before the lock is taken.
ReadPeers ==
  /\ node = "up"
  /\ set.pc = "idle"
  /\ set' = [pc |-> "lock",
             peers |-> [k \in Key |-> IF k \in Peers THEN peer[k].bytes ELSE None]]
  /\ UNCHANGED <<node, crashes, chainVars, peer, row, lock, handlers, upd, history>>

\* Mutant: the job does not share the handshakes' lock.
LockSetAlone ==
  /\ set.pc = "lock"
  /\ set' = [set EXCEPT !.pc = "pass"]
  /\ UNCHANGED <<node, crashes, chainVars, peer, row, lock, handlers, upd, history>>

LockSet ==
  /\ set.pc = "lock" /\ lock = None
  /\ set' = [set EXCEPT !.pc = "pass"]
  /\ lock' = "set"
  /\ UNCHANGED <<node, crashes, chainVars, peer, row, handlers, upd, history>>

\* Mutants: what the chain held at admission is left out; the counters are
\* added to the total stored last time.
UsageOfPeer(r, b) == b
UsageSinceStored(r, b) == Plus(r.bytes, b)

\* What the job makes of one peer's counters: see reportedUsage.  A peer is
\* taken to have moved when its upload did.
ReportedUsage(r, b) == Plus(r.base, b)
Moved(r, b) == ReportedUsage(r, b).up # r.bytes.up
Exceeded(r, b) == r.available > 0 /\ Total(b) > r.available

\* One turn of the loop over the peers, in whatever order Peers() gave.
SetPeer(k) ==
  /\ set.pc = "pass" /\ set.peers[k] # None
  /\ set' = [set EXCEPT !.peers[k] = None]
  /\ LET b == set.peers[k] IN
     \/ UNCHANGED <<peer, row, orphans>>       \* the database or the service failed
     \/ /\ ~KeyStored(k)                       \* an unknown peer
        /\ RemovePeers({k}) /\ UNCHANGED row
     \/ \E s \in Stored :
          /\ row[s].key = k /\ Moved(row[s], b)
          /\ \/ row' = [row EXCEPT ![s].bytes = ReportedUsage(row[s], b)]
             \/ UNCHANGED row                  \* the update failed
          /\ \/ Exceeded(row[s], b) /\ RemovePeers({k})
             \/ UNCHANGED <<peer, orphans>>    \* within its bytes, or it would not go
  /\ UNCHANGED <<node, crashes, chainVars, lock, handlers, upd, used>>

UnlockSet ==
  /\ set.pc = "pass" /\ set.peers = IdleSet.peers
  /\ set' = IdleSet
  /\ lock' = None
  /\ UNCHANGED <<node, crashes, chainVars, peer, row, handlers, upd, history>>

-----------------------------------------------------------------------------
(* The update_sessions job: updateSessions(), checkSession(), retire() and *)
(* reportSessions().                                                       *)

ReadRows ==
  /\ node = "up"
  /\ upd.pc = "idle"
  /\ upd' = [IdleUpdate EXCEPT !.pc = "check", !.items = row, !.todo = Stored]
  /\ UNCHANGED <<node, crashes, chainVars, peer, row, lock, handlers, set, history>>

\* Mutants: a session that loses its row keeps its peer; it keeps its row; one
\* that loses its peer is not reported.
VerdictRowOnly(rp, rs, skip) ==
  [removePeer |-> rp /\ ~rs, removeSession |-> rs, skipUpdate |-> skip]
VerdictPeerOnly(rp, rs, skip) ==
  [removePeer |-> rp, removeSession |-> FALSE, skipUpdate |-> skip]
VerdictSkips(rp, rs, skip) ==
  [removePeer |-> rp, removeSession |-> rs, skipUpdate |-> skip \/ rp]

Verdict(rp, rs, skip) ==
  [removePeer |-> rp, removeSession |-> rs, skipUpdate |-> skip]

\* What checkSession may answer for an item.  `later' is whether the row was
\* written before the chain's status_at, which compares the clocks of two
\* machines; it counts only when the chain already has these totals.
CheckSession(item, s) ==
  LET same == item.bytes = chain[s].bytes
      ended == chain[s].status = "inactive"
      capped == MaxBytes[s] > 0 /\ Total(item.bytes) >= MaxBytes[s]
      drop(later) == (same /\ later) \/ chain[s].status # "active" \/ capped
      sub == IF SubOf[s] = 0 THEN "active" ELSE plan[SubOf[s]]
  IN
  {Verdict(FALSE, FALSE, TRUE)}                          \* the session query failed
    \cup {Verdict(drop(later), ended, TRUE) :            \* the subscription's did
            later \in IF SubOf[s] = 0 THEN {} ELSE BOOLEAN}
    \cup {Verdict(drop(later) \/ sub # "active",
                  ended \/ sub = "inactive",
                  same \/ ended \/ sub = "inactive") : later \in BOOLEAN}

CheckItem(s) ==
  /\ upd.pc = "check" /\ s \in upd.todo
  /\ \E v \in CheckSession(upd.items[s], s) :
       upd' = [upd EXCEPT
         !.todo = @ \ {s},
         !.batch = IF v.skipUpdate THEN @ ELSE @ \cup {s},
         !.pc = IF v.removePeer \/ v.removeSession THEN "retire" ELSE @,
         !.cur = IF v.removePeer \/ v.removeSession THEN s ELSE None,
         !.removePeer = v.removePeer,
         !.removeSession = v.removeSession]
  /\ UNCHANGED <<node, crashes, chainVars, peer, row, lock, handlers, set, history>>

\* The whole of retire(), which waits for the lock and gives it back.  When
\* the peer cannot be removed the row stays.
Retire ==
  LET s == upd.cur
      k == upd.items[s].key
  IN
  /\ upd.pc = "retire" /\ lock = None
  /\ \/ /\ IF upd.removePeer THEN RemovePeers({k}) ELSE UNCHANGED <<peer, orphans>>
        /\ row' = IF upd.removeSession THEN [row EXCEPT ![s] = None] ELSE row
     \/ RemovePeers({k}) /\ upd.removePeer /\ UNCHANGED row
     \/ UNCHANGED <<peer, orphans, row>>
  /\ upd' = [upd EXCEPT !.pc = "check", !.cur = None,
                        !.removePeer = FALSE, !.removeSession = FALSE]
  /\ UNCHANGED <<node, crashes, chainVars, lock, handlers, set, used>>

Report(S) == [s \in Session |-> IF s \in S THEN upd.items[s].bytes ELSE None]

\* After the last item: nothing to report, or on to the batch.
EndChecks ==
  /\ upd.pc = "check" /\ upd.todo = {}
  /\ upd' = IF upd.batch = {} THEN IdleUpdate ELSE [upd EXCEPT !.pc = "send"]
  /\ UNCHANGED <<node, crashes, chainVars, peer, row, lock, handlers, set, history>>

SendBatch ==
  /\ upd.pc = "send"
  /\ \E ok \in BOOLEAN :
       /\ UpdateSessions(Report(upd.batch), ok)
       /\ upd' = IF ok THEN IdleUpdate ELSE [upd EXCEPT !.pc = "requery"]
  /\ UNCHANGED <<node, crashes, plan, peer, row, lock, handlers, set, history>>

\* Each session is asked about again; the ones in `failed' cannot be.
Requery ==
  /\ upd.pc = "requery"
  /\ \E failed \in SUBSET upd.batch :
       LET still == failed \cup {s \in upd.batch : chain[s].status # "inactive"}
       IN
       upd' = IF still = {} \/ failed = upd.batch THEN IdleUpdate
              ELSE [upd EXCEPT !.pc = IF still = upd.batch THEN "each" ELSE "resend",
                               !.batch = still]
  /\ UNCHANGED <<node, crashes, chainVars, peer, row, lock, handlers, set, history>>

Resend ==
  /\ upd.pc = "resend"
  /\ \E ok \in BOOLEAN :
       /\ UpdateSessions(Report(upd.batch), ok)
       /\ upd' = IF ok THEN IdleUpdate ELSE [upd EXCEPT !.pc = "each"]
  /\ UNCHANGED <<node, crashes, plan, peer, row, lock, handlers, set, history>>

SendOne(s) ==
  /\ upd.pc = "each" /\ s \in upd.batch
  /\ \E ok \in BOOLEAN : UpdateSessions(Report({s}), ok)
  /\ upd' = IF upd.batch = {s} THEN IdleUpdate
            ELSE [upd EXCEPT !.batch = @ \ {s}]
  /\ UNCHANGED <<node, crashes, plan, peer, row, lock, handlers, set, history>>

-----------------------------------------------------------------------------
(* The process stops, in any state, and starts again.                      *)

Crash ==
  /\ node # "down" /\ crashes < CrashBound
  /\ node' = "down"
  /\ crashes' = crashes + 1
  /\ peer' = [k \in Key |-> None]
  /\ lock' = None
  /\ pc' = [h \in Handler |-> "idle"]
  /\ req' = [h \in Handler |-> NoRequest]
  /\ set' = IdleSet
  /\ upd' = IdleUpdate
  /\ orphans' = {}
  /\ UNCHANGED <<chainVars, row, used>>

\* ReconcileSessions reports what the chain lacks and can be asked about...
\* A table that cannot be read is taken for an empty one, and left.
Reconcile ==
  /\ node = "down"
  /\ \/ /\ \E failed \in SUBSET Stored :
             LET report == {s \in Stored \ failed :
                              /\ chain[s].status = "active"
                              /\ row[s].bytes # chain[s].bytes}
                 tx == [s \in Session |-> IF s \in report THEN row[s].bytes ELSE None]
             IN IF report = {} THEN UNCHANGED <<chain, late>>
                ELSE \E ok \in BOOLEAN : UpdateSessions(tx, ok)
        /\ node' = "booting"
     \/ UNCHANGED <<chain, late>> /\ node' = "up"
  /\ UNCHANGED <<crashes, plan, peer, row, lock, handlers, set, upd, history>>

\* ... then clears the table, whatever came of the report.  If that fails the
\* node does not start.
ClearSessions ==
  /\ node = "booting"
  /\ \/ node' = "up" /\ row' = [s \in Session |-> None]
     \/ node' = "down" /\ UNCHANGED row
  /\ UNCHANGED <<crashes, chainVars, peer, lock, handlers, set, upd, history>>

-----------------------------------------------------------------------------
HandlerNext(h) ==
  Begin(h) \/ QuerySession(h) \/ QueryPlan(h) \/ Lock(h) \/ AddPeer(h) \/ CreateRow(h)

SetNext == ReadPeers \/ LockSet \/ (\E k \in Key : SetPeer(k)) \/ UnlockSet

UpdateNext ==
  \/ ReadRows \/ (\E s \in Session : CheckItem(s)) \/ Retire \/ EndChecks
  \/ SendBatch \/ Requery \/ Resend \/ (\E s \in Session : SendOne(s))

ChainNext ==
  \/ \E s \in Session : EndSession(s)
  \/ \E p \in Subscriptions : EndPlan(p)
  \/ IncludeLate

Next ==
  \/ \E h \in Handler : HandlerNext(h)
  \/ \E k \in Key : Traffic(k)
  \/ SetNext \/ UpdateNext \/ ChainNext
  \/ Crash \/ Reconcile \/ ClearSessions

Spec == Init /\ [][Next]_vars

-----------------------------------------------------------------------------
(* Safety of admission.                                                    *)

\* Concurrent handshakes never together exceed qos.max_peers, although the
\* count is read, and peers added, by several handlers, and removed by jobs.
MaxPeersHeld == Cardinality(Peers) <= MaxPeers

\* From the recheck under the lock to the row, no other handshake or job gives
\* the session or the key a row: one session or key is never admitted twice,
\* so a failed insert never takes out another session's peer.
AdmittedOnce ==
  \A h \in Handler : pc[h] \in {"add", "record"} =>
    /\ lock = h
    /\ row[req[h].s] = None
    /\ ~KeyStored(req[h].k)

\* An account has at most one served peer per subscription, and one among its
\* node sessions, whatever failed on the way: an eviction that does not go
\* through ends the handshake.
OnePeerPerSet ==
  \A s, t \in Stored :
    (s # t /\ Owner[s] = Owner[t] /\ SubOf[s] = SubOf[t]) =>
      ~(row[s].key \in Peers /\ row[t].key \in Peers)

\* Every peer is metered: it has a row, or a handler holding the lock is about
\* to write it, or both the insert and the removal failed.  In particular a
\* row is never deleted before its peer is gone.
MeteredPeers ==
  \A k \in Peers :
    \/ KeyStored(k)
    \/ k \in orphans
    \/ \E h \in Handler : pc[h] = "record" /\ req[h].k = k

\* update_sessions acts on rows it read long before, over several chain
\* queries and without the lock; the row it is about to retire is still that
\* session's, with the same key, and the peer behind the key was added for
\* that session.
RetiresItsOwn ==
  \A s \in Session : s \in upd.todo \cup {upd.cur} =>
    /\ s \in Stored
    /\ row[s].key = upd.items[s].key
    /\ row[s].key \in Peers => peer[row[s].key].s = s

\* What admission grants, with what the chain holds as used of the allocation
\* and everything stored as served on it, fits into it; the lock keeps
\* set_sessions from storing more in between.
GrantFits ==
  \A h \in Handler :
    (pc[h] \in {"add", "record"} /\ SubOf[req[h].s] # 0) =>
      req[h].left <= Granted - Utilised(h)

-----------------------------------------------------------------------------
(* The invariant the safety of admission rests on.                         *)

\* A handler past the door knows its session and key.
HandlersNamed ==
  \A h \in Handler : pc[h] # "idle" => req[h].s \in Session /\ req[h].k \in Key

\* The update job holds the rows it works on; the one being retired is no
\* longer to do, and only a session whose peer goes loses its row.
UpdateShape ==
  /\ \A s \in upd.todo \cup upd.batch : upd.items[s] # None
  /\ upd.pc = "retire" <=> upd.cur # None
  /\ upd.cur # None => upd.cur \notin upd.todo /\ upd.items[upd.cur] # None
  /\ upd.todo # {} => upd.pc \in {"check", "retire"}
  /\ upd.removeSession => upd.removePeer

\* Whoever is in the middle of a change holds the mutex.
LockHeld ==
  /\ \A h \in Handler : pc[h] \in {"add", "record"} => lock = h
  /\ set.pc = "pass" => lock = "set"

\* Nothing runs and nobody is served before the node is up.
Quiet ==
  node # "up" =>
    /\ \A h \in Handler : pc[h] = "idle"
    /\ set.pc = "idle" /\ upd.pc = "idle"
    /\ Peers = {}

\* While a handler is about to add its peer there is room for it.
RoomToAdd ==
  \A h \in Handler : pc[h] = "add" => Cardinality(Peers) < MaxPeers

\* While a handler is adding its peer, the account's earlier ones are gone.
EvictedFirst ==
  \A h \in Handler : pc[h] \in {"add", "record"} =>
    \A t \in SameSet(req[h].s) : row[t].key \notin Peers

\* A key has one row, and the peer behind it was added for that row's session.
KeysOwned ==
  /\ \A s, t \in Stored : row[s].key = row[t].key => s = t
  /\ \A s \in Stored : row[s].key \in Peers => peer[row[s].key].s = s
  /\ \A h \in Handler : (pc[h] = "record" /\ req[h].k \in Peers) =>
       peer[req[h].k].s = req[h].s

Shape == TypeOK /\ HandlersNamed /\ UpdateShape

IInv ==
  /\ Shape /\ LockHeld /\ Quiet
  /\ RoomToAdd /\ MaxPeersHeld
  /\ AdmittedOnce /\ EvictedFirst /\ OnePeerPerSet
  /\ KeysOwned /\ MeteredPeers /\ RetiresItsOwn

-----------------------------------------------------------------------------
(* Metering and reporting.                                                 *)

\* The chain has ended the session or its subscription; neither comes back.
Lapsed(s) == SubOf[s] # 0 /\ plan[SubOf[s]] = "inactive"
Ended(s) == chain[s].status = "inactive" \/ Lapsed(s)

\* The chain refuses totals lower than it holds.  A report in hand is never
\* lower, across restarts, reconnects and partial failures: admission starts
\* from what the chain held.
ReportsNotLower ==
  \A s \in upd.batch :
    (upd.pc \in {"send", "resend", "each"} /\ chain[s].status # "inactive") =>
      AtLeast(upd.items[s].bytes, chain[s].bytes)

\* Nothing is reported that did not move in that session, nor stored while it
\* has not ended.  Start-up looks at the session only, and may report what was
\* stored after its subscription ended.
UsageNotOverstated ==
  \A s \in Session :
    /\ ~Lapsed(s) => AtLeast(used[s], chain[s].bytes)
    /\ s \in Stored /\ ~Ended(s) => AtLeast(used[s], row[s].bytes)

-----------------------------------------------------------------------------
(* The invariant the metering rests on, where no two sessions are asked    *)
(* for with one key and no transaction is included late.  Along the way of *)
(* a session's bytes, from the counters to the chain, no total is ahead of *)
(* the one before it.                                                      *)

OwnKeys == \A a, b \in Asks : a[2] = b[2] => a[1] = b[1]

\* Sessions and keys go together as they were asked for.
Asked ==
  /\ \A s \in Stored : <<s, row[s].key>> \in Asks
  /\ \A h \in Handler : pc[h] # "idle" => <<req[h].s, req[h].k>> \in Asks

\* A peer without a row has moved nothing; counters that set_sessions read of
\* a peer whose row has gone since are of a session that ended.
FreshCounters ==
  \A k \in Key : ~KeyStored(k) =>
    /\ k \in Peers => peer[k].bytes = Zero
    /\ set.peers[k] # None =>
         \/ set.peers[k] = Zero
         \/ \A ask \in Asks : ask[2] = k => Ended(ask[1])

\* What a handler took as the base is still what the chain holds, until
\* another handler admits the session.
BasesCurrent ==
  \A h \in Handler : pc[h] \in {"plan", "lock", "add", "record"} =>
    LET s == req[h].s
    IN /\ Lapsed(s) \/ AtLeast(used[s], req[h].base)
       /\ s \in Stored \/ Ended(s) \/ AtLeast(req[h].base, chain[s].bytes)

\* From the chain (c) to the row, the counters read, the peer's (p) and what
\* moved (u).
Between(r, c, read, p, u) ==
  /\ AtLeast(r.bytes, c) /\ AtLeast(u, r.bytes)
  /\ read # None =>
       AtLeast(Plus(r.base, read), r.bytes) /\ AtLeast(u, Plus(r.base, read))
  /\ p # None =>
       /\ AtLeast(Plus(r.base, p.bytes), r.bytes) /\ AtLeast(u, Plus(r.base, p.bytes))
       /\ read # None => AtLeast(p.bytes, read)

RowsBetween ==
  \A s \in Stored : ~Ended(s) =>
    Between(row[s], chain[s].bytes, set.peers[row[s].key], peer[row[s].key], used[s])

\* The same for the rows update_sessions read; what it is about to report has
\* its row, and only an ended session loses it.
ItemsBetween ==
  /\ \A s \in upd.todo \cup upd.batch : (s \in upd.batch \/ ~Ended(s)) =>
       LET b == upd.items[s].bytes
       IN /\ s \in Stored
          /\ AtLeast(b, chain[s].bytes) /\ AtLeast(used[s], b)
          /\ ~Ended(s) => AtLeast(row[s].bytes, b)
  /\ upd.todo \cap upd.batch = {}
  /\ upd.removeSession =>
       upd.cur \in Session /\ Ended(upd.cur) /\ upd.cur \notin upd.batch

ChainWithin == \A s \in Session : Lapsed(s) \/ AtLeast(used[s], chain[s].bytes)

\* The jobs hold nothing while the node is not up.
QuietJobs == node # "up" => set = IdleSet /\ upd = IdleUpdate

MInv ==
  /\ late = NoTx /\ QuietJobs
  /\ Asked /\ FreshCounters /\ BasesCurrent /\ RowsBetween /\ ItemsBetween
  /\ ChainWithin

-----------------------------------------------------------------------------
(* Progress.  The jobs run for the life of the process and a handler that  *)
(* has begun goes on, so none stops between two steps (weak fairness).     *)
(* The mutex starves nobody.  Each call that may fail, made again and      *)
(* again, does not fail every time (strong fairness of its success).       *)

Fairness ==
  /\ WF_vars(SetNext) /\ WF_vars(UpdateNext)
  /\ WF_vars(Reconcile) /\ SF_vars(ClearSessions /\ node' = "up")
  /\ \A h \in Handler :
       WF_vars(QuerySession(h) \/ QueryPlan(h) \/ AddPeer(h) \/ CreateRow(h))
       /\ SF_vars(Lock(h))
  /\ SF_vars(LockSet) /\ SF_vars(Retire)
  /\ \A k \in Key : SF_vars(SetPeer(k) /\ peer'[k] = None)
  /\ \A s \in Session :
       /\ SF_vars(CheckItem(s) /\ upd'.removeSession)
       /\ SF_vars(CheckItem(s) /\ s \in upd'.batch)
       /\ SF_vars(Retire /\ upd.cur = s /\ upd.removeSession /\ row'[s] = None)
       /\ SF_vars(SendOne(s) /\ chain'[s].bytes = upd.items[s].bytes)
  /\ SF_vars(SendBatch /\ upd'.pc = "idle")
  /\ SF_vars(Requery /\ upd'.pc # "idle")
  /\ SF_vars(Resend /\ upd'.pc = "idle")

FairSpec == Spec /\ Fairness

\* A session the chain has ended loses its row (and, MeteredPeers, its peer)
\* although queries, removals and deletes may each fail and be retried, and a
\* handshake may have admitted it after it ended.
EndedRetired ==
  \A s \in Session :
    (chain[s].status = "inactive" /\ s \in Stored) ~> s \notin Stored

\* A peer whose row could not be written nor the peer taken out again is found
\* and removed by set_sessions, or admitted again.
OrphansRemoved == \A k \in Key : k \in orphans ~> k \notin orphans

\* Stored usage of a session the chain still takes reports for does not stay
\* unreported: a batch that fails with it is retried without the ended ones.
UsageReported ==
  \A s \in Session :
    (s \in Stored /\ ~AtLeast(chain[s].bytes, row[s].bytes)) ~>
      \/ s \notin Stored
      \/ chain[s].status = "inactive"
      \/ AtLeast(chain[s].bytes, row[s].bytes)

-----------------------------------------------------------------------------
(* What a comment in the code says and the code does not do in every case.  *)

\* setSessions "removes peers ... that used up their allocation": a peer whose
\* counters exceed what its session has left does not stay, even while the
\* session is active.
AllocationEnforced ==
  \A s \in Session :
    (s \in Stored /\ row[s].key \in Peers
       /\ Exceeded(row[s], peer[row[s].key].bytes))
    ~> ~(s \in Stored /\ row[s].key \in Peers /\ chain[s].status = "active")
=============================================================================
