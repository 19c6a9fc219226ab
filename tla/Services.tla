------------------------------- MODULE Services -------------------------------
(* The proxy services V2Ray, XRay and Hysteria: how a peer is added to and    *)
(* removed from the daemon each one runs, and how Peers() accounts for what   *)
(* the daemon counted.  OpenVPN extends this module.                          *)
(*                                                                            *)
(* The callers hold the node's admission lock around AddPeer and RemovePeer,  *)
(* so one of them runs at a time (reg); the set_sessions job calls Peers()    *)
(* before it takes that lock, so a reading (call) runs beside them.  Upload   *)
(* and download are counted alike and are one number here.                    *)
EXTENDS Integers, Sequences, Functions

CONSTANTS
  Key,       \* session keys
  Kinds,     \* the services to consider
  MaxBytes,  \* bound: what a connection moves
  MaxLinks   \* bound: connections each key opens

VARIABLES
  kind,    \* the service this node runs
  peers,   \* its PeerSet (V2Ray: types.Peers)
  auth,    \* byAuth (Hysteria), byCN (OpenVPN)
  banked,  \* traffic (Hysteria), closed (OpenVPN): a count per key it has
  reg,     \* the AddPeer or RemovePeer under way
  call,    \* the Peers() under way
  users,   \* the daemon's own users (V2Ray, XRay)
  stats,   \* the daemon's counters: totals (V2Ray, XRay), unread (Hysteria)
  link,    \* a key's latest connection at the daemon
  used,    \* history: what each key moved
  owed,    \* history: the same since it was registered, less what was lost
  due,     \* history: what was owed when the reading under way began
  tail,    \* history: what connections that ended since the rows were read moved
  report,  \* history: what the last reading returned
  seen,    \* history: the part of a key's last count that stays true
  gone,    \* history: the connection the last removal of a key had to end
  doubt    \* history: keys whose last AddPeer or RemovePeer returned an error

node == <<peers, auth, banked, reg, call>>
daemon == <<users, stats, link>>
account == <<owed, due, tail, report, seen>>
history == <<used, account, gone, doubt>>
svars == <<kind, node, daemon, history>>

Zero == [k \in Key |-> 0]
NoLink == [state |-> "none", id |-> 0, bytes |-> 0]
Idle == [op |-> "none"]

\* RemovePeer of Hysteria and OpenVPN; open is the connection it has to end.
Removing(k, pc, open) == [op |-> "remove", key |-> k, pc |-> pc, open |-> open]

NoCall == [pc |-> "idle"]

Grpc == {"v2ray", "xray"}
Hooked == {"hysteria", "openvpn"}

\* A map with an entry set.
Set(f, k, v) == [j \in DOMAIN f \cup {k} |-> IF j = k THEN v ELSE f[j]]

HasPeer(k) == k \in peers

\* A key has a connection that carries traffic.
Live(k) == link[k].state \in {"up", "renewing"}

\* The keys the service answers for: registered, and (where the service keeps
\* its own accounts) not yet struck from them.
Known == IF kind \in Hooked THEN peers \cap auth ELSE peers

Init ==
  /\ kind \in Kinds
  /\ peers = {} /\ auth = {} /\ banked = <<>>
  /\ reg = Idle /\ call = NoCall
  /\ users = {} /\ stats = Zero /\ link = [k \in Key |-> NoLink]
  /\ used = Zero /\ owed = Zero /\ due = Zero /\ tail = Zero
  /\ report = <<>> /\ seen = Zero
  /\ gone = Zero /\ doubt = {}

-----------------------------------------------------------------------------
(* Accounts kept by the history variables.                                   *)

\* Every step of AddPeer and RemovePeer: a key's account begins and ends with
\* its being known.
Enter ==
  LET fresh(f) == [k \in Key |-> IF k \notin Known \cap Known' THEN 0 ELSE f[k]]
  IN /\ owed' = fresh(owed) /\ due' = fresh(due) /\ seen' = fresh(seen)
     /\ UNCHANGED <<tail, report>>

\* A reading starts: what it must show is what is owed by now.
Begin(c) ==
  /\ call = NoCall
  /\ call' = c
  /\ due' = owed /\ report' = <<>>
  /\ UNCHANGED <<owed, tail, seen>>

\* It ends with items, or with an error.
Return(r) ==
  /\ call' = NoCall
  /\ report' = r
  /\ seen' = [k \in Key |-> IF k \in Known /\ r[k] - tail[k] > seen[k]
                            THEN r[k] - tail[k] ELSE seen[k]]
  /\ tail' = Zero /\ due' = Zero
  /\ UNCHANGED owed

Fail ==
  /\ call' = NoCall
  /\ due' = Zero
  /\ UNCHANGED <<owed, tail, report, seen>>

-----------------------------------------------------------------------------
(* V2Ray and XRay: the daemon is told through gRPC, and the PeerSet follows   *)
(* once it has answered.  A call that fails may still have been carried out.  *)

AddUser(k) ==
  /\ reg = Idle
  /\ \/ /\ k \notin users
        /\ users' = users \cup {k}
        /\ reg' = [op |-> "add", key |-> k, pc |-> "put"]
        /\ doubt' = doubt \ {k}
     \/ /\ users' \in {users, users \cup {k}}
        /\ reg' = Idle
        /\ doubt' = doubt \cup {k}
  /\ UNCHANGED <<kind, peers, auth, banked, call, stats, link, used, gone>>
  /\ Enter

Struck(k) ==
  /\ reg' = [op |-> "remove", key |-> k, pc |-> "delete"]
  /\ doubt' = doubt \ {k}

\* A user the daemon does not have is not an error.
RemoveUser(k) ==
  /\ reg = Idle
  /\ \/ users' = users \ {k} /\ Struck(k)
     \/ /\ users' \in {users, users \ {k}}
        /\ reg' = Idle
        /\ doubt' = doubt \cup {k}
  /\ UNCHANGED <<kind, peers, auth, banked, call, stats, link, used, gone>>
  /\ Enter

V2RayAddPeer(k) == kind = "v2ray" /\ AddUser(k)
V2RayRemovePeer(k) == kind = "v2ray" /\ RemoveUser(k)

\* Mutant: whatever the daemon answers, the peer is struck off.
XRayRemovePeerAnyway(k) ==
  /\ kind = "xray"
  /\ reg = Idle
  /\ users' \in {users, users \ {k}} /\ Struck(k)
  /\ UNCHANGED <<kind, peers, auth, banked, call, stats, link, used, gone>>
  /\ Enter

XRayAddPeer(k) == kind = "xray" /\ AddUser(k)
XRayRemovePeer(k) == kind = "xray" /\ RemoveUser(k)

\* V2Ray's Iterate holds the read lock while it asks for every counter.
Unlocked == call.pc # "iterating"

Put ==
  /\ reg.op = "add" /\ reg.pc = "put"
  /\ Unlocked
  /\ peers' = peers \cup {reg.key}
  /\ reg' = Idle
  /\ UNCHANGED <<kind, auth, banked, call, daemon, used, gone, doubt>>
  /\ Enter

Delete ==
  /\ reg.op = "remove" /\ reg.pc = "delete"
  /\ Unlocked
  /\ peers' = peers \ {reg.key}
  /\ reg' = IF kind \in Grpc THEN Idle ELSE Removing(reg.key, "kick", reg.open)
  /\ UNCHANGED <<kind, auth, banked, call, daemon, used, gone, doubt>>
  /\ Enter

\* Peers of V2Ray: one key's counters at a time, under the read lock.
V2RayPeers ==
  /\ kind = "v2ray"
  /\ Begin([pc |-> "iterating", todo |-> peers, rows |-> <<>>])
  /\ UNCHANGED <<kind, peers, auth, banked, reg, daemon, used, gone, doubt>>

GetStats(k) ==
  /\ call.pc = "iterating" /\ k \in call.todo
  /\ \/ /\ call' = [pc |-> "iterating", todo |-> call.todo \ {k}, rows |-> Set(call.rows, k, stats[k])]
        /\ UNCHANGED account
     \/ Fail
  /\ UNCHANGED <<kind, peers, auth, banked, reg, daemon, used, gone, doubt>>

V2RayItems ==
  /\ call.pc = "iterating" /\ call.todo = {}
  /\ Return(call.rows)
  /\ UNCHANGED <<kind, peers, auth, banked, reg, daemon, used, gone, doubt>>

\* Peers of XRay: every counter in one answer, then the registered keys.
XRayPeers ==
  /\ kind = "xray"
  /\ Begin([pc |-> "counters", counters |-> stats])
  /\ UNCHANGED <<kind, peers, auth, banked, reg, daemon, used, gone, doubt>>

XRayItems ==
  /\ call.pc = "counters"
  /\ Return([k \in peers |-> call.counters[k]])
  /\ UNCHANGED <<kind, peers, auth, banked, reg, daemon, used, gone, doubt>>

\* External: the daemon serves its users, counts by email for as long as it
\* runs, and does not cut off a connection when its user is removed.
Connect(k) ==
  /\ kind \in Grpc
  /\ link[k].state = "none" /\ k \in users
  /\ link[k].id < MaxLinks[k]
  /\ link' = [link EXCEPT ![k] = [state |-> "up", id |-> @.id + 1, bytes |-> 0]]
  /\ UNCHANGED <<kind, node, users, stats, history>>

-----------------------------------------------------------------------------
(* Hysteria: the daemon asks the node about every connection, and hands over  *)
(* the traffic since it was last asked.                                       *)

\* An account already there keeps its count.
Opened(k) == IF k \in DOMAIN banked THEN banked ELSE Set(banked, k, 0)

HysteriaAddPeer(k) ==
  /\ kind = "hysteria"
  /\ reg = Idle
  /\ auth' = auth \cup {k} /\ banked' = Opened(k)
  /\ reg' = [op |-> "add", key |-> k, pc |-> "put"]
  /\ UNCHANGED <<kind, peers, call, daemon, used, gone, doubt>>
  /\ Enter

\* The first half of RemovePeer, under the service's lock.
Strike(k) ==
  /\ reg = Idle
  /\ auth' = auth \ {k}
  /\ banked' = Restrict(banked, DOMAIN banked \ {k})
  /\ reg' = Removing(k, "delete", IF Live(k) THEN link[k].id ELSE 0)
  /\ UNCHANGED <<kind, peers, call, daemon, used, gone, doubt>>
  /\ Enter

HysteriaRemovePeer(k) == kind = "hysteria" /\ Strike(k)

\* Mutant: the answer to the kick is not looked at.
HysteriaKickUnread ==
  /\ kind = "hysteria" /\ reg.op = "remove" /\ reg.pc = "kick"
  /\ LET k == reg.key
         cut == IF link[k].state = "up" THEN [link EXCEPT ![k].state = "none"] ELSE link
     IN link' \in {link, cut} /\ gone' = [gone EXCEPT ![k] = reg.open]
  /\ reg' = Idle
  /\ UNCHANGED <<kind, peers, auth, banked, call, users, stats, used, doubt>>
  /\ Enter

\* POST /kick: an error is returned although the peer is forgotten.
HysteriaKick ==
  /\ kind = "hysteria" /\ reg.op = "remove" /\ reg.pc = "kick"
  /\ LET k == reg.key
         cut == IF link[k].state = "up" THEN [link EXCEPT ![k].state = "none"] ELSE link
     IN \/ link' = cut /\ gone' = [gone EXCEPT ![k] = reg.open]
        \/ link' \in {link, cut} /\ UNCHANGED gone
  /\ reg' = Idle
  /\ UNCHANGED <<kind, peers, auth, banked, call, users, stats, used, doubt>>
  /\ Enter

\* The daemon posts a client's password; what it does with the answer comes
\* later (Establish, external).
HandleAuth(k) ==
  /\ kind = "hysteria"
  /\ link[k].state = "none" /\ k \in auth
  /\ link[k].id < MaxLinks[k]
  /\ link' = [link EXCEPT ![k] = [state |-> "admitted", id |-> @.id + 1, bytes |-> 0]]
  /\ UNCHANGED <<kind, node, users, stats, history>>

Establish(k) ==
  /\ kind = "hysteria"
  /\ link[k].state = "admitted"
  /\ link' = [link EXCEPT ![k].state = "up"]
  /\ UNCHANGED <<kind, node, users, stats, history>>

\* GET /traffic?clear=1: the daemon's counters are cleared by being asked for,
\* whether or not the answer arrives and can be read.
HysteriaPeers ==
  /\ kind = "hysteria"
  /\ stats' = Zero
  /\ \/ Begin([pc |-> "delta", delta |-> stats])
     \/ /\ call = NoCall
        /\ owed' = [k \in Key |-> IF stats[k] > owed[k] THEN 0 ELSE owed[k] - stats[k]]
        /\ UNCHANGED <<call, due, tail, report, seen>>
  /\ UNCHANGED <<kind, peers, auth, banked, reg, users, link, used, gone, doubt>>

\* Mutant: the totals are replaced by what was read.
AccumulatedNot(delta) == [k \in DOMAIN banked |-> delta[k]]

Accumulated(delta) == [k \in DOMAIN banked |-> banked[k] + delta[k]]

HysteriaItems ==
  /\ call.pc = "delta"
  /\ banked' = Accumulated(call.delta)
  /\ Return([k \in peers |-> IF k \in DOMAIN banked THEN Accumulated(call.delta)[k] ELSE 0])
  /\ UNCHANGED <<kind, peers, auth, reg, daemon, used, gone, doubt>>

-----------------------------------------------------------------------------
(* External: what clients do.                                                *)

Use(k) ==
  /\ Live(k)
  /\ link[k].bytes < MaxBytes
  /\ used' = [used EXCEPT ![k] = @ + 1]
  /\ link' = [link EXCEPT ![k].bytes = @ + 1]
  /\ stats' = IF kind = "openvpn" THEN stats ELSE [stats EXCEPT ![k] = @ + 1]
  /\ owed' = IF k \in Known THEN [owed EXCEPT ![k] = @ + 1] ELSE owed
  /\ UNCHANGED <<kind, node, users, due, tail, report, seen, gone, doubt>>

Leave(k) ==
  /\ kind # "openvpn"
  /\ link[k].state = "up"
  /\ link' = [link EXCEPT ![k].state = "none"]
  /\ UNCHANGED <<kind, node, users, stats, history>>

ProxyNext ==
  \/ \E k \in Key :
       \/ V2RayAddPeer(k) \/ V2RayRemovePeer(k) \/ GetStats(k)
       \/ XRayAddPeer(k) \/ XRayRemovePeer(k) \/ Connect(k)
       \/ HysteriaAddPeer(k) \/ HysteriaRemovePeer(k)
       \/ HandleAuth(k) \/ Establish(k)
       \/ Use(k) \/ Leave(k)
  \/ Put \/ Delete
  \/ V2RayPeers \/ V2RayItems
  \/ XRayPeers \/ XRayItems
  \/ HysteriaPeers \/ HysteriaItems \/ HysteriaKick

ProxySpec == Init /\ [][ProxyNext]_svars

-----------------------------------------------------------------------------

\* Every service keeps the promise of PeerService: a report lists every peer
\* it answers for, charges nobody with more than they moved (up to one count
\* more of a connection that ended while OpenVPN's rows were being added up),
\* and never takes back what an earlier report showed, whatever is added,
\* removed, lost or read at the same time.
Accounts == INSTANCE PeerService WITH known <- Known

Promise == Accounts!Spec

\* Outside a call, and unless the last one for a key returned an error, the
\* node and the daemon agree on who is registered, so that nobody is served
\* whom Peers() does not list.
InStep ==
  \A k \in Key :
    (reg = Idle \/ reg.key # k) =>
      /\ kind \in Grpc /\ k \notin doubt => (HasPeer(k) <=> k \in users)
      /\ kind \in Hooked => (HasPeer(k) <=> k \in auth)
=============================================================================
