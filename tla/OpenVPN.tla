-------------------------------- MODULE OpenVPN --------------------------------
(* OpenVPN: the server is driven over one management connection.  Commands go *)
(* out in order, by whichever goroutine has one; replies come back in that    *)
(* order, with the server's notifications between them.                       *)
EXTENDS Services

CONSTANTS
  MaxPending,  \* bound: commands under way when RemovePeer or Peers sends one
  Clients      \* bound: the keys OpenVPN is asked about

ASSUME ClientsAssumption == Clients \subseteq Key

VARIABLES
  pending,    \* management.pending: who waits for the reply, to which command
  toServer,   \* commands written and not yet carried out
  toNode,     \* replies and notifications not yet read
  decided     \* auth decisions whose goroutine has not sent its command yet

wire == <<pending, toServer, toNode, decided>>
vars == <<svars, wire>>

Status == [name |-> "status"]
ClientKill(k, id) == [name |-> "client-kill", key |-> k, id |-> id]
ClientAuth(d) == [name |-> IF d.ok THEN "client-auth-nt" ELSE "client-deny", key |-> d.key, id |-> d.id]

Reply(command, rows) == [type |-> "reply", command |-> command, rows |-> rows]
Event(type, k) == [type |-> type, key |-> k, id |-> link[k].id, bytes |-> link[k].bytes]

InitAll == Init /\ pending = <<>> /\ toServer = <<>> /\ toNode = <<>> /\ decided = {}

\* run: the command joins the queue and is written under one lock.
Run(who, command) ==
  /\ pending' = Append(pending, [who |-> who, command |-> command])
  /\ toServer' = Append(toServer, command)

\* Bound: one command is given up on at a time.
Waited == \A i \in DOMAIN pending : pending[i].who # "nobody"

\* Mutant: a command given up on leaves the queue.
TimedOutLeaves(who) ==
  pending' = SelectSeq(pending, LAMBDA p : p.who # who)

\* A command given up on keeps its place in the queue, so its reply, when it
\* comes, is not taken for the next command's.
TimedOut(who) ==
  pending' = [i \in DOMAIN pending |->
                IF pending[i].who = who THEN [pending[i] EXCEPT !.who = "nobody"] ELSE pending[i]]

-----------------------------------------------------------------------------
(* AddPeer and RemovePeer.  Their second steps are Put and Delete.           *)

OpenVPNAddPeer(k) ==
  /\ kind = "openvpn"
  /\ reg = Idle
  /\ auth' = auth \cup {k} /\ banked' = Opened(k)
  /\ reg' = [op |-> "add", key |-> k, pc |-> "put"]
  /\ UNCHANGED <<kind, peers, call, daemon, used, gone, doubt, wire>>
  /\ Enter

OpenVPNRemovePeer(k) == kind = "openvpn" /\ Strike(k) /\ UNCHANGED wire

\* kill: the connections of this name are looked up, and ended by their id.
Kill ==
  /\ kind = "openvpn" /\ reg.op = "remove" /\ reg.pc = "kick"
  /\ Len(pending) < MaxPending
  /\ Run("reg", Status)
  /\ reg' = Removing(reg.key, "asked", reg.open)
  /\ UNCHANGED <<kind, peers, auth, banked, call, daemon, history, toNode, decided>>

KillRows ==
  /\ reg.op = "remove" /\ reg.pc = "rows"
  /\ \/ /\ reg.key \in DOMAIN reg.rows
        /\ Len(pending) < MaxPending
        /\ Run("reg", ClientKill(reg.key, reg.rows[reg.key].id))
        /\ reg' = Removing(reg.key, "killing", reg.open)
        /\ UNCHANGED gone
     \/ /\ reg.key \notin DOMAIN reg.rows
        /\ reg' = Idle
        /\ gone' = [gone EXCEPT ![reg.key] = reg.open]
        /\ UNCHANGED <<pending, toServer>>
  /\ UNCHANGED <<kind, peers, auth, banked, call, daemon, used, account, doubt, toNode, decided>>

KillTimeout ==
  /\ reg.op = "remove" /\ reg.pc \in {"asked", "killing"}
  /\ Waited /\ TimedOut("reg")
  /\ reg' = Idle
  /\ UNCHANGED <<kind, peers, auth, banked, call, daemon, history, toServer, toNode, decided>>

-----------------------------------------------------------------------------
(* Peers: the status rows first, then the sum under the service's lock.      *)

OpenVPNPeers ==
  /\ kind = "openvpn"
  /\ Len(pending) < MaxPending
  /\ Begin([pc |-> "asked"])
  /\ Run("peers", Status)
  /\ UNCHANGED <<kind, peers, auth, banked, reg, daemon, used, gone, doubt, toNode, decided>>

PeersTimeout ==
  /\ call.pc = "asked"
  /\ Waited /\ TimedOut("peers")
  /\ Fail
  /\ UNCHANGED <<kind, peers, auth, banked, reg, daemon, used, gone, doubt, toServer, toNode, decided>>

OpenVPNItems ==
  /\ call.pc = "rows"
  /\ LET closed(k) == IF k \in DOMAIN banked THEN banked[k] ELSE 0
         live(k) == IF k \in auth \cap DOMAIN call.rows THEN call.rows[k].bytes ELSE 0
     IN Return([k \in peers |-> closed(k) + live(k)])
  /\ UNCHANGED <<kind, peers, auth, banked, reg, daemon, used, gone, doubt, wire>>

-----------------------------------------------------------------------------
(* The reader of the management connection.                                  *)

Rows(r, rows) == [op |-> "remove", key |-> r.key, pc |-> "rows", open |-> r.open, rows |-> rows]

\* A reply goes to the first command in the queue; one nobody waits for any
\* more, or that was only sent to be consumed, is dropped.
ReadReply ==
  /\ toNode # <<>> /\ Head(toNode).type = "reply"
  /\ toNode' = Tail(toNode)
  /\ pending' = IF pending = <<>> THEN <<>> ELSE Tail(pending)
  /\ LET who == IF pending = <<>> THEN "nobody" ELSE Head(pending).who
         rows == Head(toNode).rows
         killed == who = "reg" /\ reg.pc = "killing"
     IN /\ reg' = CASE killed -> Idle
                    [] who = "reg" /\ ~killed -> Rows(reg, rows)
                    [] OTHER -> reg
        /\ gone' = IF killed THEN [gone EXCEPT ![reg.key] = reg.open] ELSE gone
        /\ call' = IF who = "peers" THEN [pc |-> "rows", rows |-> rows] ELSE call
  /\ UNCHANGED <<kind, peers, auth, banked, daemon, used, account, doubt, toServer, decided>>

\* Mutant: a renewal is taken for granted.
FinishConnectOnce ==
  /\ toNode # <<>> /\ Head(toNode).type \in {"CONNECT", "REAUTH"}
  /\ toNode' = Tail(toNode)
  /\ decided' = decided \cup
       {[key |-> Head(toNode).key, id |-> Head(toNode).id,
         ok |-> Head(toNode).key \in auth \/ Head(toNode).type = "REAUTH"]}
  /\ UNCHANGED <<svars, pending, toServer>>

\* admit: only a registered name may connect, or stay at its next renewal.
FinishConnect ==
  /\ toNode # <<>> /\ Head(toNode).type \in {"CONNECT", "REAUTH"}
  /\ toNode' = Tail(toNode)
  /\ decided' = decided \cup
       {[key |-> Head(toNode).key, id |-> Head(toNode).id, ok |-> Head(toNode).key \in auth]}
  /\ UNCHANGED <<svars, pending, toServer>>

\* send: the goroutine that carries the decision to the server.
Send(d) ==
  /\ d \in decided
  /\ decided' = decided \ {d}
  /\ Run("nobody", ClientAuth(d))
  /\ UNCHANGED <<svars, toNode>>

\* Mutant: what a connection moved replaces what was there.
DisconnectedAnew(k, bytes) ==
  IF k \in auth THEN Set(banked, k, bytes) ELSE banked

\* disconnected: what a registered key's connection moved is added to its
\* account.
Disconnected(k, bytes) ==
  IF k \in auth THEN Set(banked, k, Opened(k)[k] + bytes) ELSE banked

FinishDisconnect ==
  /\ toNode # <<>> /\ Head(toNode).type = "DISCONNECT"
  /\ toNode' = Tail(toNode)
  /\ LET k == Head(toNode).key
         n == Head(toNode).bytes
     IN /\ banked' = Disconnected(k, n)
        /\ tail' = IF call.pc = "rows" THEN [tail EXCEPT ![k] = @ + n] ELSE tail
  /\ UNCHANGED <<kind, peers, auth, reg, call, daemon, used, owed, due, report, seen, gone, doubt,
                 pending, toServer, decided>>

-----------------------------------------------------------------------------
(* External: the OpenVPN server.                                             *)

Notify(k, state, type) ==
  /\ link' = [link EXCEPT ![k].state = state]
  /\ toNode' = Append(toNode, Event(type, k))

\* Bound: a client comes back once its last connection has been dealt with.
Quiet == toNode = <<>> /\ decided = {}

ServerConnect(k) ==
  /\ kind = "openvpn"
  /\ link[k].state = "none" /\ link[k].id < MaxLinks[k]
  /\ Quiet
  /\ link' = [link EXCEPT ![k] = [state |-> "asking", id |-> @.id + 1, bytes |-> 0]]
  /\ toNode' = Append(toNode, [type |-> "CONNECT", key |-> k, id |-> link[k].id + 1, bytes |-> 0])
  /\ UNCHANGED <<kind, node, users, stats, history, pending, toServer, decided>>

ServerReauth(k) ==
  /\ kind = "openvpn"
  /\ link[k].state = "up"
  /\ Notify(k, "renewing", "REAUTH")
  /\ UNCHANGED <<kind, node, users, stats, history, pending, toServer, decided>>

\* A client leaves, or one that was killed is gone.
ServerEnd(k) ==
  /\ kind = "openvpn"
  /\ Live(k) \/ link[k].state = "killed"
  /\ Notify(k, "none", "DISCONNECT")
  /\ UNCHANGED <<kind, node, users, stats, history, pending, toServer, decided>>

\* Commands are carried out in order, each answered once.
ServerCommand ==
  /\ toServer # <<>>
  /\ toServer' = Tail(toServer)
  /\ LET c == Head(toServer)
         rows == [k \in {k \in Key : Live(k) \/ link[k].state = "killed"} |-> [id |-> link[k].id, bytes |-> link[k].bytes]]
         meant == c.name # "status" /\ link[c.key].id = c.id
         answer == Append(toNode, Reply(c, IF c.name = "status" THEN rows ELSE <<>>))
         becomes(s) == [link EXCEPT ![c.key].state = s]
     IN CASE c.name = "client-auth-nt" /\ meant /\ link[c.key].state \in {"asking", "renewing"} ->
               link' = becomes("up") /\ toNode' = answer
          [] c.name = "client-deny" /\ meant /\ link[c.key].state = "asking" ->
               link' = becomes("none") /\ toNode' = answer
          [] c.name = "client-deny" /\ meant /\ link[c.key].state = "renewing" ->
               link' = becomes("none") /\ toNode' = Append(answer, Event("DISCONNECT", c.key))
          [] c.name = "client-kill" /\ meant /\ Live(c.key) ->
               link' = becomes("killed") /\ toNode' = answer
          [] OTHER -> link' = link /\ toNode' = answer
  /\ UNCHANGED <<kind, node, users, stats, history, pending, decided>>

OpenVPNNext ==
  \/ \E k \in Clients :
       \/ OpenVPNAddPeer(k) \/ OpenVPNRemovePeer(k)
       \/ ServerConnect(k) \/ ServerReauth(k) \/ ServerEnd(k)
  \/ Kill \/ KillRows \/ KillTimeout
  \/ OpenVPNPeers \/ PeersTimeout \/ OpenVPNItems
  \/ ReadReply \/ FinishConnect \/ FinishDisconnect
  \/ \E d \in decided : Send(d)
  \/ ServerCommand

Next == OpenVPNNext \/ (ProxyNext /\ UNCHANGED wire)

Spec == InitAll /\ [][Next]_vars

\* A renewal comes to every connection (reneg-sec, an hour unless it is set,
\* and the node's template does not set it); the server and the node's reader
\* and goroutines keep running.
Fairness ==
  /\ WF_vars(ReadReply \/ FinishConnect \/ FinishDisconnect)
  /\ WF_vars(ServerCommand)
  /\ WF_vars(\E d \in decided : Send(d))
  /\ \A k \in Clients : WF_vars(ServerReauth(k))

FairSpec == Spec /\ Fairness

-----------------------------------------------------------------------------

\* A report shows everything a peer had moved when it was asked for, unless a
\* failed reading of Hysteria's counters took it along: connections that end,
\* come back or are banked during the reading are in it.
NothingMissed ==
  [][report' # <<>> /\ report' # report => \A k \in Known : due[k] <= report'[k]]_vars

\* When RemovePeer of Hysteria or OpenVPN reports success, the connection that
\* the peer had when it was struck off carries nothing any more.
CutOff == \A k \in Key : Live(k) => link[k].id # gone[k]

\* How many of the first n lines are replies.
ReplyCount(lines, n) ==
  LET count[i \in 0..n] ==
        IF i = 0 THEN 0 ELSE IF lines[i].type = "reply" THEN count[i - 1] + 1 ELSE count[i - 1]
  IN count[n]

\* The replies under way and the commands not yet carried out are, in order,
\* those of the commands in the queue: a reply reaches the command it answers,
\* also after others were given up on.
RepliesMatched ==
  LET answered == ReplyCount(toNode, Len(toNode))
  IN /\ Len(pending) = answered + Len(toServer)
     /\ \A i \in DOMAIN toNode : toNode[i].type = "reply" =>
          toNode[i].command = pending[ReplyCount(toNode, i)].command
     /\ \A i \in DOMAIN toServer : toServer[i] = pending[answered + i].command

\* A client of OpenVPN that slipped in while its peer was being removed, or
\* whose kill failed, is turned away at its next renewal, unless the peer is
\* back by then.
ForgottenLeaves ==
  \A k \in Clients : (kind = "openvpn" /\ k \notin auth /\ Live(k)) ~> (k \in auth \/ ~Live(k))
=============================================================================
