--------------------------- MODULE OpenVPNProofs ----------------------------
(* With OpenVPN among the services: its invariant, one lemma per action, and  *)
(* what follows for all four - nobody is left out of step with the daemon,    *)
(* whoever is removed is cut off, and every reply is matched to its command.  *)
EXTENDS ServicesProofs

-----------------------------------------------------------------------------
(* The management connection and the removals under way.                     *)

LinkOk(l) ==
  /\ l.state # "none" => l.id > 0
  /\ l.state = "asking" => l.bytes = 0

Linked ==
  /\ link \in [Key -> Links] /\ gone \in [Key -> Nat]
  /\ \A k \in Key : LinkOk(link[k]) /\ gone[k] <= link[k].id /\ Ended(link[k], gone[k])

Ending ==
  /\ reg.op = "remove" /\ reg.pc \in {"kick", "asked", "rows", "killing"} /\ reg.key \in Key
  /\ reg.key \notin auth /\ reg.key \notin peers
  /\ reg.pc = "rows" => reg.rows \in Tables
Registered == (reg = Idle \/ Adding \/ Striking \/ Ending) /\ InStep

Calling ==
  call = NoCall \/ call = [pc |-> "asked"] \/ (call.pc = "rows" /\ call.rows \in Tables)

Decided == \A d \in decided : d.key \in Key /\ d.id \in Nat

WInv ==
  /\ kind = "openvpn" /\ Registered /\ Calling /\ Decided /\ Linked
  /\ Talk(pending, toServer, toNode, reg, call)
  /\ Cut(reg, link, pending, toNode)

\* Which service an action belongs to.
LEMMA KindFacts == kind = "openvpn" => kind \in Hooked /\ kind \notin Grpc
BY DEF Hooked, Grpc

\* Steps that leave AddPeer and RemovePeer alone.
LEMMA RegSame ==
  ASSUME Registered, kind = "openvpn", UNCHANGED <<kind, peers, auth, reg>>
  PROVE  Registered'
<1>1. kind \notin Grpc
  BY Zenon, KindFacts
<1>2. InStep'
  BY Zenon, <1>1 DEF Registered, InStep, HasPeer
<1>3. (reg = Idle \/ Adding \/ Striking \/ Ending)'
  BY Zenon, <1>1 DEF Registered, Adding, Striking, Ending
<1> QED
  BY Zenon, <1>2, <1>3 DEF Registered

\* A removal goes on, or is over.
LEMMA RegOn ==
  ASSUME Registered, kind = "openvpn", Ending, UNCHANGED <<kind, peers, auth>>,
         reg'.op = "remove", reg'.key = reg.key,
         reg'.pc \in {"kick", "asked", "rows", "killing"}, reg'.pc = "rows" => reg'.rows \in Tables
  PROVE  Registered'
<1>1. kind \notin Grpc
  BY Zenon, KindFacts
<1>2. Ending'
  BY Zenon DEF Ending
<1>3. reg # Idle /\ reg' # Idle
  BY DEF Ending, Idle
<1>4. InStep'
  BY Zenon, <1>1, <1>3 DEF Registered, InStep, HasPeer
<1> QED
  BY Zenon, <1>2, <1>4 DEF Registered

\* A registration call ends.
LEMMA RegOver ==
  ASSUME Registered, kind = "openvpn", Ending, UNCHANGED <<kind, peers, auth>>, reg' = Idle
  PROVE  Registered'
<1>1. kind \notin Grpc
  BY Zenon, KindFacts
<1>2. InStep'
  BY Zenon, <1>1 DEF Registered, InStep, HasPeer, Ending
<1> QED
  BY Zenon, <1>2 DEF Registered

\* Which of its parts a removal is in.
LEMMA RegAt ==
  ASSUME Registered, reg.op = "remove", reg.pc # "delete"
  PROVE  Ending
BY DEF Registered, Idle, Adding, Striking

\* A removal names a key.
LEMMA RegKey ==
  ASSUME Registered, reg.op = "remove"
  PROVE  reg.key \in Key
BY DEF Registered, Idle, Adding, Striking, Ending

\* OpenVPN's AddPeer and RemovePeer, up to the commands they send.
LEMMA AddWired ==
  ASSUME WInv, NEW k \in Key, OpenVPNAddPeer(k)
  PROVE  WInv'
<1> USE DEF WInv
<1> DEFINE r2 == [op |-> "add", key |-> k, pc |-> "put"]
<1>1. /\ UNCHANGED <<kind, peers, call, link, gone, pending, toServer, toNode, decided>>
      /\ reg = Idle /\ reg' = r2 /\ auth' = auth \cup {k}
  BY Zenon DEF OpenVPNAddPeer, daemon, wire
<1>2. /\ reg.op # "remove" /\ r2.op # "remove" /\ r2.op = "add" /\ r2.key = k /\ r2.pc = "put"
      /\ r2 # Idle
  BY <1>1 DEF Idle
<1>3. NoneWaits(pending, toNode, "reg")
  BY Zenon, <1>2, NoReg
<1> HIDE DEF r2
<1>4. Talk(pending, toServer, toNode, r2, call) /\ Cut(r2, link, pending, toNode)
  BY Zenon, <1>2, <1>3, TalkSame DEF Cut
<1>5. Registered'
  BY Zenon, <1>1, <1>2, KindFacts DEF Registered, Adding, InStep, HasPeer
<1>6. Linked' /\ Calling' /\ Decided'
  BY Zenon, <1>1 DEF Linked, Calling, Decided
<1> QED
  BY <1>1, <1>4, <1>5, <1>6

\* A removal takes its record of the client away.
LEMMA StrikeWired ==
  ASSUME WInv, NEW k \in Key, OpenVPNRemovePeer(k)
  PROVE  WInv'
<1> USE DEF WInv
<1> DEFINE o == IF Live(k) THEN link[k].id ELSE 0
           r2 == Removing(k, "delete", o)
<1>1. /\ UNCHANGED <<kind, peers, call, link, gone, pending, toServer, toNode, decided>>
      /\ reg = Idle /\ reg' = r2 /\ auth' = auth \ {k}
  BY Zenon DEF OpenVPNRemovePeer, Strike, daemon, wire
<1>2. /\ reg.op # "remove" /\ r2.op = "remove" /\ r2.key = k /\ r2.pc = "delete"
      /\ r2.pc # "rows" /\ r2.open = o
  BY <1>1 DEF Idle, Removing
<1>3. NoneWaits(pending, toNode, "reg")
  BY Zenon, <1>2, NoReg
<1>4. Aimed(link[k], o)
  <2>1. link[k] \in Links /\ LinkOk(link[k])
    BY Zenon DEF Linked
  <2> QED
    BY <2>1 DEF Links, LinkOk, Aimed, Live
<1> HIDE DEF r2, o
<1>5. Talk(pending, toServer, toNode, r2, call)
  BY Zenon, <1>3, TalkSame
<1>6. Cut(r2, link, pending, toNode)
  BY Zenon, <1>2, <1>3, <1>4, CutUnasked
<1>7. Registered'
  BY Zenon, <1>1, <1>2, KindFacts DEF Registered, Striking, InStep, HasPeer
<1>8. Linked' /\ Calling' /\ Decided'
  BY Zenon, <1>1 DEF Linked, Calling, Decided
<1> QED
  BY <1>1, <1>5, <1>6, <1>7, <1>8

\* Adding a client records it.
LEMMA PutWired ==
  ASSUME WInv, Put \/ Delete, UNCHANGED wire
  PROVE  WInv'
<1> USE DEF WInv
<1>1. UNCHANGED <<kind, auth, call, link, gone, pending, toServer, toNode, decided>>
  BY Zenon DEF Put, Delete, daemon, wire
<1>2. Linked' /\ Calling' /\ Decided'
  BY Zenon, <1>1 DEF Linked, Calling, Decided
<1>3. kind \notin Grpc /\ kind \in Hooked
  BY Zenon, KindFacts
<1>4. reg.pc \notin {"asked", "killing"} /\ reg.op \in {"add", "remove"}
  BY DEF Put, Delete
<1>5. NoneWaits(pending, toNode, "reg")
  BY Zenon, <1>4, NoReg
<1>6. CASE Put
  <2>1. reg.op = "add" /\ reg' = Idle /\ peers' = peers \cup {reg.key}
    BY Zenon, <1>6 DEF Put
  <2>2. Adding /\ Idle.op # "remove"
    BY <2>1 DEF Registered, Idle, Striking, Ending
  <2>3. Talk(pending, toServer, toNode, Idle, call) /\ Cut(Idle, link, pending, toNode)
    BY Zenon, <1>5, <2>2, TalkSame DEF Cut
  <2>4. Registered'
    BY Zenon, <1>1, <1>3, <2>1, <2>2 DEF Registered, Adding, InStep, HasPeer
  <2> QED
    BY <1>1, <1>2, <2>1, <2>3, <2>4
<1>7. CASE Delete
  <2> DEFINE r2 == Removing(reg.key, "kick", reg.open)
  <2>1. reg.op = "remove" /\ reg.pc = "delete" /\ reg' = r2 /\ peers' = peers \ {reg.key}
    BY Zenon, <1>3, <1>7 DEF Delete
  <2>2. /\ Striking /\ r2.op = "remove" /\ r2.pc = "kick" /\ r2.pc # "rows"
        /\ r2.key = reg.key /\ r2.open = reg.open /\ reg # Idle /\ r2 # Idle
    BY <2>1 DEF Registered, Idle, Adding, Ending, Removing
  <2> HIDE DEF r2
  <2>3. Talk(pending, toServer, toNode, r2, call)
    BY Zenon, <1>5, TalkSame
  <2>4. Cut(r2, link, pending, toNode)
    <3>1. Aimed(link[reg.key], reg.open)
      BY Zenon, <2>1 DEF Cut
    <3> QED
      BY Zenon, <1>5, <2>2, <3>1, CutUnasked
  <2>5. Ending'
    BY <1>1, <1>3, <2>1, <2>2 DEF Ending, Striking
  <2>6. InStep'
    BY Zenon, <1>1, <1>3, <2>1, <2>2 DEF Registered, InStep, HasPeer
  <2>7. Registered'
    BY Zenon, <2>5, <2>6 DEF Registered
  <2> QED
    BY <1>1, <1>2, <2>1, <2>3, <2>4, <2>7
<1> QED
  BY Zenon, <1>6, <1>7

\* The commands of a removal: the table, then the kill.
LEMMA KillWired ==
  ASSUME WInv, Kill
  PROVE  WInv'
<1> USE DEF WInv
<1> DEFINE w == [who |-> "reg", command |-> Status]
           r2 == Removing(reg.key, "asked", reg.open)
<1>1. /\ UNCHANGED <<kind, peers, auth, call, link, gone, toNode, decided>>
      /\ reg.op = "remove" /\ reg.pc = "kick" /\ reg' = r2
      /\ pending' = Append(pending, w) /\ toServer' = Append(toServer, Status)
  BY Zenon DEF Kill, Run, daemon, history
<1>2. /\ w \in Waiters /\ w.who = "reg" /\ w.command = Status /\ reg.pc \notin {"asked", "killing"}
      /\ r2.op = "remove" /\ r2.pc = "asked" /\ r2.key = reg.key /\ r2.open = reg.open
      /\ r2.pc \notin {"rows", "killing"} /\ r2.pc \in {"kick", "asked", "rows", "killing"}
      /\ reg.pc # "delete" /\ w.who # "peers"
  BY <1>1 DEF Waiters, Commands, Removing
<1>3. NoneWaits(pending, toNode, "reg")
  BY Zenon, <1>2, NoReg
<1> HIDE DEF w, r2
<1>4. ForReg(w, r2) /\ ForPeers(w, call)
  BY <1>2 DEF ForReg, ForPeers
<1>5. /\ Talk(Append(pending, w), Append(toServer, Status), toNode, r2, call)
      /\ SameAnswers(pending, toNode, Append(pending, w), toNode)
  BY Zenon, <1>2, <1>3, <1>4, TalkSent
<1>6. Cut(r2, link, Append(pending, w), toNode)
  <2>1. Aimed(link[r2.key], r2.open)
    BY Zenon, <1>1, <1>2 DEF Cut
  <2> QED
    BY <1>2, <1>3, <1>5, <2>1 DEF Cut, SameAnswers, NoneWaits
<1>7. Registered'
  <2>1. Ending
    BY Zenon, <1>1, <1>2, RegAt
  <2> QED
    BY Zenon, <1>1, <1>2, <2>1, RegOn
<1>8. Linked' /\ Calling' /\ Decided'
  BY Zenon, <1>1 DEF Linked, Calling, Decided
<1> QED
  BY <1>1, <1>5, <1>6, <1>7, <1>8

\* A removal asks for the connection in its table to be killed, or finds none.
LEMMA KillRowsWired ==
  ASSUME WInv, KillRows
  PROVE  WInv'
<1> USE DEF WInv
<1>1. /\ UNCHANGED <<kind, peers, auth, call, link, toNode, decided>>
      /\ reg.op = "remove" /\ reg.pc = "rows"
  BY Zenon DEF KillRows, daemon
<1>2. reg.pc \notin {"asked", "killing"} /\ reg.pc # "delete"
  BY <1>1
<1>3. Ending /\ reg.key \in Key /\ reg.rows \in Tables
  <2>1. Ending
    BY Zenon, <1>1, <1>2, RegAt
  <2> QED
    BY Zenon, <1>1, <2>1 DEF Ending
<1>4. NoneWaits(pending, toNode, "reg")
  BY Zenon, <1>2, NoReg
<1>5. /\ TableSays(link[reg.key], reg.key, reg.open, reg.rows)
      /\ Aimed(link[reg.key], reg.open)
  BY Zenon, <1>1 DEF Cut
<1>6. Calling' /\ Decided'
  BY Zenon, <1>1 DEF Calling, Decided
<1>7. CASE /\ reg.key \in DOMAIN reg.rows
           /\ Run("reg", ClientKill(reg.key, reg.rows[reg.key].id))
           /\ reg' = Removing(reg.key, "killing", reg.open) /\ UNCHANGED gone
  <2> DEFINE id == reg.rows[reg.key].id
             c == ClientKill(reg.key, id)
             w == [who |-> "reg", command |-> c]
             r2 == Removing(reg.key, "killing", reg.open)
  <2>1. reg' = r2 /\ pending' = Append(pending, w) /\ toServer' = Append(toServer, c)
    BY Zenon, <1>7 DEF Run
  <2>2. Hits(link[reg.key], reg.open, id) /\ id \in Nat
    BY Zenon, <1>5, <1>7 DEF TableSays, Hits
  <2> HIDE DEF id
  <2>3. c.name = "client-kill" /\ c.key = reg.key /\ c.id = id /\ c \in Commands
    BY <1>3, <2>2 DEF ClientKill, Commands
  <2> HIDE DEF c
  <2>4. /\ w \in Waiters /\ w.who = "reg" /\ w.command = c /\ w.who # "peers"
        /\ r2.op = "remove" /\ r2.pc = "killing" /\ r2.key = reg.key /\ r2.open = reg.open
        /\ r2.pc \notin {"rows", "asked"} /\ r2.pc \in {"kick", "asked", "rows", "killing"}
    BY <2>3 DEF Waiters, Removing
  <2> HIDE DEF w, r2
  <2>5. ForReg(w, r2) /\ ForPeers(w, call)
    BY <2>3, <2>4 DEF ForReg, ForPeers
  <2>6. /\ Talk(Append(pending, w), Append(toServer, c), toNode, r2, call)
        /\ SameAnswers(pending, toNode, Append(pending, w), toNode)
        /\ Appended(pending, w, Append(pending, w))
    BY Zenon, <1>4, <2>4, <2>5, TalkSent
  <2>7. Cut(r2, link, Append(pending, w), toNode)
    <3> DEFINE pend2 == Append(pending, w)
    <3> HIDE DEF pend2
    <3>1. \A i \in DOMAIN pend2 : i \in DOMAIN pending \/ i = Len(pending) + 1
      BY <2>6 DEF Appended, pend2
    <3>2. \A i \in DOMAIN pend2 : pend2[i].who = "reg" => pend2[i] = w
      BY Zenon, <1>4, <2>6, <3>1 DEF Appended, NoneWaits, pend2
    <3>3. \A p : ~Answer(pend2, toNode, p, "reg")
      BY Zenon, <1>4, <2>6 DEF SameAnswers, NoneWaits, pend2
    <3>4. \A i \in DOMAIN pend2 : pend2[i].who = "reg" =>
            Hits(link[r2.key], r2.open, pend2[i].command.id)
      BY Zenon, <2>2, <2>3, <2>4, <3>2
    <3>5. Cut(r2, link, pend2, toNode)
      BY Zenon, <1>5, <2>4, <3>3, <3>4 DEF Cut
    <3> QED
      BY Zenon, <3>5 DEF pend2
  <2>8. Registered'
    BY <1>1, <1>3, <2>1, <2>4, RegOn
  <2>9. Linked'
    BY Zenon, <1>1, <1>7 DEF Linked
  <2> QED
    BY <1>1, <1>6, <2>1, <2>6, <2>7, <2>8, <2>9
<1>8. CASE /\ reg.key \notin DOMAIN reg.rows /\ reg' = Idle
           /\ gone' = [gone EXCEPT ![reg.key] = reg.open] /\ UNCHANGED <<pending, toServer>>
  <2>1. Idle.op # "remove"
    BY DEF Idle
  <2>2. Talk(pending, toServer, toNode, Idle, call) /\ Cut(Idle, link, pending, toNode)
    BY Zenon, <1>4, <2>1, TalkSame DEF Cut
  <2>3. Registered'
    BY Zenon, <1>1, <1>3, <1>8, RegOver
  <2>4. reg.open \in Nat /\ reg.open <= link[reg.key].id /\ Ended(link[reg.key], reg.open)
    BY Zenon, <1>5, <1>8 DEF TableSays, Aimed
  <2>5. Linked'
    BY Zenon, <1>1, <1>3, <1>8, <2>4 DEF Linked
  <2> QED
    BY <1>1, <1>6, <1>8, <2>2, <2>3, <2>5
<1> QED
  BY Zenon, <1>7, <1>8 DEF KillRows

\* A call that gives up on the command it waits for.
LEMMA TimeoutWired ==
  ASSUME WInv, KillTimeout \/ PeersTimeout
  PROVE  WInv'
<1> USE DEF WInv
<1>1. UNCHANGED <<kind, peers, auth, link, gone, toServer, toNode, decided>>
  BY Zenon DEF KillTimeout, PeersTimeout, daemon, history
<1>2. Linked' /\ Decided'
  BY Zenon, <1>1 DEF Linked, Decided
<1>3. CASE KillTimeout
  <2>1. /\ reg.op = "remove" /\ reg.pc \in {"asked", "killing"} /\ reg' = Idle /\ call' = call
        /\ pending' = GaveUp(pending, "reg")
    BY Zenon, <1>3 DEF KillTimeout, TimedOut, GaveUp
  <2>2. Idle.op # "remove" /\ reg.pc # "delete"
    BY <2>1 DEF Idle
  <2>3. Talk(GaveUp(pending, "reg"), toServer, toNode, Idle, call)
    BY Zenon, TalkGivenUp
  <2>4. Cut(Idle, link, GaveUp(pending, "reg"), toNode)
    BY Zenon, <2>2 DEF Cut
  <2>5. Registered'
    <3>1. Ending
      BY Zenon, <2>1, <2>2, RegAt
    <3> QED
      BY Zenon, <1>1, <2>1, <3>1, RegOver
  <2>6. Calling'
    BY Zenon, <2>1 DEF Calling
  <2> QED
    BY <1>1, <1>2, <2>1, <2>3, <2>4, <2>5, <2>6
<1>4. CASE PeersTimeout
  <2> DEFINE pend2 == GaveUp(pending, "peers")
  <2>1. reg' = reg /\ call' = NoCall /\ pending' = pend2
    BY Zenon, <1>4 DEF PeersTimeout, TimedOut, GaveUp, Fail
  <2>2. Talk(pend2, toServer, toNode, reg, NoCall) /\ Forgotten(pending, toNode, pend2)
    BY Zenon, TalkGivenUp
  <2> HIDE DEF pend2
  <2>3. Traced(pending, toNode, pend2, toNode, "reg")
    <3>1. "nobody" # "reg"
      OBVIOUS
    <3> QED
      BY Zenon, <2>2, <3>1 DEF Traced, Forgotten
  <2>4. Cut(reg, link, pend2, toNode)
    <3>1. link \in [Key -> Links] /\ \A k \in Key : MovesOn(link[k], link[k])
      BY Zenon, SameMoves DEF Linked
    <3>2. reg.op = "remove" => reg.key \in Key
      BY Zenon, RegKey
    <3> QED
      BY Zenon, <2>3, <3>1, <3>2, CutStays
  <2>5. Registered'
    BY Zenon, <1>1, <2>1, RegSame
  <2>6. Calling'
    BY Zenon, <2>1 DEF Calling
  <2> QED
    BY <1>1, <1>2, <2>1, <2>2, <2>4, <2>5, <2>6
<1> QED
  BY Zenon, <1>3, <1>4

\* Where connections stay as they are and nothing new is answered.
LEMMA CutSame ==
  ASSUME WInv, NEW pend2, NEW lines2, Traced(pending, toNode, pend2, lines2, "reg")
  PROVE  Cut(reg, link, pend2, lines2)
<1>1. link \in [Key -> Links] /\ \A k \in Key : MovesOn(link[k], link[k])
  BY Zenon, SameMoves DEF WInv, Linked
<1>2. reg.op = "remove" => reg.key \in Key
  BY Zenon, RegKey DEF WInv
<1>3. Cut(reg, link, pending, toNode)
  BY Zenon DEF WInv
<1> QED
  BY Zenon, <1>1, <1>2, <1>3, CutStays

\* A reading begins and ends.
LEMMA PeersWired ==
  ASSUME WInv, OpenVPNPeers \/ OpenVPNItems
  PROVE  WInv'
<1> USE DEF WInv
<1>1. UNCHANGED <<kind, peers, auth, reg, link, gone, toNode, decided>>
  BY Zenon DEF OpenVPNPeers, OpenVPNItems, daemon, wire
<1>2. Linked' /\ Decided'
  BY Zenon, <1>1 DEF Linked, Decided
<1>3. Registered'
  BY Zenon, <1>1, RegSame
<1>4. CASE OpenVPNPeers
  <2> DEFINE w == [who |-> "peers", command |-> Status]
             c2 == [pc |-> "asked"]
  <2>1. /\ call = NoCall /\ call' = c2 /\ pending' = Append(pending, w)
        /\ toServer' = Append(toServer, Status)
    BY Zenon, <1>4 DEF OpenVPNPeers, Run, Begin
  <2>2. /\ w \in Waiters /\ w.who = "peers" /\ w.command = Status /\ w.who # "reg"
        /\ c2.pc = "asked" /\ call.pc # "asked"
    BY <2>1 DEF Waiters, Commands, NoCall
  <2>3. Calling'
    BY Zenon, <2>1 DEF Calling
  <2> HIDE DEF w, c2
  <2>4. NoneWaits(pending, toNode, "peers")
    BY Zenon, <2>2, NoPeers
  <2>5. ForReg(w, reg) /\ ForPeers(w, c2)
    BY Zenon, <2>2 DEF ForReg, ForPeers
  <2>6. /\ Talk(Append(pending, w), Append(toServer, Status), toNode, reg, c2)
        /\ SameAnswers(pending, toNode, Append(pending, w), toNode)
        /\ Appended(pending, w, Append(pending, w))
    BY Zenon, <2>2, <2>4, <2>5, TalkSent
  <2>7. Cut(reg, link, Append(pending, w), toNode)
    BY Zenon, <2>2, <2>6, TracedSent, CutSame
  <2> QED
    BY <1>1, <1>2, <1>3, <2>1, <2>3, <2>6, <2>7
<1>5. CASE OpenVPNItems
  <2>1. call.pc = "rows" /\ call' = NoCall /\ UNCHANGED <<pending, toServer>>
    BY Zenon, <1>5 DEF OpenVPNItems, Return, wire
  <2>2. call.pc # "asked"
    BY <2>1
  <2>3. NoneWaits(pending, toNode, "peers")
    BY Zenon, <2>2, NoPeers
  <2>4. Talk(pending, toServer, toNode, reg, NoCall)
    BY Zenon, <2>3, TalkSame
  <2>5. Calling'
    BY Zenon, <2>1 DEF Calling
  <2> QED
    BY <1>1, <1>2, <1>3, <2>1, <2>4, <2>5
<1> QED
  BY Zenon, <1>4, <1>5

\* A notification is read, and what is decided is sent.
LEMMA LineWired ==
  ASSUME WInv, FinishConnect \/ FinishDisconnect
  PROVE  WInv'
<1> USE DEF WInv
<1>1. /\ UNCHANGED <<kind, peers, auth, reg, call, link, gone, pending, toServer>>
      /\ toNode # <<>> /\ Head(toNode).type \in {"CONNECT", "REAUTH", "DISCONNECT"}
      /\ toNode' = Tail(toNode)
  BY Zenon DEF FinishConnect, FinishDisconnect, svars, node, daemon, history
<1>2. Linked' /\ Calling'
  BY Zenon, <1>1 DEF Linked, Calling
<1>3. Registered'
  BY Zenon, <1>1, RegSame
<1>4. Head(toNode).type # "reply"
  BY <1>1
<1>5. /\ Talk(pending, toServer, Tail(toNode), reg, call)
      /\ Moved(pending, toNode, pending, Tail(toNode))
  BY Zenon, <1>1, <1>4, TalkLineRead
<1>6. Cut(reg, link, pending, Tail(toNode))
  BY Zenon, <1>5, TracedRead, CutSame
<1>7. Decided'
  <2>1. CASE FinishDisconnect
    BY Zenon, <2>1 DEF FinishDisconnect, Decided
  <2>2. CASE FinishConnect
    <3>1. Head(toNode) \in Lines
      BY Zenon, <1>1, Shifting DEF Talk, Queue
    <3>2. Head(toNode).key \in Key /\ Head(toNode).id \in Nat
      BY <1>4, <3>1 DEF Lines, Answers, Events
    <3>3. \E ok : decided' = decided \cup {[key |-> Head(toNode).key, id |-> Head(toNode).id, ok |-> ok]}
      BY Zenon, <2>2 DEF FinishConnect
    <3> QED
      BY <3>2, <3>3 DEF Decided
  <2> QED
    BY Zenon, <2>1, <2>2
<1> QED
  BY <1>1, <1>2, <1>3, <1>5, <1>6, <1>7

\* A decision is sent.
LEMMA SendWired ==
  ASSUME WInv, NEW d \in decided, Send(d)
  PROVE  WInv'
<1> USE DEF WInv
<1> DEFINE w == [who |-> "nobody", command |-> ClientAuth(d)]
<1>1. /\ UNCHANGED <<kind, peers, auth, reg, call, link, gone, toNode>>
      /\ pending' = Append(pending, w) /\ toServer' = Append(toServer, ClientAuth(d))
      /\ decided' = decided \ {d}
  BY Zenon DEF Send, Run, svars, node, daemon, history
<1>2. Linked' /\ Calling' /\ Decided'
  BY Zenon, <1>1 DEF Linked, Calling, Decided
<1>3. Registered'
  BY Zenon, <1>1, RegSame
<1>4. ClientAuth(d) \in Commands
  <2>1. d.key \in Key /\ d.id \in Nat
    BY Zenon DEF Decided
  <2> QED
    BY <2>1 DEF Commands, ClientAuth
<1>5. w \in Waiters /\ w.who = "nobody" /\ w.who # "reg" /\ w.who # "peers" /\ w.command = ClientAuth(d)
  BY <1>4 DEF Waiters
<1> HIDE DEF w
<1>6. ForReg(w, reg) /\ ForPeers(w, call)
  BY Zenon, <1>5 DEF ForReg, ForPeers
<1>7. /\ Talk(Append(pending, w), Append(toServer, ClientAuth(d)), toNode, reg, call)
      /\ SameAnswers(pending, toNode, Append(pending, w), toNode)
      /\ Appended(pending, w, Append(pending, w))
  BY Zenon, <1>5, <1>6, TalkSent
<1>8. Cut(reg, link, Append(pending, w), toNode)
  BY Zenon, <1>5, <1>7, TracedSent, CutSame
<1> QED
  BY <1>1, <1>2, <1>3, <1>7, <1>8

\* A reply is read, by a removal, by a reading or by nobody.
LEMMA ReplyWired ==
  ASSUME WInv, ReadReply
  PROVE  WInv' /\ pending # <<>> /\ Answer(pending, toNode, 1, Head(pending).who)
<1> USE DEF WInv
<1> DEFINE who == Head(pending).who
           rows == Head(toNode).rows
<1>1. /\ UNCHANGED <<kind, peers, auth, link, toServer, decided>>
      /\ toNode # <<>> /\ Head(toNode).type = "reply" /\ toNode' = Tail(toNode)
  BY Zenon DEF ReadReply, daemon
<1>2. /\ pending # <<>> /\ Answer(pending, toNode, 1, who)
      /\ Shifted(toNode, Tail(toNode)) /\ Shifted(pending, Tail(pending))
      /\ Moved(pending, toNode, Tail(pending), Tail(toNode))
  BY Zenon, <1>1, TalkReplyRead
<1>3. ASSUME NEW r2, r2 = reg \/ who = "reg", NEW c2, c2 = call \/ who = "peers"
      PROVE  Talk(Tail(pending), toServer, Tail(toNode), r2, c2)
  BY Zenon, <1>1, <1>3, TalkReplyRead
<1>4. /\ pending' = Tail(pending)
      /\ reg' = CASE who = "reg" /\ reg.pc = "killing" -> Idle
                  [] who = "reg" /\ ~(who = "reg" /\ reg.pc = "killing") -> Rows(reg, rows)
                  [] OTHER -> reg
      /\ gone' = IF who = "reg" /\ reg.pc = "killing" THEN [gone EXCEPT ![reg.key] = reg.open]
                 ELSE gone
      /\ call' = IF who = "peers" THEN [pc |-> "rows", rows |-> rows] ELSE call
  BY <1>2 DEF ReadReply
<1>5. toNode[1] = Head(toNode) /\ 1 \in DOMAIN toNode
  BY Zenon, <1>2 DEF Shifted
<1>6. PICK i \in DOMAIN pending : pending[i].who = who /\ pending[i].command = toNode[1].command
  <2>1. Asked(pending, who, toNode[1].command)
    BY Zenon, <1>2, AnswerOf DEF Talk
  <2> QED
    BY Zenon, <2>1 DEF Asked
<1>7. toNode[1].command = Status => rows \in Tables
  BY Zenon, <1>1, <1>5 DEF Talk, StatusRows
<1>8. ForReg(pending[i], reg) /\ ForPeers(pending[i], call)
  BY Zenon DEF Talk, Waits
<1> HIDE DEF who, rows
<1>9. Decided'
  BY Zenon, <1>1 DEF Decided
<1>10. CASE who = "reg" /\ reg.pc = "killing"
  <2>1. reg' = Idle /\ gone' = [gone EXCEPT ![reg.key] = reg.open] /\ call' = call
    BY <1>4, <1>10
  <2>2. reg.op = "remove" /\ reg.pc # "delete" /\ Idle.op # "remove"
    BY <1>6, <1>8, <1>10 DEF ForReg, Idle
  <2>3. Ending /\ reg.key \in Key
    <3>1. Ending
      BY Zenon, <2>2, RegAt
    <3> QED
      BY Zenon, <3>1 DEF Ending
  <2>4. reg.open \in Nat /\ reg.open <= link[reg.key].id /\ Ended(link[reg.key], reg.open)
    BY Zenon, <1>2, <1>5, <1>10, <2>2 DEF Cut, Aimed
  <2>5. Linked'
    BY Zenon, <1>1, <2>1, <2>3, <2>4 DEF Linked
  <2>6. Registered'
    BY Zenon, <1>1, <2>1, <2>3, RegOver
  <2>7. Talk(Tail(pending), toServer, Tail(toNode), Idle, call) /\ Cut(Idle, link, Tail(pending), Tail(toNode))
    BY Zenon, <1>3, <1>10, <2>2 DEF Cut
  <2>8. Calling'
    BY Zenon, <2>1 DEF Calling
  <2> QED
    BY <1>1, <1>2, <1>4, <1>9, <2>1, <2>5, <2>6, <2>7, <2>8 DEF who
<1>11. CASE who = "reg" /\ reg.pc # "killing"
  <2> DEFINE r2 == Rows(reg, rows)
  <2>1. reg' = r2 /\ gone' = gone /\ call' = call
    BY <1>4, <1>11
  <2>2. reg.op = "remove" /\ reg.pc # "delete" /\ reg.pc = "asked" /\ toNode[1].command = Status
    BY <1>6, <1>8, <1>11 DEF ForReg
  <2>3. /\ r2.op = "remove" /\ r2.key = reg.key /\ r2.open = reg.open /\ r2.rows = rows
        /\ r2.pc = "rows" /\ r2.pc \notin {"asked", "killing"}
        /\ r2.pc \in {"kick", "asked", "rows", "killing"}
    BY DEF Rows
  <2> HIDE DEF r2
  <2>4. Linked' /\ Calling'
    BY Zenon, <1>1, <2>1 DEF Linked, Calling
  <2>5. Registered'
    <3>1. Ending
      BY Zenon, <2>2, RegAt
    <3> QED
      BY Zenon, <1>1, <1>7, <2>1, <2>2, <2>3, <3>1, RegOn
  <2>6. Talk(Tail(pending), toServer, Tail(toNode), r2, call)
    BY Zenon, <1>3, <1>11
  <2>7. Cut(r2, link, Tail(pending), Tail(toNode))
    <3>1. NoneWaits(Tail(pending), Tail(toNode), "reg")
      BY Zenon, <2>3, <2>6, NoReg
    <3>2. /\ Aimed(link[reg.key], reg.open)
          /\ TableSays(link[reg.key], reg.key, reg.open, toNode[1].rows)
      BY Zenon, <1>2, <1>5, <1>11, <2>2 DEF Cut
    <3>3. toNode[1].rows = rows
      BY Zenon, <1>5 DEF rows
    <3> QED
      BY Zenon, <2>3, <3>1, <3>2, <3>3, CutUnasked
  <2> QED
    BY <1>1, <1>2, <1>4, <1>9, <2>1, <2>4, <2>5, <2>6, <2>7 DEF who
<1>12. CASE who # "reg"
  <2>1. reg' = reg /\ gone' = gone
    BY <1>4, <1>12
  <2>2. call' = call \/ who = "peers"
    BY Zenon, <1>4
  <2>3. Linked'
    BY Zenon, <1>1, <2>1 DEF Linked
  <2>4. Registered'
    BY Zenon, <1>1, <2>1, RegSame
  <2>5. Talk(Tail(pending), toServer, Tail(toNode), reg, call')
    BY Zenon, <1>3, <2>2
  <2>6. Cut(reg, link, Tail(pending), Tail(toNode))
    BY Zenon, <1>2, TracedRead, CutSame
  <2>7. Calling'
    <3>1. CASE who = "peers"
      <4>1. rows \in Tables
        BY Zenon, <1>6, <1>7, <1>8, <3>1 DEF ForPeers
      <4> QED
        BY <1>4, <3>1, <4>1 DEF Calling
    <3>2. CASE who # "peers"
      BY Zenon, <1>4, <3>2 DEF Calling
    <3> QED
      BY Zenon, <3>1, <3>2
  <2> QED
    BY <1>1, <1>2, <1>4, <1>9, <2>1, <2>3, <2>4, <2>5, <2>6, <2>7 DEF who
<1> QED
  BY Zenon, <1>10, <1>11, <1>12

LinkTo(k, l, lnk) ==
  /\ lnk \in [Key -> Links] /\ lnk[k] = l /\ \A j \in Key \ {k} : lnk[j] = link[j]
  /\ \A j \in Key :
       /\ MovesOn(link[j], lnk[j]) /\ LinkOk(lnk[j])
       /\ gone[j] <= lnk[j].id /\ Ended(lnk[j], gone[j])

\* Connections move on.
LEMMA LinkMoves ==
  ASSUME Linked, NEW k \in Key, NEW l \in Links, LinkOk(l), MovesOn(link[k], l),
         NEW lnk, lnk = [link EXCEPT ![k] = l]
  PROVE  LinkTo(k, l, lnk)
<1>1. /\ lnk \in [Key -> Links] /\ link \in [Key -> Links] /\ lnk[k] = l
      /\ \A j \in Key \ {k} : lnk[j] = link[j]
  BY Zenon DEF Linked
<1>2. \A j \in Key : MovesOn(link[j], lnk[j]) /\ LinkOk(lnk[j])
  BY Zenon, <1>1, SameMoves DEF Linked
<1>3. ASSUME NEW j \in Key PROVE gone[j] <= lnk[j].id /\ Ended(lnk[j], gone[j])
  <2>1. /\ link[j] \in Links /\ lnk[j] \in Links /\ MovesOn(link[j], lnk[j])
        /\ gone[j] \in Nat /\ gone[j] <= link[j].id /\ Ended(link[j], gone[j])
    BY Zenon, <1>1, <1>2 DEF Linked
  <2>2. Ended(lnk[j], gone[j])
    BY Zenon, <2>1, EndedStays
  <2>3. gone[j] <= lnk[j].id
    BY <2>1 DEF Links, MovesOn
  <2> QED
    BY Zenon, <2>2, <2>3
<1> QED
  BY Zenon, <1>1, <1>2, <1>3 DEF LinkTo

\* A step of the server about one connection that answers nothing.
LEMMA ServerWired ==
  ASSUME WInv, NEW k \in Key, NEW l \in Links, LinkOk(l), MovesOn(link[k], l),
         link' = [link EXCEPT ![k] = l], NEW x \in Events,
         toNode' = Append(toNode, x) \/ toNode' = toNode,
         UNCHANGED <<kind, peers, auth, reg, call, gone, pending, toServer, decided>>
  PROVE  WInv' /\ LinkTo(k, l, link')
<1> USE DEF WInv
<1>1. LinkTo(k, l, link')
  <2> DEFINE lnk == [link EXCEPT ![k] = l]
  <2> HIDE DEF lnk
  <2>1. LinkTo(k, l, lnk)
    BY Zenon, LinkMoves DEF lnk
  <2> QED
    BY <2>1 DEF lnk
<1>2. Linked'
  BY Zenon, <1>1 DEF LinkTo, Linked
<1>3. Calling' /\ Decided'
  BY Zenon DEF Calling, Decided
<1>4. Registered'
  BY Zenon, RegSame
<1>5. ASSUME NEW lines2, lines2 = Append(toNode, x) \/ lines2 = toNode
      PROVE  Talk(pending, toServer, lines2, reg, call) /\ SameAnswers(pending, toNode, pending, lines2)
  <2>1. CASE lines2 = Append(toNode, x)
    BY Zenon, <2>1, TalkNotified
  <2>2. CASE lines2 = toNode
    BY Zenon, <2>2 DEF SameAnswers
  <2> QED
    BY Zenon, <1>5, <2>1, <2>2
<1>6. Talk(pending, toServer, toNode', reg, call) /\ SameAnswers(pending, toNode, pending, toNode')
  BY <1>5
<1>7. Cut(reg, link', pending, toNode')
  <2>1. \A lines2 : SameAnswers(pending, toNode, pending, lines2) =>
          Traced(pending, toNode, pending, lines2, "reg")
    BY Zenon, TracedAlike
  <2>2. \A lnk2, lines2 :
          /\ lnk2 \in [Key -> Links] /\ Traced(pending, toNode, pending, lines2, "reg")
          /\ \A j \in Key : MovesOn(link[j], lnk2[j])
          => Cut(reg, lnk2, pending, lines2)
    <3>1. link \in [Key -> Links] /\ (reg.op = "remove" => reg.key \in Key)
      BY Zenon, RegKey DEF Linked
    <3> QED
      BY Zenon, <3>1, CutStays
  <2>3. link' \in [Key -> Links] /\ \A j \in Key : MovesOn(link[j], link'[j])
    BY Zenon, <1>1 DEF LinkTo
  <2>4. Traced(pending, toNode, pending, toNode', "reg")
    BY Zenon, <1>6, <2>1
  <2> QED
    BY Zenon, <2>2, <2>3, <2>4
<1> QED
  BY <1>1, <1>2, <1>3, <1>4, <1>6, <1>7

\* The server's own steps, and what clients move.
LEMMA ClientWired ==
  ASSUME WInv, NEW k \in Key, ServerConnect(k) \/ ServerReauth(k) \/ ServerEnd(k)
                \/ (Use(k) /\ UNCHANGED wire)
  PROVE  WInv'
<1>1. link \in [Key -> Links] /\ link[k] \in Links /\ LinkOk(link[k])
  BY Zenon DEF WInv, Linked
<1> DEFINE e(type, id, n) == [type |-> type, key |-> k, id |-> id, bytes |-> n]
<1>2. \A type \in {"CONNECT", "REAUTH", "DISCONNECT"}, id \in Nat, n \in Nat : e(type, id, n) \in Events
  BY DEF Events
<1>3. CASE ServerConnect(k)
  <2> DEFINE l == [state |-> "asking", id |-> link[k].id + 1, bytes |-> 0]
             x == e("CONNECT", link[k].id + 1, 0)
  <2>1. /\ link' = [link EXCEPT ![k] = l] /\ toNode' = Append(toNode, x)
        /\ UNCHANGED <<kind, peers, auth, reg, call, gone, pending, toServer, decided>>
    BY <1>1, <1>3 DEF ServerConnect, node, history
  <2>2. l \in Links /\ LinkOk(l) /\ MovesOn(link[k], l) /\ x \in Events
    BY <1>1, <1>2 DEF Links, LinkOk, MovesOn
  <2> HIDE DEF l, x
  <2> QED
    BY Zenon, <2>1, <2>2, ServerWired
<1>4. CASE ServerReauth(k) \/ ServerEnd(k)
  <2>1. PICK type \in {"REAUTH", "DISCONNECT"}, s \in {"renewing", "none"} :
          /\ Notify(k, s, type) /\ link[k].state \in {"up", "renewing", "killed"}
          /\ s = "none" \/ link[k].state = "up"
    BY <1>4 DEF ServerReauth, ServerEnd, Live
  <2> DEFINE l == [state |-> s, id |-> link[k].id, bytes |-> link[k].bytes]
             x == e(type, link[k].id, link[k].bytes)
  <2>2. /\ link' = [link EXCEPT ![k] = l] /\ toNode' = Append(toNode, x)
        /\ UNCHANGED <<kind, peers, auth, reg, call, gone, pending, toServer, decided>>
    <3>1. [link[k] EXCEPT !.state = s] = l
      BY <1>1 DEF Links
    <3>2. link' = [link EXCEPT ![k] = [link[k] EXCEPT !.state = s]] /\ toNode' = Append(toNode, x)
      BY Zenon, <2>1 DEF Notify, Event
    <3>3. UNCHANGED <<kind, peers, auth, reg, call, gone, pending, toServer, decided>>
      BY Zenon, <1>4 DEF ServerReauth, ServerEnd, node, history
    <3> QED
      BY Zenon, <3>1, <3>2, <3>3
  <2>3. l \in Links /\ LinkOk(l) /\ MovesOn(link[k], l) /\ x \in Events
    BY <1>1, <1>2, <2>1 DEF Links, LinkOk, MovesOn
  <2> HIDE DEF l, x
  <2> QED
    BY Zenon, <2>2, <2>3, ServerWired
<1>5. CASE Use(k) /\ UNCHANGED wire
  <2> DEFINE l == [state |-> link[k].state, id |-> link[k].id, bytes |-> link[k].bytes + 1]
             x == e("CONNECT", 0, 0)
  <2>1. /\ link' = [link EXCEPT ![k] = l] /\ toNode' = toNode
        /\ UNCHANGED <<kind, peers, auth, reg, call, gone, pending, toServer, decided>>
    <3>1. [link[k] EXCEPT !.bytes = @ + 1] = l
      BY <1>1 DEF Links
    <3>2. link' = [link EXCEPT ![k] = [link[k] EXCEPT !.bytes = @ + 1]]
      BY Zenon, <1>5 DEF Use
    <3>3. UNCHANGED <<kind, peers, auth, reg, call, gone, pending, toServer, toNode, decided>>
      BY Zenon, <1>5 DEF Use, wire, node
    <3> QED
      BY Zenon, <3>1, <3>2, <3>3
  <2>2. l \in Links /\ LinkOk(l) /\ MovesOn(link[k], l) /\ x \in Events
    <3>1. link[k].state \in {"up", "renewing"}
      BY Zenon, <1>5 DEF Use, Live
    <3> QED
      BY <1>1, <1>2, <3>1 DEF Links, LinkOk, MovesOn
  <2> HIDE DEF l, x
  <2> QED
    BY Zenon, <2>1, <2>2, ServerWired
<1> QED
  BY Zenon, <1>3, <1>4, <1>5

Table ==
  [k \in {k \in Key : Live(k) \/ link[k].state = "killed"} |->
     [id |-> link[k].id, bytes |-> link[k].bytes]]

\* What carrying out a command does to the connection it names.
Turns(from, to) ==
  \/ from \in {"asking", "renewing"} /\ to = "up"
  \/ from = "asking" /\ to = "none"
  \/ from \in {"up", "renewing"} /\ to = "killed"

Turned(k, s) == [state |-> s, id |-> link[k].id, bytes |-> link[k].bytes]

Unmoved(a, lnk2, lines2) ==
  /\ lnk2 = link /\ lines2 = Append(toNode, a)
  /\ a.command.name = "client-kill" =>
       ~(link[a.command.key].id = a.command.id /\ Live(a.command.key))
Turning(a, k, s, lnk2, lines2) ==
  /\ a.command.name # "status" /\ k = a.command.key /\ k \in Key
  /\ lnk2 = [link EXCEPT ![k] = Turned(k, s)]
  /\ \/ lines2 = Append(toNode, a) /\ Turns(link[k].state, s)
     \/ /\ lines2 = Append(Append(toNode, a), Event("DISCONNECT", k))
        /\ link[k].state = "renewing" /\ s = "none"
  /\ a.command.name = "client-kill" => s = "killed"

\* What the commands carry.
LEMMA CommandFacts == \A c \in Commands :
  /\ c.name = "status" <=> c = Status
  /\ c.name # "status" => c.key \in Key /\ c.id \in Nat
<1>1. Status.name = "status"
  BY DEF Status
<1> QED
  BY <1>1 DEF Commands

\* The table the server answers with.
LEMMA TableType == Linked => Table \in Tables
<1> SUFFICES ASSUME Linked PROVE Table \in Tables
  OBVIOUS
<1> DEFINE S == {k \in Key : Live(k) \/ link[k].state = "killed"}
<1>1. \A k \in Key : link[k].id \in Nat /\ link[k].bytes \in Nat
  BY DEF Linked, Links
<1>2. Table \in [S -> [id: Nat, bytes: Nat]]
  BY <1>1 DEF Table
<1> QED
  BY Zenon, <1>2 DEF Tables

Answering(a) ==
  /\ a \in Answers /\ a.command = Head(toServer) /\ toServer # <<>>
  /\ a.command = Status => a.rows = Table

\* What carrying out the first command does.
LEMMA Commanded ==
  ASSUME WInv, ServerCommand
  PROVE  /\ toServer' = Tail(toServer)
         /\ UNCHANGED <<kind, peers, auth, banked, reg, call, history, pending, decided>>
         /\ \E a : /\ Answering(a)
                   /\ \/ Unmoved(a, link', toNode')
                      \/ \E k, s : Turning(a, k, s, link', toNode')
<1>1. /\ toServer # <<>> /\ toServer' = Tail(toServer)
      /\ UNCHANGED <<kind, peers, auth, banked, reg, call, history, pending, decided>>
  BY Zenon DEF ServerCommand, node
<1> DEFINE c == Head(toServer)
           a == Reply(c, IF c.name = "status" THEN Table ELSE <<>>)
           meant == c.name # "status" /\ link[c.key].id = c.id
           to(s) == [link EXCEPT ![c.key].state = s]
           lines2 == Append(toNode, a)
<1>2. c \in Commands
  BY Zenon, <1>1, Shifting DEF WInv, Talk, Queue
<1>3. /\ Answering(a) /\ a.command = c
  <2>1. Table \in Tables
    BY Zenon, TableType DEF WInv
  <2>2. a \in Answers /\ a.command = c /\ a.rows = IF c.name = "status" THEN Table ELSE <<>>
    BY <1>2, <2>1 DEF Answers, Reply
  <2> QED
    BY Zenon, <1>1, <1>2, <2>2, CommandFacts DEF Answering
<1>4. \/ /\ c.name = "client-auth-nt" /\ meant /\ link[c.key].state \in {"asking", "renewing"}
         /\ link' = to("up") /\ toNode' = lines2
      \/ /\ c.name = "client-deny" /\ meant /\ link[c.key].state = "asking"
         /\ link' = to("none") /\ toNode' = lines2
      \/ /\ c.name = "client-deny" /\ meant /\ link[c.key].state = "renewing"
         /\ link' = to("none") /\ toNode' = Append(lines2, Event("DISCONNECT", c.key))
      \/ /\ c.name = "client-kill" /\ meant /\ Live(c.key)
         /\ link' = to("killed") /\ toNode' = lines2
      \/ /\ ~(c.name = "client-kill" /\ meant /\ Live(c.key))
         /\ link' = link /\ toNode' = lines2
  BY Zenon DEF ServerCommand, Table
<1>5. ASSUME meant, NEW s PROVE to(s) = [link EXCEPT ![c.key] = Turned(c.key, s)] /\ c.key \in Key
  <2>1. c.key \in Key /\ link \in [Key -> Links] /\ link[c.key] \in Links
    BY Zenon, <1>2, <1>5, CommandFacts DEF WInv, Linked
  <2>2. [link[c.key] EXCEPT !.state = s] = Turned(c.key, s)
    BY <2>1 DEF Links, Turned
  <2>3. to(s) = [link EXCEPT ![c.key] = [link[c.key] EXCEPT !.state = s]]
    BY Zenon
  <2> QED
    BY Zenon, <2>1, <2>2, <2>3
<1> HIDE DEF c, a, lines2, to
<1>6. \/ Unmoved(a, link', toNode')
      \/ \E k, s : Turning(a, k, s, link', toNode')
  <2>1. CASE /\ c.name = "client-auth-nt" /\ meant /\ link[c.key].state \in {"asking", "renewing"}
             /\ link' = to("up") /\ toNode' = lines2
    <3>1. Turning(a, c.key, "up", link', toNode')
      BY <1>3, <1>5, <2>1 DEF Turning, Turns, lines2
    <3> QED
      BY Zenon, <3>1
  <2>2. CASE /\ c.name = "client-deny" /\ meant /\ link[c.key].state = "asking"
             /\ link' = to("none") /\ toNode' = lines2
    <3>1. Turning(a, c.key, "none", link', toNode')
      BY <1>3, <1>5, <2>2 DEF Turning, Turns, lines2
    <3> QED
      BY Zenon, <3>1
  <2>3. CASE /\ c.name = "client-deny" /\ meant /\ link[c.key].state = "renewing"
             /\ link' = to("none") /\ toNode' = Append(lines2, Event("DISCONNECT", c.key))
    <3>1. Turning(a, c.key, "none", link', toNode')
      BY <1>3, <1>5, <2>3 DEF Turning, lines2
    <3> QED
      BY Zenon, <3>1
  <2>4. CASE /\ c.name = "client-kill" /\ meant /\ Live(c.key)
             /\ link' = to("killed") /\ toNode' = lines2
    <3>1. Turning(a, c.key, "killed", link', toNode')
      BY <1>3, <1>5, <2>4 DEF Turning, Turns, lines2, Live
    <3> QED
      BY Zenon, <3>1
  <2>5. CASE /\ ~(c.name = "client-kill" /\ meant /\ Live(c.key))
             /\ link' = link /\ toNode' = lines2
    <3>1. "client-kill" # "status"
      OBVIOUS
    <3> QED
      BY Zenon, <1>3, <2>5, <3>1 DEF Unmoved, lines2
  <2> QED
    BY Zenon, <1>4, <2>1, <2>2, <2>3, <2>4, <2>5
<1> QED
  BY Zenon, <1>1, <1>3, <1>6

\* The answer to a removal's command says what it must.
LEMMA AnswerCuts ==
  ASSUME WInv, NEW a, Answering(a), NEW lnk2 \in [Key -> Links], NEW lines2,
         \A k \in Key : MovesOn(link[k], lnk2[k]),
         NewAnswer(pending, toNode, a, lines2),
         lnk2 = link \/ a.command # Status,
         a.command.name = "client-kill" /\ a.command.key \in Key =>
           \/ lnk2[a.command.key].state = "killed"
           \/ /\ lnk2 = link
              /\ ~(link[a.command.key].id = a.command.id /\ Live(a.command.key))
  PROVE  Cut(reg, lnk2, pending, lines2)
<1> USE DEF WInv
<1> SUFFICES ASSUME reg.op = "remove" PROVE Cut(reg, lnk2, pending, lines2)
  BY Zenon DEF Cut
<1> DEFINE k == reg.key
           o == reg.open
<1>1. link \in [Key -> Links] /\ k \in Key
  BY Zenon, RegKey DEF Linked
<1>2. Traced(pending, toNode, pending, toNode, "reg")
  BY Zenon DEF Traced
<1>3. Cut(reg, lnk2, pending, toNode)
  BY Zenon, <1>1, <1>2, CutStays
<1>4. ASSUME \E i \in DOMAIN pending : pending[i].who = "reg" /\ pending[i].command = a.command
      PROVE  /\ reg.pc = "asked" => TableSays(lnk2[k], k, o, a.rows)
             /\ reg.pc = "killing" => Ended(lnk2[k], o)
  <2>1. PICK i \in DOMAIN pending : pending[i].who = "reg" /\ pending[i].command = a.command
    BY Zenon, <1>4
  <2>2. ForReg(pending[i], reg)
    BY Zenon DEF Talk, Waits
  <2>3. Aimed(link[k], o) /\ link[k] \in Links /\ lnk2[k] \in Links
    BY Zenon, <1>1 DEF Cut
  <2>4. ASSUME reg.pc = "asked" PROVE TableSays(lnk2[k], k, o, a.rows)
    <3>1. a.rows = Table /\ lnk2 = link
      BY Zenon, <2>1, <2>2, <2>4 DEF ForReg, Answering
    <3>2. CASE k \in DOMAIN Table
      <4>1. Table[k].id = link[k].id
        BY <3>2 DEF Table
      <4>2. Hits(link[k], o, link[k].id)
        BY <2>3 DEF Hits, Aimed, Links
      <4> QED
        BY Zenon, <3>1, <3>2, <4>1, <4>2 DEF TableSays
    <3>3. CASE k \notin DOMAIN Table
      <4>1. ~Live(k) /\ link[k].state # "killed"
        BY Zenon, <1>1, <3>3 DEF Table
      <4> DEFINE l == link[k]
      <4>2. /\ o \in Nat /\ l.id \in Nat /\ o <= l.id
            /\ l.id = o => l.state \notin {"asking", "admitted"}
            /\ l.state \in {"none", "asking", "admitted", "up", "renewing", "killed"}
            /\ l.state \notin {"up", "renewing", "killed"}
        BY <2>3, <4>1 DEF Aimed, Links, Live
      <4> HIDE DEF l
      <4>3. Ended(l, o)
        BY <4>2 DEF Ended
      <4> QED
        BY Zenon, <3>1, <3>3, <4>3 DEF TableSays, l
    <3> QED
      BY Zenon, <3>2, <3>3
  <2>5. ASSUME reg.pc = "killing" PROVE Ended(lnk2[k], o)
    <3>1. /\ a.command.name = "client-kill" /\ a.command.key = k
          /\ Hits(link[k], o, a.command.id)
      BY Zenon, <2>1, <2>2, <2>5 DEF ForReg, Cut
    <3>2. CASE lnk2[k].state = "killed"
      BY <3>2 DEF Ended
    <3>3. CASE lnk2 = link /\ ~(link[k].id = a.command.id /\ Live(k))
      <4> DEFINE id == a.command.id
                 l == link[k]
      <4>1. /\ id \in Nat /\ o <= id /\ id <= l.id /\ o \in Nat /\ l.id \in Nat
            /\ l.id = o => l.state \notin {"asking", "admitted"}
            /\ l.state \in {"none", "asking", "admitted", "up", "renewing", "killed"}
            /\ l.id = id => l.state \notin {"up", "renewing"}
        BY <2>3, <3>1, <3>3 DEF Hits, Aimed, Links, Live
      <4> HIDE DEF id, l
      <4>2. Ended(l, o)
        BY <4>1 DEF Ended
      <4> QED
        BY Zenon, <3>3, <4>2 DEF l
    <3> QED
      BY Zenon, <1>1, <3>1, <3>2, <3>3
  <2> QED
    BY Zenon, <2>4, <2>5
<1>5. ASSUME NEW p \in DOMAIN lines2, Answer(pending, lines2, p, "reg")
      PROVE  /\ reg.pc = "asked" => TableSays(lnk2[k], k, o, lines2[p].rows)
             /\ reg.pc = "killing" => Ended(lnk2[k], o)
  <2>1. CASE Answer(pending, toNode, p, "reg") /\ lines2[p] = toNode[p]
    <3>1. p \in DOMAIN toNode
      BY Zenon, <2>1 DEF Answer
    <3> QED
      BY Zenon, <1>3, <2>1, <3>1 DEF Cut
  <2>2. CASE lines2[p] = a /\ \E i \in DOMAIN pending : pending[i].who = "reg" /\ pending[i].command = a.command
    <3>1. /\ reg.pc = "asked" => TableSays(lnk2[k], k, o, a.rows)
          /\ reg.pc = "killing" => Ended(lnk2[k], o)
      BY <1>4, <2>2
    <3> QED
      BY Zenon, <2>2, <3>1
  <2>3. \/ Answer(pending, toNode, p, "reg") /\ lines2[p] = toNode[p]
        \/ lines2[p] = a /\ \E i \in DOMAIN pending : pending[i].who = "reg" /\ pending[i].command = a.command
    BY ONLY Zenon, <1>5, NewAnswer(pending, toNode, a, lines2) DEF NewAnswer
  <2> QED
    BY <2>1, <2>2, <2>3
<1> QED
  BY Zenon, <1>3, <1>5 DEF Cut

\* The server carries out the first command and answers it.
LEMMA CommandWired ==
  ASSUME WInv, ServerCommand
  PROVE  WInv'
<1> USE DEF WInv
<1>1. /\ toServer' = Tail(toServer)
      /\ UNCHANGED <<kind, peers, auth, reg, call, gone, pending, decided>>
  BY Zenon, Commanded DEF history
<1>2. PICK a : /\ Answering(a)
               /\ \/ Unmoved(a, link', toNode')
                  \/ \E k, s : Turning(a, k, s, link', toNode')
  BY Zenon, Commanded
<1> DEFINE lines2 == Append(toNode, a)
<1>3. /\ Talk(pending, Tail(toServer), lines2, reg, call)
      /\ NewAnswer(pending, toNode, a, lines2)
  <2>1. a.command = Status => a.rows \in Tables
    BY Zenon, <1>2, TableType DEF Answering
  <2> QED
    BY Zenon, <1>2, <2>1, TalkReplied DEF Answering
<1>4. Calling' /\ Decided' /\ Registered'
  BY Zenon, <1>1, RegSame DEF Calling, Decided
<1>5. CASE Unmoved(a, link', toNode')
  <2>1. link' = link /\ toNode' = lines2 /\ Linked'
    BY Zenon, <1>1, <1>5 DEF Unmoved, Linked
  <2>2. link \in [Key -> Links] /\ \A k \in Key : MovesOn(link[k], link[k])
    BY Zenon, SameMoves DEF Linked
  <2> HIDE DEF lines2
  <2>3. Cut(reg, link, pending, lines2)
    BY Zenon, <1>2, <1>3, <1>5, <2>2, AnswerCuts DEF Unmoved
  <2> QED
    BY <1>1, <1>3, <1>4, <2>1, <2>3
<1>6. ASSUME NEW k, NEW s, Turning(a, k, s, link', toNode') PROVE WInv'
  <2> DEFINE lnk2 == [link EXCEPT ![k] = Turned(k, s)]
             l == Turned(k, s)
  <2>1. /\ link' = lnk2 /\ k \in Key /\ a.command.key = k /\ a.command.name # "status"
        /\ a.command.name = "client-kill" => s = "killed"
        /\ Turns(link[k].state, s) \/ (link[k].state = "renewing" /\ s = "none")
        /\ toNode' = lines2 \/ toNode' = Append(lines2, Event("DISCONNECT", k))
    BY Zenon, <1>6 DEF Turning
  <2>2. link[k] \in Links /\ LinkOk(link[k])
    BY Zenon, <2>1 DEF Linked
  <2>3. l \in Links /\ LinkOk(l) /\ MovesOn(link[k], l) /\ l.state = s
    BY <2>1, <2>2 DEF Turned, Turns, Links, LinkOk, MovesOn
  <2>4. Event("DISCONNECT", k) \in Events
    BY <2>1, <2>2 DEF Event, Events, Links
  <2> HIDE DEF l
  <2>5. LinkTo(k, l, lnk2)
    BY Zenon, <2>1, <2>3, LinkMoves DEF l
  <2> HIDE DEF lnk2, lines2
  <2>6. Linked'
    BY <1>1, <2>1, <2>5 DEF LinkTo, Linked
  <2>7. Cut(reg, lnk2, pending, lines2)
    <3>1. a.command # Status
      BY <2>1 DEF Status
    <3>2. /\ lnk2 \in [Key -> Links] /\ \A j \in Key : MovesOn(link[j], lnk2[j])
          /\ lnk2[k].state = s
      BY Zenon, <2>3, <2>5 DEF LinkTo
    <3> QED
      BY Zenon, <1>2, <1>3, <2>1, <3>1, <3>2, AnswerCuts
  <2>8. CASE toNode' = lines2
    BY <1>1, <1>3, <1>4, <2>1, <2>6, <2>7, <2>8
  <2>9. CASE toNode' = Append(lines2, Event("DISCONNECT", k))
    <3> DEFINE lines3 == Append(lines2, Event("DISCONNECT", k))
    <3>1. /\ Talk(pending, Tail(toServer), lines3, reg, call)
          /\ SameAnswers(pending, lines2, pending, lines3)
      BY Zenon, <1>3, <2>4, TalkNotified
    <3> HIDE DEF lines3
    <3>2. Cut(reg, lnk2, pending, lines3)
      <4>1. Traced(pending, lines2, pending, lines3, "reg")
        BY Zenon, <3>1, TracedAlike
      <4>2. lnk2 \in [Key -> Links] /\ \A j \in Key : MovesOn(lnk2[j], lnk2[j])
        BY Zenon, <2>5, SameMoves DEF LinkTo
      <4>3. reg.op = "remove" => reg.key \in Key
        BY Zenon, RegKey
      <4> QED
        BY Zenon, <2>7, <4>1, <4>2, <4>3, CutStays
    <3>3. toNode' = lines3
      BY Zenon, <2>9 DEF lines3
    <3> QED
      BY <1>1, <1>4, <2>1, <2>6, <3>1, <3>2, <3>3
  <2> QED
    BY Zenon, <2>1, <2>8, <2>9
<1> QED
  BY Zenon, <1>2, <1>5, <1>6

\* What Services' steps an OpenVPN node takes.
LEMMA SharedSteps ==
  ASSUME kind = "openvpn", Calling, ProxyNext
  PROVE  Put \/ Delete \/ \E k \in Key : Use(k)
<1>1. kind \notin {"v2ray", "xray", "hysteria"} /\ kind \notin Grpc
  BY DEF Grpc
<1>2. call.pc \notin {"iterating", "counters", "delta"}
  BY DEF Calling, NoCall
<1>3. ASSUME NEW k \in Key
      PROVE  /\ ~V2RayAddPeer(k) /\ ~V2RayRemovePeer(k) /\ ~GetStats(k)
             /\ ~XRayAddPeer(k) /\ ~XRayRemovePeer(k) /\ ~Connect(k)
             /\ ~HysteriaAddPeer(k) /\ ~HysteriaRemovePeer(k)
             /\ ~HandleAuth(k) /\ ~Establish(k) /\ ~Leave(k)
  BY <1>1, <1>2 DEF V2RayAddPeer, V2RayRemovePeer, GetStats, XRayAddPeer, XRayRemovePeer, Connect,
     HysteriaAddPeer, HysteriaRemovePeer, HandleAuth, Establish, Leave
<1>4. /\ ~V2RayPeers /\ ~V2RayItems /\ ~XRayPeers /\ ~XRayItems
      /\ ~HysteriaPeers /\ ~HysteriaItems /\ ~HysteriaKick
  BY <1>1, <1>2 DEF V2RayPeers, V2RayItems, XRayPeers, XRayItems, HysteriaPeers, HysteriaItems,
     HysteriaKick
<1> QED
  BY Zenon, <1>3, <1>4 DEF ProxyNext

\* No step breaks the invariant of OpenVPN.
LEMMA WiredKeeps ==
  ASSUME WInv, [Next]_vars
  PROVE  WInv'
<1>1. CASE UNCHANGED vars
  <2>1. UNCHANGED <<kind, peers, auth, reg, call, link, gone, pending, toServer, toNode, decided>>
    BY Zenon, <1>1 DEF vars, svars, node, daemon, history, wire
  <2>2. Registered'
    BY Zenon, <2>1, RegSame DEF WInv
  <2>3. Linked' /\ Calling' /\ Decided'
    BY Zenon, <2>1 DEF WInv, Linked, Calling, Decided
  <2> QED
    BY <2>1, <2>2, <2>3 DEF WInv
<1>2. ASSUME ProxyNext /\ UNCHANGED wire PROVE WInv'
  <2>1. Put \/ Delete \/ \E k \in Key : Use(k)
    BY Zenon, <1>2, SharedSteps DEF WInv
  <2> QED
    BY Zenon, <1>2, <2>1, PutWired, ClientWired
<1>3. ASSUME NEW k \in Clients, OpenVPNAddPeer(k) \/ OpenVPNRemovePeer(k)
                \/ ServerConnect(k) \/ ServerReauth(k) \/ ServerEnd(k)
      PROVE  WInv'
  BY Zenon, <1>3, AddWired, StrikeWired, ClientWired, ClientsAssumption
<1> QED
  BY Zenon, <1>1, <1>2, <1>3, KillWired, KillRowsWired, TimeoutWired, PeersWired, ReplyWired,
     LineWired, SendWired, CommandWired DEF Next, OpenVPNNext

\* It holds when OpenVPN starts.
LEMMA WiredInit ==
  ASSUME InitAll, kind = "openvpn"
  PROVE  WInv
<1>1. /\ peers = {} /\ auth = {} /\ reg = Idle /\ call = NoCall /\ link = [k \in Key |-> NoLink]
      /\ gone = Zero /\ pending = <<>> /\ toServer = <<>> /\ toNode = <<>> /\ decided = {}
  BY Zenon DEF InitAll, Init
<1>2. Registered /\ Calling /\ Decided
  BY <1>1, KindFacts DEF Registered, Calling, Decided, InStep, HasPeer
<1>3. Linked
  BY <1>1 DEF Linked, Links, NoLink, LinkOk, Ended, Zero
<1>4. /\ pending \in Seq(Waiters) /\ toServer \in Seq(Commands) /\ toNode \in Seq(Lines)
      /\ DOMAIN pending = {} /\ DOMAIN toServer = {} /\ DOMAIN toNode = {}
      /\ Len(pending) = 0 /\ Len(toServer) = 0 /\ Len(toNode) = 0
  BY <1>1
<1>5. ReplyCount(toNode, Len(toNode)) = 0 /\ 0 = 0 + 0
  BY <1>4, Counting1
<1>6. Talk(pending, toServer, toNode, reg, call)
  BY Zenon, <1>4, <1>5 DEF Talk, Queue, StatusRows, Waits
<1>7. reg.op # "remove"
  BY <1>1 DEF Idle
<1> QED
  BY Zenon, <1>2, <1>3, <1>6, <1>7 DEF WInv, Cut

-----------------------------------------------------------------------------
(* The other services beside it: nothing is on the wire, and a kick ends what *)
(* it finds up.                                                              *)

Unwired == pending = <<>> /\ toServer = <<>> /\ toNode = <<>> /\ decided = {}
Plain == \A k \in Key : link[k].state \notin {"asking", "renewing", "killed"}
Aiming == kind = "hysteria" /\ reg.op = "remove" => Aimed(link[reg.key], reg.open)

PInv == kind # "openvpn" /\ IInv /\ Unwired /\ Linked /\ Plain /\ Aiming

\* A proxy takes no step of OpenVPN.
LEMMA NoWire ==
  ASSUME PInv
  PROVE  ~OpenVPNNext
<1>1. kind # "openvpn" /\ Unwired /\ Registering /\ Reading
  BY Zenon DEF PInv, IInv
<1>2. call.pc \notin {"asked", "rows"}
  BY <1>1 DEF Reading, NoCall, Iterating, Counters, Delta
<1>3. ~(reg.op = "remove" /\ reg.pc \in {"asked", "rows", "killing"})
  BY <1>1 DEF Registering, Idle, Adding, Striking, Kicking
<1>4. ASSUME NEW k \in Clients
      PROVE  /\ ~OpenVPNAddPeer(k) /\ ~OpenVPNRemovePeer(k) /\ ~ServerConnect(k)
             /\ ~ServerReauth(k) /\ ~ServerEnd(k)
  BY Zenon, <1>1 DEF OpenVPNAddPeer, OpenVPNRemovePeer, ServerConnect, ServerReauth, ServerEnd
<1>5. ~Kill /\ ~KillRows /\ ~KillTimeout
  BY <1>1, <1>3 DEF Kill, KillRows, KillTimeout
<1>6. ~OpenVPNPeers /\ ~PeersTimeout /\ ~OpenVPNItems
  BY <1>1, <1>2 DEF OpenVPNPeers, PeersTimeout, OpenVPNItems
<1>7. ~ReadReply /\ ~FinishConnect /\ ~FinishDisconnect /\ ~ServerCommand
  BY Zenon, <1>1 DEF Unwired, ReadReply, FinishConnect, FinishDisconnect, ServerCommand
<1>8. decided = {}
  BY Zenon, <1>1 DEF Unwired
<1> QED
  BY <1>4, <1>5, <1>6, <1>7, <1>8 DEF OpenVPNNext

\* Steps that leave the connections alone, or carry one of them on.
Onward ==
  /\ link' \in [Key -> Links] /\ gone' = gone
  /\ \A k \in Key : /\ MovesOn(link[k], link'[k]) /\ LinkOk(link'[k])
                    /\ link'[k].state \notin {"asking", "renewing", "killed"}

\* Connections of a proxy go on.
LEMMA LinksGoOn ==
  ASSUME Linked, Plain, Onward
  PROVE  Linked' /\ Plain'
<1>1. ASSUME NEW k \in Key
      PROVE  LinkOk(link'[k]) /\ gone'[k] <= link'[k].id /\ Ended(link'[k], gone'[k])
  <2>1. /\ link[k] \in Links /\ link'[k] \in Links /\ MovesOn(link[k], link'[k])
        /\ gone[k] \in Nat /\ gone[k] <= link[k].id /\ Ended(link[k], gone[k])
        /\ LinkOk(link'[k]) /\ gone'[k] = gone[k]
    BY Zenon DEF Linked, Onward
  <2>2. Ended(link'[k], gone[k])
    BY Zenon, <2>1, EndedStays
  <2>3. gone[k] <= link'[k].id
    BY <2>1 DEF Links, MovesOn
  <2> QED
    BY Zenon, <2>1, <2>2, <2>3
<1> QED
  BY Zenon, <1>1 DEF Linked, Plain, Onward

\* Where nothing the invariant speaks of changes.
LEMMA Untouched ==
  ASSUME Linked, Plain, UNCHANGED <<link, gone>>
  PROVE  Onward
BY Zenon, SameMoves DEF Linked, Plain, Onward

\* What a removal from a proxy cuts off stays cut off.
LEMMA AimGoesOn ==
  ASSUME Registering, Aiming, Linked, Onward, UNCHANGED <<kind, reg>>
  PROVE  Aiming'
<1> SUFFICES ASSUME kind = "hysteria", reg.op = "remove" PROVE Aimed(link'[reg.key], reg.open)
  BY Zenon DEF Aiming
<1>1. reg.key \in Key
  BY DEF Registering, Idle, Adding, Striking, Kicking
<1>2. /\ link[reg.key] \in Links /\ link'[reg.key] \in Links
      /\ MovesOn(link[reg.key], link'[reg.key]) /\ Aimed(link[reg.key], reg.open)
  BY Zenon, <1>1 DEF Linked, Onward, Aiming
<1> QED
  BY Zenon, <1>2, AimedStays

\* One key's connection changes.
LEMMA LinkOnward ==
  ASSUME Linked, Plain, gone' = gone, NEW k \in Key, NEW l \in Links, link' = [link EXCEPT ![k] = l],
         MovesOn(link[k], l), LinkOk(l), l.state \notin {"asking", "renewing", "killed"}
  PROVE  Onward
<1>1. /\ link \in [Key -> Links] /\ \A j \in Key : LinkOk(link[j])
      /\ \A j \in Key : link[j].state \notin {"asking", "renewing", "killed"}
  BY Zenon DEF Linked, Plain
<1>2. \A j \in Key : link'[j] = IF j = k THEN l ELSE link[j]
  BY Zenon, <1>1
<1>3. link' \in [Key -> Links]
  BY Zenon, <1>1
<1> QED
  BY Zenon, <1>1, <1>2, <1>3, SameMoves DEF Onward

\* Clients come, move bytes and leave.
LEMMA ClientOnward ==
  ASSUME PInv, NEW k \in Key, Connect(k) \/ HandleAuth(k) \/ Establish(k) \/ Leave(k) \/ Use(k)
  PROVE  Onward /\ UNCHANGED <<kind, reg>>
<1> DEFINE n == link[k].id
           b == link[k].bytes
<1>1. Linked /\ Plain /\ link \in [Key -> Links] /\ n \in Nat /\ b \in Nat /\ LinkOk(link[k])
  BY DEF PInv, Linked, Links
<1>2. UNCHANGED <<kind, reg, gone>>
  BY Zenon DEF Connect, HandleAuth, Establish, Leave, Use, node, history
<1>3. CASE Connect(k) \/ HandleAuth(k)
  <2>0. PICK s \in {"up", "admitted"} :
          link' = [link EXCEPT ![k] = [state |-> s, id |-> n + 1, bytes |-> 0]]
    BY <1>3 DEF Connect, HandleAuth
  <2> DEFINE l == [state |-> s, id |-> n + 1, bytes |-> 0]
  <2>1. l \in Links /\ LinkOk(l) /\ MovesOn(link[k], l)
    BY <1>1 DEF Links, LinkOk, MovesOn
  <2>2. link' = [link EXCEPT ![k] = l] /\ l.state \notin {"asking", "renewing", "killed"}
    BY <2>0
  <2> QED
    BY Zenon, <1>1, <1>2, <2>1, <2>2, LinkOnward
<1>4. CASE Establish(k)
  <2> DEFINE l == [state |-> "up", id |-> n, bytes |-> b]
  <2>0. link[k].state = "admitted" /\ link' = [link EXCEPT ![k].state = "up"]
    BY Zenon, <1>4 DEF Establish
  <2>1. l \in Links /\ LinkOk(l) /\ MovesOn(link[k], l)
    BY <1>1, <2>0 DEF Links, LinkOk, MovesOn
  <2>2. link' = [link EXCEPT ![k] = l] /\ l.state \notin {"asking", "renewing", "killed"}
    <3>1. [link[k] EXCEPT !.state = "up"] = l
      BY <1>1 DEF Links
    <3>2. link' = [link EXCEPT ![k] = [link[k] EXCEPT !.state = "up"]]
      BY Zenon, <2>0
    <3> QED
      BY <3>1, <3>2
  <2> QED
    BY Zenon, <1>1, <1>2, <2>1, <2>2, LinkOnward
<1>5. CASE Leave(k)
  <2> DEFINE l == [state |-> "none", id |-> n, bytes |-> b]
  <2>0. link' = [link EXCEPT ![k].state = "none"]
    BY Zenon, <1>5 DEF Leave
  <2>1. l \in Links /\ LinkOk(l) /\ MovesOn(link[k], l)
    BY <1>1 DEF Links, LinkOk, MovesOn
  <2>2. link' = [link EXCEPT ![k] = l] /\ l.state \notin {"asking", "renewing", "killed"}
    <3>1. [link[k] EXCEPT !.state = "none"] = l
      BY <1>1 DEF Links
    <3>2. link' = [link EXCEPT ![k] = [link[k] EXCEPT !.state = "none"]]
      BY Zenon, <2>0
    <3> QED
      BY <3>1, <3>2
  <2> QED
    BY Zenon, <1>1, <1>2, <2>1, <2>2, LinkOnward
<1>6. CASE Use(k)
  <2> DEFINE l == [state |-> link[k].state, id |-> n, bytes |-> b + 1]
  <2>0. link' = [link EXCEPT ![k].bytes = @ + 1] /\ link[k].state \in {"up", "renewing"}
    BY Zenon, <1>6 DEF Use, Live
  <2>1. l \in Links /\ LinkOk(l) /\ MovesOn(link[k], l)
    BY <1>1, <2>0 DEF Links, LinkOk, MovesOn
  <2>2. link' = [link EXCEPT ![k] = l] /\ l.state \notin {"asking", "renewing", "killed"}
    <3>1. [link[k] EXCEPT !.bytes = @ + 1] = l
      BY <1>1 DEF Links
    <3>2. link' = [link EXCEPT ![k] = [link[k] EXCEPT !.bytes = @ + 1]]
      BY Zenon, <2>0
    <3>3. link[k].state \notin {"asking", "renewing", "killed"}
      BY Zenon, <1>1 DEF Plain
    <3> QED
      BY <3>1, <3>2, <3>3
  <2> QED
    BY Zenon, <1>1, <1>2, <2>1, <2>2, LinkOnward
<1> QED
  BY Zenon, <1>2, <1>3, <1>4, <1>5, <1>6

\* A kick that is answered has ended what it found.
LEMMA KickEnds ==
  ASSUME PInv, HysteriaKick
  PROVE  Linked' /\ Plain' /\ Aiming'
<1> DEFINE k == reg.key
           n == link[k].id
           b == link[k].bytes
           cut == IF link[k].state = "up" THEN [link EXCEPT ![k].state = "none"] ELSE link
           l == IF link[k].state = "up" THEN [state |-> "none", id |-> n, bytes |-> b] ELSE link[k]
<1>1. /\ reg' = Idle /\ kind' = kind /\ kind = "hysteria" /\ reg.op = "remove"
      /\ \/ link' = cut /\ gone' = [gone EXCEPT ![k] = reg.open]
         \/ link' \in {link, cut} /\ UNCHANGED gone
  BY Zenon DEF HysteriaKick
<1>2. k \in Key /\ Linked /\ Plain /\ Aimed(link[k], reg.open)
  BY <1>1 DEF PInv, IInv, Registering, Idle, Adding, Striking, Kicking, Aiming
<1>3. /\ link \in [Key -> Links] /\ gone \in [Key -> Nat] /\ n \in Nat /\ b \in Nat /\ LinkOk(link[k])
      /\ link[k].state \in {"none", "admitted", "up"}
  BY <1>2 DEF Linked, Links, Plain
<1>4. /\ l \in Links /\ LinkOk(l) /\ MovesOn(link[k], l) /\ cut = [link EXCEPT ![k] = l]
      /\ l.state \notin {"asking", "renewing", "killed"}
  <2>1. CASE link[k].state = "up"
    <3>1. l = [state |-> "none", id |-> n, bytes |-> b] /\ l = [link[k] EXCEPT !.state = "none"]
      BY <1>2, <1>3, <2>1 DEF Links
    <3>2. cut = [link EXCEPT ![k] = [link[k] EXCEPT !.state = "none"]]
      BY Zenon, <2>1
    <3> HIDE DEF l, cut
    <3>3. l \in Links /\ LinkOk(l) /\ MovesOn(link[k], l) /\ l.state \notin {"asking", "renewing", "killed"}
      BY <1>3, <2>1, <3>1 DEF Links, LinkOk, MovesOn
    <3> QED
      BY <3>1, <3>2, <3>3
  <2>2. CASE link[k].state # "up"
    <3>1. l = link[k] /\ cut = link /\ link[k] \in Links
      BY Zenon, <1>2, <1>3, <2>2
    <3> HIDE DEF l, cut
    <3>2. link = [link EXCEPT ![k] = link[k]]
      BY Zenon, <1>2, <1>3
    <3>3. l.state \notin {"asking", "renewing", "killed"}
      BY Zenon, <1>2, <3>1 DEF Plain
    <3> QED
      BY <1>3, <3>1, <3>2, <3>3, SameMoves
  <2> QED
    BY Zenon, <2>1, <2>2
<1>5. Ended(l, reg.open) /\ reg.open \in Nat /\ reg.open <= l.id
  BY <1>2, <1>3 DEF Aimed, Ended
<1> HIDE DEF cut, l, n, b
<1>6. Aiming'
  BY <1>1 DEF Aiming, Idle
<1>7. ASSUME link' = cut, gone' = [gone EXCEPT ![k] = reg.open] PROVE Linked' /\ Plain'
  <2>1. \A j \in Key : /\ link'[j] = IF j = k THEN l ELSE link[j]
                       /\ gone'[j] = IF j = k THEN reg.open ELSE gone[j]
    BY Zenon, <1>3, <1>4, <1>7
  <2>2. link' \in [Key -> Links] /\ gone' \in [Key -> Nat]
    BY Zenon, <1>3, <1>4, <1>5, <1>7
  <2> QED
    BY Zenon, <1>2, <1>4, <1>5, <2>1, <2>2 DEF Linked, Plain
<1>8. ASSUME link' \in {link, cut}, gone' = gone PROVE Linked' /\ Plain'
  <2>1. Onward
    BY Zenon, <1>2, <1>4, <1>8, LinkOnward, Untouched
  <2> QED
    BY Zenon, <1>2, <2>1, LinksGoOn
<1> QED
  BY Zenon, <1>1, <1>6, <1>7, <1>8

\* What AddPeer and RemovePeer aim at, up to the kick.
LEMMA AimTaken ==
  ASSUME PInv, link' = link, kind' = kind,
         \/ reg' = reg \/ reg' = Idle
         \/ \E k \in Key : HysteriaRemovePeer(k)
         \/ kind # "hysteria" \/ reg'.op = "add"
         \/ reg.op = "remove" /\ reg' = Removing(reg.key, "kick", reg.open)
  PROVE  Aiming'
<1>1. CASE reg' = reg
  BY Zenon, <1>1 DEF PInv, Aiming
<1>2. CASE reg' = Idle \/ kind # "hysteria" \/ reg'.op = "add"
  BY <1>2 DEF Aiming, Idle
<1>3. ASSUME NEW k \in Key, HysteriaRemovePeer(k) PROVE Aiming'
  <2>1. reg' = Removing(k, "delete", IF Live(k) THEN link[k].id ELSE 0)
    BY Zenon, <1>3 DEF HysteriaRemovePeer, Strike
  <2>2. link[k] \in Links /\ LinkOk(link[k])
    BY Zenon DEF PInv, Linked
  <2>3. Aimed(link[k], IF Live(k) THEN link[k].id ELSE 0)
    BY <2>2 DEF Links, LinkOk, Aimed, Live
  <2> QED
    BY <2>1, <2>3 DEF Aiming, Removing
<1>4. CASE reg.op = "remove" /\ reg' = Removing(reg.key, "kick", reg.open)
  BY <1>4 DEF PInv, Aiming, Removing
<1> QED
  BY Zenon, <1>1, <1>2, <1>3, <1>4

\* No step of a proxy breaks what is said of its connections.
LEMMA ProxyLinks ==
  ASSUME PInv, [ProxyNext]_svars
  PROVE  Linked' /\ Plain' /\ Aiming'
<1>0. Linked /\ Plain /\ Aiming /\ Registering
  BY Zenon DEF PInv, IInv
<1>1. ASSUME Onward, UNCHANGED <<kind, reg>> PROVE Linked' /\ Plain' /\ Aiming'
  BY Zenon, <1>0, <1>1, LinksGoOn, AimGoesOn
<1>2. ASSUME UNCHANGED <<link, gone>>, Aiming' PROVE Linked' /\ Plain' /\ Aiming'
  BY Zenon, <1>0, <1>2, LinksGoOn, Untouched
<1>3. CASE UNCHANGED svars
  <2>1. UNCHANGED <<kind, reg, link, gone>>
    BY Zenon, <1>3 DEF svars, node, daemon, history
  <2> QED
    BY Zenon, <1>0, <1>1, <2>1, Untouched
<1>4. ASSUME NEW k \in Key,
             V2RayAddPeer(k) \/ V2RayRemovePeer(k) \/ XRayAddPeer(k) \/ XRayRemovePeer(k)
      PROVE  Linked' /\ Plain' /\ Aiming'
  <2>1. kind # "hysteria" /\ UNCHANGED <<kind, link, gone>>
    BY <1>4 DEF V2RayAddPeer, V2RayRemovePeer, XRayAddPeer, XRayRemovePeer, AddUser, RemoveUser
  <2> QED
    BY Zenon, <1>2, <2>1, AimTaken
<1>5. ASSUME NEW k \in Key, HysteriaAddPeer(k) \/ HysteriaRemovePeer(k)
      PROVE  Linked' /\ Plain' /\ Aiming'
  <2>1. /\ UNCHANGED <<kind, link, gone>>
        /\ reg' = [op |-> "add", key |-> k, pc |-> "put"] \/ HysteriaRemovePeer(k)
    BY Zenon, <1>5 DEF HysteriaAddPeer, HysteriaRemovePeer, Strike, daemon
  <2>2. reg'.op = "add" \/ HysteriaRemovePeer(k)
    BY <2>1
  <2> QED
    BY Zenon, <1>2, <2>1, <2>2, AimTaken
<1>6. CASE Put \/ Delete
  <2>1. /\ UNCHANGED <<kind, link, gone>>
        /\ reg' = Idle \/ (reg.op = "remove" /\ reg' = Removing(reg.key, "kick", reg.open))
    BY Zenon, <1>6 DEF Put, Delete, daemon
  <2> QED
    BY Zenon, <1>2, <2>1, AimTaken
<1>7. ASSUME (\E k \in Key : GetStats(k)) \/ V2RayPeers \/ V2RayItems \/ XRayPeers \/ XRayItems
               \/ HysteriaPeers \/ HysteriaItems
      PROVE  Linked' /\ Plain' /\ Aiming'
  <2>1. UNCHANGED <<kind, reg, link, gone>>
    BY Zenon, <1>7 DEF GetStats, V2RayPeers, V2RayItems, XRayPeers, XRayItems, HysteriaPeers,
       HysteriaItems, daemon
  <2> QED
    BY Zenon, <1>0, <1>1, <2>1, Untouched
<1> QED
  BY Zenon, <1>1, <1>3, <1>4, <1>5, <1>6, <1>7, ClientOnward, KickEnds DEF ProxyNext

-----------------------------------------------------------------------------
(* Every service.                                                            *)

FullInv == WInv \/ PInv

\* The invariant of both holds in the beginning.
LEMMA FullInit == InitAll => FullInv
<1> SUFFICES ASSUME InitAll PROVE FullInv
  OBVIOUS
<1>1. ASSUME kind # "openvpn" PROVE PInv
  <2>1. Init /\ Unwired
    BY Zenon DEF InitAll, Unwired
  <2>2. IInv
    BY Zenon, <2>1, InitKeeps
  <2>3. link = [k \in Key |-> NoLink] /\ gone = Zero /\ reg = Idle
    BY Zenon, <2>1 DEF Init
  <2>4. Linked /\ Plain
    BY <2>3 DEF Linked, Links, NoLink, LinkOk, Ended, Zero, Plain
  <2>5. Aiming
    BY <2>3 DEF Aiming, Idle
  <2> QED
    BY Zenon, <1>1, <2>1, <2>2, <2>4, <2>5 DEF PInv
<1> QED
  BY Zenon, <1>1, WiredInit DEF FullInv

\* No step breaks the invariant of a proxy.
LEMMA PlainKeeps ==
  ASSUME PInv, [Next]_vars
  PROVE  PInv' /\ [ProxyNext]_svars
<1>1. ~OpenVPNNext
  BY Zenon, NoWire
<1>2. [ProxyNext]_svars /\ UNCHANGED wire
  BY Zenon, <1>1 DEF Next, vars
<1>3. Unwired' /\ IInv'
  BY Zenon, <1>2, ProxyKeeps DEF PInv, Unwired, wire
<1>4. kind' = kind
  BY Zenon, <1>2 DEF ProxyNext, svars, V2RayAddPeer, V2RayRemovePeer, GetStats, XRayAddPeer,
     XRayRemovePeer, Connect, HysteriaAddPeer, HysteriaRemovePeer, HandleAuth, Establish, Use,
     Leave, Put, Delete, V2RayPeers, V2RayItems, XRayPeers, XRayItems, HysteriaPeers,
     HysteriaItems, HysteriaKick, AddUser, RemoveUser, Strike
<1>5. Linked' /\ Plain' /\ Aiming'
  BY Zenon, <1>2, ProxyLinks
<1> QED
  BY Zenon, <1>2, <1>3, <1>4, <1>5 DEF PInv

(* In every reachable state of a node with any of the four services, one of   *)
(* the two invariants holds: what is on OpenVPN's management connection, or   *)
(* what the proxies' books and connections say.                               *)
THEOREM Invariance == Spec => []FullInv
<1>1. FullInv /\ [Next]_vars => FullInv'
  BY Zenon, WiredKeeps, PlainKeeps DEF FullInv
<1> QED
  BY <1>1, FullInit, PTL DEF Spec

(* No call to AddPeer or RemovePeer, with the daemon of any of the four        *)
(* services, leaves the node's list of peers out of step with what the daemon *)
(* admits, whatever the server, the clients and the readings do in between.   *)
THEOREM AllInStep == Spec => []InStep
<1>1. FullInv => InStep
  BY Zenon DEF FullInv, WInv, PInv, Registered, IInv
<1> QED
  BY <1>1, Invariance, PTL

(* The connection that was open when RemovePeer began carries nothing once    *)
(* the call returns: Hysteria's kick, and OpenVPN's client-kill with the id   *)
(* found in the table it asked for, have ended it or it had already gone.     *)
THEOREM RemovedAreCutOff == Spec => []CutOff
<1>1. ASSUME FullInv PROVE CutOff
  <2> SUFFICES ASSUME NEW k \in Key, Live(k), link[k].id = gone[k] PROVE FALSE
    BY Zenon DEF CutOff
  <2>1. link[k] \in Links /\ Ended(link[k], gone[k])
    BY Zenon, <1>1 DEF FullInv, WInv, PInv, Linked
  <2> QED
    BY <2>1 DEF Ended, Live, Links
<1> QED
  BY <1>1, Invariance, PTL

(* The management interface's replies meet the waiters of their own commands, *)
(* in order, however many commands are under way and given up on.             *)
THEOREM EveryReplyMatched == Spec => []RepliesMatched
<1>1. ASSUME WInv PROVE RepliesMatched
  BY Zenon, <1>1 DEF WInv, Talk, Queue, RepliesMatched
<1>2. ASSUME PInv PROVE RepliesMatched
  <2>1. pending = <<>> /\ toServer = <<>> /\ toNode = <<>>
    BY Zenon, <1>2 DEF PInv, Unwired
  <2>2. /\ DOMAIN toNode = {} /\ DOMAIN toServer = {} /\ Len(toNode) = 0 /\ Len(pending) = 0
        /\ Len(toServer) = 0
    BY <2>1
  <2>3. ReplyCount(toNode, Len(toNode)) = 0 /\ 0 = 0 + 0
    BY <2>2, Counting1
  <2> QED
    BY Zenon, <2>2, <2>3 DEF RepliesMatched
<1>3. FullInv => RepliesMatched
  BY Zenon, <1>1, <1>2 DEF FullInv
<1> QED
  BY <1>3, Invariance, PTL
=============================================================================
