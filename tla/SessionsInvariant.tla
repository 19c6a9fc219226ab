------------------------- MODULE SessionsInvariant --------------------------
(***************************************************************************)
(* Every step keeps the invariant of Sessions: first its types and what    *)
(* the handlers and the update job know of their own progress, then the    *)
(* count of peers, the uniqueness of keys and the one-peer rule, group of  *)
(* steps by group of steps.                                                *)
(***************************************************************************)
EXTENDS Sessions, FiniteSetTheorems, TLAPS

-----------------------------------------------------------------------------
(* Facts about the types.                                                  *)

\* Sums and limits of byte pairs stay natural numbers.
LEMMA BytesFacts ==
  /\ Zero \in Bytes
  /\ \A a, b \in Bytes : Plus(a, b) \in Bytes
  /\ \A a \in Bytes : Total(a) \in Nat
BY DEF Zero, Bytes, Plus, Total

\* The idle states of the handlers and the jobs are states of theirs.
LEMMA IdleFacts ==
  /\ NoRequest \in Request
  /\ IdleSet \in SetState
  /\ IdleUpdate \in UpdateState
  /\ NoTx \in Tx
BY Zenon, BytesFacts DEF NoRequest, Request, IdleSet, SetState, IdleUpdate,
   UpdateState, NoTx, Tx

\* A transaction applied to the chain leaves well-formed session records.
LEMMA UpdateSessionsType ==
  ASSUME TypeOK, NEW tx \in Tx, NEW ok \in BOOLEAN, UpdateSessions(tx, ok)
  PROVE  /\ chain' \in [Session -> [status: Status, bytes: Bytes]]
         /\ late' \in Tx
BY IdleFacts DEF TypeOK, UpdateSessions, Applied, Tx

\* Removing peers leaves a well-formed service.
LEMMA RemovePeersType ==
  ASSUME TypeOK, NEW K, RemovePeers(K)
  PROVE  /\ peer' \in [Key -> Peer \cup {None}]
         /\ orphans' \in SUBSET Key
         /\ Peers' = Peers \ K
BY Zenon DEF TypeOK, RemovePeers, Peers

\* A handler that leaves is idle and forgets its request.
LEMMA LeaveType ==
  ASSUME TypeOK, NEW h \in Handler, Leave(h)
  PROVE  pc' \in [Handler -> HandlerPc] /\ req' \in [Handler -> Request]
BY Zenon, IdleFacts DEF TypeOK, Leave, HandlerPc

-----------------------------------------------------------------------------
(* Types, and what the handlers and the update job know.                   *)

\* The first state is well-formed.
LEMMA ShapeInit == Init => Shape
<1> SUFFICES ASSUME Init PROVE Shape
  OBVIOUS
<1>1. TypeOK
  BY IdleFacts, BytesFacts, SessionsAssumption
     DEF Init, TypeOK, Status, HandlerPc
<1>2. HandlersNamed
  BY Zenon, <1>1 DEF Init, HandlersNamed
<1>3. UpdateShape
  BY Zenon DEF Init, UpdateShape, IdleUpdate
<1> QED
  BY Zenon, <1>1, <1>2, <1>3 DEF Shape

\* The counters a peer is added with.
LEMMA AddedBytes ==
  ASSUME TypeOK, NEW k \in Key,
         NEW b \in {Zero} \cup {peer[x].bytes : x \in Peers \cap {k}}
  PROVE  b \in Bytes
BY Zenon, BytesFacts DEF Peers, Peer, TypeOK

\* The handlers' steps keep the types.
LEMMA HandlerType ==
  ASSUME Shape, NEW h \in Handler, HandlerNext(h)
  PROVE  TypeOK'
<1> USE SessionsAssumption DEF Shape, chainVars, history
<1>1. CASE Begin(h)
  <2> PICK ask \in Asks :
        req' = [req EXCEPT ![h] = [NoRequest EXCEPT !.s = ask[1], !.k = ask[2]]]
    BY Zenon, <1>1 DEF Begin
  <2>1. [NoRequest EXCEPT !.s = ask[1], !.k = ask[2]] \in Request
    BY Zenon, BytesFacts DEF NoRequest, Request
  <2>2. req' \in [Handler -> Request]
    BY Zenon, <2>1 DEF TypeOK
  <2>3. pc' \in [Handler -> HandlerPc]
    BY Zenon, <1>1 DEF Begin, TypeOK, HandlerPc
  <2> QED
    BY Zenon, <1>1, <2>2, <2>3 DEF Begin, TypeOK
<1>2. CASE QuerySession(h)
  <2> DEFINE s == req[h].s
             left == IF MaxBytes[s] > 0
                       THEN MaxBytes[s] - Total(chain[s].bytes) ELSE 0
  <2>1. s \in Session /\ req[h].k \in Key
    BY Zenon, <1>2 DEF QuerySession, HandlersNamed
  <2>2. CASE Leave(h)
    BY Zenon, <1>2, <2>2, LeaveType DEF QuerySession, TypeOK
  <2>3. CASE ~Leave(h)
    <3>1. /\ MaxBytes[s] > 0 => Total(chain[s].bytes) < MaxBytes[s]
          /\ pc' = [pc EXCEPT ![h] = IF SubOf[s] = 0 THEN "lock" ELSE "plan"]
          /\ req' = [req EXCEPT ![h] =
               [s |-> s, k |-> req[h].k, base |-> chain[s].bytes,
                utilised |-> 0, left |-> left]]
      BY Zenon, <1>2, <2>3 DEF QuerySession
    <3>2. chain[s].bytes \in Bytes /\ Total(chain[s].bytes) \in Nat
      BY Zenon, <2>1, BytesFacts DEF TypeOK
    <3>3. left \in Nat
      BY SMTT(30), <2>1, <3>1, <3>2
    <3> HIDE DEF left
    <3>4. req' \in [Handler -> Request]
      BY Zenon, <2>1, <3>1, <3>2, <3>3 DEF TypeOK, Request
    <3>5. pc' \in [Handler -> HandlerPc]
      BY Zenon, <3>1 DEF TypeOK, HandlerPc
    <3> QED
      BY Zenon, <1>2, <3>4, <3>5 DEF QuerySession, TypeOK
  <2> QED
    BY Zenon, <2>2, <2>3
<1>3. CASE QueryPlan(h)
  <2>1. CASE Leave(h)
    BY Zenon, <1>3, <2>1, LeaveType DEF QueryPlan, TypeOK
  <2>2. CASE ~Leave(h)
    <3>1. PICK utilised \in 0..Granted :
            req' = [req EXCEPT ![h].utilised = utilised]
      BY Zenon, <1>3, <2>2 DEF QueryPlan
    <3>2. req' \in [Handler -> Request]
      <4>1. utilised \in Nat
        OBVIOUS
      <4> QED
        BY ZenonT(60), <3>1, <4>1 DEF TypeOK, Request
    <3>3. pc' \in [Handler -> HandlerPc]
      BY Zenon, <1>3, <2>2 DEF QueryPlan, TypeOK, HandlerPc
    <3> QED
      BY Zenon, <1>3, <3>2, <3>3 DEF QueryPlan, TypeOK
  <2> QED
    BY Zenon, <2>1, <2>2
<1>4. CASE Lock(h)
  <2>1. lock' \in Handler \cup {"set", None}
    BY Zenon, <1>4 DEF Lock, TypeOK
  <2>2. peer' \in [Key -> Peer \cup {None}] /\ orphans' \in SUBSET Key
    BY Zenon, <1>4, RemovePeersType DEF Lock, TypeOK
  <2>3. pc' \in [Handler -> HandlerPc] /\ req' \in [Handler -> Request]
    <3>1. CASE Leave(h)
      BY Zenon, <3>1, LeaveType
    <3>2. CASE ~Leave(h)
      <4>1. PICK left \in Available(h) :
              /\ pc' = [pc EXCEPT ![h] = "add"]
              /\ req' = [req EXCEPT ![h].left = left]
        BY Zenon, <1>4, <3>2 DEF Lock
      <4>2. left \in Nat
        BY DEF Available, TypeOK, Request
      <4> QED
        BY ZenonT(60), <4>1, <4>2 DEF TypeOK, HandlerPc, Request
    <3> QED
      BY Zenon, <3>1, <3>2
  <2> QED
    BY Zenon, <1>4, <2>1, <2>2, <2>3 DEF Lock, TypeOK
<1>5. CASE AddPeer(h)
  <2>1. lock' \in Handler \cup {"set", None} /\ orphans' \in SUBSET Key
    BY Zenon, <1>5 DEF AddPeer, TypeOK
  <2>2. pc' \in [Handler -> HandlerPc] /\ req' \in [Handler -> Request]
    BY Zenon, <1>5, LeaveType DEF AddPeer, TypeOK, HandlerPc
  <2>3. req[h].s \in Session /\ req[h].k \in Key
    BY Zenon, <1>5 DEF AddPeer, HandlersNamed
  <2>4. peer' \in [Key -> Peer \cup {None}]
    <3>1. CASE UNCHANGED peer
      BY Zenon, <3>1 DEF TypeOK
    <3>2. CASE ~UNCHANGED peer
      <4>1. PICK b \in {Zero} \cup {peer[x].bytes : x \in Peers \cap {req[h].k}} :
              peer' = [peer EXCEPT ![req[h].k] = [s |-> req[h].s, bytes |-> b]]
        BY Zenon, <1>5, <3>2 DEF AddPeer
      <4>2. [s |-> req[h].s, bytes |-> b] \in Peer
        BY Zenon, <2>3, AddedBytes DEF Peer
      <4> QED
        BY Zenon, <4>1, <4>2 DEF TypeOK
    <3> QED
      BY Zenon, <3>1, <3>2
  <2> QED
    BY Zenon, <1>5, <2>1, <2>2, <2>4 DEF AddPeer, TypeOK
<1>6. CASE CreateRow(h)
  <2>1. pc' \in [Handler -> HandlerPc] /\ req' \in [Handler -> Request]
    BY Zenon, <1>6, LeaveType DEF CreateRow
  <2>2. req[h].s \in Session /\ req[h].k \in Key
    BY Zenon, <1>6 DEF CreateRow, HandlersNamed
  <2>3. peer' \in [Key -> Peer \cup {None}] /\ orphans' \in SUBSET Key
    BY Zenon, <1>6, <2>2, RemovePeersType DEF CreateRow, TypeOK
  <2>4. row' \in [Session -> Row \cup {None}]
    <3> DEFINE r == [key |-> req[h].k, available |-> req[h].left, base |-> req[h].base,
                     bytes |-> req[h].base]
    <3>1. row' = row \/ row' = [row EXCEPT ![req[h].s] = r]
      BY Zenon, <1>6 DEF CreateRow
    <3>2. row \in [Session -> Row \cup {None}] /\ req[h] \in Request
      BY Zenon DEF TypeOK
    <3>3. r \in Row
      BY ONLY Zenon, <2>2, <3>2 DEF Row, Request
    <3> HIDE DEF r
    <3> QED
      BY ONLY Zenon, <3>1, <3>2, <3>3
  <2> QED
    BY Zenon, <1>6, <2>1, <2>3, <2>4 DEF CreateRow, TypeOK
<1> QED
  BY Zenon, <1>1, <1>2, <1>3, <1>4, <1>5, <1>6 DEF HandlerNext

\* Counting one unit of traffic keeps the types.
LEMMA TrafficType ==
  ASSUME Shape, NEW k \in Key, Traffic(k)
  PROVE  TypeOK'
<1> USE DEF Shape
<1>1. PICK unit \in {[up |-> 1, down |-> 0], [up |-> 0, down |-> 1]} :
        /\ peer' = [peer EXCEPT ![k].bytes = Plus(@, unit)]
        /\ used' = [used EXCEPT ![peer[k].s] = Plus(@, unit)]
  BY Zenon DEF Traffic
<1>2. unit \in Bytes
  BY DEF Bytes
<1>3. peer[k] \in Peer
  BY Zenon DEF Traffic, Peers, TypeOK
<1>4. peer' \in [Key -> Peer \cup {None}]
  <2>1. Plus(peer[k].bytes, unit) \in Bytes
    BY Zenon, <1>2, <1>3, BytesFacts DEF Peer
  <2> HIDE DEF Plus
  <2> QED
    BY Zenon, <1>1, <1>3, <2>1 DEF TypeOK, Peer
<1>5. used' \in [Session -> Bytes]
  <2>1. peer[k].s \in Session
    BY Zenon, <1>3 DEF Peer
  <2>2. Plus(used[peer[k].s], unit) \in Bytes
    BY Zenon, <1>2, <2>1, BytesFacts DEF TypeOK
  <2> QED
    BY Zenon, <1>1, <2>1, <2>2 DEF TypeOK
<1> QED
  BY Zenon, <1>4, <1>5 DEF Traffic, TypeOK, chainVars, handlers

\* The steps of set_sessions keep the types.
LEMMA SetType ==
  ASSUME Shape, SetNext
  PROVE  TypeOK'
<1> USE SessionsAssumption DEF Shape, chainVars, handlers, history
<1>1. CASE ReadPeers
  BY Zenon, <1>1 DEF ReadPeers, TypeOK, SetState, Peer, Peers
<1>2. CASE LockSet
  BY Zenon, <1>2 DEF LockSet, TypeOK, SetState
<1>3. ASSUME NEW k \in Key, SetPeer(k) PROVE TypeOK'
  <2>1. set' \in SetState
    BY Zenon, <1>3 DEF SetPeer, TypeOK, SetState
  <2>2. peer' \in [Key -> Peer \cup {None}] /\ orphans' \in SUBSET Key
    BY Zenon, <1>3, RemovePeersType DEF SetPeer, TypeOK
  <2>3. row' \in [Session -> Row \cup {None}]
    <3>1. CASE UNCHANGED row
      BY Zenon, <3>1 DEF TypeOK
    <3>2. CASE ~UNCHANGED row
      <4>1. PICK s \in Stored :
              row' = [row EXCEPT ![s].bytes = ReportedUsage(row[s], set.peers[k])]
        BY Zenon, <1>3, <3>2 DEF SetPeer
      <4>2. s \in Session /\ row[s] \in Row
        BY Zenon DEF Stored, TypeOK
      <4>3. set.peers[k] \in Bytes
        BY Zenon, <1>3 DEF SetPeer, TypeOK, SetState
      <4>4. ReportedUsage(row[s], set.peers[k]) \in Bytes
        BY Zenon, <4>2, <4>3, BytesFacts DEF ReportedUsage, Row
      <4> QED
        BY Zenon, <4>1, <4>2, <4>4 DEF TypeOK, Row
    <3> QED
      BY Zenon, <3>1, <3>2
  <2> QED
    BY Zenon, <1>3, <2>1, <2>2, <2>3 DEF SetPeer, TypeOK
<1>4. CASE UnlockSet
  BY Zenon, <1>4, IdleFacts DEF UnlockSet, TypeOK
<1> QED
  BY Zenon, <1>1, <1>2, <1>3, <1>4 DEF SetNext

\* A report built from the items the update job holds is a transaction.
LEMMA ReportType ==
  ASSUME Shape, NEW S \in SUBSET upd.batch
  PROVE  Report(S) \in Tx
<1>1. \A s \in S : s \in Session /\ upd.items[s] \in Row
  BY Zenon DEF Shape, UpdateShape, TypeOK, UpdateState
<1> QED
  BY Zenon, <1>1 DEF Report, Tx, Row

\* checkSession never asks for a row to go without its peer.
LEMMA VerdictFacts ==
  ASSUME NEW item, NEW s \in Session, NEW v \in CheckSession(item, s)
  PROVE  /\ v.removePeer \in BOOLEAN
         /\ v.removeSession \in BOOLEAN
         /\ v.removeSession => v.removePeer
<1> DEFINE same == item.bytes = chain[s].bytes
           ended == chain[s].status = "inactive"
           capped == MaxBytes[s] > 0 /\ Total(item.bytes) >= MaxBytes[s]
           drop(later) ==
             (same /\ later) \/ chain[s].status # "active" \/ capped
           sub == IF SubOf[s] = 0 THEN "active" ELSE plan[SubOf[s]]
<1>1. ended => \A later : drop(later)
  OBVIOUS
<1>2. sub = "inactive" => sub # "active"
  OBVIOUS
<1>3. \/ v = Verdict(FALSE, FALSE, TRUE)
      \/ \E later \in BOOLEAN : v = Verdict(drop(later), ended, TRUE)
      \/ \E later \in BOOLEAN :
           v = Verdict(drop(later) \/ sub # "active", ended \/ sub = "inactive",
                       same \/ ended \/ sub = "inactive")
  BY Zenon DEF CheckSession
<1> HIDE DEF same, ended, drop, sub
<1>4. CASE v = Verdict(FALSE, FALSE, TRUE)
  BY Zenon, <1>4 DEF Verdict
<1>5. ASSUME NEW later \in BOOLEAN, v = Verdict(drop(later), ended, TRUE)
      PROVE  /\ v.removePeer \in BOOLEAN
             /\ v.removeSession \in BOOLEAN
             /\ v.removeSession => v.removePeer
  <2>1. v.removePeer = drop(later) /\ v.removeSession = ended
    BY Zenon, <1>5 DEF Verdict
  <2>2. drop(later) \in BOOLEAN /\ ended \in BOOLEAN
    BY Zenon DEF drop, ended
  <2> QED
    BY Zenon, <1>1, <2>1, <2>2
<1>6. ASSUME NEW later \in BOOLEAN,
             v = Verdict(drop(later) \/ sub # "active", ended \/ sub = "inactive",
                         same \/ ended \/ sub = "inactive")
      PROVE  /\ v.removePeer \in BOOLEAN
             /\ v.removeSession \in BOOLEAN
             /\ v.removeSession => v.removePeer
  <2>1. /\ v.removePeer = (drop(later) \/ sub # "active")
        /\ v.removeSession = (ended \/ sub = "inactive")
    BY Zenon, <1>6 DEF Verdict
  <2> QED
    BY Zenon, <1>1, <1>2, <2>1
<1> QED
  BY Zenon, <1>3, <1>4, <1>5, <1>6

\* The steps of update_sessions keep the types.
LEMMA UpdateType ==
  ASSUME Shape, UpdateNext
  PROVE  TypeOK'
<1> USE SessionsAssumption, IdleFacts DEF Shape, chainVars, handlers, history
<1>1. CASE ReadRows
  BY Zenon, <1>1 DEF ReadRows, TypeOK, UpdateState, IdleUpdate, Stored
<1>2. ASSUME NEW s \in Session, CheckItem(s) PROVE TypeOK'
  <2>1. PICK v \in CheckSession(upd.items[s], s) :
       upd' = [upd EXCEPT
         !.todo = @ \ {s},
         !.batch = IF v.skipUpdate THEN @ ELSE @ \cup {s},
         !.pc = IF v.removePeer \/ v.removeSession THEN "retire" ELSE @,
         !.cur = IF v.removePeer \/ v.removeSession THEN s ELSE None,
         !.removePeer = v.removePeer,
         !.removeSession = v.removeSession]
    BY Zenon, <1>2 DEF CheckItem
  <2>2. v.removePeer \in BOOLEAN /\ v.removeSession \in BOOLEAN
    BY Zenon, VerdictFacts
  <2>3. upd' \in UpdateState
    BY ZenonT(60), <2>1, <2>2 DEF TypeOK, UpdateState
  <2> QED
    BY Zenon, <1>2, <2>3 DEF CheckItem, TypeOK
<1>3. CASE Retire
  <2>1. upd' \in UpdateState
    BY Zenon, <1>3 DEF Retire, TypeOK, UpdateState
  <2>2. peer' \in [Key -> Peer \cup {None}] /\ orphans' \in SUBSET Key
    BY Zenon, <1>3, RemovePeersType DEF Retire, TypeOK
  <2>3. row' \in [Session -> Row \cup {None}]
    BY Zenon, <1>3 DEF Retire, TypeOK
  <2> QED
    BY Zenon, <1>3, <2>1, <2>2, <2>3 DEF Retire, TypeOK
<1>4. CASE EndChecks
  BY Zenon, <1>4 DEF EndChecks, TypeOK, UpdateState
<1>5. CASE SendBatch
  <2>1. upd' \in UpdateState
    <3>1. [upd EXCEPT !.pc = "requery"] \in UpdateState
      BY Zenon DEF TypeOK, UpdateState
    <3> QED
      BY Zenon, <1>5, <3>1 DEF SendBatch
  <2>2. /\ chain' \in [Session -> [status: Status, bytes: Bytes]]
        /\ late' \in Tx
    BY Zenon, <1>5, ReportType, UpdateSessionsType DEF SendBatch
  <2> QED
    BY Zenon, <1>5, <2>1, <2>2 DEF SendBatch, TypeOK
<1>6. CASE Requery
  <2>1. ASSUME NEW S \in SUBSET upd.batch, NEW p \in {"each", "resend"}
        PROVE  [upd EXCEPT !.pc = p, !.batch = S] \in UpdateState
    BY Zenon DEF TypeOK, UpdateState
  <2>2. upd' \in UpdateState
    BY ZenonT(60), <1>6, <2>1 DEF Requery
  <2> QED
    BY Zenon, <1>6, <2>2 DEF Requery, TypeOK
<1>7. CASE Resend
  <2>1. upd' \in UpdateState
    <3>1. [upd EXCEPT !.pc = "each"] \in UpdateState
      BY Zenon DEF TypeOK, UpdateState
    <3> QED
      BY Zenon, <1>7, <3>1 DEF Resend
  <2>2. /\ chain' \in [Session -> [status: Status, bytes: Bytes]]
        /\ late' \in Tx
    BY Zenon, <1>7, ReportType, UpdateSessionsType DEF Resend
  <2> QED
    BY Zenon, <1>7, <2>1, <2>2 DEF Resend, TypeOK
<1>8. ASSUME NEW s \in Session, SendOne(s) PROVE TypeOK'
  <2>1. upd' \in UpdateState
    BY Zenon, <1>8 DEF SendOne, TypeOK, UpdateState
  <2>2. /\ chain' \in [Session -> [status: Status, bytes: Bytes]]
        /\ late' \in Tx
    BY Zenon, <1>8, ReportType, UpdateSessionsType DEF SendOne
  <2> QED
    BY Zenon, <1>8, <2>1, <2>2 DEF SendOne, TypeOK
<1> QED
  BY Zenon, <1>1, <1>2, <1>3, <1>4, <1>5, <1>6, <1>7, <1>8 DEF UpdateNext

\* The chain's own steps, a crash and the start-up steps keep the types.
LEMMA RestType ==
  ASSUME Shape, ChainNext \/ Crash \/ Reconcile \/ ClearSessions
  PROVE  TypeOK'
<1> USE SessionsAssumption, IdleFacts DEF Shape, chainVars, handlers, history
<1>1. ASSUME NEW s \in Session, EndSession(s) PROVE TypeOK'
  <2>1. PICK x \in Status : chain' = [chain EXCEPT ![s].status = x]
    BY Zenon, <1>1 DEF EndSession, Status
  <2>2. chain' \in [Session -> [status: Status, bytes: Bytes]]
    BY <2>1 DEF TypeOK
  <2> QED
    BY Zenon, <1>1, <2>2 DEF EndSession, TypeOK
<1>2. ASSUME NEW p \in Subscriptions, EndPlan(p) PROVE TypeOK'
  BY Zenon, <1>2 DEF EndPlan, TypeOK, Status
<1>3. CASE IncludeLate
  <2>1. Applied(late) \in [Session -> [status: Status, bytes: Bytes]]
    BY DEF TypeOK, Applied, Tx
  <2> QED
    BY Zenon, <1>3, <2>1 DEF IncludeLate, TypeOK
<1>4. CASE Crash
  <2>1. crashes' \in 0..CrashBound
    BY <1>4 DEF Crash, TypeOK
  <2>2. pc' \in [Handler -> HandlerPc] /\ req' \in [Handler -> Request]
    BY Zenon, <1>4 DEF Crash, HandlerPc
  <2> QED
    BY Zenon, <1>4, <2>1, <2>2 DEF Crash, TypeOK
<1>5. CASE Reconcile
  <2>1. CASE node' = "booting"
    <3>1. PICK failed \in SUBSET Stored :
         LET report == {s \in Stored \ failed :
                          /\ chain[s].status = "active"
                          /\ row[s].bytes # chain[s].bytes}
             tx == [s \in Session |-> IF s \in report THEN row[s].bytes ELSE None]
         IN IF report = {} THEN UNCHANGED <<chain, late>>
            ELSE \E ok \in BOOLEAN : UpdateSessions(tx, ok)
      BY Zenon, <1>5, <2>1 DEF Reconcile
    <3> DEFINE report == {s \in Stored \ failed :
                            /\ chain[s].status = "active"
                            /\ row[s].bytes # chain[s].bytes}
               tx == [s \in Session |-> IF s \in report THEN row[s].bytes ELSE None]
    <3>2. \A s \in report : row[s] \in Row
      BY Zenon DEF Stored, TypeOK
    <3> HIDE DEF report
    <3>3. tx \in Tx
      BY Zenon, <3>2 DEF Tx, Row
    <3>4. \/ UNCHANGED <<chain, late>>
          \/ \E ok \in BOOLEAN : UpdateSessions(tx, ok)
      BY Zenon, <3>1 DEF report
    <3> HIDE DEF tx
    <3>5. /\ chain' \in [Session -> [status: Status, bytes: Bytes]]
          /\ late' \in Tx
      BY <3>3, <3>4, UpdateSessionsType DEF TypeOK
    <3> QED
      BY Zenon, <1>5, <2>1, <3>5 DEF Reconcile, TypeOK
  <2>2. CASE node' # "booting"
    BY Zenon, <1>5, <2>2 DEF Reconcile, TypeOK
  <2> QED
    BY Zenon, <2>1, <2>2
<1>6. CASE ClearSessions
  BY Zenon, <1>6 DEF ClearSessions, TypeOK
<1> QED
  BY Zenon, <1>1, <1>2, <1>3, <1>4, <1>5, <1>6 DEF ChainNext

\* Every step keeps the types.
LEMMA TypeNext == Shape /\ [Next]_vars => TypeOK'
<1> SUFFICES ASSUME Shape, [Next]_vars PROVE TypeOK'
  OBVIOUS
<1>1. CASE UNCHANGED vars
  BY Zenon, <1>1 DEF Shape, TypeOK, vars
<1> QED
  BY Zenon, <1>1, HandlerType, TrafficType, SetType, UpdateType, RestType DEF Next

\* A handler past the door keeps its session and key until it leaves.
LEMMA NamedNext == Shape /\ [Next]_vars => HandlersNamed'
<1> SUFFICES ASSUME Shape, [Next]_vars PROVE HandlersNamed'
  OBVIOUS
<1> USE DEF Shape, HandlersNamed, TypeOK
<1>1. ASSUME NEW h \in Handler, HandlerNext(h) PROVE HandlersNamed'
  <2>1. CASE Begin(h)
    <3> PICK ask \in Asks :
          req' = [req EXCEPT ![h] = [NoRequest EXCEPT !.s = ask[1], !.k = ask[2]]]
      BY Zenon, <2>1 DEF Begin
    <3>1. ask[1] \in Session /\ ask[2] \in Key
      BY Zenon, SessionsAssumption
    <3>2. req'[h].s = ask[1] /\ req'[h].k = ask[2]
      BY Zenon DEF NoRequest
    <3>3. \A g \in Handler : g # h => pc'[g] = pc[g] /\ req'[g] = req[g]
      BY Zenon, <2>1 DEF Begin
    <3> QED
      BY Zenon, <3>1, <3>2, <3>3
  <2>2. CASE QuerySession(h)
    <3>1. CASE Leave(h)
      BY Zenon, <3>1 DEF Leave
    <3>2. CASE ~Leave(h)
      <4> DEFINE after == IF SubOf[req[h].s] = 0 THEN "lock" ELSE "plan"
                 asked == [s |-> req[h].s, k |-> req[h].k, base |-> chain[req[h].s].bytes,
                           utilised |-> 0,
                           left |-> IF MaxBytes[req[h].s] > 0
                                      THEN MaxBytes[req[h].s] - Total(chain[req[h].s].bytes)
                                      ELSE 0]
      <4>1. /\ req' = [req EXCEPT ![h] = asked]
            /\ pc' = [pc EXCEPT ![h] = after]
            /\ pc[h] = "session"
        BY ONLY Zenon, <2>2, <3>2 DEF QuerySession
      <4>0. asked.s = req[h].s /\ asked.k = req[h].k
        OBVIOUS
      <4> HIDE DEF asked, after
      <4>2. req \in [Handler -> Request] /\ pc \in [Handler -> HandlerPc]
        OBVIOUS
      <4>3. \A g \in Handler : req'[g].s = req[g].s /\ req'[g].k = req[g].k
        BY ONLY Zenon, <4>0, <4>1, <4>2
      <4>4. \A g \in Handler : pc'[g] # "idle" => pc[g] # "idle"
        BY ONLY Zenon, <4>1, <4>2
      <4> QED
        BY Zenon, <4>3, <4>4
    <3> QED
      BY Zenon, <3>1, <3>2
  <2>3. CASE QueryPlan(h)
    <3>1. CASE Leave(h)
      BY Zenon, <3>1 DEF Leave
    <3>2. CASE ~Leave(h)
      <4>1. PICK u \in 0..Granted : req' = [req EXCEPT ![h].utilised = u]
        BY Zenon, <2>3, <3>2 DEF QueryPlan
      <4>2. \A g \in Handler : req'[g].s = req[g].s /\ req'[g].k = req[g].k
        BY Zenon, <4>1 DEF Request
      <4> QED
        BY Zenon, <2>3, <3>2, <4>2 DEF QueryPlan
    <3> QED
      BY Zenon, <3>1, <3>2
  <2>4. CASE Lock(h)
    <3>1. CASE Leave(h)
      BY Zenon, <3>1 DEF Leave
    <3>2. CASE ~Leave(h)
      <4>1. PICK left \in Available(h) : req' = [req EXCEPT ![h].left = left]
        BY Zenon, <2>4, <3>2 DEF Lock
      <4>2. \A g \in Handler : req'[g].s = req[g].s /\ req'[g].k = req[g].k
        BY Zenon, <4>1 DEF Request
      <4> QED
        BY Zenon, <2>4, <3>2, <4>2 DEF Lock
    <3> QED
      BY Zenon, <3>1, <3>2
  <2>5. CASE AddPeer(h)
    BY Zenon, <2>5 DEF AddPeer, Leave
  <2>6. CASE CreateRow(h)
    BY Zenon, <2>6 DEF CreateRow, Leave
  <2> QED
    BY Zenon, <1>1, <2>1, <2>2, <2>3, <2>4, <2>5, <2>6 DEF HandlerNext
<1>2. CASE Crash
  BY Zenon, <1>2 DEF Crash
<1>3. CASE UNCHANGED handlers
  BY Zenon, <1>3 DEF handlers
<1>4. ASSUME \/ \E k \in Key : Traffic(k)
             \/ SetNext \/ UpdateNext \/ ChainNext \/ Reconcile \/ ClearSessions
             \/ UNCHANGED vars
      PROVE UNCHANGED handlers
  BY Zenon, <1>4 DEF handlers, vars, Traffic, SetNext, ReadPeers, LockSet, SetPeer,
     UnlockSet, UpdateNext, ReadRows, CheckItem, Retire, EndChecks, SendBatch,
     Requery, Resend, SendOne, ChainNext, EndSession, EndPlan, IncludeLate,
     Reconcile, ClearSessions
<1> QED
  BY Zenon, <1>1, <1>2, <1>3, <1>4 DEF Next

\* The update job holds what it works on.
LEMMA UpdateShapeNext == Shape /\ [Next]_vars => UpdateShape'
<1> SUFFICES ASSUME Shape, [Next]_vars PROVE UpdateShape'
  OBVIOUS
<1> USE DEF Shape
<1>1. CASE UNCHANGED upd
  BY Zenon, <1>1 DEF UpdateShape
<1>2. CASE upd' = IdleUpdate
  BY Zenon, <1>2 DEF UpdateShape, IdleUpdate
<1>3. CASE ReadRows
  BY Zenon, <1>3 DEF ReadRows, UpdateShape, IdleUpdate, Stored
<1>4. ASSUME NEW s \in Session, CheckItem(s) PROVE UpdateShape'
  <2>1. PICK v \in CheckSession(upd.items[s], s) :
       upd' = [upd EXCEPT
         !.todo = @ \ {s},
         !.batch = IF v.skipUpdate THEN @ ELSE @ \cup {s},
         !.pc = IF v.removePeer \/ v.removeSession THEN "retire" ELSE @,
         !.cur = IF v.removePeer \/ v.removeSession THEN s ELSE None,
         !.removePeer = v.removePeer,
         !.removeSession = v.removeSession]
    BY Zenon, <1>4 DEF CheckItem
  <2>2. v.removePeer \in BOOLEAN /\ v.removeSession \in BOOLEAN
        /\ (v.removeSession => v.removePeer)
    BY Zenon, VerdictFacts
  <2>3. s # None /\ upd.pc = "check" /\ s \in upd.todo
    BY Zenon, <1>4, SessionsAssumption DEF CheckItem
  <2>4. /\ upd'.todo = upd.todo \ {s}
        /\ upd'.batch \subseteq upd.batch \cup {s}
        /\ upd'.pc = IF v.removePeer \/ v.removeSession THEN "retire" ELSE "check"
        /\ upd'.cur = IF v.removePeer \/ v.removeSession THEN s ELSE None
        /\ upd'.items = upd.items
        /\ upd'.removePeer = v.removePeer
        /\ upd'.removeSession = v.removeSession
    BY Zenon, <2>1, <2>3 DEF TypeOK, UpdateState
  <2> QED
    BY Zenon, <2>2, <2>3, <2>4 DEF UpdateShape
<1>5. CASE Retire
  BY Zenon, <1>5 DEF Retire, UpdateShape, TypeOK, UpdateState
<1>6. CASE EndChecks
  BY Zenon, <1>6, <1>2 DEF EndChecks, UpdateShape, TypeOK, UpdateState
<1>7. CASE SendBatch
  BY <1>7, <1>2 DEF SendBatch, UpdateShape, TypeOK, UpdateState
<1>8. CASE Requery
  <2>1. upd.pc = "requery"
    BY Zenon, <1>8 DEF Requery
  <2>2. PICK p \in {"each", "resend"}, still \in SUBSET upd.batch :
          upd' = IdleUpdate \/ upd' = [upd EXCEPT !.pc = p, !.batch = still]
    BY Zenon, <1>8 DEF Requery
  <2>3. CASE upd' = [upd EXCEPT !.pc = p, !.batch = still]
    <3>1. upd \in UpdateState
      BY Zenon DEF TypeOK
    <3>2. /\ upd'.pc = p /\ upd'.batch = still /\ upd'.items = upd.items
          /\ upd'.todo = upd.todo /\ upd'.cur = upd.cur
          /\ upd'.removePeer = upd.removePeer
          /\ upd'.removeSession = upd.removeSession
      BY ONLY Zenon, <3>1, <2>3 DEF UpdateState
    <3>3. UpdateShape
      OBVIOUS
    <3> QED
      BY ONLY Zenon, <2>1, <3>2, <3>3, p \in {"each", "resend"}, still \in SUBSET upd.batch
         DEF UpdateShape
  <2> QED
    BY Zenon, <1>2, <2>2, <2>3
<1>9. CASE Resend
  BY <1>9, <1>2 DEF Resend, UpdateShape, TypeOK, UpdateState
<1>10. ASSUME NEW s \in Session, SendOne(s) PROVE UpdateShape'
  BY Zenon, <1>10, <1>2 DEF SendOne, UpdateShape, TypeOK, UpdateState
<1>11. CASE Crash
  BY Zenon, <1>11, <1>2 DEF Crash
<1>12. ASSUME \/ \E h \in Handler : HandlerNext(h)
              \/ \E k \in Key : Traffic(k)
              \/ SetNext \/ ChainNext \/ Reconcile \/ ClearSessions
              \/ UNCHANGED vars
       PROVE UNCHANGED upd
  BY Zenon, <1>12 DEF HandlerNext, Begin, QuerySession, QueryPlan, Lock, AddPeer,
     CreateRow, Traffic, SetNext, ReadPeers, LockSet, SetPeer, UnlockSet,
     ChainNext, EndSession, EndPlan, IncludeLate, Reconcile, ClearSessions, vars
<1> QED
  BY Zenon, <1>1, <1>3, <1>4, <1>5, <1>6, <1>7, <1>8, <1>9, <1>10, <1>11, <1>12
     DEF Next, UpdateNext

\* Every step keeps the well-formedness of the state.
LEMMA ShapeNext == Shape /\ [Next]_vars => Shape'
BY Zenon, TypeNext, NamedNext, UpdateShapeNext DEF Shape

-----------------------------------------------------------------------------
(* Most steps add no peer and no row and let nobody into the section the   *)
(* lock guards.  Those keep the count, the uniqueness of keys and the      *)
(* one-peer rule without further ado.                                      *)

InSection(h) == pc[h] \in {"add", "record"}

Calm ==
  /\ \A k \in Key : peer'[k] # None => peer[k] # None /\ peer'[k].s = peer[k].s
  /\ \A s \in Session : row'[s] # None => row[s] # None /\ row'[s].key = row[s].key
  /\ \A h \in Handler : InSection(h)' =>
       pc'[h] = pc[h] /\ req'[h].s = req[h].s /\ req'[h].k = req[h].k

\* The peers of the service are finitely many, and fewer when some go.
LEMMA FewerPeers ==
  ASSUME NEW S \in SUBSET Key, NEW T \in SUBSET S
  PROVE  /\ IsFiniteSet(S) /\ Cardinality(S) \in Nat
         /\ Cardinality(T) \in Nat /\ Cardinality(T) <= Cardinality(S)
<1>1. IsFiniteSet(S)
  BY Zenon, FS_Subset, SessionsAssumption
<1>2. IsFiniteSet(T) /\ Cardinality(T) <= Cardinality(S)
  BY Zenon, <1>1, FS_Subset
<1> QED
  BY Zenon, <1>1, <1>2, FS_CardinalityType

\* What a calm step keeps.
LEMMA CalmKeeps ==
  ASSUME IInv, Shape', Calm
  PROVE  /\ RoomToAdd' /\ MaxPeersHeld' /\ EvictedFirst' /\ OnePeerPerSet'
         /\ KeysOwned'
         /\ \A h \in Handler : InSection(h)' =>
              row'[req'[h].s] = None /\ ~KeyStored(req[h].k)'
<1> USE DEF Calm, InSection
<1>1. Peers' \subseteq Peers /\ Peers \subseteq Key
  BY Zenon DEF Peers
<1>2. Stored' \subseteq Stored /\ \A s \in Stored' : row'[s].key = row[s].key
  BY Zenon DEF Stored
<1>3. /\ Cardinality(Peers') \in Nat /\ Cardinality(Peers) \in Nat
      /\ Cardinality(Peers') <= Cardinality(Peers)
  BY Zenon, <1>1, FewerPeers
<1>4. MaxPeersHeld'
  BY <1>3, SessionsAssumption DEF IInv, MaxPeersHeld
<1>5. RoomToAdd'
  BY <1>3, SessionsAssumption DEF IInv, RoomToAdd
<1>6. EvictedFirst'
  BY <1>1, <1>2 DEF IInv, EvictedFirst, SameSet
<1>7. OnePeerPerSet'
  BY Zenon, <1>1, <1>2 DEF IInv, OnePeerPerSet
<1>8. KeysOwned'
  <2>1. \A k \in Peers' : peer'[k].s = peer[k].s
    BY Zenon DEF Peers
  <2> QED
    BY SMTT(30), <1>1, <1>2, <2>1 DEF IInv, KeysOwned
<1>9. ASSUME NEW h \in Handler, InSection(h)'
      PROVE  row'[req'[h].s] = None /\ ~KeyStored(req[h].k)'
  <2>1. /\ InSection(h) /\ req'[h].s = req[h].s /\ req'[h].k = req[h].k
        /\ req[h].s \in Session
    BY Zenon, <1>9 DEF IInv, Shape, HandlersNamed
  <2>2. row[req[h].s] = None /\ ~KeyStored(req[h].k)
    BY Zenon, <2>1 DEF IInv, AdmittedOnce
  <2> QED
    BY <1>2, <2>1, <2>2 DEF KeyStored, Stored
<1> QED
  BY Zenon, <1>4, <1>5, <1>6, <1>7, <1>8, <1>9

\* The update job's rows are still there when the peers behind them are right.
LEMMA HeldEnough ==
  ASSUME Shape', KeysOwned',
         \A s \in Session : s \in upd'.todo \cup {upd'.cur} =>
           row'[s] # None /\ row'[s].key = upd'.items[s].key
  PROVE  RetiresItsOwn'
BY Zenon DEF RetiresItsOwn, KeysOwned, Stored

-----------------------------------------------------------------------------
(* One lemma per group of steps.                                           *)

\* Counting traffic neither adds nor removes a peer, nor moves it to another
\* session.
LEMMA TrafficPeers ==
  ASSUME TypeOK, NEW k \in Key, Traffic(k)
  PROVE  \A x \in Key : /\ peer'[x] # None <=> peer[x] # None
                        /\ peer[x] # None => peer'[x].s = peer[x].s
<1>1. peer[k] \in Peer /\ peer \in [Key -> Peer \cup {None}]
  BY Zenon DEF Traffic, Peers, TypeOK
<1>2. PICK unit \in {[up |-> 1, down |-> 0], [up |-> 0, down |-> 1]} :
        peer' = [peer EXCEPT ![k].bytes = Plus(@, unit)]
  BY Zenon DEF Traffic
<1>3. Plus(peer[k].bytes, unit) \in Bytes
  <2>1. unit \in Bytes
    BY DEF Bytes
  <2> QED
    BY Zenon, <1>1, <2>1, BytesFacts DEF Peer
<1> DEFINE p == [peer[k] EXCEPT !.bytes = Plus(peer[k].bytes, unit)]
<1>4. p \in Peer /\ p.s = peer[k].s
  BY Zenon, <1>1, <1>3 DEF Peer
<1>5. peer' = [peer EXCEPT ![k] = p]
  BY Zenon, <1>2
<1> HIDE DEF p
<1> QED
  BY Zenon, <1>1, <1>4, <1>5, NoneAssumption

\* Traffic, the chain and the reading of the peers concern none of it.
LEMMA BystanderInv ==
  ASSUME IInv, Shape', ChainNext \/ ReadPeers \/ \E k \in Key : Traffic(k)
  PROVE  IInv'
<1>1. UNCHANGED <<node, row, lock, pc, req, upd, orphans>>
  BY Zenon DEF ChainNext, EndSession, EndPlan, IncludeLate, ReadPeers, Traffic,
     history, handlers
<1>2. (set'.pc = "pass" => set.pc = "pass") /\ (set' = set \/ node = "up")
  BY DEF ChainNext, EndSession, EndPlan, IncludeLate, ReadPeers, Traffic
<1>3. \A x \in Key : /\ peer'[x] # None <=> peer[x] # None
                     /\ peer[x] # None => peer'[x].s = peer[x].s
  BY Zenon, TrafficPeers DEF ChainNext, EndSession, EndPlan, IncludeLate, ReadPeers,
     IInv, Shape
<1>4. Peers' = Peers
  BY Zenon, <1>3 DEF Peers
<1>5. Calm
  BY Zenon, <1>1, <1>3 DEF Calm, InSection
<1>6. LockHeld' /\ Quiet'
  BY Zenon, <1>1, <1>2, <1>4 DEF IInv, LockHeld, Quiet
<1>7. MeteredPeers'
  BY Zenon, <1>1, <1>4 DEF IInv, MeteredPeers, KeyStored, Stored
<1>8. RetiresItsOwn'
  BY Zenon, <1>1, <1>5, CalmKeeps, HeldEnough DEF IInv, RetiresItsOwn, Stored
<1>9. AdmittedOnce'
  BY <1>5, <1>6, CalmKeeps DEF AdmittedOnce, InSection, LockHeld
<1> QED
  BY Zenon, <1>5, <1>6, <1>7, <1>8, <1>9, CalmKeeps DEF IInv

\* A handler that has not reached the lock is of no concern either, once the
\* node is up.
LEMMA EarlyHandlerInv ==
  ASSUME IInv, Shape', NEW h \in Handler,
         Begin(h) \/ QuerySession(h) \/ QueryPlan(h)
  PROVE  IInv'
<1>1. UNCHANGED <<node, peer, row, lock, set, upd, orphans>>
  BY Zenon DEF Begin, QuerySession, QueryPlan, history
<1>2. /\ pc[h] \in {"idle", "session", "plan"}
      /\ pc'[h] \in {"idle", "session", "plan", "lock"}
      /\ \A g \in Handler : g # h => pc'[g] = pc[g] /\ req'[g] = req[g]
  BY Zenon DEF Begin, QuerySession, QueryPlan, Leave, IInv, Shape, TypeOK
<1>3. node = "up"
  BY Zenon, <1>2 DEF Begin, QuerySession, QueryPlan, IInv, Quiet
<1>4. Calm
  BY Zenon, <1>1, <1>2 DEF Calm, InSection
<1>5. LockHeld'
  BY Zenon, <1>1, <1>2 DEF IInv, LockHeld
<1>6. Quiet'
  BY Zenon, <1>1, <1>3 DEF Quiet
<1>7. MeteredPeers'
  BY <1>1, <1>2 DEF IInv, MeteredPeers, KeyStored, Stored, Peers
<1>8. RetiresItsOwn'
  BY Zenon, <1>1, <1>4, CalmKeeps, HeldEnough DEF IInv, RetiresItsOwn, Stored
<1>9. AdmittedOnce'
  BY Zenon, <1>4, <1>5, CalmKeeps DEF AdmittedOnce, InSection, LockHeld
<1> QED
  BY Zenon, <1>4, <1>5, <1>6, <1>7, <1>8, <1>9, CalmKeeps DEF IInv

\* While the lock is free nobody is in the section, and while a handler has it
\* nobody else is.
LEMMA Alone ==
  ASSUME IInv
  PROVE  /\ lock = None => /\ \A g \in Handler : ~InSection(g)
                           /\ set.pc # "pass"
         /\ \A h \in Handler : lock = h => /\ \A g \in Handler : g # h => ~InSection(g)
                                           /\ set.pc # "pass"
BY Zenon, SessionsAssumption DEF IInv, LockHeld, InSection

\* Taking the lock, or failing under it.
LEMMA LockInv ==
  ASSUME IInv, Shape', NEW h \in Handler, Lock(h)
  PROVE  IInv'
<1> DEFINE s == req[h].s
           k == req[h].k
           earlier == {row[t].key : t \in SameSet(s)} \cap Peers
<1>1. /\ UNCHANGED <<node, row, set, upd>>
      /\ pc[h] = "lock" /\ lock = None /\ node = "up"
      /\ s \in Session /\ k \in Key
  BY Zenon DEF Lock, IInv, Quiet, Shape, HandlersNamed
<1>2. /\ \A g \in Handler : ~InSection(g)
      /\ set.pc # "pass"
  BY Zenon, <1>1, Alone
<1>3. CASE Leave(h)
  <2>1. \A g \in Handler : pc'[g] \in {"idle", pc[g]} /\ (g # h => req'[g] = req[g])
    BY Zenon, <1>3 DEF Leave, IInv, Shape, TypeOK
  <2>2. PICK K : RemovePeers(K) \/ UNCHANGED <<peer, orphans>>
    BY Zenon, <1>3 DEF Lock
  <2>3. lock' = None
    <3>1. pc'[h] = "idle"
      BY Zenon, <1>3 DEF Leave, IInv, Shape, TypeOK
    <3> QED
      BY Zenon, <1>1, <3>1 DEF Lock, IInv, Shape, TypeOK
  <2>4. \A g \in Handler : ~InSection(g)'
    BY Zenon, <1>2, <2>1 DEF InSection
  <2>5. /\ \A x \in Key : peer'[x] # None => peer[x] # None /\ peer'[x] = peer[x]
        /\ \A x \in Key : peer'[x] # None => (x \in orphans => x \in orphans')
    BY Zenon, <2>2 DEF RemovePeers
  <2>6. Calm
    BY Zenon, <1>1, <2>4, <2>5 DEF Calm
  <2>7. LockHeld' /\ Quiet' /\ AdmittedOnce'
    BY Zenon, <1>1, <1>2, <2>4 DEF LockHeld, Quiet, AdmittedOnce, InSection
  <2>8. MeteredPeers'
    BY Zenon, <1>1, <1>2, <2>5 DEF IInv, MeteredPeers, KeyStored, Stored, Peers, InSection
  <2>9. RetiresItsOwn'
    BY Zenon, <1>1, <2>6, CalmKeeps, HeldEnough DEF IInv, RetiresItsOwn, Stored
  <2> QED
    BY Zenon, <2>6, <2>7, <2>8, <2>9, CalmKeeps DEF IInv
<1>4. CASE ~Leave(h)
  <2>1. /\ CheckCapacity(s, k)
        /\ RemovePeers(earlier)
        /\ pc' = [pc EXCEPT ![h] = "add"]
        /\ lock' = h
    BY Zenon, <1>4 DEF Lock, Recheck
  <2>2. PICK left : req' = [req EXCEPT ![h].left = left]
    BY Zenon, <1>4 DEF Lock
  <2>3. req'[h].s = s /\ req'[h].k = k
    <3>1. req \in [Handler -> Request]
      BY Zenon DEF IInv, Shape, TypeOK
    <3> QED
      BY Zenon, <2>2, <3>1 DEF Request
  <2>4. /\ Peers' = Peers \ earlier /\ Peers \subseteq Key
        /\ \A x \in Peers' : peer'[x] = peer[x]
        /\ orphans' = orphans \ earlier
    BY Zenon, <2>1 DEF RemovePeers, Peers
  <2>5. /\ pc'[h] = "add"
        /\ \A g \in Handler : g # h => ~InSection(g)'
    BY Zenon, <1>2, <2>1 DEF InSection, IInv, Shape, TypeOK
  <2>6. /\ Cardinality(Peers') \in Nat /\ Cardinality(Peers) \in Nat
        /\ Cardinality(Peers') <= Cardinality(Peers)
    BY Zenon, <2>4, FewerPeers
  <2>7. RoomToAdd' /\ MaxPeersHeld'
    BY SMTT(30), <2>1, <2>6, SessionsAssumption DEF CheckCapacity, RoomToAdd, MaxPeersHeld
  <2>8. LockHeld' /\ Quiet'
    BY Zenon, <1>1, <1>2, <2>1, <2>5 DEF LockHeld, Quiet, InSection
  <2>9. AdmittedOnce'
    BY Zenon, <1>1, <2>1, <2>3, <2>5
       DEF AdmittedOnce, InSection, CheckCapacity, KeyStored, Stored
  <2>10. EvictedFirst'
    <3>1. \A t \in SameSet(s) : row[t].key \notin Peers'
      BY Zenon, <2>4
    <3>2. SameSet(req[h].s)' = SameSet(s)
      BY Zenon, <1>1, <2>3 DEF SameSet, Stored
    <3>3. \A g \in Handler : pc'[g] \in {"add", "record"} => g = h
      BY Zenon, <2>5 DEF InSection
    <3>4. row' = row
      BY Zenon, <1>1
    <3> QED
      BY Zenon, <3>1, <3>2, <3>3, <3>4 DEF EvictedFirst
  <2>11. OnePeerPerSet'
    BY Zenon, <1>1, <2>4 DEF IInv, OnePeerPerSet, Stored
  <2>12. KeysOwned'
    BY Zenon, <1>1, <2>4, <2>5 DEF IInv, KeysOwned, Stored, InSection
  <2>13. MeteredPeers'
    BY Zenon, <1>1, <1>2, <2>4 DEF IInv, MeteredPeers, KeyStored, Stored, InSection
  <2>14. RetiresItsOwn'
    BY Zenon, <1>1, <2>12, HeldEnough DEF IInv, RetiresItsOwn, Stored
  <2> QED
    BY <2>7, <2>8, <2>9, <2>10, <2>11, <2>12, <2>13, <2>14 DEF IInv
<1> QED
  BY Zenon, <1>3, <1>4

\* Adding the peer, which only the lock's holder does, or failing to.
LEMMA AddPeerInv ==
  ASSUME IInv, Shape', NEW h \in Handler, AddPeer(h)
  PROVE  IInv'
<1> DEFINE s == req[h].s
           k == req[h].k
<1>1. /\ UNCHANGED <<node, row, set, upd>>
      /\ pc[h] = "add" /\ lock = h /\ node = "up"
      /\ s \in Session /\ k \in Key
      /\ row[s] = None /\ ~KeyStored(k)
  BY Zenon DEF AddPeer, IInv, Quiet, LockHeld, Shape, HandlersNamed, AdmittedOnce
<1>2. /\ \A g \in Handler : g # h => ~InSection(g)
      /\ set.pc # "pass"
  BY <1>1, Alone
<1>3. CASE Leave(h)
  <2>1. pc'[h] = "idle" /\ \A g \in Handler : g # h => pc'[g] = pc[g]
    BY Zenon, <1>3 DEF Leave, IInv, Shape, TypeOK
  <2>2. UNCHANGED <<peer, orphans>>
    BY Zenon, <2>1 DEF AddPeer, IInv, Shape, TypeOK
  <2>3. \A g \in Handler : ~InSection(g)'
    BY Zenon, <1>2, <2>1 DEF InSection
  <2>4. Calm
    BY Zenon, <1>1, <2>2, <2>3 DEF Calm
  <2>5. LockHeld' /\ Quiet' /\ AdmittedOnce'
    BY Zenon, <1>1, <1>2, <2>3 DEF LockHeld, Quiet, AdmittedOnce, InSection
  <2>6. MeteredPeers'
    BY <1>1, <1>2, <2>2 DEF IInv, MeteredPeers, KeyStored, Stored, Peers, InSection
  <2>7. RetiresItsOwn'
    BY Zenon, <1>1, <2>4, CalmKeeps, HeldEnough DEF IInv, RetiresItsOwn, Stored
  <2> QED
    BY Zenon, <2>4, <2>5, <2>6, <2>7, CalmKeeps DEF IInv
<1>4. CASE ~Leave(h)
  <2>1. /\ orphans' = orphans \ {k}
        /\ pc' = [pc EXCEPT ![h] = "record"]
        /\ UNCHANGED <<req, lock>>
    BY Zenon, <1>4 DEF AddPeer
  <2>2. PICK b \in Bytes : peer' = [peer EXCEPT ![k] = [s |-> s, bytes |-> b]]
    BY Zenon, <1>1, <1>4, AddedBytes DEF AddPeer, IInv, Shape
  <2>3. peer'[k] # None /\ peer'[k].s = s
    <3>1. peer'[k] = [s |-> s, bytes |-> b]
      BY Zenon, <1>1, <2>2 DEF IInv, Shape, TypeOK
    <3>2. [s |-> s, bytes |-> b] \in Peer
      BY <1>1 DEF Peer
    <3> QED
      BY <3>1, <3>2, NoneAssumption
  <2>4. /\ Peers' = Peers \cup {k} /\ Peers \subseteq Key
        /\ \A x \in Key : x # k => peer'[x] = peer[x]
    BY Zenon, <1>1, <2>2, <2>3 DEF Peers, IInv, Shape, TypeOK
  <2>5. pc'[h] = "record" /\ \A g \in Handler : g # h => pc'[g] = pc[g]
    BY Zenon, <2>1 DEF IInv, Shape, TypeOK
  <2>6. Cardinality(Peers') <= MaxPeers
    <3>1. IsFiniteSet(Peers) /\ Cardinality(Peers) \in Nat
      BY Zenon, <2>4, FewerPeers
    <3>2. Cardinality(Peers') <= Cardinality(Peers) + 1
      <4>1. Cardinality(Peers \cup {k}) =
              IF k \in Peers THEN Cardinality(Peers) ELSE Cardinality(Peers) + 1
        BY Zenon, <3>1, FS_AddElement
      <4> QED
        BY <2>4, <3>1, <4>1
    <3>3. Cardinality(Peers) < MaxPeers
      BY Zenon, <1>1 DEF IInv, RoomToAdd
    <3>4. Cardinality(Peers') \in Nat
      BY Zenon, <1>1, <2>4, FewerPeers
    <3> QED
      BY <3>1, <3>2, <3>3, <3>4, SessionsAssumption
  <2>7. RoomToAdd' /\ MaxPeersHeld'
    BY Zenon, <1>2, <2>5, <2>6 DEF RoomToAdd, MaxPeersHeld, InSection
  <2>8. LockHeld' /\ Quiet'
    BY Zenon, <1>1, <1>2, <2>1, <2>5 DEF LockHeld, Quiet, InSection
  <2>9. AdmittedOnce'
    BY <1>1, <1>2, <2>1, <2>5 DEF AdmittedOnce, InSection, KeyStored, Stored
  <2>10. EvictedFirst'
    <3>1. \A t \in SameSet(s) : row[t].key \notin Peers
      BY Zenon, <1>1 DEF IInv, EvictedFirst
    <3>2. \A t \in Stored : row[t].key # k
      BY Zenon, <1>1 DEF KeyStored
    <3>3. SameSet(s) \subseteq Stored
      BY ONLY Zenon DEF SameSet
    <3>4. SameSet(req[h].s)' = SameSet(s) /\ row' = row
      BY Zenon, <1>1, <2>1 DEF SameSet, Stored
    <3>5. \A g \in Handler : pc'[g] \in {"add", "record"} => g = h
      BY Zenon, <1>2, <2>5 DEF InSection
    <3>6. \A t \in SameSet(req[h].s)' : row'[t].key \notin Peers'
      BY ONLY Zenon, <2>4, <3>1, <3>2, <3>3, <3>4
    <3> QED
      BY ONLY Zenon, <3>5, <3>6 DEF EvictedFirst
  <2>11. OnePeerPerSet'
    BY Zenon, <1>1, <2>4 DEF IInv, OnePeerPerSet, Stored, KeyStored
  <2>12. KeysOwned'
    <3>1. \A t \in Stored : row[t].key \in Key /\ row[t].key # k
      BY Zenon, <1>1 DEF IInv, Shape, TypeOK, Row, Stored, KeyStored
    <3>2. row' = row /\ Stored' = Stored
      BY Zenon, <1>1 DEF Stored
    <3>3. \A t \in Stored : row[t].key \in Peers' =>
            row[t].key \in Peers /\ peer'[row[t].key] = peer[row[t].key]
      BY Zenon, <2>4, <3>1
    <3>4. \A t, u \in Stored' : row'[t].key = row'[u].key => t = u
      BY Zenon, <3>2 DEF IInv, KeysOwned
    <3>5. \A t \in Stored' : row'[t].key \in Peers' => peer'[row'[t].key].s = t
      BY <3>2, <3>3 DEF IInv, KeysOwned
    <3>6. \A g \in Handler : pc'[g] = "record" => g = h
      BY Zenon, <1>2, <2>5 DEF InSection
    <3>7. req'[h].s = s /\ req'[h].k = k
      BY Zenon, <2>1
    <3> QED
      BY Zenon, <2>3, <3>4, <3>5, <3>6, <3>7 DEF KeysOwned
  <2>13. MeteredPeers'
    BY Zenon, <1>1, <1>2, <2>1, <2>4, <2>5 DEF IInv, MeteredPeers, KeyStored, Stored, InSection
  <2>14. RetiresItsOwn'
    BY Zenon, <1>1, <2>12, HeldEnough DEF IInv, RetiresItsOwn, Stored
  <2> QED
    BY <2>7, <2>8, <2>9, <2>10, <2>11, <2>12, <2>13, <2>14 DEF IInv
<1> QED
  BY Zenon, <1>3, <1>4

\* Writing the row, or undoing the peer.
LEMMA CreateRowInv ==
  ASSUME IInv, Shape', NEW h \in Handler, CreateRow(h)
  PROVE  IInv'
<1> DEFINE s == req[h].s
           k == req[h].k
<1>1. /\ UNCHANGED <<node, set, upd>>
      /\ pc[h] = "record" /\ lock = h /\ lock' = None /\ node = "up"
      /\ s \in Session /\ k \in Key
      /\ row[s] = None /\ ~KeyStored(k)
      /\ Leave(h)
  BY Zenon DEF CreateRow, IInv, Quiet, LockHeld, Shape, HandlersNamed, AdmittedOnce
<1>2. /\ \A g \in Handler : g # h => ~InSection(g)
      /\ set.pc # "pass"
  BY Zenon, <1>1, Alone
<1>3. pc'[h] = "idle" /\ \A g \in Handler : g # h => pc'[g] = pc[g]
  BY Zenon, <1>1 DEF Leave, IInv, Shape, TypeOK
<1>4. \A g \in Handler : ~InSection(g)'
  BY Zenon, <1>2, <1>3 DEF InSection
<1>5. LockHeld' /\ Quiet' /\ AdmittedOnce' /\ RoomToAdd' /\ EvictedFirst'
  BY Zenon, <1>1, <1>2, <1>4
     DEF LockHeld, Quiet, AdmittedOnce, RoomToAdd, EvictedFirst, InSection
<1>6. CASE /\ UNCHANGED row
           /\ \/ RemovePeers({k})
              \/ orphans' = orphans \cup {k} /\ UNCHANGED peer
  <2>1. /\ \A x \in Key : peer'[x] # None => peer[x] # None /\ peer'[x] = peer[x]
        /\ \A x \in Key : peer'[x] # None => (x \in orphans => x \in orphans')
        /\ peer'[k] # None => k \in orphans'
    BY Zenon, <1>1, <1>6 DEF RemovePeers
  <2>2. Calm
    BY Zenon, <1>4, <1>6, <2>1 DEF Calm
  <2>3. MeteredPeers'
    <3>1. /\ \A x \in Peers' : x \in Peers /\ (x \in orphans => x \in orphans')
          /\ k \in Peers' => k \in orphans'
      BY Zenon, <2>1 DEF Peers
    <3>2. \A x \in Peers : KeyStored(x) \/ x \in orphans \/ x = k
      BY Zenon, <1>1, <1>2 DEF IInv, MeteredPeers, InSection
    <3>3. \A x \in Key : KeyStored(x) => KeyStored(x)'
      BY Zenon, <1>6 DEF KeyStored, Stored
    <3>4. Peers \subseteq Key
      BY Zenon DEF Peers
    <3> QED
      BY Zenon, <3>1, <3>2, <3>3, <3>4 DEF MeteredPeers
  <2>4. RetiresItsOwn'
    BY Zenon, <1>1, <1>6, <2>2, CalmKeeps, HeldEnough DEF IInv, RetiresItsOwn, Stored
  <2> QED
    BY Zenon, <1>5, <2>2, <2>3, <2>4, CalmKeeps DEF IInv
<1>7. CASE /\ UNCHANGED <<peer, orphans>>
           /\ row' = [row EXCEPT ![s] =
                [key |-> k, available |-> req[h].left, base |-> req[h].base,
                 bytes |-> req[h].base]]
  <2>1. /\ UNCHANGED <<peer, orphans>>
        /\ row' = [row EXCEPT ![s] =
             [key |-> k, available |-> req[h].left, base |-> req[h].base,
              bytes |-> req[h].base]]
    BY Zenon, <1>7
  <2>2. row'[s] # None /\ row'[s].key = k
    <3>1. row'[s] = [key |-> k, available |-> req[h].left, base |-> req[h].base,
                     bytes |-> req[h].base]
      BY Zenon, <1>1, <2>1 DEF IInv, Shape, TypeOK
    <3>2. row' \in [Session -> Row \cup {None}] /\ req \in [Handler -> Request]
      BY Zenon DEF IInv, Shape, TypeOK
    <3>3. req[h].left \in Nat /\ req[h].base \in Bytes
      BY <3>2 DEF Request
    <3>4. row'[s] \in Row
      BY ONLY SMTT(30), <1>1, <3>1, <3>3 DEF Row
    <3>5. row'[s] # None
      BY Zenon, <3>4, NoneAssumption
    <3>6. row'[s].key = k
      BY ONLY SMTT(30), <3>1
    <3> QED
      BY Zenon, <3>5, <3>6
  <2>3. /\ Stored' = Stored \cup {s} /\ s \notin Stored
        /\ \A t \in Stored : row'[t] = row[t]
        /\ Peers' = Peers
    BY ZenonT(60), <1>1, <2>1, <2>2 DEF Stored, Peers, IInv, Shape, TypeOK
  <2>4. \A t \in Stored : row[t].key # k
    BY Zenon, <1>1 DEF KeyStored
  <2>5. MaxPeersHeld'
    BY Zenon, <2>3 DEF IInv, MaxPeersHeld
  <2>6. OnePeerPerSet'
    <3>1. \A t \in Stored : (Owner[t] = Owner[s] /\ SubOf[t] = SubOf[s]) =>
            row[t].key \notin Peers
      BY Zenon, <1>1 DEF IInv, EvictedFirst, SameSet
    <3>2. \A t, u \in Stored :
            (t # u /\ Owner[t] = Owner[u] /\ SubOf[t] = SubOf[u]) =>
              ~(row[t].key \in Peers /\ row[u].key \in Peers)
      BY Zenon DEF IInv, OnePeerPerSet
    <3>3. SUFFICES ASSUME NEW t \in Stored', NEW u \in Stored', t # u,
                          Owner[t] = Owner[u], SubOf[t] = SubOf[u]
                   PROVE  ~(row'[t].key \in Peers' /\ row'[u].key \in Peers')
      BY Zenon DEF OnePeerPerSet
    <3>4. /\ t # s => t \in Stored /\ row'[t] = row[t]
          /\ u # s => u \in Stored /\ row'[u] = row[u]
      BY ONLY Zenon, <2>3, t \in Stored', u \in Stored'
    <3>5. CASE t = s
      BY ONLY Zenon, <2>3, <3>1, <3>3, <3>4, <3>5
    <3>6. CASE u = s
      BY ONLY Zenon, <2>3, <3>1, <3>3, <3>4, <3>6
    <3>7. CASE t # s /\ u # s
      BY ONLY Zenon, <2>3, <3>2, <3>3, <3>4, <3>7
    <3> QED
      BY ONLY Zenon, <3>5, <3>6, <3>7
  <2>7. KeysOwned'
    <3>1. \A t, u \in Stored' : row'[t].key = row'[u].key => t = u
      <4>1. \A t, u \in Stored : row[t].key = row[u].key => t = u
        BY Zenon DEF IInv, KeysOwned
      <4>2. SUFFICES ASSUME NEW t \in Stored', NEW u \in Stored',
                            row'[t].key = row'[u].key
                     PROVE  t = u
        OBVIOUS
      <4>3. /\ t # s => t \in Stored /\ row'[t] = row[t] /\ row[t].key # k
            /\ u # s => u \in Stored /\ row'[u] = row[u] /\ row[u].key # k
        BY ONLY Zenon, <2>3, <2>4, t \in Stored', u \in Stored'
      <4> QED
        BY ONLY Zenon, <2>2, <4>1, <4>2, <4>3
    <3>2. k \in Peers => peer[k].s = s
      BY Zenon, <1>1 DEF IInv, KeysOwned
    <3>3. \A t \in Stored' : row'[t].key \in Peers' => peer'[row'[t].key].s = t
      <4> SUFFICES ASSUME NEW t \in Stored', row'[t].key \in Peers'
                   PROVE  peer'[row'[t].key].s = t
        OBVIOUS
      <4>1. CASE t = s
        <5>1. peer' = peer
          BY Zenon, <2>1
        <5>2. row'[t].key = k /\ k \in Peers
          BY Zenon, <2>2, <2>3, <4>1
        <5> QED
          BY Zenon, <3>2, <4>1, <5>1, <5>2
      <4>2. CASE t \in Stored
        <5>1. row'[t] = row[t] /\ Peers' = Peers /\ peer' = peer
          BY Zenon, <2>1, <2>3, <4>2
        <5>2. row[t].key \in Peers => peer[row[t].key].s = t
          BY Zenon, <4>2 DEF IInv, KeysOwned
        <5> QED
          BY Zenon, <5>1, <5>2
      <4> QED
        BY Zenon, <2>3, <4>1, <4>2
    <3>4. \A g \in Handler : pc'[g] # "record"
      BY Zenon, <1>4 DEF InSection
    <3> QED
      BY Zenon, <3>1, <3>3, <3>4 DEF KeysOwned
  <2>8. MeteredPeers'
    <3>1. \A x \in Peers : x = k \/ KeyStored(x) \/ x \in orphans
      BY Zenon, <1>1, <1>2 DEF IInv, MeteredPeers, InSection
    <3>2. \A x \in Peers : x \in orphans \/ \E t \in Stored' : row'[t].key = x
      BY Zenon, <2>2, <2>3, <3>1 DEF KeyStored
    <3> QED
      BY Zenon, <2>1, <2>3, <3>2 DEF MeteredPeers, KeyStored
  <2>9. RetiresItsOwn'
    <3>1. \A t \in Session : t \in upd.todo \cup {upd.cur} =>
            t \in Stored /\ row[t].key = upd.items[t].key
      BY Zenon DEF IInv, RetiresItsOwn
    <3>2. \A t \in Session : t \in upd'.todo \cup {upd'.cur} =>
            row'[t] # None /\ row'[t].key = upd'.items[t].key
      BY Zenon, <1>1, <2>3, <3>1 DEF Stored
    <3> QED
      BY Zenon, <2>7, <3>2, HeldEnough
  <2> QED
    BY Zenon, <1>5, <2>5, <2>6, <2>7, <2>8, <2>9 DEF IInv
<1> QED
  BY Zenon, <1>6, <1>7 DEF CreateRow

-----------------------------------------------------------------------------
(* The jobs and the restart.                                               *)

\* The steps of set_sessions after the peers were read.
LEMMA SetInv ==
  ASSUME IInv, Shape', LockSet \/ UnlockSet \/ \E k \in Key : SetPeer(k)
  PROVE  IInv'
<1>1. UNCHANGED <<node, pc, req, upd>>
  BY Zenon DEF LockSet, UnlockSet, SetPeer, handlers
<1>2. node = "up"
  BY Zenon DEF LockSet, UnlockSet, SetPeer, IInv, Quiet
<1>3. CASE LockSet
  <2>1. UNCHANGED <<peer, row, orphans>> /\ lock = None /\ lock' = "set"
    BY Zenon, <1>3 DEF LockSet, history
  <2>2. \A g \in Handler : ~InSection(g)
    BY Zenon, <2>1, Alone
  <2>3. LockHeld' /\ Quiet' /\ AdmittedOnce'
    BY Zenon, <1>1, <1>2, <2>1, <2>2 DEF LockHeld, Quiet, AdmittedOnce, InSection
  <2>4. Calm
    BY Zenon, <1>1, <2>1 DEF Calm
  <2>5. MeteredPeers'
    BY Zenon, <1>1, <2>1 DEF IInv, MeteredPeers, KeyStored, Stored, Peers
  <2>6. RetiresItsOwn'
    BY Zenon, <1>1, <2>1, <2>4, CalmKeeps, HeldEnough DEF IInv, RetiresItsOwn, Stored
  <2> QED
    BY <2>3, <2>4, <2>5, <2>6, CalmKeeps DEF IInv
<1>4. CASE UnlockSet
  <2>1. /\ UNCHANGED <<peer, row, orphans>>
        /\ set.pc = "pass" /\ set'.pc = "idle" /\ lock = "set" /\ lock' = None
    BY Zenon, <1>4 DEF UnlockSet, history, IdleSet, IInv, LockHeld
  <2>2. \A g \in Handler : ~InSection(g)
    BY Zenon, <2>1, SessionsAssumption DEF IInv, LockHeld, InSection
  <2>3. LockHeld' /\ Quiet' /\ AdmittedOnce'
    BY Zenon, <1>1, <1>2, <2>1, <2>2 DEF LockHeld, Quiet, AdmittedOnce, InSection
  <2>4. Calm
    BY Zenon, <1>1, <2>1 DEF Calm
  <2>5. MeteredPeers'
    BY Zenon, <1>1, <2>1 DEF IInv, MeteredPeers, KeyStored, Stored, Peers
  <2>6. RetiresItsOwn'
    BY Zenon, <1>1, <2>1, <2>4, CalmKeeps, HeldEnough DEF IInv, RetiresItsOwn, Stored
  <2> QED
    BY Zenon, <2>3, <2>4, <2>5, <2>6, CalmKeeps DEF IInv
<1>5. ASSUME NEW k \in Key, SetPeer(k) PROVE IInv'
  <2>1. /\ UNCHANGED lock
        /\ set.pc = "pass" /\ set'.pc = "pass" /\ lock = "set"
    BY Zenon, <1>5 DEF SetPeer, IInv, LockHeld, Shape, TypeOK, SetState
  <2>2. \A g \in Handler : ~InSection(g)
    BY Zenon, <2>1, SessionsAssumption DEF IInv, LockHeld, InSection
  <2>3. \A s \in Session : /\ row'[s] # None <=> row[s] # None
                           /\ row[s] # None => row'[s].key = row[s].key
    <3>1. CASE UNCHANGED row
      BY Zenon, <3>1
    <3>2. CASE ~UNCHANGED row
      <4>1. PICK s \in Stored :
              row' = [row EXCEPT ![s].bytes = ReportedUsage(row[s], set.peers[k])]
        BY Zenon, <1>5, <3>2 DEF SetPeer
      <4>2. s \in Session /\ row[s] \in Row /\ row \in [Session -> Row \cup {None}]
        BY Zenon DEF Stored, IInv, Shape, TypeOK
      <4> DEFINE r == [row[s] EXCEPT !.bytes = ReportedUsage(row[s], set.peers[k])]
      <4>3. row' = [row EXCEPT ![s] = r]
        BY Zenon, <4>1
      <4>4. set.peers[k] \in Bytes
        BY <1>5 DEF SetPeer, IInv, Shape, TypeOK, SetState
      <4>5. ReportedUsage(row[s], set.peers[k]) \in Bytes
        BY Zenon, <4>2, <4>4, BytesFacts DEF ReportedUsage, Row
      <4>6. r \in Row /\ r.key = row[s].key
        BY Zenon, <4>2, <4>5 DEF Row
      <4> HIDE DEF r
      <4> QED
        BY <4>2, <4>3, <4>6, NoneAssumption DEF Stored
    <3> QED
      BY Zenon, <3>1, <3>2
  <2>4. /\ \A x \in Key : peer'[x] # None => peer[x] # None /\ peer'[x] = peer[x]
        /\ \A x \in Key : peer'[x] # None => (x \in orphans => x \in orphans')
    BY Zenon, <1>5 DEF SetPeer, RemovePeers
  <2>5. Calm
    BY Zenon, <1>1, <2>3, <2>4 DEF Calm
  <2>6. LockHeld' /\ Quiet' /\ AdmittedOnce'
    BY Zenon, <1>1, <1>2, <2>1, <2>2 DEF LockHeld, Quiet, AdmittedOnce, InSection
  <2>7. MeteredPeers'
    BY <1>1, <2>2, <2>3, <2>4
       DEF IInv, MeteredPeers, KeyStored, Stored, Peers, InSection
  <2>8. RetiresItsOwn'
    BY Zenon, <1>1, <2>3, <2>5, CalmKeeps, HeldEnough DEF IInv, RetiresItsOwn, Stored
  <2> QED
    BY Zenon, <2>5, <2>6, <2>7, <2>8, CalmKeeps DEF IInv
<1> QED
  BY Zenon, <1>3, <1>4, <1>5

\* The steps of update_sessions other than retire() touch its own state only.
LEMMA UpdateInv ==
  ASSUME IInv, Shape', UpdateNext, ~Retire
  PROVE  IInv'
<1>1. UNCHANGED <<node, peer, row, lock, pc, req, set, orphans>>
  BY Zenon DEF UpdateNext, ReadRows, CheckItem, EndChecks, SendBatch, Requery, Resend,
     SendOne, history, handlers
<1>2. node = "up"
  BY Zenon DEF UpdateNext, ReadRows, CheckItem, EndChecks, SendBatch, Requery, Resend,
     SendOne, IInv, Quiet
<1>3. Calm
  BY Zenon, <1>1 DEF Calm
<1>4. LockHeld' /\ Quiet' /\ AdmittedOnce'
  BY Zenon, <1>1, <1>2 DEF IInv, LockHeld, Quiet, AdmittedOnce, KeyStored, Stored
<1>5. MeteredPeers'
  BY Zenon, <1>1 DEF IInv, MeteredPeers, KeyStored, Stored, Peers
<1>6. \/ upd'.items = row /\ upd'.cur = None /\ upd'.todo = Stored
      \/ /\ upd'.items = upd.items
         /\ upd'.todo \subseteq upd.todo
         /\ upd'.cur \in upd.todo \cup {None}
      \/ upd'.cur = None /\ upd'.todo = {}
  <2>1. CASE ReadRows
    BY Zenon, <2>1 DEF ReadRows, IdleUpdate
  <2>2. CASE \E s \in Session : CheckItem(s)
    BY SMTT(30), <2>2 DEF CheckItem, IInv, Shape, TypeOK, UpdateState
  <2>3. CASE EndChecks \/ SendBatch \/ Requery \/ Resend
             \/ \E s \in Session : SendOne(s)
    <3>1. upd.cur = None
      BY Zenon, <2>3 DEF EndChecks, SendBatch, Requery, Resend, SendOne, IInv, Shape,
         UpdateShape
    <3>2. \/ upd' = IdleUpdate
          \/ upd'.items = upd.items /\ upd'.todo = upd.todo /\ upd'.cur = upd.cur
      <4>1. CASE EndChecks
        BY Zenon, <4>1 DEF EndChecks, IInv, Shape, TypeOK, UpdateState
      <4>2. CASE SendBatch
        BY <4>2 DEF SendBatch, IInv, Shape, TypeOK, UpdateState
      <4>3. CASE Requery
        <5>1. upd \in UpdateState
          BY Zenon DEF IInv, Shape, TypeOK
        <5>2. PICK p, still :
                upd' = IdleUpdate \/ upd' = [upd EXCEPT !.pc = p, !.batch = still]
          BY Zenon, <4>3 DEF Requery
        <5> QED
          BY ONLY Zenon, <5>1, <5>2 DEF UpdateState
      <4>4. CASE Resend
        BY Zenon, <4>4 DEF Resend, IInv, Shape, TypeOK, UpdateState
      <4>5. ASSUME NEW s \in Session, SendOne(s)
            PROVE  upd' = IdleUpdate \/ (upd'.items = upd.items
                     /\ upd'.todo = upd.todo /\ upd'.cur = upd.cur)
        BY <4>5 DEF SendOne, IInv, Shape, TypeOK, UpdateState
      <4> QED
        BY <2>3, <4>1, <4>2, <4>3, <4>4, <4>5
    <3> QED
      BY SMTT(30), <3>1, <3>2 DEF IdleUpdate
  <2> QED
    BY Zenon, <2>1, <2>2, <2>3 DEF UpdateNext
<1>7. RetiresItsOwn'
  <2>1. \A s \in Session : s \in upd'.todo \cup {upd'.cur} =>
          row[s] # None /\ row[s].key = upd'.items[s].key
    BY SMTT(30), <1>6, SessionsAssumption DEF IInv, RetiresItsOwn, Stored
  <2> QED
    BY Zenon, <1>1, <1>3, <2>1, CalmKeeps, HeldEnough
<1> QED
  BY Zenon, <1>3, <1>4, <1>5, <1>7, CalmKeeps DEF IInv

\* retire() works under the lock; the row goes only with the peer.
LEMMA RetireInv ==
  ASSUME IInv, Shape', Retire
  PROVE  IInv'
<1> DEFINE s == upd.cur
           k == upd.items[s].key
<1>1. /\ UNCHANGED <<node, lock, pc, req, set>>
      /\ upd.pc = "retire" /\ lock = None /\ node = "up"
  BY Zenon DEF Retire, IInv, Quiet, handlers
<1>2. /\ \A g \in Handler : ~InSection(g)
      /\ set.pc # "pass"
  BY Zenon, <1>1, Alone
<1>3. /\ s \in Session /\ s \notin upd.todo
      /\ s \in Stored /\ row[s].key = k
  BY Zenon, <1>1 DEF IInv, Shape, UpdateShape, TypeOK, UpdateState, RetiresItsOwn
<1>4. upd'.todo = upd.todo /\ upd'.items = upd.items /\ upd'.cur = None
  BY Zenon DEF Retire, IInv, Shape, TypeOK, UpdateState
<1>5. /\ \A x \in Key : peer'[x] # None => peer[x] # None /\ peer'[x] = peer[x]
      /\ \A x \in Key : peer'[x] # None => (x \in orphans => x \in orphans')
  BY Zenon DEF Retire, RemovePeers
<1>6. \/ UNCHANGED row
      \/ row' = [row EXCEPT ![s] = None] /\ peer' = [peer EXCEPT ![k] = None]
  <2>1. upd.removeSession => upd.removePeer
    BY Zenon DEF IInv, Shape, UpdateShape
  <2>2. RemovePeers({k}) => peer' = [peer EXCEPT ![k] = None]
    BY Zenon, <1>3 DEF RemovePeers, IInv, Shape, TypeOK, Row, Stored
  <2> QED
    BY Zenon, <2>1, <2>2 DEF Retire
<1>7. \A t \in Session : /\ row'[t] # None => row[t] # None /\ row'[t] = row[t]
                         /\ t # s => row'[t] = row[t]
  BY Zenon, <1>3, <1>6 DEF IInv, Shape, TypeOK
<1>8. Calm
  BY Zenon, <1>1, <1>5, <1>7 DEF Calm
<1>9. LockHeld' /\ Quiet' /\ AdmittedOnce'
  BY Zenon, <1>1, <1>2 DEF LockHeld, Quiet, AdmittedOnce, InSection
<1>10. MeteredPeers'
  <2>1. ASSUME NEW x \in Peers' PROVE KeyStored(x)' \/ x \in orphans'
    <3>1. x \in Key /\ x \in Peers /\ (x \in orphans => x \in orphans')
      BY Zenon, <1>5 DEF Peers
    <3>2. KeyStored(x) \/ x \in orphans
      BY <1>2, <3>1 DEF IInv, MeteredPeers, InSection
    <3>3. ASSUME NEW t \in Stored, row[t].key = x PROVE t \in Stored' /\ row'[t] = row[t]
      <4>1. CASE UNCHANGED row
        BY Zenon, <4>1 DEF Stored
      <4>2. CASE row' = [row EXCEPT ![s] = None] /\ peer' = [peer EXCEPT ![k] = None]
        <5>1. x # k
          BY <3>1, <4>2 DEF Peers, IInv, Shape, TypeOK
        <5>2. t # s
          BY Zenon, <1>3, <3>3, <5>1
        <5> QED
          BY Zenon, <1>7, <5>2 DEF Stored
      <4> QED
        BY Zenon, <1>6, <4>1, <4>2
    <3> QED
      BY Zenon, <3>1, <3>2, <3>3 DEF KeyStored
  <2> QED
    BY Zenon, <2>1 DEF MeteredPeers
<1>11. RetiresItsOwn'
  <2>1. \A t \in Session : t \in upd'.todo \cup {upd'.cur} =>
          row'[t] # None /\ row'[t].key = upd'.items[t].key
    BY <1>3, <1>4, <1>7, SessionsAssumption DEF IInv, RetiresItsOwn, Stored
  <2> QED
    BY Zenon, <1>8, <2>1, CalmKeeps, HeldEnough
<1> QED
  BY Zenon, <1>8, <1>9, <1>10, <1>11, CalmKeeps DEF IInv

\* A crash empties everything but the table; start-up empties the table.
LEMMA RestartInv ==
  ASSUME IInv, Shape', Crash \/ Reconcile \/ ClearSessions
  PROVE  IInv'
<1>1. Peers' = {} /\ \A k \in Key : peer'[k] = None
  BY Zenon DEF Crash, Reconcile, ClearSessions, IInv, Quiet, Peers
<1>2. \A h \in Handler : pc'[h] = "idle"
  BY Zenon DEF Crash, Reconcile, ClearSessions, IInv, Quiet, handlers
<1>3. set'.pc = "idle" /\ upd'.pc = "idle"
  <2>1. IdleSet.pc = "idle" /\ IdleUpdate.pc = "idle"
    BY Zenon DEF IdleSet, IdleUpdate
  <2> QED
    BY Zenon, <2>1 DEF Crash, Reconcile, ClearSessions, IInv, Quiet
<1>4. \A s \in Session : row'[s] # None => row[s] # None /\ row'[s] = row[s]
  BY Zenon DEF Crash, Reconcile, ClearSessions
<1>5. Calm
  BY Zenon, <1>1, <1>2, <1>4 DEF Calm, InSection
<1>6. LockHeld' /\ Quiet' /\ AdmittedOnce' /\ MeteredPeers'
  BY Zenon, <1>1, <1>2, <1>3 DEF LockHeld, Quiet, AdmittedOnce, MeteredPeers
<1>7. upd'.todo = {} /\ upd'.cur = None
  BY Zenon, <1>3 DEF Shape, UpdateShape
<1>8. RetiresItsOwn'
  BY Zenon, <1>5, <1>7, CalmKeeps, HeldEnough, SessionsAssumption
<1> QED
  BY Zenon, <1>5, <1>6, <1>8, CalmKeeps DEF IInv

-----------------------------------------------------------------------------
(* The invariant, and what it gives.                                       *)

\* The invariant holds when the process starts for the first time.
LEMMA InvInit == Init => IInv
<1> SUFFICES ASSUME Init PROVE IInv
  OBVIOUS
<1>1. Shape
  BY Zenon, ShapeInit
<1>2. Peers = {} /\ Stored = {} /\ (\A h \in Handler : pc[h] = "idle")
  BY Zenon DEF Init, Peers, Stored
<1>3. Cardinality(Peers) = 0
  BY Zenon, <1>2, FS_EmptySet
<1>4. MaxPeersHeld /\ RoomToAdd
  BY <1>2, <1>3, SessionsAssumption DEF MaxPeersHeld, RoomToAdd
<1>5. LockHeld /\ Quiet /\ AdmittedOnce /\ EvictedFirst
  BY Zenon, <1>2 DEF Init, IdleSet, IdleUpdate, LockHeld, Quiet, AdmittedOnce, EvictedFirst
<1>6. OnePeerPerSet /\ KeysOwned /\ MeteredPeers
  BY Zenon, <1>2 DEF OnePeerPerSet, KeysOwned, MeteredPeers
<1>7. RetiresItsOwn
  BY Zenon, SessionsAssumption DEF Init, IdleUpdate, RetiresItsOwn
<1> QED
  BY Zenon, <1>1, <1>4, <1>5, <1>6, <1>7 DEF IInv

\* Every step keeps the invariant: one lemma per group of actions above.
LEMMA InvNext == IInv /\ [Next]_vars => IInv'
<1> SUFFICES ASSUME IInv, [Next]_vars PROVE IInv'
  OBVIOUS
<1>1. Shape'
  BY Zenon, ShapeNext DEF IInv
<1>2. ASSUME NEW h \in Handler, HandlerNext(h) PROVE IInv'
  BY Zenon, <1>1, <1>2, EarlyHandlerInv, LockInv, AddPeerInv, CreateRowInv DEF HandlerNext
<1>3. CASE SetNext
  BY Zenon, <1>1, <1>3, BystanderInv, SetInv DEF SetNext
<1>4. CASE UpdateNext
  BY Zenon, <1>1, <1>4, UpdateInv, RetireInv
<1>5. CASE ChainNext \/ \E k \in Key : Traffic(k)
  BY Zenon, <1>1, <1>5, BystanderInv
<1>6. CASE Crash \/ Reconcile \/ ClearSessions
  BY Zenon, <1>1, <1>6, RestartInv
<1>7. CASE UNCHANGED vars
  <2>1. UNCHANGED <<node, peer, row, lock, pc, req, set, upd, orphans>>
    BY Zenon, <1>7 DEF vars
  <2>2. Calm
    BY <2>1 DEF Calm
  <2>3. LockHeld' /\ Quiet' /\ AdmittedOnce'
    BY Zenon, <2>1 DEF IInv, LockHeld, Quiet, AdmittedOnce, KeyStored, Stored, Peers
  <2>4. MeteredPeers'
    BY Zenon, <2>1 DEF IInv, MeteredPeers, KeyStored, Stored, Peers
  <2>5. RetiresItsOwn'
    BY Zenon, <2>1 DEF IInv, RetiresItsOwn, Stored, Peers
  <2> QED
    BY <1>1, <2>2, <2>3, <2>4, <2>5, CalmKeeps DEF IInv
<1> QED
  BY Zenon, <1>2, <1>3, <1>4, <1>5, <1>6, <1>7 DEF Next

\* The inductive invariant holds in every reachable state of the engine.
THEOREM Invariant == Spec => []IInv
BY InvInit, InvNext, PTL DEF Spec

\* The variables keep their types.
THEOREM TypeCorrect == Spec => []TypeOK
BY Invariant, PTL DEF IInv, Shape

\* Concurrent handshakes never exceed qos.max_peers (checkCapacity under the
\* admission lock).
THEOREM Capacity == Spec => []MaxPeersHeld
BY Invariant, PTL DEF IInv

\* admit() never admits one session or one key twice.
THEOREM AdmitsOnce == Spec => []AdmittedOnce
BY Invariant, PTL DEF IInv

\* admit()'s eviction leaves an account one served peer per subscription.
THEOREM OnePeer == Spec => []OnePeerPerSet
BY Invariant, PTL DEF IInv

\* No peer is served without a row outside the cases the code gives up on.
THEOREM Metered == Spec => []MeteredPeers
BY Invariant, PTL DEF IInv

\* retire() acts on the session it checked, however long ago that was.
THEOREM RetiresOwn == Spec => []RetiresItsOwn
BY Invariant, PTL DEF IInv

-----------------------------------------------------------------------------
(* The allocation.                                                         *)

\* A handler comes into the section the lock guards by taking the lock, and
\* while it is there nothing writes the table.
LEMMA Guarded ==
  ASSUME IInv, [Next]_vars, NEW h \in Handler, InSection(h)'
  PROVE  Lock(h) \/ (InSection(h) /\ req'[h] = req[h] /\ row' = row)
<1>0. pc \in [Handler -> HandlerPc] /\ req \in [Handler -> Request]
  BY Zenon DEF IInv, Shape, TypeOK
<1>1. ASSUME NEW g \in Handler, HandlerNext(g), ~Lock(h)
      PROVE  InSection(h) /\ req'[h] = req[h] /\ row' = row
  <2>1. CASE g # h
    <3>1. pc'[h] = pc[h] /\ req'[h] = req[h]
      BY Zenon, <1>0, <1>1, <2>1 DEF HandlerNext, Begin, QuerySession, QueryPlan, Lock, AddPeer,
         CreateRow, Leave
    <3>2. lock = h
      BY Zenon, <3>1 DEF IInv, LockHeld, InSection
    <3>3. row' = row
      BY Zenon, <1>1, <2>1, <3>2 DEF HandlerNext, Begin, QuerySession, QueryPlan, Lock, AddPeer,
         CreateRow, IInv, LockHeld
    <3> QED
      BY Zenon, <3>1, <3>3 DEF InSection
  <2>2. CASE g = h
    <3>1. ~Begin(h) /\ ~QuerySession(h) /\ ~QueryPlan(h) /\ ~CreateRow(h)
      BY Zenon, <1>0 DEF Begin, QuerySession, QueryPlan, CreateRow, Leave, InSection
    <3>2. AddPeer(h)
      BY Zenon, <1>1, <2>2, <3>1 DEF HandlerNext
    <3>3. ~Leave(h)
      BY Zenon, <1>0 DEF Leave, InSection
    <3> QED
      BY Zenon, <3>2, <3>3 DEF AddPeer, InSection
  <2> QED
    BY Zenon, <2>1, <2>2
<1>2. ASSUME UNCHANGED <<pc, req>>, InSection(h) /\ lock = h => row' = row
      PROVE  InSection(h) /\ req'[h] = req[h] /\ row' = row
  BY Zenon, <1>2 DEF InSection, IInv, LockHeld
<1>3. lock = h => lock # None /\ lock # "set"
  BY Zenon, SessionsAssumption
<1>4. CASE SetNext
  BY Zenon, <1>2, <1>3, <1>4
     DEF SetNext, ReadPeers, LockSet, SetPeer, UnlockSet, handlers, IInv, LockHeld
<1>5. CASE UpdateNext
  BY Zenon, <1>2, <1>3, <1>5 DEF UpdateNext, ReadRows, CheckItem, Retire, EndChecks, SendBatch,
     Requery, Resend, SendOne, handlers
<1>6. CASE ChainNext \/ \E k \in Key : Traffic(k)
  BY Zenon, <1>2, <1>6 DEF ChainNext, EndSession, EndPlan, IncludeLate, Traffic, handlers
<1>7. CASE Crash \/ Reconcile \/ ClearSessions
  BY Zenon, <1>7 DEF Crash, Reconcile, ClearSessions, handlers, IInv, Quiet, InSection
<1>8. CASE UNCHANGED vars
  BY Zenon, <1>2, <1>8 DEF vars
<1> QED
  BY Zenon, <1>1, <1>4, <1>5, <1>6, <1>7, <1>8 DEF Next

\* Every step keeps the grants within the allocation.
LEMMA GrantNext == IInv /\ GrantFits /\ [Next]_vars => GrantFits'
<1> SUFFICES ASSUME IInv, GrantFits, [Next]_vars, NEW h \in Handler, InSection(h)',
                    SubOf[req'[h].s] # 0
             PROVE  req'[h].left <= Granted - Utilised(h)'
  BY Zenon DEF GrantFits, InSection
<1>1. ASSUME row' = row, req'[h].s = req[h].s, req'[h].utilised = req[h].utilised
      PROVE  Utilised(h)' = Utilised(h)
  BY Zenon, <1>1 DEF Utilised, SameSet, Stored
<1>2. CASE InSection(h) /\ req'[h] = req[h] /\ row' = row
  BY Zenon, <1>1, <1>2 DEF GrantFits, InSection
<1>3. CASE Lock(h)
  <2>0. /\ pc \in [Handler -> HandlerPc] /\ req \in [Handler -> Request]
        /\ req[h].left \in Nat /\ Granted \in Nat
    BY SessionsAssumption DEF IInv, Shape, TypeOK, Request
  <2>1. ~Leave(h)
    BY Zenon, <2>0 DEF Leave, InSection
  <2>2. PICK left \in Available(h) : row' = row /\ req' = [req EXCEPT ![h].left = left]
    BY Zenon, <1>3, <2>1 DEF Lock
  <2>3. req'[h].s = req[h].s /\ req'[h].utilised = req[h].utilised /\ req'[h].left = left
    BY ONLY Zenon, <2>0, <2>2 DEF Request
  <2>4. PICK n \in 1..Granted :
          /\ n = Granted - Utilised(h)
          /\ left = IF req[h].left = 0 \/ n < req[h].left THEN n ELSE req[h].left
    BY Zenon, <2>2, <2>3 DEF Available
  <2>5. left <= n
    BY ONLY <2>0, <2>4
  <2> QED
    BY Zenon, <1>1, <2>2, <2>3, <2>4, <2>5
<1> QED
  BY Zenon, <1>2, <1>3, Guarded

\* What admit() grants on an allocation fits into it, with all that is stored
\* as served on it: set_sessions stores nothing between the sum and the row.
THEOREM Fits == Spec => []GrantFits
<1>1. Init => GrantFits
  BY Zenon DEF Init, GrantFits
<1> QED
  BY <1>1, GrantNext, Invariant, PTL DEF Spec
=============================================================================
