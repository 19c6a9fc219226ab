--------------------------- MODULE ServicesProofs ---------------------------
(* V2Ray, XRay and Hysteria implement PeerService for any number of keys,     *)
(* connections and bytes, and keep in step with their daemons.  The second    *)
(* half is about OpenVPN's management connection: commands and replies in     *)
(* their order, who waits for which, and what a removal's answers tell it.    *)
EXTENDS OpenVPN, TLAPS, WellFoundedInduction

-----------------------------------------------------------------------------
(* What the services keep true of their books (IInv), and that AddPeer and   *)
(* RemovePeer keep it.                                                       *)

Types ==
  /\ peers \subseteq Key /\ auth \subseteq Key
  /\ banked \in [auth -> Nat]
  /\ stats \in [Key -> Nat] /\ used \in [Key -> Nat] /\ seen \in [Key -> Nat]
  /\ tail = Zero

\* What the node and the daemon hold while AddPeer or RemovePeer is under way.
Adding ==
  /\ reg.op = "add" /\ reg.pc = "put" /\ reg.key \in Key
  /\ kind \in Grpc => reg.key \in users
  /\ kind \in Hooked => reg.key \in auth

Striking ==
  /\ reg.op = "remove" /\ reg.pc = "delete" /\ reg.key \in Key
  /\ kind \in Grpc => reg.key \notin users
  /\ kind \in Hooked => reg.key \notin auth

Kicking ==
  /\ reg.op = "remove" /\ reg.pc = "kick" /\ reg.key \in Key
  /\ kind \notin Grpc
  /\ kind \in Hooked => reg.key \notin auth /\ reg.key \notin peers

Registering == reg = Idle \/ Adding \/ Striking \/ Kicking

\* A key has an account only while it is known.
Outside == \A k \in Key : k \notin Known => seen[k] = 0

\* Nothing was shown that is not on the books, nor is anything on the books
\* that did not move: the daemon's counters, and for Hysteria the node's, what
\* was read and not yet added, and what was not yet read.
Unread(k) == IF call.pc = "delta" THEN call.delta[k] ELSE 0
Held(k) == IF k \in auth THEN banked[k] ELSE 0

Covered ==
  /\ kind \in Grpc => \A k \in Key : seen[k] <= stats[k] /\ stats[k] <= used[k]
  /\ kind \in Hooked =>
       \A k \in Key : seen[k] <= Held(k) /\ Held(k) + Unread(k) + stats[k] <= used[k]

\* What a reading has so far is no less than what was shown before, and no
\* more than the daemon has counted.
Iterating ==
  /\ call.pc = "iterating" /\ kind \in Grpc
  /\ call.todo \subseteq Key
  /\ DOMAIN call.rows \subseteq Key /\ call.rows \in [DOMAIN call.rows -> Nat]
  /\ call.todo \cup DOMAIN call.rows = peers
  /\ \A k \in DOMAIN call.rows : seen[k] <= call.rows[k] /\ call.rows[k] <= stats[k]

Counters ==
  /\ call.pc = "counters" /\ kind \in Grpc
  /\ call.counters \in [Key -> Nat]
  /\ \A k \in Key : seen[k] <= call.counters[k] /\ call.counters[k] <= stats[k]

Delta ==
  /\ call.pc = "delta" /\ kind \in Hooked
  /\ call.delta \in [Key -> Nat]

Reading == call = NoCall \/ Iterating \/ Counters \/ Delta

IInv == Types /\ Registering /\ Outside /\ Covered /\ Reading /\ InStep

Step == [Accounts!Next]_(Accounts!vars)

-----------------------------------------------------------------------------
(* AddPeer and RemovePeer.                                                   *)

\* A step of either changes who is known by at most one key, and the account
\* of a key only as PeerService does.
LEMMA EnterMaps ==
  ASSUME seen \in [Key -> Nat], Outside, Enter, used' = used, NEW k \in Key,
         Known' = Known \/ Known' = Known \cup {k} \/ Known' = Known \ {k}
  PROVE  /\ Step
         /\ Outside'
         /\ seen' \in [Key -> Nat] /\ tail' = tail
         /\ \A j \in Key : seen'[j] <= seen[j]
<1>1. seen' = [j \in Key |-> IF j \notin Known \cap Known' THEN 0 ELSE seen[j]]
      /\ tail' = tail /\ report' = report
  BY Zenon DEF Enter
<1>2. seen' \in [Key -> Nat] /\ tail' = tail /\ \A j \in Key : seen'[j] <= seen[j]
  BY <1>1
<1>3. Outside'
  BY Zenon, <1>1 DEF Outside
<1>4. seen = [j \in Key |-> seen[j]]
  BY Zenon
<1>5. CASE Known' = Known
  <2>1. seen' = seen
    BY Zenon, <1>1, <1>4, <1>5 DEF Outside
  <2> QED BY <1>1, <1>2, <1>3, <1>5, <2>1 DEF Step, Accounts!vars
<1>6. CASE Known' = Known \cup {k} /\ Known' # Known
  <2>1. seen' = seen
    BY Zenon, <1>1, <1>4, <1>6 DEF Outside
  <2>2. Accounts!Register(k)
    BY Zenon, <1>1, <1>6, <2>1 DEF Accounts!Register
  <2> QED BY <1>2, <1>3, <2>2 DEF Step, Accounts!Next
<1>7. CASE Known' = Known \ {k} /\ Known' # Known
  <2>1. seen' = [seen EXCEPT ![k] = 0]
    BY Zenon, <1>1, <1>4, <1>7 DEF Outside
  <2>2. Accounts!Forget(k)
    BY Zenon, <1>1, <1>7, <2>1 DEF Accounts!Forget
  <2> QED BY <1>2, <1>3, <2>2 DEF Step, Accounts!Next
<1> QED BY <1>5, <1>6, <1>7

\* Accounts that only shrink, with what they rest on, leave the books right.
LEMMA BooksKeep ==
  ASSUME IInv, UNCHANGED <<kind, used, stats, call>>,
         peers' \subseteq Key, auth' \subseteq Key, banked' \in [auth' -> Nat],
         seen' \in [Key -> Nat], tail' = Zero, \A j \in Key : seen'[j] <= seen[j],
         kind \in Hooked => \A j \in Key : Held(j)' <= Held(j) /\ seen'[j] <= Held(j)',
         call.pc = "iterating" => peers' = peers
  PROVE  Types' /\ Covered' /\ Reading'
<1> USE DEF IInv, Types
<1>1. Types'
  OBVIOUS
<1>2. \A j \in Key : seen[j] \in Nat /\ seen'[j] \in Nat /\ stats[j] \in Nat /\ used[j] \in Nat
  OBVIOUS
<1>3. Covered'
  <2>1. CASE kind \in Grpc
    <3>1. kind \notin Hooked
      BY Zenon, <2>1 DEF Grpc, Hooked
    <3>2. \A j \in Key : seen'[j] <= stats[j] /\ stats[j] <= used[j]
      BY <1>2, <2>1 DEF Covered
    <3> QED BY <3>1, <3>2 DEF Covered
  <2>2. CASE kind \in Hooked
    <3>1. kind \notin Grpc
      BY Zenon, <2>2 DEF Grpc, Hooked
    <3>2. \A j \in Key : Held(j) \in Nat /\ Held(j)' \in Nat
      BY Zenon DEF Held
    <3>3. \A j \in Key : Unread(j) \in Nat /\ Unread(j)' = Unread(j)
      BY DEF Unread, Reading, NoCall, Iterating, Counters, Delta
    <3>4. \A j \in Key : seen'[j] <= Held(j)' /\ Held(j)' + Unread(j)' + stats[j] <= used[j]
      BY <1>2, <2>2, <3>2, <3>3 DEF Covered
    <3> QED BY <3>1, <3>4 DEF Covered
  <2> QED BY <2>1, <2>2 DEF Covered
<1>4. Reading'
  <2>1. CASE call = NoCall
    BY Zenon, <2>1 DEF Reading, NoCall
  <2>2. CASE Iterating
    <3>1. \A j \in DOMAIN call.rows : j \in Key /\ call.rows[j] \in Nat
            /\ seen'[j] <= call.rows[j]
      BY <1>2, <2>2 DEF Iterating
    <3> QED BY <2>2, <3>1 DEF Reading, Iterating
  <2>3. CASE Counters
    <3>1. \A j \in Key : seen'[j] <= call.counters[j]
      BY <1>2, <2>3 DEF Counters
    <3> QED BY <2>3, <3>1 DEF Reading, Counters
  <2>4. CASE Delta
    BY Zenon, <2>4 DEF Reading, Delta
  <2> QED BY <2>1, <2>2, <2>3, <2>4 DEF Reading
<1> QED BY <1>1, <1>3, <1>4

\* The gRPC calls of AddPeer and RemovePeer, which change the daemon alone.
LEMMA UserKeeps ==
  ASSUME IInv, NEW k \in Key, kind \in Grpc, AddUser(k) \/ RemoveUser(k)
  PROVE  IInv' /\ Step
<1> USE DEF IInv
<1>1. /\ UNCHANGED <<kind, peers, auth, banked, call, stats, used>>
      /\ Enter /\ reg = Idle
  BY Zenon DEF AddUser, RemoveUser
<1>2. Known' = Known
  BY Zenon, <1>1 DEF Known
<1>3. Step /\ Outside' /\ seen' \in [Key -> Nat] /\ tail' = Zero
        /\ \A j \in Key : seen'[j] <= seen[j]
  BY Zenon, <1>1, <1>2, EnterMaps DEF Types
<1>4. kind \notin Hooked
  BY Zenon DEF Grpc, Hooked
<1>5. Types' /\ Covered' /\ Reading'
  BY Zenon, <1>1, <1>3, <1>4, BooksKeep DEF Types
<1>6. Registering' /\ InStep'
  <2>1. CASE AddUser(k)
    <3>1. CASE /\ users' = users \cup {k} /\ doubt' = doubt \ {k}
               /\ reg' = [op |-> "add", key |-> k, pc |-> "put"]
      BY Zenon, <1>1, <1>4, <3>1 DEF Registering, Adding, InStep, HasPeer, Idle
    <3>2. CASE users' \in {users, users \cup {k}} /\ reg' = Idle /\ doubt' = doubt \cup {k}
      BY Zenon, <1>1, <1>4, <3>2 DEF Registering, InStep, HasPeer
    <3> QED BY <2>1, <3>1, <3>2 DEF AddUser
  <2>2. CASE RemoveUser(k)
    <3>1. CASE users' = users \ {k} /\ Struck(k)
      BY Zenon, <1>1, <1>4, <3>1 DEF Registering, Striking, InStep, HasPeer, Idle, Struck
    <3>2. CASE users' \in {users, users \ {k}} /\ reg' = Idle /\ doubt' = doubt \cup {k}
      BY Zenon, <1>1, <1>4, <3>2 DEF Registering, InStep, HasPeer
    <3> QED BY <2>2, <3>1, <3>2 DEF RemoveUser
  <2> QED BY <2>1, <2>2
<1> QED BY <1>3, <1>5, <1>6

\* The PeerSet follows.
LEMMA PutKeeps ==
  ASSUME IInv, Put
  PROVE  IInv' /\ Step
<1> USE DEF IInv
<1>1. /\ UNCHANGED <<kind, auth, banked, call, users, stats, used, doubt>>
      /\ Enter /\ reg.op = "add" /\ peers' = peers \cup {reg.key} /\ reg' = Idle
      /\ call.pc # "iterating"
  BY Zenon DEF Put, daemon, Unlocked
<1>2. Adding
  BY <1>1 DEF Registering, Striking, Kicking, Idle
<1>3. Known' = Known \/ Known' = Known \cup {reg.key}
  BY Zenon, <1>1 DEF Known
<1>4. Step /\ Outside' /\ seen' \in [Key -> Nat] /\ tail' = Zero
        /\ \A j \in Key : seen'[j] <= seen[j]
  BY Zenon, <1>1, <1>2, <1>3, EnterMaps DEF Types, Adding
<1>5. kind \in Hooked => \A j \in Key : Held(j)' <= Held(j) /\ seen'[j] <= Held(j)'
  <2> SUFFICES ASSUME kind \in Hooked, NEW j \in Key
               PROVE  Held(j)' <= Held(j) /\ seen'[j] <= Held(j)'
    OBVIOUS
  <2>1. Held(j)' = Held(j) /\ Held(j) \in Nat
    BY Zenon, <1>1 DEF Held, Types
  <2>2. seen'[j] \in Nat /\ seen[j] \in Nat /\ seen'[j] <= seen[j] /\ seen[j] <= Held(j)
    BY Zenon, <1>4 DEF Covered, Types
  <2> QED BY <2>1, <2>2
<1>6. peers' \subseteq Key /\ auth' \subseteq Key /\ banked' \in [auth' -> Nat]
  BY Zenon, <1>1, <1>2 DEF Types, Adding
<1>7. Types' /\ Covered' /\ Reading'
  BY Zenon, <1>1, <1>4, <1>5, <1>6, BooksKeep
<1>8. InStep'
  BY Zenon, <1>1, <1>2 DEF InStep, HasPeer, Adding, Idle
<1> QED BY <1>1, <1>4, <1>7, <1>8 DEF Registering

\* And when a key is struck from it.
LEMMA DeleteKeeps ==
  ASSUME IInv, Delete
  PROVE  IInv' /\ Step
<1> USE DEF IInv
<1>1. /\ UNCHANGED <<kind, auth, banked, call, users, stats, used, doubt>>
      /\ Enter /\ reg.op = "remove" /\ reg.pc = "delete" /\ peers' = peers \ {reg.key}
      /\ reg' = IF kind \in Grpc THEN Idle ELSE Removing(reg.key, "kick", reg.open)
      /\ call.pc # "iterating"
  BY Zenon DEF Delete, daemon, Unlocked
<1>2. Striking
  BY <1>1 DEF Registering, Adding, Kicking, Idle
<1>3. Known' = Known \/ Known' = Known \ {reg.key}
  BY Zenon, <1>1 DEF Known
<1>4. Step /\ Outside' /\ seen' \in [Key -> Nat] /\ tail' = Zero
        /\ \A j \in Key : seen'[j] <= seen[j]
  BY Zenon, <1>1, <1>2, <1>3, EnterMaps DEF Types, Striking
<1>5. kind \in Hooked => \A j \in Key : Held(j)' <= Held(j) /\ seen'[j] <= Held(j)'
  <2> SUFFICES ASSUME kind \in Hooked, NEW j \in Key
               PROVE  Held(j)' <= Held(j) /\ seen'[j] <= Held(j)'
    OBVIOUS
  <2>1. Held(j)' = Held(j) /\ Held(j) \in Nat
    BY Zenon, <1>1 DEF Held, Types
  <2>2. seen'[j] \in Nat /\ seen[j] \in Nat /\ seen'[j] <= seen[j] /\ seen[j] <= Held(j)
    BY Zenon, <1>4 DEF Covered, Types
  <2> QED BY <2>1, <2>2
<1>6. peers' \subseteq Key /\ auth' \subseteq Key /\ banked' \in [auth' -> Nat]
  BY Zenon, <1>1 DEF Types
<1>7. Types' /\ Covered' /\ Reading'
  BY Zenon, <1>1, <1>4, <1>5, <1>6, BooksKeep
<1>8. CASE kind \in Grpc
  <2>1. kind \notin Hooked /\ reg' = Idle
    BY Zenon, <1>1, <1>8 DEF Grpc, Hooked
  <2>2. InStep'
    BY Zenon, <1>1, <1>2, <1>8, <2>1 DEF InStep, HasPeer, Striking, Idle
  <2> QED BY <1>4, <1>7, <2>1, <2>2 DEF Registering
<1>9. CASE kind \notin Grpc
  <2>1. Kicking'
    BY Zenon, <1>1, <1>2, <1>9 DEF Kicking, Striking, Removing
  <2>2. InStep'
    BY Zenon, <1>1, <1>2, <1>9 DEF InStep, HasPeer, Striking, Removing, Idle
  <2> QED BY <1>4, <1>7, <2>1, <2>2 DEF Registering
<1> QED BY <1>8, <1>9

\* Hysteria's AddPeer opens an account, or finds it open.
LEMMA HysteriaAddKeeps ==
  ASSUME IInv, NEW k \in Key, HysteriaAddPeer(k)
  PROVE  IInv' /\ Step
<1> USE DEF IInv
<1>1. /\ UNCHANGED <<kind, peers, call, users, stats, used, doubt>>
      /\ Enter /\ reg = Idle /\ kind = "hysteria"
      /\ auth' = auth \cup {k} /\ banked' = Opened(k)
      /\ reg' = [op |-> "add", key |-> k, pc |-> "put"]
  BY Zenon DEF HysteriaAddPeer, daemon
<1>2. kind \in Hooked /\ kind \notin Grpc
  BY Zenon, <1>1 DEF Hooked, Grpc
<1>3. Known' = Known \/ Known' = Known \cup {k}
  BY Zenon, <1>1 DEF Known
<1>4. Step /\ Outside' /\ seen' \in [Key -> Nat] /\ tail' = Zero
        /\ \A j \in Key : seen'[j] <= seen[j]
  BY Zenon, <1>1, <1>3, EnterMaps DEF Types
<1>5. /\ banked' \in [auth' -> Nat]
      /\ \A j \in Key : Held(j)' = Held(j) /\ Held(j) \in Nat
  <2>1. CASE k \in auth
    <3>1. banked' = banked /\ auth' = auth
      BY Zenon, <1>1, <2>1 DEF Opened, Types
    <3> QED BY <3>1 DEF Held, Types
  <2>2. CASE k \notin auth
    <3>1. banked' = [j \in auth \cup {k} |-> IF j = k THEN 0 ELSE banked[j]]
      BY Zenon, <1>1, <2>2 DEF Opened, Set, Types
    <3> QED BY <1>1, <2>2, <3>1 DEF Held, Types
  <2> QED BY <2>1, <2>2
<1>6. \A j \in Key : Held(j)' <= Held(j) /\ seen'[j] <= Held(j)'
  <2> SUFFICES ASSUME NEW j \in Key PROVE Held(j)' <= Held(j) /\ seen'[j] <= Held(j)'
    OBVIOUS
  <2>1. seen'[j] \in Nat /\ seen[j] \in Nat /\ seen'[j] <= seen[j] /\ seen[j] <= Held(j)
    BY Zenon, <1>2, <1>4 DEF Covered, Types
  <2> QED BY <2>1, <1>5
<1>7. peers' \subseteq Key /\ auth' \subseteq Key
  BY Zenon, <1>1 DEF Types
<1>8. Types' /\ Covered' /\ Reading'
  BY Zenon, <1>1, <1>4, <1>5, <1>6, <1>7, BooksKeep
<1>9. Registering' /\ InStep'
  BY Zenon, <1>1, <1>2 DEF Registering, Adding, InStep, HasPeer, Idle
<1> QED BY <1>4, <1>8, <1>9

\* Its RemovePeer closes it.
LEMMA HysteriaRemoveKeeps ==
  ASSUME IInv, NEW k \in Key, HysteriaRemovePeer(k)
  PROVE  IInv' /\ Step
<1> USE DEF IInv
<1>1. /\ UNCHANGED <<kind, peers, call, users, stats, used, doubt>>
      /\ Enter /\ reg = Idle /\ kind = "hysteria"
      /\ auth' = auth \ {k} /\ banked' = [j \in DOMAIN banked \ {k} |-> banked[j]]
      /\ \E n : reg' = Removing(k, "delete", n)
  BY Zenon DEF HysteriaRemovePeer, Strike, daemon, Restrict
<1>2. kind \in Hooked /\ kind \notin Grpc
  BY Zenon, <1>1 DEF Hooked, Grpc
<1>3. Known' = Known \/ Known' = Known \ {k}
  BY Zenon, <1>1 DEF Known
<1>4. Step /\ Outside' /\ seen' \in [Key -> Nat] /\ tail' = Zero
        /\ \A j \in Key : seen'[j] <= seen[j]
  BY Zenon, <1>1, <1>3, EnterMaps DEF Types
<1>5. /\ banked' \in [auth' -> Nat]
      /\ \A j \in Key : Held(j) \in Nat /\ Held(j)' = IF j = k THEN 0 ELSE Held(j)
  BY Zenon, <1>1 DEF Held, Types
<1>6. \A j \in Key : Held(j)' <= Held(j) /\ seen'[j] <= Held(j)'
  <2> SUFFICES ASSUME NEW j \in Key PROVE Held(j)' <= Held(j) /\ seen'[j] <= Held(j)'
    OBVIOUS
  <2>1. seen'[j] \in Nat /\ seen[j] \in Nat /\ seen'[j] <= seen[j] /\ seen[j] <= Held(j)
    BY Zenon, <1>2, <1>4 DEF Covered, Types
  <2>2. j = k => seen'[j] = 0
    BY Zenon, <1>1, <1>2, <1>4 DEF Outside, Known
  <2> QED BY <2>1, <2>2, <1>5
<1>7. peers' \subseteq Key /\ auth' \subseteq Key
  BY Zenon, <1>1 DEF Types
<1>8. Types' /\ Covered' /\ Reading'
  BY Zenon, <1>1, <1>4, <1>5, <1>6, <1>7, BooksKeep
<1>9. Registering' /\ InStep'
  BY <1>1, <1>2 DEF Registering, Striking, Removing, InStep, HasPeer, Idle
<1> QED BY <1>4, <1>8, <1>9

\* The kick of a removed peer's connections, answered or not.
LEMMA HysteriaKickKeeps ==
  ASSUME IInv, HysteriaKick
  PROVE  IInv' /\ Step
<1> USE DEF IInv
<1>1. /\ UNCHANGED <<kind, peers, auth, banked, call, users, stats, used, doubt>>
      /\ Enter /\ reg.op = "remove" /\ reg.pc = "kick" /\ reg' = Idle /\ kind = "hysteria"
  BY Zenon DEF HysteriaKick
<1>2. Kicking /\ kind \in Hooked /\ kind \notin Grpc
  BY <1>1 DEF Registering, Adding, Striking, Idle, Hooked, Grpc
<1>3. Known' = Known /\ reg.key \in Key
  BY Zenon, <1>1, <1>2 DEF Known, Kicking
<1>4. Step /\ Outside' /\ seen' \in [Key -> Nat] /\ tail' = Zero
        /\ \A j \in Key : seen'[j] <= seen[j]
  BY Zenon, <1>1, <1>3, EnterMaps DEF Types
<1>5. \A j \in Key : Held(j)' <= Held(j) /\ seen'[j] <= Held(j)'
  <2> SUFFICES ASSUME NEW j \in Key PROVE Held(j)' <= Held(j) /\ seen'[j] <= Held(j)'
    OBVIOUS
  <2>1. Held(j)' = Held(j) /\ Held(j) \in Nat
    BY Zenon, <1>1 DEF Held, Types
  <2>2. seen'[j] \in Nat /\ seen[j] \in Nat /\ seen'[j] <= seen[j] /\ seen[j] <= Held(j)
    BY Zenon, <1>2, <1>4 DEF Covered, Types
  <2> QED BY <2>1, <2>2
<1>6. Types' /\ Covered' /\ Reading'
  BY Zenon, <1>1, <1>4, <1>5, BooksKeep DEF Types
<1>7. Registering' /\ InStep'
  BY Zenon, <1>1, <1>2 DEF Registering, Kicking, InStep, HasPeer, Idle
<1> QED BY <1>4, <1>6, <1>7

-----------------------------------------------------------------------------
(* Readings.                                                                 *)

\* Neither the node's books nor the daemon's users are touched by a reading.
LEMMA ReadingElsewhere ==
  ASSUME IInv, UNCHANGED <<kind, peers, auth, reg, users, doubt>>
  PROVE  Registering' /\ InStep' /\ Known' = Known
<1>1. Registering'
  BY Zenon DEF IInv, Registering, Adding, Striking, Kicking
<1>2. InStep'
  BY Zenon DEF IInv, InStep, HasPeer
<1>3. Known' = Known
  BY Zenon DEF Known
<1> QED BY <1>1, <1>2, <1>3

\* A report that covers the known keys, and lies between what was shown and
\* what was moved, is one PeerService allows.
LEMMA ReturnMaps ==
  ASSUME IInv, NEW r, Return(r), used' = used, Known' = Known,
         r \in [DOMAIN r -> Nat], DOMAIN r \subseteq Key, Known \subseteq DOMAIN r,
         \A k \in DOMAIN r : r[k] <= used[k],
         \A k \in Known : seen[k] <= r[k]
  PROVE  /\ Step
         /\ Outside' /\ seen' \in [Key -> Nat] /\ tail' = Zero /\ call' = NoCall
         /\ \A k \in Key : seen'[k] = IF k \in Known THEN r[k] ELSE seen[k]
<1> USE DEF IInv
<1>1. /\ call' = NoCall /\ report' = r /\ tail' = Zero
      /\ seen' = [k \in Key |-> IF k \in Known /\ r[k] - tail[k] > seen[k]
                                THEN r[k] - tail[k] ELSE seen[k]]
  BY Zenon DEF Return
<1>2. \A k \in Key : tail[k] = 0 /\ seen[k] \in Nat /\ used[k] \in Nat
  BY Zenon DEF Types, Zero
<1>3. \A k \in Known : k \in Key /\ r[k] \in Nat
  OBVIOUS
<1>4. \A k \in Key : seen'[k] = IF k \in Known THEN r[k] ELSE seen[k]
  BY <1>1, <1>2, <1>3
<1>5. seen' \in [Key -> Nat] /\ Outside'
  <2>1. seen' \in [Key -> Nat]
    BY <1>1, <1>2, <1>3
  <2> QED BY <1>4, <2>1 DEF Outside
<1>6. Accounts!Report
  <2>1. \E S \in SUBSET Key : report' \in [S -> Nat]
    BY Zenon, <1>1
  <2>2. Accounts!Fits(report')
    BY <1>1, <1>2 DEF Accounts!Fits
  <2>3. seen' = [k \in Key |-> IF k \in Known /\ report'[k] - tail[k] > seen[k]
                                THEN report'[k] - tail[k] ELSE seen[k]]
    BY Zenon, <1>1
  <2> QED BY <1>1, <2>1, <2>2, <2>3 DEF Accounts!Report, Accounts!Zero, Zero
<1> QED BY <1>1, <1>4, <1>5, <1>6 DEF Step, Accounts!Next

\* A reading that starts, fails or goes on leaves what was shown alone.
LEMMA BeginMaps ==
  ASSUME UNCHANGED <<used, tail, seen>>, Known' = Known, report' = <<>> \/ report' = report
  PROVE  Step
<1>1. CASE report' = <<>>
  BY Zenon, <1>1 DEF Step, Accounts!Next, Accounts!Begin
<1>2. CASE report' = report
  BY Zenon, <1>2 DEF Step, Accounts!vars
<1> QED BY <1>1, <1>2

\* V2Ray's reading, one key at a time: under the read lock nobody comes or goes.
LEMMA V2RayKeeps ==
  ASSUME IInv, V2RayPeers \/ (\E k \in Key : GetStats(k)) \/ V2RayItems
  PROVE  IInv' /\ Step
<1> USE DEF IInv
<1>1. UNCHANGED <<kind, peers, auth, banked, reg, users, stats, used, doubt>>
  BY Zenon DEF V2RayPeers, GetStats, V2RayItems, daemon
<1>2. Registering' /\ InStep' /\ Known' = Known
  BY Zenon, <1>1, ReadingElsewhere
<1>3. CASE V2RayPeers
  <2>1. /\ kind = "v2ray" /\ call' = [pc |-> "iterating", todo |-> peers, rows |-> <<>>]
        /\ report' = <<>> /\ UNCHANGED <<tail, seen>>
    BY Zenon, <1>3 DEF V2RayPeers, Begin
  <2>2. kind \in Grpc /\ kind \notin Hooked
    BY Zenon, <2>1 DEF Grpc, Hooked
  <2>3. DOMAIN call'.rows = {} /\ call'.rows \in [DOMAIN call'.rows -> Nat]
    BY <2>1
  <2>4. Iterating'
    BY Zenon, <1>1, <2>1, <2>2, <2>3 DEF Iterating, Types
  <2>5. Types' /\ Outside' /\ Covered'
    BY Zenon, <1>1, <1>2, <2>1, <2>2 DEF Types, Outside, Covered
  <2> QED BY <1>1, <1>2, <2>1, <2>4, <2>5, BeginMaps DEF Reading
<1>4. ASSUME NEW k \in Key, GetStats(k) PROVE IInv' /\ Step
  <2>1. call.pc = "iterating" /\ k \in call.todo
    BY Zenon, <1>4 DEF GetStats
  <2>2. Iterating
    BY <2>1 DEF Reading, NoCall, Counters, Delta
  <2>3. kind \in Grpc /\ kind \notin Hooked
    BY Zenon, <2>2 DEF Iterating, Grpc, Hooked
  <2>4. UNCHANGED <<tail, report, seen>>
    BY Zenon, <1>4 DEF GetStats, Fail, account
  <2>5. Types' /\ Outside' /\ Covered'
    BY Zenon, <1>1, <1>2, <2>3, <2>4 DEF Types, Outside, Covered
  <2>6. Reading'
    <3>1. CASE call' = NoCall
      BY Zenon, <3>1 DEF Reading
    <3>2. CASE call' = [pc |-> "iterating", todo |-> call.todo \ {k},
                 rows |-> Set(call.rows, k, stats[k])]
      <4>1. call'.rows = [j \in DOMAIN call.rows \cup {k} |->
                           IF j = k THEN stats[k] ELSE call.rows[j]]
        BY Zenon, <3>2 DEF Set
      <4>2. seen[k] <= stats[k] /\ stats[k] <= used[k] /\ stats[k] \in Nat
        BY Zenon, <2>3 DEF Covered, Types
      <4>3. DOMAIN call'.rows = DOMAIN call.rows \cup {k}
              /\ call'.rows \in [DOMAIN call'.rows -> Nat]
        BY Zenon, <2>2, <4>1, <4>2 DEF Iterating
      <4>4. \A j \in DOMAIN call'.rows : seen'[j] <= call'.rows[j] /\ call'.rows[j] <= stats'[j]
        BY <1>1, <2>2, <2>4, <4>1, <4>2 DEF Iterating
      <4>5. call'.pc = "iterating" /\ call'.todo = call.todo \ {k}
        BY Zenon, <3>2
      <4>6. Iterating'
        BY Zenon, <1>1, <2>1, <2>2, <4>3, <4>4, <4>5 DEF Iterating
      <4> QED BY <4>6 DEF Reading
    <3> QED BY <1>4, <3>1, <3>2 DEF GetStats, Fail
  <2> QED BY <1>1, <1>2, <2>4, <2>5, <2>6, BeginMaps
<1>5. CASE V2RayItems
  <2>1. call.pc = "iterating" /\ call.todo = {} /\ Return(call.rows)
    BY Zenon, <1>5 DEF V2RayItems
  <2>2. Iterating
    BY <2>1 DEF Reading, NoCall, Counters, Delta
  <2>3. kind \in Grpc /\ kind \notin Hooked /\ Known = peers /\ DOMAIN call.rows = peers
    BY Zenon, <2>1, <2>2 DEF Iterating, Grpc, Hooked, Known
  <2>4. /\ Step /\ Outside' /\ seen' \in [Key -> Nat] /\ tail' = Zero /\ call' = NoCall
        /\ \A k \in Key : seen'[k] = IF k \in Known THEN call.rows[k] ELSE seen[k]
    <3>1. \A k \in DOMAIN call.rows : call.rows[k] <= used[k]
      BY <2>2, <2>3 DEF Iterating, Covered, Types
    <3> QED BY <1>1, <1>2, <2>1, <2>2, <2>3, <3>1, ReturnMaps DEF Iterating
  <2>5. Types'
    BY Zenon, <1>1, <2>4 DEF Types
  <2>6. \A k \in DOMAIN call.rows : call.rows[k] <= stats[k]
    BY Zenon, <2>2 DEF Iterating
  <2>7. Covered'
    BY Zenon, <1>1, <2>3, <2>4, <2>6 DEF Covered
  <2> QED BY <1>2, <2>4, <2>5, <2>7 DEF Reading
<1> QED BY <1>3, <1>4, <1>5

\* XRay's reading, in one answer that may be older than the registered keys.
LEMMA XRayKeeps ==
  ASSUME IInv, XRayPeers \/ XRayItems
  PROVE  IInv' /\ Step
<1> USE DEF IInv
<1>1. UNCHANGED <<kind, peers, auth, banked, reg, users, stats, used, doubt>>
  BY Zenon DEF XRayPeers, XRayItems, daemon
<1>2. Registering' /\ InStep' /\ Known' = Known
  BY Zenon, <1>1, ReadingElsewhere
<1>3. CASE XRayPeers
  <2>1. /\ kind = "xray" /\ call' = [pc |-> "counters", counters |-> stats]
        /\ report' = <<>> /\ UNCHANGED <<tail, seen>>
    BY Zenon, <1>3 DEF XRayPeers, Begin
  <2>2. kind \in Grpc /\ kind \notin Hooked
    BY Zenon, <2>1 DEF Grpc, Hooked
  <2>3. Counters'
    BY <1>1, <2>1, <2>2 DEF Counters, Covered, Types
  <2>4. Types' /\ Outside' /\ Covered'
    BY Zenon, <1>1, <1>2, <2>1, <2>2 DEF Types, Outside, Covered
  <2> QED BY <1>1, <1>2, <2>1, <2>3, <2>4, BeginMaps DEF Reading
<1>4. CASE XRayItems
  <2> DEFINE r == [k \in peers |-> call.counters[k]]
  <2>1. call.pc = "counters" /\ Return(r)
    BY Zenon, <1>4 DEF XRayItems
  <2>2. Counters
    BY <2>1 DEF Reading, NoCall, Iterating, Delta
  <2>3. kind \in Grpc /\ kind \notin Hooked /\ Known = peers /\ peers \subseteq Key
    BY Zenon, <2>2 DEF Counters, Grpc, Hooked, Known, Types
  <2>4. /\ r \in [DOMAIN r -> Nat] /\ DOMAIN r = peers
        /\ \A k \in peers : seen[k] <= r[k] /\ r[k] <= stats[k] /\ r[k] <= used[k]
    BY <2>2, <2>3 DEF Counters, Covered, Types
  <2> HIDE DEF r
  <2>5. /\ Step /\ Outside' /\ seen' \in [Key -> Nat] /\ tail' = Zero /\ call' = NoCall
        /\ \A k \in Key : seen'[k] = IF k \in Known THEN r[k] ELSE seen[k]
    BY Zenon, <1>1, <1>2, <2>1, <2>3, <2>4, ReturnMaps
  <2>6. Types'
    BY Zenon, <1>1, <2>5 DEF Types
  <2>7. Covered'
    BY Zenon, <1>1, <2>3, <2>4, <2>5 DEF Covered
  <2> QED BY <1>2, <2>5, <2>6, <2>7 DEF Reading
<1> QED BY <1>3, <1>4

\* Hysteria's counters go from the daemon to the reading, and from there to
\* the accounts.
LEMMA HysteriaReadKeeps ==
  ASSUME IInv, HysteriaPeers
  PROVE  IInv' /\ Step
<1> USE DEF IInv
<1>1. /\ UNCHANGED <<kind, peers, auth, banked, reg, users, used, doubt, tail, seen>>
      /\ stats' = Zero /\ kind = "hysteria" /\ call = NoCall
      /\ report' = <<>> \/ report' = report
      /\ call' = NoCall \/ call' = [pc |-> "delta", delta |-> stats]
  BY Zenon DEF HysteriaPeers, Begin
<1>2. Registering' /\ InStep' /\ Known' = Known
  BY Zenon, <1>1, ReadingElsewhere
<1>3. kind \in Hooked /\ kind \notin Grpc
  BY Zenon, <1>1 DEF Hooked, Grpc
<1>4. Types' /\ Outside'
  BY Zenon, <1>1, <1>2 DEF Types, Outside, Zero
<1>5. Reading'
  BY <1>1, <1>3 DEF Reading, Delta, Types
<1>6. Covered'
  <2> SUFFICES ASSUME NEW k \in Key
               PROVE  seen'[k] <= Held(k)' /\ Held(k)' + Unread(k)' + stats'[k] <= used'[k]
    BY Zenon, <1>1, <1>3 DEF Covered
  <2>1. Held(k)' = Held(k) /\ Held(k) \in Nat /\ stats[k] \in Nat /\ used[k] \in Nat
    BY Zenon, <1>1 DEF Held, Types
  <2>2. Unread(k) = 0 /\ stats'[k] = 0 /\ Unread(k)' \in {0, stats[k]}
    BY <1>1 DEF Unread, NoCall, Zero
  <2>3. seen[k] <= Held(k) /\ Held(k) + Unread(k) + stats[k] <= used[k]
    BY Zenon, <1>3 DEF Covered
  <2> QED BY <1>1, <2>1, <2>2, <2>3
<1> QED BY <1>1, <1>2, <1>4, <1>5, <1>6, BeginMaps

\* What was read is added to the accounts that are still open, and reported.
LEMMA HysteriaItemsKeeps ==
  ASSUME IInv, HysteriaItems
  PROVE  IInv' /\ Step
<1> USE DEF IInv
<1> DEFINE r == [k \in peers |-> IF k \in DOMAIN banked THEN Accumulated(call.delta)[k] ELSE 0]
<1>1. /\ UNCHANGED <<kind, peers, auth, reg, users, stats, used, doubt>>
      /\ call.pc = "delta" /\ banked' = Accumulated(call.delta) /\ Return(r)
  BY Zenon DEF HysteriaItems, daemon
<1>2. Registering' /\ InStep' /\ Known' = Known
  BY Zenon, <1>1, ReadingElsewhere
<1>3. Delta /\ kind \in Hooked /\ kind \notin Grpc
  BY <1>1 DEF Reading, NoCall, Iterating, Counters, Delta, Hooked, Grpc
<1>4. DOMAIN banked = auth /\ banked' = [k \in auth |-> banked[k] + call.delta[k]]
  BY Zenon, <1>1 DEF Types, Accumulated
<1>5. /\ banked' \in [auth -> Nat]
      /\ \A k \in auth : k \in Key /\ banked'[k] = banked[k] + call.delta[k]
  BY <1>3, <1>4 DEF Types, Delta
<1>6. \A k \in Key :
        /\ Held(k) \in Nat /\ call.delta[k] \in Nat /\ stats[k] \in Nat /\ used[k] \in Nat
                     /\ seen[k] \in Nat /\ Unread(k) = call.delta[k]
                     /\ seen[k] <= Held(k) /\ Held(k) + call.delta[k] + stats[k] <= used[k]
  BY Zenon, <1>1, <1>3 DEF Held, Unread, Types, Covered, Delta
<1>7. /\ DOMAIN r = peers /\ peers \subseteq Key /\ Known = peers \cap auth
      /\ \A k \in peers : r[k] = IF k \in auth THEN Held(k) + call.delta[k] ELSE 0
  BY Zenon, <1>1, <1>3, <1>4, <1>5 DEF Types, Known, Held
<1> HIDE DEF r
<1>8. r \in [DOMAIN r -> Nat]
  <2>1. r = [k \in peers |-> r[k]]
    BY Zenon DEF r
  <2> QED BY <1>6, <1>7, <2>1
<1>9. \A k \in peers : r[k] <= used[k] /\ (k \in Known => seen[k] <= r[k])
  BY <1>6, <1>7
<1>10. /\ Step /\ Outside' /\ seen' \in [Key -> Nat] /\ tail' = Zero /\ call' = NoCall
       /\ \A k \in Key : seen'[k] = IF k \in Known THEN r[k] ELSE seen[k]
  BY Zenon, <1>1, <1>2, <1>7, <1>8, <1>9, ReturnMaps
<1>11. Types'
  BY Zenon, <1>1, <1>5, <1>10 DEF Types
<1>12. Covered'
  <2> SUFFICES ASSUME NEW k \in Key
               PROVE  seen'[k] <= Held(k)' /\ Held(k)' + Unread(k)' + stats'[k] <= used'[k]
    BY Zenon, <1>1, <1>3 DEF Covered
  <2>1. Unread(k)' = 0
    BY Zenon, <1>10 DEF Unread, NoCall
  <2>2. Held(k)' = IF k \in auth THEN Held(k) + call.delta[k] ELSE 0
    BY Zenon, <1>1, <1>5 DEF Held
  <2>3. k \notin auth => Held(k) = 0
    BY Zenon DEF Held
  <2>4. /\ Held(k) \in Nat /\ call.delta[k] \in Nat /\ stats[k] \in Nat /\ used[k] \in Nat
        /\ seen[k] \in Nat /\ seen[k] <= Held(k)
        /\ Held(k) + call.delta[k] + stats[k] <= used[k]
    BY ONLY Zenon, <1>6, k \in Key
  <2>5. seen'[k] = IF k \in peers /\ k \in auth THEN Held(k) + call.delta[k] ELSE seen[k]
    BY ONLY Zenon, <1>7, <1>10, k \in Key
  <2>6. stats'[k] = stats[k] /\ used'[k] = used[k]
    BY ONLY Zenon, <1>1
  <2> QED BY ONLY SMTT(30), <2>1, <2>2, <2>3, <2>4, <2>5, <2>6
<1> QED BY <1>2, <1>10, <1>11, <1>12 DEF Reading

-----------------------------------------------------------------------------
(* Clients, and the refinement.                                              *)

\* A byte moves: it is counted at the daemon and owed by nobody else.
LEMMA UseKeeps ==
  ASSUME IInv, NEW k \in Key, Use(k)
  PROVE  IInv' /\ Step
<1> USE DEF IInv
<1>1. /\ UNCHANGED <<kind, peers, auth, banked, reg, call, users, tail, report, seen, doubt>>
      /\ used' = [used EXCEPT ![k] = @ + 1]
      /\ stats' = stats \/ stats' = [stats EXCEPT ![k] = @ + 1]
  BY Zenon DEF Use, node
<1>2. Registering' /\ InStep' /\ Known' = Known
  BY Zenon, <1>1, ReadingElsewhere
<1>3. Step
  BY Zenon, <1>1, <1>2 DEF Step, Accounts!Next, Accounts!Use
<1>4. Types' /\ Outside'
  BY <1>1, <1>2 DEF Types, Outside
<1>5. \A j \in Key : /\ stats[j] \in Nat /\ used[j] \in Nat /\ seen[j] \in Nat
                     /\ \E n \in {0, 1} : stats'[j] = stats[j] + n /\ used'[j] >= used[j] + n
  BY <1>1 DEF Types
<1>6. Covered'
  <2>1. CASE kind \in Grpc
    <3>1. kind \notin Hooked
      BY Zenon, <2>1 DEF Grpc, Hooked
    <3>2. \A j \in Key : seen[j] <= stats'[j] /\ stats'[j] <= used'[j]
      BY <1>4, <1>5, <2>1 DEF Covered, Types
    <3> QED BY <1>1, <3>1, <3>2 DEF Covered
  <2>2. CASE kind \in Hooked
    <3>1. kind \notin Grpc
      BY Zenon, <2>2 DEF Grpc, Hooked
    <3>2. \A j \in Key : Held(j) \in Nat /\ Held(j)' = Held(j)
      BY Zenon, <1>1 DEF Held, Types
    <3>3. \A j \in Key : Unread(j) \in Nat /\ Unread(j)' = Unread(j)
      BY <1>1 DEF Unread, Reading, NoCall, Iterating, Counters, Delta
    <3>4. \A j \in Key : seen[j] <= Held(j) /\ Held(j) + Unread(j) + stats'[j] <= used'[j]
      BY <1>4, <1>5, <2>2, <3>2, <3>3 DEF Covered, Types
    <3> QED BY <1>1, <3>1, <3>2, <3>3, <3>4 DEF Covered
  <2> QED BY <1>1, <2>1, <2>2 DEF Covered
<1>7. Reading'
  <2>1. \A j \in Key : stats[j] <= stats'[j] /\ stats'[j] \in Nat
    BY <1>4, <1>5 DEF Types
  <2>2. CASE call = NoCall
    BY Zenon, <1>1, <2>2 DEF Reading
  <2>3. CASE Iterating
    <3>1. \A j \in DOMAIN call.rows : j \in Key /\ call.rows[j] \in Nat
            /\ call.rows[j] <= stats'[j]
      <4>1. /\ DOMAIN call.rows \subseteq Key
            /\ \A j \in DOMAIN call.rows : call.rows[j] \in Nat /\ call.rows[j] <= stats[j]
        BY ONLY Zenon, <2>3 DEF Iterating
      <4>2. \A j \in Key : stats[j] \in Nat /\ stats'[j] \in Nat /\ stats[j] <= stats'[j]
        BY ONLY Zenon, <1>5, <2>1
      <4> QED BY ONLY <4>1, <4>2
    <3> QED BY <1>1, <2>3, <3>1 DEF Reading, Iterating
  <2>4. CASE Counters
    <3>1. \A j \in Key : call.counters[j] \in Nat /\ call.counters[j] <= stats'[j]
      BY <1>5, <2>1, <2>4 DEF Counters
    <3> QED BY <1>1, <2>4, <3>1 DEF Reading, Counters
  <2>5. CASE Delta
    BY Zenon, <1>1, <2>5 DEF Reading, Delta
  <2> QED BY <2>2, <2>3, <2>4, <2>5 DEF Reading
<1> QED BY <1>2, <1>3, <1>4, <1>6, <1>7

\* Steps that only change connections, and stuttering.
LEMMA LinkKeeps ==
  ASSUME IInv, UNCHANGED <<kind, node, users, stats, used, tail, report, seen, doubt>>
  PROVE  IInv' /\ Step
<1>1. UNCHANGED <<kind, peers, auth, banked, reg, call, users, stats, used, tail, report,
        seen, doubt>>
  BY Zenon DEF node
<1>2. Registering' /\ InStep' /\ Known' = Known
  BY Zenon, <1>1, ReadingElsewhere
<1>3. Types' /\ Outside' /\ Covered'
  BY Zenon, <1>1, <1>2 DEF IInv, Types, Outside, Covered, Held, Unread
<1>4. Reading'
  BY Zenon, <1>1 DEF IInv, Reading, Iterating, Counters, Delta
<1>5. Step
  BY Zenon, <1>1, <1>2 DEF Step, Accounts!vars
<1> QED BY <1>2, <1>3, <1>4, <1>5 DEF IInv

\* Every step of the three services keeps the invariant, and is a step of
\* PeerService or none.
LEMMA ProxyKeeps ==
  ASSUME IInv, [ProxyNext]_svars
  PROVE  IInv' /\ Step
<1>1. CASE UNCHANGED svars
  BY Zenon, <1>1, LinkKeeps DEF svars, history, account, daemon
<1>2. ASSUME NEW k \in Key,
             V2RayAddPeer(k) \/ V2RayRemovePeer(k) \/ XRayAddPeer(k) \/ XRayRemovePeer(k)
      PROVE  IInv' /\ Step
  <2>1. kind \in Grpc /\ (AddUser(k) \/ RemoveUser(k))
    BY Zenon, <1>2 DEF V2RayAddPeer, V2RayRemovePeer, XRayAddPeer, XRayRemovePeer, Grpc
  <2> QED BY <2>1, UserKeeps
<1>3. ASSUME NEW k \in Key, Connect(k) \/ HandleAuth(k) \/ Establish(k) \/ Leave(k)
      PROVE  IInv' /\ Step
  <2>1. UNCHANGED <<kind, node, users, stats, used, tail, report, seen, doubt>>
    BY Zenon, <1>3 DEF Connect, HandleAuth, Establish, Leave, history, account
  <2> QED BY <2>1, LinkKeeps
<1> QED
  BY Zenon, <1>1, <1>2, <1>3, HysteriaAddKeeps, HysteriaRemoveKeeps, HysteriaKickKeeps,
     UseKeeps, PutKeeps,
     DeleteKeeps, V2RayKeeps, XRayKeeps, HysteriaReadKeeps, HysteriaItemsKeeps DEF ProxyNext

\* A service that has just started owes nothing.
LEMMA InitKeeps == Init => IInv /\ Accounts!Init
<1> SUFFICES ASSUME Init PROVE IInv /\ Accounts!Init
  OBVIOUS
<1>1. Types /\ Registering /\ Outside /\ Reading
  BY DEF Init, Types, Registering, Outside, Reading, Zero
<1>2. Covered /\ InStep
  BY DEF Init, Covered, Held, Unread, NoCall, Zero, InStep, HasPeer
<1>3. Accounts!Init
  BY Zenon DEF Init, Accounts!Init, Accounts!Zero, Zero, Known
<1> QED BY <1>1, <1>2, <1>3 DEF IInv

\* The invariant of the three services: see IInv for its parts.
THEOREM ProxyInvariance == ProxySpec => []IInv
<1>1. IInv /\ [ProxyNext]_svars => IInv'
  BY Zenon, ProxyKeeps
<1> QED BY <1>1, InitKeeps, PTL DEF ProxySpec

\* V2Ray, XRay and Hysteria implement PeerService: whatever is added, removed,
\* lost or read at the same time, Peers() lists every peer, charges nobody with
\* more than they moved and takes nothing back.
THEOREM ProxyPromise == ProxySpec => Promise
<1>1. IInv /\ [ProxyNext]_svars => [Accounts!Next]_(Accounts!vars)
  BY Zenon, ProxyKeeps DEF Step
<1> QED BY <1>1, InitKeeps, ProxyInvariance, PTL DEF ProxySpec, Promise, Accounts!Spec

\* Between calls, and unless the last one for a key returned an error, the node
\* and the daemon agree on who is registered.
THEOREM ProxyInStep == ProxySpec => []InStep
<1>1. IInv => InStep
  BY Zenon DEF IInv
<1> QED BY <1>1, ProxyInvariance, PTL

-----------------------------------------------------------------------------
(* OpenVPN: what is on the wire.                                             *)

Commands ==
  {Status} \cup [name: {"client-kill", "client-auth-nt", "client-deny"}, key: Key, id: Nat]
Tables == UNION {[S -> [id: Nat, bytes: Nat]] : S \in SUBSET Key}
Answers == [type: {"reply"}, command: Commands, rows: Tables \cup {<<>>}]
Events == [type: {"CONNECT", "REAUTH", "DISCONNECT"}, key: Key, id: Nat, bytes: Nat]
Waiters == [who: {"reg", "peers", "nobody"}, command: Commands]
Links ==
  [state: {"none", "asking", "admitted", "up", "renewing", "killed"}, id: Nat, bytes: Nat]

-----------------------------------------------------------------------------
(* Sequences, and the replies in them.                                       *)

Appended(s, x, t) ==
  /\ Len(t) = Len(s) + 1 /\ t[Len(s) + 1] = x
  /\ Len(s) \in Nat /\ DOMAIN s = 1..Len(s) /\ DOMAIN t = 1..Len(t)
  /\ \A i \in DOMAIN s : i \in DOMAIN t /\ t[i] = s[i]

\* An entry more at the end.
LEMMA Appending ==
  ASSUME NEW S, NEW s \in Seq(S), NEW x \in S
  PROVE  Append(s, x) \in Seq(S) /\ Appended(s, x, Append(s, x))
BY DEF Appended

Shifted(s, t) ==
  /\ Len(s) \in Nat /\ Len(s) = Len(t) + 1 /\ Len(t) \in Nat
  /\ DOMAIN s = 1..Len(s) /\ DOMAIN t = 1..Len(t) /\ 1 \in DOMAIN s
  /\ Head(s) = s[1]
  /\ \A i \in DOMAIN t : i + 1 \in DOMAIN s /\ t[i] = s[i + 1]

\* The first entry gone.
LEMMA Shifting ==
  ASSUME NEW S, NEW s \in Seq(S), s # <<>>
  PROVE  Tail(s) \in Seq(S) /\ Shifted(s, Tail(s)) /\ Head(s) \in S
BY DEF Shifted

-----------------------------------------------------------------------------
(* Counting.                                                                 *)

\* Every non-empty set of naturals has a least element.
LEMMA LeastNat ==
  ASSUME NEW T \in SUBSET Nat, T # {}
  PROVE  \E m \in T : \A n \in T : m <= n
<1>1. PICK m \in T : \A n \in T : ~ (<<n, m>> \in OpToRel(<, Nat))
  BY Zenon, NatLessThanWellFounded, WFMin
<1>2. \A n \in T : n < m => <<n, m>> \in OpToRel(<, Nat)
  BY SMT DEF OpToRel
<1>3. \A n \in T : ~(n < m)
  BY Zenon, <1>1, <1>2
<1>4. \A n \in T : m <= n
  BY ONLY <1>3, T \in SUBSET Nat, m \in T
<1> QED
  BY Zenon, <1>4

\* Induction, for a set instead of a predicate.
LEMMA Induct ==
  ASSUME NEW S, 0 \in S, \A n \in Nat : n \in S => n + 1 \in S
  PROVE  \A n \in Nat : n \in S
<1> SUFFICES ASSUME Nat \ S # {} PROVE FALSE
  OBVIOUS
<1>1. PICK m \in Nat \ S : \A n \in Nat \ S : m <= n
  BY Zenon, LeastNat
<1>2. m # 0 /\ m - 1 \in Nat /\ m - 1 \notin Nat \ S
  BY <1>1
<1> QED
  BY <1>1, <1>2

Counts(s, f, n) ==
  f = [i \in 0..n |->
         IF i = 0 THEN 0 ELSE IF s[i].type = "reply" THEN f[i - 1] + 1 ELSE f[i - 1]]

Counted(s, f, i) ==
  f[i] = IF i = 0 THEN 0 ELSE IF s[i].type = "reply" THEN f[i - 1] + 1 ELSE f[i - 1]
Agree(f, g, i) == f[i] = g[i]

\* What a count says at each place.
LEMMA CountsAt ==
  ASSUME NEW s, NEW n \in Nat, NEW f, Counts(s, f, n), NEW i \in 0..n
  PROVE  Counted(s, f, i)
<1> DEFINE h == [j \in 0..n |->
         IF j = 0 THEN 0 ELSE IF s[j].type = "reply" THEN f[j - 1] + 1 ELSE f[j - 1]]
<1>1. h[i] = IF i = 0 THEN 0 ELSE IF s[i].type = "reply" THEN f[i - 1] + 1 ELSE f[i - 1]
  BY Zenon
<1>2. f = h
  BY Zenon DEF Counts
<1> HIDE DEF h
<1> QED
  BY Zenon, <1>1, <1>2 DEF Counted

\* There is a count of any number of lines.
LEMMA CountExists ==
  ASSUME NEW s, NEW n \in Nat
  PROVE  \E f \in [0..n -> Nat] : Counts(s, f, n)
<1> DEFINE S == {m \in Nat : \E f \in [0..m -> Nat] : Counts(s, f, m)}
<1>1. 0 \in S
  <2> DEFINE f == [i \in 0..0 |-> 0]
  <2>1. f \in [0..0 -> Nat] /\ Counts(s, f, 0)
    BY DEF Counts
  <2> QED
    BY <2>1
<1>2. ASSUME NEW m \in Nat, m \in S PROVE m + 1 \in S
  <2>1. PICK f \in [0..m -> Nat] : Counts(s, f, m)
    BY Zenon, <1>2
  <2> DEFINE g == [i \in 0..(m + 1) |->
                     IF i = m + 1 THEN IF s[i].type = "reply" THEN f[m] + 1 ELSE f[m] ELSE f[i]]
  <2>2. g \in [0..(m + 1) -> Nat]
    OBVIOUS
  <2>3. ASSUME NEW i \in 0..(m + 1)
        PROVE  g[i] = IF i = 0 THEN 0 ELSE IF s[i].type = "reply" THEN g[i - 1] + 1 ELSE g[i - 1]
    <3>1. CASE i = m + 1
      BY <3>1
    <3>2. CASE i # m + 1
      <4>1. i \in 0..m /\ (i # 0 => i - 1 \in 0..m)
        BY <3>2
      <4>2. g[i] = f[i] /\ (i # 0 => g[i - 1] = f[i - 1])
        BY <3>2, <4>1
      <4>3. f[i] = IF i = 0 THEN 0 ELSE IF s[i].type = "reply" THEN f[i - 1] + 1 ELSE f[i - 1]
        <5>1. Counted(s, f, i)
          BY Zenon, <2>1, <4>1, CountsAt
        <5> QED
          BY Zenon, <5>1 DEF Counted
      <4> HIDE DEF g
      <4> QED
        BY Zenon, <4>2, <4>3
    <3> QED
      BY <3>1, <3>2
  <2>4. g = [i \in 0..(m + 1) |-> g[i]]
    OBVIOUS
  <2> HIDE DEF g
  <2>5. Counts(s, g, m + 1)
    BY Zenon, <2>3, <2>4 DEF Counts
  <2> QED
    BY <2>2, <2>5
<1> HIDE DEF S
<1>3. n \in S
  BY Zenon, <1>1, <1>2, Induct
<1> QED
  BY Zenon, <1>3 DEF S

\* And only one.
LEMMA CountUnique ==
  ASSUME NEW s, NEW m \in Nat, NEW n \in Nat, NEW f, NEW g, Counts(s, f, m), Counts(s, g, n),
         m <= n
  PROVE  Agree(f, g, m)
<1> DEFINE S == {i \in Nat : i <= m => f[i] = g[i]}
<1>1. 0 \in S
  <2>1. 0 \in 0..m /\ 0 \in 0..n
    OBVIOUS
  <2>2. Counted(s, f, 0) /\ Counted(s, g, 0)
    BY Zenon, <2>1, CountsAt
  <2> QED
    BY <2>2 DEF Counted
<1>2. ASSUME NEW i \in Nat, i \in S PROVE i + 1 \in S
  <2> SUFFICES ASSUME i + 1 <= m PROVE f[i + 1] = g[i + 1]
    OBVIOUS
  <2>1. i + 1 \in 0..m /\ i + 1 \in 0..n /\ i + 1 # 0 /\ (i + 1) - 1 = i /\ f[i] = g[i]
    BY <1>2
  <2>2. /\ f[i + 1] = IF s[i + 1].type = "reply" THEN f[i] + 1 ELSE f[i]
        /\ g[i + 1] = IF s[i + 1].type = "reply" THEN g[i] + 1 ELSE g[i]
    <3> HIDE DEF S
    <3>1. Counted(s, f, i + 1) /\ Counted(s, g, i + 1)
      BY Zenon, <2>1, CountsAt
    <3> QED
      BY Zenon, <2>1, <3>1 DEF Counted
  <2> QED
    BY Zenon, <2>1, <2>2
<1> HIDE DEF S
<1>3. m \in S
  BY Zenon, <1>1, <1>2, Induct
<1> QED
  BY <1>3 DEF S, Agree

\* ReplyCount is what any count says.
LEMMA CountIs ==
  ASSUME NEW s, NEW n \in Nat
  PROVE  \E f \in [0..n -> Nat] : Counts(s, f, n) /\ ReplyCount(s, n) = f[n]
<1> DEFINE c == CHOOSE f : Counts(s, f, n)
<1>1. PICK f \in [0..n -> Nat] : Counts(s, f, n)
  BY Zenon, CountExists
<1>2. Counts(s, c, n)
  BY Zenon, <1>1
<1>3. ReplyCount(s, n) = c[n]
  BY Zenon DEF ReplyCount, Counts
<1> HIDE DEF c
<1>4. c[n] = f[n]
  <2>1. n <= n
    OBVIOUS
  <2>2. Agree(c, f, n)
    BY Zenon, <1>1, <1>2, <2>1, CountUnique
  <2> QED
    BY Zenon, <2>2 DEF Agree
<1> QED
  BY Zenon, <1>1, <1>3, <1>4

\* The count grows by one at each reply.
LEMMA Counting1 ==
  ASSUME NEW s, NEW n \in Nat
  PROVE  /\ ReplyCount(s, 0) = 0 /\ ReplyCount(s, n) \in Nat
         /\ ReplyCount(s, n + 1) = IF s[n + 1].type = "reply" THEN ReplyCount(s, n) + 1
                                   ELSE ReplyCount(s, n)
<1>0. /\ 0 \in Nat /\ n + 1 \in Nat /\ 0 \in 0..0 /\ n \in 0..n /\ n + 1 \in 0..(n + 1)
      /\ n + 1 # 0 /\ (n + 1) - 1 = n /\ n <= n + 1
  OBVIOUS
<1>1. PICK z \in [0..0 -> Nat] : Counts(s, z, 0) /\ ReplyCount(s, 0) = z[0]
  BY Zenon, <1>0, CountIs
<1>2. PICK f \in [0..n -> Nat] : Counts(s, f, n) /\ ReplyCount(s, n) = f[n]
  BY Zenon, CountIs
<1>3. PICK g \in [0..(n + 1) -> Nat] : Counts(s, g, n + 1) /\ ReplyCount(s, n + 1) = g[n + 1]
  BY Zenon, <1>0, CountIs
<1>4. z[0] = 0
  <2>1. Counted(s, z, 0)
    BY Zenon, <1>0, <1>1, CountsAt
  <2> QED
    BY Zenon, <2>1 DEF Counted
<1>5. f[n] = g[n]
  <2>1. Agree(f, g, n)
    BY Zenon, <1>0, <1>2, <1>3, CountUnique
  <2> QED
    BY Zenon, <2>1 DEF Agree
<1>6. g[n + 1] = IF s[n + 1].type = "reply" THEN g[n] + 1 ELSE g[n]
  <2>1. Counted(s, g, n + 1)
    BY Zenon, <1>0, <1>3, CountsAt
  <2> QED
    BY Zenon, <1>0, <2>1 DEF Counted
<1>7. f[n] \in Nat
  BY Zenon, <1>0
<1> QED
  BY Zenon, <1>1, <1>2, <1>3, <1>4, <1>5, <1>6, <1>7

\* It depends on the entries counted only.
LEMMA CountSame ==
  ASSUME NEW s, NEW t, NEW n \in Nat, \A i \in 1..n : t[i] = s[i]
  PROVE  ReplyCount(t, n) = ReplyCount(s, n)
<1> DEFINE S == {m \in Nat : m <= n => ReplyCount(t, m) = ReplyCount(s, m)}
<1>1. 0 \in S
  <2>1. ReplyCount(t, 0) = 0 /\ ReplyCount(s, 0) = 0
    BY Zenon, Counting1
  <2> QED
    BY <2>1
<1>2. ASSUME NEW m \in Nat, m \in S PROVE m + 1 \in S
  <2>1. m + 1 <= n => t[m + 1] = s[m + 1] /\ ReplyCount(t, m) = ReplyCount(s, m)
    BY <1>2
  <2>2. m + 1 <= n => ReplyCount(t, m + 1) = ReplyCount(s, m + 1)
    <3>1. /\ ReplyCount(t, m + 1) = IF t[m + 1].type = "reply" THEN ReplyCount(t, m) + 1
                                    ELSE ReplyCount(t, m)
          /\ ReplyCount(s, m + 1) = IF s[m + 1].type = "reply" THEN ReplyCount(s, m) + 1
                                    ELSE ReplyCount(s, m)
      BY Zenon, Counting1
    <3> QED
      BY ONLY <2>1, <3>1
  <2> QED
    BY <2>2
<1> HIDE DEF S
<1>3. n \in S
  BY Zenon, <1>1, <1>2, Induct
<1> QED
  BY <1>3 DEF S

\* And moves with them.
LEMMA CountShift ==
  ASSUME NEW s, NEW t, NEW n \in Nat, \A i \in 1..n : t[i] = s[i + 1]
  PROVE  ReplyCount(s, n + 1) =
           IF s[1].type = "reply" THEN ReplyCount(t, n) + 1 ELSE ReplyCount(t, n)
<1> DEFINE d == IF s[1].type = "reply" THEN 1 ELSE 0
           S == {m \in Nat : m <= n => ReplyCount(s, m + 1) = ReplyCount(t, m) + d}
<1>1. 0 \in S
  <2>1. /\ ReplyCount(t, 0) = 0 /\ ReplyCount(s, 0) = 0
        /\ ReplyCount(s, 0 + 1) = IF s[0 + 1].type = "reply" THEN ReplyCount(s, 0) + 1
                                  ELSE ReplyCount(s, 0)
    BY Zenon, Counting1
  <2> QED
    BY <2>1
<1>2. ASSUME NEW m \in Nat, m \in S PROVE m + 1 \in S
  <2> SUFFICES ASSUME m + 1 <= n PROVE ReplyCount(s, (m + 1) + 1) = ReplyCount(t, m + 1) + d
    OBVIOUS
  <2>1. /\ t[m + 1] = s[(m + 1) + 1] /\ ReplyCount(s, m + 1) = ReplyCount(t, m) + d
        /\ m + 1 \in Nat
    BY <1>2
  <2>2. /\ ReplyCount(t, m) \in Nat
        /\ ReplyCount(t, m + 1) = IF t[m + 1].type = "reply" THEN ReplyCount(t, m) + 1
                                  ELSE ReplyCount(t, m)
        /\ ReplyCount(s, (m + 1) + 1) = IF s[(m + 1) + 1].type = "reply"
                                        THEN ReplyCount(s, m + 1) + 1 ELSE ReplyCount(s, m + 1)
    BY Zenon, <2>1, Counting1
  <2>3. d \in Nat
    OBVIOUS
  <2> HIDE DEF d, S
  <2> QED
    BY <2>1, <2>2, <2>3
<1>3. ReplyCount(t, n) \in Nat
  BY Zenon, Counting1
<1> HIDE DEF S
<1>4. n \in S
  BY Zenon, <1>1, <1>2, Induct
<1> QED
  BY <1>3, <1>4 DEF S

\* A later count is no lower, and a reply is counted at its own place.
LEMMA CountRises ==
  ASSUME NEW s, NEW m \in Nat, NEW n \in Nat, m <= n
  PROVE  /\ ReplyCount(s, m) <= ReplyCount(s, n)
         /\ m > 0 /\ s[m].type = "reply" => ReplyCount(s, m) \in 1..ReplyCount(s, n)
<1> DEFINE S == {j \in Nat : j >= m => ReplyCount(s, m) <= ReplyCount(s, j)}
<1>1. \A j \in Nat : ReplyCount(s, j) \in Nat
  BY Zenon, Counting1
<1>2. 0 \in S
  BY <1>1
<1>3. ASSUME NEW j \in Nat, j \in S PROVE j + 1 \in S
  <2>1. ReplyCount(s, j + 1) = IF s[j + 1].type = "reply" THEN ReplyCount(s, j) + 1
                               ELSE ReplyCount(s, j)
    BY Zenon, Counting1
  <2>2. CASE j >= m
    BY <1>1, <1>3, <2>1, <2>2
  <2>3. CASE ~(j >= m)
    BY <1>1, <2>3
  <2> QED
    BY <2>2, <2>3
<1> HIDE DEF S
<1>4. ReplyCount(s, m) <= ReplyCount(s, n)
  <2>1. n \in S
    BY Zenon, <1>2, <1>3, Induct
  <2> QED
    BY <2>1 DEF S
<1>5. ReplyCount(s, m) \in Nat /\ ReplyCount(s, n) \in Nat
  BY Zenon, Counting1
<1>6. ASSUME m > 0, s[m].type = "reply" PROVE ReplyCount(s, m) >= 1
  <2>1. m - 1 \in Nat /\ (m - 1) + 1 = m
    BY <1>6
  <2>2. ReplyCount(s, m - 1) \in Nat /\ ReplyCount(s, m) = ReplyCount(s, m - 1) + 1
    BY Zenon, <1>6, <2>1, Counting1
  <2> QED
    BY <2>2
<1> QED
  BY <1>4, <1>5, <1>6

CountedOn(s, x, t) ==
  /\ \A n \in 0..Len(s) : ReplyCount(t, n) = ReplyCount(s, n)
  /\ ReplyCount(t, Len(t)) =
       IF x.type = "reply" THEN ReplyCount(s, Len(s)) + 1 ELSE ReplyCount(s, Len(s))

\* An entry more changes no earlier count.
LEMMA CountAppended ==
  ASSUME NEW s, NEW x, NEW t, Appended(s, x, t)
  PROVE  CountedOn(s, x, t)
<1>1. ASSUME NEW n \in 0..Len(s) PROVE ReplyCount(t, n) = ReplyCount(s, n)
  <2>1. n \in Nat /\ \A i \in 1..n : i \in 1..Len(s)
    BY DEF Appended
  <2>2. \A i \in 1..n : t[i] = s[i]
    BY Zenon, <2>1 DEF Appended
  <2> QED
    BY Zenon, <2>1, <2>2, CountSame
<1>2. Len(s) \in Nat /\ Len(s) \in 0..Len(s) /\ Len(t) = Len(s) + 1 /\ t[Len(s) + 1] = x
  BY DEF Appended
<1>3. ReplyCount(t, Len(s) + 1) =
        IF t[Len(s) + 1].type = "reply" THEN ReplyCount(t, Len(s)) + 1
        ELSE ReplyCount(t, Len(s))
  BY Zenon, <1>2, Counting1
<1> QED
  BY Zenon, <1>1, <1>2, <1>3 DEF CountedOn

Lines == Answers \cup Events

\* A queue of commands, those not yet carried out, and the lines under way.
Queue(pend, srv, lines) ==
  /\ pend \in Seq(Waiters) /\ srv \in Seq(Commands) /\ lines \in Seq(Lines)
  /\ Len(pend) = ReplyCount(lines, Len(lines)) + Len(srv)
  /\ \A i \in DOMAIN lines : lines[i].type = "reply" =>
       lines[i].command = pend[ReplyCount(lines, i)].command
  /\ \A i \in DOMAIN srv : srv[i] = pend[ReplyCount(lines, Len(lines)) + i].command

\* The reply at p answers what who waits for.
Answer(pend, lines, p, who) ==
  p \in DOMAIN lines /\ lines[p].type = "reply" /\ pend[ReplyCount(lines, p)].who = who

InQueue(pend, srv, lines, n) ==
  /\ n \in Nat /\ Len(lines) \in Nat /\ Len(srv) \in Nat /\ Len(pend) = n + Len(srv)
  /\ DOMAIN lines = 1..Len(lines) /\ DOMAIN srv = 1..Len(srv) /\ DOMAIN pend = 1..Len(pend)
  /\ \A p \in DOMAIN lines : lines[p].type = "reply" =>
       ReplyCount(lines, p) \in 1..n /\ ReplyCount(lines, p) \in DOMAIN pend
  /\ \A i \in DOMAIN srv : n + i \in DOMAIN pend

\* Where the replies and the commands have their places in the queue.
LEMMA Placed ==
  ASSUME NEW pend, NEW srv, NEW lines, Queue(pend, srv, lines)
  PROVE  InQueue(pend, srv, lines, ReplyCount(lines, Len(lines)))
<1> DEFINE n == ReplyCount(lines, Len(lines))
<1>1. /\ Len(lines) \in Nat /\ Len(srv) \in Nat /\ Len(pend) \in Nat
      /\ DOMAIN lines = 1..Len(lines) /\ DOMAIN srv = 1..Len(srv)
      /\ DOMAIN pend = 1..Len(pend)
  BY DEF Queue
<1>2. n \in Nat /\ Len(pend) = n + Len(srv)
  BY Zenon, <1>1, Counting1 DEF Queue
<1>3. ASSUME NEW p \in DOMAIN lines, lines[p].type = "reply"
      PROVE  ReplyCount(lines, p) \in 1..n
  <2>1. p \in Nat /\ p <= Len(lines) /\ p > 0
    BY <1>1
  <2> QED
    BY Zenon, <1>1, <1>3, <2>1, CountRises
<1> HIDE DEF n
<1>4. ASSUME NEW m \in 1..n PROVE m \in 1..Len(pend)
  BY <1>1, <1>2
<1>5. \A i \in 1..Len(srv) : n + i \in 1..Len(pend)
  BY <1>1, <1>2
<1> QED
  BY Zenon, <1>1, <1>2, <1>3, <1>4, <1>5 DEF InQueue, n

\* The replies somebody waits for are the same.
SameAnswers(pend, lines, pend2, lines2) ==
  \A p, who : Answer(pend2, lines2, p, who) => Answer(pend, lines, p, who) /\ lines2[p] = lines[p]

\* A notification more.
LEMMA Notified ==
  ASSUME NEW pend, NEW srv, NEW lines, Queue(pend, srv, lines), NEW l \in Events
  PROVE  /\ Queue(pend, srv, Append(lines, l)) /\ Appended(lines, l, Append(lines, l))
         /\ SameAnswers(pend, lines, pend, Append(lines, l))
<1> DEFINE after == Append(lines, l)
<1>1. l \in Lines /\ l.type # "reply"
  BY DEF Events, Lines
<1>2. after \in Seq(Lines) /\ Appended(lines, l, after)
  BY Zenon, <1>1, Appending DEF Queue
<1> HIDE DEF after
<1>3. /\ \A n \in 0..Len(lines) : ReplyCount(after, n) = ReplyCount(lines, n)
      /\ ReplyCount(after, Len(after)) = ReplyCount(lines, Len(lines))
  BY Zenon, <1>1, <1>2, CountAppended DEF CountedOn
<1>4. ASSUME NEW p \in DOMAIN after, after[p].type = "reply"
      PROVE  /\ p \in DOMAIN lines /\ after[p] = lines[p]
             /\ ReplyCount(after, p) = ReplyCount(lines, p)
  <2>1. p \in 1..Len(lines) \/ p = Len(lines) + 1
    BY <1>2 DEF Appended
  <2>2. p \in 1..Len(lines) => p \in 0..Len(lines)
    BY <1>2 DEF Appended
  <2> QED
    BY Zenon, <1>1, <1>2, <1>3, <1>4, <2>1, <2>2 DEF Appended
<1>5. Queue(pend, srv, after)
  BY Zenon, <1>2, <1>3, <1>4 DEF Queue
<1>6. SameAnswers(pend, lines, pend, after)
  BY Zenon, <1>4 DEF SameAnswers, Answer
<1> QED
  BY Zenon, <1>2, <1>5, <1>6 DEF after

\* A new reply is to the first command not yet carried out.
NewAnswer(pend, lines, r, lines2) ==
  \A p, who : Answer(pend, lines2, p, who) =>
    \/ Answer(pend, lines, p, who) /\ lines2[p] = lines[p]
    \/ /\ p = Len(lines) + 1 /\ lines2[p] = r
       /\ \E i \in DOMAIN pend : pend[i].who = who /\ pend[i].command = r.command

\* A command is carried out and answered.
LEMMA Replied ==
  ASSUME NEW pend, NEW srv, NEW lines, Queue(pend, srv, lines), srv # <<>>,
         NEW r \in Answers, r.command = Head(srv)
  PROVE  /\ Queue(pend, Tail(srv), Append(lines, r)) /\ Appended(lines, r, Append(lines, r))
         /\ NewAnswer(pend, lines, r, Append(lines, r))
<1> DEFINE after == Append(lines, r)
           rest == Tail(srv)
           n == ReplyCount(lines, Len(lines))
<1>1. r \in Lines /\ r.type = "reply"
  BY DEF Answers, Lines
<1>2. after \in Seq(Lines) /\ Appended(lines, r, after)
  BY Zenon, <1>1, Appending DEF Queue
<1>3. rest \in Seq(Commands) /\ Shifted(srv, rest)
  BY Zenon, Shifting DEF Queue
<1> HIDE DEF after, rest
<1>4. /\ \A m \in 0..Len(lines) : ReplyCount(after, m) = ReplyCount(lines, m)
      /\ ReplyCount(after, Len(after)) = n + 1
  <2>1. CountedOn(lines, r, after)
    BY Zenon, <1>2, CountAppended
  <2> QED
    BY Zenon, <1>1, <2>1 DEF CountedOn
<1>5. InQueue(pend, srv, lines, n)
  BY Zenon, Placed
<1>6. /\ n \in Nat /\ Len(pend) = (n + 1) + Len(rest)
      /\ \A i \in DOMAIN rest : (n + 1) + i = n + (i + 1)
  <2>1. n \in Nat /\ Len(pend) = n + Len(srv) /\ Len(srv) = Len(rest) + 1 /\ Len(rest) \in Nat
        /\ DOMAIN rest = 1..Len(rest)
    BY Zenon, <1>3, <1>5 DEF InQueue, Shifted
  <2> HIDE DEF n
  <2> QED
    BY <2>1
<1>7. \A i \in DOMAIN rest : rest[i] = pend[(n + 1) + i].command
  <2> SUFFICES ASSUME NEW i \in DOMAIN rest PROVE rest[i] = pend[n + (i + 1)].command
    BY Zenon, <1>6
  <2> QED
    BY Zenon, <1>3 DEF Shifted, Queue
<1>8. pend[n + 1].command = r.command /\ n + 1 \in DOMAIN pend
  BY Zenon, <1>3, <1>5 DEF Shifted, Queue, InQueue
<1>9. ASSUME NEW p \in DOMAIN after
      PROVE  \/ /\ p \in DOMAIN lines /\ after[p] = lines[p]
                /\ ReplyCount(after, p) = ReplyCount(lines, p)
             \/ p = Len(lines) + 1 /\ after[p] = r /\ ReplyCount(after, p) = n + 1
  <2>1. p \in 1..Len(lines) \/ p = Len(lines) + 1
    BY <1>2 DEF Appended
  <2>2. p \in 1..Len(lines) => p \in 0..Len(lines)
    BY <1>2 DEF Appended
  <2> QED
    BY Zenon, <1>2, <1>4, <2>1, <2>2 DEF Appended
<1>10. Queue(pend, rest, after)
  <2>1. \A p \in DOMAIN after : after[p].type = "reply" =>
          after[p].command = pend[ReplyCount(after, p)].command
    BY Zenon, <1>8, <1>9 DEF Queue
  <2>2. Len(pend) = ReplyCount(after, Len(after)) + Len(rest)
    BY Zenon, <1>4, <1>6
  <2>3. \A i \in DOMAIN rest : rest[i] = pend[ReplyCount(after, Len(after)) + i].command
    BY Zenon, <1>4, <1>7
  <2> QED
    BY Zenon, <1>2, <1>3, <2>1, <2>2, <2>3 DEF Queue
<1>11. NewAnswer(pend, lines, r, after)
  BY Zenon, <1>8, <1>9 DEF NewAnswer, Answer
<1> QED
  BY Zenon, <1>2, <1>10, <1>11 DEF after, rest

\* A command joins the queue and is written.
LEMMA Ran ==
  ASSUME NEW pend, NEW srv, NEW lines, Queue(pend, srv, lines), NEW w \in Waiters
  PROVE  /\ Queue(Append(pend, w), Append(srv, w.command), lines)
         /\ Appended(pend, w, Append(pend, w))
         /\ SameAnswers(pend, lines, Append(pend, w), lines)
<1> DEFINE pend2 == Append(pend, w)
           srv2 == Append(srv, w.command)
           n == ReplyCount(lines, Len(lines))
<1>1. w.command \in Commands
  BY DEF Waiters
<1>2. pend2 \in Seq(Waiters) /\ Appended(pend, w, pend2)
  BY Zenon, Appending DEF Queue
<1>3. srv2 \in Seq(Commands) /\ Appended(srv, w.command, srv2)
  BY Zenon, <1>1, Appending DEF Queue
<1> HIDE DEF pend2, srv2
<1>4. InQueue(pend, srv, lines, n)
  BY Zenon, Placed
<1>5. \A p \in DOMAIN lines : lines[p].type = "reply" =>
        pend2[ReplyCount(lines, p)] = pend[ReplyCount(lines, p)]
  BY Zenon, <1>2, <1>4 DEF InQueue, Appended
<1>6. /\ n \in Nat /\ Len(pend2) = n + Len(srv2) /\ n + Len(srv2) = Len(pend) + 1
      /\ \A i \in DOMAIN srv2 : i \in DOMAIN srv \/ i = Len(srv2)
  <2>1. /\ n \in Nat /\ Len(srv) \in Nat /\ Len(pend) = n + Len(srv)
        /\ Len(pend2) = Len(pend) + 1 /\ Len(srv2) = Len(srv) + 1
        /\ DOMAIN srv = 1..Len(srv) /\ DOMAIN srv2 = 1..Len(srv2)
    BY Zenon, <1>2, <1>3, <1>4 DEF InQueue, Appended
  <2> HIDE DEF n
  <2> QED
    BY <2>1
<1>7. ASSUME NEW i \in DOMAIN srv2 PROVE srv2[i] = pend2[n + i].command
  <2>1. CASE i \in DOMAIN srv
    <3>1. n + i \in DOMAIN pend /\ srv2[i] = srv[i] /\ srv[i] = pend[n + i].command
      BY Zenon, <1>3, <1>4, <2>1 DEF InQueue, Appended, Queue
    <3> QED
      BY Zenon, <1>2, <3>1 DEF Appended
  <2>2. CASE i = Len(srv2)
    <3>1. srv2[Len(srv2)] = w.command /\ pend2[Len(pend) + 1] = w
      BY Zenon, <1>2, <1>3 DEF Appended
    <3> QED
      BY Zenon, <1>6, <2>2, <3>1
  <2> QED
    BY Zenon, <1>6, <2>1, <2>2
<1>8. Queue(pend2, srv2, lines)
  BY Zenon, <1>2, <1>3, <1>5, <1>6, <1>7 DEF Queue
<1>9. SameAnswers(pend, lines, pend2, lines)
  BY Zenon, <1>5 DEF SameAnswers, Answer
<1> QED
  BY Zenon, <1>2, <1>8, <1>9 DEF pend2, srv2

GaveUp(pend, who) ==
  [i \in DOMAIN pend |->
     IF pend[i].who = who THEN [pend[i] EXCEPT !.who = "nobody"] ELSE pend[i]]

Dropped(pend, who, pend2) ==
  /\ DOMAIN pend2 = DOMAIN pend
  /\ \A i \in DOMAIN pend :
       pend2[i].who = "nobody" \/ (pend2[i] = pend[i] /\ pend[i].who # who)

\* A command given up on stays in the queue.
LEMMA GivenUp ==
  ASSUME NEW pend, NEW srv, NEW lines, Queue(pend, srv, lines), NEW who,
         NEW pend2, pend2 = GaveUp(pend, who)
  PROVE  Queue(pend2, srv, lines) /\ Dropped(pend, who, pend2)
<1>1. DOMAIN pend2 = DOMAIN pend
  BY Zenon DEF GaveUp
<1>2. \A i \in DOMAIN pend : pend[i] \in Waiters
  BY DEF Queue
<1>3. ASSUME NEW i \in DOMAIN pend
      PROVE  /\ pend2[i] \in Waiters /\ pend2[i].command = pend[i].command
             /\ pend2[i].who = "nobody" \/ (pend2[i] = pend[i] /\ pend[i].who # who)
  <2>1. CASE pend[i].who = who
    <3>1. pend2[i] = [pend[i] EXCEPT !.who = "nobody"]
      BY Zenon, <2>1 DEF GaveUp
    <3> QED
      BY <1>2, <3>1 DEF Waiters
  <2>2. CASE pend[i].who # who
    BY Zenon, <1>2, <2>2 DEF GaveUp
  <2> QED
    BY Zenon, <2>1, <2>2
<1>4. pend2 \in Seq(Waiters) /\ Len(pend2) = Len(pend)
  <2>1. Len(pend) \in Nat /\ DOMAIN pend = 1..Len(pend)
    BY DEF Queue
  <2>2. pend2 = [i \in 1..Len(pend) |-> pend2[i]]
    BY Zenon, <1>1, <2>1 DEF GaveUp
  <2>3. \A i \in 1..Len(pend) : pend2[i] \in Waiters
    BY Zenon, <1>3, <2>1
  <2> HIDE DEF Waiters
  <2> QED
    BY ONLY <2>1, <2>2, <2>3
<1>5. InQueue(pend, srv, lines, ReplyCount(lines, Len(lines)))
  BY Zenon, Placed
<1>6. Queue(pend2, srv, lines)
  BY Zenon, <1>3, <1>4, <1>5 DEF Queue, InQueue
<1> QED
  BY Zenon, <1>1, <1>3, <1>6 DEF Dropped

Moved(pend, lines, pend2, lines2) ==
  \A p, who : Answer(pend2, lines2, p, who) =>
    /\ p \in DOMAIN lines2 /\ p \in Nat /\ p + 1 \in DOMAIN lines
    /\ Answer(pend, lines, p + 1, who) /\ lines2[p] = lines[p + 1]

\* A notification is read.
LEMMA LineRead ==
  ASSUME NEW pend, NEW srv, NEW lines, Queue(pend, srv, lines), lines # <<>>,
         Head(lines).type # "reply"
  PROVE  /\ Queue(pend, srv, Tail(lines)) /\ Shifted(lines, Tail(lines))
         /\ Moved(pend, lines, pend, Tail(lines))
<1> DEFINE rest == Tail(lines)
<1>1. rest \in Seq(Lines) /\ Shifted(lines, rest)
  BY Zenon, Shifting DEF Queue
<1> HIDE DEF rest
<1>2. ASSUME NEW n \in 0..Len(rest) PROVE ReplyCount(rest, n) = ReplyCount(lines, n + 1)
  <2>1. n \in Nat /\ \A i \in 1..n : i \in 1..Len(rest)
    BY <1>1 DEF Shifted
  <2>2. \A i \in 1..n : rest[i] = lines[i + 1]
    BY Zenon, <1>1, <2>1 DEF Shifted
  <2>3. lines[1].type # "reply"
    BY Zenon, <1>1 DEF Shifted
  <2> QED
    BY Zenon, <2>1, <2>2, <2>3, CountShift
<1>3. ReplyCount(rest, Len(rest)) = ReplyCount(lines, Len(lines))
  <2>1. Len(rest) \in 0..Len(rest) /\ Len(rest) + 1 = Len(lines)
    BY <1>1 DEF Shifted
  <2> QED
    BY Zenon, <1>2, <2>1
<1>4. ASSUME NEW p \in DOMAIN rest
      PROVE  /\ p \in Nat /\ p + 1 \in DOMAIN lines /\ rest[p] = lines[p + 1]
             /\ ReplyCount(rest, p) = ReplyCount(lines, p + 1)
  <2>1. p \in Nat /\ p \in 0..Len(rest)
    BY <1>1 DEF Shifted
  <2> QED
    BY Zenon, <1>1, <1>2, <2>1 DEF Shifted
<1>5. Queue(pend, srv, rest)
  BY Zenon, <1>1, <1>3, <1>4 DEF Queue
<1>6. Moved(pend, lines, pend, rest)
  BY Zenon, <1>4 DEF Moved, Answer
<1> QED
  BY Zenon, <1>1, <1>5, <1>6 DEF rest

\* A reply is read, and its command leaves the queue.
LEMMA ReplyRead ==
  ASSUME NEW pend, NEW srv, NEW lines, Queue(pend, srv, lines), lines # <<>>,
         Head(lines).type = "reply"
  PROVE  /\ pend # <<>> /\ Queue(Tail(pend), srv, Tail(lines))
         /\ Shifted(lines, Tail(lines)) /\ Shifted(pend, Tail(pend))
         /\ Answer(pend, lines, 1, Head(pend).who)
         /\ Head(pend).command = Head(lines).command
         /\ Moved(pend, lines, Tail(pend), Tail(lines))
<1> DEFINE rest == Tail(lines)
           left == Tail(pend)
           n == ReplyCount(lines, Len(lines))
<1>1. rest \in Seq(Lines) /\ Shifted(lines, rest)
  BY Zenon, Shifting DEF Queue
<1>2. InQueue(pend, srv, lines, n)
  BY Zenon, Placed
<1>3. lines[1].type = "reply" /\ 1 \in DOMAIN lines
  BY Zenon, <1>1 DEF Shifted
<1>4. pend # <<>>
  <2>1. ReplyCount(lines, 1) \in DOMAIN pend
    BY Zenon, <1>2, <1>3 DEF InQueue
  <2> QED
    BY <2>1
<1>5. left \in Seq(Waiters) /\ Shifted(pend, left)
  BY Zenon, <1>4, Shifting DEF Queue
<1> HIDE DEF rest, left
<1>6. ASSUME NEW m \in 0..Len(rest)
      PROVE  ReplyCount(rest, m) \in Nat /\ ReplyCount(lines, m + 1) = ReplyCount(rest, m) + 1
  <2>1. m \in Nat /\ \A i \in 1..m : i \in 1..Len(rest)
    BY <1>1 DEF Shifted
  <2>2. \A i \in 1..m : rest[i] = lines[i + 1]
    BY Zenon, <1>1, <2>1 DEF Shifted
  <2> QED
    BY Zenon, <1>3, <2>1, <2>2, CountShift, Counting1
<1>7. ReplyCount(lines, 1) = 1
  <2>1. 0 \in Nat /\ 0 + 1 = 1
    OBVIOUS
  <2>2. ReplyCount(lines, 0) = 0 /\ ReplyCount(lines, 0 + 1) = ReplyCount(lines, 0) + 1
    BY Zenon, <1>3, <2>1, Counting1
  <2> QED
    BY <2>2
<1>8. /\ n = ReplyCount(rest, Len(rest)) + 1 /\ ReplyCount(rest, Len(rest)) \in Nat
  <2>1. Len(rest) \in 0..Len(rest) /\ Len(rest) + 1 = Len(lines)
    BY <1>1 DEF Shifted
  <2> QED
    BY Zenon, <1>6, <2>1
<1>9. ASSUME NEW m \in Nat, m + 1 \in DOMAIN pend, m > 0
      PROVE  m \in DOMAIN left /\ left[m] = pend[m + 1]
  <2>1. m \in DOMAIN left
    BY <1>5, <1>9 DEF Shifted
  <2> QED
    BY Zenon, <1>5, <2>1 DEF Shifted
<1>10. ASSUME NEW p \in DOMAIN rest
       PROVE  /\ p \in Nat /\ p + 1 \in DOMAIN lines /\ rest[p] = lines[p + 1]
              /\ rest[p].type = "reply" =>
                   left[ReplyCount(rest, p)] = pend[ReplyCount(lines, p + 1)]
  <2>1. p \in Nat /\ p \in 0..Len(rest) /\ p > 0 /\ p <= p
    BY <1>1 DEF Shifted
  <2>2. p + 1 \in DOMAIN lines /\ rest[p] = lines[p + 1]
    BY Zenon, <1>1 DEF Shifted
  <2>3. ASSUME rest[p].type = "reply"
        PROVE  left[ReplyCount(rest, p)] = pend[ReplyCount(rest, p) + 1]
    <3>1. ReplyCount(rest, p) \in 1..ReplyCount(rest, p)
      BY Zenon, <2>1, <2>3, CountRises
    <3>2. ReplyCount(rest, p) \in Nat /\ ReplyCount(rest, p) > 0
      BY <3>1, <1>6, <2>1
    <3>3. ReplyCount(rest, p) + 1 \in DOMAIN pend
      BY Zenon, <1>2, <1>6, <2>1, <2>2, <2>3 DEF InQueue
    <3> QED
      BY Zenon, <1>9, <3>2, <3>3
  <2> QED
    BY Zenon, <1>6, <2>1, <2>2, <2>3
<1>11. ASSUME NEW i \in DOMAIN srv
       PROVE  srv[i] = left[ReplyCount(rest, Len(rest)) + i].command
  <2> DEFINE m == ReplyCount(rest, Len(rest))
  <2>1. i \in Nat /\ i > 0
    BY <1>2 DEF InQueue
  <2>2. n + i \in DOMAIN pend /\ srv[i] = pend[n + i].command
    BY Zenon, <1>2 DEF InQueue, Queue
  <2>3. m \in Nat /\ n = m + 1
    BY Zenon, <1>8
  <2> HIDE DEF m, n
  <2>4. m + i \in Nat /\ m + i > 0 /\ n + i = (m + i) + 1
    BY <2>1, <2>3
  <2>5. left[m + i] = pend[n + i]
    BY Zenon, <1>9, <2>2, <2>4
  <2> QED
    BY Zenon, <2>2, <2>5 DEF m
<1>12. Len(left) = ReplyCount(rest, Len(rest)) + Len(srv)
  <2>1. Len(pend) = n + Len(srv) /\ n \in Nat /\ Len(srv) \in Nat
    BY Zenon, <1>2 DEF InQueue
  <2>2. Len(pend) = Len(left) + 1 /\ Len(left) \in Nat
    BY Zenon, <1>5 DEF Shifted
  <2> HIDE DEF n
  <2> QED
    BY <1>8, <2>1, <2>2
<1>13. Queue(left, srv, rest)
  <2>1. \A p \in DOMAIN rest : rest[p].type = "reply" =>
          rest[p].command = left[ReplyCount(rest, p)].command
    BY Zenon, <1>10 DEF Queue
  <2>2. srv \in Seq(Commands)
    BY Zenon DEF Queue
  <2> QED
    BY Zenon, <1>1, <1>5, <1>11, <1>12, <2>1, <2>2 DEF Queue
<1>14. Moved(pend, lines, left, rest)
  BY Zenon, <1>10 DEF Moved, Answer
<1>15. Answer(pend, lines, 1, Head(pend).who) /\ Head(pend).command = Head(lines).command
  BY Zenon, <1>1, <1>3, <1>5, <1>7 DEF Answer, Shifted, Queue
<1> QED
  BY Zenon, <1>1, <1>4, <1>5, <1>13, <1>14, <1>15 DEF rest, left

-----------------------------------------------------------------------------
(* Who waits for what.                                                       *)

\* RemovePeer and Peers have one command under way each, and only while they
\* wait for it.
ForReg(w, r) ==
  w.who = "reg" =>
    /\ r.op = "remove" /\ r.pc \in {"asked", "killing"}
    /\ r.pc = "asked" => w.command = Status
    /\ r.pc = "killing" => w.command.name = "client-kill" /\ w.command.key = r.key
ForPeers(w, c) == w.who = "peers" => c.pc = "asked" /\ w.command = Status

Waits(pend, r, c) ==
  /\ \A i \in DOMAIN pend : ForReg(pend[i], r) /\ ForPeers(pend[i], c)
  /\ \A i, j \in DOMAIN pend :
       pend[i].who = pend[j].who /\ pend[i].who # "nobody" => i = j

StatusRows(lines) ==
  \A p \in DOMAIN lines :
    lines[p].type = "reply" /\ lines[p].command = Status => lines[p].rows \in Tables

Talk(pend, srv, lines, r, c) ==
  Queue(pend, srv, lines) /\ StatusRows(lines) /\ Waits(pend, r, c)

NoneWaits(pend, lines, who) ==
  /\ \A i \in DOMAIN pend : pend[i].who # who
  /\ \A p : ~Answer(pend, lines, p, who)

Asked(pend, who, command) == \E i \in DOMAIN pend : pend[i].who = who /\ pend[i].command = command

\* A reply somebody waits for is to the command they sent.
LEMMA AnswerOf ==
  ASSUME NEW pend, NEW srv, NEW lines, Queue(pend, srv, lines),
         NEW p, NEW who, Answer(pend, lines, p, who)
  PROVE  Asked(pend, who, lines[p].command)
<1>1. InQueue(pend, srv, lines, ReplyCount(lines, Len(lines)))
  BY Zenon, Placed
<1> QED
  BY Zenon, <1>1 DEF InQueue, Answer, Queue, Asked

\* Where nobody in the queue is who, no line answers them.
LEMMA NoneIs ==
  ASSUME NEW pend, NEW srv, NEW lines, Queue(pend, srv, lines), NEW who,
         \A i \in DOMAIN pend : pend[i].who # who
  PROVE  NoneWaits(pend, lines, who)
<1>1. ASSUME NEW p, Answer(pend, lines, p, who) PROVE FALSE
  <2>1. Asked(pend, who, lines[p].command)
    BY Zenon, <1>1, AnswerOf
  <2> QED
    BY Zenon, <2>1 DEF Asked
<1> QED
  BY Zenon, <1>1 DEF NoneWaits

\* Outside its call nobody waits.
LEMMA NoReg ==
  ASSUME NEW pend, NEW srv, NEW lines, NEW r, NEW c, Talk(pend, srv, lines, r, c),
         ~(r.op = "remove" /\ r.pc \in {"asked", "killing"})
  PROVE  NoneWaits(pend, lines, "reg")
BY Zenon, NoneIs DEF Talk, Waits, ForReg

\* Nobody waits for a reading that has not asked.
LEMMA NoPeers ==
  ASSUME NEW pend, NEW srv, NEW lines, NEW r, NEW c, Talk(pend, srv, lines, r, c),
         c.pc # "asked"
  PROVE  NoneWaits(pend, lines, "peers")
BY Zenon, NoneIs DEF Talk, Waits, ForPeers

\* A call goes on to where nothing new is waited for.
LEMMA TalkSame ==
  ASSUME NEW pend, NEW srv, NEW lines, NEW r, NEW c, Talk(pend, srv, lines, r, c),
         NEW r2, r2 = r \/ NoneWaits(pend, lines, "reg"),
         NEW c2, c2 = c \/ NoneWaits(pend, lines, "peers")
  PROVE  Talk(pend, srv, lines, r2, c2)
<1>1. ASSUME NEW i \in DOMAIN pend PROVE ForReg(pend[i], r2) /\ ForPeers(pend[i], c2)
  <2>1. ForReg(pend[i], r2)
    BY Zenon DEF Talk, Waits, NoneWaits, ForReg
  <2>2. ForPeers(pend[i], c2)
    BY Zenon DEF Talk, Waits, NoneWaits, ForPeers
  <2> QED
    BY Zenon, <2>1, <2>2
<1> QED
  BY Zenon, <1>1 DEF Talk, Waits

\* A command is sent, for nobody or for a call that waited for nothing.
LEMMA TalkSent ==
  ASSUME NEW pend, NEW srv, NEW lines, NEW r, NEW c, Talk(pend, srv, lines, r, c),
         NEW w \in Waiters, w.who = "nobody" \/ NoneWaits(pend, lines, w.who),
         NEW r2, r2 = r \/ w.who = "reg", ForReg(w, r2),
         NEW c2, c2 = c \/ w.who = "peers", ForPeers(w, c2)
  PROVE  /\ Talk(Append(pend, w), Append(srv, w.command), lines, r2, c2)
         /\ Appended(pend, w, Append(pend, w))
         /\ SameAnswers(pend, lines, Append(pend, w), lines)
<1> DEFINE pend2 == Append(pend, w)
<1>1. /\ Queue(pend2, Append(srv, w.command), lines) /\ Appended(pend, w, pend2)
      /\ SameAnswers(pend, lines, pend2, lines)
  BY Zenon, Ran DEF Talk
<1> HIDE DEF pend2
<1>2. ASSUME NEW i \in DOMAIN pend2
      PROVE  (i \in DOMAIN pend /\ pend2[i] = pend[i]) \/ (i = Len(pend) + 1 /\ pend2[i] = w)
  <2>1. i \in DOMAIN pend \/ i = Len(pend) + 1
    BY <1>1 DEF Appended
  <2> QED
    BY Zenon, <1>1, <2>1 DEF Appended
<1>3. ASSUME NEW i \in DOMAIN pend PROVE ForReg(pend[i], r2) /\ ForPeers(pend[i], c2)
  <2>1. ForReg(pend[i], r2)
    BY Zenon DEF Talk, Waits, NoneWaits, ForReg
  <2>2. ForPeers(pend[i], c2)
    BY Zenon DEF Talk, Waits, NoneWaits, ForPeers
  <2> QED
    BY Zenon, <2>1, <2>2
<1>4. \A i \in DOMAIN pend2 : ForReg(pend2[i], r2) /\ ForPeers(pend2[i], c2)
  BY Zenon, <1>2, <1>3
<1>5. \A i, j \in DOMAIN pend2 :
        pend2[i].who = pend2[j].who /\ pend2[i].who # "nobody" => i = j
  BY Zenon, <1>2 DEF Talk, Waits, NoneWaits
<1> QED
  BY Zenon, <1>1, <1>4, <1>5 DEF Talk, Waits, pend2

Forgotten(pend, lines, pend2) ==
  /\ \A i \in DOMAIN pend2 : pend2[i].who = "nobody" \/ (i \in DOMAIN pend /\ pend2[i] = pend[i])
  /\ \A p, who : Answer(pend2, lines, p, who) => who = "nobody" \/ Answer(pend, lines, p, who)

\* A call gives up.
LEMMA TalkGivenUp ==
  ASSUME NEW pend, NEW srv, NEW lines, NEW r, NEW c, Talk(pend, srv, lines, r, c), NEW who,
         NEW pend2, pend2 = GaveUp(pend, who),
         NEW r2, r2 = r \/ who = "reg", NEW c2, c2 = c \/ who = "peers"
  PROVE  Talk(pend2, srv, lines, r2, c2) /\ Forgotten(pend, lines, pend2)
<1>0. Queue(pend2, srv, lines) /\ Dropped(pend, who, pend2)
  BY Zenon, GivenUp DEF Talk
<1>1. /\ Queue(pend2, srv, lines) /\ DOMAIN pend2 = DOMAIN pend
      /\ \A i \in DOMAIN pend :
           pend2[i].who = "nobody" \/ (pend2[i] = pend[i] /\ pend[i].who # who)
  BY Zenon, <1>0 DEF Dropped
<1>2. ASSUME NEW i \in DOMAIN pend PROVE ForReg(pend2[i], r2) /\ ForPeers(pend2[i], c2)
  <2>1. CASE pend2[i].who = "nobody"
    <3>1. pend2[i].who # "reg" /\ pend2[i].who # "peers"
      BY <2>1
    <3> QED
      BY Zenon, <3>1 DEF ForReg, ForPeers
  <2>2. CASE pend2[i] = pend[i] /\ pend[i].who # who
    <3>1. ForReg(pend[i], r) /\ ForPeers(pend[i], c)
      BY Zenon DEF Talk, Waits
    <3>2. ForReg(pend2[i], r2)
      BY Zenon, <2>2, <3>1 DEF ForReg
    <3>3. ForPeers(pend2[i], c2)
      BY Zenon, <2>2, <3>1 DEF ForPeers
    <3> QED
      BY Zenon, <3>2, <3>3
  <2> QED
    BY Zenon, <1>1, <2>1, <2>2
<1>3. \A i, j \in DOMAIN pend2 :
        pend2[i].who = pend2[j].who /\ pend2[i].who # "nobody" => i = j
  <2> SUFFICES ASSUME NEW i \in DOMAIN pend, NEW j \in DOMAIN pend,
                      pend2[i].who = pend2[j].who, pend2[i].who # "nobody"
               PROVE  i = j
    BY Zenon, <1>1
  <2>1. pend2[i] = pend[i] /\ pend2[j] = pend[j]
    BY Zenon, <1>1
  <2> QED
    BY Zenon, <2>1 DEF Talk, Waits
<1>4. ASSUME NEW p, NEW j, Answer(pend2, lines, p, j)
      PROVE  j = "nobody" \/ Answer(pend, lines, p, j)
  <2>1. InQueue(pend2, srv, lines, ReplyCount(lines, Len(lines)))
    BY Zenon, <1>1, Placed
  <2>2. ReplyCount(lines, p) \in DOMAIN pend
    BY Zenon, <1>1, <1>4, <2>1 DEF InQueue, Answer
  <2> QED
    BY Zenon, <1>1, <1>4, <2>2 DEF Answer
<1>5. Talk(pend2, srv, lines, r2, c2)
  BY Zenon, <1>1, <1>2, <1>3 DEF Talk, Waits
<1> QED
  BY Zenon, <1>1, <1>4, <1>5 DEF Forgotten

\* A line more.
LEMMA RowsMore ==
  ASSUME NEW lines, StatusRows(lines), NEW l, NEW lines2, Appended(lines, l, lines2),
         l.type = "reply" /\ l.command = Status => l.rows \in Tables
  PROVE  StatusRows(lines2)
<1>1. \A p \in DOMAIN lines2 : p \in DOMAIN lines \/ p = Len(lines) + 1
  BY DEF Appended
<1> QED
  BY Zenon, <1>1 DEF StatusRows, Appended

\* A notification more leaves the exchange in order.
LEMMA TalkNotified ==
  ASSUME NEW pend, NEW srv, NEW lines, NEW r, NEW c, Talk(pend, srv, lines, r, c),
         NEW l \in Events
  PROVE  /\ Talk(pend, srv, Append(lines, l), r, c) /\ Appended(lines, l, Append(lines, l))
         /\ SameAnswers(pend, lines, pend, Append(lines, l))
<1>1. l.type # "reply"
  BY DEF Events
<1>2. /\ Queue(pend, srv, Append(lines, l)) /\ Appended(lines, l, Append(lines, l))
      /\ SameAnswers(pend, lines, pend, Append(lines, l))
  BY Zenon, Notified DEF Talk
<1>3. StatusRows(Append(lines, l))
  BY Zenon, <1>1, <1>2, RowsMore DEF Talk
<1> QED
  BY Zenon, <1>2, <1>3 DEF Talk

\* So does the reply to the command carried out.
LEMMA TalkReplied ==
  ASSUME NEW pend, NEW srv, NEW lines, NEW r, NEW c, Talk(pend, srv, lines, r, c),
         srv # <<>>, NEW a \in Answers, a.command = Head(srv),
         a.command = Status => a.rows \in Tables
  PROVE  /\ Talk(pend, Tail(srv), Append(lines, a), r, c)
         /\ Appended(lines, a, Append(lines, a))
         /\ NewAnswer(pend, lines, a, Append(lines, a))
<1>1. /\ Queue(pend, Tail(srv), Append(lines, a)) /\ Appended(lines, a, Append(lines, a))
      /\ NewAnswer(pend, lines, a, Append(lines, a))
  BY Zenon, Replied DEF Talk
<1>2. StatusRows(Append(lines, a))
  BY Zenon, <1>1, RowsMore DEF Talk
<1> QED
  BY Zenon, <1>1, <1>2 DEF Talk

\* A line less.
LEMMA TalkLineRead ==
  ASSUME NEW pend, NEW srv, NEW lines, NEW r, NEW c, Talk(pend, srv, lines, r, c),
         lines # <<>>, Head(lines).type # "reply"
  PROVE  /\ Talk(pend, srv, Tail(lines), r, c) /\ Shifted(lines, Tail(lines))
         /\ Moved(pend, lines, pend, Tail(lines))
<1>1. /\ Queue(pend, srv, Tail(lines)) /\ Shifted(lines, Tail(lines))
      /\ Moved(pend, lines, pend, Tail(lines))
  BY Zenon, LineRead DEF Talk
<1>2. StatusRows(Tail(lines))
  BY Zenon, <1>1 DEF StatusRows, Talk, Shifted
<1> QED
  BY Zenon, <1>1, <1>2 DEF Talk

\* A reply is read by whoever is first in the queue.
LEMMA TalkReplyRead ==
  ASSUME NEW pend, NEW srv, NEW lines, NEW r, NEW c, Talk(pend, srv, lines, r, c),
         lines # <<>>, Head(lines).type = "reply",
         NEW r2, r2 = r \/ Head(pend).who = "reg",
         NEW c2, c2 = c \/ Head(pend).who = "peers"
  PROVE  /\ Talk(Tail(pend), srv, Tail(lines), r2, c2)
         /\ pend # <<>> /\ Answer(pend, lines, 1, Head(pend).who)
         /\ Shifted(lines, Tail(lines)) /\ Shifted(pend, Tail(pend))
         /\ Moved(pend, lines, Tail(pend), Tail(lines))
<1> DEFINE left == Tail(pend)
<1>1. /\ Queue(left, srv, Tail(lines)) /\ Shifted(lines, Tail(lines)) /\ Shifted(pend, left)
      /\ pend # <<>> /\ Answer(pend, lines, 1, Head(pend).who)
      /\ Moved(pend, lines, left, Tail(lines))
  BY Zenon, ReplyRead DEF Talk
<1> HIDE DEF left
<1>2. StatusRows(Tail(lines))
  BY Zenon, <1>1 DEF StatusRows, Talk, Shifted
<1>3. \A i \in DOMAIN left : i + 1 # 1 /\ \A j \in DOMAIN left : i + 1 = j + 1 => i = j
  BY <1>1 DEF Shifted
<1>4. ASSUME NEW i \in DOMAIN left
      PROVE  /\ left[i] = pend[i + 1] /\ i + 1 \in DOMAIN pend
             /\ left[i].who = Head(pend).who => left[i].who = "nobody"
  <2>1. left[i] = pend[i + 1] /\ i + 1 \in DOMAIN pend /\ 1 \in DOMAIN pend /\ Head(pend) = pend[1]
    BY Zenon, <1>1 DEF Shifted
  <2>2. pend[i + 1].who = pend[1].who /\ pend[i + 1].who # "nobody" => i + 1 = 1
    BY Zenon, <2>1 DEF Talk, Waits
  <2> QED
    BY Zenon, <1>3, <2>1, <2>2
<1>5. ASSUME NEW i \in DOMAIN left PROVE ForReg(left[i], r2) /\ ForPeers(left[i], c2)
  <2>1. ForReg(left[i], r) /\ ForPeers(left[i], c)
    BY Zenon, <1>4 DEF Talk, Waits
  <2>2. "nobody" # "reg" /\ "nobody" # "peers"
    OBVIOUS
  <2>3. ForReg(left[i], r2)
    BY Zenon, <1>4, <2>1, <2>2 DEF ForReg
  <2>4. ForPeers(left[i], c2)
    BY Zenon, <1>4, <2>1, <2>2 DEF ForPeers
  <2> QED
    BY Zenon, <2>3, <2>4
<1>6. \A i, j \in DOMAIN left : left[i].who = left[j].who /\ left[i].who # "nobody" => i = j
  <2> SUFFICES ASSUME NEW i \in DOMAIN left, NEW j \in DOMAIN left,
                      left[i].who = left[j].who, left[i].who # "nobody"
               PROVE  i = j
    BY Zenon
  <2>1. pend[i + 1].who = pend[j + 1].who /\ pend[i + 1].who # "nobody" => i + 1 = j + 1
    BY Zenon, <1>4 DEF Talk, Waits
  <2> QED
    BY Zenon, <1>3, <1>4, <2>1
<1> QED
  BY Zenon, <1>1, <1>2, <1>5, <1>6 DEF Talk, Waits, left

-----------------------------------------------------------------------------
(* What a removal ends.                                                      *)

\* Connection o carries nothing any more, as far as link l says.
Ended(l, o) == l.id > o \/ l.state \in {"none", "killed"}
Hits(l, o, id) == id \in Nat /\ o <= id /\ id <= l.id
Aimed(l, o) == o \in Nat /\ o <= l.id /\ (l.id = o => l.state \notin {"asking", "admitted"})

\* What a table of connections read after the removal began says.
TableSays(l, k, o, rows) == IF k \in DOMAIN rows THEN Hits(l, o, rows[k].id) ELSE Ended(l, o)

Cut(r, lnk, pend, lines) ==
  r.op = "remove" =>
    /\ Aimed(lnk[r.key], r.open)
    /\ r.pc = "rows" => TableSays(lnk[r.key], r.key, r.open, r.rows)
    /\ r.pc = "killing" => \A i \in DOMAIN pend :
         pend[i].who = "reg" => Hits(lnk[r.key], r.open, pend[i].command.id)
    /\ \A p \in DOMAIN lines : Answer(pend, lines, p, "reg") =>
         /\ r.pc = "asked" => TableSays(lnk[r.key], r.key, r.open, lines[p].rows)
         /\ r.pc = "killing" => Ended(lnk[r.key], r.open)

\* How a connection may change.
MovesOn(l, l2) ==
  \/ l2.id > l.id
  \/ /\ l2.id = l.id
     /\ l.state \in {"none", "killed"} => l2.state \in {"none", "killed"}
     /\ l.state \notin {"asking", "admitted"} => l2.state \notin {"asking", "admitted"}

\* A connection that has ended does not come back as the same one.
LEMMA EndedStays ==
  ASSUME NEW l \in Links, NEW l2 \in Links, MovesOn(l, l2), NEW o \in Nat, o <= l.id,
         Ended(l, o)
  PROVE  Ended(l2, o)
<1>1. l.id \in Nat /\ l2.id \in Nat
  BY DEF Links
<1>2. CASE l2.id > l.id
  BY <1>1, <1>2 DEF Ended
<1>3. CASE l2.id = l.id /\ (l.state \in {"none", "killed"} => l2.state \in {"none", "killed"})
  BY Zenon, <1>3 DEF Ended
<1> QED
  BY Zenon, <1>2, <1>3 DEF MovesOn

\* What a removal aims at stays aimed at.
LEMMA AimedStays ==
  ASSUME NEW l \in Links, NEW l2 \in Links, MovesOn(l, l2), NEW o, Aimed(l, o)
  PROVE  Aimed(l2, o)
BY DEF Links, MovesOn, Aimed

\* A kill that would hit still does.
LEMMA HitsStays ==
  ASSUME NEW l \in Links, NEW l2 \in Links, MovesOn(l, l2), NEW o, NEW id, Hits(l, o, id)
  PROVE  Hits(l2, o, id)
BY DEF Links, MovesOn, Hits

\* A table that names the connection to kill goes on naming it.
LEMMA TableStays ==
  ASSUME NEW l \in Links, NEW l2 \in Links, MovesOn(l, l2), NEW k, NEW o \in Nat, o <= l.id,
         NEW rows, TableSays(l, k, o, rows)
  PROVE  TableSays(l2, k, o, rows)
BY Zenon, EndedStays, HitsStays DEF TableSays

\* A connection that stays as it is moves on.
LEMMA SameMoves == \A l : MovesOn(l, l)
BY Zenon DEF MovesOn

\* Nothing new is waited for or answered.
Traced(pend, lines, pend2, lines2, who) ==
  /\ \A i \in DOMAIN pend2 : pend2[i].who = who => \E j \in DOMAIN pend : pend[j] = pend2[i]
  /\ \A p \in DOMAIN lines2 : Answer(pend2, lines2, p, who) =>
       \E q \in DOMAIN lines : Answer(pend, lines, q, who) /\ lines2[p] = lines[q]

\* Connections that move on, and answers that are no new ones, leave a removal in order.
LEMMA CutStays ==
  ASSUME NEW r, NEW lnk \in [Key -> Links], NEW lnk2 \in [Key -> Links], NEW pend, NEW lines,
         NEW pend2, NEW lines2, Cut(r, lnk, pend, lines), r.op = "remove" => r.key \in Key,
         \A k \in Key : MovesOn(lnk[k], lnk2[k]), Traced(pend, lines, pend2, lines2, "reg")
  PROVE  Cut(r, lnk2, pend2, lines2)
<1> SUFFICES ASSUME r.op = "remove" PROVE Cut(r, lnk2, pend2, lines2)
  BY Zenon DEF Cut
<1> DEFINE l == lnk[r.key]
           l2 == lnk2[r.key]
<1>1. l \in Links /\ l2 \in Links /\ MovesOn(l, l2)
  BY Zenon
<1>2. Aimed(l, r.open) /\ r.open \in Nat /\ r.open <= l.id
  BY Zenon DEF Cut, Aimed
<1> HIDE DEF l, l2
<1>3. Aimed(l2, r.open)
  BY Zenon, <1>1, <1>2, AimedStays
<1>4. r.pc = "rows" => TableSays(l2, r.key, r.open, r.rows)
  <2>1. r.pc = "rows" => TableSays(l, r.key, r.open, r.rows)
    BY Zenon DEF Cut, l
  <2> QED
    BY Zenon, <1>1, <1>2, <2>1, TableStays
<1>5. ASSUME r.pc = "killing", NEW i \in DOMAIN pend2, pend2[i].who = "reg"
      PROVE  Hits(l2, r.open, pend2[i].command.id)
  <2>1. PICK j \in DOMAIN pend : pend[j] = pend2[i]
    BY Zenon, <1>5 DEF Traced
  <2>2. Hits(l, r.open, pend[j].command.id)
    BY Zenon, <1>5, <2>1 DEF Cut, l
  <2>3. Hits(l2, r.open, pend[j].command.id)
    BY Zenon, <1>1, <2>2, HitsStays
  <2> QED
    BY Zenon, <2>1, <2>3
<1>6. ASSUME NEW p \in DOMAIN lines2, Answer(pend2, lines2, p, "reg")
      PROVE  /\ r.pc = "asked" => TableSays(l2, r.key, r.open, lines2[p].rows)
             /\ r.pc = "killing" => Ended(l2, r.open)
  <2>1. PICK q \in DOMAIN lines : Answer(pend, lines, q, "reg") /\ lines2[p] = lines[q]
    BY Zenon, <1>6 DEF Traced
  <2>2. /\ r.pc = "asked" => TableSays(l, r.key, r.open, lines[q].rows)
        /\ r.pc = "killing" => Ended(l, r.open)
    BY Zenon, <2>1 DEF Cut, l
  <2>3. r.pc = "asked" => TableSays(l2, r.key, r.open, lines[q].rows)
    BY Zenon, <1>1, <1>2, <2>2, TableStays
  <2>4. r.pc = "killing" => Ended(l2, r.open)
    BY Zenon, <1>1, <1>2, <2>2, EndedStays
  <2> QED
    BY Zenon, <2>1, <2>3, <2>4
<1> QED
  BY Zenon, <1>3, <1>4, <1>5, <1>6 DEF Cut, l2

\* Where nobody waits for a removal's command there is less to say.
LEMMA CutUnasked ==
  ASSUME NEW r, NEW lnk, NEW pend, NEW lines, NoneWaits(pend, lines, "reg"),
         r.op = "remove" => Aimed(lnk[r.key], r.open),
         r.op = "remove" /\ r.pc = "rows" => TableSays(lnk[r.key], r.key, r.open, r.rows)
  PROVE  Cut(r, lnk, pend, lines)
BY Zenon DEF Cut, NoneWaits

\* The three ways in which the answers to who are answers already there.
LEMMA TracedAlike ==
  ASSUME NEW pend, NEW lines, NEW lines2, NEW who, SameAnswers(pend, lines, pend, lines2)
  PROVE  Traced(pend, lines, pend, lines2, who)
BY Zenon DEF Traced, SameAnswers, Answer

\* A command is sent by somebody else.
LEMMA TracedSent ==
  ASSUME NEW pend, NEW lines, NEW w, NEW pend2, NEW who, Appended(pend, w, pend2),
         SameAnswers(pend, lines, pend2, lines), w.who # who
  PROVE  Traced(pend, lines, pend2, lines, who)
<1>1. \A i \in DOMAIN pend2 : i \in DOMAIN pend \/ i = Len(pend) + 1
  BY DEF Appended
<1>2. \A i \in DOMAIN pend2 : pend2[i].who = who => \E j \in DOMAIN pend : pend[j] = pend2[i]
  BY Zenon, <1>1 DEF Appended
<1> QED
  BY Zenon, <1>2 DEF Traced, SameAnswers, Answer

\* A line is read.
LEMMA TracedRead ==
  ASSUME NEW pend, NEW lines, NEW pend2, NEW lines2, NEW who, Moved(pend, lines, pend2, lines2),
         pend2 = pend \/ Shifted(pend, pend2)
  PROVE  Traced(pend, lines, pend2, lines2, who)
<1>1. \A i \in DOMAIN pend2 : \E j \in DOMAIN pend : pend[j] = pend2[i]
  BY Zenon DEF Shifted
<1> QED
  BY Zenon, <1>1 DEF Traced, Moved
=============================================================================
