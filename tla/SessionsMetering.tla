-------------------------- MODULE SessionsMetering --------------------------
(***************************************************************************)
(* Every step of Sessions keeps the invariant its metering rests on.       *)
(***************************************************************************)
EXTENDS SessionsInvariant

Past == {"plan", "lock", "add", "record"}

-----------------------------------------------------------------------------
(* Facts about bytes and types.                                            *)

\* How byte pairs compare and add up.
LEMMA Comparing ==
  ASSUME NEW a \in Bytes, NEW b \in Bytes
  PROVE  /\ AtLeast(a, a) /\ Zero \in Bytes /\ Plus(a, b) \in Bytes
         /\ Plus(a, Zero) = a /\ AtLeast(Plus(a, b), a)
         /\ \A c \in Bytes : /\ AtLeast(a, b) /\ AtLeast(b, c) => AtLeast(a, c)
                             /\ AtLeast(b, c) => AtLeast(Plus(a, b), Plus(a, c))
BY DEF Bytes, AtLeast, Plus, Zero

\* What the types say of every number of bytes at hand.
Counted ==
  /\ \A s \in Session : chain[s].bytes \in Bytes /\ used[s] \in Bytes
  /\ \A s \in Stored : row[s].key \in Key /\ row[s].base \in Bytes /\ row[s].bytes \in Bytes
  /\ \A k \in Peers : peer[k].bytes \in Bytes
  /\ \A k \in Key : set.peers[k] # None => set.peers[k] \in Bytes
  /\ \A h \in Handler : req[h].base \in Bytes
  /\ Stored \subseteq Session /\ Peers \subseteq Key
  /\ upd.todo \subseteq Session /\ upd.batch \subseteq Session
  /\ \A s \in upd.todo \cup upd.batch : upd.items[s] \in Row /\ upd.items[s].bytes \in Bytes

\* The types give it.
LEMMA Counting == Shape => Counted
<1> SUFFICES ASSUME Shape PROVE Counted
  OBVIOUS
<1>1. \A s \in Session : chain[s].bytes \in Bytes /\ used[s] \in Bytes
  BY Zenon DEF Shape, TypeOK
<1>2. \A s \in Stored : row[s].key \in Key /\ row[s].base \in Bytes /\ row[s].bytes \in Bytes
  BY Zenon DEF Shape, TypeOK, Stored, Row
<1>3. \A k \in Peers : peer[k].bytes \in Bytes
  BY Zenon DEF Shape, TypeOK, Peers, Peer
<1>4. \A k \in Key : set.peers[k] # None => set.peers[k] \in Bytes
  BY Zenon DEF Shape, TypeOK, SetState
<1>5. \A h \in Handler : req[h].base \in Bytes
  BY Zenon DEF Shape, TypeOK, Request
<1>6. upd.todo \subseteq Session /\ upd.batch \subseteq Session
  BY Zenon DEF Shape, TypeOK, UpdateState
<1>7. \A s \in upd.todo \cup upd.batch : upd.items[s] \in Row
  BY Zenon, <1>6 DEF Shape, TypeOK, UpdateState, UpdateShape
<1>8. \A s \in upd.todo \cup upd.batch : upd.items[s].bytes \in Bytes
  BY Zenon, <1>7 DEF Row
<1> QED
  BY Zenon, <1>1, <1>2, <1>3, <1>4, <1>5, <1>6, <1>7, <1>8 DEF Counted, Stored, Peers

-----------------------------------------------------------------------------
(* Most steps change no total.  What such a step may do.                   *)

\* A row that goes is of a session that ended, and its peer goes with it.
RowsKept ==
  \A s \in Session :
    /\ row'[s] # None => row[s] # None /\ row'[s] = row[s]
    /\ row[s] # None /\ row'[s] = None =>
         Ended(s) /\ s \notin upd.batch /\ peer'[row[s].key] = None

\* A peer that comes has a key without a row and moved nothing.
PeersKept ==
  \A k \in Key : peer'[k] # None =>
    \/ peer[k] # None /\ peer'[k].bytes = peer[k].bytes
    \/ ~KeyStored(k) /\ peer'[k].bytes = Zero

HandlersKept ==
  \A h \in Handler :
    /\ pc'[h] # "idle" => <<req'[h].s, req'[h].k>> \in Asks
    /\ pc'[h] \in Past =>
         \/ pc[h] \in Past /\ req'[h].s = req[h].s /\ req'[h].base = req[h].base
         \/ req'[h].s \in Session /\ req'[h].base = chain[req'[h].s].bytes

UpdateKept ==
  /\ upd'.todo \subseteq upd.todo /\ upd'.batch \subseteq upd.batch
  /\ \A s \in upd'.todo \cup upd'.batch : upd'.items[s] = upd.items[s]
  /\ upd'.removeSession => upd.removeSession /\ upd'.cur = upd.cur

TotalsKept ==
  /\ RowsKept /\ PeersKept /\ HandlersKept /\ UpdateKept
  /\ \A k \in Key : set'.peers[k] # None => set'.peers[k] = set.peers[k]
  /\ \A s \in Session :
       /\ chain'[s].bytes = chain[s].bytes /\ used'[s] = used[s]
       /\ (Ended(s) => Ended(s)') /\ (Lapsed(s) => Lapsed(s)')
  /\ node' # "up" => node # "up" /\ UNCHANGED <<set, upd>>
  /\ late' = NoTx

\* What there is to show of the bases after a step.
LEMMA BasesNext ==
  ASSUME Shape', Counted',
         \A h \in Handler, s \in Session, b \in Bytes :
           pc'[h] \in Past /\ s = req'[h].s /\ b = req'[h].base =>
             /\ Lapsed(s)' \/ AtLeast(used'[s], b)
             /\ s \in Stored' \/ Ended(s)' \/ AtLeast(b, chain'[s].bytes)
  PROVE  BasesCurrent'
<1>1. \A h \in Handler : pc'[h] \in Past => req'[h].s \in Session /\ req'[h].base \in Bytes
  BY Zenon DEF Shape, HandlersNamed, Past, Counted
<1> QED
  BY Zenon, <1>1 DEF BasesCurrent, Past, Ended, Lapsed

\* A step that changes no total keeps the invariant.
LEMMA TotalsKeep ==
  ASSUME Shape, Shape', MInv, OwnKeys, TotalsKept
  PROVE  MInv'
<1>0. Counted /\ Counted'
  BY Counting, PTL
<1> USE DEF TotalsKept
<1>1. \A s \in Stored' : s \in Stored /\ s \in Session /\ row'[s] = row[s]
  BY Zenon DEF RowsKept, Stored
<1>2. Asked'
  BY Zenon, <1>1 DEF MInv, Asked, HandlersKept
<1>3. FreshCounters'
  <2> SUFFICES ASSUME NEW k \in Key, ~KeyStored(k)'
               PROVE  /\ peer'[k] # None => peer'[k].bytes = Zero
                      /\ set'.peers[k] # None =>
                           \/ set'.peers[k] = Zero
                           \/ \A ask \in Asks : ask[2] = k => Ended(ask[1])'
    BY Zenon DEF FreshCounters, Peers
  <2>1. \A ask \in Asks : ask[1] \in Session
    BY Zenon, SessionsAssumption
  <2>2. CASE KeyStored(k)
    <3>1. PICK s \in Stored : row[s].key = k
      BY Zenon, <2>2 DEF KeyStored
    <3>2. s \in Session /\ row'[s] = None /\ row[s] # None
      BY Zenon, <1>1, <3>1 DEF KeyStored, Stored
    <3>3. Ended(s)' /\ peer'[k] = None
      BY Zenon, <3>1, <3>2 DEF RowsKept
    <3>4. <<s, k>> \in Asks
      BY Zenon, <3>1 DEF MInv, Asked
    <3>5. \A ask \in Asks : ask[2] = k => ask[1] = s
      BY Zenon, <3>4 DEF OwnKeys
    <3> QED
      BY Zenon, <3>3, <3>5
  <2>3. CASE ~KeyStored(k)
    <3>1. peer'[k] # None => peer'[k].bytes = Zero
      BY Zenon, <2>3 DEF MInv, FreshCounters, PeersKept, Peers
    <3>2. set'.peers[k] # None =>
            \/ set'.peers[k] = Zero
            \/ \A ask \in Asks : ask[2] = k => Ended(ask[1])
      BY Zenon, <2>3 DEF MInv, FreshCounters
    <3> QED
      BY Zenon, <2>1, <3>1, <3>2
  <2> QED
    BY Zenon, <2>2, <2>3
<1>4. BasesCurrent'
  <2> SUFFICES ASSUME NEW h \in Handler, NEW s \in Session, NEW b \in Bytes,
                      pc'[h] \in Past, s = req'[h].s, b = req'[h].base
               PROVE  /\ Lapsed(s)' \/ AtLeast(used'[s], b)
                      /\ s \in Stored' \/ Ended(s)' \/ AtLeast(b, chain'[s].bytes)
    BY Zenon, <1>0, BasesNext
  <2>0. /\ chain'[s].bytes = chain[s].bytes /\ used'[s] = used[s]
        /\ (Ended(s) => Ended(s)') /\ (Lapsed(s) => Lapsed(s)')
    OBVIOUS
  <2>1. CASE pc[h] \in Past /\ s = req[h].s /\ b = req[h].base
    <3>1. /\ Lapsed(s) \/ AtLeast(used[s], b)
          /\ s \in Stored \/ Ended(s) \/ AtLeast(b, chain[s].bytes)
      BY Zenon, <2>1 DEF MInv, BasesCurrent, Past
    <3>2. s \in Stored => s \in Stored' \/ Ended(s)
      BY Zenon DEF RowsKept, Stored
    <3> QED
      BY ONLY Zenon, <2>0, <3>1, <3>2
  <2>2. CASE b = chain[s].bytes
    <3>1. Lapsed(s) \/ AtLeast(used[s], b)
      BY Zenon, <2>2 DEF MInv, ChainWithin
    <3>2. AtLeast(b, b)
      BY Zenon, Comparing
    <3> QED
      BY ONLY Zenon, <2>0, <2>2, <3>1, <3>2
  <2> QED
    BY Zenon, <2>1, <2>2 DEF HandlersKept
<1>5. RowsBetween'
  <2> SUFFICES ASSUME NEW s \in Session, s \in Stored', ~Ended(s)'
               PROVE  Between(row'[s], chain'[s].bytes, set'.peers[row'[s].key],
                              peer'[row'[s].key], used'[s])
    BY Zenon DEF RowsBetween, Stored
  <2> DEFINE r == row[s]
             k == r.key
  <2>1. /\ s \in Stored /\ row'[s] = r /\ ~Ended(s)
        /\ chain'[s].bytes = chain[s].bytes /\ used'[s] = used[s]
    BY Zenon, <1>1
  <2>2. k \in Key /\ KeyStored(k)
    BY Zenon, <1>0, <2>1 DEF Counted, KeyStored
  <2>3. set'.peers[k] = None \/ set'.peers[k] = set.peers[k]
    BY Zenon, <2>2
  <2>4. peer'[k] = None \/ (peer[k] # None /\ peer'[k].bytes = peer[k].bytes)
    BY Zenon, <2>2 DEF PeersKept
  <2>5. Between(r, chain[s].bytes, set.peers[k], peer[k], used[s])
    BY Zenon, <2>1 DEF MInv, RowsBetween
  <2> HIDE DEF r
  <2> QED
    BY ONLY Zenon, <2>1, <2>3, <2>4, <2>5 DEF Between
<1>6. ItemsBetween'
  <2>1. ASSUME NEW s \in upd'.todo \cup upd'.batch, s \in upd'.batch \/ ~Ended(s)'
        PROVE  /\ s \in Stored'
               /\ AtLeast(upd'.items[s].bytes, chain'[s].bytes)
               /\ AtLeast(used'[s], upd'.items[s].bytes)
               /\ ~Ended(s)' => AtLeast(row'[s].bytes, upd'.items[s].bytes)
    <3>1. s \in upd.todo \cup upd.batch /\ upd'.items[s] = upd.items[s] /\ s \in Session
      BY Zenon, <1>0 DEF UpdateKept, Counted
    <3>2. s \in upd.batch \/ ~Ended(s)
      BY Zenon, <2>1, <3>1 DEF UpdateKept
    <3> DEFINE b == upd.items[s].bytes
    <3>3. /\ s \in Stored /\ AtLeast(b, chain[s].bytes) /\ AtLeast(used[s], b)
          /\ ~Ended(s) => AtLeast(row[s].bytes, b)
      BY Zenon, <3>1, <3>2 DEF MInv, ItemsBetween
    <3>4. s \in Stored' /\ row'[s] = row[s]
      BY Zenon, <3>1, <3>2, <3>3 DEF RowsKept, Stored
    <3>5. /\ chain'[s].bytes = chain[s].bytes /\ used'[s] = used[s]
          /\ (Ended(s) => Ended(s)') /\ (Lapsed(s) => Lapsed(s)')
      BY Zenon, <3>1
    <3> QED
      BY ONLY Zenon, <3>1, <3>3, <3>4, <3>5
  <2>2. upd'.todo \cap upd'.batch = {}
    BY Zenon DEF UpdateKept, MInv, ItemsBetween
  <2>3. ASSUME upd'.removeSession
        PROVE  upd'.cur \in Session /\ upd'.cur \notin upd'.batch /\ Ended(upd.cur)'
    <3>1. /\ upd.removeSession /\ upd'.cur = upd.cur /\ upd.cur \notin upd.batch
          /\ upd'.batch \subseteq upd.batch
      BY Zenon, <2>3 DEF UpdateKept, MInv, ItemsBetween
    <3>2. PICK s \in Session : s = upd.cur /\ Ended(s)
      BY Zenon, <3>1 DEF MInv, ItemsBetween
    <3>3. Ended(s)'
      BY Zenon, <3>2
    <3>4. Ended(upd.cur)'
      BY ONLY Zenon, <3>1, <3>2, <3>3 DEF Ended, Lapsed
    <3> QED
      BY Zenon, <3>1, <3>2, <3>4
  <2> QED
    BY ONLY Zenon, <2>1, <2>2, <2>3 DEF ItemsBetween
<1>7. ChainWithin'
  BY Zenon DEF MInv, ChainWithin
<1>8. QuietJobs'
  BY Zenon DEF MInv, QuietJobs
<1> QED
  BY Zenon, <1>2, <1>3, <1>4, <1>5, <1>6, <1>7, <1>8 DEF MInv

-----------------------------------------------------------------------------
(* The handshakes.                                                         *)

\* A handler writes the row: the base it took is what the chain still holds,
\* and neither its peer nor the counters in hand have moved.
LEMMA RowCreated ==
  ASSUME IInv, Shape', MInv, OwnKeys, NEW h \in Handler, CreateRow(h), UNCHANGED peer,
         row[req[h].s] = None, ~KeyStored(req[h].k),
         row' = [row EXCEPT ![req[h].s] =
                   [key |-> req[h].k, available |-> req[h].left, base |-> req[h].base,
                    bytes |-> req[h].base]]
  PROVE  MInv'
<1> DEFINE s == req[h].s
           k == req[h].k
           base == req[h].base
<1>0. Counted /\ Counted'
  BY Counting, PTL DEF IInv
<1>1. s \in Session /\ k \in Key /\ base \in Bytes /\ pc[h] = "record"
  BY Zenon, <1>0 DEF IInv, Shape, HandlersNamed, CreateRow, Counted
<1>2. /\ UNCHANGED <<node, chain, plan, late, set, upd, used, peer>>
      /\ pc' = [pc EXCEPT ![h] = "idle"] /\ req' = [req EXCEPT ![h] = NoRequest]
  BY Zenon DEF CreateRow, Leave, chainVars
<1>3. /\ row'[s].key = k /\ row'[s].base = base /\ row'[s].bytes = base
      /\ row'[s] # None
      /\ \A t \in Session : t # s => row'[t] = row[t]
  <2>1. row \in [Session -> Row \cup {None}] /\ row' \in [Session -> Row \cup {None}]
    BY Zenon DEF IInv, Shape, TypeOK
  <2>2. row'[s] = [key |-> k, available |-> req[h].left, base |-> base, bytes |-> base]
    BY Zenon, <1>1, <2>1
  <2>3. row'[s] \in Row
    BY Zenon, <1>1, <2>2 DEF Row, IInv, Shape, TypeOK, Request
  <2> QED
    BY Zenon, <1>1, <2>1, <2>2, <2>3, NoneAssumption
<1>4. \A g \in Handler : pc'[g] # "idle" => g # h /\ pc'[g] = pc[g] /\ req'[g] = req[g]
  BY Zenon, <1>2 DEF IInv, Shape, TypeOK
<1>5. Stored' = Stored \cup {s}
  BY Zenon, <1>1, <1>3 DEF Stored
<1>6. \A t \in Session : Ended(t)' = Ended(t) /\ Lapsed(t)' = Lapsed(t)
  BY Zenon, <1>2 DEF Ended, Lapsed
<1>7. <<s, k>> \in Asks
  BY Zenon, <1>1 DEF MInv, Asked
<1>8. Asked'
  BY Zenon, <1>3, <1>4, <1>5, <1>7 DEF MInv, Asked, Stored
<1>9. \A x \in Key : KeyStored(x) => KeyStored(x)'
  BY <1>3, <1>5 DEF KeyStored, Stored
<1>10. FreshCounters'
  BY Zenon, <1>2, <1>9, <1>6, SessionsAssumption DEF MInv, FreshCounters, Peers
<1>11. BasesCurrent'
  <2> SUFFICES ASSUME NEW g \in Handler, NEW t \in Session, NEW b \in Bytes,
                      pc'[g] \in Past, t = req'[g].s, b = req'[g].base
               PROVE  /\ Lapsed(t)' \/ AtLeast(used'[t], b)
                      /\ t \in Stored' \/ Ended(t)' \/ AtLeast(b, chain'[t].bytes)
    BY Zenon, <1>0, BasesNext
  <2>1. pc'[g] = pc[g] /\ req'[g] = req[g]
    BY Zenon, <1>4 DEF Past
  <2>2. /\ Lapsed(t) \/ AtLeast(used[t], b)
        /\ t \in Stored \/ Ended(t) \/ AtLeast(b, chain[t].bytes)
    BY Zenon, <2>1 DEF MInv, BasesCurrent, Past
  <2> QED
    BY ONLY Zenon, <1>2, <1>5, <1>6, <2>2, t \in Session
<1>12. RowsBetween'
  <2> SUFFICES ASSUME NEW t \in Session, t \in Stored', ~Ended(t)'
               PROVE  Between(row'[t], chain'[t].bytes, set'.peers[row'[t].key],
                              peer'[row'[t].key], used'[t])
    BY Zenon DEF RowsBetween, Stored
  <2>1. ~Ended(t)
    BY Zenon, <1>6
  <2>2. CASE t # s
    <3>1. t \in Stored /\ row'[t] = row[t]
      BY Zenon, <1>3, <1>5, <2>2
    <3> QED
      BY Zenon, <1>2, <2>1, <3>1 DEF MInv, RowsBetween
  <2>3. CASE t = s
    <3>1. s \notin Stored
      BY Zenon DEF Stored
    <3>2. AtLeast(base, chain[s].bytes) /\ AtLeast(used[s], base)
      BY Zenon, <1>1, <2>1, <2>3, <3>1 DEF MInv, BasesCurrent, Ended
    <3>3. set.peers[k] # None => set.peers[k] = Zero
      BY Zenon, <1>1, <1>7, <2>1, <2>3 DEF MInv, FreshCounters
    <3>4. peer[k] # None => peer[k].bytes = Zero
      BY Zenon, <1>1 DEF MInv, FreshCounters, Peers
    <3>5. Plus(base, Zero) = base /\ AtLeast(base, base) /\ AtLeast(Zero, Zero)
      BY Zenon, <1>1, Comparing
    <3>6. Between(row'[s], chain[s].bytes, set.peers[k], peer[k], used[s])
      BY ONLY Zenon, <1>3, <3>2, <3>3, <3>4, <3>5 DEF Between
    <3> QED
      BY ONLY Zenon, <1>2, <1>3, <2>3, <3>6
  <2> QED
    BY Zenon, <2>2, <2>3
<1>13. ItemsBetween'
  <2>1. \A t \in upd.todo \cup upd.batch :
          t \in Stored => t \in Session /\ t # s /\ row'[t] = row[t]
    BY Zenon, <1>3 DEF Stored
  <2> QED
    BY <1>2, <1>5, <2>1 DEF MInv, ItemsBetween, Ended, Lapsed
<1>14. ChainWithin' /\ QuietJobs' /\ late' = NoTx
  BY Zenon, <1>2, <1>6 DEF MInv, ChainWithin, QuietJobs
<1> QED
  BY Zenon, <1>8, <1>10, <1>11, <1>12, <1>13, <1>14 DEF MInv

\* The other steps of a handshake change no total.
LEMMA HandlerKeeps ==
  ASSUME IInv, Shape', MInv, OwnKeys, NEW h \in Handler, HandlerNext(h)
  PROVE  MInv'
<1>1. UNCHANGED <<node, chain, plan, late, set, upd, used>>
  BY Zenon DEF HandlerNext, Begin, QuerySession, QueryPlan, Lock, AddPeer, CreateRow,
     chainVars, history
<1>2. ASSUME row' = row, PeersKept,
             \A g \in Handler : g # h => pc'[g] = pc[g] /\ req'[g] = req[g],
             pc'[h] # "idle" => <<req'[h].s, req'[h].k>> \in Asks,
             pc'[h] \in Past =>
               \/ pc[h] \in Past /\ req'[h].s = req[h].s /\ req'[h].base = req[h].base
               \/ req'[h].s \in Session /\ req'[h].base = chain[req'[h].s].bytes
      PROVE  MInv'
  <2>1. HandlersKept
    BY Zenon, <1>2 DEF HandlersKept, MInv, Asked, Past
  <2>2. RowsKept
    BY Zenon, <1>2 DEF RowsKept
  <2>3. UpdateKept
    BY Zenon, <1>1 DEF UpdateKept
  <2>4. \A s \in Session :
          /\ chain'[s].bytes = chain[s].bytes /\ used'[s] = used[s]
          /\ (Ended(s) => Ended(s)') /\ (Lapsed(s) => Lapsed(s)')
    BY Zenon, <1>1 DEF Ended, Lapsed
  <2>5. TotalsKept
    BY Zenon, <1>1, <1>2, <2>1, <2>2, <2>3, <2>4 DEF TotalsKept, MInv
  <2> QED
    BY Zenon, <2>5, TotalsKeep DEF IInv
<1>3. ASSUME Leave(h)
      PROVE  /\ \A g \in Handler : g # h => pc'[g] = pc[g] /\ req'[g] = req[g]
             /\ pc'[h] = "idle"
  BY Zenon, <1>3 DEF Leave, IInv, Shape, TypeOK
<1>4. ASSUME \A k \in Key : peer'[k] # None => peer[k] # None /\ peer'[k] = peer[k]
      PROVE  PeersKept
  BY Zenon, <1>4 DEF PeersKept
<1>5. ASSUME Leave(h), row' = row, PeersKept PROVE MInv'
  BY Zenon, <1>2, <1>3, <1>5 DEF Past
<1>6. pc[h] # "idle" => <<req[h].s, req[h].k>> \in Asks /\ req[h].s \in Session
  BY Zenon DEF MInv, Asked, IInv, Shape, HandlersNamed
<1>7. pc \in [Handler -> HandlerPc] /\ req \in [Handler -> Request]
  BY Zenon DEF IInv, Shape, TypeOK
<1>8. CASE Begin(h)
  <2>1. PICK ask \in Asks :
          req' = [req EXCEPT ![h] = [NoRequest EXCEPT !.s = ask[1], !.k = ask[2]]]
    BY Zenon, <1>8 DEF Begin
  <2>2. UNCHANGED <<peer, row>> /\ pc' = [pc EXCEPT ![h] = "session"]
    BY Zenon, <1>8 DEF Begin
  <2>3. req'[h].s = ask[1] /\ req'[h].k = ask[2]
    BY ONLY Zenon, <1>7, <2>1 DEF NoRequest
  <2>4. <<req'[h].s, req'[h].k>> \in Asks
    BY <2>3, SessionsAssumption
  <2>5. pc'[h] = "session" /\ \A g \in Handler : g # h => pc'[g] = pc[g] /\ req'[g] = req[g]
    BY Zenon, <1>7, <2>1, <2>2
  <2> QED
    BY Zenon, <1>2, <1>4, <2>2, <2>4, <2>5 DEF Past
<1>9. CASE QuerySession(h)
  <2>1. UNCHANGED <<peer, row>> /\ pc[h] = "session"
    BY Zenon, <1>9 DEF QuerySession
  <2>2. CASE Leave(h)
    BY Zenon, <1>4, <1>5, <2>1, <2>2
  <2>3. CASE ~Leave(h)
    <3> DEFINE s == req[h].s
               asked == [s |-> s, k |-> req[h].k, base |-> chain[s].bytes, utilised |-> 0,
                         left |-> IF MaxBytes[s] > 0
                                    THEN MaxBytes[s] - Total(chain[s].bytes) ELSE 0]
               after == IF SubOf[s] = 0 THEN "lock" ELSE "plan"
    <3>1. req' = [req EXCEPT ![h] = asked] /\ pc' = [pc EXCEPT ![h] = after]
      BY ONLY Zenon, <1>9, <2>3 DEF QuerySession
    <3>2. asked.s = s /\ asked.k = req[h].k /\ asked.base = chain[s].bytes
      OBVIOUS
    <3> HIDE DEF asked, after
    <3>3. /\ req'[h].s = s /\ req'[h].k = req[h].k /\ req'[h].base = chain[s].bytes
          /\ \A g \in Handler : g # h => pc'[g] = pc[g] /\ req'[g] = req[g]
      BY Zenon, <1>7, <3>1, <3>2
    <3> QED
      BY Zenon, <1>2, <1>4, <1>6, <2>1, <3>3
  <2> QED
    BY Zenon, <2>2, <2>3
<1>10. CASE QueryPlan(h)
  <2>1. UNCHANGED <<peer, row>> /\ pc[h] = "plan"
    BY Zenon, <1>10 DEF QueryPlan
  <2>2. CASE Leave(h)
    BY Zenon, <1>4, <1>5, <2>1, <2>2
  <2>3. CASE ~Leave(h)
    <3>1. PICK u : req' = [req EXCEPT ![h].utilised = u] /\ pc' = [pc EXCEPT ![h] = "lock"]
      BY Zenon, <1>10, <2>3 DEF QueryPlan
    <3>2. /\ req'[h].s = req[h].s /\ req'[h].k = req[h].k /\ req'[h].base = req[h].base
          /\ \A g \in Handler : g # h => pc'[g] = pc[g] /\ req'[g] = req[g]
      BY ONLY Zenon, <1>7, <3>1 DEF Request
    <3> QED
      BY Zenon, <1>2, <1>4, <1>6, <2>1, <3>2 DEF Past
  <2> QED
    BY Zenon, <2>2, <2>3
<1>11. CASE Lock(h)
  <2>1. UNCHANGED row /\ pc[h] = "lock"
    BY Zenon, <1>11 DEF Lock
  <2>2. PeersKept
    <3>1. UNCHANGED peer \/ \E K : RemovePeers(K)
      BY Zenon, <1>11 DEF Lock
    <3>2. CASE UNCHANGED peer
      BY Zenon, <1>4, <3>2
    <3>3. ASSUME NEW K, RemovePeers(K) PROVE PeersKept
      BY Zenon, <1>4, <3>3 DEF RemovePeers
    <3> QED
      BY Zenon, <3>1, <3>2, <3>3
  <2>3. CASE Leave(h)
    BY Zenon, <1>5, <2>1, <2>2, <2>3
  <2>4. CASE ~Leave(h)
    <3>1. PICK n : req' = [req EXCEPT ![h].left = n] /\ pc' = [pc EXCEPT ![h] = "add"]
      BY Zenon, <1>11, <2>4 DEF Lock
    <3>2. /\ req'[h].s = req[h].s /\ req'[h].k = req[h].k /\ req'[h].base = req[h].base
          /\ \A g \in Handler : g # h => pc'[g] = pc[g] /\ req'[g] = req[g]
      BY ONLY Zenon, <1>7, <3>1 DEF Request
    <3> QED
      BY Zenon, <1>2, <1>6, <2>1, <2>2, <3>2 DEF Past
  <2> QED
    BY Zenon, <2>3, <2>4
<1>12. CASE AddPeer(h)
  <2> DEFINE k == req[h].k
  <2>1. UNCHANGED row /\ pc[h] = "add"
    BY Zenon, <1>12 DEF AddPeer
  <2>2. k \in Key /\ ~KeyStored(k)
    BY Zenon, <2>1 DEF IInv, AdmittedOnce, Shape, HandlersNamed
  <2>3. CASE Leave(h) /\ UNCHANGED peer
    BY Zenon, <1>4, <1>5, <2>1, <2>3
  <2>4. CASE ~(Leave(h) /\ UNCHANGED peer)
    <3>1. PICK b \in {Zero} \cup {peer[x].bytes : x \in Peers \cap {k}} :
            peer' = [peer EXCEPT ![k] = [s |-> req[h].s, bytes |-> b]]
      BY Zenon, <1>12, <2>4 DEF AddPeer
    <3>2. b = Zero
      BY Zenon, <2>2, <3>1 DEF MInv, FreshCounters
    <3>3. PeersKept
      BY Zenon, <2>2, <3>1, <3>2 DEF PeersKept, IInv, Shape, TypeOK
    <3>4. pc' = [pc EXCEPT ![h] = "record"] /\ req' = req
      BY Zenon, <1>12, <2>4 DEF AddPeer
    <3> QED
      BY Zenon, <1>2, <1>6, <1>7, <2>1, <3>3, <3>4 DEF Past
  <2> QED
    BY Zenon, <2>3, <2>4
<1>13. CASE CreateRow(h)
  <2>1. Leave(h)
    BY Zenon, <1>13 DEF CreateRow
  <2>2. CASE UNCHANGED row
    <3>1. UNCHANGED peer \/ RemovePeers({req[h].k})
      BY Zenon, <1>13 DEF CreateRow
    <3> QED
      BY Zenon, <1>4, <1>5, <2>1, <2>2, <3>1 DEF RemovePeers
  <2>3. CASE ~UNCHANGED row
    BY ONLY Zenon, <1>13, <2>3, IInv, Shape', MInv, OwnKeys, h \in Handler, RowCreated
    DEF CreateRow
  <2> QED
    BY Zenon, <2>2, <2>3
<1> QED
  BY Zenon, <1>8, <1>9, <1>10, <1>11, <1>12, <1>13 DEF HandlerNext

-----------------------------------------------------------------------------
(* The traffic and set_sessions.                                           *)

\* What a client moves is counted at its peer and moves nothing before it.
LEMMA Moving ==
  ASSUME NEW s, NEW r, NEW c \in Bytes, NEW read, NEW p, NEW q, NEW u \in Bytes,
         NEW unit \in Bytes, r.base \in Bytes, r.bytes \in Bytes, p.bytes \in Bytes,
         read # None => read \in Bytes, p # None,
         q.bytes = Plus(p.bytes, unit), Between(r, c, read, p, u)
  PROVE  Between(r, c, read, q, Plus(u, unit))
<1>1. \A b \in Bytes : AtLeast(u, b) => AtLeast(Plus(u, unit), b)
  BY DEF AtLeast, Plus, Bytes
<1>2. AtLeast(r.bytes, c) /\ AtLeast(Plus(u, unit), r.bytes)
  BY Zenon, <1>1 DEF Between
<1>3. read # None => /\ AtLeast(Plus(r.base, read), r.bytes)
                     /\ AtLeast(Plus(u, unit), Plus(r.base, read))
  <2>1. read # None => Plus(r.base, read) \in Bytes
    BY ONLY Zenon, Comparing, r.base \in Bytes, read # None => read \in Bytes
  <2> QED
    BY ONLY Zenon, <1>1, <2>1, Between(r, c, read, p, u) DEF Between
<1>4. AtLeast(Plus(r.base, q.bytes), r.bytes)
  BY DEF Between, AtLeast, Plus, Bytes
<1>5. AtLeast(Plus(u, unit), Plus(r.base, q.bytes))
  <2>1. AtLeast(u, Plus(r.base, p.bytes))
    BY Zenon DEF Between
  <2> QED
    BY <2>1 DEF AtLeast, Plus, Bytes
<1>6. read # None => AtLeast(q.bytes, read)
  BY DEF Between, AtLeast, Plus, Bytes
<1> QED
  BY ONLY Zenon, <1>2, <1>3, <1>4, <1>5, <1>6 DEF Between

\* A client's traffic keeps the invariant.
LEMMA TrafficKeeps ==
  ASSUME IInv, Shape', MInv, NEW k \in Key, Traffic(k)
  PROVE  MInv'
<1>0. Counted /\ Counted'
  BY Counting, PTL DEF IInv
<1>1. /\ UNCHANGED <<node, chain, plan, late, row, pc, req, set, upd>>
      /\ k \in Peers /\ KeyStored(k)
  BY Zenon DEF Traffic, chainVars, handlers
<1>2. PICK s \in Stored : row[s].key = k
  BY Zenon, <1>1 DEF KeyStored
<1>3. s \in Session /\ peer[k].s = s /\ \A t \in Stored : row[t].key = k => t = s
  BY Zenon, <1>1, <1>2 DEF IInv, KeysOwned, Stored
<1>4. PICK unit \in Bytes :
        /\ peer' = [peer EXCEPT ![k].bytes = Plus(@, unit)]
        /\ used' = [used EXCEPT ![s] = Plus(@, unit)]
  BY Zenon, <1>3 DEF Traffic, Bytes
<1>5. /\ peer \in [Key -> Peer \cup {None}] /\ peer[k] \in Peer
      /\ used \in [Session -> Bytes]
  BY Zenon, <1>1 DEF IInv, Shape, TypeOK, Peers
<1>6. /\ peer'[k].bytes = Plus(peer[k].bytes, unit)
      /\ \A x \in Key : x # k => peer'[x] = peer[x]
  BY Zenon, <1>4, <1>5 DEF Peer
<1>7. /\ used'[s] = Plus(used[s], unit)
      /\ \A t \in Session : t # s => used'[t] = used[t]
  BY Zenon, <1>3, <1>4, <1>5
<1>8. \A t \in Session, b \in Bytes : AtLeast(used[t], b) => AtLeast(used'[t], b)
  BY <1>0, <1>3, <1>7 DEF Counted, AtLeast, Plus, Bytes
<1>9. Stored' = Stored /\ \A t \in Session : Ended(t)' = Ended(t) /\ Lapsed(t)' = Lapsed(t)
  BY Zenon, <1>1 DEF Stored, Ended, Lapsed
<1>10. Asked' /\ QuietJobs' /\ late' = NoTx
  BY Zenon, <1>1 DEF MInv, Asked, QuietJobs, Stored
<1>11. FreshCounters'
  <2>1. \A x \in Key : KeyStored(x)' = KeyStored(x)
    BY Zenon, <1>1 DEF KeyStored, Stored
  <2>2. \A x \in Key : ~KeyStored(x) => peer'[x] = peer[x]
    BY Zenon, <1>1, <1>6
  <2>3. \A ask \in Asks : ask[1] \in Session
    BY Zenon, SessionsAssumption
  <2> QED
    BY Zenon, <1>1, <1>9, <2>1, <2>2, <2>3 DEF MInv, FreshCounters, Peers
<1>12. BasesCurrent'
  <2> SUFFICES ASSUME NEW h \in Handler, NEW t \in Session, NEW b \in Bytes,
                      pc'[h] \in Past, t = req'[h].s, b = req'[h].base
               PROVE  /\ Lapsed(t)' \/ AtLeast(used'[t], b)
                      /\ t \in Stored' \/ Ended(t)' \/ AtLeast(b, chain'[t].bytes)
    BY Zenon, <1>0, BasesNext
  <2>1. /\ Lapsed(t) \/ AtLeast(used[t], b)
        /\ t \in Stored \/ Ended(t) \/ AtLeast(b, chain[t].bytes)
    BY Zenon, <1>1 DEF MInv, BasesCurrent, Past
  <2> QED
    BY Zenon, <1>1, <1>8, <1>9, <2>1
<1>13. RowsBetween'
  <2> SUFFICES ASSUME NEW t \in Stored, ~Ended(t)
               PROVE  Between(row[t], chain[t].bytes, set.peers[row[t].key],
                              peer'[row[t].key], used'[t])
    BY Zenon, <1>1, <1>9 DEF RowsBetween, Stored
  <2>1. Between(row[t], chain[t].bytes, set.peers[row[t].key], peer[row[t].key], used[t])
    BY Zenon DEF MInv, RowsBetween
  <2>2. t \in Session /\ row[t].key \in Key
    BY Zenon, <1>0 DEF Counted
  <2>3. CASE row[t].key = k
    <3>1. t = s
      BY Zenon, <1>3, <2>3
    <3>2. /\ chain[s].bytes \in Bytes /\ used[s] \in Bytes /\ peer[k].bytes \in Bytes
          /\ row[s].base \in Bytes /\ row[s].bytes \in Bytes
          /\ set.peers[k] # None => set.peers[k] \in Bytes
          /\ peer[k] # None
      BY Zenon, <1>0, <1>1, <1>2, <1>3 DEF Counted, Peers
    <3> QED
      BY ONLY Moving, unit \in Bytes, <1>6, <1>7, <2>1, <2>3, <3>1, <3>2
  <2>4. CASE row[t].key # k
    BY Zenon, <1>2, <1>6, <1>7, <2>1, <2>2, <2>4
  <2> QED
    BY Zenon, <2>3, <2>4
<1>14. ItemsBetween'
  <2>1. \A t \in upd.todo \cup upd.batch : t \in Session /\ upd.items[t].bytes \in Bytes
    BY Zenon, <1>0 DEF Counted
  <2>2. upd.removeSession => upd.cur \in Session
    BY Zenon DEF MInv, ItemsBetween
  <2> QED
    BY Zenon, <1>1, <1>8, <1>9, <2>1, <2>2 DEF MInv, ItemsBetween, Ended, Lapsed
<1>15. ChainWithin'
  BY Zenon, <1>0, <1>1, <1>8, <1>9 DEF MInv, ChainWithin, Counted
<1> QED
  BY Zenon, <1>10, <1>11, <1>12, <1>13, <1>14, <1>15 DEF MInv

\* A job's step that changes no total.
LEMMA JobKeeps ==
  ASSUME IInv, Shape', MInv, OwnKeys, node = "up",
         UNCHANGED <<node, chain, plan, late, used, pc, req>>,
         RowsKept, UpdateKept,
         \A k \in Key : peer'[k] # None => peer'[k] = peer[k],
         \A k \in Key : set'.peers[k] # None => set'.peers[k] = set.peers[k]
  PROVE  MInv'
<1>1. PeersKept
  BY Zenon DEF PeersKept
<1>2. HandlersKept
  BY Zenon DEF HandlersKept, MInv, Asked, Past
<1>3. \A s \in Session :
        /\ chain'[s].bytes = chain[s].bytes /\ used'[s] = used[s]
        /\ (Ended(s) => Ended(s)') /\ (Lapsed(s) => Lapsed(s)')
  BY Zenon DEF Ended, Lapsed
<1>4. TotalsKept
  BY Zenon, <1>1, <1>2, <1>3 DEF TotalsKept, MInv
<1> QED
  BY Zenon, <1>4, TotalsKeep DEF IInv

\* set_sessions reads the counters where they are.
LEMMA ReadPeersKeeps ==
  ASSUME IInv, Shape', MInv, ReadPeers
  PROVE  MInv'
<1>0. Counted
  BY Zenon, Counting DEF IInv
<1>1. /\ UNCHANGED <<node, chain, plan, late, peer, row, pc, req, upd, used>>
      /\ node = "up"
  BY Zenon DEF ReadPeers, chainVars, handlers, history
<1>2. \A k \in Key : set'.peers[k] = IF k \in Peers THEN peer[k].bytes ELSE None
  BY Zenon DEF ReadPeers
<1>3. Stored' = Stored /\ \A t \in Session : Ended(t)' = Ended(t) /\ Lapsed(t)' = Lapsed(t)
  BY Zenon, <1>1 DEF Stored, Ended, Lapsed
<1>4. Asked' /\ QuietJobs' /\ late' = NoTx /\ ChainWithin'
  BY Zenon, <1>1, <1>3 DEF MInv, Asked, QuietJobs, ChainWithin
<1>5. FreshCounters'
  <2>1. \A k \in Key : KeyStored(k)' = KeyStored(k)
    BY Zenon, <1>1, <1>3 DEF KeyStored
  <2>2. \A k \in Key : ~KeyStored(k) =>
          /\ k \in Peers => peer[k].bytes = Zero
          /\ set'.peers[k] # None => set'.peers[k] = Zero
    BY Zenon, <1>2 DEF MInv, FreshCounters
  <2> QED
    BY Zenon, <1>1, <2>1, <2>2 DEF FreshCounters, Peers
<1>6. BasesCurrent'
  BY Zenon, <1>1 DEF MInv, BasesCurrent, Stored, Ended, Lapsed
<1>7. RowsBetween'
  <2> SUFFICES ASSUME NEW s \in Stored, ~Ended(s)
               PROVE  Between(row[s], chain[s].bytes, set'.peers[row[s].key],
                              peer[row[s].key], used[s])
    BY Zenon, <1>1, <1>3 DEF RowsBetween, Stored
  <2> DEFINE k == row[s].key
  <2>1. Between(row[s], chain[s].bytes, set.peers[k], peer[k], used[s])
    BY Zenon DEF MInv, RowsBetween
  <2>2. k \in Key /\ (k \in Peers => peer[k].bytes \in Bytes)
    BY Zenon, <1>0 DEF Counted
  <2>3. IF peer[k] # None THEN set'.peers[k] = peer[k].bytes ELSE set'.peers[k] = None
    BY Zenon, <1>2, <2>2 DEF Peers
  <2>4. peer[k] # None => AtLeast(peer[k].bytes, peer[k].bytes)
    BY Zenon, <2>2, Comparing DEF Peers
  <2> HIDE DEF k
  <2> QED
    BY ONLY Zenon, <2>1, <2>3, <2>4 DEF Between, k
<1>8. ItemsBetween'
  BY Zenon, <1>1 DEF MInv, ItemsBetween, Stored, Ended, Lapsed
<1> QED
  BY Zenon, <1>4, <1>5, <1>6, <1>7, <1>8 DEF MInv

\* The total set_sessions stores lies between the one stored before and what
\* the peer has counted.
LEMMA Storing ==
  ASSUME NEW s, NEW r, NEW n, NEW c \in Bytes, NEW b \in Bytes, NEW p, NEW q, NEW u,
         r.base \in Bytes, r.bytes \in Bytes, b # None, p # None => p.bytes \in Bytes,
         q = None \/ q = p, n.base = r.base, n.bytes = Plus(r.base, b),
         Between(r, c, b, p, u)
  PROVE  Between(n, c, None, q, u)
<1>1. AtLeast(n.bytes, c) /\ AtLeast(u, n.bytes)
  <2>1. /\ AtLeast(Plus(r.base, b), r.bytes) /\ AtLeast(r.bytes, c)
        /\ AtLeast(u, Plus(r.base, b))
    BY Zenon DEF Between
  <2>2. AtLeast(Plus(r.base, b), c)
    BY <2>1 DEF AtLeast, Plus, Bytes
  <2> QED
    BY ONLY Zenon, <2>1, <2>2, n.bytes = Plus(r.base, b)
<1>2. q # None => AtLeast(Plus(n.base, q.bytes), n.bytes) /\ AtLeast(u, Plus(n.base, q.bytes))
  <2> SUFFICES ASSUME q # None
               PROVE  AtLeast(Plus(n.base, q.bytes), n.bytes) /\ AtLeast(u, Plus(n.base, q.bytes))
    OBVIOUS
  <2>1. q = p /\ p.bytes \in Bytes /\ AtLeast(p.bytes, b) /\ AtLeast(u, Plus(r.base, p.bytes))
    BY Zenon DEF Between
  <2>2. AtLeast(Plus(r.base, p.bytes), Plus(r.base, b))
    BY <2>1 DEF AtLeast, Plus, Bytes
  <2> QED
    BY ONLY Zenon, <2>1, <2>2, n.bytes = Plus(r.base, b), n.base = r.base
<1> QED
  BY ONLY Zenon, <1>1, <1>2 DEF Between

\* set_sessions stores a total.
LEMMA StoreKeeps ==
  ASSUME IInv, Shape', MInv, NEW k \in Key, NEW s \in Stored, row[s].key = k,
         set.pc = "pass", set.peers[k] # None, set' = [set EXCEPT !.peers[k] = None],
         row' = [row EXCEPT ![s].bytes = ReportedUsage(row[s], set.peers[k])],
         \A x \in Key : peer'[x] = peer[x] \/ (x = k /\ peer'[x] = None),
         UNCHANGED <<node, chain, plan, late, pc, req, upd, used>>
  PROVE  MInv'
<1>0. Counted
  BY Zenon, Counting DEF IInv
<1> DEFINE b == set.peers[k]
<1>1. /\ s \in Session /\ b \in Bytes /\ chain[s].bytes \in Bytes
      /\ row[s].base \in Bytes /\ row[s].bytes \in Bytes
      /\ peer[k] # None => peer[k].bytes \in Bytes
  BY Zenon, <1>0 DEF Counted, Peers
<1>2. /\ set'.peers[k] = None
      /\ \A x \in Key : x # k => set'.peers[x] = set.peers[x]
  BY Zenon DEF IInv, Shape, TypeOK, SetState
<1>3. /\ row'[s].key = k /\ row'[s].base = row[s].base
      /\ row'[s].bytes = Plus(row[s].base, b)
      /\ row'[s] # None
      /\ \A t \in Session : t # s => row'[t] = row[t]
  <2>1. row \in [Session -> Row \cup {None}] /\ row[s] \in Row
    BY Zenon, <1>1 DEF IInv, Shape, TypeOK, Stored
  <2> DEFINE n == [row[s] EXCEPT !.bytes = Plus(row[s].base, b)]
  <2>2. row' = [row EXCEPT ![s] = n]
    BY Zenon DEF ReportedUsage
  <2>3. n \in Row /\ n.key = k /\ n.base = row[s].base /\ n.bytes = Plus(row[s].base, b)
    BY Zenon, <1>1, <2>1, Comparing DEF Row
  <2> HIDE DEF n
  <2>4. row'[s] = n /\ \A t \in Session : t # s => row'[t] = row[t]
    BY ONLY Zenon, <1>1, <2>1, <2>2
  <2> QED
    BY ONLY Zenon, <2>3, <2>4, NoneAssumption
<1>4. Stored' = Stored /\ \A t \in Stored : row'[t].key = row[t].key
  BY Zenon, <1>3 DEF Stored
<1>5. \A t \in Session : Ended(t)' = Ended(t) /\ Lapsed(t)' = Lapsed(t)
  BY Zenon DEF Ended, Lapsed
<1>6. \A x \in Key : KeyStored(x)' = KeyStored(x)
  BY Zenon, <1>4 DEF KeyStored
<1>7. node = "up"
  BY Zenon DEF IInv, Quiet
<1>8. Asked' /\ QuietJobs' /\ late' = NoTx /\ ChainWithin'
  BY Zenon, <1>4, <1>5, <1>7 DEF MInv, Asked, QuietJobs, ChainWithin
<1>9. FreshCounters'
  <2>1. \A ask \in Asks : ask[1] \in Session
    BY Zenon, SessionsAssumption
  <2> QED
    BY <1>2, <1>5, <1>6, <2>1 DEF MInv, FreshCounters, Peers
<1>10. BasesCurrent'
  BY Zenon, <1>4 DEF MInv, BasesCurrent, Ended, Lapsed
<1>11. ~Ended(s) => Between(row[s], chain[s].bytes, b, peer[k], used[s])
  BY Zenon DEF MInv, RowsBetween
<1>12. RowsBetween'
  <2> SUFFICES ASSUME NEW t \in Stored, ~Ended(t)
               PROVE  Between(row'[t], chain[t].bytes, set'.peers[row'[t].key],
                              peer'[row'[t].key], used[t])
    BY Zenon, <1>4, <1>5 DEF RowsBetween, Stored
  <2>1. CASE t = s
    <3>1. peer'[k] = None \/ peer'[k] = peer[k]
      OBVIOUS
    <3>2. Between(row'[s], chain[s].bytes, None, peer'[k], used[s])
      BY ONLY <1>1, <1>3, <1>11, <2>1, ~Ended(t), b # None, <3>1, Storing
    <3> QED
      BY ONLY Zenon, <1>2, <1>3, <2>1, <3>2
  <2>2. CASE t # s
    <3>1. t \in Session /\ row[t].key \in Key /\ row[t].key # k
      BY Zenon, <1>0, <2>2 DEF IInv, KeysOwned, Counted
    <3>2. /\ row'[t] = row[t] /\ set'.peers[row[t].key] = set.peers[row[t].key]
          /\ peer'[row[t].key] = peer[row[t].key]
      BY Zenon, <1>2, <1>3, <2>2, <3>1
    <3> QED
      BY Zenon, <3>2 DEF MInv, RowsBetween
  <2> QED
    BY Zenon, <2>1, <2>2
<1>13. ItemsBetween'
  <2>1. ~Ended(s) => AtLeast(row'[s].bytes, row[s].bytes)
    BY Zenon, <1>3, <1>11 DEF Between
  <2>2. \A t \in upd.todo \cup upd.batch : (t \in Stored /\ ~Ended(t)) =>
          (AtLeast(row[t].bytes, upd.items[t].bytes) =>
             AtLeast(row'[t].bytes, upd.items[t].bytes))
    <3> SUFFICES ASSUME NEW t \in upd.todo \cup upd.batch, t \in Stored, ~Ended(t),
                        AtLeast(row[t].bytes, upd.items[t].bytes)
                 PROVE  AtLeast(row'[t].bytes, upd.items[t].bytes)
      OBVIOUS
    <3>1. CASE t = s
      <4>0. Plus(row[s].base, b) \in Bytes
        BY <1>1 DEF Plus, Bytes
      <4>1. row'[s].bytes \in Bytes /\ upd.items[s].bytes \in Bytes
        BY Zenon, <1>0, <1>3, <3>1, <4>0 DEF Counted
      <4>2. AtLeast(row'[s].bytes, row[s].bytes) /\ AtLeast(row[s].bytes, upd.items[s].bytes)
        BY Zenon, <2>1, <3>1
      <4> QED
        BY ONLY <1>1, <3>1, <4>1, <4>2 DEF AtLeast, Bytes
    <3>2. CASE t # s
      BY Zenon, <1>0, <1>3, <3>2 DEF Counted
    <3> QED
      BY Zenon, <3>1, <3>2
  <2> QED
    BY Zenon, <1>4, <2>2 DEF MInv, ItemsBetween, Ended, Lapsed
<1> QED
  BY Zenon, <1>8, <1>9, <1>10, <1>12, <1>13 DEF MInv

\* The steps of set_sessions.
LEMMA SetKeeps ==
  ASSUME IInv, Shape', MInv, OwnKeys, SetNext
  PROVE  MInv'
<1>1. UNCHANGED <<node, chain, plan, late, pc, req, upd, used>>
  BY Zenon DEF SetNext, ReadPeers, LockSet, SetPeer, UnlockSet, chainVars, handlers, history
<1>2. node = "up"
  BY Zenon DEF SetNext, ReadPeers, LockSet, SetPeer, UnlockSet, IInv, Quiet
<1>3. UpdateKept
  BY Zenon, <1>1 DEF UpdateKept
<1>4. ASSUME row' = row, \A x \in Key : peer'[x] # None => peer'[x] = peer[x],
             \A x \in Key : set'.peers[x] # None => set'.peers[x] = set.peers[x]
      PROVE  MInv'
  <2>1. RowsKept
    BY Zenon, <1>4 DEF RowsKept
  <2> QED
    BY Zenon, <1>1, <1>2, <1>3, <1>4, <2>1, JobKeeps
<1>5. CASE LockSet
  <2>1. row' = row /\ peer' = peer /\ set'.peers = set.peers
    BY Zenon, <1>5 DEF LockSet, IInv, Shape, TypeOK, SetState
  <2> QED
    BY Zenon, <1>4, <2>1
<1>6. CASE UnlockSet
  <2>1. row' = row /\ peer' = peer /\ \A x \in Key : set'.peers[x] = None
    BY Zenon, <1>6 DEF UnlockSet, IdleSet
  <2> QED
    BY Zenon, <1>4, <2>1
<1>7. ASSUME NEW k \in Key, SetPeer(k) PROVE MInv'
  <2>1. /\ set.pc = "pass" /\ set.peers[k] # None
        /\ set' = [set EXCEPT !.peers[k] = None]
    BY Zenon, <1>7 DEF SetPeer
  <2>2. \A x \in Key : peer'[x] = peer[x] \/ (x = k /\ peer'[x] = None)
    BY Zenon, <1>7 DEF SetPeer, RemovePeers
  <2>3. CASE row' = row
    <3>1. \A x \in Key : set'.peers[x] # None => set'.peers[x] = set.peers[x]
      BY Zenon, <2>1 DEF IInv, Shape, TypeOK, SetState
    <3> QED
      BY Zenon, <1>4, <2>2, <2>3, <3>1
  <2>4. CASE row' # row
    <3>1. PICK s \in Stored :
            /\ row[s].key = k
            /\ row' = [row EXCEPT ![s].bytes = ReportedUsage(row[s], set.peers[k])]
      BY Zenon, <1>7, <2>4 DEF SetPeer
    <3> QED
      BY Zenon, <1>1, <2>1, <2>2, <3>1, StoreKeeps
  <2> QED
    BY Zenon, <2>3, <2>4
<1> QED
  BY Zenon, <1>5, <1>6, <1>7, ReadPeersKeeps DEF SetNext

-----------------------------------------------------------------------------
(* update_sessions.                                                        *)

\* checkSession lets a session be reported only while neither it nor its
\* subscription has ended, and a row go only once one has.
LEMMA VerdictEnds ==
  ASSUME NEW item, NEW s \in Session, NEW v \in CheckSession(item, s)
  PROVE  /\ ~v.skipUpdate => ~Ended(s)
         /\ v.removeSession => Ended(s) /\ v.skipUpdate
<1> DEFINE same == item.bytes = chain[s].bytes
           ended == chain[s].status = "inactive"
           capped == MaxBytes[s] > 0 /\ Total(item.bytes) >= MaxBytes[s]
           drop(later) ==
             (same /\ later) \/ chain[s].status # "active" \/ capped
           sub == IF SubOf[s] = 0 THEN "active" ELSE plan[SubOf[s]]
           gone == sub = "inactive"
<1>1. Ended(s) <=> ended \/ gone
  BY Zenon DEF Ended, Lapsed
<1>2. \/ v = Verdict(FALSE, FALSE, TRUE)
      \/ \E later \in BOOLEAN : v = Verdict(drop(later), ended, TRUE)
      \/ \E later \in BOOLEAN :
           v = Verdict(drop(later) \/ sub # "active", ended \/ gone, same \/ ended \/ gone)
  BY Zenon DEF CheckSession
<1>3. (v.removeSession => ended \/ gone) /\ (v.removeSession => v.skipUpdate)
      /\ (ended \/ gone => v.skipUpdate)
  <2> HIDE DEF same, ended, drop, sub, gone
  <2>1. CASE v = Verdict(FALSE, FALSE, TRUE)
    BY ONLY Zenon, <2>1 DEF Verdict
  <2>2. ASSUME NEW later \in BOOLEAN, v = Verdict(drop(later), ended, TRUE)
        PROVE  v.removeSession = ended /\ v.skipUpdate
    BY ONLY Zenon, <2>2 DEF Verdict
  <2>3. ASSUME NEW later \in BOOLEAN,
               v = Verdict(drop(later) \/ sub # "active", ended \/ gone, same \/ ended \/ gone)
        PROVE  v.removeSession = (ended \/ gone) /\ v.skipUpdate = (same \/ ended \/ gone)
    BY ONLY Zenon, <2>3 DEF Verdict
  <2> QED
    BY ONLY Zenon, <1>2, <2>1, <2>2, <2>3
<1> QED
  BY ONLY Zenon, <1>1, <1>3

\* The rows are read; one is looked at.
LEMMA CheckKeeps ==
  ASSUME IInv, Shape', MInv, ReadRows \/ \E s \in Session : CheckItem(s)
  PROVE  MInv'
<1>0. Counted
  BY Zenon, Counting DEF IInv
<1>1. UNCHANGED <<node, chain, plan, late, peer, row, pc, req, set, used>>
  BY Zenon DEF ReadRows, CheckItem, chainVars, handlers, history
<1>2. node = "up"
  BY Zenon DEF ReadRows, CheckItem, IInv, Quiet
<1>3. Stored' = Stored /\ \A t \in Session : Ended(t)' = Ended(t) /\ Lapsed(t)' = Lapsed(t)
  BY Zenon, <1>1 DEF Stored, Ended, Lapsed
<1>4. Asked' /\ QuietJobs' /\ late' = NoTx /\ ChainWithin'
  BY Zenon, <1>1, <1>2, <1>3 DEF MInv, Asked, QuietJobs, ChainWithin
<1>5. FreshCounters' /\ BasesCurrent' /\ RowsBetween'
  BY Zenon, <1>1 DEF MInv, FreshCounters, BasesCurrent, RowsBetween, KeyStored,
     Stored, Peers, Ended, Lapsed
<1>6. CASE ReadRows
  <2>1. upd'.items = row /\ upd'.todo = Stored /\ upd'.batch = {} /\ ~upd'.removeSession
    BY Zenon, <1>6 DEF ReadRows, IdleUpdate
  <2>2. \A s \in Stored : ~Ended(s) =>
          /\ AtLeast(row[s].bytes, chain[s].bytes) /\ AtLeast(used[s], row[s].bytes)
          /\ AtLeast(row[s].bytes, row[s].bytes)
    BY Zenon, <1>0, Comparing DEF MInv, RowsBetween, Between, Counted
  <2>3. ItemsBetween'
    BY Zenon, <1>0, <1>1, <1>3, <2>1, <2>2 DEF ItemsBetween, Counted
  <2> QED
    BY Zenon, <1>4, <1>5, <2>3 DEF MInv
<1>7. ASSUME NEW s \in Session, CheckItem(s) PROVE MInv'
  <2>1. s \in upd.todo /\ s \notin upd.batch
    BY Zenon, <1>7 DEF CheckItem, MInv, ItemsBetween
  <2>2. PICK v \in CheckSession(upd.items[s], s) :
          upd' = [upd EXCEPT
            !.todo = @ \ {s},
            !.batch = IF v.skipUpdate THEN @ ELSE @ \cup {s},
            !.pc = IF v.removePeer \/ v.removeSession THEN "retire" ELSE @,
            !.cur = IF v.removePeer \/ v.removeSession THEN s ELSE None,
            !.removePeer = v.removePeer,
            !.removeSession = v.removeSession]
    BY Zenon, <1>7 DEF CheckItem
  <2>3. /\ ~v.skipUpdate => ~Ended(s)
        /\ v.removeSession => Ended(s) /\ v.skipUpdate
    BY Zenon, VerdictEnds
  <2>4. /\ upd'.todo = upd.todo \ {s} /\ upd'.items = upd.items
        /\ upd'.batch = IF v.skipUpdate THEN upd.batch ELSE upd.batch \cup {s}
        /\ upd'.removeSession = v.removeSession
        /\ v.removeSession => upd'.cur = s
    <3>1. upd \in UpdateState
      BY Zenon DEF IInv, Shape, TypeOK
    <3> QED
      BY ONLY Zenon, <2>2, <3>1 DEF UpdateState
  <2>5. ASSUME NEW t \in upd'.todo \cup upd'.batch, t \in upd'.batch \/ ~Ended(t)'
        PROVE  /\ t \in Stored'
               /\ AtLeast(upd'.items[t].bytes, chain'[t].bytes)
               /\ AtLeast(used'[t], upd'.items[t].bytes)
               /\ ~Ended(t)' => AtLeast(row'[t].bytes, upd'.items[t].bytes)
    <3>1. t \in upd.todo \cup upd.batch /\ t \in Session
      BY Zenon, <1>0, <2>1, <2>4 DEF Counted
    <3>2. t \in upd.batch \/ ~Ended(t)
      BY Zenon, <1>3, <2>3, <2>4, <2>5, <3>1
    <3> QED
      BY Zenon, <1>1, <1>3, <2>4, <3>1, <3>2 DEF MInv, ItemsBetween
  <2>6. upd'.todo \cap upd'.batch = {}
    BY Zenon, <2>4 DEF MInv, ItemsBetween
  <2>7. ASSUME upd'.removeSession
        PROVE  upd'.cur \in Session /\ upd'.cur \notin upd'.batch /\ Ended(upd.cur)'
    <3>1. upd'.cur = s /\ s \notin upd'.batch /\ Ended(s)'
      BY Zenon, <1>3, <2>1, <2>3, <2>4, <2>7
    <3> QED
      BY ONLY Zenon, <3>1, s \in Session DEF Ended, Lapsed
  <2>8. ItemsBetween'
    BY ONLY Zenon, <2>5, <2>6, <2>7 DEF ItemsBetween
  <2> QED
    BY Zenon, <1>4, <1>5, <2>8 DEF MInv
<1> QED
  BY Zenon, <1>6, <1>7

\* retire(), and what leads from the checks to the transactions.
LEMMA RetireKeeps ==
  ASSUME IInv, Shape', MInv, OwnKeys, Retire \/ EndChecks \/ Requery
  PROVE  MInv'
<1>0. upd \in UpdateState
  BY Zenon DEF IInv, Shape, TypeOK
<1>1. UNCHANGED <<node, chain, plan, late, pc, req, set, used>>
  BY Zenon DEF Retire, EndChecks, Requery, chainVars, handlers, history
<1>2. node = "up"
  BY Zenon DEF Retire, EndChecks, Requery, IInv, Quiet
<1>3. /\ IdleUpdate.todo = {} /\ IdleUpdate.batch = {} /\ IdleUpdate.removeSession = FALSE
  BY Zenon DEF IdleUpdate
<1>4. CASE Retire
  <2> DEFINE s == upd.cur
             k == upd.items[s].key
  <2>1. UpdateKept
    <3>1. upd' = [upd EXCEPT !.pc = "check", !.cur = None,
                             !.removePeer = FALSE, !.removeSession = FALSE]
      BY Zenon, <1>4 DEF Retire
    <3>2. /\ upd'.todo = upd.todo /\ upd'.batch = upd.batch /\ upd'.items = upd.items
          /\ upd'.removeSession = FALSE
      BY ONLY Zenon, <1>0, <3>1 DEF UpdateState
    <3> QED
      BY Zenon, <3>2 DEF UpdateKept
  <2>2. s \in Session /\ s \in Stored /\ row[s].key = k
    BY Zenon, <1>4 DEF Retire, IInv, Shape, UpdateShape, TypeOK, UpdateState, RetiresItsOwn
  <2>3. k \in Key
    BY Zenon, <2>2 DEF IInv, Shape, TypeOK, Row, Stored
  <2>4. \A x \in Key : peer'[x] # None => peer'[x] = peer[x]
    BY Zenon, <1>4 DEF Retire, RemovePeers
  <2>5. RowsKept
    <3>1. CASE row' = row
      BY Zenon, <3>1 DEF RowsKept
    <3>2. CASE row' # row
      <4>1. /\ upd.removeSession /\ row' = [row EXCEPT ![s] = None]
            /\ upd.removePeer => RemovePeers({k})
        BY Zenon, <1>4, <3>2 DEF Retire
      <4>2. upd.removePeer
        BY Zenon, <4>1 DEF IInv, Shape, UpdateShape
      <4>3. peer'[k] = None
        BY Zenon, <2>3, <4>1, <4>2 DEF RemovePeers
      <4>4. Ended(s) /\ s \notin upd.batch
        BY Zenon, <4>1 DEF MInv, ItemsBetween
      <4>5. row'[s] = None /\ \A t \in Session : t # s => row'[t] = row[t]
        BY Zenon, <2>2, <4>1 DEF IInv, Shape, TypeOK
      <4> QED
        BY Zenon, <2>2, <4>3, <4>4, <4>5 DEF RowsKept
    <3> QED
      BY Zenon, <3>1, <3>2
  <2> QED
    BY Zenon, <1>1, <1>2, <2>1, <2>4, <2>5, JobKeeps
<1>5. ASSUME UNCHANGED <<peer, row>>, UpdateKept PROVE MInv'
  <2>1. RowsKept
    BY Zenon, <1>5 DEF RowsKept
  <2> QED
    BY Zenon, <1>1, <1>2, <1>5, <2>1, JobKeeps
<1>6. ASSUME upd' = IdleUpdate PROVE UpdateKept
  BY Zenon, <1>3, <1>6 DEF UpdateKept
<1>7. CASE EndChecks
  <2>1. ASSUME upd' = [upd EXCEPT !.pc = "send"] PROVE UpdateKept
    <3>1. /\ upd'.todo = upd.todo /\ upd'.batch = upd.batch /\ upd'.items = upd.items
          /\ upd'.removeSession = upd.removeSession /\ upd'.cur = upd.cur
      BY ONLY Zenon, <1>0, <2>1 DEF UpdateState
    <3> QED
      BY Zenon, <3>1 DEF UpdateKept
  <2>2. UNCHANGED <<peer, row>> /\ (upd' = IdleUpdate \/ upd' = [upd EXCEPT !.pc = "send"])
    BY Zenon, <1>7 DEF EndChecks
  <2> QED
    BY Zenon, <1>5, <1>6, <2>1, <2>2
<1>8. CASE Requery
  <2>1. ASSUME NEW S \in SUBSET upd.batch, NEW p, upd' = [upd EXCEPT !.pc = p, !.batch = S]
        PROVE  UpdateKept
    <3>1. /\ upd'.todo = upd.todo /\ upd'.batch = S /\ upd'.items = upd.items
          /\ upd'.removeSession = upd.removeSession /\ upd'.cur = upd.cur
      BY ONLY Zenon, <1>0, <2>1 DEF UpdateState
    <3> QED
      BY Zenon, <3>1 DEF UpdateKept
  <2>2. \/ upd' = IdleUpdate
        \/ \E S \in SUBSET upd.batch, p \in {"each", "resend"} :
             upd' = [upd EXCEPT !.pc = p, !.batch = S]
    BY Zenon, ZenonT(30), <1>8 DEF Requery
  <2>3. UpdateKept
    BY Zenon, <1>6, <2>1, <2>2
  <2>4. UNCHANGED <<peer, row>>
    BY Zenon, <1>8 DEF Requery
  <2> QED
    BY Zenon, <1>5, <2>3, <2>4
<1> QED
  BY Zenon, <1>4, <1>7, <1>8

\* What a transaction that is not included late may do to the chain.
LEMMA Sent ==
  ASSUME Shape, NEW tx, NEW ok, late = NoTx, ~LateInclusion, UpdateSessions(tx, ok)
  PROVE  /\ late' = NoTx
         /\ \A s \in Session :
              /\ chain'[s].status = chain[s].status
              /\ chain'[s].bytes = chain[s].bytes
                 \/ (tx[s] # None /\ chain'[s].bytes = tx[s])
<1>1. CASE chain' = chain
  BY Zenon, <1>1 DEF UpdateSessions
<1>2. CASE chain' # chain
  <2>1. late' = NoTx /\ chain' = Applied(tx)
    BY Zenon, <1>2 DEF UpdateSessions
  <2> SUFFICES ASSUME NEW s \in Session
               PROVE  /\ chain'[s].status = chain[s].status
                      /\ chain'[s].bytes = chain[s].bytes
                         \/ (tx[s] # None /\ chain'[s].bytes = tx[s])
    BY Zenon, <2>1
  <2>2. chain[s] \in [status: Status, bytes: Bytes]
    BY Zenon DEF Shape, TypeOK
  <2>3. chain'[s] = IF tx[s] = None THEN chain[s] ELSE [chain[s] EXCEPT !.bytes = tx[s]]
    BY Zenon, <2>1 DEF Applied
  <2> QED
    BY ONLY Zenon, <2>2, <2>3
<1> QED
  BY Zenon, <1>1, <1>2

\* The chain takes what the job holds, which is no more than the row's total.
LEMMA ReportKeeps ==
  ASSUME IInv, Shape', MInv, ~LateInclusion, NEW B \in SUBSET upd.batch, NEW ok,
         UpdateSessions(Report(B), ok), upd.pc \in {"send", "resend", "each"}, UpdateKept,
         UNCHANGED <<node, plan, peer, row, pc, req, set, used>>
  PROVE  MInv'
<1>0. Counted /\ Counted'
  BY Counting, PTL DEF IInv
<1>1. node = "up" /\ upd.todo = {}
  BY Zenon DEF IInv, Quiet, Shape, UpdateShape
<1>2. /\ late' = NoTx
      /\ \A s \in Session : chain'[s].status = chain[s].status
      /\ \A s \in Session : \/ chain'[s].bytes = chain[s].bytes
                            \/ s \in B /\ chain'[s].bytes = upd.items[s].bytes
  <2> DEFINE tx == Report(B)
  <2>1. \A s \in Session : tx[s] # None => s \in B /\ tx[s] = upd.items[s].bytes
    BY Zenon DEF Report
  <2>2. UpdateSessions(tx, ok) /\ late = NoTx /\ Shape
    BY Zenon DEF MInv, IInv
  <2> HIDE DEF tx
  <2>3. /\ late' = NoTx
        /\ \A s \in Session :
             /\ chain'[s].status = chain[s].status
             /\ chain'[s].bytes = chain[s].bytes
                \/ (tx[s] # None /\ chain'[s].bytes = tx[s])
    BY ONLY Zenon, Sent, <2>2, ~LateInclusion
  <2> QED
    BY ONLY Zenon, <2>1, <2>3
<1>3. Stored' = Stored /\ \A s \in Session : Ended(s)' = Ended(s) /\ Lapsed(s)' = Lapsed(s)
  BY Zenon, <1>2 DEF Stored, Ended, Lapsed
<1>4. \A s \in B : /\ s \in Stored /\ s \in Session /\ upd.items[s].bytes \in Bytes
                   /\ AtLeast(used[s], upd.items[s].bytes)
                   /\ ~Ended(s) => AtLeast(row[s].bytes, upd.items[s].bytes)
  BY Zenon, <1>0 DEF MInv, ItemsBetween, Counted
<1>5. Asked' /\ QuietJobs' /\ late' = NoTx
  BY Zenon, <1>1, <1>2, <1>3 DEF MInv, Asked, QuietJobs
<1>6. FreshCounters'
  <2>1. \A ask \in Asks : ask[1] \in Session
    BY Zenon, SessionsAssumption
  <2> QED
    BY Zenon, <1>3, <2>1 DEF MInv, FreshCounters, KeyStored, Peers
<1>7. BasesCurrent'
  <2> SUFFICES ASSUME NEW h \in Handler, NEW s \in Session, NEW b \in Bytes,
                      pc'[h] \in Past, s = req'[h].s, b = req'[h].base
               PROVE  /\ Lapsed(s)' \/ AtLeast(used'[s], b)
                      /\ s \in Stored' \/ Ended(s)' \/ AtLeast(b, chain'[s].bytes)
    BY Zenon, <1>0, BasesNext
  <2>1. /\ Lapsed(s) \/ AtLeast(used[s], b)
        /\ s \in Stored \/ Ended(s) \/ AtLeast(b, chain[s].bytes)
    BY Zenon DEF MInv, BasesCurrent, Past
  <2> QED
    BY Zenon, <1>2, <1>3, <1>4, <2>1
<1>8. RowsBetween'
  <2> SUFFICES ASSUME NEW s \in Stored, ~Ended(s)
               PROVE  Between(row[s], chain'[s].bytes, set.peers[row[s].key],
                              peer[row[s].key], used[s])
    BY Zenon, <1>3 DEF RowsBetween, Stored
  <2>1. Between(row[s], chain[s].bytes, set.peers[row[s].key], peer[row[s].key], used[s])
    BY Zenon DEF MInv, RowsBetween
  <2>2. AtLeast(row[s].bytes, chain'[s].bytes)
    BY Zenon, <1>0, <1>2, <1>4, <2>1 DEF Between, Counted
  <2> QED
    BY ONLY Zenon, <2>1, <2>2 DEF Between
<1>9. ItemsBetween'
  <2>1. ASSUME NEW s \in upd'.todo \cup upd'.batch
        PROVE  /\ s \in Stored'
               /\ AtLeast(upd'.items[s].bytes, chain'[s].bytes)
               /\ AtLeast(used'[s], upd'.items[s].bytes)
               /\ ~Ended(s)' => AtLeast(row'[s].bytes, upd'.items[s].bytes)
    <3>1. s \in upd.batch /\ upd'.items[s] = upd.items[s] /\ s \in Session
      BY Zenon, <1>0, <1>1 DEF UpdateKept, Counted
    <3> DEFINE b == upd.items[s].bytes
    <3>2. /\ s \in Stored /\ AtLeast(b, chain[s].bytes) /\ AtLeast(used[s], b)
          /\ ~Ended(s) => AtLeast(row[s].bytes, b)
      BY Zenon, <3>1 DEF MInv, ItemsBetween
    <3>3. AtLeast(b, b)
      BY Zenon, <1>0, <3>1, Comparing DEF Counted
    <3>4. AtLeast(b, chain'[s].bytes)
      BY Zenon, <1>2, <3>1, <3>2, <3>3
    <3> QED
      BY Zenon, <1>3, <3>1, <3>2, <3>4
  <2>2. upd'.todo \cap upd'.batch = {}
    BY Zenon, <1>1 DEF UpdateKept
  <2>3. ASSUME upd'.removeSession
        PROVE  upd'.cur \in Session /\ upd'.cur \notin upd'.batch /\ Ended(upd.cur)'
    <3>1. /\ upd.cur \in Session /\ Ended(upd.cur) /\ upd'.cur = upd.cur
          /\ upd'.cur \notin upd'.batch
      BY Zenon, <2>3 DEF MInv, ItemsBetween, UpdateKept
    <3> QED
      BY Zenon, <1>2, <3>1 DEF Ended, Lapsed
  <2> QED
    BY ONLY Zenon, <2>1, <2>2, <2>3 DEF ItemsBetween
<1>10. ChainWithin'
  BY Zenon, <1>2, <1>3, <1>4 DEF MInv, ChainWithin
<1> QED
  BY Zenon, <1>5, <1>6, <1>7, <1>8, <1>9, <1>10 DEF MInv

\* The steps of update_sessions.
LEMMA UpdateKeeps ==
  ASSUME IInv, Shape', MInv, OwnKeys, ~LateInclusion, UpdateNext
  PROVE  MInv'
<1>0. upd \in UpdateState
  BY Zenon DEF IInv, Shape, TypeOK
<1>1. ASSUME upd' = IdleUpdate PROVE UpdateKept
  BY Zenon, <1>1 DEF UpdateKept, IdleUpdate
<1>2. ASSUME NEW p, upd' = [upd EXCEPT !.pc = p] PROVE UpdateKept
  <2>1. /\ upd'.todo = upd.todo /\ upd'.batch = upd.batch /\ upd'.items = upd.items
        /\ upd'.removeSession = upd.removeSession /\ upd'.cur = upd.cur
    BY ONLY Zenon, <1>0, <1>2 DEF UpdateState
  <2> QED
    BY Zenon, <2>1 DEF UpdateKept
<1>3. CASE SendBatch
  <2>1. UNCHANGED <<node, plan, peer, row, pc, req, set, used>> /\ upd.pc = "send"
    BY Zenon, <1>3 DEF SendBatch, handlers, history
  <2>2. PICK ok \in BOOLEAN :
          /\ UpdateSessions(Report(upd.batch), ok)
          /\ upd' = IdleUpdate \/ upd' = [upd EXCEPT !.pc = "requery"]
    BY Zenon, <1>3 DEF SendBatch
  <2> QED
    BY Zenon, <1>1, <1>2, <2>1, <2>2, ReportKeeps
<1>4. CASE Resend
  <2>1. UNCHANGED <<node, plan, peer, row, pc, req, set, used>> /\ upd.pc = "resend"
    BY Zenon, <1>4 DEF Resend, handlers, history
  <2>2. PICK ok \in BOOLEAN :
          /\ UpdateSessions(Report(upd.batch), ok)
          /\ upd' = IdleUpdate \/ upd' = [upd EXCEPT !.pc = "each"]
    BY Zenon, <1>4 DEF Resend
  <2> QED
    BY Zenon, <1>1, <1>2, <2>1, <2>2, ReportKeeps
<1>5. ASSUME NEW s \in Session, SendOne(s) PROVE MInv'
  <2>1. /\ UNCHANGED <<node, plan, peer, row, pc, req, set, used>>
        /\ upd.pc = "each" /\ {s} \in SUBSET upd.batch
    BY Zenon, <1>5 DEF SendOne, handlers, history
  <2>2. PICK ok \in BOOLEAN : UpdateSessions(Report({s}), ok)
    BY Zenon, <1>5 DEF SendOne
  <2>3. ASSUME upd' = [upd EXCEPT !.batch = @ \ {s}] PROVE UpdateKept
    <3>1. /\ upd'.todo = upd.todo /\ upd'.batch = upd.batch \ {s} /\ upd'.items = upd.items
          /\ upd'.removeSession = upd.removeSession /\ upd'.cur = upd.cur
      BY ONLY Zenon, <1>0, <2>3 DEF UpdateState
    <3> QED
      BY Zenon, <3>1 DEF UpdateKept
  <2>4. UpdateKept
    BY Zenon, <1>1, <1>5, <2>3 DEF SendOne
  <2> QED
    BY Zenon, <2>1, <2>2, <2>4, ReportKeeps
<1> QED
  BY Zenon, <1>3, <1>4, <1>5, CheckKeeps, RetireKeeps DEF UpdateNext

-----------------------------------------------------------------------------
(* The chain, a crash and the start-up.                                    *)

ChainAges ==
  /\ UNCHANGED <<node, late, peer, row, pc, req, set, upd, used>>
  /\ \A s \in Session :
       /\ chain'[s].bytes = chain[s].bytes
       /\ chain[s].status = "inactive" => chain'[s].status = "inactive"
       /\ plan[SubOf[s]] = "inactive" => plan'[SubOf[s]] = "inactive"

\* What the chain ended stays ended.
LEMMA ChainKeeps ==
  ASSUME IInv, Shape', MInv, OwnKeys, ChainNext \/ UNCHANGED vars
  PROVE  MInv'
<1>1. ~IncludeLate
  BY Zenon DEF IncludeLate, MInv
<1>2. ChainAges
  <2>0. /\ chain \in [Session -> [status: Status, bytes: Bytes]]
        /\ plan \in [Subscriptions -> Status]
        /\ \A s \in Session : SubOf[s] \in Subscriptions
    BY Zenon DEF IInv, Shape, TypeOK, Subscriptions
  <2>1. CASE UNCHANGED vars
    BY Zenon, <2>1 DEF vars, ChainAges
  <2>2. ASSUME NEW s \in Session, EndSession(s) PROVE ChainAges
    <3>1. PICK x : chain' = [chain EXCEPT ![s].status = x] /\ chain[s].status # "inactive"
      BY Zenon, <2>2 DEF EndSession
    <3>2. \A t \in Session : /\ chain'[t].bytes = chain[t].bytes
                             /\ t # s => chain'[t] = chain[t]
      BY ONLY Zenon, <2>0, <3>1
    <3> QED
      BY Zenon, <2>2, <3>1, <3>2 DEF EndSession, handlers, history, ChainAges
  <2>3. ASSUME NEW p \in Subscriptions, EndPlan(p) PROVE ChainAges
    <3>1. PICK x : plan' = [plan EXCEPT ![p] = x] /\ plan[p] # "inactive"
      BY Zenon, <2>3 DEF EndPlan
    <3>2. \A q \in Subscriptions : plan[q] = "inactive" => plan'[q] = "inactive"
      BY ONLY Zenon, <2>0, <3>1
    <3> QED
      BY Zenon, <2>0, <2>3, <3>2 DEF EndPlan, handlers, history, ChainAges
  <2> QED
    BY Zenon, <1>1, <2>1, <2>2, <2>3 DEF ChainNext
<1>3. \A s \in Session :
        /\ chain'[s].bytes = chain[s].bytes /\ used'[s] = used[s]
        /\ (Ended(s) => Ended(s)') /\ (Lapsed(s) => Lapsed(s)')
  BY Zenon, <1>2 DEF Ended, Lapsed, ChainAges
<1>4. RowsKept /\ PeersKept /\ UpdateKept
  BY Zenon, <1>2 DEF RowsKept, PeersKept, UpdateKept, ChainAges
<1>5. HandlersKept
  BY Zenon, <1>2 DEF HandlersKept, MInv, Asked, Past, ChainAges
<1>6. TotalsKept
  BY Zenon, <1>2, <1>3, <1>4, <1>5 DEF TotalsKept, MInv, ChainAges
<1> QED
  BY Zenon, <1>6, TotalsKeep DEF IInv

\* What the table holds lies between the chain and what moved.
TableBetween ==
  \A s \in Stored : ~Ended(s) =>
    AtLeast(row[s].bytes, chain[s].bytes) /\ AtLeast(used[s], row[s].bytes)

\* Of a node that serves nobody, only the table and the chain matter.
LEMMA Serving ==
  ASSUME Shape', MInv, set' = IdleSet, upd' = IdleUpdate, late' = NoTx,
         \A h \in Handler : pc'[h] = "idle", \A k \in Key : peer'[k] = None,
         \A s \in Stored' : s \in Stored /\ row'[s] = row[s],
         TableBetween', ChainWithin'
  PROVE  MInv'
<1>0. Counted'
  BY Counting, PTL
<1>1. \A k \in Key : set'.peers[k] = None
  BY Zenon DEF IdleSet
<1>2. Asked'
  BY Zenon DEF MInv, Asked
<1>3. QuietJobs' /\ FreshCounters' /\ BasesCurrent'
  BY Zenon, <1>1 DEF QuietJobs, FreshCounters, BasesCurrent, Peers
<1>4. RowsBetween'
  <2> SUFFICES ASSUME NEW s \in Stored', ~Ended(s)'
               PROVE  Between(row'[s], chain'[s].bytes, set'.peers[row'[s].key],
                              peer'[row'[s].key], used'[s])
    BY Zenon DEF RowsBetween
  <2>1. s \in Session /\ row'[s].key \in Key
    BY Zenon, <1>0 DEF Counted
  <2>2. /\ AtLeast(row'[s].bytes, chain'[s].bytes) /\ AtLeast(used'[s], row'[s].bytes)
        /\ set'.peers[row'[s].key] = None /\ peer'[row'[s].key] = None
    BY Zenon, <1>1, <2>1 DEF TableBetween
  <2> QED
    BY ONLY Zenon, <2>2 DEF Between
<1>5. ItemsBetween'
  BY Zenon DEF ItemsBetween, IdleUpdate
<1> QED
  BY Zenon, <1>2, <1>3, <1>4, <1>5 DEF MInv

\* Start-up reports the rows it finds, which lie between the chain and what
\* moved, as far as their sessions have not ended.
LEMMA RestartKeeps ==
  ASSUME IInv, Shape', MInv, ~LateInclusion, Crash \/ Reconcile \/ ClearSessions
  PROVE  MInv'
<1>0. Counted
  BY Zenon, Counting DEF IInv
<1>1. \A k \in Key : peer'[k] = None
  BY Zenon DEF Crash, Reconcile, ClearSessions, IInv, Quiet, Peers
<1>2. \A h \in Handler : pc'[h] = "idle"
  BY Zenon DEF Crash, Reconcile, ClearSessions, IInv, Quiet, handlers
<1>3. set' = IdleSet /\ upd' = IdleUpdate /\ plan' = plan /\ used' = used
  BY Zenon DEF Crash, Reconcile, ClearSessions, MInv, QuietJobs, chainVars, history
<1>4. TableBetween
  BY Zenon DEF MInv, RowsBetween, Between, TableBetween
<1>5. CASE Crash \/ ClearSessions
  <2>1. chain' = chain /\ late' = late
    BY Zenon, <1>5 DEF Crash, ClearSessions, chainVars
  <2>2. \A s \in Stored' : s \in Stored /\ row'[s] = row[s]
    BY Zenon, <1>5 DEF Crash, ClearSessions, Stored
  <2>3. ChainWithin'
    BY Zenon, <1>3, <2>1 DEF MInv, ChainWithin, Lapsed
  <2>4. \A s \in Session : Ended(s)' = Ended(s) /\ Lapsed(s)' = Lapsed(s)
    BY Zenon, <1>3, <2>1 DEF Ended, Lapsed
  <2>5. TableBetween'
    BY Zenon, <1>0, <1>3, <1>4, <2>1, <2>2, <2>4 DEF TableBetween, Counted
  <2> QED
    BY Zenon, <1>1, <1>2, <1>3, <2>1, <2>2, <2>3, <2>5, Serving DEF MInv
<1>6. CASE Reconcile
  <2>1. row' = row /\ Stored' = Stored
    BY Zenon, <1>6 DEF Reconcile, Stored
  <2>2. /\ late' = NoTx
        /\ \A s \in Session : chain'[s].status = chain[s].status
        /\ \A s \in Session :
             \/ chain'[s].bytes = chain[s].bytes
             \/ /\ s \in Stored /\ chain[s].status = "active"
                /\ chain'[s].bytes = row[s].bytes
    <3>1. CASE UNCHANGED <<chain, late>>
      BY Zenon, <3>1 DEF MInv
    <3>2. CASE ~UNCHANGED <<chain, late>>
      <4>1. PICK report \in SUBSET {s \in Stored : chain[s].status = "active"}, ok \in BOOLEAN :
              UpdateSessions([s \in Session |-> IF s \in report THEN row[s].bytes ELSE None], ok)
        BY Zenon, ZenonT(30), <1>6, <3>2 DEF Reconcile
      <4> DEFINE tx == [s \in Session |-> IF s \in report THEN row[s].bytes ELSE None]
      <4>2. \A s \in Session : tx[s] # None =>
              s \in Stored /\ chain[s].status = "active" /\ tx[s] = row[s].bytes
        BY Zenon, <4>1
      <4>3. UpdateSessions(tx, ok) /\ late = NoTx /\ Shape
        BY Zenon, <4>1 DEF MInv, IInv
      <4> HIDE DEF tx
      <4>4. /\ late' = NoTx
            /\ \A s \in Session :
                 /\ chain'[s].status = chain[s].status
                 /\ chain'[s].bytes = chain[s].bytes
                    \/ (tx[s] # None /\ chain'[s].bytes = tx[s])
        BY ONLY Zenon, Sent, <4>3, ~LateInclusion
      <4> QED
        BY ONLY Zenon, <4>2, <4>4
    <3> QED
      BY Zenon, <3>1, <3>2
  <2>3. \A s \in Session : Ended(s)' = Ended(s) /\ Lapsed(s)' = Lapsed(s)
    BY Zenon, <1>3, <2>2 DEF Ended, Lapsed
  <2>4. \A s \in Stored : AtLeast(row[s].bytes, row[s].bytes)
    BY Zenon, <1>0, Comparing DEF Counted
  <2>5. ChainWithin'
    <3> SUFFICES ASSUME NEW s \in Session PROVE Lapsed(s) \/ AtLeast(used[s], chain'[s].bytes)
      BY Zenon, <1>3 DEF ChainWithin, Lapsed
    <3>1. CASE chain'[s].bytes = chain[s].bytes
      BY Zenon, <3>1 DEF MInv, ChainWithin
    <3>2. CASE s \in Stored /\ chain[s].status = "active" /\ chain'[s].bytes = row[s].bytes
      <4>1. Lapsed(s) \/ ~Ended(s)
        BY Zenon, <3>2 DEF Ended
      <4> QED
        BY Zenon, <1>4, <3>2, <4>1 DEF TableBetween
    <3> QED
      BY Zenon, <2>2, <3>1, <3>2
  <2>6. TableBetween'
    BY Zenon, <1>0, <1>3, <1>4, <2>1, <2>2, <2>3, <2>4 DEF TableBetween, Counted
  <2> QED
    BY Zenon, <1>1, <1>2, <1>3, <2>1, <2>2, <2>5, <2>6, Serving
<1> QED
  BY Zenon, <1>5, <1>6

-----------------------------------------------------------------------------
(* The invariant.                                                          *)

\* A first start has nothing to count.
LEMMA MeterInit == Init => MInv
<1> SUFFICES ASSUME Init PROVE MInv
  OBVIOUS
<1>1. Stored = {} /\ Peers = {} /\ (\A k \in Key : set.peers[k] = None)
  BY Zenon DEF Init, Stored, Peers, IdleSet
<1>2. /\ late = NoTx /\ QuietJobs /\ Asked /\ FreshCounters /\ BasesCurrent /\ RowsBetween
  BY Zenon, <1>1 DEF Init, QuietJobs, Asked, FreshCounters, BasesCurrent, RowsBetween
<1>3. ItemsBetween
  BY Zenon DEF Init, IdleUpdate, ItemsBetween
<1>4. ChainWithin
  BY DEF Init, ChainWithin, AtLeast, Zero
<1> QED
  BY Zenon, <1>2, <1>3, <1>4 DEF MInv

\* Every step keeps it.
LEMMA MeterNext ==
  ASSUME IInv, Shape', MInv, OwnKeys, ~LateInclusion, [Next]_vars
  PROVE  MInv'
BY Zenon, HandlerKeeps, TrafficKeeps, SetKeeps, UpdateKeeps, ChainKeeps, RestartKeeps DEF Next

-----------------------------------------------------------------------------
(* Metering.  It is stated for clients that each ask with a key of their   *)
(* own and for transactions that are included while they are waited for or *)
(* not at all; without either it does not hold.                            *)

\* The metering's invariant holds in every reachable state.
THEOREM MeterInvariant ==
  ASSUME OwnKeys, ~LateInclusion
  PROVE  Spec => []MInv
<1>1. Init => MInv
  BY MeterInit
<1>2. IInv /\ IInv' /\ MInv /\ [Next]_vars => MInv'
  BY Zenon, MeterNext DEF IInv
<1> QED
  BY <1>1, <1>2, Invariant, PTL DEF Spec

\* reportSessions never holds a total lower than the chain's, whatever crashed,
\* failed or was admitted again since the row was read.
THEOREM NeverLower ==
  ASSUME OwnKeys, ~LateInclusion
  PROVE  Spec => []ReportsNotLower
<1>1. MInv => ReportsNotLower
  BY Zenon DEF MInv, ItemsBetween, ReportsNotLower
<1> QED
  BY <1>1, MeterInvariant, PTL

\* Neither the chain nor, while the session lasts, its row ever shows more than
\* the session moved: reportedUsage adds what the peer counted since admission
\* to what the chain held then, and counts nothing twice.
THEOREM NeverOverstated ==
  ASSUME OwnKeys, ~LateInclusion
  PROVE  Spec => []UsageNotOverstated
<1>1. MInv => UsageNotOverstated
  BY Zenon DEF MInv, ChainWithin, RowsBetween, Between, UsageNotOverstated
<1> QED
  BY <1>1, MeterInvariant, PTL
=============================================================================
