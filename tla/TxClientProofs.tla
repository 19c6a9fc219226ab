---------------------------- MODULE TxClientProofs ----------------------------
(* Proofs about TxClient: for any number of callers, remotes, attempts and    *)
(* calls, messages reach the chain in the order of the calls, an attempt's    *)
(* at most once, and a call that returns without an error was carried out.    *)
EXTENDS TxClient, TLAPS

TxType == [call : Nat, attempt : Nat, seq : Nat]
PC == {"idle", "prepare", "broadcast", "wait"}
JobType == [pc : PC, call : Nat, attempt : Nat, seq : Nat, remote : Nat]

Types ==
  /\ mutex \in {"free", "taken"}
  /\ job \in [Job -> JobType]
  /\ calls \in Nat
  /\ result \in [Call -> {"none", "ok", "failed"}]
  /\ seq \in Nat
  /\ log \in Seq([tx : TxType, ok : BOOLEAN])
  /\ view \in [Remote -> Nat]
  /\ pool \in [Remote -> SUBSET TxType]

Busy(j) == job[j].pc # "idle"
Signing(j) == job[j].pc \in {"broadcast", "wait"}

\* A transaction that may still be given to a remote or put into a block.
Signed(t) ==
  \/ \E r \in Remote : t \in pool[r]
  \/ \E j \in Job : Signing(j) /\ t = Tx(job[j])

Logged(t) == \E i \in DOMAIN log : log[i].tx = t

\* The mutex: one caller at a time is in Tx, with the latest call.
OneInTx ==
  \A j \in Job : Busy(j) =>
    /\ mutex = "taken"
    /\ job[j].call = calls /\ calls \in Call
    /\ \A k \in Job : Busy(k) => k = j

\* The chain: a block's transaction had the sequence of its time.
InSequence ==
  /\ Len(log) = seq
  /\ \A i \in DOMAIN log : log[i].tx.seq = i - 1

Lagging == \A r \in Remote : view[r] <= seq

\* What is signed was never ahead of the chain, and cannot be included any more
\* once a later call's transaction is.
Behind ==
  \A t \in TxType : Signed(t) =>
    /\ t.seq <= seq
    /\ \A i \in DOMAIN log : log[i].tx.call > t.call => t.seq < seq

Past(t) == t.call <= calls
CallsPast == \A t \in TxType : Signed(t) \/ Logged(t) => Past(t)

\* One attempt, one transaction.
Alike ==
  \A t, u \in TxType :
    /\ Signed(t) \/ Logged(t)
    /\ Signed(u) \/ Logged(u)
    /\ t.call = u.call /\ t.attempt = u.attempt
    => t = u

AttemptsPast ==
  \A j \in Job : Busy(j) =>
    \A t \in TxType : (Signed(t) \/ Logged(t)) /\ t.call = job[j].call =>
      /\ t.attempt <= job[j].attempt
      /\ job[j].pc = "prepare" => t.attempt < job[j].attempt

IInv ==
  /\ Types /\ OneInTx /\ InSequence /\ Lagging
  /\ Behind /\ CallsPast /\ Alike /\ AttemptsPast
  /\ NoOvertaking /\ OkExecuted

\* What is in a block is a transaction, and logged.
LEMMA LogTyped ==
  ASSUME Types, NEW i \in DOMAIN log
  PROVE  log[i].tx \in TxType /\ Logged(log[i].tx)
<1> DEFINE S == [tx : TxType, ok : BOOLEAN]
<1> HIDE DEF S
<1>a. log \in Seq(S)
  BY Zenon DEF Types, S
<1>b. i \in 1 .. Len(log)
  BY <1>a
<1>1. log[i] \in S
  BY <1>a, <1>b
<1>2. log[i].tx \in TxType
  BY Zenon, <1>1 DEF S
<1>3. Logged(log[i].tx)
  BY Zenon DEF Logged
<1> QED BY <1>2, <1>3

-----------------------------------------------------------------------------
(* Steps of a caller that is in Tx and signs nothing.                        *)

Ends(j, x) ==
  /\ x.pc = "idle" /\ mutex' = "free"
  /\ \E o \in {"ok", "failed"} :
       /\ result' = [result EXCEPT ![job[j].call] = o]
       /\ o = "ok" => \E i \in DOMAIN log : log[i].tx.call = job[j].call /\ log[i].ok

Restarts(j, x) ==
  /\ x.pc = "prepare" /\ x.call = job[j].call /\ x.attempt = job[j].attempt + 1
  /\ UNCHANGED <<mutex, result>>

Continues(j, x) ==
  /\ Signing(j) /\ x.pc \in {"broadcast", "wait"}
  /\ x.call = job[j].call /\ x.attempt = job[j].attempt /\ x.seq = job[j].seq
  /\ UNCHANGED <<mutex, result>>

Turn(j) ==
  \E x \in JobType :
    /\ job' = [job EXCEPT ![j] = x]
    /\ calls' = calls
    /\ Ends(j, x) \/ Restarts(j, x) \/ Continues(j, x)

\* A failed attempt is followed by the next or by the end of the call (retry.Do).
LEMMA RetryTurns ==
  ASSUME Types, NEW j \in Job, Retry(j)
  PROVE  Turn(j)
<1>1. CASE job[j].attempt < Attempts
  <2> DEFINE x == At("prepare", job[j].call, job[j].attempt + 1, 0, 0)
  <2>1. x \in JobType
    BY DEF Types, JobType, PC, At
  <2>2. job' = [job EXCEPT ![j] = x] /\ UNCHANGED <<mutex, calls, result>>
    BY Zenon, <1>1 DEF Retry, At
  <2>3. Restarts(j, x)
    BY Zenon, <2>2 DEF Restarts, At
  <2> QED BY Zenon, <2>1, <2>2, <2>3 DEF Turn
<1>2. CASE ~(job[j].attempt < Attempts)
  <2>1. Idle \in JobType /\ Idle.pc = "idle"
    BY Zenon DEF Idle, At, JobType, PC
  <2>2. Return(j, "failed")
    BY Zenon, <1>2 DEF Retry
  <2>3. Ends(j, Idle)
    BY Zenon, <2>1, <2>2 DEF Return, Ends
  <2> QED BY Zenon, <2>1, <2>2, <2>3 DEF Turn, Return
<1> QED BY <1>1, <1>2

\* A remote that failed is followed by the next one or by a failed attempt
\* (the loop of BroadcastTx).
LEMMA NextRemoteTurns ==
  ASSUME Types, NEW j \in Job, Signing(j), NextRemote(j)
  PROVE  Turn(j)
<1>1. CASE job[j].remote < Remotes
  <2> DEFINE x == At("broadcast", job[j].call, job[j].attempt, job[j].seq, job[j].remote + 1)
  <2>1. x \in JobType
    BY DEF Types, JobType, PC, At
  <2>2. job' = [job EXCEPT ![j] = x] /\ UNCHANGED <<mutex, calls, result>>
    BY Zenon, <1>1 DEF NextRemote, At
  <2>3. Continues(j, x)
    BY Zenon, <2>2 DEF Continues, At
  <2> QED BY Zenon, <2>1, <2>2, <2>3 DEF Turn
<1>2. CASE ~(job[j].remote < Remotes)
  BY Zenon, <1>2, RetryTurns DEF NextRemote
<1> QED BY <1>1, <1>2

\* Waiting for a broadcast transaction changes nothing that was signed.
LEMMA AwaitTurns ==
  ASSUME Types, NEW j \in Job, Signing(j), Await(j)
  PROVE  Turn(j)
<1> DEFINE x == At("wait", job[j].call, job[j].attempt, job[j].seq, job[j].remote)
<1>1. x \in JobType
  BY Zenon DEF Types, JobType, PC, At
<1>2. job' = [job EXCEPT ![j] = x] /\ UNCHANGED <<mutex, calls, result>>
  BY Zenon DEF Await, At
<1>3. Continues(j, x)
  BY Zenon, <1>2 DEF Continues, At
<1> QED BY Zenon, <1>1, <1>2, <1>3 DEF Turn

\* Without a new signature nothing new is signed: what was true of all signed
\* transactions stays true, also when one of them is given to a remote.
LEMMA TurnKeeps ==
  ASSUME IInv, NEW j \in Job, Busy(j), Turn(j), UNCHANGED <<seq, log, view>>,
         \/ pool' = pool
         \/ Signing(j) /\ \E r \in Remote : pool' = [pool EXCEPT ![r] = @ \cup {Tx(job[j])}]
  PROVE  IInv'
<1> USE DEF IInv
<1>1. PICK x \in JobType :
        /\ job' = [job EXCEPT ![j] = x]
        /\ calls' = calls
        /\ Ends(j, x) \/ Restarts(j, x) \/ Continues(j, x)
  BY Zenon DEF Turn
<1>2. /\ \A k \in Job : job'[k] = IF k = j THEN x ELSE job[k]
      /\ job' \in [Job -> JobType]
  BY Zenon, <1>1 DEF Types
<1>3. Tx(job[j]) \in TxType
  BY Zenon DEF Types, JobType, Tx, TxType
<1>4. pool' \in [Remote -> SUBSET TxType]
  BY <1>3 DEF Types
<1>5. \A r \in Remote, t \in TxType :
        t \in pool'[r] => t \in pool[r] \/ (Signing(j) /\ t = Tx(job[j]))
  BY Zenon DEF Types
<1>6. x.pc \in {"broadcast", "wait"} => Signing(j) /\ Tx(x) = Tx(job[j])
  BY Zenon, <1>1 DEF Ends, Restarts, Continues, Tx
<1>7. ASSUME NEW t \in TxType, Signed(t)' PROVE Signed(t)
  <2>1. CASE \E r \in Remote : t \in pool'[r]
    BY Zenon, <2>1, <1>5 DEF Signed
  <2>2. CASE \E k \in Job : Signing(k)' /\ t = Tx(job'[k])
    <3>1. PICK k \in Job : Signing(k)' /\ t = Tx(job'[k])
      BY Zenon, <2>2
    <3>2. CASE k = j
      <4>1. job'[k] = x
        BY Zenon, <3>2, <1>2
      <4>2. x.pc \in {"broadcast", "wait"} /\ t = Tx(x)
        BY Zenon, <3>1, <4>1 DEF Signing
      <4> QED BY <4>2, <1>6 DEF Signed
    <3>3. CASE k # j
      <4>1. job'[k] = job[k]
        BY Zenon, <3>3, <1>2
      <4> QED BY <3>1, <4>1 DEF Signed, Signing
    <3> QED BY <3>2, <3>3
  <2> QED BY <1>7, <2>1, <2>2 DEF Signed
<1>8. \A t \in TxType : Logged(t)' <=> Logged(t)
  BY Zenon DEF Logged
<1>9. Types'
  <2>1. mutex' \in {"free", "taken"} /\ result' \in [Call -> {"none", "ok", "failed"}]
    BY Zenon, <1>1 DEF Types, Ends, Restarts, Continues
  <2> QED BY <2>1, <1>1, <1>2, <1>4 DEF Types
<1>10. OneInTx'
  <2>1. ASSUME NEW k \in Job, Busy(k)' PROVE k = j /\ x.pc # "idle"
    BY Zenon, <2>1, <1>2 DEF Busy, OneInTx
  <2>2. x.pc # "idle" => mutex' = "taken" /\ x.call = calls /\ calls \in Call
    BY Zenon, <1>1 DEF Ends, Restarts, Continues, OneInTx
  <2> QED BY <2>1, <2>2, <1>1, <1>2 DEF OneInTx, Busy
<1>11. InSequence' /\ Lagging' /\ NoOvertaking'
  BY Zenon DEF InSequence, Lagging, NoOvertaking
<1>12. Behind'
  BY Zenon, <1>7 DEF Behind
<1>13. CallsPast'
  BY Zenon, <1>1, <1>7, <1>8 DEF CallsPast, Past
<1>14. Alike'
  BY Zenon, <1>7, <1>8 DEF Alike
<1>15. AttemptsPast'
  <2> SUFFICES ASSUME NEW k \in Job, Busy(k)',
                      NEW t \in TxType, Signed(t)' \/ Logged(t)', t.call = job'[k].call
               PROVE  /\ t.attempt <= job'[k].attempt
                      /\ job'[k].pc = "prepare" => t.attempt < job'[k].attempt
    BY Zenon DEF AttemptsPast
  <2>1. k = j /\ job'[k] = x /\ x.pc # "idle"
    BY Zenon, <1>2 DEF Busy, OneInTx
  <2>2. Signed(t) \/ Logged(t)
    BY Zenon, <1>7, <1>8
  <2>3. x.call = job[j].call
    BY Zenon, <2>1, <1>1 DEF Ends, Restarts, Continues
  <2>4. t.attempt <= job[j].attempt
    BY Zenon, <2>1, <2>2, <2>3 DEF AttemptsPast
  <2>5. t.attempt \in Nat /\ job[j].attempt \in Nat
    BY Zenon DEF TxType, Types, JobType
  <2>6. CASE Restarts(j, x)
    BY <2>1, <2>4, <2>5, <2>6 DEF Restarts
  <2>7. CASE Continues(j, x)
    BY Zenon, <2>1, <2>4, <2>5, <2>7 DEF Continues
  <2> QED BY <2>1, <2>6, <2>7, <1>1 DEF Ends
<1>16. OkExecuted'
  <2>1. CASE Ends(j, x)
    <3>1. PICK o \in {"ok", "failed"} :
            /\ result' = [result EXCEPT ![job[j].call] = o]
            /\ o = "ok" => \E i \in DOMAIN log : log[i].tx.call = job[j].call /\ log[i].ok
      BY Zenon, <2>1 DEF Ends
    <3> QED BY <3>1 DEF OkExecuted, Types
  <2>2. CASE Restarts(j, x) \/ Continues(j, x)
    BY Zenon, <2>2 DEF OkExecuted, Restarts, Continues
  <2> QED BY <2>1, <2>2, <1>1
<1> QED BY <1>9, <1>10, <1>11, <1>12, <1>13, <1>14, <1>15, <1>16

-----------------------------------------------------------------------------
(* The other steps.                                                          *)

\* A caller takes the mutex: its call is later than everything signed so far.
LEMMA LockKeeps ==
  ASSUME IInv, NEW j \in Job, Lock(j)
  PROVE  IInv'
<1> USE DEF IInv
<1> DEFINE x == At("prepare", calls + 1, 1, 0, 0)
<1>1. /\ job' = [job EXCEPT ![j] = x] /\ calls' = calls + 1 /\ mutex' = "taken"
      /\ mutex = "free" /\ calls < MaxCalls
      /\ UNCHANGED <<result, seq, log, view, pool>>
  BY Zenon DEF Lock, Begin, chain
<1>2. x \in JobType /\ x.pc = "prepare" /\ x.call = calls + 1 /\ x.attempt = 1
  BY DEF At, JobType, PC, Types
<1> HIDE DEF x
<1>3. /\ \A k \in Job : job'[k] = IF k = j THEN x ELSE job[k]
      /\ job' \in [Job -> JobType]
  BY Zenon, <1>1, <1>2 DEF Types
<1>4. \A k \in Job : ~Busy(k)
  BY Zenon, <1>1 DEF OneInTx
<1>5. ASSUME NEW t \in TxType, Signed(t)' PROVE Signed(t)
  <2>1. \A k \in Job : ~Signing(k)'
    BY Zenon, <1>2, <1>3, <1>4 DEF Signing, Busy
  <2> QED BY <2>1, <1>1, <1>5 DEF Signed
<1>6. \A t \in TxType : Logged(t)' <=> Logged(t)
  BY Zenon, <1>1 DEF Logged
<1>7. Types'
  BY <1>1, <1>3 DEF Types
<1>8. OneInTx'
  <2>1. ASSUME NEW k \in Job, Busy(k)' PROVE k = j /\ job'[k] = x
    BY Zenon, <2>1, <1>3, <1>4 DEF Busy
  <2>2. calls + 1 \in Call
    BY <1>1, TxAssumption DEF Call, Types
  <2> QED BY <2>1, <2>2, <1>1, <1>2 DEF OneInTx
<1>9. InSequence' /\ Lagging' /\ NoOvertaking' /\ OkExecuted'
  BY Zenon, <1>1 DEF InSequence, Lagging, NoOvertaking, OkExecuted
<1>10. Behind'
  BY Zenon, <1>1, <1>5 DEF Behind
<1>11. CallsPast'
  <2> SUFFICES ASSUME NEW t \in TxType, Signed(t)' \/ Logged(t)' PROVE t.call <= calls'
    BY Zenon DEF CallsPast, Past
  <2>1. t.call <= calls
    BY Zenon, <1>5, <1>6 DEF CallsPast, Past
  <2> QED BY <2>1, <1>1 DEF Types, TxType
<1>12. Alike'
  BY Zenon, <1>5, <1>6 DEF Alike
<1>13. AttemptsPast'
  <2> SUFFICES ASSUME NEW k \in Job, Busy(k)',
                      NEW t \in TxType, Signed(t)' \/ Logged(t)', t.call = job'[k].call
               PROVE  FALSE
    BY Zenon DEF AttemptsPast
  <2>1. job'[k] = x
    BY Zenon, <1>3, <1>4 DEF Busy
  <2>2. t.call <= calls
    BY Zenon, <1>5, <1>6 DEF CallsPast, Past
  <2> QED BY <2>1, <2>2, <1>2 DEF Types, TxType
<1> QED BY <1>7, <1>8, <1>9, <1>10, <1>11, <1>12, <1>13

\* A call signs with a sequence some remote knows of: it is not ahead of the
\* chain, and no later call has a transaction in a block yet.
LEMMA SignKeeps ==
  ASSUME IInv, NEW j \in Job, job[j].pc = "prepare", NEW s \in QueryAccount,
         job' = [job EXCEPT ![j] = At("broadcast", @.call, @.attempt, s, 1)],
         UNCHANGED <<mutex, calls, result, chain>>
  PROVE  IInv'
<1> USE DEF IInv
<1> DEFINE x == At("broadcast", job[j].call, job[j].attempt, s, 1)
           u == Tx(x)
<1>1. UNCHANGED <<mutex, calls, result, seq, log, view, pool>>
  BY Zenon DEF chain
<1>2. s \in Nat /\ s <= seq
  BY Zenon DEF QueryAccount, Types, Lagging
<1>3. /\ x \in JobType /\ x.pc = "broadcast"
      /\ x.call = job[j].call /\ x.attempt = job[j].attempt
  BY Zenon, <1>2 DEF At, JobType, PC, Types
<1>4. /\ u \in TxType /\ u.seq = s
      /\ u.call = job[j].call /\ u.attempt = job[j].attempt
  BY Zenon, <1>2 DEF At, Tx, TxType, Types, JobType
<1>5. /\ \A k \in Job : job'[k] = IF k = j THEN x ELSE job[k]
      /\ job' \in [Job -> JobType]
  BY Zenon, <1>3 DEF Types
<1>6. Busy(j) /\ job[j].call = calls
  BY Zenon DEF Busy, OneInTx
<1>7. ASSUME NEW t \in TxType, Signed(t)' PROVE Signed(t) \/ t = u
  <2>1. CASE \E r \in Remote : t \in pool'[r]
    BY Zenon, <2>1, <1>1 DEF Signed
  <2>2. CASE \E k \in Job : Signing(k)' /\ t = Tx(job'[k])
    <3>1. PICK k \in Job : Signing(k)' /\ t = Tx(job'[k])
      BY Zenon, <2>2
    <3>2. CASE k = j
      BY Zenon, <3>1, <3>2, <1>5
    <3>3. CASE k # j
      <4>1. job'[k] = job[k]
        BY Zenon, <3>3, <1>5
      <4> QED BY <3>1, <4>1 DEF Signed, Signing
    <3> QED BY <3>2, <3>3
  <2> QED BY <1>7, <2>1, <2>2 DEF Signed
<1>8. \A t \in TxType : Logged(t)' <=> Logged(t)
  BY Zenon, <1>1 DEF Logged
<1> HIDE DEF x, u
<1>9. ASSUME NEW t \in TxType, Signed(t) \/ Logged(t), t.call = u.call
      PROVE  t.attempt < u.attempt
  BY Zenon, <1>4, <1>6, <1>9 DEF AttemptsPast
<1>10. Types'
  BY Zenon, <1>1, <1>5 DEF Types
<1>11. OneInTx'
  <2>1. ASSUME NEW k \in Job, Busy(k)' PROVE k = j /\ job'[k] = x
    BY Zenon, <2>1, <1>5, <1>6 DEF Busy, OneInTx
  <2>2. mutex = "taken" /\ calls \in Call
    BY Zenon, <1>6 DEF OneInTx
  <2> QED BY <2>1, <2>2, <1>1, <1>3, <1>6 DEF OneInTx
<1>12. InSequence' /\ Lagging' /\ NoOvertaking' /\ OkExecuted'
  BY Zenon, <1>1 DEF InSequence, Lagging, NoOvertaking, OkExecuted
<1>6a. u.call = calls /\ calls \in Nat
  <2>1. calls \in Nat
    BY Zenon DEF Types
  <2> QED BY ONLY <2>1, <1>4, <1>6
<1>13. Behind'
  <2>1. ASSUME NEW i \in DOMAIN log PROVE ~(log[i].tx.call > u.call)
    <3>1. log[i].tx \in TxType /\ Logged(log[i].tx)
      BY Zenon, LogTyped
    <3>2. log[i].tx.call <= calls
      BY Zenon, <3>1 DEF CallsPast, Past
    <3>3. log[i].tx.call \in Nat
      BY ONLY Zenon, <3>1 DEF TxType
    <3> QED BY ONLY <3>2, <3>3, <1>6a
  <2> QED BY <2>1, <1>1, <1>2, <1>4, <1>7 DEF Behind
<1>14. CallsPast'
  <2>1. u.call <= calls
    BY ONLY <1>6a
  <2> QED BY <2>1, <1>1, <1>7, <1>8 DEF CallsPast, Past
<1>15. Alike'
  <2> SUFFICES ASSUME NEW t \in TxType, NEW v \in TxType,
                      Signed(t)' \/ Logged(t)', Signed(v)' \/ Logged(v)',
                      t.call = v.call, t.attempt = v.attempt
               PROVE  t = v
    BY Zenon DEF Alike
  <2>1. /\ t = u \/ Signed(t) \/ Logged(t)
        /\ v = u \/ Signed(v) \/ Logged(v)
    BY Zenon, <1>7, <1>8
  <2>2. t = u /\ v # u => v.attempt < u.attempt
    BY Zenon, <2>1, <1>9
  <2>3. v = u /\ t # u => t.attempt < u.attempt
    BY Zenon, <2>1, <1>9
  <2>4. t # u /\ v # u => t = v
    BY Zenon, <2>1 DEF Alike
  <2>5. t.attempt \in Nat /\ v.attempt \in Nat
    BY ONLY Zenon, t \in TxType, v \in TxType DEF TxType
  <2> QED BY ONLY <2>2, <2>3, <2>4, <2>5, t.attempt = v.attempt
<1>16. AttemptsPast'
  <2> SUFFICES ASSUME NEW k \in Job, Busy(k)',
                      NEW t \in TxType, Signed(t)' \/ Logged(t)', t.call = job'[k].call
               PROVE  /\ t.attempt <= job'[k].attempt
                      /\ job'[k].pc # "prepare"
    BY Zenon DEF AttemptsPast
  <2>1. job'[k] = x
    BY Zenon, <1>5, <1>6 DEF Busy, OneInTx
  <2>2. t = u \/ t.attempt < u.attempt
    BY Zenon, <2>1, <1>3, <1>4, <1>7, <1>8, <1>9
  <2>3. t.attempt \in Nat /\ u.attempt \in Nat
    BY ONLY Zenon, t \in TxType, <1>4 DEF TxType
  <2> QED BY ONLY <2>1, <2>2, <2>3, <1>3, <1>4
<1> QED BY <1>10, <1>11, <1>12, <1>13, <1>14, <1>15, <1>16

-----------------------------------------------------------------------------
(* The chain and the remotes.                                                *)

\* A block takes a transaction: its sequence is the chain's, so nothing of a
\* later call is in a block, and everything else signed so far with this
\* sequence, or with a lower one, can no longer be included.
LEMMA IncludeKeeps ==
  ASSUME IInv, Include
  PROVE  IInv'
<1> USE DEF IInv
<1>a. PICK q \in Remote : \E t \in pool[q], ok \in BOOLEAN :
        t.seq = seq /\ log' = Append(log, [tx |-> t, ok |-> ok])
  BY Zenon DEF Include
<1>1. PICK u \in pool[q], ok \in BOOLEAN :
        u.seq = seq /\ log' = Append(log, [tx |-> u, ok |-> ok])
  BY Zenon, <1>a
<1>2. seq' = seq + 1 /\ UNCHANGED <<mutex, job, calls, result, view, pool>>
  BY Zenon DEF Include, client
<1> DEFINE e == [tx |-> u, ok |-> ok]
<1>3. u \in TxType /\ Signed(u) /\ e \in [tx : TxType, ok : BOOLEAN] /\ e.tx = u
  BY Zenon DEF Types, Signed
<1> HIDE DEF e
<1>4. /\ log' \in Seq([tx : TxType, ok : BOOLEAN])
      /\ Len(log') = seq + 1
      /\ DOMAIN log' = 1 .. seq + 1 /\ DOMAIN log = 1 .. seq
      /\ \A i \in 1 .. seq : log'[i] = log[i]
      /\ log'[seq + 1] = e
  BY <1>1, <1>3 DEF Types, InSequence, e
<1>5. seq \in Nat
  BY Zenon DEF Types
<1>6. \A i \in DOMAIN log' : (i \in DOMAIN log /\ log'[i] = log[i]) \/ (i = seq + 1 /\ log'[i] = e)
  BY <1>4, <1>5
<1>7. \A t \in TxType : Signed(t)' <=> Signed(t)
  BY Zenon, <1>2 DEF Signed, Signing
<1>8. \A t \in TxType : Logged(t)' => Logged(t) \/ t = u
  BY Zenon, <1>3, <1>6 DEF Logged
<1>9. Types'
  BY <1>2, <1>4 DEF Types
<1>10. OneInTx'
  BY Zenon, <1>2 DEF OneInTx, Busy
<1>11. InSequence'
  <2>1. ASSUME NEW i \in DOMAIN log' PROVE log'[i].tx.seq = i - 1
    <3>1. CASE i \in DOMAIN log /\ log'[i] = log[i]
      BY Zenon, <3>1 DEF InSequence
    <3>2. CASE i = seq + 1 /\ log'[i] = e
      BY <3>2, <1>1, <1>3, <1>5
    <3> QED BY <3>1, <3>2, <1>6
  <2> QED BY <2>1, <1>2, <1>4 DEF InSequence
<1>12. Lagging'
  BY <1>2, <1>5 DEF Lagging, Types
<1>13. Behind'
  <2> SUFFICES ASSUME NEW t \in TxType, Signed(t)' PROVE t.seq < seq'
    BY <1>2, <1>5 DEF Behind, TxType
  <2>1. t.seq <= seq
    BY Zenon, <1>7 DEF Behind
  <2> QED BY <2>1, <1>2, <1>5 DEF TxType
<1>14. CallsPast'
  BY Zenon, <1>2, <1>3, <1>7, <1>8 DEF CallsPast, Past
<1>15. Alike'
  BY Zenon, <1>3, <1>7, <1>8 DEF Alike
<1>16. AttemptsPast'
  BY Zenon, <1>2, <1>3, <1>7, <1>8 DEF AttemptsPast, Busy
<1>17. \A i \in DOMAIN log : log[i].tx.call <= u.call
  <2> SUFFICES ASSUME NEW i \in DOMAIN log PROVE log[i].tx.call <= u.call
    OBVIOUS
  <2>1. ~(log[i].tx.call > u.call)
    BY <1>1, <1>3, <1>5 DEF Behind
  <2>2. log[i].tx.call \in Nat /\ u.call \in Nat
    BY Zenon, <1>3, LogTyped DEF TxType
  <2> QED BY <2>1, <2>2
<1>18. NoOvertaking'
  <2> SUFFICES ASSUME NEW i \in DOMAIN log', NEW k \in DOMAIN log', i < k
               PROVE  log'[i].tx.call <= log'[k].tx.call
    BY Zenon DEF NoOvertaking
  <2>1. i \in DOMAIN log /\ log'[i] = log[i]
    BY <1>4, <1>5
  <2>2. CASE k \in DOMAIN log /\ log'[k] = log[k]
    BY Zenon, <2>1, <2>2 DEF NoOvertaking
  <2>3. CASE k = seq + 1 /\ log'[k] = e
    BY Zenon, <2>1, <2>3, <1>3, <1>17
  <2> QED BY <2>2, <2>3, <1>6
<1>19. OkExecuted'
  <2> SUFFICES ASSUME NEW c \in Call, result'[c] = "ok"
               PROVE  \E i \in DOMAIN log' : log'[i].tx.call = c /\ log'[i].ok
    BY Zenon DEF OkExecuted
  <2>1. PICK i \in DOMAIN log : log[i].tx.call = c /\ log[i].ok
    BY Zenon, <1>2 DEF OkExecuted
  <2>2. i \in DOMAIN log' /\ log'[i] = log[i]
    BY <1>4, <1>5
  <2> QED BY <2>1, <2>2
<1> QED BY <1>9, <1>10, <1>11, <1>12, <1>13, <1>14, <1>15, <1>16, <1>18, <1>19

\* What remotes do among themselves: nothing new is signed, and none of them
\* gets ahead of the chain.
LEMMA RemoteKeeps ==
  ASSUME IInv, NEW r \in Remote, Sync(r) \/ Gossip(r) \/ Drop(r)
  PROVE  IInv'
<1> USE DEF IInv
<1>1. UNCHANGED <<mutex, job, calls, result, seq, log>>
  BY Zenon DEF Sync, Gossip, Drop, client
<1>2. /\ view' \in [Remote -> Nat]
      /\ \A q \in Remote : view'[q] <= seq
  <2>1. view \in [Remote -> Nat] /\ seq \in Nat /\ \A q \in Remote : view[q] <= seq
    BY Zenon DEF Types, Lagging
  <2>2. CASE Sync(r)
    <3>1. view' = [view EXCEPT ![r] = seq]
      BY Zenon, <2>2 DEF Sync
    <3> HIDE DEF IInv
    <3> QED BY ONLY <2>1, <3>1
  <2>3. CASE Gossip(r) \/ Drop(r)
    <3>1. view' = view
      BY Zenon, <2>3 DEF Gossip, Drop
    <3> QED BY ONLY <2>1, <3>1
  <2> QED BY <2>2, <2>3
<1>3. /\ pool' \in [Remote -> SUBSET TxType]
      /\ \A q \in Remote : \A t \in pool'[q] : \E p \in Remote : t \in pool[p]
  <2>1. CASE Sync(r)
    BY Zenon, <2>1 DEF Sync, Types
  <2>2. CASE Drop(r)
    BY Zenon, <2>2 DEF Drop, Types
  <2>3. CASE Gossip(r)
    BY <2>3 DEF Gossip, Types
  <2> QED BY <2>1, <2>2, <2>3
<1>4. \A t \in TxType : Signed(t)' => Signed(t)
  BY Zenon, <1>1, <1>3 DEF Signed, Signing
<1>5. \A t \in TxType : Logged(t)' <=> Logged(t)
  BY Zenon, <1>1 DEF Logged
<1>6. Types' /\ OneInTx' /\ InSequence' /\ NoOvertaking' /\ OkExecuted'
  BY Zenon, <1>1, <1>2, <1>3 DEF Types, OneInTx, Busy, InSequence, NoOvertaking, OkExecuted
<1>7. Lagging'
  BY Zenon, <1>1, <1>2 DEF Lagging
<1>8. Behind' /\ CallsPast' /\ Alike'
  BY Zenon, <1>1, <1>4, <1>5 DEF Behind, CallsPast, Past, Alike
<1>9. AttemptsPast'
  BY Zenon, <1>1, <1>4, <1>5 DEF AttemptsPast, Busy
<1> QED BY <1>6, <1>7, <1>8, <1>9

\* Every step of a caller, of the chain and of the remotes keeps the invariant.
LEMMA StepKeeps ==
  ASSUME IInv, [Next]_vars
  PROVE  IInv'
<1>1. CASE UNCHANGED vars
  <2>1. UNCHANGED <<mutex, job, calls, result, seq, log, view, pool>>
    BY Zenon, <1>1 DEF vars, client, chain
  <2>2. \A t : (Signed(t)' <=> Signed(t)) /\ (Logged(t)' <=> Logged(t))
    BY Zenon, <2>1 DEF Signed, Signing, Logged
  <2>3. Types' /\ OneInTx' /\ InSequence' /\ Lagging'
    BY Zenon, <2>1 DEF IInv, Types, OneInTx, Busy, InSequence, Lagging
  <2>4. Behind' /\ CallsPast' /\ Alike'
    BY Zenon, <2>1, <2>2 DEF IInv, Behind, CallsPast, Past, Alike
  <2>5. AttemptsPast'
    BY Zenon, <2>1, <2>2 DEF IInv, AttemptsPast, Busy
  <2>6. NoOvertaking' /\ OkExecuted'
    BY Zenon, <2>1 DEF IInv, NoOvertaking, OkExecuted
  <2> QED BY <2>3, <2>4, <2>5, <2>6 DEF IInv
<1>2. ASSUME NEW j \in Job, Lock(j) PROVE IInv'
  BY Zenon, <1>2, LockKeeps
<1>3. ASSUME NEW j \in Job, Prepare(j) PROVE IInv'
  <2>1. CASE \E s \in QueryAccount :
               job' = [job EXCEPT ![j] = At("broadcast", @.call, @.attempt, s, 1)]
    <3>1. job[j].pc = "prepare" /\ UNCHANGED chain
      BY Zenon, <1>3 DEF Prepare
    <3>2. CASE UNCHANGED <<mutex, calls, result>>
      BY Zenon, <2>1, <3>1, <3>2, SignKeeps
    <3>3. CASE Retry(j)
      BY Zenon, <1>3, <3>1, <3>3, RetryTurns, TurnKeeps DEF IInv, Busy, chain
    <3> QED BY <1>3, <3>2, <3>3 DEF Prepare
  <2>2. CASE Retry(j)
    BY Zenon, <1>3, <2>2, RetryTurns, TurnKeeps DEF Prepare, IInv, Busy, chain
  <2> QED BY <1>3, <2>1, <2>2 DEF Prepare
<1>4. ASSUME NEW j \in Job, Broadcast(j) PROVE IInv'
  <2>1. Busy(j) /\ Signing(j) /\ UNCHANGED <<seq, log, view>>
    BY Zenon, <1>4 DEF Broadcast, Busy, Signing
  <2>2. Await(j) \/ NextRemote(j)
    BY Zenon, <1>4 DEF Broadcast
  <2>3. Turn(j)
    BY Zenon, <2>1, <2>2, AwaitTurns, NextRemoteTurns DEF IInv
  <2>4. \/ pool' = pool
        \/ pool' = [pool EXCEPT ![job[j].remote] = @ \cup {Tx(job[j])}]
    BY Zenon, <1>4 DEF Broadcast
  <2>5. CASE job[j].remote \in Remote
    BY Zenon, <2>1, <2>3, <2>4, <2>5, TurnKeeps
  <2>6. CASE job[j].remote \notin Remote
    <3>1. pool' = pool
      BY <2>4, <2>6 DEF IInv, Types
    <3> QED BY <2>1, <2>3, <3>1, TurnKeeps
  <2> QED BY <2>5, <2>6
<1>5. ASSUME NEW j \in Job, WaitForTx(j) PROVE IInv'
  <2>1. Busy(j) /\ Signing(j) /\ UNCHANGED <<seq, log, view, pool>>
    BY Zenon, <1>5 DEF WaitForTx, Busy, Signing, chain
  <2>2. CASE NextRemote(j)
    BY Zenon, <2>1, <2>2, NextRemoteTurns, TurnKeeps DEF IInv
  <2>3. CASE (\E i \in Shown(job[j].remote, Tx(job[j])) : log[i].ok) /\ Return(j, "ok")
    <3>1. PICK i \in DOMAIN log : log[i].tx = Tx(job[j]) /\ log[i].ok
      BY Zenon, <2>3 DEF Shown
    <3>2. log[i].tx.call = job[j].call
      BY <3>1 DEF Tx
    <3>3. Idle \in JobType /\ Idle.pc = "idle"
      BY Zenon DEF Idle, At, JobType, PC
    <3>4. Ends(j, Idle)
      BY Zenon, <2>3, <3>1, <3>2, <3>3 DEF Return, Ends
    <3>5. Turn(j)
      BY Zenon, <2>3, <3>3, <3>4 DEF Turn, Return
    <3> QED BY <2>1, <3>5, TurnKeeps
  <2> QED BY <1>5, <2>2, <2>3 DEF WaitForTx
<1> QED BY <1>1, <1>2, <1>3, <1>4, <1>5, IncludeKeeps, RemoteKeeps DEF Next, Step

-----------------------------------------------------------------------------

\* The invariant holds at the start and is kept: see IInv for its parts.
THEOREM Invariance == Spec => []IInv
<1>1. Init => IInv
  <2> SUFFICES ASSUME Init PROVE IInv
    OBVIOUS
  <2>1. Types
    BY DEF Init, Types, Idle, At, JobType, PC
  <2>2. \A t : ~Signed(t) /\ ~Logged(t)
    BY DEF Init, Signed, Signing, Logged, Idle, At
  <2>3. OneInTx /\ AttemptsPast
    BY Zenon DEF Init, OneInTx, AttemptsPast, Busy, Idle, At
  <2>4. InSequence /\ Lagging /\ NoOvertaking /\ OkExecuted
    BY DEF Init, InSequence, Lagging, NoOvertaking, OkExecuted
  <2> QED BY <2>1, <2>2, <2>3, <2>4 DEF IInv, Behind, CallsPast, Alike
<1>2. IInv /\ [Next]_vars => IInv'
  BY Zenon, StepKeeps
<1> QED BY <1>1, <1>2, PTL DEF Spec

\* Messages reach the chain in the order of the calls of Tx, for any number of
\* callers, remotes, attempts and calls, and however late transactions given
\* up on are included.
THEOREM CallsInOrder == Spec => []NoOvertaking
<1>1. IInv => NoOvertaking
  BY Zenon DEF IInv
<1> QED BY <1>1, Invariance, PTL

\* A call of Tx that returned without an error was carried out.
THEOREM OkMeansExecuted == Spec => []OkExecuted
<1>1. IInv => OkExecuted
  BY Zenon DEF IInv
<1> QED BY <1>1, Invariance, PTL

\* An attempt's messages are carried out at most once, although BroadcastTx
\* gives its bytes to every remote.
THEOREM AttemptsOnce == Spec => []OncePerAttempt
<1>1. ASSUME IInv PROVE OncePerAttempt
  <2> SUFFICES ASSUME NEW i \in DOMAIN log, NEW k \in DOMAIN log,
                      log[i].tx.call = log[k].tx.call, log[i].tx.attempt = log[k].tx.attempt
               PROVE  i = k
    BY Zenon DEF OncePerAttempt
  <2>1. log[i].tx = log[k].tx
    BY Zenon, <1>1, LogTyped DEF IInv, Alike
  <2>2. i - 1 = k - 1
    BY Zenon, <1>1, <2>1 DEF IInv, InSequence
  <2>3. i \in Int /\ k \in Int
    BY <1>1 DEF IInv, Types
  <2> QED BY <2>2, <2>3
<1> QED BY <1>1, Invariance, PTL
=============================================================================
