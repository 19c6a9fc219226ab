-------------------------------- MODULE TxClient --------------------------------
(* lite.Client.Tx: how the node's jobs put their messages on the chain.  A     *)
(* call signs with the account's sequence as some remote knows it, hands the   *)
(* same bytes to one remote after another until one of them shows the          *)
(* transaction in a block, and starts over a few times.  Remotes lag behind,   *)
(* lose what they accepted, and answers get lost; a transaction the client     *)
(* gave up on may be included at any later time.                               *)
EXTENDS Integers, Sequences, FiniteSets

CONSTANTS
  Job,       \* the callers of Tx: update_status, update_sessions
  Remotes,   \* c.remotes has this many entries, tried in order
  Attempts,  \* retry.Attempts
  MaxCalls   \* bound: calls of Tx

ASSUME TxAssumption == {Remotes, Attempts, MaxCalls} \subseteq Nat \ {0}

Remote == 1 .. Remotes
Call == 1 .. MaxCalls

VARIABLES
  mutex,   \* c.mutex: free or taken
  job,     \* where each caller is
  calls,   \* calls that have taken the mutex, numbered in that order
  result,  \* what each of them returned
  seq,     \* the account's sequence on the chain
  log,     \* the account's transactions in blocks, in order
  view,    \* the sequence each remote knows of
  pool     \* each remote's mempool: the account's transactions

client == <<mutex, job, calls, result>>
chain == <<seq, log, view, pool>>
vars == <<client, chain>>

At(pc, call, attempt, sequence, remote) ==
  [pc |-> pc, call |-> call, attempt |-> attempt, seq |-> sequence, remote |-> remote]
Idle == At("idle", 0, 0, 0, 0)
Tx(s) == [call |-> s.call, attempt |-> s.attempt, seq |-> s.seq]

Init ==
  /\ mutex = "free" /\ job = [j \in Job |-> Idle]
  /\ calls = 0 /\ result = [c \in Call |-> "none"]
  /\ seq = 0 /\ log = <<>>
  /\ view = [r \in Remote |-> 0] /\ pool = [r \in Remote |-> {}]

-----------------------------------------------------------------------------
(* The client.                                                               *)

Begin(j) ==
  /\ job[j].pc = "idle" /\ calls < MaxCalls
  /\ mutex' = "taken"
  /\ calls' = calls + 1
  /\ job' = [job EXCEPT ![j] = At("prepare", calls + 1, 1, 0, 0)]
  /\ UNCHANGED <<result, chain>>

\* Mutant: the client is not locked.
LockNot(j) == Begin(j)

Lock(j) == mutex = "free" /\ Begin(j)

Return(j, outcome) ==
  /\ mutex' = "free"
  /\ job' = [job EXCEPT ![j] = Idle]
  /\ result' = [result EXCEPT ![job[j].call] = outcome]
  /\ UNCHANGED calls

\* Mutant: the attempts are not counted.
RetryForever(j) ==
  /\ job' = [job EXCEPT ![j] = At("prepare", @.call, @.attempt, 0, 0)]
  /\ UNCHANGED <<mutex, calls, result>>

\* An attempt has failed: the next one, or the call's failure.
Retry(j) ==
  IF job[j].attempt < Attempts
  THEN /\ job' = [job EXCEPT ![j] = At("prepare", @.call, @.attempt + 1, 0, 0)]
       /\ UNCHANGED <<mutex, calls, result>>
  ELSE Return(j, "failed")

\* query: the first remote that answers is believed; QueryAccount's answer is
\* none when all of them fail.
QueryAccount == {view[r] : r \in Remote}

\* PrepareTxFactory and signing; the simulation may fail as well.
Prepare(j) ==
  /\ job[j].pc = "prepare"
  /\ \/ /\ \E s \in QueryAccount :
             job' = [job EXCEPT ![j] = At("broadcast", @.call, @.attempt, s, 1)]
        /\ UNCHANGED <<mutex, calls, result>>
     \/ Retry(j)
  /\ UNCHANGED chain

\* BroadcastTx goes on to the next remote with the same bytes.
NextRemote(j) ==
  IF job[j].remote < Remotes
  THEN /\ job' = [job EXCEPT ![j] = At("broadcast", @.call, @.attempt, @.seq, @.remote + 1)]
       /\ UNCHANGED <<mutex, calls, result>>
  ELSE Retry(j)

\* External: a mempool takes the transaction that comes next, after those it
\* holds.
Accepts(r, t) == t.seq = view[r] + Cardinality(pool[r])

Await(j) ==
  /\ job' = [job EXCEPT ![j] = At("wait", @.call, @.attempt, @.seq, @.remote)]
  /\ UNCHANGED <<mutex, calls, result>>

\* Mutant: the transaction is signed anew for every remote.
BroadcastAnew(j) ==
  /\ job[j].pc = "broadcast"
  /\ LET r == job[j].remote
         t == Tx([job[j] EXCEPT !.seq = view[r]])
     IN \/ Accepts(r, t) /\ pool' = [pool EXCEPT ![r] = @ \cup {t}] /\ (Await(j) \/ NextRemote(j))
        \/ UNCHANGED pool /\ NextRemote(j)
  /\ UNCHANGED <<seq, log, view>>

\* broadcastTx: accepted or held already, then waited for; refused; or the
\* remote does not answer, and may have accepted it.
Broadcast(j) ==
  /\ job[j].pc = "broadcast"
  /\ LET t == Tx(job[j])
         r == job[j].remote
         added == [pool EXCEPT ![r] = @ \cup {t}]
     IN \/ Accepts(r, t) /\ pool' = added /\ (Await(j) \/ NextRemote(j))
        \/ t \in pool[r] /\ UNCHANGED pool /\ Await(j)
        \/ UNCHANGED pool /\ NextRemote(j)
  /\ UNCHANGED <<seq, log, view>>

\* What a remote that has caught up with it shows of a transaction.
Shown(r, t) == {i \in DOMAIN log : log[i].tx = t /\ t.seq < view[r]}

\* Mutant: a transaction in a block has succeeded.
WaitForTxAny(j) ==
  /\ job[j].pc = "wait"
  /\ \/ Shown(job[j].remote, Tx(job[j])) # {} /\ Return(j, "ok")
     \/ NextRemote(j)
  /\ UNCHANGED chain

\* waitForTx: found in a block, by its code; or the deadline passes.
WaitForTx(j) ==
  /\ job[j].pc = "wait"
  /\ \/ /\ \E i \in Shown(job[j].remote, Tx(job[j])) : log[i].ok
        /\ Return(j, "ok")
     \/ NextRemote(j)
  /\ UNCHANGED chain

-----------------------------------------------------------------------------
(* External: the chain and the remotes.                                      *)

\* A block takes the transaction whose sequence is next; its messages may fail,
\* the sequence is used all the same.
Include ==
  /\ \E r \in Remote : \E t \in pool[r] : \E ok \in BOOLEAN :
       /\ t.seq = seq
       /\ log' = Append(log, [tx |-> t, ok |-> ok])
  /\ seq' = seq + 1
  /\ UNCHANGED <<client, view, pool>>

\* A remote catches up, and drops what can no longer be included.
Sync(r) ==
  /\ view[r] < seq
  /\ view' = [view EXCEPT ![r] = seq]
  /\ pool' = [pool EXCEPT ![r] = {t \in @ : t.seq >= seq}]
  /\ UNCHANGED <<client, seq, log>>

Gossip(r) ==
  /\ \E q \in Remote : \E t \in pool[q] :
       Accepts(r, t) /\ pool' = [pool EXCEPT ![r] = @ \cup {t}]
  /\ UNCHANGED <<client, seq, log, view>>

\* A mempool loses what it holds.
Drop(r) ==
  /\ pool[r] # {}
  /\ pool' = [pool EXCEPT ![r] = {}]
  /\ UNCHANGED <<client, seq, log, view>>

Step(j) == Prepare(j) \/ Broadcast(j) \/ WaitForTx(j)

Next ==
  \/ \E j \in Job : Lock(j) \/ Step(j)
  \/ Include
  \/ \E r \in Remote : Sync(r) \/ Gossip(r) \/ Drop(r)

Spec == Init /\ [][Next]_vars

\* The goroutine that is in Tx keeps running: every query, broadcast and wait
\* has its timeout.  Nothing is asked of the chain or the remotes.
FairSpec == Spec /\ \A j \in Job : WF_vars(Step(j))

-----------------------------------------------------------------------------

\* Messages reach the chain in the order of the calls: once a later call's
\* transaction is in a block, none of an earlier call's follows, however late
\* a transaction given up on comes through, so an older status or an older
\* usage report never overwrites a newer one.
NoOvertaking ==
  \A i, k \in DOMAIN log : i < k => log[i].tx.call <= log[k].tx.call

\* Tx returns without an error only if the messages were carried out.
OkExecuted ==
  \A c \in Call : result[c] = "ok" => \E i \in DOMAIN log : log[i].tx.call = c /\ log[i].ok

\* An attempt's messages are carried out at most once, although its bytes are
\* given to every remote; a call's as many times as it makes attempts.
OncePerAttempt ==
  \A i, k \in DOMAIN log :
    log[i].tx.call = log[k].tx.call /\ log[i].tx.attempt = log[k].tx.attempt => i = k

\* Every call returns, whatever the remotes do, and lets the next one in.
Returns == \A j \in Job : (job[j].pc # "idle") ~> (job[j].pc = "idle")
=============================================================================
