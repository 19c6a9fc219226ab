----------------------------- MODULE Bandwidth ------------------------------
(***************************************************************************)
(* The bandwidth the node advertises (libs/bandwidth): declared, measured, *)
(* or read back from the last measurement.                                 *)
(*                                                                         *)
(* A speed-test server is what it shows: one quick latency, then the mean  *)
(* and minimum of an accurate ping, then a rate per direction.  A latency  *)
(* or a rate of zero is a failure.  `budget' is the number of exchanges    *)
(* with the servers that the deadline leaves time for.                     *)
(***************************************************************************)
EXTENDS Integers, Sequences, FiniteSetsExt

CONSTANTS
  sameFacilityFloor, sameBuildingFloor,   \* latency floors
  refineBatch, refineLimit, wantQualifying, maxQualifying, maxSamples,
  cacheTTL,                               \* age at which a figure is remeasured
  NoCache                                 \* no file, or a file that is unreadable

ASSUME BandwidthAssumption ==
  /\ sameBuildingFloor \in Nat
  /\ sameFacilityFloor \in Nat
  /\ sameBuildingFloor <= sameFacilityFloor
  /\ refineBatch \in Nat \ {0} /\ maxQualifying \in Nat \ {0}
  /\ {refineLimit, wantQualifying, maxSamples, cacheTTL} \subseteq Nat

\* `key' is the sponsor and city in lower case.
Server(key, quick, mean, min, up, down) ==
  [key |-> key, quick |-> quick, mean |-> mean, min |-> min,
   up |-> up, down |-> down]
Servers ==
  [key: STRING, quick: Nat, mean: Nat, min: Nat, up: Nat, down: Nat]

Result(up, down, source) == [up |-> up, down |-> down, source |-> source]
NoResult == Result(0, 0, "none")

-----------------------------------------------------------------------------
(* Choosing the servers.                                                   *)

\* The servers at the positions `at' of a list, in the list's order.
Only(list, at) ==
  LET nth(n) == CHOOSE i \in at : Cardinality({j \in at : j < i}) = n - 1
  IN [n \in 1..Cardinality(at) |-> list[nth(n)]]

\* A stable sort by one of a server's latencies.
SortByLatency(list, latency) ==
  LET before(i, j) ==
        \/ list[i][latency] < list[j][latency]
        \/ list[i][latency] = list[j][latency] /\ i < j
      rank(i) == Cardinality({j \in DOMAIN list : before(j, i)})
  IN [n \in DOMAIN list |->
        list[CHOOSE i \in DOMAIN list : rank(i) = n - 1]]

\* The servers that answer, nearest first.
Reachable(servers) ==
  SortByLatency(Only(servers, {i \in DOMAIN servers : servers[i].quick > 0}),
                "quick")

CountClearing(list, floor) ==
  Cardinality({i \in DOMAIN list : list[i].min >= floor})

Smaller(a, b) == IF a < b THEN a ELSE b

\* The batches of the nearest servers that are refined, in order.
Batches(n) ==
  LET limit == Smaller(n, refineLimit)
  IN [b \in 1..((limit + refineBatch - 1) \div refineBatch) |->
        <<(b - 1) * refineBatch + 1, Smaller(b * refineBatch, limit)>>]

\* One batch.  Refining stops once enough servers clear the floor, or the time
\* is up.
RefineStep(acc, batch, budget) ==
  IF acc.done THEN acc
  ELSE LET answered == {i \in DOMAIN batch : batch[i].mean > 0 /\ batch[i].min > 0}
           more == acc.list \o Only(batch, answered)
       IN [list |-> more, calls |-> acc.calls + 1,
           done |-> \/ CountClearing(more, sameFacilityFloor) >= wantQualifying
                    \/ acc.calls + 1 >= budget]

Refine(reachable, budget) ==
  LET batches == Batches(Len(reachable))
      acc[b \in 0..Len(batches)] ==
        IF b = 0 THEN [list |-> <<>>, calls |-> 0, done |-> FALSE]
        ELSE RefineStep(acc[b - 1],
                        SubSeq(reachable, batches[b][1], batches[b][2]), budget)
  IN acc[Len(batches)]

\* Mutant: two servers of one sponsor and city are taken for two paths.
ShortlistStepRepeats(acc, c, floor) ==
  IF c.min < floor \/ Len(acc) = maxQualifying THEN acc ELSE Append(acc, c)

\* Up to maxQualifying servers above the floor, one per sponsor and city.
ShortlistStep(acc, c, floor) ==
  IF \/ c.min < floor
     \/ Len(acc) = maxQualifying
     \/ \E i \in DOMAIN acc : acc[i].key = c.key
  THEN acc ELSE Append(acc, c)

Shortlist(list, floor) ==
  LET acc[n \in 0..Len(list)] ==
        IF n = 0 THEN <<>> ELSE ShortlistStep(acc[n - 1], list[n], floor)
  IN acc[Len(list)]

-----------------------------------------------------------------------------
(* Measuring.                                                              *)

Least(samples, rate) == Min({samples[i][rate] : i \in DOMAIN samples})
Most(samples, rate) == Max({samples[i][rate] : i \in DOMAIN samples})

\* agreementRatio: the least is at least 0.7 of the most, in both directions.
Agree(samples) ==
  /\ Len(samples) >= 2
  /\ 10 * Least(samples, "up") >= 7 * Most(samples, "up")
  /\ 10 * Least(samples, "down") >= 7 * Most(samples, "down")

\* One test.  A failed one or an empty result is passed over.
SampleStep(acc, c, budget) ==
  IF acc.done THEN acc
  ELSE IF acc.calls >= budget THEN [acc EXCEPT !.done = TRUE]
  ELSE IF c.up = 0 \/ c.down = 0 THEN [acc EXCEPT !.calls = @ + 1]
  ELSE LET more == Append(acc.got, c)
       IN [got |-> more, calls |-> acc.calls + 1,
           done |-> Len(more) >= maxSamples \/ Agree(more)]

Samples(list, calls, budget) ==
  LET acc[n \in 0..Len(list)] ==
        IF n = 0 THEN [got |-> <<>>, calls |-> calls, done |-> FALSE]
        ELSE SampleStep(acc[n - 1], list[n], budget)
  IN acc[Len(list)].got

\* What is measured: the servers above the floor, or above the lower one when
\* none is.  `servers' is the list as the service sends it.
Measured(servers, budget) ==
  LET pinged == Refine(Reachable(servers), budget)
      refined == SortByLatency(pinged.list, "mean")
      strict == Shortlist(refined, sameFacilityFloor)
      list == IF strict # <<>> THEN strict
              ELSE Shortlist(refined, sameBuildingFloor)
  IN Samples(list, pinged.calls, budget)

\* The lowest of the samples, per direction.
Aggregate(samples) ==
  IF samples = <<>> THEN NoResult
  ELSE Result(Least(samples, "up"), Least(samples, "down"), "speedtest")

-----------------------------------------------------------------------------
(* The cache.                                                              *)

CacheEntry(ip, result, now) ==
  [ip |-> ip, up |-> result.up, down |-> result.down, at |-> now]

CachedResult(cached) == Result(cached.up, cached.down, "speedtest")

\* Whether the cached figure is used without measuring.
Reusable(cached, ip, now) ==
  cached # NoCache /\ cached.ip = ip /\ now - cached.at < cacheTTL

\* Mutant: a cached figure stands in for a failed measurement wherever it was taken.
AfterMeasureAnywhere(cached, ip, result) ==
  IF result.source = "none" /\ cached # NoCache
  THEN CachedResult(cached) ELSE result

\* After a measurement that failed, the cached figure at any age.
AfterMeasure(cached, ip, result) ==
  IF result.source = "none" /\ cached # NoCache /\ cached.ip = ip
  THEN CachedResult(cached) ELSE result
=============================================================================
