------------------------------ MODULE Startup -------------------------------
(***************************************************************************)
(* A node's start, up to the VPN service (cmd/start.go): the configuration *)
(* is read and checked, the signing key and its grants are looked up on    *)
(* the chain, the intervals are fitted to the chain's timeouts, the public *)
(* address and location are found, the bandwidth is measured or read back. *)
(* Every step may fail, the process may crash anywhere, and starts repeat  *)
(* while time passes and the host moves to another address.                *)
(*                                                                         *)
(* node.seen is what the last step saw of the outside world; it is         *)
(* forgotten at the next one.  node.unchecked marks a configuration that   *)
(* Validate refuses and that was started all the same                      *)
(* (--skip-config-validation).  Time is in weeks.                          *)
(***************************************************************************)
EXTENDS Settings, Bandwidth, Grants

CONSTANTS
  Configs,         \* configuration files
  GrantSets,       \* what the chain may hold for the hot key
  ValidFor, PrintedLimit,   \* the flags of keys authz-commands
  Timeouts,        \* the chain's status_timeout of nodes and of sessions, in
                   \* seconds
  Places,          \* public addresses the host may have
  RepliesAt(_),    \* what the sources may answer at an address
  ServerLists,     \* the speed-test servers around
  Budgets,         \* exchanges the deadline leaves time for
  MaxTime,
  Nothing          \* no location, no result, nothing seen

ASSUME StartupAssumption == TxFee \in Nat \ {0} /\ MaxTime \in Nat
ASSUME ConfigsAssumption == Configs \subseteq Config

\* 80% of a second is no whole second.
ASSUME TimeoutsAssumption ==
  Timeouts \subseteq [status: Nat \ {1}, sessions: Nat \ {1}]

\* External: a source that answers saw the host's IPv4 address (the requests are
\* made over tcp4), and what it says of the country does not contradict itself.
OneCountry(country, code) ==
  "" \in {country, code} \/ CodeOf(country) = CodeOf(code)
Sources ==
  [Providers -> [up: BOOLEAN, success: BOOLEAN, ip: STRING, city: STRING,
                 country: CountryText, code: CountryText]]
ASSUME RepliesAssumption ==
  \A p \in Places :
    /\ p \notin {"", "bad", "v6"}
    /\ \A replies \in RepliesAt(p) :
         /\ replies \in Sources
         /\ \A n \in Providers :
              LET answer == Fetch(n, replies[n])
              IN /\ answer # <<>> => answer[1].ip = p
                 /\ OneCountry(replies[n].country, replies[n].code)

ASSUME GrantsAssumption == GrantSets \subseteq Granted
ASSUME ServersAssumption == ServerLists \subseteq Seq(Servers)

\* --spend-limit must name an amount; its default is one of udvpn.
ASSUME PrintedAssumption ==
  /\ ValidFor \in Nat
  /\ PrintedLimit \in SpendLimit
  /\ "udvpn" \in DOMAIN PrintedLimit /\ PrintedLimit["udvpn"] # 0
  /\ Never # PrintedLimit
  /\ \A t \in 0..MaxTime :
       Never \notin {[expiry |-> t + ValidFor],
                     PrintedAllowance(t, ValidFor, PrintedLimit)}

VARIABLES
  now, place,
  cache,           \* bandwidth.json
  node             \* the process

vars == <<now, place, cache, node>>

Off == [pc |-> "off", why |-> "", unchecked |-> FALSE, config |-> Nothing,
        location |-> Nothing, result |-> Nothing, seen |-> Nothing]

Init ==
  /\ now = 0
  /\ place \in Places
  /\ cache = NoCache
  /\ node = Off

To(pc, seen) == node' = [node EXCEPT !.pc = pc, !.seen = seen]
Fail(why, seen) ==
  node' = [node EXCEPT !.pc = "failed", !.why = why, !.seen = seen]

-----------------------------------------------------------------------------
(* The steps of StartCmd.                                                  *)

\* The configuration, the registry and the client, which panics on gas prices
\* that do not parse.
Boot ==
  /\ node.pc = "off"
  /\ \E c \in Configs, skip \in BOOLEAN :
       LET why == CASE ~skip /\ ~Validate(c) -> "config"
                    [] (skip \/ Validate(c)) /\ c.type \notin NodeTypes ->
                         "type"
                    [] (skip \/ Validate(c)) /\ c.type \in NodeTypes
                         /\ c.gas_prices = "bad" -> "panic"
                    [] OTHER -> ""
       IN node' = [Off EXCEPT !.pc = IF why = "" THEN "client" ELSE "failed",
                              !.why = why, !.unchecked = ~Validate(c),
                              !.config = c]
  /\ UNCHANGED <<now, place, cache>>

\* The granter, and the account on the chain.
QueryAccount ==
  /\ node.pc = "client"
  /\ \/ /\ node.config.granter \in {"bad", "self"}
        /\ Fail("granter", Nothing)
     \/ /\ node.config.granter \notin {"bad", "self"}
        /\ \/ Fail("chain", Nothing)
           \/ To(IF node.config.granter = "" THEN "params" ELSE "grants",
                 Nothing)
  /\ UNCHANGED <<now, place, cache>>

\* The grants as keys authz-commands printed them at some earlier time.
Printed ==
  {[grants |-> PrintedGrants(t, ValidFor),
    allowance |-> PrintedAllowance(t, ValidFor, PrintedLimit),
    until |-> t + ValidFor] : t \in 0..now}

Fees(c) ==
  ExpectedFees(c.gas_prices,
               <<c.interval_update_status, c.interval_update_sessions>>)

CheckGrants ==
  /\ node.pc = "grants"
  /\ \/ Fail("chain", Nothing)
     \/ \E g \in GrantSets \cup Printed :
          LET quiet == Warnings(now, g.grants, g.allowance,
                                Fees(node.config)) = {}
              seen == [granted |-> g, quiet |-> quiet]
          IN IF Problems(now, g.grants, g.allowance, Fees(node.config)) # {}
             THEN Fail("grants", seen) ELSE To("params", seen)
  /\ UNCHANGED <<now, place, cache>>

\* The intervals of the jobs, each fitted to its timeout.
QueryParams ==
  /\ node.pc = "params"
  /\ \/ Fail("chain", Nothing)
     \/ \E t \in Timeouts :
          node' = [node EXCEPT
            !.pc = "locate",
            !.config.interval_update_status = Clamp(@, t.status),
            !.config.interval_update_sessions = Clamp(@, t.sessions),
            !.seen = t]
  /\ UNCHANGED <<now, place, cache>>

Locating ==
  /\ node.pc = "locate"
  /\ \E replies \in RepliesAt(place) :
       LET c == node.config
           found == Locate(c.provider, replies, c.ipv4_address, c.country,
                           c.city)
           answer(n) == Fetch(n, replies[n])
           seen == [answered |-> {n \in AutoSources : answer(n) # <<>>},
                    placed |-> {n \in AutoSources : Placed(answer(n))}]
       IN IF found = <<>> THEN Fail("location", seen)
          ELSE node' = [node EXCEPT !.pc = "measure", !.location = found[1],
                                    !.seen = seen]
  /\ UNCHANGED <<now, place, cache>>

Declared(c) == c.upload_mbps \notin {0, NaN} /\ c.download_mbps \notin {0, NaN}

\* A figure that needs no measurement.
MeasureNot ==
  /\ node.pc = "measure"
  /\ \/ /\ Declared(node.config)
        /\ node' = [node EXCEPT !.pc = "service", !.seen = Nothing,
             !.result = Result(node.config.upload_mbps,
                               node.config.download_mbps, "config")]
     \/ /\ ~Declared(node.config)
        /\ Reusable(cache, node.location.ip, now)
        /\ node' = [node EXCEPT !.pc = "service", !.seen = Nothing,
                                !.result = CachedResult(cache)]
  /\ UNCHANGED <<now, place, cache>>

\* What a measurement comes to; the list may not be had at all.
Measurement(servers, budget) ==
  [samples |-> Measured(servers, budget),
   far |-> CountClearing(Refine(Reachable(servers), budget).list,
                         sameFacilityFloor) > 0]
Measurements ==
  {Measurement(servers, budget) :
     servers \in ServerLists \cup {<<>>}, budget \in Budgets}
ASSUME NothingAssumption == Nothing \notin Measurements

\* A measurement, and what is kept of it.  The write may fail before the file
\* is touched, or leave an unreadable one.
Measure ==
  /\ node.pc = "measure"
  /\ ~Declared(node.config)
  /\ ~Reusable(cache, node.location.ip, now)
  /\ \E m \in Measurements :
       LET fresh == Aggregate(m.samples)
       IN /\ IF fresh.source = "speedtest"
             THEN cache' \in {CacheEntry(node.location.ip, fresh, now), cache,
                              NoCache}
             ELSE UNCHANGED cache
          /\ node' = [node EXCEPT !.pc = "service", !.seen = m,
               !.result = AfterMeasure(cache, node.location.ip, fresh)]
  /\ UNCHANGED <<now, place>>

\* The service comes up, and the node registers itself.
Serve ==
  /\ node.pc = "service"
  /\ \/ Fail("service", Nothing)
     \/ IF Panics(node.config) THEN Fail("panic", Nothing)
        ELSE To("ready", Nothing)
  /\ UNCHANGED <<now, place, cache>>

\* The process ends, from any step.
Exit ==
  /\ node.pc # "off"
  /\ node' = Off
  /\ UNCHANGED <<now, place, cache>>

-----------------------------------------------------------------------------
(* Around the node.                                                        *)

Tick ==
  /\ node.pc = "off"
  /\ now < MaxTime
  /\ now' = now + 1
  /\ UNCHANGED <<place, cache, node>>

\* The home directory goes to another host.
Move ==
  /\ node.pc = "off"
  /\ place' \in Places
  /\ UNCHANGED <<now, cache, node>>

Next ==
  \/ Boot
  \/ QueryAccount
  \/ CheckGrants
  \/ QueryParams
  \/ Locating
  \/ MeasureNot
  \/ Measure
  \/ Serve
  \/ Exit
  \/ Tick
  \/ Move

Spec == Init /\ [][Next]_vars

-----------------------------------------------------------------------------
(* Properties.                                                             *)

Fits(interval, timeout) ==
  interval > 0 /\ (timeout > 0 => 5 * interval <= 4 * timeout)

\* A configuration that was validated never stops a start later on, panics the
\* node, or leaves it without an address to tell clients, whatever the sources
\* answer; and its jobs run, at least once per 80% of the chain's timeouts, also
\* on a chain that sets none (types/config.go Validate against its users).
ValidatedRuns ==
  ~node.unchecked =>
    /\ node.why \notin {"type", "panic"}
    /\ node.why = "granter" => node.config.granter = "self"
    /\ node.why = "location" => node.config.provider # "none"
    /\ node.pc = "ready" => IPv4Address(node.config, node.location.ip) # <<>>
    /\ node.pc = "locate" =>
         /\ Fits(node.config.interval_update_status, node.seen.status)
         /\ Fits(node.config.interval_update_sessions, node.seen.sessions)

\* The automatic lookup gives up only when every source failed and no address
\* is configured (an answer of the chain that names no country counts as a
\* failure), and reports no country only when no source it may ask knew one,
\* however the others fail or answer in part.  And what the node tells does not
\* contradict itself: a name and a code, wherever each came from, are of one
\* country (geoip lookupAuto; applyStatic, "never advertise a code that
\* contradicts the name").
LocationSound ==
  /\ node.config # Nothing /\ node.config.provider = "auto" =>
       /\ node.why = "location" =>
            /\ node.seen.answered \cap {"cloudflare", "ipify"} = {}
            /\ node.seen.placed = {}
            /\ node.config.ipv4_address = ""
       /\ /\ node.pc = "measure" /\ node.config.country = ""
          /\ node.location.code = ""
          => node.seen.placed = {}
  /\ node.location # Nothing =>
       "" \in {node.location.country, node.location.code}
         \/ CodeOf(node.location.country) = CodeOf(node.location.code)

\* The advertised figure is one of this address: just measured, and then never
\* above what any of the measured servers managed; or read back, and then
\* younger than cacheTTL unless a measurement has failed; or none, and then no
\* readable measurement of this address is left (bandwidth.go Measure, "a node
\* moved to another host measures again", "Taking the minimum never overstates").
MeasuredHere ==
  node.pc = "service" =>
    LET s == IF node.seen = Nothing THEN <<>> ELSE node.seen.samples
        here == cache # NoCache /\ cache.ip = node.location.ip
    IN /\ node.result.source = "none" => s = <<>> /\ ~here
       /\ node.result.source = "speedtest" /\ s # <<>> =>
            \A i \in DOMAIN s :
              node.result.up <= s[i].up /\ node.result.down <= s[i].down
       /\ node.result.source = "speedtest" /\ s = <<>> =>
            /\ here /\ node.result = CachedResult(cache)
            /\ node.seen = Nothing => now < cache.at + cacheTTL
       /\ node.result.source \notin {"none", "speedtest"} =>
            Declared(node.config)

\* The servers measured are on paths of their own and off this host's network:
\* one per sponsor and city, none below the lower floor, and none below the
\* floor when an accurately pinged server was above it (bandwidth.go measure,
\* shortlist).
OffThisNetwork ==
  node.pc = "service" /\ node.seen # Nothing =>
    LET s == node.seen.samples
    IN /\ \A i, j \in DOMAIN s : i # j => s[i].key # s[j].key
       /\ \A i \in DOMAIN s :
            s[i].min >= IF node.seen.far THEN sameFacilityFloor ELSE sameBuildingFloor

\* The start's verdict on a hot key is the chain's: refused, some message of
\* the node would fail at once; accepted without a warning, every message is
\* authorised and its fee covered for the whole warning window (lite/grants.go
\* EvaluateGrants).  An operator who made the grants that keys authz-commands
\* printed is not refused before the expiry printed with them (cmd/authz.go).
GrantsJudged ==
  ~node.unchecked /\ node.seen # Nothing /\ "granted" \in DOMAIN node.seen =>
    LET g == node.seen.granted
        ok(m, t) == Authorised(m, t, g.grants, g.allowance,
                               DOMAIN Fees(node.config))
    IN /\ node.why = "grants" =>
            /\ \E m \in NodeMsgs : ~ok(m, now)
            /\ "until" \in DOMAIN g => now >= g.until
       /\ node.why # "grants" /\ node.seen.quiet =>
            \A m \in NodeMsgs, t \in now..(now + GrantWarningWindow - 1) :
              ok(m, t)
=============================================================================
