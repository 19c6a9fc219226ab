----------------------------- MODULE MCStartup ------------------------------
(***************************************************************************)
(* Startup for TLC: a valid configuration with one or two settings changed,*)
(* two hosts, the answers the location sources may give, a few sets of     *)
(* speed-test servers and of grants.                                       *)
(***************************************************************************)
EXTENDS Startup, TLC

Base ==
  [DefaultConfig EXCEPT !.moniker = 8, !.gigabyte_prices = "ok",
                        !.hourly_prices = "ok", !.remote_url = "ok",
                        !.country = ""]

\* Valid ones, and ones that Validate refuses and a start may skip.
MCConfigs ==
  {Base, DefaultConfig,
   [Base EXCEPT !.provider = "none"],
   [Base EXCEPT !.provider = "none", !.ipv4_address = "9.9.9.9"],
   [Base EXCEPT !.ipv4_address = "9.9.9.9", !.upload_mbps = 100,
                !.download_mbps = 100],
   [Base EXCEPT !.ipv4_address = "v6", !.upload_mbps = NaN,
                !.download_mbps = 100],
   [Base EXCEPT !.country = "Aland", !.city = "Town"],
   [Base EXCEPT !.provider = "cloudflare"],
   [Base EXCEPT !.provider = "ipinfo", !.token = "t", !.country = "ax"],
   [Base EXCEPT !.provider = "ip-api", !.country = "Benin"],
   [Base EXCEPT !.provider = "ip2location", !.handshake = TRUE],
   [Base EXCEPT !.handshake = TRUE, !.type = "trojan"],
   [Base EXCEPT !.gas_prices = "bad"],
   [Base EXCEPT !.hourly_prices = "bad", !.provider = "maxmind"],
   [Base EXCEPT !.interval_set_sessions = 0, !.provider = "ipify"],
   [Base EXCEPT !.interval_update_status = 0, !.provider = "ipwhois"],
   [Base EXCEPT !.granter = "bad"],
   [Base EXCEPT !.granter = "self"],
   [Base EXCEPT !.granter = "other", !.provider = "ipify"]}

MCTimeouts ==
  {[status |-> 0, sessions |-> 7], [status |-> 3600, sessions |-> 0]}

Lasting(e) == [m \in NodeMsgs |-> [expiry |-> e]]
Limit(n) == [d \in {"udvpn"} |-> n]
MCPrintedLimit == Limit(500)
Held(grants, allowance) == [grants |-> grants, allowance |-> allowance]

\* No grants, one missing, one that expires first, and every way in which the
\* fee allowance can fall short.
MCGrantSets ==
  {Held([m \in NodeMsgs |-> Never], Never),
   Held([Lasting(Never) EXCEPT !["details"] = Never], Basic(Never, Never)),
   Held([Lasting(9) EXCEPT !["status"] = [expiry |-> 2]], Basic(9, Never)),
   Held(Lasting(9), Never),
   Held(Lasting(9), AllowedMsg(FALSE, Basic(9, Never))),
   Held(Lasting(Never), Basic(Never, Limit(1000000)))} \cup
  {Held(Lasting(9), AllowedMsg(TRUE, Basic(1, Limit(n)))) :
     n \in {0, 1, 500}}

Failed == Reply(FALSE, FALSE, "", "", "", "")

\* What a source says of an address: it fails, says that it failed, knows the
\* address alone, or knows the country, in one shape or another.
Answers(ip) ==
  {Reply(TRUE, FALSE, ip, "", "", ""),
   Reply(TRUE, TRUE, ip, "", "", ""),
   Reply(TRUE, TRUE, ip, "Town", "Aland", "AX"),
   Reply(TRUE, TRUE, ip, "Town", "ax", "")}

\* Cloudflare sends a code and no name.
Traces(ip) ==
  {Reply(TRUE, TRUE, "", "", "", ""),
   Reply(TRUE, TRUE, ip, "", "", "XX"), Reply(TRUE, TRUE, ip, "", "", "BJ")}

MCRepliesAt(ip) ==
  {[n \in Providers |->
      CASE n = "ipwhois" -> a [] n = "cloudflare" -> t
        [] n = "ipify" -> IF a.success THEN Failed ELSE b [] OTHER -> b] :
     a \in Answers(ip), b \in Answers(ip), t \in Traces(ip)} \cup
  {[n \in Providers |-> Failed]}

\* In a city with one server next door; a data centre full of near ones; two of
\* one sponsor; servers that fail the ping or the test.
MCServerLists ==
  LET near == Server("near", 1, 1, 0, 900, 900)
      rack == Server("rack", 1, 2, 1, 900, 800)
      low == Server("low", 2, 3, 1, 500, 500)
      a == Server("a", 3, 4, 3, 100, 90)
      b == Server("b", 4, 5, 4, 60, 95)
      b2 == Server("b", 5, 6, 5, 60, 200)
      dead == Server("dead", 2, 0, 0, 0, 0)
      gone == Server("gone", 0, 9, 9, 50, 50)
      idle == Server("idle", 3, 4, 3, 0, 40)
  IN {<<near, low, a>>, <<rack, low, near>>, <<near, dead>>, <<b2, a, b, gone>>,
      <<b, b2>>, <<dead, idle, rack, b>>}
=============================================================================
