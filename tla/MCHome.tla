------------------------------- MODULE MCHome -------------------------------
(***************************************************************************)
(* An instance of Home: two ports, paddings that meet, keys whose derived  *)
(* networks meet (and whose next /24 wraps), files of earlier releases.    *)
(***************************************************************************)
EXTENDS Home

MCDigest ==
  [k \in 1..6 |->
     CASE k \in {1, 3, 4} -> [b0 |-> 240, b1 |-> 255, id |-> 10 + k]
       [] k = 2 -> [b0 |-> 0, b1 |-> 255, id |-> 8]
       [] OTHER -> [b0 |-> 5, b1 |-> 9, id |-> 10 + k]]

MCHeaderDraws == {<<5, 6, 7, 8>>, <<5, 5, 6, 7>>}

MCKinds == {"wireguard", "amneziawg", "openvpn", "xray", "v2ray", "hysteria2"}

Set(setting, value) == [setting |-> setting, value |-> value]

MCEdits ==
  [wireguard |-> {Set("private_key", 0), Set("listen_port", 1024)},
   amneziawg |->
     {Set("v3_private_key", 1), Set("private_key", 2), Set("v3_listen_port", 1024),
      Set("ipv4_subnet", <<Subnet(11 * 65536 + 7, 16, 32, TRUE)>>),
      Set("v3_ipv4_subnet", <<Subnet(11 * 65536 + 255 * 256, 28, 32, TRUE)>>),
      Set("v3_ipv6_subnet", <<Subnet(13 * 65536 + 16, 124, 128, TRUE)>>),
      Set("s", <<16, 72, 0, 0>>), Set("v3_h", <<5, 5, 6, 7>>)},
   openvpn |-> {Set("proto", "tcp"), Set("proto", "sctp")},
   xray |-> {Set("security", "reality"), Set("private_key", 1),
             Set("public_key", 1)},
   v2ray |-> {Set("tls", TRUE), Set("api_port", 1024)},
   hysteria2 |-> {Set("up", "ok"), Set("down", "ok"), Set("stats_port", 1024)}]

\* WireGuard without a key, AmneziaWG before the 3.1 tier, Xray with reality
\* before its keys were set, v2ray before its API port, hysteria without one.
MCLegacyFiles ==
  [wireguard |-> {[interface |-> "wg0", listen_port |-> 1024,
                   private_key |-> Missing]},
   amneziawg |->
     {[f \in DOMAIN AmneziaWGStatic |->
         CASE f = "private_key" -> 1 [] f = "listen_port" -> 1024
           [] OTHER -> Missing]},
   openvpn |-> {},
   xray |-> {[f \in {"listen_port", "security", "server_name", "private_key",
                     "public_key", "short_id", "fingerprint", "api_port"} |->
                IF f = "security" THEN "reality" ELSE Missing]},
   v2ray |-> {[listen_port |-> 1024, tls |-> FALSE, transport |-> "tcp",
               api_port |-> Missing]},
   hysteria2 |-> {[listen_port |-> 1024, obfs_password |-> "", up |-> "",
                   down |-> "", auth_port |-> 1024, stats_port |-> Missing]}]
=============================================================================
