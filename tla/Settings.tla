------------------------------ MODULE Settings ------------------------------
(***************************************************************************)
(* The node's configuration file (types/config.go): its defaults, what     *)
(* Validate accepts, and what the rest of the node does with each value.   *)
(*                                                                         *)
(* A configuration is a function of its settings.  Text is the class the   *)
(* code tells apart: "" is empty, "bad" does not parse.  Durations are in  *)
(* seconds, moniker is its length.                                         *)
(***************************************************************************)
EXTENDS Integers, Sequences, TLC, GeoIP

CONSTANT NaN   \* a floating-point value that is no number

MinPeers == 1
MaxPeers == 250
MaxBandwidthMbps == 1000000
MaxIntervalUpdateSessions == 2 * 3600 - 300
MaxIntervalUpdateStatus == 3600 - 300

\* The registry: the names it knows, and those with a tunnel the Handshake
\* resolver can listen in.
NodeTypes ==
  {"wireguard", "amneziawg", "openvpn", "xray", "v2ray", "hysteria2"}
HandshakeDNS == {"wireguard", "amneziawg", "openvpn"}

RPC(scheme, loopback, port) ==
  [scheme |-> scheme, loopback |-> loopback, port |-> port]

\* What a file may hold, valid or not.
Config ==
  [download_mbps: Int \cup {NaN}, upload_mbps: Int \cup {NaN},
   gas: Int, gas_adjustment: Int, gas_prices: STRING, id: STRING,
   rpc_addresses: Seq([scheme: STRING, loopback: BOOLEAN, port: BOOLEAN]),
   rpc_query_timeout: Int, rpc_tx_timeout: Int, allow_smtp: BOOLEAN,
   provider: STRING, url: STRING, token: STRING, city: STRING,
   country: CountryText, latitude: Int, longitude: Int,
   handshake: BOOLEAN, peers: Int,
   backend: STRING, from: STRING, granter: STRING,
   interval_set_sessions: Int, interval_update_sessions: Int,
   interval_update_status: Int, ipv4_address: STRING, listen_on: STRING,
   moniker: Nat, gigabyte_prices: STRING, hourly_prices: STRING,
   remote_url: STRING, type: STRING, max_peers: Int]

\* WithDefaultValues, section by section.  The moniker, the prices and the
\* remote URL are left for the operator.
BandwidthDefaults == [download_mbps |-> 0, upload_mbps |-> 0]

ChainDefaults ==
  [gas |-> 200000, gas_adjustment |-> 105, gas_prices |-> "ok",
   id |-> "sentinelhub-2", rpc_addresses |-> <<RPC("https", FALSE, TRUE)>>,
   rpc_query_timeout |-> 10, rpc_tx_timeout |-> 30]

EgressDefaults == [allow_smtp |-> FALSE]

GeoIPDefaults ==
  [provider |-> "auto", url |-> "", token |-> "", city |-> "",
   country |-> "", latitude |-> 0, longitude |-> 0]

HandshakeDefaults == [handshake |-> FALSE, peers |-> 8]

KeyringDefaults == [backend |-> "file", from |-> "operator", granter |-> ""]

NodeDefaults ==
  [interval_set_sessions |-> 10,
   interval_update_sessions |-> MaxIntervalUpdateSessions,
   interval_update_status |-> MaxIntervalUpdateStatus,
   ipv4_address |-> "", listen_on |-> "0.0.0.0:port", moniker |-> 0,
   gigabyte_prices |-> "", hourly_prices |-> "", remote_url |-> "",
   type |-> "wireguard"]

QOSDefaults == [max_peers |-> MaxPeers]

DefaultConfig ==
  BandwidthDefaults @@ ChainDefaults @@ EgressDefaults @@ GeoIPDefaults
    @@ HandshakeDefaults @@ KeyringDefaults @@ NodeDefaults @@ QOSDefaults

-----------------------------------------------------------------------------
(* Validate, section by section.                                           *)

BandwidthValid(c) ==
  /\ \A v \in {c.download_mbps, c.upload_mbps} :
       v # NaN /\ v >= 0 /\ v <= MaxBandwidthMbps
  /\ (c.download_mbps > 0) = (c.upload_mbps > 0)

\* Plain http is accepted on loopback only.
ChainValid(c) ==
  /\ c.gas > 0
  /\ c.gas_adjustment > 0
  /\ c.gas_prices # "bad"
  /\ c.id # ""
  /\ c.rpc_addresses # <<>>
  /\ \A i \in DOMAIN c.rpc_addresses :
       LET a == c.rpc_addresses[i]
       IN /\ a.scheme \in {"http", "https"}
          /\ a.scheme = "http" => a.loopback
          /\ a.port
  /\ c.rpc_query_timeout # 0
  /\ c.rpc_tx_timeout # 0

GeoIPValid(c) ==
  /\ c.provider \in Providers \cup {"auto", "none"}
  /\ c.url # "" => c.provider \notin {"auto", "none"} /\ c.url # "bad"
  /\ c.provider = "ipinfo" => c.token # ""
  /\ c.provider \notin {"ipinfo", "ip2location"} => c.token = ""
  /\ c.latitude \in -90..90
  /\ c.longitude \in -180..180

HandshakeValid(c) == c.handshake => c.peers > 0

KeyringValid(c) ==
  /\ c.backend \in {"file", "test"}
  /\ c.from # ""
  /\ c.granter # "bad"

NodeValid(c) ==
  /\ c.interval_set_sessions \in 2..120
  /\ c.interval_update_sessions \in 10..MaxIntervalUpdateSessions
  /\ c.interval_update_status \in 10..MaxIntervalUpdateStatus
  /\ c.ipv4_address \notin {"bad", "v6"}
  /\ c.listen_on # ""
  /\ c.moniker \in 4..32
  /\ c.gigabyte_prices \notin {"", "bad"}
  /\ c.hourly_prices \notin {"", "bad"}
  /\ c.remote_url \notin {"", "bad", "http", "no port"}
  /\ c.type \in NodeTypes

QOSValid(c) == c.max_peers \in MinPeers..MaxPeers

\* Mutant: the sections, without what one section asks of another.
ValidateSections(c) ==
  /\ BandwidthValid(c)
  /\ ChainValid(c)
  /\ GeoIPValid(c)
  /\ HandshakeValid(c)
  /\ KeyringValid(c)
  /\ NodeValid(c)
  /\ QOSValid(c)

Validate(c) ==
  /\ ValidateSections(c)
  /\ c.provider = "none" => c.ipv4_address # ""
  /\ c.handshake => c.type \in HandshakeDNS

-----------------------------------------------------------------------------
(* What fails later on a value Validate did not stop.                      *)

\* The accessors of the context panic on prices and a remote URL that do not
\* parse; a ticker panics on an interval that is not positive, which ends its
\* job and with it the node.  An empty price list parses.
Panics(c) ==
  \/ c.gigabyte_prices = "bad"
  \/ c.hourly_prices = "bad"
  \/ c.remote_url = "bad"
  \/ c.interval_set_sessions <= 0
  \/ c.interval_update_sessions <= 0
  \/ c.interval_update_status <= 0

\* The address clients are told: the configured one, else the looked-up one;
\* none when it is no IPv4 address.
IPv4Address(c, ip) ==
  LET addr == IF c.ipv4_address # "" THEN c.ipv4_address ELSE ip
  IN IF addr \in {"", "bad", "v6"} THEN <<>> ELSE <<addr>>

\* Never update less often than 80% of the chain's timeout.
Clamp(interval, timeout) ==
  LET limit == (timeout * 4) \div 5
  IN IF limit > 0 /\ interval > limit THEN limit ELSE interval
=============================================================================
