-------------------------- MODULE ProtocolSettings --------------------------
(***************************************************************************)
(* The configuration file of each protocol (services/<protocol>/types):    *)
(* what "config init" generates, what a file that leaves settings out is   *)
(* completed with, and what Validate accepts.                              *)
(*                                                                         *)
(* A configuration is a record of settings.  A key is a number, zero when  *)
(* it is empty or no key; the public key of k is k.  A port is a number.   *)
(* Other text is the class the code tells apart: "" is empty, "bad" does   *)
(* not parse.  A network is its first address and the length of its        *)
(* prefix; addresses count from the start of 10.0.0.0/8 and of fd00::/8,   *)
(* where a global ID is followed by 16 bits (80 in the code).              *)
(***************************************************************************)
EXTENDS Integers, Sequences, FiniteSets, Functions

CONSTANTS
  Missing,         \* a setting the file does not have
  Ports,           \* the ports RandomPort draws from
  PaddingDraws,    \* what randomUint16 draws for a padding
  HeaderDraws,     \* quadruples of what randomUint32 draws
  Digest           \* a key's SHA-256: the bytes networks are derived from

ASSUME DrawsAssumption ==
  /\ Ports \subseteq 1024..65535
  /\ PaddingDraws \subseteq 15..150
  /\ \A h \in HeaderDraws : h \in [1..4 -> Nat] /\ \A i \in 1..4 : h[i] > 4

ASSUME DigestAssumption ==
  \A k \in DOMAIN Digest : Digest[k] \in [b0: 0..255, b1: 0..255, id: Nat]

ASSUME MissingAssumption ==
  /\ Missing \notin Nat /\ Missing \notin BOOLEAN /\ Missing \notin STRING
  /\ Missing \notin Seq(Nat)

-----------------------------------------------------------------------------
(* Tunnel networks (amneziawg/types/subnet.go).                            *)

derivedIPv4Low == 11
derivedIPv4Span == 240
derivedIPv4Prefix == 24
derivedIPv6Prefix == 120

Network(ip, ones, bits) == [ip |-> ip, ones |-> ones, bits |-> bits]
Size(n) == 2^(n.bits - n.ones)
Contains(n, ip) == ip \div Size(n) = n.ip \div Size(n)
Overlap(a, b) == Contains(a, b.ip) \/ Contains(b, a.ip)
Overlaps(n, o) == Overlap(n.v4, o.v4) \/ Overlap(n.v6, o.v6)

DeriveNetworks(key) ==
  LET sum == Digest[key]
  IN [v4 |-> Network((derivedIPv4Low + (sum.b0 % derivedIPv4Span)) * 65536
                       + sum.b1 * 256, derivedIPv4Prefix, 32),
      v6 |-> Network(sum.id * 65536, derivedIPv6Prefix, 128)]

\* A subnet setting is empty or one subnet; ParseCIDR clears the host bits.
Subnet(ip, ones, bits, private) ==
  [ip |-> ip, ones |-> ones, bits |-> bits, private |-> private]
SubnetValid(s, bits) ==
  /\ s.bits = bits
  /\ s.private
  /\ bits = 32 => s.ones \in 16..28
  /\ bits = 128 => s.ones \in 64..124
ParseSubnet(s) ==
  LET n == Network(s.ip, s.ones, s.bits)
  IN [n EXCEPT !.ip = @ - (@ % Size(n))]

TierNetworksValid(ipv4, ipv6, key) ==
  /\ key # 0
  /\ ipv4 # <<>> => SubnetValid(ipv4[1], 32)
  /\ ipv6 # <<>> => SubnetValid(ipv6[1], 128)
TierNetworks(ipv4, ipv6, key) ==
  LET n == DeriveNetworks(key)
  IN [v4 |-> IF ipv4 = <<>> THEN n.v4 ELSE ParseSubnet(ipv4[1]),
      v6 |-> IF ipv6 = <<>> THEN n.v6 ELSE ParseSubnet(ipv6[1])]

\* The /24 after a network; the third byte wraps.
NextNetwork(n) ==
  [n EXCEPT !.ip = (@ \div 65536) * 65536 + ((@ \div 256 + 1) % 256) * 256]

DefaultTier(c) == TierNetworks(c.ipv4_subnet, c.ipv6_subnet, c.private_key)

\* A derived IPv4 network that meets the default tier's moves once.
V3Tier(c) ==
  LET n == TierNetworks(c.v3_ipv4_subnet, c.v3_ipv6_subnet, c.v3_private_key)
  IN IF c.v3_ipv4_subnet = <<>> /\ Overlap(DefaultTier(c).v4, n.v4)
     THEN [n EXCEPT !.v4 = NextNetwork(@)] ELSE n

\* Mutant: the move is trusted to have separated the tiers.
TunnelNetworksMoved(c) ==
  /\ TierNetworksValid(c.ipv4_subnet, c.ipv6_subnet, c.private_key)
  /\ c.v3_enabled =>
       TierNetworksValid(c.v3_ipv4_subnet, c.v3_ipv6_subnet, c.v3_private_key)

\* Whether TunnelNetworks returns networks.
TunnelNetworks(c) ==
  /\ TierNetworksValid(c.ipv4_subnet, c.ipv6_subnet, c.private_key)
  /\ c.v3_enabled =>
       /\ TierNetworksValid(c.v3_ipv4_subnet, c.v3_ipv6_subnet,
                            c.v3_private_key)
       /\ ~Overlaps(DefaultTier(c), V3Tier(c))

-----------------------------------------------------------------------------
(* Obfuscation parameters (amneziawg/types/config.go).                     *)

V3MinPadding == 12
HeaderKeyLength == 32

ValidatePaddings(s, min) ==
  /\ s[1] <= 1132 /\ s[2] <= 1188 /\ s[3] <= 1132 /\ s[4] <= 1132
  /\ \A i \in 1..4 : s[i] >= min
  /\ s[1] + 56 # s[2]

ValidateHeaders(h, allowZero) ==
  \/ allowZero /\ \A i \in 1..4 : h[i] = 0
  \/ IsInjective(h) /\ \A i \in 1..4 : h[i] > 4

ObfuscationValid(c) ==
  /\ c.junk[1] <= 128
  /\ c.junk[3] <= 1280 /\ c.junk[2] <= c.junk[3]
  /\ ValidatePaddings(c.s, 0)
  /\ ValidateHeaders(c.h, TRUE)
  /\ c.i # "bad"

\* content_padding_addition is a range, or empty when it does not parse.
V3Valid(c) ==
  /\ c.v3_interface \notin {"", c.interface}
  /\ c.v3_listen_port \notin {0, c.listen_port}
  /\ c.v3_private_key # 0
  /\ c.v3_header_key = HeaderKeyLength
  /\ ValidatePaddings(c.v3_s, V3MinPadding)
  /\ ValidateHeaders(c.v3_h, FALSE)
  /\ c.v3_padding # <<>>
  /\ c.v3_padding[2] <= 256 /\ c.v3_padding[1] <= c.v3_padding[2]

\* Mutant: any pair that was drawn.
RandomHandshakePaddingsOnce(min) ==
  {d \in PaddingDraws \X PaddingDraws : d[1] >= min /\ d[2] >= min}

\* The second padding is drawn until the sizes differ.
RandomHandshakePaddings(min) ==
  {d \in PaddingDraws \X PaddingDraws :
     d[1] >= min /\ d[2] >= min /\ d[1] + 56 # d[2]}

\* A value that was drawn before is drawn again.
RandomHeaders == {h \in HeaderDraws : IsInjective(h)}

-----------------------------------------------------------------------------
(* Validate.                                                               *)

WireGuardValid(c) ==
  /\ c.interface # ""
  /\ c.listen_port # 0
  /\ c.private_key # 0

AmneziaWGValid(c) ==
  /\ WireGuardValid(c)
  /\ ObfuscationValid(c)
  /\ c.v3_enabled => V3Valid(c)
  /\ TunnelNetworks(c)

OpenVPNValid(c) ==
  /\ c.interface \notin {"", "bad"}
  /\ c.listen_port # 0
  /\ c.proto \in {"udp", "tcp"}
  /\ c.uplink # "bad"

\* Only reality uses the key pair.
RealityValid(c) ==
  /\ c.server_name \notin {"", "bad"}
  /\ c.private_key # 0
  /\ c.public_key = c.private_key
  /\ c.short_id # "bad"
  /\ c.fingerprint # ""
XRayValid(c) ==
  /\ c.listen_port # 0
  /\ c.security \in {"tls", "reality"}
  /\ c.security = "reality" => RealityValid(c)
  /\ c.api_port # 0

V2RayValid(c) ==
  /\ c.listen_port # 0
  /\ c.transport \notin {"", "bad"}
  /\ c.api_port # 0
  /\ c.api_port # c.listen_port

HysteriaValid(c) ==
  /\ c.listen_port # 0
  /\ c.obfs_password # "bad"
  /\ c.up # "bad" /\ c.down # "bad"
  /\ (c.up = "") = (c.down = "")
  /\ c.auth_port # 0 /\ c.stats_port # 0
  /\ c.auth_port # c.stats_port

-----------------------------------------------------------------------------
(* Generated values.  k is the last key generated so far.                  *)

WireGuardDefaults(k) ==
  [interface: {"wg0"}, listen_port: Ports, private_key: {k + 1}]

\* What a file is completed with: no keys, no parameters, no port.
AmneziaWGStatic ==
  [interface |-> "awg0", listen_port |-> 0, private_key |-> 0,
   ipv4_subnet |-> <<>>, ipv6_subnet |-> <<>>,
   junk |-> <<0, 0, 0>>, s |-> <<0, 0, 0, 0>>, h |-> <<0, 0, 0, 0>>,
   i |-> "", v3_enabled |-> FALSE, v3_interface |-> "awg1",
   v3_listen_port |-> 0, v3_private_key |-> 0, v3_ipv4_subnet |-> <<>>,
   v3_ipv6_subnet |-> <<>>, v3_header_key |-> 0,
   v3_s |-> <<0, 0, 0, 0>>, v3_h |-> <<0, 0, 0, 0>>, v3_padding |-> <<>>]

ObfuscationGenerate ==
  {[junk |-> <<4, 40, 70>>, s |-> <<d[1], d[2], 0, 0>>, h |-> h] :
     d \in RandomHandshakePaddings(15), h \in RandomHeaders}

\* The port is drawn until it is not the default tier's.
V3Generate(defaultPort, k) ==
  {[port |-> port, key |-> k, s |-> <<d[1], d[2], s3, s4>>, h |-> h] :
     port \in Ports \ {defaultPort}, d \in RandomHandshakePaddings(16),
     s3 \in PaddingDraws \cap 16..64, s4 \in PaddingDraws \cap 16..32,
     h \in RandomHeaders}

AmneziaWGDefaults(k) ==
  UNION {{[AmneziaWGStatic EXCEPT
             !.listen_port = port, !.private_key = k + 1,
             !.junk = o.junk, !.s = o.s, !.h = o.h,
             !.v3_enabled = TRUE, !.v3_listen_port = v.port,
             !.v3_private_key = v.key, !.v3_header_key = HeaderKeyLength,
             !.v3_s = v.s, !.v3_h = v.h, !.v3_padding = <<0, 64>>] :
            o \in ObfuscationGenerate, v \in V3Generate(port, k + 2)} :
           port \in Ports}

OpenVPNDefaults ==
  [interface: {"ovpn0"}, listen_port: Ports, proto: {"udp"}, uplink: {""}]

XRayStatic(private, short) ==
  [listen_port: Ports, security: {"tls"}, server_name: {"www.apple.com"},
   private_key: {private}, public_key: {private}, short_id: {short},
   fingerprint: {"chrome"}, api_port: Ports]
XRayDefaults(k) == XRayStatic(k + 1, "ok")

V2RayDefaults ==
  [listen_port: Ports, tls: {FALSE}, transport: {"tcp"}, api_port: Ports]

HysteriaDefaults ==
  {c \in [listen_port: Ports, obfs_password: {""}, up: {""}, down: {""},
          auth_port: Ports, stats_port: Ports] : c.auth_port # c.stats_port}

\* WithDefaultValues: what "config init" may write.
Defaults(kind, k) ==
  CASE kind = "wireguard" -> WireGuardDefaults(k)
    [] kind = "amneziawg" -> AmneziaWGDefaults(k)
    [] kind = "openvpn" -> OpenVPNDefaults
    [] kind = "xray" -> XRayDefaults(k)
    [] kind = "v2ray" -> V2RayDefaults
    [] kind = "hysteria2" -> HysteriaDefaults

\* The keys Defaults generates.
KeysDrawn(kind) ==
  CASE kind = "amneziawg" -> 2
    [] kind \in {"wireguard", "xray"} -> 1
    [] OTHER -> 0

\* Mutant: a file is completed with generated values whatever the protocol.
ReadBaseGenerated(kind, k) == Defaults(kind, k)

\* What ReadInConfig starts from.
ReadBase(kind, k) ==
  CASE kind = "amneziawg" -> {AmneziaWGStatic}
    [] kind = "xray" -> XRayStatic(0, "")
    [] OTHER -> Defaults(kind, k)

\* ReadInConfig: the file over what it starts from.
ReadInConfig(file, base) ==
  [f \in DOMAIN base |-> IF file[f] = Missing THEN base[f] ELSE file[f]]
=============================================================================
