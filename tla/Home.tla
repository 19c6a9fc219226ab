-------------------------------- MODULE Home --------------------------------
(***************************************************************************)
(* The home directory of a node through its life: the protocol's file,     *)
(* which "config init" and "config set" write, the TLS files, the          *)
(* certificate authority an OpenVPN node creates on its first start, and   *)
(* what each start makes of them (Init of every service).  A command or a  *)
(* start may be cut short between any two writes, or in the middle of one. *)
(***************************************************************************)
EXTENDS ProtocolSettings

CONSTANTS
  Kinds,           \* the protocols
  Absent, Torn,    \* no file; a file whose content does not parse
  LegacyFiles,     \* files of earlier releases, by kind
  Edits,           \* what the operator may set, by kind
  MaxCommands,     \* config commands
  MaxKeys          \* keys generated

KindNames ==
  {"wireguard", "amneziawg", "openvpn", "xray", "v2ray", "hysteria2"}

ASSUME HomeAssumption ==
  /\ Kinds \subseteq KindNames
  /\ MaxKeys \in Nat /\ 1..MaxKeys \subseteq DOMAIN Digest

VARIABLES
  kind,
  file,            \* the protocol's file
  origin,          \* "init" while the file is what config init wrote
  tls,             \* which tls.crt and tls.key are there; 0 is none
  pki,             \* the files of the authority: 0 absent, -1 torn, or the
                   \* generation that wrote them
  node,            \* the process: pc, why it failed, its configuration
  keys,            \* keys and generations drawn so far
  told,            \* what clients of the last start were told (history)
  edited,          \* a command changed the file since it was read (history)
  commands

vars == <<kind, file, origin, tls, pki, node, keys, told, edited, commands>>

\* Mutant: the server's certificate after the key clients are told.
PKIFilesServerLast ==
  <<"ca.crt", "ca.key", "tc.key", "server.crt", "server.key">>

\* In the order they are written.
PKIFiles == <<"ca.crt", "ca.key", "server.crt", "server.key", "tc.key">>

Off == [pc |-> "off", why |-> "", read |-> <<>>, from |-> "other",
        config |-> <<>>, pin |-> 0, cert |-> 0, next |-> 0]

Init ==
  /\ kind \in Kinds
  /\ file \in {Absent} \cup LegacyFiles[kind]
  /\ origin = "other"
  /\ tls \in 0..1
  /\ pki = [f \in {PKIFiles[i] : i \in DOMAIN PKIFiles} |-> 0]
  /\ node = Off
  /\ keys = 2
  /\ told = <<>>
  /\ edited = FALSE
  /\ commands = 0

-----------------------------------------------------------------------------
(* The commands.                                                           *)

\* A file that was truncated and not yet written is an empty one.
Empty(c) == [f \in DOMAIN c |-> Missing]

\* WritePrivateFile, which truncates and writes: whole, or cut short.
Save(c, from) ==
  /\ \/ file' = c /\ origin' = from
     \/ file' \in {Empty(c), Torn} /\ origin' = "other"
  /\ edited' = TRUE
  /\ commands' = commands + 1

ConfigInit(force) ==
  /\ commands < MaxCommands
  /\ file = Absent \/ force
  /\ keys + KeysDrawn(kind) <= MaxKeys
  /\ \E c \in Defaults(kind, keys) : Save(c, "init")
  /\ keys' = keys + KeysDrawn(kind)
  /\ UNCHANGED <<kind, tls, pki, node, told>>

\* The file is completed as a start would, and not validated.
ConfigSet ==
  /\ commands < MaxCommands
  /\ file \notin {Absent, Torn}
  /\ keys + KeysDrawn(kind) <= MaxKeys
  /\ \E base \in ReadBase(kind, keys), e \in Edits[kind] :
       Save([ReadInConfig(file, base) EXCEPT ![e.setting] = e.value], "other")
  /\ keys' = keys + KeysDrawn(kind)
  /\ UNCHANGED <<kind, tls, pki, node, told>>

\* The certificate is renewed, or made; not in the middle of a start.
Renew ==
  /\ commands < MaxCommands
  /\ node.pc \in {"off", "up"}
  /\ tls' = tls + 1
  /\ commands' = commands + 1
  /\ UNCHANGED <<kind, file, origin, pki, node, keys, told, edited>>

-----------------------------------------------------------------------------
(* A start: Init of each service, the daemon's tools being installed.  It  *)
(* refuses, or goes on with the pin that clients are told of the           *)
(* certificate and with the certificate the daemon is given.               *)

Refused(why) == [why |-> why, pin |-> 0, cert |-> 0]
Plain == Refused("")

\* The daemon is given copies of the files.
TLSFiles == tls

WithTLS ==
  IF tls = 0 THEN Refused("tls")
  ELSE [why |-> "", pin |-> tls, cert |-> TLSFiles]

WireGuardInit(c) == IF WireGuardValid(c) THEN Plain ELSE Refused("config")

AmneziaWGInit(c) == IF AmneziaWGValid(c) THEN Plain ELSE Refused("config")

OpenVPNInit(c) == IF OpenVPNValid(c) THEN Plain ELSE Refused("config")

XRayInit(c) ==
  CASE ~XRayValid(c) -> Refused("config")
    [] XRayValid(c) /\ c.security = "tls" -> WithTLS
    [] OTHER -> Plain

V2RayInit(c) ==
  CASE ~V2RayValid(c) -> Refused("config")
    [] V2RayValid(c) /\ c.tls -> WithTLS
    [] OTHER -> Plain

HysteriaInit(c) == IF HysteriaValid(c) THEN WithTLS ELSE Refused("config")

InitOf(c) ==
  CASE kind = "wireguard" -> WireGuardInit(c)
    [] kind = "amneziawg" -> AmneziaWGInit(c)
    [] kind = "openvpn" -> OpenVPNInit(c)
    [] kind = "xray" -> XRayInit(c)
    [] kind = "v2ray" -> V2RayInit(c)
    [] kind = "hysteria2" -> HysteriaInit(c)

\* What clients are told and must not change by itself.
Identity(c) ==
  CASE kind = "wireguard" -> <<c.private_key>>
    [] kind = "amneziawg" ->
         <<c.private_key, DefaultTier(c)>>
           \o (IF c.v3_enabled THEN <<c.v3_private_key, V3Tier(c)>> ELSE <<>>)
    [] kind = "xray" -> <<c.public_key>>
    [] kind = "openvpn" -> <<pki["ca.crt"], pki["ca.key"], pki["tc.key"]>>
    [] OTHER -> <<c.listen_port>>

Fail(why) == node' = [node EXCEPT !.pc = "failed", !.why = why]
Up(n) ==
  /\ node' = [n EXCEPT !.pc = "up"]
  /\ told' = Identity(n.config)
  /\ edited' = (file # n.read)

\* Mutant: the authority is made at every start.
MustCreateAlways == TRUE
MustCreate == pki["ca.key"] = 0

\* Only a WireGuard file is completed with a key; one that is not needed is
\* not counted.
KeysRead(c) == IF kind = "wireguard" /\ file # c THEN 1 ELSE 0

\* A start without a file that parses.
StartUnread ==
  /\ node.pc = "off"
  /\ file \in {Absent, Torn}
  /\ Fail("file")
  /\ UNCHANGED <<kind, file, origin, tls, pki, keys, told, edited, commands>>

\* The file is read and the service initialised, up to the authority.
Start ==
  /\ node.pc = "off"
  /\ file \notin {Absent, Torn}
  /\ \E base \in ReadBase(kind, keys) :
       LET c == ReadInConfig(file, base)
           i == InitOf(c)
           n == [Off EXCEPT !.read = file, !.from = origin, !.config = c,
                            !.pin = i.pin, !.cert = i.cert]
           creates == kind = "openvpn" /\ i.why = "" /\ MustCreate
       IN /\ keys' = keys + KeysRead(c) + (IF creates THEN 1 ELSE 0)
          /\ keys' <= MaxKeys
          /\ \/ /\ i.why # ""
                /\ node' = [n EXCEPT !.pc = "failed", !.why = i.why]
                /\ UNCHANGED <<told, edited>>
             \/ i.why = "" /\ kind # "openvpn" /\ Up(n)
             \/ /\ i.why = "" /\ kind = "openvpn"
                /\ node' = [n EXCEPT !.pc = IF creates THEN "create" ELSE "load",
                                     !.next = 1]
                /\ UNCHANGED <<told, edited>>
  /\ UNCHANGED <<kind, file, origin, tls, pki, commands>>

\* One file of the new authority, whose generation is `keys'.
Create ==
  /\ node.pc = "create"
  /\ pki' = [pki EXCEPT ![PKIFiles[node.next]] = keys]
  /\ node' = IF node.next = Len(PKIFiles) THEN [node EXCEPT !.pc = "load"]
             ELSE [node EXCEPT !.next = @ + 1]
  /\ UNCHANGED <<kind, file, origin, tls, keys, told, edited, commands>>

\* A write that fails, or is cut short, leaves a part of the file.
CreateFails ==
  /\ node.pc = "create"
  /\ pki' = [pki EXCEPT ![PKIFiles[node.next]] = -1]
  /\ Fail("pki")
  /\ UNCHANGED <<kind, file, origin, tls, keys, told, edited, commands>>

\* load: the server's own certificate and key are not read.
Load ==
  /\ node.pc = "load"
  /\ IF \E f \in {"ca.crt", "ca.key", "tc.key"} : pki[f] <= 0
     THEN Fail("pki") /\ UNCHANGED <<told, edited>>
     ELSE Up(node)
  /\ UNCHANGED <<kind, file, origin, tls, pki, keys, commands>>

\* The process ends: a stop, a failure, or a crash at any point of a start.
Down ==
  /\ node.pc # "off"
  /\ node' = Off
  /\ UNCHANGED <<kind, file, origin, tls, pki, keys, told, edited, commands>>

Next ==
  \/ \E force \in BOOLEAN : ConfigInit(force)
  \/ ConfigSet
  \/ Renew
  \/ StartUnread
  \/ Start
  \/ Create
  \/ CreateFails
  \/ Load
  \/ Down

Spec == Init /\ [][Next]_vars

-----------------------------------------------------------------------------
(* Properties.                                                             *)

Addresses(n) == n.ip..(n.ip + Size(n) - 1)

\* WireGuard's initiation is 148 bytes and its response 92.
SizesDiffer(s) == 148 + s[1] # 92 + s[2]

\* The two tiers of an AmneziaWG node that runs share no interface, port or
\* tunnel address, whether their networks were derived from keys, moved to the
\* next /24, or named in the file; and in each tier a handshake initiation
\* never has the size of a response (amneziawg/types/config.go Validate,
\* TunnelNetworks).
TiersApart ==
  kind = "amneziawg" /\ node.pc = "up" =>
    LET c == node.config
    IN /\ SizesDiffer(c.s)
       /\ c.v3_enabled =>
            /\ SizesDiffer(c.v3_s)
            /\ c.interface # c.v3_interface
            /\ c.listen_port # c.v3_listen_port
            /\ Addresses(DefaultTier(c).v4) \cap Addresses(V3Tier(c).v4) = {}
            /\ Addresses(DefaultTier(c).v6) \cap Addresses(V3Tier(c).v6) = {}

\* A file that "config init" wrote and nobody touched is accepted by the start
\* that reads it, whatever was drawn.  Only v2ray may draw the same port twice
\* (v2ray/types/config.go WithDefaultValues).
InitAccepted ==
  node.why = "config" /\ node.from = "init" =>
    kind = "v2ray" /\ node.config.api_port = node.config.listen_port

\* An Xray or AmneziaWG node never runs on a key its file does not hold: a
\* file that lost one (an interrupted write, an older release) stops the node
\* instead of changing it for every client (ReadInConfig, withStaticDefaults).
NoSilentKeys ==
  node.pc = "up" /\ kind \in {"xray", "amneziawg"} =>
    \A f \in DOMAIN node.config \cap {"private_key", "v3_private_key"} :
      node.config[f] # 0 => node.config[f] = node.read[f]

\* What a running server shows is what its clients were given to verify it by:
\* OpenVPN's certificate was issued by the authority of the same generation,
\* after any number of starts cut short (openvpn/pki.go create, load), and the
\* certificate a daemon serves is the one whose pin clients are told, however
\* often the file in the home was renewed since (TLSFiles, CertificatePin).
CertificatesMatch ==
  node.pc = "up" =>
    /\ kind = "openvpn" => \A f, g \in DOMAIN pki : pki[f] = pki[g]
    /\ node.pin # 0 => node.pin = IF node.cert = 0 THEN tls ELSE node.cert

\* What clients were told stays true over restarts: without a command in
\* between, the node comes up with the same keys and networks, and an OpenVPN
\* node keeps its authority whatever is set (loadOrCreatePKI).
StableIdentity ==
  [][node.pc # "up" /\ node'.pc = "up" /\ told # <<>>
       /\ \/ kind = "openvpn"
          \/ kind \in {"xray", "amneziawg"} /\ ~edited
     => told' = told]_vars
=============================================================================
