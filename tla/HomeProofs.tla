----------------------------- MODULE HomeProofs -----------------------------
(***************************************************************************)
(* Proofs about Home: whatever the files, the edits and the number of      *)
(* commands, starts and crashes, an OpenVPN node runs on an authority of   *)
(* one generation and keeps it, a node serves the certificate its clients  *)
(* are told to pin, and no key changes behind the operator's back.         *)
(***************************************************************************)
EXTENDS Home, TLAPS

PKINames == {"ca.crt", "ca.key", "server.crt", "server.key", "tc.key"}

\* The process is a record of eight fields.
NodeIs(n) ==
  DOMAIN n = {"pc", "why", "read", "from", "config", "pin", "cert", "next"}

Typed ==
  /\ kind \in KindNames
  /\ NodeIs(node)
  /\ keys \in Nat /\ keys > 0
  /\ pki \in [PKINames -> Int]
  /\ node.pc = "create" => node.next \in 1..5
  /\ node.pc \in {"create", "load"} => kind = "openvpn"
  /\ node.pin = node.cert

\* What is on the disk of an authority that may have been cut short.  The
\* last file stands for all: it is written after the others, and only when
\* ca.key was not there.
Generations ==
  /\ pki["tc.key"] > 0 => \A f, g \in PKINames : pki[f] = pki[g]
  /\ pki["ca.key"] = 0 => pki["tc.key"] = 0
  /\ node.pc = "create" =>
       /\ pki["tc.key"] = 0
       /\ \A i \in 1..5 : i < node.next => pki[PKIFiles[i]] = keys
  /\ node.pc = "up" /\ kind = "openvpn" => pki["tc.key"] > 0

\* A key of the configuration came from the file.
FromFile ==
  kind \in {"xray", "amneziawg"} =>
    \A f \in DOMAIN node.config \cap {"private_key", "v3_private_key"} :
      node.config[f] # 0 => node.config[f] = node.read[f]

\* What was told is what the files say, and the next start will say again.
StillTold ==
  told # <<>> =>
    /\ kind = "openvpn" =>
         /\ told = <<pki["ca.crt"], pki["ca.key"], pki["tc.key"]>>
         /\ pki["ca.key"] # 0
         /\ node.pc # "create"
    /\ kind \in {"xray", "amneziawg"} /\ ~edited =>
         \A base \in ReadBase(kind, keys) :
           told = Identity(ReadInConfig(file, base))

IInv == Typed /\ Generations /\ FromFile /\ StillTold

-----------------------------------------------------------------------------
(* Facts about the definitions.                                            *)

\* Off has those fields, and so has what a start makes of it.
LEMMA OffFacts ==
  /\ NodeIs(Off) /\ Off.pc = "off" /\ Off.pin = Off.cert
  /\ DOMAIN Off.config = {}
BY DEF NodeIs, Off

\* The files of the authority, by the place they are written in.
LEMMA PKIFacts ==
  /\ PKIFiles[1] = "ca.crt" /\ PKIFiles[2] = "ca.key"
  /\ PKIFiles[3] = "server.crt" /\ PKIFiles[4] = "server.key"
  /\ PKIFiles[5] = "tc.key" /\ Len(PKIFiles) = 5
  /\ {PKIFiles[i] : i \in DOMAIN PKIFiles} = PKINames
  /\ \A i \in 1..5 : PKIFiles[i] \in PKINames
<1>1. DOMAIN PKIFiles = 1..5
  BY DEF PKIFiles
<1>2. /\ PKIFiles[1] = "ca.crt" /\ PKIFiles[2] = "ca.key"
      /\ PKIFiles[3] = "server.crt" /\ PKIFiles[4] = "server.key"
      /\ PKIFiles[5] = "tc.key" /\ Len(PKIFiles) = 5
  BY Zenon DEF PKIFiles
<1>3. \A i \in 1..5 : i = 1 \/ i = 2 \/ i = 3 \/ i = 4 \/ i = 5
  OBVIOUS
<1> HIDE DEF PKIFiles
<1>4. \A i \in 1..5 : PKIFiles[i] \in PKINames
  BY Zenon, <1>2, <1>3 DEF PKINames
<1>5. PKINames \subseteq {PKIFiles[i] : i \in 1..5}
  BY <1>2 DEF PKINames
<1> QED
  BY Zenon, <1>1, <1>2, <1>4, <1>5

\* A start is told the certificate the daemon is given, or refuses.
LEMMA InitOfFacts ==
  ASSUME Typed, NEW c
  PROVE  InitOf(c).pin = InitOf(c).cert
BY Zenon DEF Typed, KindNames, InitOf, WireGuardInit, AmneziaWGInit, OpenVPNInit,
   XRayInit, V2RayInit, HysteriaInit, WithTLS, TLSFiles, Plain, Refused

\* A file is completed with no key, whatever the ports drawn.
LEMMA ReadFacts ==
  ASSUME kind \in {"xray", "amneziawg"}, NEW k, NEW m,
         NEW base \in ReadBase(kind, k)
  PROVE  /\ \A f \in DOMAIN base \cap {"private_key", "v3_private_key"} :
              base[f] = 0
         /\ \A other \in ReadBase(kind, m) :
              Identity(ReadInConfig(file, other)) = Identity(ReadInConfig(file, base))
<1>1. CASE kind = "xray"
  <2>1. base \in XRayStatic(0, "") /\ ReadBase(kind, m) = XRayStatic(0, "")
    BY Zenon, <1>1 DEF ReadBase
  <2>2. ASSUME NEW b \in XRayStatic(0, "")
        PROVE  /\ b.private_key = 0 /\ b.public_key = 0
               /\ DOMAIN b = {"listen_port", "security", "server_name", "private_key",
                              "public_key", "short_id", "fingerprint", "api_port"}
    BY Zenon, <2>2 DEF XRayStatic
  <2>3. \A b \in XRayStatic(0, "") :
          ReadInConfig(file, b).public_key =
            IF file["public_key"] = Missing THEN 0 ELSE file["public_key"]
    BY Zenon, <2>2 DEF ReadInConfig
  <2> QED
    BY Zenon, <1>1, <2>1, <2>2, <2>3 DEF Identity
<1>2. CASE kind = "amneziawg"
  <2>1. base = AmneziaWGStatic /\ ReadBase(kind, m) = {AmneziaWGStatic}
    BY Zenon, <1>2 DEF ReadBase
  <2>2. base.private_key = 0 /\ base.v3_private_key = 0
    BY Zenon, <2>1 DEF AmneziaWGStatic
  <2> QED
    BY Zenon, <2>1, <2>2
<1> QED
  BY Zenon, <1>1, <1>2

\* What a start leaves: it failed, runs, or goes on with the authority.
LEMMA StartFacts ==
  ASSUME Typed, Start
  PROVE  \E base \in ReadBase(kind, keys) :
           LET c == ReadInConfig(file, base)
           IN /\ NodeIs(node)' /\ node'.config = c /\ node'.read = file
              /\ node'.why = InitOf(c).why /\ node'.from = origin
              /\ node'.pin = node'.cert
              /\ keys' \in Nat /\ keys' > 0
              /\ \/ node'.pc = "failed" /\ UNCHANGED <<told, edited>>
                 \/ /\ node'.pc = "up" /\ kind # "openvpn"
                    /\ told' = Identity(c) /\ edited' = FALSE
                 \/ /\ node'.pc = "create" /\ kind = "openvpn" /\ node'.next = 1
                    /\ pki["ca.key"] = 0 /\ UNCHANGED <<told, edited>>
                 \/ /\ node'.pc = "load" /\ kind = "openvpn"
                    /\ pki["ca.key"] # 0 /\ UNCHANGED <<told, edited>>
<1>1. PICK base \in ReadBase(kind, keys) :
        LET c == ReadInConfig(file, base)
            i == InitOf(c)
            n == [Off EXCEPT !.read = file, !.from = origin, !.config = c,
                             !.pin = i.pin, !.cert = i.cert]
            creates == kind = "openvpn" /\ i.why = "" /\ MustCreate
        IN /\ keys' = keys + KeysRead(c) + (IF creates THEN 1 ELSE 0)
           /\ keys' <= MaxKeys
           /\ \/ /\ i.why # ""
                 /\ node' = [n EXCEPT !.pc = "failed", !.why = i.why]
                 /\ UNCHANGED <<told, edited>>
              \/ i.why = "" /\ kind # "openvpn" /\ Up(n)
              \/ /\ i.why = "" /\ kind = "openvpn"
                 /\ node' = [n EXCEPT !.pc = IF creates THEN "create" ELSE "load",
                                      !.next = 1]
                 /\ UNCHANGED <<told, edited>>
  BY Zenon DEF Start
<1> DEFINE c == ReadInConfig(file, base)
           i == InitOf(c)
           n == [Off EXCEPT !.read = file, !.from = origin, !.config = c,
                            !.pin = i.pin, !.cert = i.cert]
           creates == kind = "openvpn" /\ i.why = "" /\ MustCreate
<1>2. i.pin = i.cert
  BY Zenon, InitOfFacts
<1>3. keys' \in Nat /\ keys' > 0
  <2>1. KeysRead(c) \in 0..1
    BY DEF KeysRead
  <2>2. (IF creates THEN 1 ELSE 0) \in 0..1
    OBVIOUS
  <2>3. keys' = keys + KeysRead(c) + (IF creates THEN 1 ELSE 0)
    BY Zenon, <1>1
  <2> HIDE DEF c, creates
  <2> QED
    BY <2>1, <2>2, <2>3 DEF Typed
<1> HIDE DEF c, i
<1>4. /\ NodeIs(n) /\ n.why = "" /\ n.read = file /\ n.from = origin
      /\ n.config = c /\ n.pin = i.pin /\ n.cert = i.cert
  BY Zenon DEF Off, NodeIs
<1> HIDE DEF n
<1>5. CASE i.why # ""
  <2>1. node' = [n EXCEPT !.pc = "failed", !.why = i.why] /\ UNCHANGED <<told, edited>>
    BY Zenon, <1>1, <1>5 DEF c, i, n
  <2> QED
    BY Zenon, <1>2, <1>3, <1>4, <2>1 DEF NodeIs, c, i
<1>6. CASE i.why = "" /\ kind # "openvpn"
  <2>1. Up(n)
    BY Zenon, <1>1, <1>6 DEF c, i, n
  <2> QED
    BY Zenon, <1>2, <1>3, <1>4, <1>6, <2>1 DEF NodeIs, Up, c, i
<1>7. CASE i.why = "" /\ kind = "openvpn"
  <2>1. /\ node' = [n EXCEPT !.pc = IF MustCreate THEN "create" ELSE "load", !.next = 1]
        /\ UNCHANGED <<told, edited>>
    BY Zenon, <1>1, <1>7 DEF c, i, n
  <2> QED
    BY Zenon, <1>2, <1>3, <1>4, <1>7, <2>1 DEF NodeIs, MustCreate, c, i
<1> QED
  BY Zenon, <1>5, <1>6, <1>7

-----------------------------------------------------------------------------
(* Every step keeps the invariant.                                         *)

\* What was told depends on the file only, for the kinds that read a key.
LEMMA IdentityKept ==
  ASSUME UNCHANGED <<kind, file>>, kind \in {"xray", "amneziawg"}
  PROVE  \A base : Identity(ReadInConfig(file, base))' = Identity(ReadInConfig(file, base))
BY DEF Identity, ReadInConfig

\* The commands leave the process and the authority alone; only "config
\* init" and "config set" draw keys, and none for OpenVPN.
LEMMA CommandKeeps ==
  ASSUME IInv,
         \/ \E force \in BOOLEAN : ConfigInit(force)
         \/ ConfigSet
         \/ Renew
  PROVE  IInv'
<1> USE DEF IInv
<1>1. UNCHANGED <<kind, pki, node, told>>
  BY Zenon DEF ConfigInit, ConfigSet, Renew
<1>2. KeysDrawn(kind) \in Nat /\ (kind = "openvpn" => KeysDrawn(kind) = 0)
  BY Zenon DEF KeysDrawn
<1>3. keys' = keys \/ keys' = keys + KeysDrawn(kind)
  BY Zenon DEF ConfigInit, ConfigSet, Renew
<1>4. keys' \in Nat /\ keys' > 0 /\ (kind = "openvpn" => keys' = keys)
  BY <1>2, <1>3 DEF Typed
<1>5. Typed'
  BY Zenon, <1>1, <1>4 DEF Typed, NodeIs
<1>6. Generations'
  BY Zenon, <1>1, <1>4 DEF Generations, Typed
<1>7. FromFile'
  BY Zenon, <1>1 DEF FromFile
<1>8. StillTold'
  <2>1. CASE edited'
    BY Zenon, <1>1, <2>1 DEF StillTold
  <2>2. CASE ~edited'
    <3>1. UNCHANGED <<kind, file, keys, edited>>
      BY Zenon, <2>2 DEF ConfigInit, ConfigSet, Renew, Save
    <3>2. CASE kind \in {"xray", "amneziawg"}
      BY Zenon, <1>1, <3>1, <3>2, IdentityKept DEF StillTold
    <3>3. CASE kind \notin {"xray", "amneziawg"}
      BY Zenon, <1>1, <3>3 DEF StillTold
    <3> QED
      BY Zenon, <3>2, <3>3
  <2> QED
    BY Zenon, <2>1, <2>2
<1> QED
  BY Zenon, <1>5, <1>6, <1>7, <1>8

\* A start reads the file and leaves the disk alone.
LEMMA StartKeeps ==
  ASSUME IInv, Start
  PROVE  IInv'
<1> USE DEF IInv
<1>1. UNCHANGED <<kind, file, pki>>
  BY Zenon DEF Start
<1>2. PICK base \in ReadBase(kind, keys) :
        LET c == ReadInConfig(file, base)
        IN /\ NodeIs(node)' /\ node'.config = c /\ node'.read = file
           /\ node'.pin = node'.cert
           /\ keys' \in Nat /\ keys' > 0
           /\ \/ node'.pc = "failed" /\ UNCHANGED <<told, edited>>
              \/ /\ node'.pc = "up" /\ kind # "openvpn"
                 /\ told' = Identity(c) /\ edited' = FALSE
              \/ /\ node'.pc = "create" /\ kind = "openvpn" /\ node'.next = 1
                 /\ pki["ca.key"] = 0 /\ UNCHANGED <<told, edited>>
              \/ /\ node'.pc = "load" /\ kind = "openvpn"
                 /\ pki["ca.key"] # 0 /\ UNCHANGED <<told, edited>>
  BY Zenon, StartFacts
<1>3. Typed'
  BY <1>1, <1>2 DEF Typed
<1>4. Generations'
  BY <1>1, <1>2 DEF Generations
<1>5. FromFile'
  <2> SUFFICES ASSUME kind \in {"xray", "amneziawg"},
                      NEW f \in DOMAIN node'.config \cap {"private_key", "v3_private_key"},
                      node'.config[f] # 0
               PROVE  node'.config[f] = node'.read[f]
    BY Zenon, <1>1 DEF FromFile
  <2>1. base[f] = 0 /\ f \in DOMAIN base
    <3>1. f \in DOMAIN base
      BY Zenon, <1>2 DEF ReadInConfig
    <3> QED
      BY Zenon, <3>1, ReadFacts
  <2> QED
    BY Zenon, <1>2, <2>1 DEF ReadInConfig
<1>6. StillTold'
  <2>1. ASSUME kind = "openvpn" PROVE StillTold'
    BY Zenon, <1>1, <1>2, <2>1 DEF StillTold
  <2>2. ASSUME kind \in {"xray", "amneziawg"}, ~edited', told' # <<>>,
               NEW other \in ReadBase(kind, keys')
        PROVE  told' = Identity(ReadInConfig(file, other))
    <3>1. Identity(ReadInConfig(file, other)) = Identity(ReadInConfig(file, base))
      BY <2>2, ReadFacts
    <3>2. told' = Identity(ReadInConfig(file, base))
      BY <1>2, <2>2 DEF StillTold
    <3> QED
      BY Zenon, <3>1, <3>2
  <2> QED
    BY Zenon, <1>1, <2>1, <2>2, IdentityKept DEF StillTold
<1> QED
  BY Zenon, <1>3, <1>4, <1>5, <1>6

\* The files of the authority are written one by one, and nobody was told
\* of an authority that is being made.
LEMMA CreateKeeps ==
  ASSUME IInv, Create \/ CreateFails
  PROVE  IInv'
<1> USE DEF IInv
<1>1. /\ node.pc = "create" /\ kind = "openvpn" /\ node.next \in 1..5
      /\ keys \in Nat /\ keys > 0 /\ pki \in [PKINames -> Int] /\ NodeIs(node)
      /\ UNCHANGED <<kind, file, keys, told, edited>>
  BY Zenon DEF Create, CreateFails, Typed
<1>2. told = <<>>
  BY Zenon, <1>1 DEF StillTold
<1>3. PICK w \in {keys, -1} :
        /\ pki' = [pki EXCEPT ![PKIFiles[node.next]] = w]
        /\ \/ w = -1 /\ node'.pc = "failed"
           \/ w = keys /\ node.next = 5 /\ node'.pc = "load"
           \/ w = keys /\ node.next < 5 /\ node'.pc = "create"
                /\ node'.next = node.next + 1
        /\ NodeIs(node') /\ node'.pin = node.pin /\ node'.cert = node.cert
        /\ node'.config = node.config /\ node'.read = node.read
  <2>1. CASE Create
    <3>1. node' = IF node.next = 5 THEN [node EXCEPT !.pc = "load"]
                  ELSE [node EXCEPT !.next = @ + 1]
      BY Zenon, <2>1, PKIFacts DEF Create
    <3>2. pki' = [pki EXCEPT ![PKIFiles[node.next]] = keys]
      BY Zenon, <2>1 DEF Create
    <3> QED
      BY <1>1, <3>1, <3>2 DEF NodeIs
  <2>2. CASE CreateFails
    <3>1. node' = [node EXCEPT !.pc = "failed", !.why = "pki"]
      BY Zenon, <2>2 DEF CreateFails, Fail
    <3>2. pki' = [pki EXCEPT ![PKIFiles[node.next]] = -1]
      BY Zenon, <2>2 DEF CreateFails
    <3> QED
      BY Zenon, <1>1, <3>1, <3>2 DEF NodeIs
  <2> QED
    BY Zenon, <2>1, <2>2
<1>4. PKIFiles[node.next] \in PKINames
  BY Zenon, <1>1, PKIFacts
<1>5. pki' \in [PKINames -> Int]
  BY <1>1, <1>3, <1>4
<1>6. Typed'
  BY <1>1, <1>3, <1>5 DEF Typed
<1>7. Generations'
  <2>1. /\ pki["tc.key"] = 0
        /\ \A i \in 1..5 : i < node.next => pki[PKIFiles[i]] = keys
    BY Zenon, <1>1 DEF Generations
  <2>2. ASSUME NEW m \in 1..4, node.next = m PROVE Generations'
    <3>1. PKIFiles[m] # "tc.key"
      BY <2>2, PKIFacts
    <3>2. pki'["tc.key"] = 0
      BY Zenon, <1>1, <1>3, <2>1, <2>2, <3>1 DEF PKINames
    <3>3. \A i \in 1..5 : i < m => PKIFiles[i] # PKIFiles[m]
      BY PKIFacts
    <3>4. w = keys => \A i \in 1..5 : i < m + 1 => pki'[PKIFiles[i]] = keys
      BY <1>1, <1>3, <1>4, <2>1, <2>2, <3>3, PKIFacts
    <3> QED
      BY <1>1, <1>3, <2>2, <3>2, <3>4 DEF Generations
  <2>3. CASE node.next = 5
    <3>1. /\ pki'["tc.key"] = w
          /\ \A f \in PKINames \ {"tc.key"} : pki'[f] = keys
      BY <1>1, <1>3, <2>1, <2>3, PKIFacts DEF PKINames
    <3> QED
      BY <1>1, <1>3, <2>3, <3>1 DEF Generations, PKINames
  <2> QED
    BY <1>1, <2>2, <2>3
<1>8. FromFile' /\ StillTold'
  BY Zenon, <1>1, <1>2 DEF FromFile, StillTold
<1> QED
  BY Zenon, <1>6, <1>7, <1>8

\* The other steps of the process.
LEMMA RestKeeps ==
  ASSUME IInv, StartUnread \/ Load \/ Down
  PROVE  IInv'
<1> USE DEF IInv
<1>1. UNCHANGED <<kind, file, keys, pki>>
  BY Zenon DEF StartUnread, Load, Down
<1>2. ASSUME NodeIs(node'), node'.pin = node'.cert,
             node'.pc \in {"failed", "off"}, UNCHANGED <<told, edited>>,
             \/ node'.config = node.config /\ node'.read = node.read
             \/ node'.config = <<>>
      PROVE  IInv'
  <2>1. Typed'
    BY Zenon, <1>1, <1>2 DEF Typed
  <2>2. Generations'
    BY Zenon, <1>1, <1>2 DEF Generations
  <2>3. FromFile'
    BY <1>1, <1>2 DEF FromFile
  <2>4. StillTold'
    BY Zenon, <1>1, <1>2, IdentityKept DEF StillTold
  <2> QED
    BY Zenon, <2>1, <2>2, <2>3, <2>4
<1>3. ASSUME NEW why, Fail(why), UNCHANGED <<told, edited>> PROVE IInv'
  BY Zenon, <1>2, <1>3 DEF Fail, Typed, NodeIs
<1>4. CASE StartUnread
  BY Zenon, <1>3, <1>4 DEF StartUnread
<1>5. CASE Down
  <2>1. node' = Off /\ UNCHANGED <<told, edited>>
    BY Zenon, <1>5 DEF Down
  <2> QED
    BY Zenon, <1>2, <2>1 DEF NodeIs, Off
<1>6. CASE Load
  <2>1. CASE \E f \in {"ca.crt", "ca.key", "tc.key"} : pki[f] <= 0
    BY Zenon, <1>3, <1>6, <2>1 DEF Load
  <2>2. CASE ~\E f \in {"ca.crt", "ca.key", "tc.key"} : pki[f] <= 0
    <3>1. node' = [node EXCEPT !.pc = "up"] /\ told' = Identity(node.config)
      BY Zenon, <1>6, <2>2 DEF Load, Up
    <3>2. kind = "openvpn" /\ node.pc = "load"
      BY Zenon, <1>6 DEF Load, Typed
    <3>3. told' = <<pki["ca.crt"], pki["ca.key"], pki["tc.key"]>>
      BY Zenon, <3>1, <3>2 DEF Identity
    <3>4. pki["tc.key"] > 0 /\ pki["ca.key"] # 0
      BY <2>2 DEF Typed, PKINames
    <3>5. /\ NodeIs(node') /\ node'.pin = node.pin /\ node'.cert = node.cert
          /\ node'.pc = "up"
      BY Zenon, <3>1 DEF Typed, NodeIs
    <3>6. Typed'
      BY Zenon, <1>1, <3>5 DEF Typed
    <3>7. Generations'
      BY Zenon, <1>1, <3>4, <3>5 DEF Generations
    <3>8. FromFile' /\ StillTold'
      BY Zenon, <1>1, <3>2, <3>3, <3>4, <3>5 DEF FromFile, StillTold
    <3> QED
      BY Zenon, <3>6, <3>7, <3>8
  <2> QED
    BY Zenon, <2>1, <2>2
<1> QED
  BY Zenon, <1>4, <1>5, <1>6

-----------------------------------------------------------------------------
(* The invariant, and what it gives.                                       *)

\* The invariant holds in a home that no start has used.
LEMMA InvInit == Init => IInv
<1> SUFFICES ASSUME Init PROVE IInv
  OBVIOUS
<1>1. pki = [f \in PKINames |-> 0]
  BY Zenon, PKIFacts DEF Init
<1>2. Typed
  BY <1>1, HomeAssumption, OffFacts DEF Init, Typed
<1>3. Generations
  BY Zenon, <1>1 DEF Init, Generations, Off, PKINames
<1>4. FromFile /\ StillTold
  BY Zenon DEF Init, FromFile, StillTold, Off
<1> QED
  BY Zenon, <1>2, <1>3, <1>4 DEF IInv

\* Every step keeps it.
LEMMA InvNext == IInv /\ [Next]_vars => IInv'
<1> SUFFICES ASSUME IInv, [Next]_vars PROVE IInv'
  OBVIOUS
<1>1. CASE UNCHANGED vars
  <2>1. UNCHANGED <<kind, file, pki, node, keys, told, edited>>
    BY Zenon, <1>1 DEF vars
  <2>2. Typed' /\ Generations' /\ FromFile'
    BY Zenon, <2>1 DEF IInv, Typed, Generations, FromFile, NodeIs
  <2>3. StillTold'
    BY Zenon, <2>1, IdentityKept DEF IInv, StillTold
  <2> QED
    BY Zenon, <2>2, <2>3 DEF IInv
<1> QED
  BY Zenon, <1>1, CommandKeeps, StartKeeps, CreateKeeps, RestKeeps DEF Next

\* The invariant holds at all times.
LEMMA Invariant == Spec => []IInv
<1> QED
  BY InvInit, InvNext, PTL DEF Spec

\* After any number of starts cut short between or within the writes of
\* create, a running OpenVPN server holds files of one generation; and a
\* daemon serves the certificate clients pin (openvpn/pki.go, TLSFiles).
THEOREM CertificatesHold == Spec => []CertificatesMatch
<1>1. IInv => CertificatesMatch
  <2> SUFFICES ASSUME IInv, node.pc = "up" PROVE CertificatesMatch
    BY Zenon DEF CertificatesMatch
  <2>1. kind = "openvpn" => \A f, g \in DOMAIN pki : pki[f] = pki[g]
    BY Zenon DEF IInv, Typed, Generations
  <2>2. node.pin # 0 => node.pin = IF node.cert = 0 THEN tls ELSE node.cert
    BY Zenon DEF IInv, Typed
  <2> QED
    BY Zenon, <2>1, <2>2 DEF CertificatesMatch
<1> QED
  BY Invariant, <1>1, PTL

\* An Xray or AmneziaWG node runs on no key its file does not hold, whatever
\* files and edits it met (ReadInConfig, withStaticDefaults).
THEOREM KeysHold == Spec => []NoSilentKeys
<1>1. IInv => NoSilentKeys
  BY Zenon DEF IInv, FromFile, NoSilentKeys
<1> QED
  BY Invariant, <1>1, PTL

\* What clients were told stays true over restarts (loadOrCreatePKI,
\* ReadInConfig).
THEOREM IdentityHolds == Spec => StableIdentity
<1>1. IInv /\ IInv' /\ [Next]_vars
        => [node.pc # "up" /\ node'.pc = "up" /\ told # <<>>
              /\ \/ kind = "openvpn"
                 \/ kind \in {"xray", "amneziawg"} /\ ~edited
            => told' = told]_vars
  <2> SUFFICES ASSUME IInv, Next, node.pc # "up", node'.pc = "up", told # <<>>,
                      \/ kind = "openvpn"
                      \/ kind \in {"xray", "amneziawg"} /\ ~edited
               PROVE  told' = told
    OBVIOUS
  <2>1. CASE Start
    <3>1. PICK base \in ReadBase(kind, keys) :
            /\ kind # "openvpn"
            /\ told' = Identity(ReadInConfig(file, base))
      BY Zenon, <2>1, StartFacts DEF IInv
    <3> QED
      BY Zenon, <3>1 DEF IInv, StillTold
  <2>2. CASE Load
    <3>1. kind = "openvpn"
      BY Zenon, <2>2 DEF Load, IInv, Typed
    <3>2. told' = Identity(node.config)
      BY Zenon, <2>2 DEF Load, Up, Fail, IInv, Typed, NodeIs
    <3> QED
      BY Zenon, <3>1, <3>2 DEF Identity, IInv, StillTold
  <2>3. CASE ~Start /\ ~Load
    <3>1. CASE UNCHANGED node
      BY Zenon, <3>1
    <3>2. CASE node' = Off
      BY Zenon, <3>2 DEF Off
    <3>3. CASE UNCHANGED told
      BY Zenon, <3>3
    <3> QED
      BY Zenon, <2>3, <3>1, <3>2, <3>3
         DEF Next, ConfigInit, ConfigSet, Renew, StartUnread, Create, CreateFails, Down
  <2> QED
    BY Zenon, <2>1, <2>2, <2>3
<1> QED
  BY Invariant, <1>1, PTL DEF Spec, StableIdentity
=============================================================================
