----------------------------- MODULE Lifecycle ------------------------------
(***************************************************************************)
(* The life of the node process around its VPN service: the part of        *)
(* StartCmd from the egress policy on, the Start and Stop of every         *)
(* protocol, and what the kernel keeps of them (chains, jumps, forwarding  *)
(* rules, tunnel interfaces) when the process dies or exits in between.    *)
(*                                                                         *)
(* Start and Stop are scripts (see Egress); each command is a step, so a   *)
(* fault or a kill may hit between any two.  The daemons die with the node *)
(* (the unit's control group), the kernel's state does not.                *)
(***************************************************************************)
EXTENDS Egress, FiniteSets

CONSTANTS
  Kinds,       \* the protocols a node may be configured for
  Policies,    \* the egress policies the configuration may ask for
  HitBound,    \* bound on kills and failed start-ups
  FaultBound,  \* bound on commands that fail without a reason in the model
  Absent       \* a chain that does not exist

ASSUME LifecycleAssumption ==
  /\ Kinds \subseteq {"wireguard", "amneziawg", "openvpn", "xray", "v2ray",
                      "hysteria2"}
  /\ Policies \subseteq Egress
  /\ HitBound \in Nat
  /\ FaultBound \in Nat

VARIABLES
  kind,     \* [node] type
  account,  \* rt.Proxy: the daemons run as the dvpnd-proxy account
  phase,    \* where StartCmd is
  last,     \* how the previous process ended
  policy,   \* common.EgressPolicy()
  todo,     \* the rest of the script being run
  failed,   \* a command that must succeed has failed
  host,     \* the kernel and the child processes
  hits,     \* kills and failed start-ups so far
  faults    \* unexplained failures so far

vars == <<kind, account, phase, last, policy, todo, failed, host, hits, faults>>

Iface == {"default", "v3"}
Where == Families \X (Iface \cup {"host"}) \X {"fwd", "in", "proxy"}
NATWhere == Families \X (Iface \cup {"nat"}) \X NATRule

CleanHost ==
  [chain |-> [w \in Where |-> Absent], jump |-> [w \in Where |-> 0],
   nat |-> [w \in NATWhere |-> 0], up |-> {}, proc |-> {}]

\* Protocol.Daemon of the registry: the daemon can run as the proxy account.
Daemon == {"xray", "v2ray", "hysteria2", "openvpn"}

\* PrepareRuntime: the account is used when the node is root, the account
\* exists and the service runs a daemon.
PrepareRuntime(k) == IF k \in Daemon THEN BOOLEAN ELSE {FALSE}

-----------------------------------------------------------------------------
(* One command on the host.                                                *)

\* PostUp and PostDown of wg-quick: the same rules NAT installs.
PostUp(h, i) ==
  [w \in NATWhere |-> IF w[2] = i THEN h.nat[w] + 1 ELSE h.nat[w]]
PostDown(h, i) ==
  [w \in NATWhere |->
     IF w[2] = i /\ h.nat[w] > 0 THEN h.nat[w] - 1 ELSE h.nat[w]]

\* The daemon of OpenVPN owns its tunnel interface.
TunnelOf(k) == IF k = "openvpn" THEN {"default"} ELSE {}

Succeeds(c, h) ==
  CASE c.op = "-N" -> h.chain[c.at] = Absent
    [] c.op \in {"-F", "-A", "-I"} -> h.chain[c.at] # Absent
    [] c.op \in {"-C", "-D"} -> h.jump[c.at] > 0
    [] c.op = "-X" -> h.chain[c.at] = <<>> /\ h.jump[c.at] = 0
    [] c.op = "nat -D" -> h.nat[c.at] > 0
    [] c.op = "up" -> c.at \notin h.up
    [] c.op \in {"down", "exists"} -> c.at \in h.up
    [] c.op = "dial" -> "daemon" \in h.proc
    [] OTHER -> TRUE

Effect(c, h) ==
  CASE c.op \in {"-N", "-F"} -> [h EXCEPT !.chain[c.at] = <<>>]
    [] c.op = "-A" -> [h EXCEPT !.chain[c.at] = Append(@, c.arg)]
    [] c.op = "-X" -> [h EXCEPT !.chain[c.at] = Absent]
    [] c.op = "-I" -> [h EXCEPT !.jump[c.at] = @ + 1]
    [] c.op = "-D" -> [h EXCEPT !.jump[c.at] = @ - 1]
    [] c.op = "nat -A" -> [h EXCEPT !.nat[c.at] = @ + 1]
    [] c.op = "nat -D" -> [h EXCEPT !.nat[c.at] = @ - 1]
    [] c.op = "up" -> [h EXCEPT !.up = @ \cup {c.at}, !.nat = PostUp(h, c.at)]
    [] c.op = "down" ->
         [h EXCEPT !.up = @ \ {c.at}, !.nat = PostDown(h, c.at)]
    [] c.op = "spawn" ->
         [h EXCEPT !.proc = @ \cup {"daemon"}, !.up = @ \cup TunnelOf(kind)]
    [] c.op = "stop" ->
         [h EXCEPT !.proc = @ \ {"daemon"}, !.up = @ \ TunnelOf(kind)]
    [] c.op = "listen" -> [h EXCEPT !.proc = @ \cup {"hook"}]
    [] c.op = "close" -> [h EXCEPT !.proc = @ \ {"hook"}]
    [] OTHER -> h

-----------------------------------------------------------------------------
(* Start and Stop of the protocols.                                        *)

Forwarding(recover) == <<Must("forwarding", "kernel", <<>>, recover)>>

\* Mutant: start of WireGuard with the interface brought up before the firewall.
WireGuardStartIfaceFirst(i, after) ==
  <<Must("up", i, <<>>, after)>>
  \o TunnelUp(i, policy', TunnelDown(i) \o after)

\* Mutant: an interface that is left is not recreated.
WireGuardStartNoRecreate(i, after) ==
  LET recover == TunnelDown(i) \o after
  IN Forwarding(after)
     \o TunnelUp(i, policy', recover)
     \o <<Must("up", i, <<>>, recover)>>

\* A deferred Down follows every failure after Up.  wg-quick refuses to create
\* an interface an earlier instance left; it is then torn down and recreated.
WireGuardStart(i, after) ==
  LET recover == TunnelDown(i) \o after
  IN Forwarding(after)
     \o TunnelUp(i, policy', recover)
     \o <<Quiet("up", i, <<>>,
            <<Must("exists", i, <<>>, recover), Command("down", i, <<>>),
              Must("up", i, <<>>, recover)>>)>>

WireGuardStop(i) == <<Command("down", i, <<>>)>> \o TunnelDown(i)

\* Mutant: a v3 tier that fails takes no default tier with it.
AmneziaWGStartNoStop ==
  WireGuardStart("default", <<>>) \o WireGuardStart("v3", <<>>)

AmneziaWGStart ==
  WireGuardStart("default", <<>>)
  \o WireGuardStart("v3", WireGuardStop("default"))

AmneziaWGStop == WireGuardStop("default") \o WireGuardStop("v3")

OpenVPNStart ==
  LET down == TunnelDown("default")
      stop == <<Command("stop", "daemon", <<>>)>>
  IN Forwarding(<<>>)
     \o TunnelUp("default", policy', down)
     \o <<Must("spawn", "daemon", <<>>, down),
          Must("dial", "management", <<>>, stop \o down)>>
     \o NATUp(stop \o NATDown \o down)

OpenVPNStop ==
  <<Command("stop", "daemon", <<>>)>> \o NATDown \o TunnelDown("default")

\* common.StartProxy: as the proxy account behind its chain when there is one.
StartProxy(after) ==
  IF account
  THEN ProxyUp(policy', ProxyDown \o after)
       \o <<Must("spawn", "daemon", <<>>, ProxyDown \o after)>>
  ELSE <<Must("spawn", "daemon", <<>>, after)>>

\* Process.Stop, with onStop removing the chain once the child has exited.
ProcessStop ==
  <<Command("stop", "daemon", <<>>)>> \o (IF account THEN ProxyDown ELSE <<>>)

V2RayStart == StartProxy(<<>>)
V2RayStop == ProcessStop
XRayStart == StartProxy(<<>>)
XRayStop == ProcessStop

HysteriaStart ==
  <<Must("listen", "hook", <<>>, <<>>)>>
  \o StartProxy(<<Command("close", "hook", <<>>)>>)
HysteriaStop == ProcessStop \o <<Command("close", "hook", <<>>)>>

StartScript ==
  CASE kind = "wireguard" -> WireGuardStart("default", <<>>)
    [] kind = "amneziawg" -> AmneziaWGStart
    [] kind = "openvpn" -> OpenVPNStart
    [] kind = "v2ray" -> V2RayStart
    [] kind = "xray" -> XRayStart
    [] kind = "hysteria2" -> HysteriaStart

StopScript ==
  CASE kind = "wireguard" -> WireGuardStop("default")
    [] kind = "amneziawg" -> AmneziaWGStop
    [] kind = "openvpn" -> OpenVPNStop
    [] kind = "v2ray" -> V2RayStop
    [] kind = "xray" -> XRayStop
    [] kind = "hysteria2" -> HysteriaStop

-----------------------------------------------------------------------------
(* StartCmd.                                                               *)

Init ==
  /\ kind \in Kinds
  /\ account \in PrepareRuntime(kind)
  /\ phase = "off"
  /\ last = "none"
  /\ policy = [AllowSMTP |-> FALSE, APIPort |-> FALSE, Resolver |-> FALSE]
  /\ todo = <<>>
  /\ failed = FALSE
  /\ host = CleanHost
  /\ hits = 0
  /\ faults = 0

\* The services with a tunnel (types.TunnelHost).
TunnelHost == {"wireguard", "amneziawg", "openvpn"}

\* SetEgress, then the service's Start.  The Handshake resolver stays off for
\* a service without a tunnel.
Begin ==
  /\ phase = "off"
  /\ \E p \in Policies :
       policy' = [p EXCEPT !.Resolver = @ /\ kind \in TunnelHost]
  /\ phase' = "starting"
  /\ todo' = StartScript
  /\ failed' = FALSE
  /\ UNCHANGED <<kind, account, last, host, hits, faults>>

\* A command that fails for no reason in the model (the xtables lock held by
\* another program, a binary missing, a resource exhausted).
Fault ==
  /\ faults < FaultBound
  /\ faults' = faults + 1

\* One command of the script.
Run ==
  /\ todo # <<>>
  /\ LET c == Head(todo)
     IN \/ /\ Succeeds(c, host)
           /\ host' = Effect(c, host)
           /\ todo' = Tail(todo)
           /\ UNCHANGED <<failed, faults>>
        \/ /\ IF Succeeds(c, host) THEN Fault ELSE UNCHANGED faults
           /\ todo' = IF c.must THEN c.else ELSE c.else \o Tail(todo)
           /\ failed' = (failed \/ c.must)
           /\ UNCHANGED host
  /\ UNCHANGED <<kind, account, phase, last, policy, hits>>

\* The control group ends with the process.
Exited(h) ==
  [h EXCEPT !.proc = {}, !.up = @ \ TunnelOf(kind)]

\* service.Start has returned.
Started ==
  /\ phase = "starting"
  /\ todo = <<>>
  /\ IF failed
     THEN phase' = "off" /\ last' = "failed" /\ host' = Exited(host)
     ELSE phase' = "started" /\ UNCHANGED <<last, host>>
  /\ UNCHANGED <<kind, account, policy, todo, failed, hits, faults>>

\* The database opens, the node is registered or updated on the chain and the
\* sessions are reconciled.
Initialized ==
  /\ phase = "started"
  /\ phase' = "running"
  /\ UNCHANGED <<kind, account, last, policy, todo, failed, host, hits, faults>>

\* One of these fails: StartCmd returns the error.
InitializeFails ==
  /\ phase = "started"
  /\ hits < HitBound
  /\ hits' = hits + 1
  /\ phase' = "off"
  /\ last' = "exited"
  /\ host' = Exited(host)
  /\ UNCHANGED <<kind, account, policy, todo, failed, faults>>

\* A stop signal, a job's panic or a failed API server.
Stop ==
  /\ phase = "running"
  /\ phase' = "stopping"
  /\ todo' = StopScript
  /\ UNCHANGED <<kind, account, last, policy, failed, host, hits, faults>>

Stopped ==
  /\ phase = "stopping"
  /\ todo = <<>>
  /\ phase' = "off"
  /\ last' = "stopped"
  /\ host' = Exited(host)
  /\ UNCHANGED <<kind, account, policy, todo, failed, hits, faults>>

\* Killed, or panicking outside a job (the serving goroutines of
\* ListenAndServeTLS do), or signalled before StartCmd listens for signals.
Kill ==
  /\ phase # "off"
  /\ hits < HitBound
  /\ hits' = hits + 1
  /\ phase' = "off"
  /\ last' = "killed"
  /\ todo' = <<>>
  /\ host' = Exited(host)
  /\ UNCHANGED <<kind, account, policy, failed, faults>>

\* The daemon dies by itself; nothing watches it but the reaper.
DaemonDies ==
  /\ "daemon" \in host.proc
  /\ Fault
  /\ host' = [host EXCEPT !.proc = @ \ {"daemon"}, !.up = @ \ TunnelOf(kind)]
  /\ UNCHANGED <<kind, account, phase, last, policy, todo, failed, hits>>

Next ==
  \/ Begin \/ Run \/ Started \/ Initialized \/ InitializeFails
  \/ Stop \/ Stopped \/ Kill \/ DaemonDies

Spec == Init /\ [][Next]_vars

-----------------------------------------------------------------------------
(* Properties.                                                             *)

\* What becomes of a client's packet at one of the node's chains.
Passes(w, p) ==
  \/ host.jump[w] = 0
  \/ host.chain[w] = Absent
  \/ Verdict(host.chain[w], p) = "ACCEPT"

\* The chains clients' packets meet now: an interface's while it is up, the
\* proxy account's while the daemon runs as it.
Met ==
  {w \in Where : \/ w[2] \in host.up /\ w[3] \in {"fwd", "in"}
                 \/ /\ kind # "openvpn" /\ account /\ "daemon" \in host.proc
                    /\ w[2] = "host" /\ w[3] = "proxy"}

Clean(h) ==
  /\ h.chain = CleanHost.chain
  /\ h.jump = CleanHost.jump
  /\ h.up = {}
  /\ h.proc = {}

\* While the node serves, its clients reach exactly what the egress policy of
\* this start permits, in both families, whatever an earlier process left in
\* the kernel and whichever command of this start failed (chains.up refills).
PolicyEnforced ==
  phase \in {"started", "running"} =>
    \A w \in Met : \A p \in Packet :
      Passes(w, p) <=> Permitted(w[3], w[1], policy, p)

\* On a host no process died on, no client packet passes unfiltered at any
\* moment of Start or Stop: the chains are filled before they are jumped to,
\* and the firewall is in place before the tunnel comes up and after it goes.
NeverExposed ==
  hits = 0 /\ faults = 0 =>
    \A w \in Met : \A p \in Packet :
      Passes(w, p) => Permitted(w[3], w[1], policy, p)

\* A process that ends in order leaves nothing behind, no chain, jump,
\* interface, child or forwarding rule: a start that fails (one command failing
\* at any point) on a clean host, and a stop, even of a start that found another
\* process's remains; only their forwarding rules may stay then.
EndsClean ==
  /\ phase = "off" /\ last = "failed" /\ hits = 0 /\ faults <= 1 =>
       Clean(host) /\ host.nat = CleanHost.nat
  /\ phase = "off" /\ last = "stopped" /\ faults = 0 =>
       Clean(host) /\ (hits = 0 => host.nat = CleanHost.nat)

\* A start fails only when a command of its own failed: what a killed process
\* left needs no cleanup by hand.
RestartNeedsNoCleanup ==
  phase = "off" /\ last = "failed" => faults > 0
=============================================================================
