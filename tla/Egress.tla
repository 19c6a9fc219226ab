------------------------------- MODULE Egress -------------------------------
(***************************************************************************)
(* The firewall the node puts around its clients: the chains and jumps of  *)
(* services/common/egress.go and the forwarding rules of nat.go.           *)
(*                                                                         *)
(* Up and Down are sequences of iptables commands run one after the other, *)
(* any of which may fail, and the node may die between two of them.  So    *)
(* they are modelled as scripts: sequences of commands, each saying what   *)
(* follows when it fails.  Lifecycle runs them.                            *)
(*                                                                         *)
(* Destinations and ports are the classes the rules tell apart; a rule     *)
(* matches a set of each.                                                  *)
(***************************************************************************)
EXTENDS Naturals, Sequences, SequencesExt

Family == <<"v4", "v6">>
Families == {"v4", "v6"}

\* "tunnel": another client of the tunnel; "blocked": a private or reserved
\* network; "nameserver": the host's resolver; "resolver": the Handshake
\* resolver, on the node's tunnel address; these and "loopback" lie in blocked
\* networks.  "public": the host's public address; "internet": the rest.
Dst == {"tunnel", "blocked", "loopback", "nameserver", "public", "resolver",
        "internet"}
BlockedNetworks == {"tunnel", "blocked", "loopback", "nameserver", "resolver"}
Local == {"loopback", "public", "resolver"}

\* "hook" is the port of Hysteria's authentication hook.
Port == {"smtp", "api", "dns", "hook", "other"}

\* A packet of a client, as the built-in chain sees it.
Packet == [est: BOOLEAN, dst: Dst, port: Port]

\* The policy of the node: SMTP allowed, the API port known, the Handshake
\* resolver on.  The zero policy blocks SMTP and opens nothing.
Egress == [AllowSMTP: BOOLEAN, APIPort: BOOLEAN, Resolver: BOOLEAN]

-----------------------------------------------------------------------------
(* Rules.                                                                  *)

Rule(est, dst, port, target) ==
  [est |-> est, dst |-> dst, port |-> port, target |-> target]

Drop(dst, port) == Rule(BOOLEAN, dst, port, "DROP")
Accept(dst, port) == Rule(BOOLEAN, dst, port, "ACCEPT")
Replies == Rule({TRUE}, Dst, Port, "ACCEPT")

If(condition, rule) == IF condition THEN <<rule>> ELSE <<>>

\* inFamily: the resolver has an IPv4 tunnel address.
TunnelRules(f, policy) ==
  [fwd |-> <<Drop({"tunnel"}, Port), Drop(BlockedNetworks, Port)>>
           \o If(~policy.AllowSMTP, Drop(Dst, {"smtp"})),
   in |-> <<Replies>>
          \o If(policy.Resolver /\ f = "v4", Accept({"resolver"}, {"dns"}))
          \o If(policy.APIPort, Accept(Dst, {"api"}))
          \o <<Drop(Dst, Port)>>]

\* The loopback ports are opened in IPv4 only.  nameservers() may list
\* resolvers of either family.
ProxyRules(f, policy) ==
  [proxy |-> <<Replies>>
             \o If(f = "v4", Accept({"loopback"}, {"hook"}))
             \o <<Accept({"nameserver"}, {"dns"}),
                  Drop(BlockedNetworks, Port)>>
             \o If(policy.APIPort, Accept(Local, {"api"}))
             \o <<Drop(Local, Port)>>
             \o If(~policy.AllowSMTP, Drop(Dst, {"smtp"}))]

Matches(rule, p) == p.est \in rule.est /\ p.dst \in rule.dst /\ p.port \in rule.port

\* iptables takes the first rule that matches; a packet no rule of a chain
\* matches returns to the built-in chain, which lets it through.
Verdict(rules, p) ==
  LET hit == SelectInSeq(rules, LAMBDA r : Matches(r, p))
  IN IF hit = 0 THEN "ACCEPT" ELSE rules[hit].target

-----------------------------------------------------------------------------
(* What the policy promises, independently of the rules.                   *)

MailAllowed(policy, p) == p.port = "smtp" => policy.AllowSMTP

\* forward: to the internet only, and to mail relays only when allowed.
\* input: replies, DNS to the resolver, the API port.  output, of the proxy
\* account: replies, its hook, DNS, the API port on the public addresses and
\* the internet.
Permitted(chain, f, policy, p) ==
  CASE chain = "fwd" ->
         p.dst \notin BlockedNetworks /\ MailAllowed(policy, p)
    [] chain = "in" ->
         \/ p.est
         \/ p.dst = "resolver" /\ p.port = "dns" /\ policy.Resolver /\ f = "v4"
         \/ p.port = "api" /\ policy.APIPort
    [] chain = "proxy" ->
         \/ p.est
         \/ p.dst = "loopback" /\ p.port = "hook" /\ f = "v4"
         \/ p.dst = "nameserver" /\ p.port = "dns"
         \/ p.dst = "public" /\ p.port = "api" /\ policy.APIPort
         \/ p.dst = "internet" /\ MailAllowed(policy, p)

-----------------------------------------------------------------------------
(* Scripts.  A command that fails is followed by its `else'; after a       *)
(* `must' command the rest of the script is given up, after a quiet one it *)
(* goes on.                                                                *)

Command(op, at, arg) ==
  [op |-> op, at |-> at, arg |-> arg, must |-> FALSE, else |-> <<>>]
Quiet(op, at, arg, else) == [Command(op, at, arg) EXCEPT !.else = else]
Must(op, at, arg, recover) ==
  [Command(op, at, arg) EXCEPT !.must = TRUE, !.else = recover]

\* A chain of the node: the family, the interface it is for and its name.
At(f, i, c) == <<f, i, c>>

\* Mutant: a chain that is left is filled again without being emptied.
UpFamilyNoFlush(i, names, f, rules, recover) ==
  [n \in DOMAIN names |-> Command("-N", At(f, i, names[n]), <<>>)]
  \o FlattenSeq([n \in DOMAIN names |->
       [r \in DOMAIN rules[names[n]] |->
          Must("-A", At(f, i, names[n]), rules[names[n]][r], recover)]])
  \o [n \in DOMAIN names |->
       Quiet("-C", At(f, i, names[n]), <<>>,
             <<Must("-I", At(f, i, names[n]), <<>>, recover)>>)]

\* -N, or -F of a chain left from an earlier run, is tried for each chain
\* before any rule goes in; -I of a jump follows a -C that finds none.
UpFamily(i, names, f, rules, recover) ==
  [n \in DOMAIN names |->
     Quiet("-N", At(f, i, names[n]), <<>>,
           <<Must("-F", At(f, i, names[n]), <<>>, recover)>>)]
  \o FlattenSeq([n \in DOMAIN names |->
       [r \in DOMAIN rules[names[n]] |->
          Must("-A", At(f, i, names[n]), rules[names[n]][r], recover)]])
  \o [n \in DOMAIN names |->
       Quiet("-C", At(f, i, names[n]), <<>>,
             <<Must("-I", At(f, i, names[n]), <<>>, recover)>>)]

\* `rules' has those of each family.
Up(i, names, rules, recover) ==
  FlattenSeq([k \in DOMAIN Family |->
    UpFamily(i, names, Family[k], rules[Family[k]], recover)])

Down(i, names) ==
  FlattenSeq([k \in DOMAIN Family |->
    [n \in DOMAIN names |-> Command("-D", At(Family[k], i, names[n]), <<>>)]
    \o FlattenSeq([n \in DOMAIN names |->
         <<Command("-F", At(Family[k], i, names[n]), <<>>),
           Command("-X", At(Family[k], i, names[n]), <<>>)>>])])

Tunnel == <<"fwd", "in">>
TunnelUp(i, policy, recover) ==
  Up(i, Tunnel, [f \in Families |-> TunnelRules(f, policy)], recover)
TunnelDown(i) == Down(i, Tunnel)

\* The proxy account's chain is one for the host, whatever the daemon.
ProxyUp(policy, recover) ==
  Up("host", <<"proxy">>, [f \in Families |-> ProxyRules(f, policy)], recover)
ProxyDown == Down("host", <<"proxy">>)

\* NAT: accept from the interface, accept replies into it, masquerade.
NATRule == {"from", "replies", "masquerade"}
NATRules(op, recover, must) ==
  FlattenSeq([k \in DOMAIN Family |->
    SetToSeq({[Command(op, At(Family[k], "nat", r), <<>>)
                 EXCEPT !.must = must, !.else = recover] : r \in NATRule})])
NATUp(recover) == NATRules("nat -A", recover, TRUE)
NATDown == NATRules("nat -D", <<>>, FALSE)
=============================================================================
