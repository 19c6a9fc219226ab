----------------------------- MODULE WireGuard -----------------------------
(***************************************************************************)
(* The WireGuard service: two address pools, the table of peers and the    *)
(* kernel interface.  AddPeer and RemovePeer run under the node's          *)
(* admission mutex, one at a time, so each is one action; the steps inside *)
(* may fail.                                                               *)
(***************************************************************************)
EXTENDS Integers, Sequences, Functions

CONSTANTS
  Key,         \* public keys of clients
  None,        \* absence of a peer
  First4,      \* first IPv4 address the pool gives out
  Last4,       \* last address of the IPv4 network
  First6,      \* the same for IPv6
  Last6

ASSUME WireGuardAssumption ==
  /\ {First4, Last4, First6, Last6} \subseteq Nat \ {0}
  /\ None \notin [v4: Nat, v6: Nat]

VARIABLES
  ipv6,           \* the enable_ipv6 setting, read at start-up
  pool4, pool6,   \* the pools: current, available, reserved
  peers,          \* wgtypes.Peers: the addresses of each peer of the node
  iface,          \* the interface: allowed-ips of each peer it has
  readded         \* history: what was given to a key that had addresses already

vars == <<ipv6, pool4, pool6, peers, iface, readded>>

\* Addresses are numbers; an IPv4 address whose last byte is 0 or 255 is not
\* a host's.
NoAddress == 0
Host4(a) == a % 256 \notin {0, 255}
Hosts4 == {a \in First4..Last4 : Host4(a)}
Hosts6 == First6..Last6

Addresses == [v4: Nat, v6: Nat]
Pool(hosts) == [current: Nat, available: Seq(hosts), reserved: SUBSET hosts]
NewPool(first) == [current |-> first, available |-> <<>>, reserved |-> {}]

TypeOK ==
  /\ ipv6 \in {"on", "off"}
  /\ pool4 \in Pool(Hosts4) /\ pool6 \in Pool(Hosts6)
  /\ peers \in [Key -> Addresses \cup {None}]
  /\ iface \in [Key -> Addresses \cup {None}]
  /\ readded \in SUBSET Addresses

Init ==
  /\ ipv6 \in {"on", "off"}
  /\ pool4 = NewPool(First4)
  /\ pool6 = NewPool(First6)
  /\ peers = [k \in Key |-> None]
  /\ iface = [k \in Key |-> None]
  /\ readded = {}

-----------------------------------------------------------------------------
(* The pools.                                                              *)

\* The next host address: two in a row are not, at most.
Skip4(a) == IF Host4(a) THEN a ELSE IF Host4(a + 1) THEN a + 1 ELSE a + 2

\* Mutant: the address taken stays available.
TakenKept(pool) ==
  IF pool.available = <<>>
    THEN [ip |-> pool.current,
          pool |-> [pool EXCEPT !.current = @ + 1, !.reserved = @ \cup {pool.current}]]
    ELSE [ip |-> Head(pool.available),
          pool |-> [pool EXCEPT !.reserved = @ \cup {Head(pool.available)}]]

\* Get, once `current' is where the search stopped.
Taken(pool) ==
  IF pool.available = <<>>
    THEN [ip |-> pool.current,
          pool |-> [current |-> pool.current + 1, available |-> <<>>,
                    reserved |-> pool.reserved \cup {pool.current}]]
    ELSE [ip |-> Head(pool.available),
          pool |-> [current |-> pool.current, available |-> Tail(pool.available),
                    reserved |-> pool.reserved \cup {Head(pool.available)}]]

Ready4(pool) ==
  IF pool.available = <<>> THEN [pool EXCEPT !.current = Skip4(@)] ELSE pool
\* Mutant: the last address is never given out.
FullEarly(pool, last) == pool.available = <<>> /\ pool.current >= last

Full(pool, last) == pool.available = <<>> /\ pool.current > last

\* Mutant: the reservation stays.
ReleaseKept(pool, ip) ==
  IF ip \in pool.reserved THEN [pool EXCEPT !.available = Append(@, ip)] ELSE pool

Release(pool, ip) ==
  IF ip \in pool.reserved
    THEN [current |-> pool.current, available |-> Append(pool.available, ip),
          reserved |-> pool.reserved \ {ip}]
    ELSE pool

-----------------------------------------------------------------------------
(* The service.                                                            *)

EnableIPv6 == ipv6 = "on"

\* The kernel gives an allowed-ip to the last peer it was set for.
SetPeer(k, ips) ==
  iface' = [x \in Key |->
    IF x = k THEN ips
    ELSE IF iface[x] = None THEN None
    ELSE [v4 |-> IF iface[x].v4 = ips.v4 THEN NoAddress ELSE iface[x].v4,
          v6 |-> IF iface[x].v6 = ips.v6 THEN NoAddress ELSE iface[x].v6]]

\* Peers.Put: a peer that is there already is left as it is.
Put(k, ips) == peers' = IF peers[k] = None THEN [peers EXCEPT ![k] = ips] ELSE peers

AddPeer(k) ==
  LET at4 == Ready4(pool4)
      got4 == Taken(at4)
      got6 == Taken(pool6)
      \* without IPv6 its address goes back at once, and none is remembered
      v6 == IF EnableIPv6 THEN got6.ip ELSE NoAddress
      left6 == IF EnableIPv6 THEN got6.pool ELSE Release(got6.pool, got6.ip)
      ips == [v4 |-> got4.ip, v6 |-> v6]
  IN
  \/ /\ Full(at4, Last4)
     /\ pool4' = at4
     /\ UNCHANGED <<ipv6, pool6, peers, iface, readded>>
  \/ /\ ~Full(at4, Last4) /\ Full(pool6, Last6)
     /\ pool4' = Release(got4.pool, got4.ip)
     /\ UNCHANGED <<ipv6, pool6, peers, iface, readded>>
  \/ /\ ~Full(at4, Last4) /\ ~Full(pool6, Last6)
     /\ \/ /\ pool4' = Release(got4.pool, got4.ip)       \* the command failed
           /\ pool6' = Release(left6, v6)
           /\ UNCHANGED <<ipv6, peers, iface, readded>>
        \/ /\ pool4' = got4.pool /\ pool6' = left6
           /\ SetPeer(k, ips) /\ Put(k, ips) /\ UNCHANGED ipv6
           /\ readded' = IF peers[k] = None THEN readded ELSE readded \cup {ips}

\* Mutant: the table forgets the peer before the command is known to work.
RemovePeerTableFirst(k) ==
  /\ \/ UNCHANGED iface
     \/ iface' = [iface EXCEPT ![k] = None]
  /\ IF peers[k] = None THEN UNCHANGED <<peers, pool4, pool6>>
     ELSE /\ peers' = [peers EXCEPT ![k] = None]
          /\ pool4' = Release(pool4, peers[k].v4)
          /\ pool6' = Release(pool6, peers[k].v6)
  /\ UNCHANGED <<ipv6, readded>>

\* The command removes a peer the interface does not have, too.
RemovePeer(k) ==
  \/ UNCHANGED vars                                      \* the command failed
  \/ /\ iface' = [iface EXCEPT ![k] = None]
     /\ IF peers[k] = None THEN UNCHANGED <<peers, pool4, pool6>>
        ELSE /\ peers' = [peers EXCEPT ![k] = None]
             /\ pool4' = Release(pool4, peers[k].v4)
             /\ pool6' = Release(pool6, peers[k].v6)
     /\ UNCHANGED <<ipv6, readded>>

Next == \E k \in Key : AddPeer(k) \/ RemovePeer(k)

Spec == Init /\ [][Next]_vars

-----------------------------------------------------------------------------
(* Properties.                                                             *)

\* A pool never loses an address nor holds one twice: each host address it has
\* passed is reserved, or available exactly once; the others are untouched.
Accounted(pool, hosts) ==
  /\ IsInjective(pool.available)
  /\ Range(pool.available) \cap pool.reserved = {}
  /\ Range(pool.available) \cup pool.reserved = {a \in hosts : a < pool.current}

\* Both pools, through every failure of AddPeer and RemovePeer.
PoolsAccounted == Accounted(pool4, Hosts4) /\ Accounted(pool6, Hosts6)

\* No two peers on the interface were given one address, and the kernel took
\* none away from a peer to give it to another.
AddressesDistinct ==
  \A k, l \in Key : (iface[k] # None /\ iface[l] # None) =>
    /\ iface[k].v4 # NoAddress
    /\ k # l => iface[k].v4 # iface[l].v4
    /\ EnableIPv6 => iface[k].v6 # NoAddress /\ (k # l => iface[k].v6 # iface[l].v6)

\* PeerCount, HasPeer (the table) and Peers (the interface) speak of the same
\* peers, whichever command failed: the session engine takes them for one.
TableMatches == \A k \in Key : peers[k] = None <=> iface[k] = None

Given == (readded \cup {peers[k] : k \in Key}) \ {None}

\* An address stays reserved only for a peer of the table.  The exception is
\* AddPeer for a key that is there already: its new address is never released.
LeaksOnlyReadded ==
  /\ \A a \in pool4.reserved : \E ips \in Given : ips.v4 = a
  /\ \A a \in pool6.reserved : \E ips \in Given : ips.v6 = a

\* The pool refuses only when every host address of the network is in use.
FullOnlyWhenUsed ==
  Full(Ready4(pool4), Last4) => Hosts4 \subseteq pool4.reserved

-----------------------------------------------------------------------------
(* The inductive invariant.                                                *)

\* A pool in order, past its first address.
PoolOK(pool, hosts, first) ==
  pool \in Pool(hosts) /\ Accounted(pool, hosts) /\ pool.current >= first

\* The addresses a key has in the table or on the interface.
Of4(k) == {ips.v4 : ips \in {peers[k], iface[k]} \ {None}}
Of6(k) == {ips.v6 : ips \in {peers[k], iface[k]} \ {None}}

\* They are reserved, and no other key has them; without IPv6 there are none.
Owned ==
  \A k \in Key :
    /\ Of4(k) \subseteq pool4.reserved
    /\ Of6(k) \subseteq IF EnableIPv6 THEN pool6.reserved ELSE {NoAddress}
    /\ \A l \in Key \ {k} :
         Of4(k) \cap Of4(l) = {} /\ (EnableIPv6 => Of6(k) \cap Of6(l) = {})

IInv ==
  /\ TypeOK
  /\ PoolOK(pool4, Hosts4, First4) /\ PoolOK(pool6, Hosts6, First6)
  /\ TableMatches /\ LeaksOnlyReadded /\ Owned
=============================================================================
