-------------------------- MODULE WireGuardProofs --------------------------
(***************************************************************************)
(* No address is lost, held twice or given to two peers, for any networks  *)
(* and any number of peers.                                                *)
(***************************************************************************)
EXTENDS WireGuard, TLAPS

\* Skipping passes no host address.
LEMMA SkipFacts ==
  ASSUME NEW a \in Nat
  PROVE  /\ Skip4(a) \in Nat /\ Skip4(a) >= a /\ Host4(Skip4(a))
         /\ \A b \in Nat : (b < Skip4(a) /\ Host4(b)) => b < a
BY DEF Skip4, Host4

\* Skipping keeps the IPv4 pool's account, and ends at a host or past the net.
LEMMA ReadyFacts ==
  ASSUME PoolOK(pool4, Hosts4, First4)
  PROVE  LET at4 == Ready4(pool4) IN
         /\ PoolOK(at4, Hosts4, First4)
         /\ at4.reserved = pool4.reserved
         /\ ~Full(at4, Last4) => (at4.available = <<>> => at4.current \in Hosts4)
<1>1. /\ pool4 \in Pool(Hosts4) /\ pool4.current \in Nat
      /\ pool4.current >= First4 /\ First4 \in Nat /\ Last4 \in Nat
  BY Zenon, WireGuardAssumption DEF PoolOK, Pool
<1>2. CASE pool4.available # <<>>
  BY Zenon, <1>2, <1>1 DEF Ready4, Full
<1>3. CASE pool4.available = <<>>
  <2> DEFINE at4 == Ready4(pool4)
  <2>1. at4 = [pool4 EXCEPT !.current = Skip4(pool4.current)]
    BY Zenon, <1>3 DEF Ready4
  <2>2. /\ at4.available = <<>> /\ at4.reserved = pool4.reserved
        /\ at4.current = Skip4(pool4.current)
        /\ at4 \in Pool(Hosts4)
    BY Zenon, <1>1, <1>3, <2>1, SkipFacts DEF Pool
  <2> HIDE DEF at4
  <2>3. /\ at4.current \in Nat /\ at4.current >= First4 /\ Host4(at4.current)
        /\ \A b \in Nat : (b < at4.current /\ Host4(b)) => b < pool4.current
        /\ at4.current >= pool4.current
    BY <1>1, <2>2, SkipFacts
  <2>4. \A a \in Hosts4 : a < at4.current <=> a < pool4.current
    BY <1>1, <2>3 DEF Hosts4
  <2>5. Accounted(at4, Hosts4)
    BY Zenon, <1>3, <2>2, <2>4 DEF PoolOK, Accounted
  <2>6. ~Full(at4, Last4) => at4.current \in Hosts4
    BY <1>1, <2>2, <2>3 DEF Full, Hosts4
  <2> QED
    BY Zenon, <2>2, <2>3, <2>5, <2>6 DEF PoolOK, at4
<1> QED
  BY Zenon, <1>2, <1>3

\* Get keeps the account and reserves one address that was not.
LEMMA TakenFacts ==
  ASSUME NEW H \in SUBSET Nat, NEW first \in Nat, NEW pool, PoolOK(pool, H, first),
         pool.available = <<>> => pool.current \in H
  PROVE  LET got == Taken(pool) IN
         /\ PoolOK(got.pool, H, first)
         /\ got.ip \in H /\ got.ip \notin pool.reserved
         /\ got.pool.reserved = pool.reserved \cup {got.ip}
<1> DEFINE got == Taken(pool)
<1>1. /\ pool \in Pool(H) /\ pool.current \in Nat /\ pool.available \in Seq(H)
      /\ pool.reserved \in SUBSET H
  BY Zenon DEF PoolOK, Pool
<1>2. CASE pool.available = <<>>
  <2>1. /\ got.ip = pool.current
        /\ got.pool = [current |-> pool.current + 1, available |-> <<>>,
                       reserved |-> pool.reserved \cup {pool.current}]
    BY Zenon, <1>2 DEF Taken
  <2> HIDE DEF got
  <2>2. /\ got.pool.current = pool.current + 1
        /\ got.pool.available = <<>>
        /\ got.pool.reserved = pool.reserved \cup {pool.current}
        /\ got.pool \in Pool(H)
    BY <1>1, <1>2, <2>1 DEF Pool
  <2>3. Range(<<>>) = {}
    BY DEF Range
  <2>4. pool.reserved = {a \in H : a < pool.current}
    BY Zenon, <1>2, <2>3 DEF PoolOK, Accounted
  <2>5. Accounted(got.pool, H)
    <3>1. got.pool.reserved = {a \in H : a < got.pool.current}
      <4>1. \A a \in H : a < pool.current + 1 <=> a < pool.current \/ a = pool.current
        BY <1>1
      <4> QED
        BY Zenon, <1>2, <2>2, <2>4, <4>1
    <3>2. IsInjective(got.pool.available)
      BY Zenon, <1>2, <2>2 DEF PoolOK, Accounted
    <3> QED
      BY Zenon, <2>2, <2>3, <3>1, <3>2 DEF Accounted
  <2> QED
    BY <1>1, <1>2, <2>1, <2>2, <2>4, <2>5 DEF PoolOK, got
<1>3. CASE pool.available # <<>>
  <2> DEFINE s == pool.available
  <2>1. /\ got.ip = Head(s)
        /\ got.pool = [current |-> pool.current, available |-> Tail(s),
                       reserved |-> pool.reserved \cup {Head(s)}]
    BY Zenon, <1>3 DEF Taken
  <2> HIDE DEF got
  <2>2. /\ got.pool.current = pool.current
        /\ got.pool.available = Tail(s)
        /\ got.pool.reserved = pool.reserved \cup {Head(s)}
        /\ got.pool \in Pool(H)
    BY <1>1, <1>3, <2>1 DEF Pool
  <2>3. /\ Len(s) \in Nat /\ Len(s) > 0 /\ DOMAIN s = 1..Len(s)
        /\ Head(s) = s[1] /\ Len(Tail(s)) = Len(s) - 1
        /\ DOMAIN Tail(s) = 1..(Len(s) - 1)
        /\ \A i \in 1..(Len(s) - 1) : Tail(s)[i] = s[i + 1]
    BY <1>1, <1>3
  <2>4. /\ IsInjective(s) /\ Range(s) \cap pool.reserved = {}
        /\ Range(s) \cup pool.reserved = {a \in H : a < pool.current}
    BY Zenon DEF PoolOK, Accounted
  <2>5. IsInjective(Tail(s)) /\ Head(s) \notin Range(Tail(s))
    <3>1. \A i, j \in 1..Len(s) : s[i] = s[j] => i = j
      BY Zenon, <2>3, <2>4 DEF IsInjective
    <3>2. ASSUME NEW i \in 1..(Len(s) - 1), NEW j \in 1..(Len(s) - 1),
                 Tail(s)[i] = Tail(s)[j]
          PROVE  i = j
      <4>1. s[i + 1] = s[j + 1]
        BY Zenon, <2>3, <3>2
      <4>2. i + 1 \in 1..Len(s) /\ j + 1 \in 1..Len(s) /\ (i + 1 = j + 1 => i = j)
        BY ONLY <2>3, i \in 1..(Len(s) - 1), j \in 1..(Len(s) - 1)
      <4> QED
        BY Zenon, <3>1, <4>1, <4>2
    <3>3. ASSUME NEW i \in 1..(Len(s) - 1) PROVE Tail(s)[i] # s[1]
      <4>1. i + 1 \in 1..Len(s) /\ 1 \in 1..Len(s) /\ i + 1 # 1
        BY ONLY <2>3, i \in 1..(Len(s) - 1)
      <4> QED
        BY Zenon, <2>3, <3>1, <4>1
    <3>4. IsInjective(Tail(s))
      BY Zenon, <2>3, <3>2 DEF IsInjective
    <3>5. Head(s) \notin Range(Tail(s))
      BY Zenon, <2>3, <3>3 DEF Range
    <3> QED
      BY Zenon, <3>4, <3>5
  <2>6. Range(s) = Range(Tail(s)) \cup {Head(s)}
    <3>1. \A i \in DOMAIN s : s[i] = Head(s) \/ s[i] \in Range(Tail(s))
      <4>1. ASSUME NEW i \in 1..Len(s), i # 1
            PROVE  s[i] = Tail(s)[i - 1] /\ i - 1 \in DOMAIN Tail(s)
        BY <2>3, <4>1
      <4> QED
        BY Zenon, <2>3, <4>1 DEF Range
    <3>2. \A i \in DOMAIN Tail(s) : Tail(s)[i] \in Range(s)
      BY <2>3 DEF Range
    <3>3. 1 \in DOMAIN s
      BY ONLY <2>3
    <3>4. Head(s) \in Range(s)
      BY Zenon, <2>3, <3>3 DEF Range
    <3>5. ASSUME NEW v \in Range(s) PROVE v \in Range(Tail(s)) \cup {Head(s)}
      BY Zenon, <3>1, <3>5 DEF Range
    <3>6. ASSUME NEW v \in Range(Tail(s)) PROVE v \in Range(s)
      BY Zenon, <3>2, <3>6 DEF Range
    <3> QED
      BY Zenon, <3>4, <3>5, <3>6
  <2>7. Accounted(got.pool, H)
    BY Zenon, <2>2, <2>4, <2>5, <2>6 DEF Accounted
  <2>8. Head(s) \in H
    BY <1>1, <2>3
  <2> QED
    BY Zenon, <2>1, <2>2, <2>4, <2>6, <2>7, <2>8 DEF PoolOK, got
<1> QED
  BY Zenon, <1>2, <1>3

\* The reservations of `new' are those of `pool' without ip.
Freed(new, pool, ip) == new.reserved = pool.reserved \ {ip}

\* Release keeps the account and gives up that reservation only.
LEMMA ReleaseFacts ==
  ASSUME NEW H \in SUBSET Nat, NEW first \in Nat, NEW pool, PoolOK(pool, H, first),
         NEW ip
  PROVE  /\ PoolOK(Release(pool, ip), H, first)
         /\ Freed(Release(pool, ip), pool, ip)
<1>1. /\ pool \in Pool(H) /\ pool.current \in Nat /\ pool.available \in Seq(H)
      /\ pool.reserved \in SUBSET H
  BY Zenon DEF PoolOK, Pool
<1>2. CASE ip \notin pool.reserved
  BY Zenon, <1>2 DEF Release, Freed
<1>3. CASE ip \in pool.reserved
  <2> DEFINE s == pool.available
             new == Release(pool, ip)
  <2>1. new = [current |-> pool.current, available |-> Append(s, ip),
               reserved |-> pool.reserved \ {ip}]
    BY Zenon, <1>3 DEF Release
  <2> HIDE DEF new
  <2>2. /\ new.current = pool.current
        /\ new.available = Append(s, ip)
        /\ new.reserved = pool.reserved \ {ip}
        /\ new \in Pool(H)
    BY <1>1, <1>3, <2>1 DEF Pool
  <2>3. /\ Len(s) \in Nat /\ DOMAIN s = 1..Len(s)
        /\ DOMAIN Append(s, ip) = 1..(Len(s) + 1)
        /\ \A i \in 1..Len(s) : Append(s, ip)[i] = s[i]
        /\ Append(s, ip)[Len(s) + 1] = ip
    BY <1>1
  <2>4. /\ IsInjective(s) /\ Range(s) \cap pool.reserved = {}
        /\ Range(s) \cup pool.reserved = {a \in H : a < pool.current}
    BY Zenon DEF PoolOK, Accounted
  <2>5. ip \notin Range(s)
    BY Zenon, <1>3, <2>4
  <2>6. IsInjective(Append(s, ip))
    BY <2>3, <2>4, <2>5 DEF IsInjective, Range
  <2>7. Range(Append(s, ip)) = Range(s) \cup {ip}
    <3>1. \A i \in DOMAIN Append(s, ip) : Append(s, ip)[i] \in Range(s) \cup {ip}
      BY <2>3 DEF Range
    <3>2. \A i \in DOMAIN s : s[i] \in Range(Append(s, ip))
      <4>1. \A i \in DOMAIN s : i \in DOMAIN Append(s, ip) /\ s[i] = Append(s, ip)[i]
        BY <2>3
      <4> QED
        BY Zenon, <4>1 DEF Range
    <3>3. ip \in Range(Append(s, ip))
      <4>1. Len(s) + 1 \in DOMAIN Append(s, ip)
        BY <2>3
      <4> QED
        BY Zenon, <2>3, <4>1 DEF Range
    <3> QED
      BY Zenon, <3>1, <3>2, <3>3 DEF Range
  <2>8. Accounted(new, H)
    BY Zenon, <1>3, <2>2, <2>4, <2>5, <2>6, <2>7 DEF Accounted
  <2> QED
    BY Zenon, <2>2, <2>8 DEF PoolOK, Freed, new
<1> QED
  BY Zenon, <1>2, <1>3

\* What the constants say of the networks.
LEMMA Networks ==
  /\ Hosts4 \in SUBSET Nat /\ Hosts6 \in SUBSET Nat
  /\ First4 \in Nat /\ First6 \in Nat /\ Last4 \in Nat /\ Last6 \in Nat
  /\ NoAddress \notin Hosts4 /\ NoAddress \notin Hosts6
BY WireGuardAssumption DEF Hosts4, Hosts6, Host4, NoAddress

\* A step that leaves the peers alone, and the reservations as they were.
LEMMA SameReserved ==
  ASSUME IInv, PoolOK(pool4', Hosts4, First4), PoolOK(pool6', Hosts6, First6),
         pool4'.reserved = pool4.reserved, pool6'.reserved = pool6.reserved,
         UNCHANGED <<ipv6, peers, iface, readded>>
  PROVE  IInv'
<1>1. TypeOK'
  BY Zenon DEF IInv, TypeOK, PoolOK
<1>2. TableMatches' /\ LeaksOnlyReadded'
  BY DEF IInv, TableMatches, LeaksOnlyReadded, Given
<1>3. Owned'
  BY Zenon DEF IInv, Owned, Of4, Of6, EnableIPv6
<1> QED
  BY Zenon, <1>1, <1>2, <1>3 DEF IInv

\* The peer is added: its addresses were nobody's.
LEMMA AddedInv ==
  ASSUME IInv, NEW k \in Key, NEW ips \in Addresses, UNCHANGED ipv6,
         PoolOK(pool4', Hosts4, First4), PoolOK(pool6', Hosts6, First6),
         ips.v4 \notin pool4.reserved,
         pool4'.reserved = pool4.reserved \cup {ips.v4},
         IF EnableIPv6
           THEN /\ ips.v6 \notin pool6.reserved
                /\ pool6'.reserved = pool6.reserved \cup {ips.v6}
           ELSE ips.v6 = NoAddress /\ pool6'.reserved = pool6.reserved,
         SetPeer(k, ips), Put(k, ips),
         readded' = IF peers[k] = None THEN readded ELSE readded \cup {ips}
  PROVE  IInv'
<1>1. /\ peers \in [Key -> Addresses \cup {None}]
      /\ iface \in [Key -> Addresses \cup {None}]
      /\ readded \in SUBSET Addresses
      /\ None \notin Addresses
  BY Zenon, WireGuardAssumption DEF IInv, TypeOK, Addresses
<1>2. /\ \A l \in Key : Of4(l) \subseteq pool4.reserved
      /\ \A l \in Key : EnableIPv6 => Of6(l) \subseteq pool6.reserved
      /\ \A l \in Key : ~EnableIPv6 => Of6(l) \subseteq {NoAddress}
  BY Zenon DEF IInv, Owned
<1>3. \A l \in Key : iface[l] # None =>
        /\ iface[l].v4 \in Of4(l) /\ iface[l].v6 \in Of6(l)
        /\ iface[l] \in Addresses
  BY Zenon, <1>1 DEF Of4, Of6
<1>4. iface'[k] = ips /\ \A l \in Key : l # k => iface'[l] = iface[l]
  <2>1. iface'[k] = ips
    BY Zenon DEF SetPeer
  <2>2. ASSUME NEW l \in Key, l # k PROVE iface'[l] = iface[l]
    <3>1. CASE iface[l] = None
      BY Zenon, <2>2, <3>1 DEF SetPeer
    <3>2. CASE iface[l] # None
      <4>1. iface[l].v4 # ips.v4
        BY Zenon, <1>2, <1>3, <3>2
      <4>2. iface[l].v6 = ips.v6 => iface[l].v6 = NoAddress
        BY Zenon, <1>2, <1>3, <3>2
      <4>3. iface'[l] = [v4 |-> iface[l].v4, v6 |-> iface[l].v6]
        BY Zenon, <2>2, <3>2, <4>1, <4>2 DEF SetPeer
      <4>4. iface[l] = [v4 |-> iface[l].v4, v6 |-> iface[l].v6]
        BY Zenon, <1>3, <3>2 DEF Addresses
      <4> QED
        BY Zenon, <4>3, <4>4
    <3> QED
      BY Zenon, <3>1, <3>2
  <2> QED
    BY Zenon, <2>1, <2>2
<1>5. /\ peers'[k] \in {peers[k], ips} /\ peers'[k] # None
      /\ \A l \in Key : l # k => peers'[l] = peers[l]
      /\ peers[k] = None => peers'[k] = ips
      /\ peers[k] # None => peers'[k] = peers[k]
      /\ peers' \in [Key -> Addresses \cup {None}]
  BY Zenon, <1>1 DEF Put
<1>6. TypeOK'
  <2>1. iface' \in [Key -> Addresses \cup {None}]
    <3>1. iface' = [l \in Key |-> iface'[l]]
      BY Zenon DEF SetPeer
    <3>2. \A l \in Key : iface'[l] \in Addresses \cup {None}
      BY Zenon, <1>1, <1>4
    <3> QED
      BY Zenon, <3>1, <3>2
  <2>2. readded' \in SUBSET Addresses
    BY Zenon, <1>1
  <2> QED
    BY Zenon, <1>5, <2>1, <2>2 DEF IInv, TypeOK, PoolOK
<1>7. TableMatches'
  BY Zenon, <1>1, <1>4, <1>5 DEF IInv, TableMatches
<1>8. LeaksOnlyReadded'
  <2>1. Given \subseteq Given' /\ ips \in Given'
    BY <1>1, <1>5 DEF Given
  <2> QED
    BY <2>1 DEF IInv, LeaksOnlyReadded
<1>9. Owned'
  <2>1. \A l \in Key : l # k => Of4(l)' = Of4(l) /\ Of6(l)' = Of6(l)
    BY Zenon, <1>4, <1>5 DEF Of4, Of6
  <2>2. Of4(k)' \subseteq Of4(k) \cup {ips.v4} /\ Of6(k)' \subseteq Of6(k) \cup {ips.v6}
    BY <1>4, <1>5 DEF Of4, Of6
  <2>3. \A l \in Key : /\ Of4(l)' \subseteq pool4'.reserved
                      /\ Of6(l)' \subseteq IF EnableIPv6 THEN pool6'.reserved ELSE {NoAddress}
    BY <1>2, <2>1, <2>2
  <2>4. \A l \in Key \ {k} :
          /\ Of4(k) \cap Of4(l) = {} /\ ips.v4 \notin Of4(l)
          /\ EnableIPv6 => Of6(k) \cap Of6(l) = {} /\ ips.v6 \notin Of6(l)
    BY Zenon, <1>2 DEF IInv, Owned
  <2>5. \A l, m \in Key : l # m =>
          Of4(l)' \cap Of4(m)' = {} /\ (EnableIPv6 => Of6(l)' \cap Of6(m)' = {})
    <3> SUFFICES ASSUME NEW l \in Key, NEW m \in Key, l # m
                 PROVE  Of4(l)' \cap Of4(m)' = {} /\ (EnableIPv6 => Of6(l)' \cap Of6(m)' = {})
      OBVIOUS
    <3>1. CASE l = k
      BY <2>1, <2>2, <2>4, <3>1
    <3>2. CASE m = k
      BY <2>1, <2>2, <2>4, <3>2
    <3>3. CASE l # k /\ m # k
      BY Zenon, <2>1, <3>3 DEF IInv, Owned
    <3> QED
      BY Zenon, <3>1, <3>2, <3>3
  <2> QED
    BY Zenon, <2>3, <2>5 DEF Owned, EnableIPv6
<1> QED
  BY Zenon, <1>6, <1>7, <1>8, <1>9 DEF IInv

\* AddPeer, through each of its failures.
LEMMA AddPeerInv ==
  ASSUME IInv, NEW k \in Key, AddPeer(k)
  PROVE  IInv'
<1> DEFINE at4 == Ready4(pool4)
           got4 == Taken(at4)
           got6 == Taken(pool6)
           v6 == IF EnableIPv6 THEN got6.ip ELSE NoAddress
           left6 == IF EnableIPv6 THEN got6.pool ELSE Release(got6.pool, got6.ip)
           ips == [v4 |-> got4.ip, v6 |-> v6]
<1>1. PoolOK(pool4, Hosts4, First4) /\ PoolOK(pool6, Hosts6, First6)
  BY Zenon DEF IInv
<1>2. /\ PoolOK(at4, Hosts4, First4) /\ at4.reserved = pool4.reserved
      /\ ~Full(at4, Last4) => (at4.available = <<>> => at4.current \in Hosts4)
  BY Zenon, <1>1, ReadyFacts
<1>3. ~Full(pool6, Last6) => (pool6.available = <<>> => pool6.current \in Hosts6)
  BY <1>1, Networks DEF PoolOK, Pool, Full, Hosts6
<1>4. ~Full(at4, Last4) =>
        /\ PoolOK(got4.pool, Hosts4, First4)
        /\ got4.ip \in Hosts4 /\ got4.ip \notin pool4.reserved
        /\ got4.pool.reserved = pool4.reserved \cup {got4.ip}
  <2> HIDE DEF at4
  <2> QED
    BY Zenon, <1>2, Networks, TakenFacts
<1>5. ~Full(pool6, Last6) =>
        /\ PoolOK(got6.pool, Hosts6, First6)
        /\ got6.ip \in Hosts6 /\ got6.ip \notin pool6.reserved
        /\ got6.pool.reserved = pool6.reserved \cup {got6.ip}
  BY Zenon, <1>1, <1>3, Networks, TakenFacts
<1> HIDE DEF at4, got4, got6
<1>6. ~Full(at4, Last4) =>
        /\ PoolOK(Release(got4.pool, got4.ip), Hosts4, First4)
        /\ Release(got4.pool, got4.ip).reserved = pool4.reserved
  <2>1. ~Full(at4, Last4) =>
          /\ PoolOK(Release(got4.pool, got4.ip), Hosts4, First4)
          /\ Freed(Release(got4.pool, got4.ip), got4.pool, got4.ip)
    BY Zenon, <1>4, Networks, ReleaseFacts
  <2> QED
    BY Zenon, <1>4, <2>1 DEF Freed
<1>7. ~Full(pool6, Last6) =>
        /\ PoolOK(Release(got6.pool, got6.ip), Hosts6, First6)
        /\ Release(got6.pool, got6.ip).reserved = pool6.reserved
  <2>1. ~Full(pool6, Last6) =>
          /\ PoolOK(Release(got6.pool, got6.ip), Hosts6, First6)
          /\ Freed(Release(got6.pool, got6.ip), got6.pool, got6.ip)
    BY Zenon, <1>5, Networks, ReleaseFacts
  <2> QED
    BY Zenon, <1>5, <2>1 DEF Freed
<1>8. ~Full(pool6, Last6) =>
        /\ PoolOK(left6, Hosts6, First6)
        /\ left6.reserved = IF EnableIPv6 THEN pool6.reserved \cup {v6}
                            ELSE pool6.reserved
  BY Zenon, <1>5, <1>7
<1>9. NoAddress \notin pool6.reserved
  BY Zenon, <1>1, Networks DEF PoolOK, Pool
<1> HIDE DEF left6
<1>10. ~Full(pool6, Last6) =>
        /\ PoolOK(Release(left6, v6), Hosts6, First6)
        /\ Release(left6, v6).reserved = pool6.reserved
  <2>1. ASSUME ~Full(pool6, Last6)
        PROVE  /\ PoolOK(Release(left6, v6), Hosts6, First6)
               /\ Freed(Release(left6, v6), left6, v6)
    BY Zenon, <1>8, <2>1, Networks, ReleaseFacts
  <2> QED
    BY <1>5, <1>8, <1>9, <2>1 DEF Freed
<1>11. CASE /\ Full(at4, Last4) /\ pool4' = at4
            /\ UNCHANGED <<ipv6, pool6, peers, iface, readded>>
  BY Zenon, <1>1, <1>2, <1>11, SameReserved
<1>12. CASE /\ ~Full(at4, Last4) /\ Full(pool6, Last6)
            /\ pool4' = Release(got4.pool, got4.ip)
            /\ UNCHANGED <<ipv6, pool6, peers, iface, readded>>
  BY Zenon, <1>1, <1>6, <1>12, SameReserved
<1>13. CASE /\ ~Full(at4, Last4) /\ ~Full(pool6, Last6)
            /\ pool4' = Release(got4.pool, got4.ip) /\ pool6' = Release(left6, v6)
            /\ UNCHANGED <<ipv6, peers, iface, readded>>
  BY Zenon, <1>6, <1>10, <1>13, SameReserved
<1>14. CASE /\ ~Full(at4, Last4) /\ ~Full(pool6, Last6)
            /\ pool4' = got4.pool /\ pool6' = left6
            /\ SetPeer(k, ips) /\ Put(k, ips) /\ UNCHANGED ipv6
            /\ readded' = IF peers[k] = None THEN readded ELSE readded \cup {ips}
  <2>1. ips \in Addresses /\ ips.v4 = got4.ip /\ ips.v6 = v6
    BY Zenon, <1>4, <1>5, <1>14, Networks DEF Addresses, NoAddress
  <2>2. IF EnableIPv6
          THEN v6 \notin pool6.reserved /\ pool6'.reserved = pool6.reserved \cup {v6}
          ELSE v6 = NoAddress /\ pool6'.reserved = pool6.reserved
    BY Zenon, <1>5, <1>8, <1>14
  <2> HIDE DEF ips, v6
  <2> QED
    BY Zenon, <1>4, <1>8, <1>14, <2>1, <2>2, AddedInv
<1> QED
  BY Zenon, <1>11, <1>12, <1>13, <1>14 DEF AddPeer, at4, got4, got6, left6

\* RemovePeer: what is released was this peer's alone.
LEMMA RemovePeerInv ==
  ASSUME IInv, NEW k \in Key, RemovePeer(k)
  PROVE  IInv'
<1>1. /\ peers \in [Key -> Addresses \cup {None}]
      /\ iface \in [Key -> Addresses \cup {None}]
      /\ None \notin Addresses
      /\ PoolOK(pool4, Hosts4, First4) /\ PoolOK(pool6, Hosts6, First6)
  BY Zenon, WireGuardAssumption DEF IInv, TypeOK, Addresses
<1>2. CASE UNCHANGED vars
  BY Zenon, <1>1, <1>2, SameReserved DEF vars
<1>3. CASE iface' = [iface EXCEPT ![k] = None] /\ peers[k] = None
           /\ UNCHANGED <<ipv6, peers, pool4, pool6, readded>>
  <2>1. iface' = iface
    BY Zenon, <1>1, <1>3 DEF IInv, TableMatches
  <2> QED
    BY Zenon, <1>1, <1>3, <2>1, SameReserved
<1>4. CASE /\ iface' = [iface EXCEPT ![k] = None] /\ peers[k] # None
           /\ peers' = [peers EXCEPT ![k] = None]
           /\ pool4' = Release(pool4, peers[k].v4)
           /\ pool6' = Release(pool6, peers[k].v6)
           /\ UNCHANGED <<ipv6, readded>>
  <2>1. /\ PoolOK(pool4', Hosts4, First4)
        /\ pool4'.reserved = pool4.reserved \ {peers[k].v4}
    <3>1. /\ PoolOK(Release(pool4, peers[k].v4), Hosts4, First4)
          /\ Freed(Release(pool4, peers[k].v4), pool4, peers[k].v4)
      BY Zenon, <1>1, Networks, ReleaseFacts
    <3> QED
      BY Zenon, <1>4, <3>1 DEF Freed
  <2>2. /\ PoolOK(pool6', Hosts6, First6)
        /\ pool6'.reserved = pool6.reserved \ {peers[k].v6}
    <3>1. /\ PoolOK(Release(pool6, peers[k].v6), Hosts6, First6)
          /\ Freed(Release(pool6, peers[k].v6), pool6, peers[k].v6)
      BY Zenon, <1>1, Networks, ReleaseFacts
    <3> QED
      BY Zenon, <1>4, <3>1 DEF Freed
  <2>3. /\ peers'[k] = None /\ iface'[k] = None
        /\ \A l \in Key : l # k => peers'[l] = peers[l] /\ iface'[l] = iface[l]
        /\ peers' \in [Key -> Addresses \cup {None}]
        /\ iface' \in [Key -> Addresses \cup {None}]
    BY Zenon, <1>1, <1>4
  <2>4. TypeOK'
    BY Zenon, <1>4, <2>1, <2>2, <2>3 DEF IInv, TypeOK, PoolOK
  <2>5. TableMatches'
    BY Zenon, <2>3 DEF IInv, TableMatches
  <2>6. LeaksOnlyReadded'
    <3>1. \A x \in Given : x # peers[k] => x \in Given'
      BY Zenon, <1>4, <2>3 DEF Given
    <3> QED
      BY Zenon, <2>1, <2>2, <3>1 DEF IInv, LeaksOnlyReadded
  <2>7. Owned'
    <3>1. Of4(k)' = {} /\ Of6(k)' = {}
      BY Zenon, <2>3 DEF Of4, Of6
    <3>2. \A l \in Key : l # k => Of4(l)' = Of4(l) /\ Of6(l)' = Of6(l)
      BY Zenon, <2>3 DEF Of4, Of6
    <3>3. peers[k].v4 \in Of4(k) /\ peers[k].v6 \in Of6(k)
      BY Zenon, <1>4 DEF Of4, Of6
    <3>4. \A l \in Key : /\ Of4(l)' \subseteq pool4'.reserved
                        /\ Of6(l)' \subseteq IF EnableIPv6 THEN pool6'.reserved
                                             ELSE {NoAddress}
      BY <2>1, <2>2, <3>1, <3>2, <3>3 DEF IInv, Owned
    <3>5. \A l, m \in Key : l # m =>
            Of4(l)' \cap Of4(m)' = {} /\ (EnableIPv6 => Of6(l)' \cap Of6(m)' = {})
      BY Zenon, <3>1, <3>2 DEF IInv, Owned
    <3> QED
      BY Zenon, <1>4, <3>4, <3>5 DEF Owned, EnableIPv6
  <2> QED
    BY Zenon, <2>1, <2>2, <2>4, <2>5, <2>6, <2>7 DEF IInv
<1> QED
  BY Zenon, <1>2, <1>3, <1>4 DEF RemovePeer, vars

\* The pools start empty, at their first addresses.
LEMMA InitInv == Init => IInv
<1> SUFFICES ASSUME Init PROVE IInv
  OBVIOUS
<1>1. \A H, f : f \in Nat /\ (\A a \in H : a \in Nat /\ a >= f) =>
        PoolOK(NewPool(f), H, f)
  <2>1. <<>> \in Seq({}) /\ Range(<<>>) = {} /\ IsInjective(<<>>)
    BY DEF Range, IsInjective
  <2> QED
    BY <2>1 DEF PoolOK, NewPool, Pool, Accounted
<1>2. PoolOK(pool4, Hosts4, First4) /\ PoolOK(pool6, Hosts6, First6)
  BY <1>1, Networks DEF Init, Hosts4, Hosts6
<1>3. TypeOK
  BY Zenon, <1>2 DEF Init, TypeOK, PoolOK
<1>4. TableMatches /\ LeaksOnlyReadded /\ Owned
  BY DEF Init, NewPool, TableMatches, LeaksOnlyReadded, Owned, Of4, Of6
<1> QED
  BY Zenon, <1>2, <1>3, <1>4 DEF IInv

\* The invariant of the service holds in every state, whichever commands fail.
THEOREM Invariant == Spec => []IInv
<1>1. IInv /\ [Next]_vars => IInv'
  <2> SUFFICES ASSUME IInv, [Next]_vars PROVE IInv'
    OBVIOUS
  <2>1. CASE UNCHANGED vars
    BY Zenon, <2>1, SameReserved DEF vars, IInv
  <2>2. CASE Next
    BY Zenon, <2>2, AddPeerInv, RemovePeerInv DEF Next
  <2> QED
    BY Zenon, <2>1, <2>2
<1> QED
  BY <1>1, InitInv, PTL DEF Spec

\* No address is lost by a pool, or available twice, through every failure.
THEOREM PoolsKeepAddresses == Spec => []PoolsAccounted
<1>1. IInv => PoolsAccounted
  BY Zenon DEF IInv, PoolOK, PoolsAccounted
<1> QED
  BY <1>1, Invariant, PTL

\* No two peers on the interface share an address.
THEOREM DistinctAddresses == Spec => []AddressesDistinct
<1>1. IInv => AddressesDistinct
  <2> SUFFICES ASSUME IInv, NEW k \in Key, NEW l \in Key, iface[k] # None, iface[l] # None
               PROVE  /\ iface[k].v4 # NoAddress
                      /\ k # l => iface[k].v4 # iface[l].v4
                      /\ EnableIPv6 => /\ iface[k].v6 # NoAddress
                                       /\ k # l => iface[k].v6 # iface[l].v6
    BY Zenon DEF AddressesDistinct
  <2>1. /\ iface[k].v4 \in Of4(k) /\ iface[l].v4 \in Of4(l)
        /\ iface[k].v6 \in Of6(k) /\ iface[l].v6 \in Of6(l)
    BY Zenon DEF Of4, Of6
  <2>2. NoAddress \notin pool4.reserved /\ NoAddress \notin pool6.reserved
    BY Zenon, Networks DEF IInv, PoolOK, Pool
  <2> QED
    BY Zenon, <2>1, <2>2 DEF IInv, Owned
<1> QED
  BY <1>1, Invariant, PTL

\* The table of peers and the interface never come apart.
THEOREM TableIsInterface == Spec => []TableMatches
<1>1. IInv => TableMatches
  BY Zenon DEF IInv
<1> QED
  BY <1>1, Invariant, PTL

\* The IPv4 pool is full only when every host address is reserved.
THEOREM NoEarlyRefusal == Spec => []FullOnlyWhenUsed
<1>1. ASSUME IInv, Full(Ready4(pool4), Last4) PROVE Hosts4 \subseteq pool4.reserved
  <2> DEFINE at4 == Ready4(pool4)
  <2>1. PoolOK(at4, Hosts4, First4) /\ at4.reserved = pool4.reserved
    BY Zenon, <1>1, ReadyFacts DEF IInv
  <2>2. at4.available = <<>> /\ at4.current > Last4
    BY Zenon, <1>1 DEF Full
  <2> HIDE DEF at4
  <2>3. Range(<<>>) = {}
    BY DEF Range
  <2>4. at4.reserved = {a \in Hosts4 : a < at4.current}
    BY Zenon, <2>1, <2>2, <2>3 DEF PoolOK, Accounted
  <2>5. \A a \in Hosts4 : a < at4.current
    BY <2>1, <2>2, Networks DEF Hosts4, PoolOK, Pool
  <2> QED
    BY Zenon, <2>1, <2>4, <2>5
<1>2. IInv => FullOnlyWhenUsed
  BY Zenon, <1>1 DEF FullOnlyWhenUsed
<1> QED
  BY <1>2, Invariant, PTL

\* The pools and the tables keep their types; an address is of its network.
THEOREM TypeCorrect == Spec => []TypeOK
<1>1. IInv => TypeOK
  BY Zenon DEF IInv
<1> QED
  BY <1>1, Invariant, PTL

\* Through every failure of AddPeer and RemovePeer, an address stays reserved
\* without a peer only after a key was added a second time.
THEOREM NoOtherLeaks == Spec => []LeaksOnlyReadded
<1>1. IInv => LeaksOnlyReadded
  BY Zenon DEF IInv
<1> QED
  BY <1>1, Invariant, PTL
=============================================================================
