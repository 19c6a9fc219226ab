--------------------------- MODULE StartupProofs ----------------------------
(***************************************************************************)
(* What a start promises, for any configuration file, any grants on the    *)
(* chain, any timeouts and any answers of the location sources; and then   *)
(* what the figure a node advertises comes from, for any speed-test        *)
(* servers, budgets, floors and declarations.                              *)
(***************************************************************************)
EXTENDS Startup, TLAPS

-----------------------------------------------------------------------------
(* Intervals and fees.                                                     *)

\* Clamp keeps an interval positive and within 80% of a timeout.
LEMMA Clamped ==
  ASSUME NEW i \in Int, i > 0, NEW t \in Nat \ {1}
  PROVE  /\ Clamp(i, t) \in Int /\ Clamp(i, t) > 0
         /\ Fits(Clamp(i, t), t)
BY DEF Clamp, Fits

\* A validated configuration asks for at least one transaction in the window.
LEMMA FeesCover ==
  ASSUME NEW c \in Configs, Validate(c), NEW d \in DOMAIN Fees(c)
  PROVE  Fees(c)[d] \in Nat /\ Fees(c)[d] >= TxFee
<1> DEFINE seconds == GrantWarningWindow * 7 * 86400
           a == c.interval_update_status
           b == c.interval_update_sessions
           n == seconds \div a
           m == seconds \div b
<1>1. a \in 10..MaxIntervalUpdateStatus /\ b \in 10..MaxIntervalUpdateSessions
  BY Zenon DEF Validate, ValidateSections, NodeValid
<1>2. /\ MaxIntervalUpdateStatus \in Nat /\ MaxIntervalUpdateSessions \in Nat
      /\ seconds \in Nat /\ MaxIntervalUpdateStatus <= seconds
  BY SMT DEF MaxIntervalUpdateSessions, MaxIntervalUpdateStatus, GrantWarningWindow
<1> HIDE DEF seconds, a, b
<1>3. a \in Nat /\ b \in Nat /\ a > 0 /\ b > 0 /\ a <= seconds
  BY ONLY SMT, <1>1, <1>2
<1>4. n \in Nat /\ m \in Nat /\ n >= 1
  BY ONLY SMT, <1>2, <1>3
<1>5. Fees(c)[d] = TxFee * (n + m)
  BY SMT, <1>3 DEF Fees, ExpectedFees, a, b, seconds
<1> HIDE DEF n, m
<1>6. TxFee \in Nat
  BY Zenon, StartupAssumption
<1>7. TxFee * (n + m) \in Nat /\ TxFee * (n + m) >= TxFee
  BY ONLY SMT, <1>4, <1>6
<1> QED
  BY Zenon, <1>5, <1>7

-----------------------------------------------------------------------------
(* Grants.                                                                 *)

\* The allowance the node looks at is a plain one.
LEMMA InnerBasic ==
  ASSUME NEW g \in Granted, g.allowance # Never
  PROVE  /\ Inner(g.allowance) \in Basics
         /\ \A d : /\ Inner(g.allowance).limit # Never
                   => Left(Inner(g.allowance).limit, d) \in Nat
<1>1. Inner(g.allowance) \in Basics
  BY DEF Inner, Granted, Basics
<1> QED
  BY <1>1 DEF Basics, SpendLimit, Left

\* A refusal is the chain's: some message would fail now.
LEMMA RefusedRightly ==
  ASSUME NEW g \in Granted, NEW t \in Nat, NEW fees,
         Problems(t, g.grants, g.allowance, fees) # {}
  PROVE  \E m \in NodeMsgs : ~Authorised(m, t, g.grants, g.allowance, DOMAIN fees)
<1>1. CASE GrantProblems(t, g.grants) # {}
  BY Zenon, <1>1 DEF GrantProblems, Authorised
<1>2. CASE g.allowance = Never
  BY Zenon, <1>2 DEF Authorised, NodeMsgs
<1>3. CASE GrantProblems(t, g.grants) = {} /\ g.allowance # Never
  <2> DEFINE a == Inner(g.allowance)
  <2>1. \/ g.allowance.type = "allowed" /\ ~g.allowance.exec
        \/ Expired(a.expiry, t)
        \/ a.limit # Never /\ \E d \in DOMAIN fees : Left(a.limit, d) = 0
    BY Zenon, <1>3 DEF Problems
  <2>2. "status" \in NodeMsgs /\ ~(0 >= TxFee)
    BY StartupAssumption DEF NodeMsgs
  <2> QED
    BY Zenon, <2>1, <2>2 DEF Authorised
<1> QED
  BY Zenon, <1>1, <1>2, <1>3
\* An acceptance without a warning lasts: every message is authorised for the
\* whole window, when the fees expected in it are at least one transaction's.
LEMMA QuietLasts ==
  ASSUME NEW g \in Granted, NEW now0 \in Nat, NEW fees,
         \A d \in DOMAIN fees : fees[d] \in Nat /\ fees[d] >= TxFee,
         Problems(now0, g.grants, g.allowance, fees) = {},
         Warnings(now0, g.grants, g.allowance, fees) = {},
         NEW m \in NodeMsgs, NEW t \in now0..(now0 + GrantWarningWindow - 1)
  PROVE  Authorised(m, t, g.grants, g.allowance, DOMAIN fees)
<1> DEFINE a == Inner(g.allowance)
<1>1. ASSUME NEW e \in Expiry, ~Expired(e, now0), ~Soon(e, now0)
      PROVE  ~Expired(e, t)
  BY <1>1 DEF Expired, Soon, GrantWarningWindow, Expiry
<1>2. g.grants[m] # Never /\ ~Expired(g.grants[m].expiry, now0)
  BY Zenon DEF Problems, GrantProblems
<1>3. ~Soon(g.grants[m].expiry, now0)
  BY Zenon, <1>2 DEF Warnings
<1>4. g.grants[m].expiry \in Expiry
  BY <1>2 DEF Granted
<1>5. g.allowance # Never
  BY Zenon DEF Problems
<1>6. /\ g.allowance.type = "allowed" => g.allowance.exec
      /\ ~Expired(a.expiry, now0)
      /\ a.limit # Never =>
           \A d \in DOMAIN fees : Left(a.limit, d) < fees[d] => Left(a.limit, d) # 0
  BY Zenon, <1>5 DEF Problems
<1>7. /\ ~Soon(a.expiry, now0)
      /\ a.limit # Never =>
           \A d \in DOMAIN fees : Left(a.limit, d) \notin 1..(fees[d] - 1)
  BY Zenon, <1>5 DEF Warnings
<1>8. a.expiry \in Expiry /\ (a.limit # Never => \A d : Left(a.limit, d) \in Nat)
  BY <1>5, InnerBasic DEF Basics
<1>9. ASSUME a.limit # Never, NEW d \in DOMAIN fees PROVE Left(a.limit, d) >= TxFee
  <2>1. /\ Left(a.limit, d) \in Nat /\ fees[d] \in Nat /\ fees[d] >= TxFee
        /\ Left(a.limit, d) < fees[d] => Left(a.limit, d) # 0
        /\ Left(a.limit, d) \notin 1..(fees[d] - 1)
    BY Zenon, <1>6, <1>7, <1>8, <1>9
  <2>2. TxFee \in Nat
    BY Zenon, StartupAssumption
  <2> QED
    BY ONLY <2>1, <2>2
<1>10. ~Expired(g.grants[m].expiry, t) /\ ~Expired(a.expiry, t)
  BY Zenon, <1>1, <1>2, <1>3, <1>4, <1>6, <1>7, <1>8
<1> QED
  BY Zenon, <1>2, <1>5, <1>6, <1>9, <1>10 DEF Authorised

\* What keys authz-commands printed is accepted until its expiry.
LEMMA PrintedLast ==
  ASSUME NEW t \in 0..MaxTime, NEW now0 \in Nat, now0 < t + ValidFor,
         NEW fees, DOMAIN fees \subseteq {"udvpn"}
  PROVE  Problems(now0, PrintedGrants(t, ValidFor),
                  PrintedAllowance(t, ValidFor, PrintedLimit), fees) = {}
<1> DEFINE e == t + ValidFor
           grants == PrintedGrants(t, ValidFor)
           allowance == PrintedAllowance(t, ValidFor, PrintedLimit)
           a == Inner(allowance)
<1>1. t \in Nat /\ ValidFor \in Nat
  BY StartupAssumption, PrintedAssumption
<1>2. ~Expired(e, now0)
  BY <1>1 DEF Expired
<1>3. \A m \in NodeMsgs : grants[m] = [expiry |-> e] /\ grants[m].expiry = e
  BY Zenon DEF PrintedGrants
<1>4. allowance # Never /\ \A m \in NodeMsgs : grants[m] # Never
  BY Zenon, <1>3, PrintedAssumption
<1>5. /\ allowance.type = "allowed" /\ allowance.exec
      /\ a.expiry = e /\ a.limit = PrintedLimit
  BY Zenon DEF PrintedAllowance, AllowedMsg, Basic, Inner
<1>6. \A d \in DOMAIN fees : Left(PrintedLimit, d) # 0
  BY PrintedAssumption DEF Left
<1>7. GrantProblems(now0, grants) = {}
  BY Zenon, <1>2, <1>3, <1>4 DEF GrantProblems
<1> HIDE DEF grants, allowance, a
<1>8. Problems(now0, grants, allowance, fees) = {}
  BY Zenon, <1>2, <1>4, <1>5, <1>6, <1>7 DEF Problems, a
<1> QED
  BY Zenon, <1>8 DEF grants, allowance

-----------------------------------------------------------------------------
(* The location.                                                           *)

\* What a lookup may come to: the country is text the sources use, and its
\* name and code do not contradict each other.
Sound(l) ==
  /\ DOMAIN l = {"ip", "city", "country", "code", "source"}
  /\ l.country \in CountryText /\ l.code \in CountryText
  /\ OneCountry(l.country, l.code)

\* Text of a country keeps its country whatever is done to its letters.
LEMMA CountryFacts ==
  ASSUME NEW t \in CountryText
  PROVE  /\ ToUpper(t) \in CountryText /\ CodeOf(ToUpper(t)) = CodeOf(t)
         /\ \A u \in CountryText :
              EqualFold(t, u) => CodeOf(t) = CodeOf(u) /\ (t = "" <=> u = "")
<1>1. ToUpper(t) \in CountryText
  BY DEF ToUpper, CountryText
<1>2. /\ Fold["ax"] = "AX" /\ Fold["AX"] = "AX"
      /\ \A u \in CountryText : Fold[u] = "" <=> u = ""
  BY DEF Fold, CountryText
<1>3. CodeOf(ToUpper(t)) = CodeOf(t)
  BY <1>2 DEF ToUpper, CodeOf
<1> QED
  BY Zenon, <1>1, <1>2, <1>3 DEF EqualFold, CodeOf

\* A location made of such parts is sound.
LEMMA LocationFacts ==
  ASSUME NEW ip, NEW city, NEW source,
         NEW country \in CountryText, NEW code \in CountryText,
         OneCountry(country, code)
  PROVE  Sound(Location(ip, city, country, code, source))
<1> DEFINE l == Location(ip, city, country, code, source)
<1>1. /\ DOMAIN l = {"ip", "city", "country", "code", "source"}
      /\ l.country = country /\ l.code = code
  BY DEF Location
<1> QED
  BY Zenon, <1>1 DEF Sound

\* The parts of a reply.
LEMMA ReplyFacts ==
  ASSUME NEW r \in [up: BOOLEAN, success: BOOLEAN, ip: STRING, city: STRING,
                    country: CountryText, code: CountryText]
  PROVE  /\ r.ip \in STRING /\ r.city \in STRING
         /\ r.country \in CountryText /\ r.code \in CountryText
OBVIOUS

\* One source's answer is at most one location, and no contradiction.
LEMMA FetchFacts ==
  ASSUME NEW n \in Providers,
         NEW r \in [up: BOOLEAN, success: BOOLEAN, ip: STRING, city: STRING,
                    country: CountryText, code: CountryText],
         OneCountry(r.country, r.code), Fetch(n, r) # <<>>
  PROVE  \E l : Fetch(n, r) = <<l>> /\ Sound(l)
<1>0. /\ r.ip \in STRING /\ r.city \in STRING
      /\ r.country \in CountryText /\ r.code \in CountryText
  BY Zenon, ReplyFacts
<1>1. ToUpper(r.code) \in CountryText /\ ToUpper(r.country) \in CountryText
  BY Zenon, <1>0, CountryFacts
<1>2. /\ "" \in CountryText
      /\ OneCountry("", "") /\ \A c \in CountryText : OneCountry("", c)
  BY Zenon DEF CountryText, OneCountry
<1>3. CASE n = "ipwhois"
  <2>1. Fetch(n, r) = <<Location(r.ip, r.city, r.country, r.code, "ipwho.is")>>
    BY <1>3 DEF Fetch, ParseIPWhois, Full
  <2>2. Sound(Location(r.ip, r.city, r.country, r.code, "ipwho.is"))
    BY Zenon, <1>0, LocationFacts
  <2> QED
    BY Zenon, <2>1, <2>2
<1>4. CASE n = "ip2location"
  <2>1. Fetch(n, r) = <<Location(r.ip, r.city, r.country, r.code, "ip2location.io")>>
    BY <1>4 DEF Fetch, ParseIP2Location, Full
  <2>2. Sound(Location(r.ip, r.city, r.country, r.code, "ip2location.io"))
    BY Zenon, <1>0, LocationFacts
  <2> QED
    BY Zenon, <2>1, <2>2
<1>5. CASE n = "cloudflare"
  <2>1. PICK code \in CountryText :
          Fetch(n, r) = <<Location(r.ip, "", "", code, "cloudflare")>>
    BY <1>1, <1>2, <1>5 DEF Fetch, ParseCloudflare
  <2>2. Sound(Location(r.ip, "", "", code, "cloudflare"))
    BY Zenon, <1>0, <1>2, <2>1, LocationFacts
  <2> QED
    BY Zenon, <2>1, <2>2
<1>6. CASE n = "ipify"
  <2>1. Fetch(n, r) = <<Location(r.ip, "", "", "", "ipify")>>
    BY <1>6 DEF Fetch, ParseIPify
  <2>2. Sound(Location(r.ip, "", "", "", "ipify"))
    BY Zenon, <1>0, <1>2, LocationFacts
  <2> QED
    BY Zenon, <2>1, <2>2
<1>7. CASE n = "ip-api"
  <2>1. Fetch(n, r) = <<Location(r.ip, r.city, r.country, r.code, "ip-api")>>
    BY <1>7 DEF Fetch, ParseIPAPI, Full
  <2>2. Sound(Location(r.ip, r.city, r.country, r.code, "ip-api"))
    BY Zenon, <1>0, LocationFacts
  <2> QED
    BY Zenon, <2>1, <2>2
<1>8. CASE n = "ipinfo"
  <2>1. PICK code \in CountryText :
          /\ Fetch(n, r) = <<Location(r.ip, r.city, r.country, code, "ipinfo")>>
          /\ code = r.code \/ code = ToUpper(r.country)
    BY <1>1, <1>8 DEF Fetch, ParseIPInfo
  <2>2. CodeOf(ToUpper(r.country)) = CodeOf(r.country)
    BY Zenon, <1>0, CountryFacts
  <2>3. OneCountry(r.country, code)
    BY Zenon, <2>1, <2>2 DEF OneCountry
  <2>4. Sound(Location(r.ip, r.city, r.country, code, "ipinfo"))
    BY Zenon, <1>0, <2>3, <2>1, LocationFacts
  <2> QED
    BY Zenon, <2>1, <2>4
<1> QED
  BY Zenon, <1>3, <1>4, <1>5, <1>6, <1>7, <1>8 DEF Providers

\* A static country and the code that goes with it are of one country.
LEMMA StaticCodeFacts ==
  ASSUME NEW static \in CountryText, NEW country \in CountryText,
         NEW code \in CountryText, OneCountry(country, code)
  PROVE  LET c == StaticCode(static, country, code)
         IN /\ OneCountry(IF static = "" THEN country ELSE static, c)
            /\ static = "" => c = code
<1> DEFINE c == StaticCode(static, country, code)
<1>1. CASE static = ""
  <2>1. c = code
    BY <1>1 DEF StaticCode, TwoLetters
  <2> QED
    BY Zenon, <1>1, <2>1
<1>2. CASE static # "" /\ TwoLetters(static)
  <2>1. c = ToUpper(static)
    BY <1>2 DEF StaticCode, TwoLetters
  <2>2. CodeOf(ToUpper(static)) = CodeOf(static)
    BY Zenon, CountryFacts
  <2> QED
    BY Zenon, <1>2, <2>1, <2>2 DEF OneCountry
<1>3. CASE static # "" /\ ~TwoLetters(static)
  <2>1. \/ c = ""
        \/ c = code /\ (EqualFold(static, country) \/ EqualFold(static, code))
    BY <1>3 DEF StaticCode
  <2> HIDE DEF c
  <2>2. EqualFold(static, country) => CodeOf(static) = CodeOf(country) /\ country # ""
    BY Zenon, <1>3, CountryFacts
  <2>3. EqualFold(static, code) => CodeOf(static) = CodeOf(code)
    BY Zenon, CountryFacts
  <2>4. CASE c = code /\ EqualFold(static, country)
    <3>1. code = "" \/ CodeOf(country) = CodeOf(code)
      BY Zenon, <2>2, <2>4 DEF OneCountry
    <3>2. code = "" \/ CodeOf(static) = CodeOf(code)
      BY Zenon, <2>2, <2>4, <3>1
    <3> QED
      BY Zenon, <1>3, <2>4, <3>2 DEF OneCountry, c
  <2>5. CASE c = code /\ EqualFold(static, code)
    BY Zenon, <1>3, <2>3, <2>5 DEF OneCountry, c
  <2>6. CASE c = ""
    BY Zenon, <1>3, <2>6 DEF OneCountry, c
  <2> QED
    BY Zenon, <2>1, <2>4, <2>5, <2>6
<1> QED
  BY Zenon, <1>1, <1>2, <1>3

\* The static values leave the address, and make no contradiction.
LEMMA StaticFacts ==
  ASSUME NEW l, Sound(l), NEW country \in CountryText, NEW city
  PROVE  LET s == ApplyStatic(l, country, city)
         IN /\ s.ip = l.ip /\ OneCountry(s.country, s.code)
            /\ country = "" => s.code = l.code
<1> DEFINE s == ApplyStatic(l, country, city)
<1>1. DOMAIN l = {"ip", "city", "country", "code", "source"}
  BY Zenon DEF Sound
<1>2. /\ s.ip = l.ip
      /\ s.country = IF country = "" THEN l.country ELSE country
  BY <1>1 DEF ApplyStatic
<1>3. s.code = StaticCode(country, l.country, l.code)
  BY <1>1 DEF ApplyStatic
<1> HIDE DEF s
<1>4. /\ l.country \in CountryText /\ l.code \in CountryText
      /\ OneCountry(l.country, l.code)
  BY Zenon DEF Sound
<1>5. LET c == StaticCode(country, l.country, l.code)
      IN /\ OneCountry(IF country = "" THEN l.country ELSE country, c)
         /\ country = "" => c = l.code
  BY Zenon, <1>4, StaticCodeFacts
<1>6. /\ OneCountry(s.country, s.code)
      /\ country = "" => s.code = l.code
  BY Zenon, <1>2, <1>3, <1>5
<1> QED
  BY Zenon, <1>2, <1>6 DEF s

\* What a source answers at an address of the host.
LEMMA AnswerFacts ==
  ASSUME NEW p \in Places, NEW replies \in RepliesAt(p), NEW n \in Providers,
         Fetch(n, replies[n]) # <<>>
  PROVE  \E l : Fetch(n, replies[n]) = <<l>> /\ Sound(l) /\ l.ip = p
<1> DEFINE a == Fetch(n, replies[n])
<1>1. /\ replies \in Sources /\ OneCountry(replies[n].country, replies[n].code)
      /\ a[1].ip = p
  BY Zenon, RepliesAssumption
<1>2. replies[n] \in [up: BOOLEAN, success: BOOLEAN, ip: STRING, city: STRING,
                      country: CountryText, code: CountryText]
  BY Zenon, <1>1 DEF Sources
<1>3. PICK l : a = <<l>> /\ Sound(l)
  BY Zenon, <1>1, <1>2, FetchFacts
<1> HIDE DEF a
<1>4. a[1] = l
  BY <1>3
<1> QED
  BY Zenon, <1>1, <1>3, <1>4 DEF a

\* Who is asked, in which order.
LEMMA AutoOrder ==
  ASSUME NEW replies, NEW ip
  PROVE  LET a(n) == Fetch(n, replies[n])
         IN LookupAuto(replies, ip) =
              IF Placed(a("ipwhois")) THEN a("ipwhois")
              ELSE IF Placed(a("ip2location")) THEN a("ip2location")
              ELSE IF a("cloudflare") # <<>> THEN a("cloudflare")
              ELSE IF a("ipify") # <<>> THEN a("ipify")
              ELSE IF ip # "" THEN <<Location(ip, "", "", "", "none")>> ELSE <<>>
<1> DEFINE a(n) == Fetch(n, replies[n])
           answer == [n \in AutoSources |-> Fetch(n, replies[n])]
           full == {i \in DOMAIN autoChain : Placed(answer[autoChain[i]])}
           first == CHOOSE i \in full : \A j \in full : i <= j
<1>1. /\ answer["ipwhois"] = a("ipwhois") /\ answer["ip2location"] = a("ip2location")
      /\ answer["cloudflare"] = a("cloudflare") /\ answer["ipify"] = a("ipify")
  BY Zenon DEF AutoSources
<1>2. /\ DOMAIN autoChain = {1, 2}
      /\ autoChain[1] = "ipwhois" /\ autoChain[2] = "ip2location"
  BY DEF autoChain
<1> HIDE DEF a, answer
<1>3. /\ full \subseteq {1, 2}
      /\ 1 \in full <=> Placed(a("ipwhois"))
      /\ 2 \in full <=> Placed(a("ip2location"))
  BY Zenon, <1>1, <1>2
<1> HIDE DEF full
<1>4. CASE 1 \in full
  <2>1. \E i \in full : \A j \in full : i <= j
    BY <1>3, <1>4
  <2>2. first \in full /\ \A j \in full : first <= j
    BY Zenon, <2>1
  <2> HIDE DEF first
  <2>3. first = 1
    BY <1>3, <1>4, <2>2
  <2>4. answer[autoChain[first]] = a("ipwhois")
    BY Zenon, <1>1, <1>2, <2>3
  <2> QED
    BY Zenon, <1>3, <1>4, <2>4 DEF LookupAuto, answer, full, first, a
<1>5. CASE 1 \notin full /\ 2 \in full
  <2>1. \E i \in full : \A j \in full : i <= j
    BY <1>3, <1>5
  <2>2. first \in full /\ \A j \in full : first <= j
    BY Zenon, <2>1
  <2> HIDE DEF first
  <2>3. first = 2
    BY <1>3, <1>5, <2>2
  <2>4. answer[autoChain[first]] = a("ip2location")
    BY Zenon, <1>1, <1>2, <2>3
  <2> QED
    BY Zenon, <1>3, <1>5, <2>4 DEF LookupAuto, answer, full, first, a
<1>6. CASE 1 \notin full /\ 2 \notin full
  <2>1. full = {}
    BY Zenon, <1>3, <1>6
  <2>2. LookupAuto(replies, ip) =
          IF answer["cloudflare"] # <<>> THEN answer["cloudflare"]
          ELSE IF answer["ipify"] # <<>> THEN answer["ipify"]
          ELSE IF ip # "" THEN <<Location(ip, "", "", "", "none")>> ELSE <<>>
    BY Zenon, <2>1 DEF LookupAuto, answer, full
  <2> QED
    BY Zenon, <1>1, <1>3, <1>6, <2>2 DEF a
<1> QED
  BY Zenon, <1>4, <1>5, <1>6

\* The automatic lookup: no answer means that nobody answered, no country that
\* nobody knew one.
AutoSound(p, replies, ip) ==
  LET a(n) == Fetch(n, replies[n])
      found == LookupAuto(replies, ip)
      none == \A n \in AutoSources : ~Placed(a(n))
  IN /\ found = <<>> =>
          /\ a("cloudflare") = <<>> /\ a("ipify") = <<>>
          /\ none /\ ip = ""
     /\ found # <<>> =>
          \E l : /\ found = <<l>> /\ Sound(l)
                 /\ l.ip = p \/ (l.ip = ip /\ ip # "")
                 /\ l.code = "" => none

\* It holds whatever the sources answer.
LEMMA AutoFacts ==
  ASSUME NEW p \in Places, NEW replies \in RepliesAt(p), NEW ip
  PROVE  AutoSound(p, replies, ip)
<1> DEFINE a(n) == Fetch(n, replies[n])
           found == LookupAuto(replies, ip)
           none == \A n \in AutoSources : ~Placed(a(n))
<1>1. \A n \in Providers : a(n) # <<>> => \E l : a(n) = <<l>> /\ Sound(l) /\ l.ip = p
  BY Zenon, AnswerFacts
<1>2. \A n \in AutoSources : n \in Providers
  BY Zenon DEF AutoSources, Providers
<1>3. "ipwhois" \in AutoSources /\ "ip2location" \in AutoSources
      /\ "cloudflare" \in AutoSources /\ "ipify" \in AutoSources
  BY Zenon DEF AutoSources
<1>4. \A n \in AutoSources : \A l : a(n) = <<l>> => (Placed(a(n)) <=> l.code # "")
  BY DEF Placed
<1>5. ~Placed(a("ipify"))
  <2>1. a("ipify") = <<>> \/ a("ipify") = <<Location(replies["ipify"].ip, "", "", "", "ipify")>>
    BY DEF Fetch, ParseIPify
  <2>2. Location(replies["ipify"].ip, "", "", "", "ipify").code = ""
    BY DEF Location
  <2> HIDE DEF a
  <2> QED
    BY Zenon, <1>3, <1>4, <2>1, <2>2 DEF Placed
<1>6. found = IF Placed(a("ipwhois")) THEN a("ipwhois")
              ELSE IF Placed(a("ip2location")) THEN a("ip2location")
              ELSE IF a("cloudflare") # <<>> THEN a("cloudflare")
              ELSE IF a("ipify") # <<>> THEN a("ipify")
              ELSE IF ip # "" THEN <<Location(ip, "", "", "", "none")>> ELSE <<>>
  BY Zenon, AutoOrder
<1>7. \A n \in AutoSources : Placed(a(n)) => a(n) # <<>>
  BY Zenon DEF Placed
<1>8. none <=> /\ ~Placed(a("ipwhois")) /\ ~Placed(a("ip2location"))
               /\ ~Placed(a("cloudflare")) /\ ~Placed(a("ipify"))
  BY Zenon DEF AutoSources
<1> HIDE DEF a, found, none, AutoSound
<1> DEFINE Good(l) == /\ found = <<l>> /\ Sound(l)
                      /\ l.ip = p \/ (l.ip = ip /\ ip # "")
                      /\ l.code = "" => none
<1>10. ASSUME NEW n \in AutoSources, found = a(n), a(n) # <<>>, Placed(a(n)) \/ none
       PROVE  \E l : Good(l)
  <2>1. PICK l : a(n) = <<l>> /\ Sound(l) /\ l.ip = p
    BY Zenon, <1>1, <1>2, <1>10
  <2>2. l.code = "" => none
    BY Zenon, <1>4, <1>10, <2>1
  <2> QED
    BY Zenon, <1>10, <2>1, <2>2
<1>11. CASE Placed(a("ipwhois"))
  BY Zenon, <1>3, <1>6, <1>7, <1>10, <1>11 DEF a, found, none, AutoSound
<1>12. CASE ~Placed(a("ipwhois")) /\ Placed(a("ip2location"))
  BY Zenon, <1>3, <1>6, <1>7, <1>10, <1>12 DEF a, found, none, AutoSound
<1> DEFINE neither == ~Placed(a("ipwhois")) /\ ~Placed(a("ip2location"))
<1>13. CASE neither /\ a("cloudflare") # <<>>
  <2>1. found = a("cloudflare")
    BY Zenon, <1>6, <1>13
  <2>2. Placed(a("cloudflare")) \/ none
    BY Zenon, <1>5, <1>8, <1>13
  <2> QED
    BY Zenon, <1>3, <1>10, <1>13, <2>1, <2>2 DEF a, found, none, AutoSound
<1>14. CASE neither /\ a("cloudflare") = <<>> /\ a("ipify") # <<>>
  <2>1. found = a("ipify")
    BY Zenon, <1>6, <1>14
  <2>2. none
    BY Zenon, <1>3, <1>5, <1>7, <1>8, <1>14
  <2> QED
    BY Zenon, <1>3, <1>10, <1>14, <2>1, <2>2 DEF a, found, none, AutoSound
<1>15. CASE neither /\ a("cloudflare") = <<>> /\ a("ipify") = <<>>
  <2>1. none
    BY Zenon, <1>3, <1>5, <1>7, <1>8, <1>15
  <2>2. CASE ip = ""
    <3>1. found = <<>>
      BY Zenon, <1>6, <1>15, <2>2
    <3> QED
      BY Zenon, <1>15, <2>1, <2>2, <3>1 DEF a, found, none, AutoSound
  <2>3. CASE ip # ""
    <3> DEFINE l == Location(ip, "", "", "", "none")
    <3>1. found = <<l>>
      BY Zenon, <1>6, <1>15, <2>3
    <3>2. l.ip = ip
      BY DEF Location
    <3>3. Sound(l)
      <4>1. "" \in CountryText /\ OneCountry("", "")
        BY Zenon DEF CountryText, OneCountry
      <4> QED
        BY Zenon, <4>1, LocationFacts
    <3> HIDE DEF l
    <3>4. found # <<>>
      BY <3>1
    <3> QED
      BY Zenon, <2>1, <2>3, <3>1, <3>2, <3>3, <3>4 DEF a, found, none, AutoSound
  <2> QED
    BY Zenon, <2>2, <2>3
<1> QED
  BY Zenon, <1>11, <1>12, <1>13, <1>14, <1>15

\* What the node may come to tell of its place.
LocateSound(p, replies, provider, ip, country, city) ==
  LET a(n) == Fetch(n, replies[n])
      found == Locate(provider, replies, ip, country, city)
      none == \A n \in AutoSources : ~Placed(a(n))
  IN /\ provider = "none" => found # <<>>
     /\ provider = "auto" /\ found = <<>> =>
          /\ a("cloudflare") = <<>> /\ a("ipify") = <<>>
          /\ none /\ ip = ""
     /\ found # <<>> =>
          /\ OneCountry(found[1].country, found[1].code)
          /\ \/ found[1].ip = p
             \/ found[1].ip = ip /\ (ip # "" \/ provider = "none")
          /\ provider = "auto" /\ country = "" /\ found[1].code = "" => none

\* It holds whatever the sources answer.
LEMMA LocateFacts ==
  ASSUME NEW p \in Places, NEW replies \in RepliesAt(p), NEW provider, NEW ip,
         NEW country \in CountryText, NEW city
  PROVE  LocateSound(p, replies, provider, ip, country, city)
<1> DEFINE a(n) == Fetch(n, replies[n])
           found == Locate(provider, replies, ip, country, city)
           none == \A n \in AutoSources : ~Placed(a(n))
           raw == CASE provider = "none" -> <<Location(ip, "", "", "", "none")>>
                    [] provider = "auto" -> LookupAuto(replies, ip)
                    [] provider \in Providers ->
                         Fetch(provider, replies[provider])
                    [] OTHER -> <<>>
<1>1. found = IF raw = <<>> THEN <<>> ELSE <<ApplyStatic(raw[1], country, city)>>
  BY Zenon DEF Locate
<1>2. /\ provider = "none" => raw = <<Location(ip, "", "", "", "none")>>
      /\ provider = "auto" => raw = LookupAuto(replies, ip)
      /\ provider \in Providers => raw = a(provider)
      /\ provider \notin Providers \cup {"none", "auto"} => raw = <<>>
  BY DEF Providers
<1> HIDE DEF found, none, raw, a
<1> DEFINE Good(l) == /\ raw = <<l>> /\ Sound(l)
                      /\ l.ip = p \/ (l.ip = ip /\ (ip # "" \/ provider = "none"))
                      /\ provider = "auto" /\ l.code = "" => none
<1>3. ASSUME NEW l, Good(l)
      PROVE  /\ found # <<>>
             /\ OneCountry(found[1].country, found[1].code)
             /\ \/ found[1].ip = p
                \/ found[1].ip = ip /\ (ip # "" \/ provider = "none")
             /\ provider = "auto" /\ country = "" /\ found[1].code = "" => none
  <2>1. raw # <<>> /\ raw[1] = l
    BY <1>3
  <2>2. found = <<ApplyStatic(l, country, city)>>
    BY Zenon, <1>1, <2>1
  <2>3. found # <<>> /\ found[1] = ApplyStatic(l, country, city)
    BY <2>2
  <2> DEFINE s == ApplyStatic(l, country, city)
  <2>4. /\ s.ip = l.ip /\ OneCountry(s.country, s.code)
        /\ country = "" => s.code = l.code
    BY Zenon, <1>3, StaticFacts
  <2> HIDE DEF s
  <2> QED
    BY Zenon, <1>3, <2>3, <2>4 DEF s
<1>4. CASE provider = "none"
  <2> DEFINE l == Location(ip, "", "", "", "none")
  <2>1. "" \in CountryText /\ OneCountry("", "")
    BY Zenon DEF CountryText, OneCountry
  <2>2. Sound(l)
    BY Zenon, <2>1, LocationFacts
  <2>3. l.ip = ip
    BY DEF Location
  <2>4. raw = <<l>>
    BY Zenon, <1>2, <1>4
  <2> HIDE DEF l
  <2>5. Good(l)
    BY Zenon, <1>4, <2>2, <2>3, <2>4
  <2> QED
    BY Zenon, <1>3, <1>4, <2>5 DEF a, found, none, LocateSound
<1>5. CASE provider = "auto"
  <2>1. raw = LookupAuto(replies, ip)
    BY Zenon, <1>2, <1>5
  <2>9. AutoSound(p, replies, ip)
    BY Zenon, AutoFacts
  <2> DEFINE auto == LookupAuto(replies, ip)
  <2>7. /\ auto = <<>> => /\ a("cloudflare") = <<>> /\ a("ipify") = <<>>
                          /\ none /\ ip = ""
        /\ auto # <<>> => \E l : /\ auto = <<l>> /\ Sound(l)
                                 /\ l.ip = p \/ (l.ip = ip /\ ip # "")
                                 /\ l.code = "" => none
    BY Zenon, <2>9 DEF a, none, AutoSound
  <2> HIDE DEF auto
  <2>8. raw = auto
    BY Zenon, <2>1 DEF auto
  <2>2. raw = <<>> => /\ a("cloudflare") = <<>> /\ a("ipify") = <<>>
                      /\ none /\ ip = ""
    BY Zenon, <2>7, <2>8
  <2>3. raw # <<>> => \E l : Good(l)
    BY Zenon, <2>7, <2>8
  <2>4. raw = <<>> => found = <<>>
    BY Zenon, <1>1
  <2> HIDE DEF Good
  <2>5. CASE raw = <<>>
    BY Zenon, <1>5, <2>2, <2>4, <2>5 DEF a, found, none, LocateSound
  <2>6. CASE raw # <<>>
    BY Zenon, <1>3, <1>5, <2>3, <2>6 DEF a, found, none, LocateSound
  <2> QED
    BY Zenon, <2>5, <2>6
<1>6. CASE provider \in Providers
  <2>1. raw = a(provider) /\ provider # "auto" /\ provider # "none"
    BY <1>2, <1>6 DEF Providers
  <2>2. raw # <<>> => \E l : Good(l)
    BY Zenon, <1>6, <2>1, AnswerFacts DEF a
  <2>3. raw = <<>> => found = <<>>
    BY Zenon, <1>1
  <2> HIDE DEF Good
  <2>4. CASE raw = <<>>
    BY Zenon, <2>1, <2>3, <2>4 DEF a, found, none, LocateSound
  <2>5. CASE raw # <<>>
    BY Zenon, <1>3, <2>1, <2>2, <2>5 DEF a, found, none, LocateSound
  <2> QED
    BY Zenon, <2>4, <2>5
<1>7. CASE provider \notin Providers \cup {"none", "auto"}
  BY Zenon, <1>1, <1>2, <1>7 DEF a, found, none, LocateSound
<1> QED
  BY Zenon, <1>4, <1>5, <1>6, <1>7

-----------------------------------------------------------------------------
(* The invariant.                                                          *)

Fields ==
  {"pc", "why", "unchecked", "config", "location", "result", "seen"}

\* What Validate is for: nothing of this kind is left in a configuration.
Sane(c) ==
  /\ c.provider = "none" => c.ipv4_address # ""
  /\ c.ipv4_address \notin {"bad", "v6"}
  /\ ~Panics(c)

\* The environment and the record.
Shape ==
  /\ now \in 0..MaxTime /\ place \in Places
  /\ DOMAIN node = Fields
  /\ node.pc = "off" => node = Off
  /\ node.pc # "failed" => node.why = ""

\* Up to the parameters the configuration is the file's; from there on its
\* intervals are fitted.
Carried ==
  /\ node.pc \in {"client", "grants", "params"} =>
       /\ node.config \in Configs
       /\ ~node.unchecked => Validate(node.config)
       /\ node.location = Nothing
  /\ node.pc \in {"locate", "measure", "service"} =>
       /\ node.config.country \in CountryText
       /\ ~node.unchecked => Sane(node.config)
  /\ node.pc = "locate" => node.location = Nothing
  /\ node.pc \in {"measure", "service", "ready"} /\ ~node.unchecked =>
       IPv4Address(node.config, node.location.ip) # <<>>

SInv == Shape /\ Carried /\ ValidatedRuns /\ LocationSound /\ GrantsJudged

\* A validated configuration is sane, and its granter and type are usable.
LEMMA ValidSane ==
  ASSUME NEW c \in Configs, Validate(c)
  PROVE  /\ Sane(c)
         /\ c.granter # "bad" /\ c.type \in NodeTypes /\ c.gas_prices # "bad"
         /\ c.interval_update_status \in Int /\ c.interval_update_status > 0
         /\ c.interval_update_sessions \in Int /\ c.interval_update_sessions > 0
<1>1. /\ c.interval_set_sessions \in 2..120
      /\ c.interval_update_sessions \in 10..MaxIntervalUpdateSessions
      /\ c.interval_update_status \in 10..MaxIntervalUpdateStatus
      /\ c.ipv4_address \notin {"bad", "v6"}
      /\ c.gigabyte_prices # "bad" /\ c.hourly_prices # "bad"
      /\ c.remote_url # "bad" /\ c.type \in NodeTypes
  BY Zenon DEF Validate, ValidateSections, NodeValid
<1>2. /\ c.granter # "bad" /\ c.gas_prices # "bad"
      /\ c.provider = "none" => c.ipv4_address # ""
  BY Zenon DEF Validate, ValidateSections, KeyringValid, ChainValid
<1> DEFINE a == c.interval_set_sessions
           b == c.interval_update_sessions
           d == c.interval_update_status
<1>3. MaxIntervalUpdateSessions \in Nat /\ MaxIntervalUpdateStatus \in Nat
  BY SMT DEF MaxIntervalUpdateSessions, MaxIntervalUpdateStatus
<1> HIDE DEF a, b, d
<1>4. /\ a \in Int /\ a > 0 /\ ~(a <= 0)
      /\ b \in Int /\ b > 0 /\ ~(b <= 0)
      /\ d \in Int /\ d > 0 /\ ~(d <= 0)
  BY SMT, <1>1, <1>3 DEF a, b, d
<1>5. Sane(c)
  BY Zenon, <1>1, <1>2, <1>4 DEF Sane, Panics, a, b, d
<1> QED
  BY Zenon, <1>1, <1>2, <1>4, <1>5 DEF a, b, d

\* What a step that goes on leaves of the process.
LEMMA ToFacts ==
  ASSUME DOMAIN node = Fields, NEW pc, NEW seen, To(pc, seen)
  PROVE  /\ DOMAIN node' = Fields
         /\ node'.pc = pc /\ node'.seen = seen /\ node'.why = node.why
         /\ node'.unchecked = node.unchecked /\ node'.config = node.config
         /\ node'.location = node.location
BY DEF To, Fields

\* And one that fails.
LEMMA FailFacts ==
  ASSUME DOMAIN node = Fields, NEW why, NEW seen, Fail(why, seen)
  PROVE  /\ DOMAIN node' = Fields
         /\ node'.pc = "failed" /\ node'.seen = seen /\ node'.why = why
         /\ node'.unchecked = node.unchecked /\ node'.config = node.config
         /\ node'.location = node.location
BY DEF Fail, Fields

\* A process that is not there.
LEMMA OffFacts ==
  /\ DOMAIN Off = Fields
  /\ Off.pc = "off" /\ Off.why = "" /\ Off.config = Nothing
  /\ Off.location = Nothing /\ Off.seen = Nothing
BY DEF Off, Fields

-----------------------------------------------------------------------------
(* The steps.                                                              *)

\* A failure that has nothing to do with the location or the grants.
LEMMA FailInv ==
  ASSUME SInv, UNCHANGED <<now, place>>, NEW why, Fail(why, Nothing),
         why \notin {"location", "grants"},
         ~node.unchecked => /\ why \notin {"type", "panic"}
                            /\ why = "granter" => node.config.granter = "self"
  PROVE  SInv'
<1>1. /\ DOMAIN node' = Fields
      /\ node'.pc = "failed" /\ node'.seen = Nothing /\ node'.why = why
      /\ node'.unchecked = node.unchecked /\ node'.config = node.config
      /\ node'.location = node.location
  BY Zenon, FailFacts DEF SInv, Shape
<1>2. Shape'
  BY Zenon, <1>1 DEF SInv, Shape
<1>3. Carried'
  BY Zenon, <1>1 DEF Carried
<1>4. ValidatedRuns'
  BY Zenon, <1>1 DEF ValidatedRuns
<1>5. LocationSound'
  BY Zenon, <1>1 DEF SInv, LocationSound
<1>6. GrantsJudged'
  BY Zenon, <1>1 DEF GrantsJudged
<1> QED
  BY Zenon, <1>2, <1>3, <1>4, <1>5, <1>6 DEF SInv

\* The configuration is read.
LEMMA BootInv == SInv /\ Boot => SInv'
<1> SUFFICES ASSUME SInv, Boot PROVE SInv'
  OBVIOUS
<1>1. PICK c \in Configs, skip \in BOOLEAN :
        LET why == CASE ~skip /\ ~Validate(c) -> "config"
                     [] (skip \/ Validate(c)) /\ c.type \notin NodeTypes ->
                          "type"
                     [] (skip \/ Validate(c)) /\ c.type \in NodeTypes
                          /\ c.gas_prices = "bad" -> "panic"
                     [] OTHER -> ""
        IN node' = [Off EXCEPT !.pc = IF why = "" THEN "client" ELSE "failed",
                               !.why = why, !.unchecked = ~Validate(c),
                               !.config = c]
  BY Zenon DEF Boot
<1> DEFINE why == CASE ~skip /\ ~Validate(c) -> "config"
                    [] (skip \/ Validate(c)) /\ c.type \notin NodeTypes ->
                         "type"
                    [] (skip \/ Validate(c)) /\ c.type \in NodeTypes
                         /\ c.gas_prices = "bad" -> "panic"
                    [] OTHER -> ""
           valid == Validate(c)
<1>2. why \in {"config", "type", "panic", ""}
  OBVIOUS
<1>3. valid => why = ""
  BY ValidSane
<1>4. node' = [Off EXCEPT !.pc = IF why = "" THEN "client" ELSE "failed",
                          !.why = why, !.unchecked = ~valid, !.config = c]
  BY Zenon, <1>1
<1> HIDE DEF why, valid
<1>5. /\ DOMAIN node' = Fields /\ node'.why = why /\ node'.config = c
      /\ node'.pc = IF why = "" THEN "client" ELSE "failed"
      /\ node'.location = Nothing /\ node'.seen = Nothing
  BY <1>4, OffFacts DEF Fields
<1>6. ~node'.unchecked => valid
  BY <1>4, OffFacts DEF Fields
<1>7. Shape'
  BY Zenon, <1>2, <1>5 DEF SInv, Shape, Boot
<1>8. Carried'
  BY Zenon, <1>2, <1>5, <1>6 DEF Carried, valid
<1>9. ValidatedRuns'
  BY Zenon, <1>2, <1>3, <1>5, <1>6 DEF ValidatedRuns
<1>10. LocationSound'
  BY Zenon, <1>2, <1>5 DEF LocationSound
<1>11. GrantsJudged'
  BY Zenon, <1>5 DEF GrantsJudged
<1> QED
  BY Zenon, <1>7, <1>8, <1>9, <1>10, <1>11 DEF SInv

\* The account is looked up.
LEMMA QueryAccountInv == SInv /\ QueryAccount => SInv'
<1> SUFFICES ASSUME SInv, QueryAccount PROVE SInv'
  OBVIOUS
<1>1. /\ node.pc = "client" /\ UNCHANGED <<now, place>>
      /\ node.config \in Configs /\ node.location = Nothing
      /\ ~node.unchecked => Validate(node.config)
  BY Zenon DEF QueryAccount, SInv, Carried
<1>2. CASE node.config.granter \in {"bad", "self"} /\ Fail("granter", Nothing)
  <2>1. ~node.unchecked => node.config.granter = "self"
    BY Zenon, <1>1, <1>2, ValidSane
  <2> QED
    BY Zenon, <1>1, <1>2, <2>1, FailInv
<1>3. CASE Fail("chain", Nothing)
  BY Zenon, <1>1, <1>3, FailInv
<1>4. ASSUME NEW pc \in {"params", "grants"}, To(pc, Nothing) PROVE SInv'
  <2>1. /\ DOMAIN node' = Fields
        /\ node'.pc = pc /\ node'.seen = Nothing /\ node'.why = ""
        /\ node'.unchecked = node.unchecked /\ node'.config = node.config
        /\ node'.location = Nothing
    BY Zenon, <1>1, <1>4, ToFacts DEF SInv, Shape
  <2>2. Shape'
    BY Zenon, <1>1, <2>1 DEF SInv, Shape
  <2>3. Carried'
    BY Zenon, <1>1, <2>1 DEF Carried
  <2>4. ValidatedRuns'
    BY Zenon, <2>1 DEF ValidatedRuns
  <2>5. LocationSound'
    BY Zenon, <2>1 DEF LocationSound
  <2>6. GrantsJudged'
    BY Zenon, <2>1 DEF GrantsJudged
  <2> QED
    BY Zenon, <2>2, <2>3, <2>4, <2>5, <2>6 DEF SInv
<1> QED
  BY Zenon, <1>2, <1>3, <1>4 DEF QueryAccount

\* What is judged is what the chain may hold, with or without a printed expiry.
LEMMA GrantedFacts ==
  ASSUME now \in 0..MaxTime, NEW g \in GrantSets \cup Printed
  PROVE  /\ [grants |-> g.grants, allowance |-> g.allowance] \in Granted
         /\ "until" \in DOMAIN g =>
              \E t \in 0..MaxTime :
                /\ g.grants = PrintedGrants(t, ValidFor)
                /\ g.allowance = PrintedAllowance(t, ValidFor, PrintedLimit)
                /\ g.until = t + ValidFor
<1>1. CASE g \in GrantSets
  <2>1. g \in Granted
    BY Zenon, <1>1, GrantsAssumption
  <2>2. DOMAIN g = {"grants", "allowance"}
    BY <2>1 DEF Granted
  <2>3. /\ g.grants \in [NodeMsgs -> [expiry: Expiry] \cup {Never}]
        /\ g.allowance \in Basics \cup [type: {"allowed"}, exec: BOOLEAN, inner: Basics]
                             \cup {Never}
    BY Zenon, <2>1 DEF Granted
  <2>4. [grants |-> g.grants, allowance |-> g.allowance] \in Granted
    BY Zenon, <2>3 DEF Granted
  <2> QED
    BY Zenon, <2>2, <2>4
<1>2. CASE g \in Printed
  <2>1. PICK t \in 0..now :
          g = [grants |-> PrintedGrants(t, ValidFor),
               allowance |-> PrintedAllowance(t, ValidFor, PrintedLimit),
               until |-> t + ValidFor]
    BY Zenon, <1>2 DEF Printed
  <2>2. t \in 0..MaxTime /\ t + ValidFor \in Nat
    BY StartupAssumption, PrintedAssumption
  <2>3. /\ g.grants = PrintedGrants(t, ValidFor)
        /\ g.allowance = PrintedAllowance(t, ValidFor, PrintedLimit)
        /\ g.until = t + ValidFor
    BY ONLY <2>1
  <2> DEFINE e == t + ValidFor
             basic == Basic(e, PrintedLimit)
  <2>4. e \in Expiry
    BY Zenon, <2>2 DEF Expiry
  <2>6. PrintedLimit \in SpendLimit \cup {Never}
    BY Zenon, PrintedAssumption
  <2>11. PrintedGrants(t, ValidFor) = [m \in NodeMsgs |-> [expiry |-> e]]
    BY Zenon DEF PrintedGrants
  <2> HIDE DEF e
  <2>12. [expiry |-> e] \in [expiry: Expiry]
    BY Zenon, <2>4
  <2>5. g.grants \in [NodeMsgs -> [expiry: Expiry] \cup {Never}]
    BY Zenon, <2>3, <2>11, <2>12
  <2>7. basic \in Basics
    BY Zenon, <2>4, <2>6 DEF Basic, Basics
  <2> HIDE DEF basic
  <2>8. g.allowance = [type |-> "allowed", exec |-> TRUE, inner |-> basic]
    BY Zenon, <2>3 DEF PrintedAllowance, AllowedMsg, basic, e
  <2>9. [type |-> "allowed", exec |-> TRUE, inner |-> basic]
          \in [type: {"allowed"}, exec: BOOLEAN, inner: Basics]
    BY Zenon, <2>7
  <2>10. [grants |-> g.grants, allowance |-> g.allowance] \in Granted
    BY Zenon, <2>5, <2>8, <2>9 DEF Granted
  <2> QED
    BY Zenon, <2>2, <2>3, <2>10
<1> QED
  BY Zenon, <1>1, <1>2

\* The verdict on a validated configuration's hot key.
LEMMA VerdictFacts ==
  ASSUME now \in 0..MaxTime, NEW g \in GrantSets \cup Printed,
         NEW c \in Configs, Validate(c)
  PROVE  /\ Problems(now, g.grants, g.allowance, Fees(c)) # {} =>
              /\ \E m \in NodeMsgs :
                   ~Authorised(m, now, g.grants, g.allowance, DOMAIN Fees(c))
              /\ "until" \in DOMAIN g => now >= g.until
         /\ /\ Problems(now, g.grants, g.allowance, Fees(c)) = {}
            /\ Warnings(now, g.grants, g.allowance, Fees(c)) = {}
            => \A m \in NodeMsgs, t \in now..(now + GrantWarningWindow - 1) :
                 Authorised(m, t, g.grants, g.allowance, DOMAIN Fees(c))
<1> DEFINE h == [grants |-> g.grants, allowance |-> g.allowance]
           fees == Fees(c)
<1>1. h \in Granted
  BY Zenon, GrantedFacts
<1>2. h.grants = g.grants /\ h.allowance = g.allowance
  OBVIOUS
<1>3. now \in Nat
  BY StartupAssumption
<1>4. \A d \in DOMAIN fees : fees[d] \in Nat /\ fees[d] >= TxFee
  BY Zenon, FeesCover
<1>5. DOMAIN fees \subseteq {"udvpn"}
  <2>1. DOMAIN fees = IF c.gas_prices = "ok" THEN {"udvpn"} ELSE {}
    BY SMT DEF Fees, ExpectedFees
  <2> QED
    BY Zenon, <2>1
<1> HIDE DEF h, fees
<1>6. Problems(now, g.grants, g.allowance, fees) # {} =>
        \E m \in NodeMsgs : ~Authorised(m, now, g.grants, g.allowance, DOMAIN fees)
  BY Zenon, <1>1, <1>2, <1>3, RefusedRightly
<1>7. ASSUME Problems(now, g.grants, g.allowance, fees) # {}, "until" \in DOMAIN g
      PROVE  now >= g.until
  <2>1. PICK t \in 0..MaxTime :
          /\ g.grants = PrintedGrants(t, ValidFor)
          /\ g.allowance = PrintedAllowance(t, ValidFor, PrintedLimit)
          /\ g.until = t + ValidFor
    BY Zenon, <1>7, GrantedFacts
  <2>2. ~(now < t + ValidFor)
    <3>1. Problems(now, PrintedGrants(t, ValidFor),
                   PrintedAllowance(t, ValidFor, PrintedLimit), fees) # {}
      BY Zenon, <1>7, <2>1
    <3> QED
      BY Zenon, <1>3, <1>5, <3>1, PrintedLast
  <2>3. t + ValidFor \in Nat
    BY StartupAssumption, PrintedAssumption
  <2> QED
    BY <1>3, <2>1, <2>2, <2>3
<1>8. ASSUME Problems(now, g.grants, g.allowance, fees) = {},
             Warnings(now, g.grants, g.allowance, fees) = {},
             NEW m \in NodeMsgs, NEW t \in now..(now + GrantWarningWindow - 1)
      PROVE  Authorised(m, t, g.grants, g.allowance, DOMAIN fees)
  BY Zenon, <1>1, <1>2, <1>3, <1>4, <1>8, QuietLasts
<1> QED
  BY Zenon, <1>6, <1>7, <1>8 DEF fees

\* The grants are judged.
LEMMA CheckGrantsInv == SInv /\ CheckGrants => SInv'
<1> SUFFICES ASSUME SInv, CheckGrants PROVE SInv'
  OBVIOUS
<1>1. /\ node.pc = "grants" /\ UNCHANGED <<now, place>> /\ node.why = ""
      /\ node.config \in Configs /\ node.location = Nothing
      /\ ~node.unchecked => Validate(node.config)
      /\ now \in 0..MaxTime /\ DOMAIN node = Fields
  BY Zenon DEF CheckGrants, SInv, Carried, Shape
<1>2. CASE Fail("chain", Nothing)
  BY Zenon, <1>1, <1>2, FailInv
<1> DEFINE quiet(g) == Warnings(now, g.grants, g.allowance, Fees(node.config)) = {}
           seen(g) == [granted |-> g, quiet |-> quiet(g)]
           bad(g) == Problems(now, g.grants, g.allowance, Fees(node.config)) # {}
<1>3. ASSUME NEW g \in GrantSets \cup Printed,
             \/ bad(g) /\ Fail("grants", seen(g))
             \/ ~bad(g) /\ To("params", seen(g))
      PROVE  SInv'
  <2>1. /\ DOMAIN node' = Fields /\ node'.seen = seen(g)
        /\ node'.unchecked = node.unchecked /\ node'.config = node.config
        /\ node'.location = Nothing
        /\ node'.pc \in {"failed", "params"}
        /\ \/ bad(g) /\ node'.why = "grants" /\ node'.pc = "failed"
           \/ ~bad(g) /\ node'.why = "" /\ node'.pc = "params"
    BY Zenon, <1>1, <1>3, ToFacts, FailFacts
  <2>2. seen(g).granted = g /\ (seen(g).quiet <=> quiet(g))
    BY Zenon
  <2>3. Shape'
    BY Zenon, <1>1, <2>1 DEF SInv, Shape
  <2>4. Carried'
    BY Zenon, <1>1, <2>1 DEF Carried
  <2>5. ValidatedRuns'
    BY Zenon, <2>1 DEF ValidatedRuns
  <2>6. LocationSound'
    BY Zenon, <2>1 DEF LocationSound
  <2>7. GrantsJudged'
    <3> SUFFICES ASSUME ~node'.unchecked PROVE GrantsJudged'
      BY Zenon DEF GrantsJudged
    <3> DEFINE c == node.config
               ok(m, t) == Authorised(m, t, g.grants, g.allowance, DOMAIN Fees(c))
    <3>1. c \in Configs /\ Validate(c)
      BY Zenon, <1>1, <2>1
    <3>2. /\ bad(g) => /\ \E m \in NodeMsgs : ~ok(m, now)
                       /\ "until" \in DOMAIN g => now >= g.until
          /\ ~bad(g) /\ quiet(g) =>
               \A m \in NodeMsgs, t \in now..(now + GrantWarningWindow - 1) : ok(m, t)
      BY Zenon, <1>1, <3>1, VerdictFacts
    <3>3. /\ node'.seen.granted = g /\ (node'.seen.quiet <=> quiet(g))
          /\ node'.config = c /\ now' = now
      BY Zenon, <1>1, <2>1, <2>2
    <3> HIDE DEF seen, quiet, bad
    <3>4. /\ node'.why = "grants" => bad(g)
          /\ node'.why # "grants" => ~bad(g)
      BY Zenon, <2>1
    <3>5. /\ node'.why = "grants" => /\ \E m \in NodeMsgs : ~ok(m, now)
                                     /\ "until" \in DOMAIN g => now >= g.until
          /\ node'.why # "grants" /\ node'.seen.quiet =>
               \A m \in NodeMsgs, t \in now..(now + GrantWarningWindow - 1) : ok(m, t)
      BY Zenon, <3>2, <3>3, <3>4
    <3> QED
      BY Zenon, <3>3, <3>5 DEF GrantsJudged, Fees
  <2> QED
    BY Zenon, <2>3, <2>4, <2>5, <2>6, <2>7 DEF SInv
<1>4. \/ Fail("chain", Nothing)
      \/ \E g \in GrantSets \cup Printed :
           \/ bad(g) /\ Fail("grants", seen(g))
           \/ ~bad(g) /\ To("params", seen(g))
  BY Zenon DEF CheckGrants
<1> QED
  BY Zenon, <1>2, <1>3, <1>4

\* The intervals are fitted: what that leaves of a configuration.
Keeps(c, d, x, y) ==
  /\ d.interval_update_status = x /\ d.interval_update_sessions = y
  /\ c.country \in CountryText
  /\ d.interval_set_sessions = c.interval_set_sessions
  /\ d.provider = c.provider /\ d.ipv4_address = c.ipv4_address
  /\ d.gigabyte_prices = c.gigabyte_prices
  /\ d.hourly_prices = c.hourly_prices
  /\ d.remote_url = c.remote_url /\ d.country = c.country

Fitted(c, x, y) ==
  [c EXCEPT !.interval_update_status = x, !.interval_update_sessions = y]

\* All the rest.
LEMMA FittedFacts ==
  ASSUME NEW c \in Configs, NEW x, NEW y
  PROVE  Keeps(c, Fitted(c, x, y), x, y)
<1>1. c \in Config
  BY Zenon, ConfigsAssumption
<1>2. /\ "interval_update_status" \in DOMAIN c
      /\ "interval_update_sessions" \in DOMAIN c
      /\ c.country \in CountryText
  BY <1>1 DEF Config
<1>3. /\ "interval_set_sessions" \in DOMAIN c /\ "provider" \in DOMAIN c
      /\ "ipv4_address" \in DOMAIN c /\ "gigabyte_prices" \in DOMAIN c
      /\ "hourly_prices" \in DOMAIN c /\ "remote_url" \in DOMAIN c
      /\ "country" \in DOMAIN c
  BY <1>1 DEF Config
<1> QED
  BY <1>2, <1>3 DEF Keeps, Fitted

\* The parameters are read and the intervals fitted.
LEMMA QueryParamsInv == SInv /\ QueryParams => SInv'
<1> SUFFICES ASSUME SInv, QueryParams PROVE SInv'
  OBVIOUS
<1>1. /\ node.pc = "params" /\ UNCHANGED <<now, place>> /\ node.why = ""
      /\ node.config \in Configs /\ node.location = Nothing
      /\ ~node.unchecked => Validate(node.config)
      /\ DOMAIN node = Fields
  BY Zenon DEF QueryParams, SInv, Carried, Shape
<1>2. CASE Fail("chain", Nothing)
  BY Zenon, <1>1, <1>2, FailInv
<1>3. ASSUME NEW t \in Timeouts,
             node' = [node EXCEPT
               !.pc = "locate",
               !.config.interval_update_status = Clamp(@, t.status),
               !.config.interval_update_sessions = Clamp(@, t.sessions),
               !.seen = t]
      PROVE  SInv'
  <2> DEFINE c == node.config
             x == Clamp(c.interval_update_status, t.status)
             y == Clamp(c.interval_update_sessions, t.sessions)
             d == Fitted(c, x, y)
  <2>1. /\ DOMAIN node' = Fields /\ node'.pc = "locate" /\ node'.seen = t
        /\ node'.why = "" /\ node'.unchecked = node.unchecked
        /\ node'.location = Nothing
    BY <1>1, <1>3 DEF Fields
  <2>2. node'.config = d
    BY <1>1, <1>3 DEF Fields, Fitted
  <2>13. c \in Configs
    BY Zenon, <1>1
  <2> HIDE DEF c, x, y
  <2>3. Keeps(c, d, x, y)
    BY Zenon, <2>13, FittedFacts
  <2> HIDE DEF d
  <2>4. /\ t.status \in Nat \ {1} /\ t.sessions \in Nat \ {1}
        /\ DOMAIN t = {"status", "sessions"}
    BY TimeoutsAssumption
  <2>5. ASSUME ~node.unchecked
        PROVE  /\ Fits(x, t.status) /\ ~(x <= 0)
               /\ Fits(y, t.sessions) /\ ~(y <= 0)
               /\ Sane(c)
    <3>1. /\ Sane(c)
          /\ c.interval_update_status \in Int /\ c.interval_update_status > 0
          /\ c.interval_update_sessions \in Int /\ c.interval_update_sessions > 0
      BY Zenon, <1>1, <2>5, ValidSane DEF c
    <3>2. /\ x \in Int /\ x > 0 /\ Fits(x, t.status)
          /\ y \in Int /\ y > 0 /\ Fits(y, t.sessions)
      BY Zenon, <2>4, <3>1, Clamped DEF x, y
    <3>3. ~(x <= 0) /\ ~(y <= 0)
      BY <3>2
    <3> QED
      BY Zenon, <3>1, <3>2, <3>3
  <2>6. ~node.unchecked => Sane(d)
    BY Zenon, <2>3, <2>5 DEF Sane, Panics, Keeps
  <2>7. Shape'
    BY Zenon, <1>1, <2>1 DEF SInv, Shape
  <2>8. Carried'
    BY Zenon, <2>1, <2>2, <2>3, <2>6 DEF Carried, Keeps
  <2>12. /\ node'.config.interval_update_status = x
         /\ node'.config.interval_update_sessions = y
    BY Zenon, <2>2, <2>3 DEF Keeps
  <2>17. node'.pc = "locate" /\ node'.why = ""
    BY Zenon, <2>1
  <2>15. /\ node'.seen.status = t.status /\ node'.seen.sessions = t.sessions
         /\ node'.unchecked = node.unchecked
    BY Zenon, <2>1
  <2>16. ~node'.unchecked =>
           /\ Fits(node'.config.interval_update_status, node'.seen.status)
           /\ Fits(node'.config.interval_update_sessions, node'.seen.sessions)
    BY Zenon, <2>5, <2>12, <2>15
  <2>9. ValidatedRuns'
    BY Zenon, <2>16, <2>17 DEF ValidatedRuns
  <2>10. LocationSound'
    BY Zenon, <2>1 DEF LocationSound
  <2>18. "granted" \notin DOMAIN t
    BY Zenon, <2>4
  <2>11. GrantsJudged'
    BY Zenon, <2>1, <2>18 DEF GrantsJudged
  <2> QED
    BY Zenon, <2>7, <2>8, <2>9, <2>10, <2>11 DEF SInv
<1> QED
  BY Zenon, <1>2, <1>3 DEF QueryParams

\* The place is looked up.
LEMMA LocatingInv == SInv /\ Locating => SInv'
<1> SUFFICES ASSUME SInv, Locating PROVE SInv'
  OBVIOUS
<1>1. /\ node.pc = "locate" /\ UNCHANGED <<now, place>> /\ node.why = ""
      /\ node.location = Nothing /\ node.config.country \in CountryText
      /\ ~node.unchecked => Sane(node.config)
      /\ DOMAIN node = Fields /\ place \in Places
  BY Zenon DEF Locating, SInv, Carried, Shape
<1> DEFINE c == node.config
           found(r) == Locate(c.provider, r, c.ipv4_address, c.country, c.city)
           answer(r, n) == Fetch(n, r[n])
           seen(r) == [answered |-> {n \in AutoSources : answer(r, n) # <<>>},
                       placed |-> {n \in AutoSources : Placed(answer(r, n))}]
<1>2. PICK r \in RepliesAt(place) :
        IF found(r) = <<>> THEN Fail("location", seen(r))
        ELSE node' = [node EXCEPT !.pc = "measure", !.location = found(r)[1],
                                  !.seen = seen(r)]
  BY Zenon DEF Locating
<1> DEFINE l == found(r)
           s == seen(r)
           none == \A n \in AutoSources : ~Placed(Fetch(n, r[n]))
<1>3. LocateSound(place, r, c.provider, c.ipv4_address, c.country, c.city)
  BY Zenon, <1>1, LocateFacts
<1>4. /\ s.answered = {n \in AutoSources : Fetch(n, r[n]) # <<>>}
      /\ s.placed = {n \in AutoSources : Placed(Fetch(n, r[n]))}
      /\ DOMAIN s = {"answered", "placed"}
  BY Zenon
<1>5. /\ none => s.placed = {}
      /\ Fetch("cloudflare", r["cloudflare"]) = <<>>
         /\ Fetch("ipify", r["ipify"]) = <<>>
         => s.answered \cap {"cloudflare", "ipify"} = {}
  BY Zenon, <1>4
<1>6. /\ c.provider = "none" => l # <<>>
      /\ c.provider = "auto" /\ l = <<>> =>
           /\ s.answered \cap {"cloudflare", "ipify"} = {}
           /\ s.placed = {} /\ c.ipv4_address = ""
      /\ l # <<>> =>
           /\ OneCountry(l[1].country, l[1].code)
           /\ \/ l[1].ip = place
              \/ l[1].ip = c.ipv4_address /\ (c.ipv4_address # "" \/ c.provider = "none")
           /\ c.provider = "auto" /\ c.country = "" /\ l[1].code = "" => s.placed = {}
  BY Zenon, <1>3, <1>5 DEF LocateSound
<1>7. \/ l = <<>> /\ Fail("location", s)
      \/ l # <<>> /\ node' = [node EXCEPT !.pc = "measure", !.location = l[1],
                                          !.seen = s]
  BY Zenon, <1>2
<1>8. "granted" \notin DOMAIN s
  BY Zenon, <1>4
<1> HIDE DEF c, found, seen, none, l, s
<1>9. CASE l = <<>> /\ Fail("location", s)
  <2>1. /\ DOMAIN node' = Fields
        /\ node'.pc = "failed" /\ node'.seen = s /\ node'.why = "location"
        /\ node'.unchecked = node.unchecked /\ node'.config = c
        /\ node'.location = Nothing
    BY Zenon, <1>1, <1>9, FailFacts DEF c
  <2>2. Shape'
    BY Zenon, <1>1, <2>1 DEF SInv, Shape
  <2>3. Carried'
    BY Zenon, <2>1 DEF Carried
  <2>4. ValidatedRuns'
    BY Zenon, <1>6, <1>9, <2>1 DEF ValidatedRuns
  <2>5. LocationSound'
    BY Zenon, <1>6, <1>9, <2>1 DEF LocationSound
  <2>6. GrantsJudged'
    BY Zenon, <1>8, <2>1 DEF GrantsJudged
  <2> QED
    BY Zenon, <2>2, <2>3, <2>4, <2>5, <2>6 DEF SInv
<1>10. CASE l # <<>> /\ node' = [node EXCEPT !.pc = "measure", !.location = l[1],
                                             !.seen = s]
  <2>1. /\ DOMAIN node' = Fields
        /\ node'.pc = "measure" /\ node'.seen = s /\ node'.why = ""
        /\ node'.unchecked = node.unchecked /\ node'.config = c
        /\ node'.location = l[1]
    BY <1>1, <1>10 DEF Fields, c
  <2>2. ~node.unchecked => IPv4Address(c, l[1].ip) # <<>>
    <3> DEFINE addr == IF c.ipv4_address # "" THEN c.ipv4_address ELSE l[1].ip
    <3>1. place \notin {"", "bad", "v6"}
      BY Zenon, <1>1, RepliesAssumption
    <3>2. ~node.unchecked => addr \notin {"", "bad", "v6"}
      BY Zenon, <1>1, <1>6, <1>10, <3>1 DEF Sane, c
    <3> HIDE DEF addr
    <3>3. <<addr>> # <<>>
      OBVIOUS
    <3> QED
      BY Zenon, <3>2, <3>3 DEF IPv4Address, addr
  <2>3. Shape'
    BY Zenon, <1>1, <2>1 DEF SInv, Shape
  <2>4. Carried'
    BY Zenon, <1>1, <2>1, <2>2 DEF Carried, c
  <2>5. ValidatedRuns'
    BY Zenon, <2>1 DEF ValidatedRuns
  <2>6. LocationSound'
    BY Zenon, <1>6, <1>10, <2>1 DEF LocationSound, OneCountry
  <2>7. GrantsJudged'
    BY Zenon, <1>8, <2>1 DEF GrantsJudged
  <2> QED
    BY Zenon, <2>3, <2>4, <2>5, <2>6, <2>7 DEF SInv
<1> QED
  BY Zenon, <1>7, <1>9, <1>10

\* A bandwidth figure is found, whichever and however.
LEMMA FigureInv ==
  ASSUME SInv, UNCHANGED <<now, place>>, node.pc = "measure", NEW seen, NEW result,
         seen = Nothing \/ "granted" \notin DOMAIN seen,
         node' = [node EXCEPT !.pc = "service", !.seen = seen, !.result = result]
  PROVE  SInv'
<1>1. DOMAIN node = Fields /\ node.why = ""
  BY Zenon DEF SInv, Shape
<1>2. /\ DOMAIN node' = Fields
      /\ node'.pc = "service" /\ node'.seen = seen /\ node'.why = ""
      /\ node'.unchecked = node.unchecked /\ node'.config = node.config
      /\ node'.location = node.location
  BY <1>1 DEF Fields
<1>3. Shape'
  BY Zenon, <1>2 DEF SInv, Shape
<1>4. Carried'
  BY Zenon, <1>2 DEF SInv, Carried
<1>5. ValidatedRuns'
  BY Zenon, <1>2 DEF ValidatedRuns
<1>6. LocationSound'
  BY Zenon, <1>2 DEF SInv, LocationSound
<1>7. GrantsJudged'
  BY Zenon, <1>2 DEF GrantsJudged
<1> QED
  BY Zenon, <1>3, <1>4, <1>5, <1>6, <1>7 DEF SInv

\* The figure is declared or read back.
LEMMA MeasureNotInv == SInv /\ MeasureNot => SInv'
<1> SUFFICES ASSUME SInv, MeasureNot PROVE SInv'
  OBVIOUS
<1>1. DOMAIN node = Fields
  BY Zenon DEF SInv, Shape
<1>2. /\ node.pc = "measure" /\ UNCHANGED <<now, place>>
      /\ \E result : node' = [node EXCEPT !.pc = "service", !.seen = Nothing,
                                          !.result = result]
  BY Zenon DEF MeasureNot
<1> QED
  BY Zenon, <1>2, FigureInv

\* The figure is measured.
LEMMA MeasureInv == SInv /\ Measure => SInv'
<1> SUFFICES ASSUME SInv, Measure PROVE SInv'
  OBVIOUS
<1>1. PICK m \in Measurements :
        node' = [node EXCEPT !.pc = "service", !.seen = m,
          !.result = AfterMeasure(cache, node.location.ip, Aggregate(m.samples))]
  BY Zenon DEF Measure
<1>2. \E servers, budget : m = Measurement(servers, budget)
  BY DEF Measurements
<1>3. DOMAIN m = {"samples", "far"}
  BY Zenon, <1>2 DEF Measurement
<1>4. "granted" \notin DOMAIN m
  BY Zenon, <1>3
<1>5. node.pc = "measure" /\ UNCHANGED <<now, place>>
  BY Zenon DEF Measure
<1> QED
  BY Zenon, <1>1, <1>4, <1>5, FigureInv

\* The service comes up.
LEMMA ServeInv == SInv /\ Serve => SInv'
<1> SUFFICES ASSUME SInv, Serve PROVE SInv'
  OBVIOUS
<1>1. /\ node.pc = "service" /\ UNCHANGED <<now, place>> /\ node.why = ""
      /\ ~node.unchecked => ~Panics(node.config)
      /\ DOMAIN node = Fields
  BY Zenon DEF Serve, SInv, Carried, Shape, Sane
<1>2. CASE Fail("service", Nothing)
  BY Zenon, <1>1, <1>2, FailInv
<1>3. CASE Panics(node.config) /\ Fail("panic", Nothing)
  BY Zenon, <1>1, <1>3, FailInv
<1>4. CASE To("ready", Nothing)
  <2>1. /\ DOMAIN node' = Fields
        /\ node'.pc = "ready" /\ node'.seen = Nothing /\ node'.why = ""
        /\ node'.unchecked = node.unchecked /\ node'.config = node.config
        /\ node'.location = node.location
    BY Zenon, <1>1, <1>4, ToFacts
  <2>2. Shape'
    BY Zenon, <1>1, <2>1 DEF SInv, Shape
  <2>3. ~node.unchecked => IPv4Address(node.config, node.location.ip) # <<>>
    BY Zenon, <1>1 DEF SInv, Carried
  <2>4. Carried'
    BY Zenon, <2>1, <2>3 DEF Carried
  <2>5. ValidatedRuns'
    BY Zenon, <2>1, <2>3 DEF ValidatedRuns
  <2>6. LocationSound'
    BY Zenon, <2>1 DEF SInv, LocationSound
  <2>7. GrantsJudged'
    BY Zenon, <2>1 DEF GrantsJudged
  <2> QED
    BY Zenon, <2>2, <2>4, <2>5, <2>6, <2>7 DEF SInv
<1> QED
  BY Zenon, <1>2, <1>3, <1>4 DEF Serve

\* Nothing is claimed of a node that is off.
LEMMA OffInv ==
  ASSUME now' \in 0..MaxTime, place' \in Places, node' = Off
  PROVE  SInv'
<1>1. /\ DOMAIN node' = Fields
      /\ node'.pc = "off" /\ node'.why = "" /\ node'.config = Nothing
      /\ node'.location = Nothing /\ node'.seen = Nothing
  BY Zenon, OffFacts
<1>2. Shape'
  BY Zenon, <1>1 DEF Shape
<1>3. Carried'
  BY Zenon, <1>1 DEF Carried
<1>4. ValidatedRuns'
  BY Zenon, <1>1 DEF ValidatedRuns
<1>5. LocationSound'
  BY Zenon, <1>1 DEF LocationSound
<1>6. GrantsJudged'
  BY Zenon, <1>1 DEF GrantsJudged
<1> QED
  BY Zenon, <1>2, <1>3, <1>4, <1>5, <1>6 DEF SInv

\* Every step keeps the invariant.
LEMMA StartupStep == SInv /\ [Next]_vars => SInv'
<1> SUFFICES ASSUME SInv, [Next]_vars PROVE SInv'
  OBVIOUS
<1>1. now \in 0..MaxTime /\ place \in Places /\ (node.pc = "off" => node = Off)
  BY Zenon DEF SInv, Shape
<1>2. CASE Exit
  BY Zenon, <1>1, <1>2, OffInv DEF Exit
<1>3. CASE Tick
  <2>1. now' \in 0..MaxTime
    BY <1>1, <1>3, StartupAssumption DEF Tick
  <2>2. place' = place /\ node' = Off
    BY Zenon, <1>1, <1>3 DEF Tick
  <2> QED
    BY Zenon, <1>1, <2>1, <2>2, OffInv
<1>4. CASE Move
  <2>1. now' = now /\ place' \in Places /\ node' = Off
    BY Zenon, <1>1, <1>4 DEF Move
  <2> QED
    BY Zenon, <1>1, <2>1, OffInv
<1>5. CASE UNCHANGED vars
  <2>1. now' = now /\ place' = place /\ node' = node
    BY Zenon, <1>5 DEF vars
  <2>2. Shape' /\ Carried'
    BY Zenon, <2>1 DEF SInv, Shape, Carried
  <2>3. ValidatedRuns'
    BY Zenon, <2>1 DEF SInv, ValidatedRuns
  <2>4. LocationSound'
    BY Zenon, <2>1 DEF SInv, LocationSound
  <2>5. GrantsJudged'
    BY Zenon, <2>1 DEF SInv, GrantsJudged, Fees
  <2> QED
    BY Zenon, <2>2, <2>3, <2>4, <2>5 DEF SInv
<1> QED
  BY Zenon, <1>2, <1>3, <1>4, <1>5, BootInv, QueryAccountInv, CheckGrantsInv,
     QueryParamsInv, LocatingInv, MeasureNotInv, MeasureInv, ServeInv DEF Next

\* Every start keeps the invariant, over any number of starts, crashes, moves
\* and weeks (cmd/start.go).
THEOREM StartupInvariant == Spec => []SInv
<1>1. Init => SInv
  <2> SUFFICES ASSUME Init PROVE SInv
    OBVIOUS
  <2>1. /\ DOMAIN node = Fields
        /\ node.pc = "off" /\ node.why = "" /\ node.config = Nothing
        /\ node.location = Nothing /\ node.seen = Nothing
    BY Zenon, OffFacts DEF Init
  <2>2. now \in 0..MaxTime
    BY StartupAssumption DEF Init
  <2>3. Shape
    BY Zenon, <2>1, <2>2 DEF Shape, Init
  <2>4. Carried
    BY Zenon, <2>1 DEF Carried
  <2>5. ValidatedRuns
    BY Zenon, <2>1 DEF ValidatedRuns
  <2>6. LocationSound
    BY Zenon, <2>1 DEF LocationSound
  <2>7. GrantsJudged
    BY Zenon, <2>1 DEF GrantsJudged
  <2> QED
    BY Zenon, <2>3, <2>4, <2>5, <2>6, <2>7 DEF SInv
<1> QED
  BY <1>1, StartupStep, PTL DEF Spec

\* A configuration Validate accepts never stops, panics or leaves without an
\* address the node that was started with it, and its jobs run often enough
\* (types/config.go, cmd/start.go).
THEOREM Validated == Spec => []ValidatedRuns
<1>1. SInv => ValidatedRuns
  BY Zenon DEF SInv
<1> QED
  BY <1>1, StartupInvariant, PTL

\* The automatic lookup gives up, or reports no country, only when nobody could
\* tell, and what the node tells of its place is of one country
\* (libs/geoip/geoip.go).
THEOREM LocatedSoundly == Spec => []LocationSound
<1>1. SInv => LocationSound
  BY Zenon DEF SInv
<1> QED
  BY <1>1, StartupInvariant, PTL

\* The start refuses a hot key only when the chain would, and lets one through
\* without a warning only when the chain will for the whole window
\* (lite/grants.go, cmd/authz.go).
THEOREM JudgedRightly == Spec => []GrantsJudged
<1>1. SInv => GrantsJudged
  BY Zenon DEF SInv
<1> QED
  BY <1>1, StartupInvariant, PTL

-----------------------------------------------------------------------------
(* The speed test.  Induction and recursion over the positions of a list   *)
(* come first: means and medians are recursive functions of one.           *)

INSTANCE FiniteSetTheorems

\* Every non-empty set of naturals has a least element.
LEMMA LeastNat ==
  ASSUME NEW T \in SUBSET Nat, T # {}
  PROVE  \E m \in T : \A n \in T : m <= n
<1>1. PICK m \in T : \A n \in T : ~ (<<n, m>> \in OpToRel(<, Nat))
  BY Zenon, NatLessThanWellFounded, WFMin
<1>2. \A n \in T : n < m => <<n, m>> \in OpToRel(<, Nat)
  BY SMT DEF OpToRel
<1>3. \A n \in T : ~(n < m)
  BY Zenon, <1>1, <1>2
<1>4. \A n \in T : m <= n
  BY ONLY <1>3, T \in SUBSET Nat, m \in T
<1> QED
  BY Zenon, <1>4

\* Induction, for a set instead of a predicate.
LEMMA Induct ==
  ASSUME NEW S, 0 \in S, \A n \in Nat : n \in S => n + 1 \in S
  PROVE  Nat \subseteq S
<1> SUFFICES ASSUME Nat \ S # {} PROVE FALSE
  OBVIOUS
<1>1. PICK m \in Nat \ S : \A n \in Nat \ S : m <= n
  BY Zenon, LeastNat
<1>2. m # 0 /\ m - 1 \in Nat /\ m - 1 \notin Nat \ S
  BY <1>1
<1> QED
  BY <1>1, <1>2

\* What holds of a function at 0, and at every argument when it holds at the one
\* before, holds at all of them.
LEMMA Along ==
  ASSUME NEW n \in Nat, NEW f, NEW good, f[0] \in good[0],
         \A k \in 1..n : f[k - 1] \in good[k - 1] => f[k] \in good[k]
  PROVE  \A k \in 0..n : f[k] \in good[k]
<1> DEFINE S == {k \in Nat : k <= n => f[k] \in good[k]}
<1>1. 0 \in S
  OBVIOUS
<1>2. ASSUME NEW m \in Nat, m \in S PROVE m + 1 \in S
  <2>1. CASE m + 1 <= n
    <3>1. m + 1 \in 1..n /\ (m + 1) - 1 = m /\ m <= n
      BY <2>1
    <3> QED
      BY <3>1, <1>2
  <2> QED
    BY <2>1
<1> HIDE DEF S
<1>3. Nat \subseteq S
  BY Zenon, <1>1, <1>2, Induct
<1> QED
  BY <1>3 DEF S

\* A recursive definition over 0..n has a solution within X.
Defines(X, base, n, step) ==
  \E f \in [0..n -> X] :
    f = [k \in 0..n |-> IF k = 0 THEN base ELSE step[<<f[k - 1], k>>]]

\* A recursion whose step stays in a set defines a function.
LEMMA Recursion ==
  ASSUME NEW X, NEW base \in X, NEW n \in Nat, NEW step \in [X \X (1..n) -> X]
  PROVE  Defines(X, base, n, step)
<1> DEFINE Good(f, m) ==
             f = [k \in 0..m |-> IF k = 0 THEN base ELSE step[<<f[k - 1], k>>]]
           S == {m \in Nat : m <= n => \E f \in [0..m -> X] : Good(f, m)}
<1>1. 0 \in S
  <2> DEFINE f == [k \in 0..0 |-> base]
  <2>1. f \in [0..0 -> X] /\ Good(f, 0)
    OBVIOUS
  <2> QED
    BY <2>1
<1>2. ASSUME NEW m \in Nat, m \in S PROVE m + 1 \in S
  <2> SUFFICES ASSUME m + 1 <= n PROVE \E f \in [0..(m + 1) -> X] : Good(f, m + 1)
    OBVIOUS
  <2>1. PICK f \in [0..m -> X] : Good(f, m)
    BY <1>2
  <2> DEFINE g == [k \in 0..(m + 1) |->
                     IF k = m + 1 THEN step[<<f[m], m + 1>>] ELSE f[k]]
  <2>2. step[<<f[m], m + 1>>] \in X
    OBVIOUS
  <2>3. g \in [0..(m + 1) -> X]
    BY <2>2
  <2>4. ASSUME NEW k \in 0..(m + 1)
        PROVE  g[k] = IF k = 0 THEN base ELSE step[<<g[k - 1], k>>]
    <3>1. CASE k = m + 1
      <4>1. k # 0 /\ k - 1 = m /\ m \in 0..(m + 1) /\ m # m + 1
        BY <3>1
      <4>2. g[k] = step[<<f[m], k>>] /\ g[k - 1] = f[m]
        BY <3>1, <4>1
      <4> QED
        BY Zenon, <4>1, <4>2
    <3>2. CASE k # m + 1
      <4>1. k \in 0..m /\ (k # 0 => k - 1 \in 0..m)
        BY <3>2
      <4>2. g[k] = f[k] /\ (k # 0 => g[k - 1] = f[k - 1])
        BY <3>2, <4>1
      <4>3. f[k] = IF k = 0 THEN base ELSE step[<<f[k - 1], k>>]
        BY <2>1, <4>1
      <4> QED
        BY <4>2, <4>3
    <3> QED
      BY <3>1, <3>2
  <2> QED
    BY <2>3, <2>4
<1> HIDE DEF S
<1>3. Nat \subseteq S
  BY Zenon, <1>1, <1>2, Induct
<1>4. n \in S
  BY <1>3
<1> QED
  BY <1>4 DEF S, Defines

-----------------------------------------------------------------------------
(* Ranks.                                                                  *)

\* A finite strict order, given by the elements below each.
Order(S, below) ==
  /\ IsFiniteSet(S)
  /\ below \in [S -> SUBSET S]
  /\ \A i \in S : i \notin below[i]
  /\ \A i, j \in S : j \in below[i] => below[j] \subseteq below[i]
  /\ \A i, j \in S : i = j \/ j \in below[i] \/ i \in below[j]

Counted(S, below) ==
  /\ Cardinality(S) \in Nat
  /\ \A i \in S : /\ Cardinality(below[i]) \in Nat
                  /\ Cardinality(below[i]) + 1 \in 1..Cardinality(S)
  /\ \A i, j \in S : Cardinality(below[i]) = Cardinality(below[j]) => i = j
  /\ \A n \in 1..Cardinality(S) : \E i \in S : Cardinality(below[i]) = n - 1

\* In a finite strict order, the numbers of elements below count the elements
\* off: no two have as many, and every number below the set's size occurs.
LEMMA Ranked ==
  ASSUME NEW S, NEW below, Order(S, below)
  PROVE  Counted(S, below)
<1> DEFINE size == Cardinality(S)
           rank(i) == Cardinality(below[i])
<1>1. /\ IsFiniteSet(S) /\ size \in Nat
  BY Zenon, FS_CardinalityType DEF Order
<1>2. ASSUME NEW i \in S
      PROVE  /\ IsFiniteSet(below[i]) /\ rank(i) \in Nat
             /\ below[i] # S /\ rank(i) < size
  <2>1. below[i] \in SUBSET S /\ below[i] # S
    BY DEF Order
  <2>2. /\ IsFiniteSet(below[i]) /\ rank(i) <= size
        /\ size = rank(i) => S = below[i]
    BY Zenon, <1>1, <2>1, FS_Subset
  <2>3. rank(i) \in Nat
    BY Zenon, <2>2, FS_CardinalityType
  <2> HIDE DEF size, rank
  <2>4. rank(i) < size
    BY <1>1, <2>1, <2>2, <2>3
  <2> QED
    BY Zenon, <2>1, <2>2, <2>3, <2>4
<1>3. ASSUME NEW i \in S, NEW j \in S, j \in below[i] PROVE rank(j) # rank(i)
  <2>1. below[j] \in SUBSET below[i] /\ below[j] # below[i]
    BY <1>3 DEF Order
  <2> QED
    BY Zenon, <1>2, <2>1, FS_Subset
<1>4. \A i, j \in S : rank(i) = rank(j) => i = j
  BY Zenon, <1>3 DEF Order
<1> DEFINE f == [i \in S |-> rank(i) + 1]
<1> HIDE DEF size, rank
<1>5. f \in [S -> 1..size] /\ \A i \in S : f[i] \in 1..size /\ f[i] = rank(i) + 1
  BY <1>1, <1>2
<1>6. \A i, j \in S : f[i] = f[j] => i = j
  BY <1>2, <1>4, <1>5
<1> HIDE DEF f
<1>7. f \in Injection(S, 1..size)
  BY Zenon, <1>5, <1>6 DEF Injection, IsInjective
<1>8. IsFiniteSet(1..size) /\ Cardinality(1..size) = size
  <2>1. Cardinality(1..size) = IF 1 > size THEN 0 ELSE size - 1 + 1
    BY <1>1, FS_Interval
  <2>2. IsFiniteSet(1..size)
    BY <1>1, FS_Interval
  <2> QED
    BY <1>1, <2>1, <2>2
<1>9. f \in Surjection(S, 1..size)
  BY Zenon, <1>7, <1>8, FS_Injection DEF size
<1>10. ASSUME NEW n \in 1..size PROVE \E i \in S : rank(i) = n - 1
  <2>1. PICK i \in S : f[i] = n
    BY Zenon, <1>9 DEF Surjection
  <2> QED
    BY <1>2, <1>5, <2>1
<1>11. \A i \in S : rank(i) \in Nat /\ rank(i) + 1 \in 1..size
  BY Zenon, <1>2, <1>5
<1> QED
  BY Zenon, <1>1, <1>4, <1>10, <1>11 DEF Counted, size, rank

\* The positions of a list are finitely many, and as many as it is long.
LEMMA Positions ==
  ASSUME NEW T, NEW list \in Seq(T)
  PROVE  /\ Len(list) \in Nat /\ DOMAIN list = 1..Len(list)
         /\ IsFiniteSet(DOMAIN list) /\ Cardinality(DOMAIN list) = Len(list)
         /\ \A i \in DOMAIN list : list[i] \in T
<1>1. Len(list) \in Nat /\ DOMAIN list = 1..Len(list)
  OBVIOUS
<1>2. \A i \in DOMAIN list : list[i] \in T
  OBVIOUS
<1>3. /\ IsFiniteSet(1..Len(list))
      /\ Cardinality(1..Len(list)) = IF 1 > Len(list) THEN 0 ELSE Len(list) - 1 + 1
  BY <1>1, FS_Interval
<1>4. Cardinality(1..Len(list)) = Len(list)
  BY <1>1, <1>3
<1> QED
  BY Zenon, <1>1, <1>2, <1>3, <1>4

\* Only gives servers of the list.
LEMMA OnlyFacts ==
  ASSUME NEW T, NEW list \in Seq(T), NEW at \in SUBSET DOMAIN list
  PROVE  Only(list, at) \in Seq(T)
<1> DEFINE below == [i \in at |-> {j \in at : j < i}]
           rank(i) == Cardinality({j \in at : j < i})
           nth(n) == CHOOSE i \in at : rank(i) = n - 1
<1>1. IsFiniteSet(at) /\ at \in SUBSET Nat /\ \A i \in at : list[i] \in T
  <2>1. at \in SUBSET (1..Len(list)) /\ Len(list) \in Nat
    BY Zenon, Positions
  <2>2. at \in SUBSET Nat
    BY <2>1
  <2> QED
    BY Zenon, <2>2, Positions, FS_Subset
<1>2. Order(at, below)
  <2>1. \A i, j, k \in at : /\ ~(i < i) /\ (i = j \/ j < i \/ i < j)
                            /\ (k < j /\ j < i => k < i)
    BY <1>1
  <2> QED
    BY Zenon, <1>1, <2>1 DEF Order
<1>3. \A i \in at : below[i] = {j \in at : j < i}
  BY Zenon
<1>4. /\ Cardinality(at) \in Nat
      /\ \A n \in 1..Cardinality(at) : \E i \in at : Cardinality(below[i]) = n - 1
  <2> HIDE DEF below
  <2>1. Counted(at, below)
    BY Zenon, <1>2, Ranked
  <2> QED
    BY Zenon, <2>1 DEF Counted
<1>5. \A n \in 1..Cardinality(at) : \E i \in at : rank(i) = n - 1
  BY Zenon, <1>3, <1>4
<1>6. Only(list, at) = [n \in 1..Cardinality(at) |-> list[nth(n)]]
  BY Zenon DEF Only
<1> HIDE DEF rank
<1>7. \A n \in 1..Cardinality(at) : nth(n) \in at
  BY Zenon, <1>5
<1> HIDE DEF nth
<1>8. \A n \in 1..Cardinality(at) : list[nth(n)] \in T
  BY Zenon, <1>1, <1>7
<1> QED
  BY <1>4, <1>6, <1>8

\* Sorting by latency gives the same servers.
LEMMA SortFacts ==
  ASSUME NEW list \in Seq(Servers), NEW latency \in {"quick", "mean"}
  PROVE  /\ SortByLatency(list, latency) \in Seq(Servers)
         /\ Len(SortByLatency(list, latency)) = Len(list)
         /\ \A i \in DOMAIN list : \E n \in 1..Len(list) :
              SortByLatency(list, latency)[n] = list[i]
<1> DEFINE D == DOMAIN list
           before(i, j) == \/ list[i][latency] < list[j][latency]
                           \/ list[i][latency] = list[j][latency] /\ i < j
           below == [i \in D |-> {j \in D : before(j, i)}]
           rank(i) == Cardinality({j \in D : before(j, i)})
           nth(n) == CHOOSE i \in D : rank(i) = n - 1
<1>1. /\ IsFiniteSet(D) /\ D = 1..Len(list) /\ Len(list) \in Nat
      /\ Cardinality(D) = Len(list) /\ \A i \in D : list[i] \in Servers
  BY Zenon, Positions
<1>2. \A i \in D : list[i][latency] \in Nat
  BY <1>1 DEF Servers
<1>3. \A i, j, k \in D : /\ ~before(i, i)
                         /\ (i = j \/ before(j, i) \/ before(i, j))
                         /\ (before(k, j) /\ before(j, i) => before(k, i))
  BY <1>1, <1>2
<1> HIDE DEF before
<1>4. Order(D, below)
  BY Zenon, <1>1, <1>3 DEF Order
<1>5. \A i \in D : below[i] = {j \in D : before(j, i)}
  BY Zenon
<1> HIDE DEF below
<1>6. Counted(D, below)
  BY Zenon, <1>4, Ranked
<1>7. /\ \A i \in D : rank(i) + 1 \in D /\ rank(i) \in Nat
      /\ \A i, j \in D : rank(i) = rank(j) => i = j
      /\ \A n \in D : \E i \in D : rank(i) = n - 1
  BY Zenon, <1>1, <1>5, <1>6 DEF Counted
<1>8. SortByLatency(list, latency) = [n \in D |-> list[nth(n)]]
  BY Zenon DEF SortByLatency, before
<1> HIDE DEF rank
<1>9. \A n \in D : nth(n) \in D /\ rank(nth(n)) = n - 1
  BY Zenon, <1>7
<1>10. ASSUME NEW i \in D PROVE nth(rank(i) + 1) = i
  <2>1. (rank(i) + 1) - 1 = rank(i)
    BY <1>7
  <2> QED
    BY Zenon, <1>7, <1>9, <2>1
<1> HIDE DEF nth
<1>11. \A n \in D : list[nth(n)] \in Servers
  BY Zenon, <1>1, <1>9
<1>12. SortByLatency(list, latency) \in Seq(Servers)
  BY <1>1, <1>8, <1>11
<1>13. Len(SortByLatency(list, latency)) = Len(list)
  BY <1>1, <1>8
<1>14. ASSUME NEW i \in D
       PROVE  \E n \in D : SortByLatency(list, latency)[n] = list[i]
  <2>1. rank(i) + 1 \in D /\ nth(rank(i) + 1) = i
    BY Zenon, <1>7, <1>10
  <2>2. SortByLatency(list, latency)[rank(i) + 1] = list[nth(rank(i) + 1)]
    BY Zenon, <1>8, <2>1
  <2> QED
    BY Zenon, <2>1, <2>2
<1> QED
  BY Zenon, <1>1, <1>12, <1>13, <1>14

-----------------------------------------------------------------------------
(* The servers that are measured.                                          *)

\* The servers that answer are servers of the list.
LEMMA ReachableFacts ==
  ASSUME NEW servers \in Seq(Servers)
  PROVE  Reachable(servers) \in Seq(Servers)
<1> DEFINE at == {i \in DOMAIN servers : servers[i].quick > 0}
<1>1. at \in SUBSET DOMAIN servers
  BY Zenon
<1> HIDE DEF at
<1>2. Only(servers, at) \in Seq(Servers)
  BY Zenon, <1>1, OnlyFacts
<1>3. SortByLatency(Only(servers, at), "quick") \in Seq(Servers)
  BY Zenon, <1>2, SortFacts
<1> QED
  BY Zenon, <1>3 DEF Reachable, at

\* A batch is a stretch of the list.
LEMMA BatchFacts ==
  ASSUME NEW list \in Seq(Servers)
  PROVE  LET batches == Batches(Len(list))
         IN /\ Len(batches) \in Nat
            /\ \A b \in 1..Len(batches) :
                 SubSeq(list, batches[b][1], batches[b][2]) \in Seq(Servers)
<1> DEFINE n == Len(list)
           limit == Smaller(n, refineLimit)
           count == (limit + refineBatch - 1) \div refineBatch
           batches == Batches(n)
<1>1. n \in Nat /\ refineLimit \in Nat /\ refineBatch \in Nat \ {0}
  BY BandwidthAssumption
<1>2. limit \in Nat /\ limit <= n
  BY <1>1 DEF Smaller
<1> HIDE DEF limit
<1>3. count \in Nat
  BY <1>1, <1>2
<1> HIDE DEF count
<1>4. batches = [b \in 1..count |->
                   <<(b - 1) * refineBatch + 1, Smaller(b * refineBatch, limit)>>]
  BY Zenon DEF Batches, count, limit
<1>5. Len(batches) = count
  BY <1>3, <1>4
<1>6. ASSUME NEW b \in 1..count
      PROVE  SubSeq(list, batches[b][1], batches[b][2]) \in Seq(Servers)
  <2> DEFINE lo == (b - 1) * refineBatch + 1
             hi == Smaller(b * refineBatch, limit)
  <2>1. batches[b][1] = lo /\ batches[b][2] = hi
    BY <1>4
  <2>2. lo \in Nat /\ lo >= 1
    <3>1. b - 1 \in Nat
      BY <1>3
    <3>2. (b - 1) * refineBatch \in Nat
      BY ONLY SMT, <3>1, <1>1
    <3> QED
      BY ONLY <3>2
  <2>3. hi \in Int /\ hi <= n
    <3>1. b * refineBatch \in Int
      BY <1>1, <1>3
    <3> QED
      BY <1>1, <1>2, <3>1 DEF Smaller
  <2> HIDE DEF lo, hi
  <2>4. SubSeq(list, lo, hi) \in Seq(Servers)
    BY <2>2, <2>3
  <2> QED
    BY Zenon, <2>1, <2>4
<1> QED
  BY Zenon, <1>3, <1>5, <1>6

Refining == [list: Seq(Servers), calls: Nat, done: BOOLEAN]

\* A batch adds servers of the list.
LEMMA RefineStepFacts ==
  ASSUME NEW acc \in Refining, NEW batch \in Seq(Servers), NEW budget
  PROVE  RefineStep(acc, batch, budget) \in Refining
<1> DEFINE at == {i \in DOMAIN batch : batch[i].mean > 0 /\ batch[i].min > 0}
           more == acc.list \o Only(batch, at)
           done == \/ CountClearing(more, sameFacilityFloor) >= wantQualifying
                   \/ acc.calls + 1 >= budget
<1>1. at \in SUBSET DOMAIN batch
  BY Zenon
<1>2. RefineStep(acc, batch, budget) =
        IF acc.done THEN acc
        ELSE [list |-> more, calls |-> acc.calls + 1, done |-> done]
  BY Zenon DEF RefineStep
<1> HIDE DEF at
<1>3. Only(batch, at) \in Seq(Servers)
  BY Zenon, <1>1, OnlyFacts
<1>4. more \in Seq(Servers) /\ acc.calls + 1 \in Nat
  BY <1>3 DEF Refining
<1>5. done \in BOOLEAN
  BY Zenon
<1> HIDE DEF more, done
<1>6. [list |-> more, calls |-> acc.calls + 1, done |-> done] \in Refining
  BY Zenon, <1>4, <1>5 DEF Refining
<1> QED
  BY Zenon, <1>2, <1>6

\* Refining goes through servers of the list.
LEMMA RefineFacts ==
  ASSUME NEW reachable \in Seq(Servers), NEW budget
  PROVE  Refine(reachable, budget) \in Refining
<1> DEFINE batches == Batches(Len(reachable))
           n == Len(batches)
           base == [list |-> <<>>, calls |-> 0, done |-> FALSE]
           batch(b) == SubSeq(reachable, batches[b][1], batches[b][2])
           Good(f) == f = [b \in 0..n |-> IF b = 0 THEN base
                             ELSE RefineStep(f[b - 1], batch(b), budget)]
           acc == CHOOSE f : Good(f)
           step == [p \in Refining \X (1..n) |-> RefineStep(p[1], batch(p[2]), budget)]
<1>1. Refine(reachable, budget) = acc[n]
  BY DEF Refine
<1>2. n \in Nat /\ \A b \in 1..n : batch(b) \in Seq(Servers)
  BY Zenon, BatchFacts
<1> HIDE DEF n, batch
<1>3. base \in Refining
  BY DEF Refining
<1>4. step \in [Refining \X (1..n) -> Refining]
  <2>1. ASSUME NEW p \in Refining \X (1..n)
        PROVE  RefineStep(p[1], batch(p[2]), budget) \in Refining
    <3>1. p[1] \in Refining /\ p[2] \in 1..n
      BY Zenon
    <3> QED
      BY Zenon, <1>2, <3>1, RefineStepFacts
  <2> QED
    BY Zenon, <2>1
<1>5. \A x \in Refining, b \in 1..n : step[<<x, b>>] = RefineStep(x, batch(b), budget)
  BY Zenon
<1> HIDE DEF base, step
<1>6. PICK f \in [0..n -> Refining] :
        f = [k \in 0..n |-> IF k = 0 THEN base ELSE step[<<f[k - 1], k>>]]
  <2>1. Defines(Refining, base, n, step)
    BY Zenon, <1>2, <1>3, <1>4, Recursion
  <2> QED
    BY Zenon, <2>1 DEF Defines
<1>7. \A k \in 0..n : k # 0 => k - 1 \in 0..n /\ k \in 1..n
  BY <1>2
<1>8. Good(f)
  <2>1. \A k \in 0..n : k # 0 => step[<<f[k - 1], k>>] = RefineStep(f[k - 1], batch(k), budget)
    BY Zenon, <1>5, <1>6, <1>7
  <2> QED
    BY Zenon, <1>6, <2>1
<1>9. Good(acc)
  BY Zenon, <1>8
<1> HIDE DEF acc
<1> DEFINE good == [k \in 0..n |-> Refining]
<1>10. acc[0] \in good[0]
  <2>1. 0 \in 0..n
    BY <1>2
  <2> QED
    BY Zenon, <1>3, <1>9, <2>1
<1>11. ASSUME NEW k \in 1..n, acc[k - 1] \in good[k - 1] PROVE acc[k] \in good[k]
  <2>1. k \in 0..n /\ k # 0 /\ k - 1 \in 0..n
    BY <1>2
  <2>2. acc[k] = RefineStep(acc[k - 1], batch(k), budget)
    BY Zenon, <1>9, <2>1
  <2> QED
    BY Zenon, <1>2, <1>11, <2>1, <2>2, RefineStepFacts
<1>12. n \in 0..n
  BY <1>2
<1>13. acc[n] \in good[n]
  <2> HIDE DEF good, Good
  <2> QED
    BY Zenon, <1>2, <1>10, <1>11, <1>12, Along
<1> QED
  BY Zenon, <1>1, <1>12, <1>13

\* One server per sponsor and city; none below a floor.
Apart(list) == \A i, j \in DOMAIN list : i # j => list[i].key # list[j].key
Above(list, floor) == \A i \in DOMAIN list : list[i].min >= floor

\* What is on the shortlist after the first k servers of a list.
Picked(list, floor, k) ==
  {acc \in Seq(Servers) :
     /\ Apart(acc) /\ Above(acc, floor)
     /\ (\E i \in 1..k : list[i].min >= floor) => acc # <<>>}

\* The next server is taken when it is of another sponsor or city and above the
\* floor.
LEMMA ShortlistStepFacts ==
  ASSUME NEW list \in Seq(Servers), NEW floor \in Nat, NEW k \in 1..Len(list),
         NEW acc \in Picked(list, floor, k - 1)
  PROVE  ShortlistStep(acc, list[k], floor) \in Picked(list, floor, k)
<1> DEFINE c == list[k]
<1>1. /\ acc \in Seq(Servers) /\ Apart(acc) /\ Above(acc, floor)
      /\ (\E i \in 1..(k - 1) : list[i].min >= floor) => acc # <<>>
      /\ k \in Nat /\ c \in Servers /\ maxQualifying \in Nat \ {0}
  BY BandwidthAssumption DEF Picked
<1>2. c.min \in Nat /\ \A i \in 1..k : i = k \/ i \in 1..(k - 1)
  <2>1. c.min \in Nat
    BY Zenon, <1>1 DEF Servers
  <2>2. \A i \in 1..k : i = k \/ i \in 1..(k - 1)
    BY ONLY <1>1
  <2> QED
    BY Zenon, <2>1, <2>2
<1> HIDE DEF c
<1>3. CASE c.min < floor \/ Len(acc) = maxQualifying
             \/ \E i \in DOMAIN acc : acc[i].key = c.key
  <2>1. ShortlistStep(acc, c, floor) = acc
    BY Zenon, <1>3 DEF ShortlistStep
  <2>2. c.min >= floor => acc # <<>>
    BY <1>1, <1>2, <1>3
  <2>3. (\E i \in 1..k : list[i].min >= floor) => acc # <<>>
    BY Zenon, <1>1, <1>2, <2>2 DEF c
  <2> QED
    BY Zenon, <1>1, <2>1, <2>3 DEF Picked, c
<1>4. CASE ~(c.min < floor \/ Len(acc) = maxQualifying
               \/ \E i \in DOMAIN acc : acc[i].key = c.key)
  <2> DEFINE new == Append(acc, c)
  <2>1. ShortlistStep(acc, c, floor) = new
    BY Zenon, <1>4 DEF ShortlistStep
  <2>2. /\ new \in Seq(Servers) /\ new # <<>>
        /\ DOMAIN new = DOMAIN acc \cup {Len(acc) + 1}
        /\ Len(acc) + 1 \notin DOMAIN acc
        /\ new[Len(acc) + 1] = c
        /\ \A i \in DOMAIN acc : new[i] = acc[i]
    BY <1>1
  <2> HIDE DEF new
  <2>3. Apart(new)
    BY Zenon, <1>1, <1>4, <2>2 DEF Apart
  <2>4. c.min >= floor
    BY <1>2, <1>4
  <2>5. Above(new, floor)
    BY Zenon, <1>1, <2>2, <2>4 DEF Above
  <2> QED
    BY Zenon, <2>1, <2>2, <2>3, <2>5 DEF Picked, c
<1> QED
  BY Zenon, <1>3, <1>4

\* A shortlist has one server per sponsor and city, none below the floor, and is
\* not empty when some server of the list is above it.
LEMMA ShortlistFacts ==
  ASSUME NEW list \in Seq(Servers), NEW floor \in Nat
  PROVE  Shortlist(list, floor) \in Picked(list, floor, Len(list))
<1> DEFINE n == Len(list)
           X == Seq(Servers)
           Good(f) == f = [k \in 0..n |-> IF k = 0 THEN <<>>
                             ELSE ShortlistStep(f[k - 1], list[k], floor)]
           acc == CHOOSE f : Good(f)
           step == [p \in X \X (1..n) |-> ShortlistStep(p[1], list[p[2]], floor)]
<1>1. Shortlist(list, floor) = acc[n]
  BY DEF Shortlist
<1>2. n \in Nat /\ <<>> \in X /\ \A k \in 1..n : list[k] \in Servers
  OBVIOUS
<1>3. \A x \in X, c \in Servers : ShortlistStep(x, c, floor) \in X
  BY DEF ShortlistStep
<1> HIDE DEF X, n
<1>4. step \in [X \X (1..n) -> X]
  <2>1. ASSUME NEW p \in X \X (1..n)
        PROVE  ShortlistStep(p[1], list[p[2]], floor) \in X
    <3>1. p[1] \in X /\ p[2] \in 1..n
      BY Zenon
    <3> QED
      BY Zenon, <1>2, <1>3, <3>1
  <2> QED
    BY Zenon, <2>1
<1>5. \A x \in X, k \in 1..n : step[<<x, k>>] = ShortlistStep(x, list[k], floor)
  BY Zenon
<1> HIDE DEF step
<1>6. PICK f \in [0..n -> X] :
        f = [k \in 0..n |-> IF k = 0 THEN <<>> ELSE step[<<f[k - 1], k>>]]
  <2>1. Defines(X, <<>>, n, step)
    BY Zenon, <1>2, <1>4, Recursion
  <2> QED
    BY Zenon, <2>1 DEF Defines
<1>7. \A k \in 0..n : k # 0 => k - 1 \in 0..n /\ k \in 1..n
  BY <1>2
<1>8. Good(f)
  <2>1. \A k \in 0..n : k # 0 => step[<<f[k - 1], k>>] = ShortlistStep(f[k - 1], list[k], floor)
    BY Zenon, <1>5, <1>6, <1>7
  <2> QED
    BY Zenon, <1>6, <2>1
<1>9. Good(acc)
  BY Zenon, <1>8
<1> HIDE DEF acc
<1> DEFINE good == [k \in 0..n |-> Picked(list, floor, k)]
<1>10. 0 \in 0..n /\ n \in 0..n /\ 1..0 = {}
  BY <1>2
<1>11. acc[0] \in good[0]
  <2>1. DOMAIN <<>> = {}
    OBVIOUS
  <2>2. <<>> \in Picked(list, floor, 0)
    BY Zenon, <1>2, <1>10, <2>1 DEF Picked, X, Apart, Above
  <2>3. acc[0] = <<>>
    BY Zenon, <1>9, <1>10
  <2> QED
    BY Zenon, <1>10, <2>2, <2>3
<1>12. ASSUME NEW k \in 1..n, acc[k - 1] \in good[k - 1] PROVE acc[k] \in good[k]
  <2>1. k \in 0..n /\ k # 0 /\ k - 1 \in 0..n
    BY <1>2
  <2>2. acc[k] = ShortlistStep(acc[k - 1], list[k], floor)
    BY Zenon, <1>9, <2>1
  <2>3. acc[k - 1] \in Picked(list, floor, k - 1)
    BY Zenon, <1>12, <2>1
  <2>4. acc[k] \in Picked(list, floor, k)
    BY Zenon, <2>2, <2>3, ShortlistStepFacts DEF n
  <2> QED
    BY Zenon, <2>1, <2>4
<1>13. acc[n] \in good[n]
  <2> HIDE DEF good, Good
  <2> QED
    BY Zenon, <1>2, <1>10, <1>11, <1>12, Along
<1> QED
  BY Zenon, <1>1, <1>10, <1>13 DEF n

\* What the tests of the first k servers of a list have given.
Sampling == [got: Seq(Servers), calls: Nat, done: BOOLEAN]
Sampled(list, k) ==
  {acc \in Sampling :
     /\ Apart(acc.got)
     /\ \A i \in DOMAIN acc.got : \E j \in 1..k : acc.got[i] = list[j]}

\* A test adds its server's sample or nothing.
LEMMA SampleStepType ==
  ASSUME NEW acc \in Sampling, NEW c \in Servers, NEW budget
  PROVE  /\ SampleStep(acc, c, budget) \in Sampling
         /\ \/ SampleStep(acc, c, budget).got = acc.got
            \/ SampleStep(acc, c, budget).got = Append(acc.got, c)
<1> DEFINE more == Append(acc.got, c)
           done == Len(more) >= maxSamples \/ Agree(more)
           next == SampleStep(acc, c, budget)
<1>1. acc.got \in Seq(Servers) /\ acc.calls \in Nat
  BY DEF Sampling
<1>2. more \in Seq(Servers) /\ acc.calls + 1 \in Nat
  BY <1>1
<1>3. done \in BOOLEAN
  BY Zenon
<1>4. \/ next = acc
      \/ next = [acc EXCEPT !.done = TRUE]
      \/ next = [acc EXCEPT !.calls = @ + 1]
      \/ next = [got |-> more, calls |-> acc.calls + 1, done |-> done]
  BY Zenon DEF SampleStep
<1> HIDE DEF more, done, next
<1>5. /\ [acc EXCEPT !.done = TRUE] \in Sampling
      /\ [acc EXCEPT !.done = TRUE].got = acc.got
  BY DEF Sampling
<1>6. /\ [acc EXCEPT !.calls = @ + 1] \in Sampling
      /\ [acc EXCEPT !.calls = @ + 1].got = acc.got
  BY DEF Sampling
<1>7. /\ [got |-> more, calls |-> acc.calls + 1, done |-> done] \in Sampling
      /\ [got |-> more, calls |-> acc.calls + 1, done |-> done].got = more
  BY Zenon, <1>2, <1>3 DEF Sampling
<1>8. next \in Sampling /\ (next.got = acc.got \/ next.got = more)
  BY Zenon, <1>4, <1>5, <1>6, <1>7
<1> QED
  BY Zenon, <1>8 DEF next, more

\* The next test is of a server that has given no sample yet.
LEMMA SampleStepFacts ==
  ASSUME NEW list \in Seq(Servers), Apart(list), NEW k \in 1..Len(list), NEW budget,
         NEW acc \in Sampled(list, k - 1)
  PROVE  SampleStep(acc, list[k], budget) \in Sampled(list, k)
<1> DEFINE c == list[k]
           next == SampleStep(acc, c, budget)
           got == acc.got
           more == Append(got, c)
<1>1. /\ acc \in Sampling /\ Apart(got) /\ got \in Seq(Servers)
      /\ \A i \in DOMAIN got : \E j \in 1..(k - 1) : got[i] = list[j]
  BY Zenon DEF Sampled, Sampling
<1>2. /\ c \in Servers /\ k \in DOMAIN list /\ k \in 1..k
      /\ \A j \in 1..(k - 1) : j \in 1..k /\ j \in DOMAIN list /\ j # k
  OBVIOUS
<1>3. next \in Sampling /\ (next.got = got \/ next.got = more)
  BY Zenon, <1>1, <1>2, SampleStepType
<1> HIDE DEF next, got, c
<1>4. Apart(got) /\ \A i \in DOMAIN got : \E j \in 1..k : got[i] = list[j]
  BY Zenon, <1>1, <1>2
<1>5. /\ DOMAIN more = DOMAIN got \cup {Len(got) + 1}
      /\ more[Len(got) + 1] = c
      /\ \A i \in DOMAIN got : more[i] = got[i]
  BY <1>1, <1>2
<1> HIDE DEF more
<1>6. \A i \in DOMAIN got : got[i].key # c.key
  BY Zenon, <1>1, <1>2 DEF Apart, c
<1>7. Apart(more)
  <2>1. ASSUME NEW i \in DOMAIN more, NEW j \in DOMAIN more, i # j
        PROVE  more[i].key # more[j].key
    <3>1. CASE i \in DOMAIN got /\ j \in DOMAIN got
      BY Zenon, <1>1, <1>5, <2>1, <3>1 DEF Apart
    <3>2. CASE i \in DOMAIN got /\ j = Len(got) + 1
      BY Zenon, <1>5, <1>6, <3>2
    <3>3. CASE j \in DOMAIN got /\ i = Len(got) + 1
      BY Zenon, <1>5, <1>6, <3>3
    <3> QED
      BY Zenon, <1>5, <2>1, <3>1, <3>2, <3>3
  <2> QED
    BY Zenon, <2>1 DEF Apart
<1>8. \A i \in DOMAIN more : \E j \in 1..k : more[i] = list[j]
  BY Zenon, <1>2, <1>4, <1>5 DEF c
<1>9. /\ Apart(next.got)
      /\ \A i \in DOMAIN next.got : \E j \in 1..k : next.got[i] = list[j]
  <2>1. CASE next.got = got
    BY Zenon, <1>4, <2>1
  <2>2. CASE next.got = more
    BY Zenon, <1>7, <1>8, <2>2
  <2> QED
    BY Zenon, <1>3, <2>1, <2>2
<1>10. next \in Sampled(list, k)
  BY Zenon, <1>3, <1>9 DEF Sampled
<1> QED
  BY Zenon, <1>10 DEF next, c

\* Samples of servers of a list, one each.
SomeOf(s, list) ==
  /\ s \in Seq(Servers) /\ Apart(s)
  /\ \A i \in DOMAIN s : \E j \in DOMAIN list : s[i] = list[j]

\* What is sampled is of the list.
LEMMA SamplesFacts ==
  ASSUME NEW list \in Seq(Servers), Apart(list), NEW calls \in Nat, NEW budget
  PROVE  SomeOf(Samples(list, calls, budget), list)
<1> DEFINE n == Len(list)
           base == [got |-> <<>>, calls |-> calls, done |-> FALSE]
           Good(f) == f = [k \in 0..n |-> IF k = 0 THEN base
                             ELSE SampleStep(f[k - 1], list[k], budget)]
           acc == CHOOSE f : Good(f)
           step == [p \in Sampling \X (1..n) |-> SampleStep(p[1], list[p[2]], budget)]
<1>1. Samples(list, calls, budget) = acc[n].got
  BY DEF Samples
<1>2. n \in Nat /\ DOMAIN list = 1..n /\ \A k \in 1..n : list[k] \in Servers
  OBVIOUS
<1>3. base \in Sampling /\ base.got = <<>> /\ DOMAIN <<>> = {}
  BY DEF Sampling
<1> HIDE DEF n
<1>4. step \in [Sampling \X (1..n) -> Sampling]
  <2>1. ASSUME NEW p \in Sampling \X (1..n)
        PROVE  SampleStep(p[1], list[p[2]], budget) \in Sampling
    <3>1. p[1] \in Sampling /\ p[2] \in 1..n
      BY Zenon
    <3> QED
      BY Zenon, <1>2, <3>1, SampleStepType
  <2> QED
    BY Zenon, <2>1
<1>5. \A x \in Sampling, k \in 1..n : step[<<x, k>>] = SampleStep(x, list[k], budget)
  BY Zenon
<1> HIDE DEF step, base
<1>6. PICK f \in [0..n -> Sampling] :
        f = [k \in 0..n |-> IF k = 0 THEN base ELSE step[<<f[k - 1], k>>]]
  <2>1. Defines(Sampling, base, n, step)
    BY Zenon, <1>2, <1>3, <1>4, Recursion
  <2> QED
    BY Zenon, <2>1 DEF Defines
<1>7. \A k \in 0..n : k # 0 => k - 1 \in 0..n /\ k \in 1..n
  BY <1>2
<1>8. Good(f)
  <2>1. \A k \in 0..n : k # 0 => step[<<f[k - 1], k>>] = SampleStep(f[k - 1], list[k], budget)
    BY Zenon, <1>5, <1>6, <1>7
  <2> QED
    BY Zenon, <1>6, <2>1
<1>9. Good(acc)
  BY Zenon, <1>8
<1> HIDE DEF acc
<1> DEFINE good == [k \in 0..n |-> Sampled(list, k)]
<1>10. 0 \in 0..n /\ n \in 0..n
  BY <1>2
<1>11. acc[0] \in good[0]
  <2>1. base \in Sampled(list, 0)
    BY Zenon, <1>3 DEF Sampled, Apart
  <2>2. acc[0] = base
    BY Zenon, <1>9, <1>10
  <2> QED
    BY Zenon, <1>10, <2>1, <2>2
<1>12. ASSUME NEW k \in 1..n, acc[k - 1] \in good[k - 1] PROVE acc[k] \in good[k]
  <2>1. k \in 0..n /\ k # 0 /\ k - 1 \in 0..n
    BY <1>2
  <2>2. acc[k] = SampleStep(acc[k - 1], list[k], budget)
    BY Zenon, <1>9, <2>1
  <2>3. acc[k - 1] \in Sampled(list, k - 1)
    BY Zenon, <1>12, <2>1
  <2>4. acc[k] \in Sampled(list, k)
    BY Zenon, <2>2, <2>3, SampleStepFacts DEF n
  <2> QED
    BY Zenon, <2>1, <2>4
<1>13. acc[n] \in good[n]
  <2> HIDE DEF good, Good
  <2> QED
    BY Zenon, <1>2, <1>10, <1>11, <1>12, Along
<1>14. acc[n] \in Sampled(list, n)
  BY Zenon, <1>10, <1>13
<1> QED
  BY Zenon, <1>1, <1>2, <1>14 DEF SomeOf, Sampled, Sampling

\* The servers measured are on paths of their own and off this host's network.
LEMMA MeasuredFacts ==
  ASSUME NEW servers \in Seq(Servers), NEW budget
  PROVE  LET pinged == Refine(Reachable(servers), budget).list
             far == CountClearing(pinged, sameFacilityFloor) > 0
             s == Measured(servers, budget)
         IN /\ s \in Seq(Servers) /\ Apart(s)
            /\ Above(s, IF far THEN sameFacilityFloor ELSE sameBuildingFloor)
<1> DEFINE pinged == Refine(Reachable(servers), budget)
           refined == SortByLatency(pinged.list, "mean")
           strict == Shortlist(refined, sameFacilityFloor)
           relaxed == Shortlist(refined, sameBuildingFloor)
           list == IF strict # <<>> THEN strict ELSE relaxed
           far == CountClearing(pinged.list, sameFacilityFloor) > 0
           s == Samples(list, pinged.calls, budget)
           floor == IF far THEN sameFacilityFloor ELSE sameBuildingFloor
<1>0. /\ sameFacilityFloor \in Nat /\ sameBuildingFloor \in Nat
      /\ sameBuildingFloor <= sameFacilityFloor
  BY Zenon, BandwidthAssumption
<1>1. Measured(servers, budget) = s
  BY Zenon DEF Measured
<1>2. pinged \in Refining
  BY Zenon, ReachableFacts, RefineFacts
<1> HIDE DEF pinged
<1>3. pinged.list \in Seq(Servers) /\ pinged.calls \in Nat
  BY Zenon, <1>2 DEF Refining
<1>4. /\ refined \in Seq(Servers) /\ Len(refined) = Len(pinged.list)
      /\ \A i \in DOMAIN pinged.list : \E n \in 1..Len(pinged.list) :
           refined[n] = pinged.list[i]
  BY Zenon, <1>3, SortFacts
<1> HIDE DEF refined
<1>5. /\ strict \in Picked(refined, sameFacilityFloor, Len(refined))
      /\ relaxed \in Picked(refined, sameBuildingFloor, Len(refined))
  BY Zenon, <1>0, <1>4, ShortlistFacts
<1> HIDE DEF strict, relaxed
<1>6. far => strict # <<>>
  <2> DEFINE D == DOMAIN pinged.list
             clear == {i \in D : pinged.list[i].min >= sameFacilityFloor}
  <2>1. CountClearing(pinged.list, sameFacilityFloor) = Cardinality(clear)
    BY Zenon DEF CountClearing
  <2>2. far => clear # {}
    <3> HIDE DEF clear
    <3>1. Cardinality({}) = 0
      BY Zenon, FS_EmptySet
    <3>2. ~(0 > 0)
      OBVIOUS
    <3> QED
      BY Zenon, <2>1, <3>1, <3>2
  <2>3. far => \E n \in 1..Len(refined) : refined[n].min >= sameFacilityFloor
    BY Zenon, <1>4, <2>2
  <2> QED
    BY Zenon, <1>5, <2>3 DEF Picked
<1> HIDE DEF far
<1>7. /\ list \in Seq(Servers) /\ Apart(list)
      /\ strict # <<>> => Above(list, sameFacilityFloor)
      /\ strict = <<>> => Above(list, sameBuildingFloor)
  BY Zenon, <1>5 DEF Picked
<1> HIDE DEF list
<1>8. Above(list, floor)
  <2>1. ASSUME NEW i \in DOMAIN list PROVE list[i].min >= floor
    <3>1. list[i].min \in Nat
      <4>1. list[i] \in Servers
        BY Zenon, <1>7, Positions
      <4> QED
        BY Zenon, <4>1 DEF Servers
    <3>2. \/ far /\ list[i].min >= sameFacilityFloor
          \/ ~far /\ list[i].min >= sameFacilityFloor
          \/ ~far /\ list[i].min >= sameBuildingFloor
      BY Zenon, <1>6, <1>7 DEF Above
    <3> QED
      BY <1>0, <3>1, <3>2
  <2> QED
    BY Zenon, <2>1 DEF Above
<1>9. /\ s \in Seq(Servers) /\ Apart(s)
      /\ \A i \in DOMAIN s : \E j \in DOMAIN list : s[i] = list[j]
  <2>1. SomeOf(s, list)
    BY Zenon, <1>3, <1>7, SamplesFacts
  <2> QED
    BY Zenon, <2>1 DEF SomeOf
<1> HIDE DEF s, floor
<1>10. Above(s, floor)
  <2>1. ASSUME NEW i \in DOMAIN s PROVE s[i].min >= floor
    <3>1. PICK j \in DOMAIN list : s[i] = list[j]
      BY Zenon, <1>9
    <3>2. list[j].min >= floor
      BY Zenon, <1>8 DEF Above
    <3> QED
      BY Zenon, <3>1, <3>2
  <2> QED
    BY Zenon, <2>1 DEF Above
<1> QED
  BY Zenon, <1>1, <1>9, <1>10 DEF floor, far, pinged

\* The figure never overstates: it is no higher than any sample.
LEMMA AggregateFacts ==
  ASSUME NEW s \in Seq(Servers)
  PROVE  LET r == Aggregate(s)
         IN /\ s = <<>> => r = NoResult
            /\ s # <<>> =>
                 /\ r.source = "speedtest"
                 /\ \A i \in DOMAIN s : r.up <= s[i].up /\ r.down <= s[i].down
<1>1. CASE s = <<>>
  BY Zenon, <1>1 DEF Aggregate
<1>2. CASE s # <<>>
  <2>1. ASSUME NEW rate \in {"up", "down"}
        PROVE  \A i \in DOMAIN s : Least(s, rate) <= s[i][rate]
    <3> DEFINE S == {s[i][rate] : i \in DOMAIN s}
    <3>1. S \in SUBSET Nat
      <4>1. ASSUME NEW i \in DOMAIN s PROVE s[i][rate] \in Nat
        <5>1. s[i] \in Servers
          BY Zenon, Positions
        <5>2. s[i].up \in Nat /\ s[i].down \in Nat
          BY Zenon, <5>1 DEF Servers
        <5> QED
          BY Zenon, <5>2
      <4> QED
        BY Zenon, <4>1
    <3>2. S # {}
      <4>1. 1 \in DOMAIN s
        BY <1>2
      <4> QED
        BY Zenon, <4>1
    <3> HIDE DEF S
    <3>3. \E m \in S : \A n \in S : m <= n
      BY Zenon, <3>1, <3>2, LeastNat
    <3>4. \A n \in S : Min(S) <= n
      BY Zenon, <3>3 DEF Min
    <3> QED
      BY Zenon, <3>4 DEF Least, S
  <2>2. Aggregate(s) = [up |-> Least(s, "up"), down |-> Least(s, "down"),
                        source |-> "speedtest"]
    BY Zenon, <1>2 DEF Aggregate, Result
  <2>3. /\ Aggregate(s).up = Least(s, "up") /\ Aggregate(s).down = Least(s, "down")
        /\ Aggregate(s).source = "speedtest"
    BY <2>2
  <2>4. \A i \in DOMAIN s : Least(s, "up") <= s[i].up /\ Least(s, "down") <= s[i].down
    BY Zenon, <2>1
  <2> QED
    BY Zenon, <1>2, <2>3, <2>4
<1> QED
  BY Zenon, <1>1, <1>2

-----------------------------------------------------------------------------
(* The figure.                                                             *)

\* The clock and the record; a cached measurement has a date.
Dated ==
  /\ now \in Nat /\ DOMAIN node = Fields
  /\ cache # NoCache => cache.at \in Nat

BInv == Dated /\ MeasuredHere /\ OffThisNetwork

\* A step that neither finds a figure nor touches the cache.
LEMMA ElsewhereInv ==
  ASSUME BInv, now' \in Nat, DOMAIN node' = Fields, node'.pc # "service", cache' = cache
  PROVE  BInv'
<1>1. Dated'
  BY Zenon DEF BInv, Dated
<1>2. MeasuredHere'
  BY Zenon DEF MeasuredHere
<1>3. OffThisNetwork'
  BY Zenon DEF OffThisNetwork
<1> QED
  BY Zenon, <1>1, <1>2, <1>3 DEF BInv

\* Only the two measuring steps lead to the service.
LEMMA Elsewhere ==
  ASSUME BInv, Next, ~MeasureNot, ~Measure
  PROVE  now' \in Nat /\ DOMAIN node' = Fields /\ node'.pc # "service" /\ cache' = cache
<1>1. now \in Nat /\ DOMAIN node = Fields
  BY Zenon DEF BInv, Dated
<1>2. /\ \A why, seen : Fail(why, seen) => DOMAIN node' = Fields /\ node'.pc = "failed"
      /\ \A pc, seen : To(pc, seen) => DOMAIN node' = Fields /\ node'.pc = pc
  BY Zenon, <1>1, ToFacts, FailFacts
<1>3. CASE Boot
  <2> DEFINE why(c, skip) ==
               CASE ~skip /\ ~Validate(c) -> "config"
                 [] (skip \/ Validate(c)) /\ c.type \notin NodeTypes -> "type"
                 [] (skip \/ Validate(c)) /\ c.type \in NodeTypes
                      /\ c.gas_prices = "bad" -> "panic"
                 [] OTHER -> ""
  <2>1. PICK c \in Configs, skip \in BOOLEAN :
          node' = [Off EXCEPT !.pc = IF why(c, skip) = "" THEN "client" ELSE "failed",
                              !.why = why(c, skip), !.unchecked = ~Validate(c),
                              !.config = c]
    BY Zenon, <1>3 DEF Boot
  <2> HIDE DEF why
  <2>2. DOMAIN node' = Fields /\ node'.pc \in {"client", "failed"}
    BY <2>1 DEF Off, Fields
  <2> QED
    BY Zenon, <1>1, <1>3, <2>2 DEF Boot
<1>4. CASE QueryAccount
  <2>1. now' \in Nat /\ cache' = cache
    BY Zenon, <1>1, <1>4 DEF QueryAccount
  <2>2. (\E why, seen : Fail(why, seen)) \/ \E seen : To("params", seen) \/ To("grants", seen)
    BY Zenon, <1>4 DEF QueryAccount
  <2> QED
    BY <1>2, <2>1, <2>2
<1>5. CASE CheckGrants
  <2>1. now' \in Nat /\ cache' = cache
    BY Zenon, <1>1, <1>5 DEF CheckGrants
  <2>2. (\E why, seen : Fail(why, seen)) \/ \E seen : To("params", seen)
    BY Zenon, <1>5 DEF CheckGrants
  <2> QED
    BY <1>2, <2>1, <2>2
<1>6. CASE QueryParams
  <2>1. CASE Fail("chain", Nothing)
    BY Zenon, <1>1, <1>2, <1>6, <2>1 DEF QueryParams
  <2>2. ASSUME NEW t \in Timeouts,
               node' = [node EXCEPT
                 !.pc = "locate",
                 !.config.interval_update_status = Clamp(@, t.status),
                 !.config.interval_update_sessions = Clamp(@, t.sessions),
                 !.seen = t]
        PROVE  DOMAIN node' = Fields /\ node'.pc = "locate"
    BY <1>1, <2>2 DEF Fields
  <2> QED
    BY Zenon, <1>1, <1>6, <2>1, <2>2 DEF QueryParams
<1>7. CASE Locating
  <2>1. \/ \E seen : Fail("location", seen)
        \/ \E l, seen : node' = [node EXCEPT !.pc = "measure", !.location = l,
                                             !.seen = seen]
    <3> DEFINE c == node.config
               found(r) == Locate(c.provider, r, c.ipv4_address, c.country, c.city)
               answer(r, n) == Fetch(n, r[n])
               seen(r) == [answered |-> {n \in AutoSources : answer(r, n) # <<>>},
                           placed |-> {n \in AutoSources : Placed(answer(r, n))}]
    <3>1. PICK r \in RepliesAt(place) :
            IF found(r) = <<>> THEN Fail("location", seen(r))
            ELSE node' = [node EXCEPT !.pc = "measure", !.location = found(r)[1],
                                      !.seen = seen(r)]
      BY Zenon, <1>7 DEF Locating
    <3> HIDE DEF found, seen
    <3> QED
      BY Zenon, <3>1
  <2>2. ASSUME NEW l, NEW seen,
               node' = [node EXCEPT !.pc = "measure", !.location = l, !.seen = seen]
        PROVE  DOMAIN node' = Fields /\ node'.pc = "measure"
    BY <1>1, <2>2 DEF Fields
  <2> QED
    BY Zenon, <1>1, <1>2, <1>7, <2>1, <2>2 DEF Locating
<1>8. CASE Serve
  <2>1. now' \in Nat /\ cache' = cache
    BY Zenon, <1>1, <1>8 DEF Serve
  <2>2. (\E why, seen : Fail(why, seen)) \/ \E seen : To("ready", seen)
    BY Zenon, <1>8 DEF Serve
  <2> QED
    BY <1>2, <2>1, <2>2
<1>9. CASE Exit \/ Move
  BY Zenon, <1>1, <1>9, OffFacts DEF Exit, Move
<1>10. CASE Tick
  <2>1. now' \in Nat
    BY <1>1, <1>10 DEF Tick
  <2> QED
    BY Zenon, <1>1, <1>10, <2>1 DEF Tick
<1> QED
  BY Zenon, <1>3, <1>4, <1>5, <1>6, <1>7, <1>8, <1>9, <1>10 DEF Next

\* A figure is declared or read back.
LEMMA NotMeasured ==
  ASSUME BInv, MeasureNot
  PROVE  BInv'
<1>1. /\ DOMAIN node = Fields /\ now \in Nat /\ cacheTTL \in Nat
      /\ now' = now /\ cache' = cache
  BY Zenon, BandwidthAssumption DEF BInv, Dated, MeasureNot
<1>2. ASSUME NEW result, node' = [node EXCEPT !.pc = "service", !.seen = Nothing,
                                              !.result = result]
      PROVE  /\ node'.seen = Nothing /\ node'.result = result
             /\ node'.config = node.config /\ node'.location = node.location
             /\ DOMAIN node' = Fields
  BY <1>1, <1>2 DEF Fields
<1>3. node'.seen = Nothing /\ DOMAIN node' = Fields
  BY Zenon, <1>2 DEF MeasureNot
<1>4. Dated'
  BY Zenon, <1>1, <1>3 DEF BInv, Dated
<1>5. OffThisNetwork'
  BY Zenon, <1>3 DEF OffThisNetwork
<1>6. MeasuredHere'
  <2>1. CASE Declared(node.config)
    <3> DEFINE r == Result(node.config.upload_mbps, node.config.download_mbps, "config")
    <3>1. node' = [node EXCEPT !.pc = "service", !.seen = Nothing, !.result = r]
      BY Zenon, <2>1 DEF MeasureNot
    <3>2. r.source = "config"
      BY DEF Result
    <3> HIDE DEF r
    <3>3. node'.result = r /\ node'.config = node.config
      BY Zenon, <1>2, <3>1
    <3>4. Declared(node'.config) /\ node'.result.source = "config"
      BY Zenon, <2>1, <3>2, <3>3
    <3> QED
      BY Zenon, <3>4 DEF MeasuredHere
  <2>2. CASE ~Declared(node.config)
    <3> DEFINE r == CachedResult(cache)
    <3>1. /\ node' = [node EXCEPT !.pc = "service", !.seen = Nothing, !.result = r]
          /\ Reusable(cache, node.location.ip, now)
      BY Zenon, <2>2 DEF MeasureNot
    <3>2. r.source = "speedtest"
      BY DEF CachedResult, Result
    <3> HIDE DEF r
    <3>3. node'.result = r /\ node'.location = node.location
      BY Zenon, <1>2, <3>1
    <3>4. cache # NoCache /\ cache.ip = node.location.ip /\ now - cache.at < cacheTTL
      BY Zenon, <3>1 DEF Reusable
    <3>5. cache.at \in Nat
      BY Zenon, <3>4 DEF BInv, Dated
    <3>6. now < cache.at + cacheTTL
      BY <1>1, <3>4, <3>5
    <3>7. node'.result.source = "speedtest" /\ node'.result = CachedResult(cache)
      BY Zenon, <3>2, <3>3 DEF r
    <3> QED
      BY Zenon, <1>1, <1>3, <3>3, <3>4, <3>6, <3>7 DEF MeasuredHere
  <2> QED
    BY Zenon, <2>1, <2>2
<1> QED
  BY Zenon, <1>4, <1>5, <1>6 DEF BInv

\* What a measurement comes to.
LEMMA MeasurementFacts ==
  ASSUME NEW m \in Measurements
  PROVE  /\ m # Nothing /\ m.samples \in Seq(Servers) /\ Apart(m.samples)
         /\ Above(m.samples, IF m.far THEN sameFacilityFloor ELSE sameBuildingFloor)
<1>1. PICK servers \in ServerLists \cup {<<>>}, budget \in Budgets :
        m = Measurement(servers, budget)
  BY DEF Measurements
<1>2. servers \in Seq(Servers)
  <2>1. <<>> \in Seq(Servers)
    OBVIOUS
  <2> QED
    BY Zenon, <2>1, ServersAssumption
<1> DEFINE s == Measured(servers, budget)
           far == CountClearing(Refine(Reachable(servers), budget).list,
                                sameFacilityFloor) > 0
<1>3. /\ s \in Seq(Servers) /\ Apart(s)
      /\ Above(s, IF far THEN sameFacilityFloor ELSE sameBuildingFloor)
  BY Zenon, <1>2, MeasuredFacts
<1>4. m = [samples |-> s, far |-> far]
  BY Zenon, <1>1 DEF Measurement
<1> HIDE DEF s, far
<1>5. m.samples = s /\ m.far = far
  BY Zenon, <1>4
<1> QED
  BY Zenon, <1>3, <1>5, NothingAssumption

\* A figure is measured, or read back after a failure.
LEMMA MeasuredInv ==
  ASSUME BInv, Measure
  PROVE  BInv'
<1> DEFINE ip == node.location.ip
           fresh(m) == Aggregate(m.samples)
<1>1. PICK m \in Measurements :
        /\ IF fresh(m).source = "speedtest"
           THEN cache' \in {CacheEntry(ip, fresh(m), now), cache, NoCache}
           ELSE UNCHANGED cache
        /\ node' = [node EXCEPT !.pc = "service", !.seen = m,
             !.result = AfterMeasure(cache, ip, fresh(m))]
  BY Zenon DEF Measure
<1> DEFINE s == m.samples
           r == fresh(m)
           after == AfterMeasure(cache, ip, r)
<1>2. /\ m # Nothing /\ s \in Seq(Servers) /\ Apart(s)
      /\ Above(s, IF m.far THEN sameFacilityFloor ELSE sameBuildingFloor)
  BY Zenon, MeasurementFacts
<1>3. /\ s = <<>> => r = NoResult
      /\ s # <<>> => /\ r.source = "speedtest"
                     /\ \A i \in DOMAIN s : r.up <= s[i].up /\ r.down <= s[i].down
  BY Zenon, <1>2, AggregateFacts
<1> HIDE DEF s, r, ip
<1>4. DOMAIN node = Fields /\ now \in Nat /\ now' = now
  BY Zenon DEF BInv, Dated, Measure
<1>5. /\ DOMAIN node' = Fields /\ node'.seen = m /\ node'.result = after
      /\ node'.config = node.config /\ node'.location = node.location
  BY <1>1, <1>4 DEF Fields, r
<1>6. Dated'
  <2>1. CacheEntry(ip, r, now).at = now
    BY Zenon DEF CacheEntry
  <2>2. cache' \in {CacheEntry(ip, r, now), cache, NoCache}
    BY Zenon, <1>1 DEF r
  <2> QED
    BY Zenon, <1>4, <1>5, <2>1, <2>2 DEF BInv, Dated
<1>7. OffThisNetwork'
  <2>1. node'.seen.samples = s /\ node'.seen.far = m.far
    BY Zenon, <1>5 DEF s
  <2> QED
    BY Zenon, <1>2, <2>1 DEF OffThisNetwork, Apart, Above
<1>8. MeasuredHere'
  <2>1. node'.seen # Nothing /\ node'.seen.samples = s
    BY Zenon, <1>2, <1>5 DEF s
  <2>2. CASE s # <<>>
    <3>1. after = r
      <4>1. ~(r.source = "none")
        BY Zenon, <1>3, <2>2
      <4> QED
        BY Zenon, <4>1 DEF AfterMeasure
    <3>2. /\ node'.result.source = "speedtest"
          /\ \A i \in DOMAIN s : node'.result.up <= s[i].up /\ node'.result.down <= s[i].down
      BY Zenon, <1>3, <1>5, <2>2, <3>1
    <3> QED
      BY Zenon, <2>1, <2>2, <3>2 DEF MeasuredHere
  <2>3. CASE s = <<>>
    <3>1. NoResult.source = "none" /\ CachedResult(cache).source = "speedtest"
      BY Zenon DEF NoResult, CachedResult, Result
    <3>2. r = NoResult /\ r.source = "none" /\ cache' = cache
      BY Zenon, <1>1, <1>3, <2>3, <3>1 DEF r
    <3>3. node'.location.ip = ip
      BY Zenon, <1>5 DEF ip
    <3>4. CASE cache # NoCache /\ cache.ip = ip
      <4>1. node'.result = CachedResult(cache) /\ node'.result.source = "speedtest"
        BY Zenon, <1>5, <3>1, <3>2, <3>4 DEF AfterMeasure
      <4> QED
        BY Zenon, <2>1, <2>3, <3>2, <3>3, <3>4, <4>1 DEF MeasuredHere
    <3>5. CASE ~(cache # NoCache /\ cache.ip = ip)
      <4>1. node'.result = NoResult /\ node'.result.source = "none"
        BY Zenon, <1>5, <3>1, <3>2, <3>5 DEF AfterMeasure
      <4> QED
        BY Zenon, <2>1, <2>3, <3>2, <3>3, <3>5, <4>1 DEF MeasuredHere
    <3> QED
      BY Zenon, <3>4, <3>5
  <2> QED
    BY Zenon, <2>2, <2>3
<1> QED
  BY Zenon, <1>6, <1>7, <1>8 DEF BInv

\* What the node advertises was found as the invariant says, in every start.
THEOREM FigureInvariant == Spec => []BInv
<1>1. Init => BInv
  <2>1. 0 \in Nat
    OBVIOUS
  <2> QED
    BY Zenon, <2>1, OffFacts DEF Init, BInv, Dated, MeasuredHere, OffThisNetwork
<1>2. BInv /\ [Next]_vars => BInv'
  <2> SUFFICES ASSUME BInv, [Next]_vars PROVE BInv'
    OBVIOUS
  <2>1. CASE UNCHANGED vars
    <3>1. now' = now /\ cache' = cache /\ node' = node
      BY Zenon, <2>1 DEF vars
    <3>2. Dated'
      BY Zenon, <3>1 DEF BInv, Dated
    <3>3. MeasuredHere'
      BY Zenon, <3>1 DEF BInv, MeasuredHere
    <3>4. OffThisNetwork'
      BY Zenon, <3>1 DEF BInv, OffThisNetwork
    <3> QED
      BY Zenon, <3>2, <3>3, <3>4 DEF BInv
  <2>2. CASE Next
    BY Zenon, <2>2, NotMeasured, MeasuredInv, Elsewhere, ElsewhereInv
  <2> QED
    BY Zenon, <2>1, <2>2
<1> QED
  BY <1>1, <1>2, PTL DEF Spec

\* The figure the node advertises is one of its address, and never above what the
\* measured servers managed (libs/bandwidth/bandwidth.go Measure).
THEOREM FigureOfThisHost == Spec => []MeasuredHere
<1>1. BInv => MeasuredHere
  BY Zenon DEF BInv
<1> QED
  BY <1>1, FigureInvariant, PTL

\* What is measured is the way to the internet, over paths of their own
\* (libs/bandwidth/bandwidth.go measure, shortlist).
THEOREM MeasuresTheInternet == Spec => []OffThisNetwork
<1>1. BInv => OffThisNetwork
  BY Zenon DEF BInv
<1> QED
  BY <1>1, FigureInvariant, PTL
=============================================================================
