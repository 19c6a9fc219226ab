------------------------------- MODULE GeoIP --------------------------------
(***************************************************************************)
(* The node's public address and location (libs/geoip): one request per    *)
(* source, the automatic chain of sources with its fallbacks, and the      *)
(* operator's static values on top.                                        *)
(*                                                                         *)
(* A reply is what a source sends back; the parsers turn it into an answer *)
(* of at most one location (an error is the empty sequence).               *)
(***************************************************************************)
EXTENDS Naturals, Sequences

\* Names and codes of countries as they come in: any case, either form, or
\* Cloudflare's mark for an address it cannot place.
CountryText == {"", "Aland", "aland", "AX", "ax", "Benin", "BJ", "XX"}
Fold == [t \in CountryText |->
           CASE t = "aland" -> "Aland" [] t = "ax" -> "AX" [] OTHER -> t]
EqualFold(a, b) == Fold[a] = Fold[b]
ToUpper(t) == IF t = "ax" THEN "AX" ELSE t
TwoLetters(t) == t \in {"AX", "ax", "BJ", "XX"}

\* The code that belongs to a country.
CodeOf(t) == IF Fold[t] \in {"Aland", "AX"} THEN "AX" ELSE "BJ"

\* `up': HTTP 200 with a body that decodes; `success': the body reports no
\* failure of the lookup; `ip': it carries the address.
Reply(up, success, ip, city, country, code) ==
  [up |-> up, success |-> success, ip |-> ip, city |-> city,
   country |-> country, code |-> code]

Location(ip, city, country, code, source) ==
  [ip |-> ip, city |-> city, country |-> country, code |-> code,
   source |-> source]

-----------------------------------------------------------------------------
(* One source.                                                             *)

Full(r, source) == <<Location(r.ip, r.city, r.country, r.code, source)>>

\* Both report a failed lookup in a body of HTTP 200.
ParseIPWhois(r) == IF r.success THEN Full(r, "ipwho.is") ELSE <<>>
ParseIP2Location(r) == IF r.success THEN Full(r, "ip2location.io") ELSE <<>>

\* The address is required; XX is no country.
ParseCloudflare(r) ==
  IF r.ip = "" THEN <<>>
  ELSE <<Location(r.ip, "", "",
                  IF r.code = "XX" THEN "" ELSE ToUpper(r.code), "cloudflare")>>

ParseIPify(r) == <<Location(r.ip, "", "", "", "ipify")>>
ParseIPAPI(r) == Full(r, "ip-api")

\* The classic shape carries the code in the country's place.
ParseIPInfo(r) ==
  <<Location(r.ip, r.city, r.country,
             IF r.code = "" /\ TwoLetters(r.country) THEN ToUpper(r.country)
             ELSE r.code, "ipinfo")>>

Providers ==
  {"ipwhois", "ip2location", "cloudflare", "ipify", "ip-api", "ipinfo"}

Fetch(name, r) ==
  IF ~r.up THEN <<>>
  ELSE CASE name = "ipwhois" -> ParseIPWhois(r)
         [] name = "ip2location" -> ParseIP2Location(r)
         [] name = "cloudflare" -> ParseCloudflare(r)
         [] name = "ipify" -> ParseIPify(r)
         [] name = "ip-api" -> ParseIPAPI(r)
         [] name = "ipinfo" -> ParseIPInfo(r)

-----------------------------------------------------------------------------
(* The automatic chain.                                                    *)

autoChain == <<"ipwhois", "ip2location">>
AutoSources == {"ipwhois", "ip2location", "cloudflare", "ipify"}

Placed(answer) == answer # <<>> /\ answer[1].code # ""

\* Mutant: the first answer, with or without a country.
LookupAutoAnyAnswer(replies, ip) ==
  LET answer == [n \in AutoSources |-> Fetch(n, replies[n])]
      fallback == IF ip # "" THEN <<Location(ip, "", "", "", "none")>> ELSE <<>>
  IN IF answer["ipwhois"] # <<>> THEN answer["ipwhois"]
     ELSE IF answer["ip2location"] # <<>> THEN answer["ip2location"]
     ELSE IF answer["cloudflare"] # <<>> THEN answer["cloudflare"]
     ELSE IF answer["ipify"] # <<>> THEN answer["ipify"]
     ELSE fallback

\* A source without a country is passed over.  Cloudflare's country is only
\* compared with what a city-level source said (a mismatch is logged).
LookupAuto(replies, ip) ==
  LET answer == [n \in AutoSources |-> Fetch(n, replies[n])]
      full == {i \in DOMAIN autoChain : Placed(answer[autoChain[i]])}
      first == CHOOSE i \in full : \A j \in full : i <= j
  IN IF full # {} THEN answer[autoChain[first]]
     ELSE IF answer["cloudflare"] # <<>> THEN answer["cloudflare"]
     ELSE IF answer["ipify"] # <<>> THEN answer["ipify"]
     ELSE IF ip # "" THEN <<Location(ip, "", "", "", "none")>>
     ELSE <<>>

-----------------------------------------------------------------------------
(* The static values.                                                      *)

\* The code that goes with a static country: its own, or the looked-up one when
\* both are of the same country.
StaticCode(static, country, code) ==
  CASE static = "" -> code
    [] TwoLetters(static) -> ToUpper(static)
    [] static # "" /\ ~TwoLetters(static) ->
         IF EqualFold(static, country) \/ EqualFold(static, code) THEN code
         ELSE ""

\* Coordinates are replaced likewise and left out.
ApplyStatic(loc, country, city) ==
  [loc EXCEPT
     !.country = IF country = "" THEN @ ELSE country,
     !.code = StaticCode(country, loc.country, loc.code),
     !.city = IF city = "" THEN @ ELSE city,
     !.source = IF country = "" /\ city = "" THEN @ ELSE "static"]

\* Location: no answer is an error.  An unknown provider never gets here with
\* an answer.
Locate(provider, replies, ip, country, city) ==
  LET found == CASE provider = "none" -> <<Location(ip, "", "", "", "none")>>
                 [] provider = "auto" -> LookupAuto(replies, ip)
                 [] provider \in Providers ->
                      Fetch(provider, replies[provider])
                 [] OTHER -> <<>>
  IN IF found = <<>> THEN <<>> ELSE <<ApplyStatic(found[1], country, city)>>
=============================================================================
