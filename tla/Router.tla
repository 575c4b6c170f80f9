-------------------------------- MODULE Router --------------------------------
(***************************************************************************)
(* How controlplane decides where a request goes: the order of the rules   *)
(* (rules.go), which rule a request gets and which region it belongs to    *)
(* (router.go, regions.go), and which city it is for (extractor.go).  All  *)
(* of it is a function of one request and one loaded configuration.        *)
(*                                                                         *)
(* A configuration is a record                                             *)
(*   rules       a set of rules [match, action, payload, weight]           *)
(*   regions     region id -> [online, failover, apps], or Nil             *)
(*   hobRegions, hobModes   city -> region id, mode                        *)
(*   version     configVersion, a timestamp                                *)
(* A region id is a number: the order of numbers is the order of ids.      *)
(* A path is cut into fragments so fine that a string is a prefix of       *)
(* another exactly if its fragments are.  A match's list of cities is a    *)
(* set, a proportion counts buckets of hashSample (a million in the code). *)
(* Besides query, form and headers (Session) a request has its path,       *)
(* source, host, the route it forces, and badForm: its body does not parse *)
(* as a form.                                                              *)
(***************************************************************************)
EXTENDS Integers, Session

CONSTANTS
    Nil,        \* Go's nil: no match, payload, rule or region
    Buckets,    \* number of sampling buckets
    Hash,       \* bucket of each value hashSample is given
    HostMap     \* city of each known hostname, "" for the others

ASSUME RouterAssumption ==
    /\ Buckets \in Nat \ {0}
    /\ Hash \in [DOMAIN Hash -> 0..Buckets - 1]
    /\ "" \notin DOMAIN Hash

Rolls == 0..Buckets - 1

-----------------------------------------------------------------------------
(* What the extractor takes out of a request, once and for all the rules.  *)

(* doExtraction: a parameter of the body hides that of the query string,   *)
(* unless the form does not parse.                                         *)
Extracted(q, name) ==
    IF ~q.badForm /\ q.form[name] # "" THEN q.form[name] ELSE q.query[name]

\* A session id of the body is taken like any other parameter.
BugExtractedSessions(q) == {Extracted(q, "session_id")}

(* doExtraction: the session id is that of SessionId after the form was    *)
(* parsed; when it does not parse, the parameter of the query string.      *)
ExtractedSessions(q) ==
    IF q.badForm THEN {q.query.session_id} ELSE SessionIds(q, TRUE)

-----------------------------------------------------------------------------
(* Sorting and matching rules.                                             *)

Points(given, points) == IF given THEN points ELSE 0

(* Specificity: the more a rule asks for, the earlier it is tried.         *)
Specificity(rule) ==
    IF rule.match = Nil THEN 0
    ELSE Points(rule.match.hobs # {}, 5) + Points(rule.match.source # "", 5)
         + Points(rule.match.path # <<>>, 10)

\* The weight does not count.
BugLess(a, b) == Specificity(a) > Specificity(b)

(* SortedRules.Less.                                                       *)
Less(a, b) ==
    IF a.weight # b.weight THEN a.weight > b.weight
    ELSE Specificity(a) > Specificity(b)

(* Rules.Sort: the sort is not stable and starts from the iteration order  *)
(* of a map, so rules that tie come in any order.                          *)
Sorts(rules) ==
    {s \in SetToSeqs(rules) :
        \A i, j \in DOMAIN s : i < j => ~Less(s[j], s[i])}

(* hashSample: a blank value always samples.                               *)
HashSample(v, prop) ==
    \/ v = ""
    \/ prop > 0 /\ ~(Hash[v] > prop)

(* Match.sample; roll stands for rand.Float32(), session for the session   *)
(* id the extractor found.                                                 *)
Sample(m, q, session, roll) ==
    CASE m.sampler = "random" -> ~(roll > m.prop)
      [] m.sampler = "session_id" -> HashSample(session, m.prop)
      [] OTHER -> HashSample(Extracted(q, m.sampler), m.prop)

(* Rule.Matches for a request q for city hob.                              *)
Matches(rule, q, hob, session, roll) ==
    /\ rule.match # Nil
    /\ rule.match.path # <<>> => IsPrefix(rule.match.path, q.path)
    /\ rule.match.source # "" => q.source = rule.match.source
    /\ rule.match.hobs # {} => hob \in rule.match.hobs
    /\ Sample(rule.match, q, session, roll)

-----------------------------------------------------------------------------
(* RuleRouter.                                                             *)

Actions == {"H1", "H2", "Throttle", "Deprecate"}

(* strings.ToUpper of the values X-Hailo-Route may force a route with.     *)
ToUpper(s) ==
    CASE s = "h1" -> "H1" [] s = "h2" -> "H2" [] s = "throttle" -> "THROTTLE"
      [] OTHER -> s

(* forceRoute: a rule with an action only.                                 *)
ForceRoute(routeStr) ==
    LET rule(a) == [match |-> Nil, action |-> a, payload |-> Nil, weight |-> 0]
    IN  CASE ToUpper(routeStr) = "H1" -> rule("H1")
          [] ToUpper(routeStr) = "H2" -> rule("H2")
          [] ToUpper(routeStr) = "THROTTLE" -> rule("Throttle")
          [] ToUpper(routeStr) = "DEPRECATE" -> rule("Deprecate")
          [] OTHER -> Nil

(* Route: the forced route, or else the first rule of order that matches.  *)
(* Each rule that is tried rolls its own dice.                             *)
Route(order, q, hob, session, rolls) ==
    LET matching == {i \in DOMAIN order :
                        Matches(order[i], q, hob, session, rolls[i])}
    IN  CASE ForceRoute(q.force) # Nil -> ForceRoute(q.force)
          [] OTHER -> IF matching = {} THEN Nil ELSE order[Min(matching)]

(* HobRegions.Find and HobModes.Find.                                      *)
Find(table, hob, none) ==
    IF hob \in DOMAIN table THEN table[hob]
    ELSE IF "default" \in DOMAIN table THEN table["default"] ELSE none

(* GetHobMode, where the case of a forced route matters.                   *)
GetHobMode(c, q, hob) ==
    CASE q.force = "H1" -> "h1"
      [] q.force = "H2" -> "h2"
      [] OTHER -> Find(c.hobModes, hob, "")

RegionAt(c, id) == IF id \in DOMAIN c.regions THEN c.regions[id] ELSE Nil

(* Region.IsOnline.                                                        *)
IsOnline(region) == region # Nil /\ region.online

(* The region of a city before failover, or the first one of all.          *)
HomeRegion(c, hob) ==
    LET found == RegionAt(c, Find(c.hobRegions, hob, 0))
    IN  IF found = Nil /\ DOMAIN c.regions # {}
        THEN c.regions[Min(DOMAIN c.regions)]
        ELSE found

\* The first failover is taken without looking at its status.
BugRegion(c, hob) ==
    LET home == HomeRegion(c, hob)
    IN  IF home = Nil \/ IsOnline(home) \/ home.failover = <<>> THEN home
        ELSE RegionAt(c, Head(home.failover))

(* RuleRouter.Region: an offline region yields to its first online         *)
(* failover, and is better than nothing when there is none.                *)
Region(c, hob) ==
    LET home == HomeRegion(c, hob)
        online == {i \in DOMAIN home.failover :
                      IsOnline(RegionAt(c, home.failover[i]))}
    IN  IF home = Nil \/ IsOnline(home) THEN home
        ELSE IF online = {} THEN home
        ELSE RegionAt(c, home.failover[Min(online)])

(* A table of regions that are numbered and not nil.                       *)
RegionTable(c) ==
    /\ DOMAIN c.regions \subseteq Nat /\ DOMAIN c.regions # {}
    /\ \A id \in DOMAIN c.regions :
           c.regions[id] # Nil /\ DOMAIN c.regions[id].failover \subseteq Nat

(* Region.Urls does not return nil; the urls it then returns may be none.  *)
HasUrls(region, app) == {app, "default"} \cap DOMAIN region.apps # {}

NoUrls == [k \in {} |-> ""]

(* Region.Urls.                                                            *)
Urls(region, app) ==
    IF app \in DOMAIN region.apps THEN region.apps[app]
    ELSE IF "default" \in DOMAIN region.apps THEN region.apps["default"]
    ELSE NoUrls

\* The host is compared with that of the region before failover.
BugCorrectHostname(c, q, hob, rwHob) ==
    LET region == Region(c, hob)
        urls == Urls(region, q.source)
        home == Urls(HomeRegion(c, hob), q.source)
    IN  IF (hob = "" /\ rwHob = "") \/ region = Nil
        THEN [err |-> TRUE, isCorrect |-> FALSE, urls |-> NoUrls, version |-> 0]
        ELSE [err |-> FALSE,
              isCorrect |-> "api" \in DOMAIN home /\ home["api"] = q.host,
              urls |-> urls,
              version |-> c.version]

(* CorrectHostname: err without a region, or without a city in the request *)
(* and in the X-H-Hob header of the response, rwHob.                       *)
CorrectHostname(c, q, hob, rwHob) ==
    LET region == Region(c, hob)
        urls == Urls(region, q.source)
    IN  IF (hob = "" /\ rwHob = "") \/ region = Nil
        THEN [err |-> TRUE, isCorrect |-> FALSE, urls |-> NoUrls, version |-> 0]
        ELSE [err |-> FALSE,
              isCorrect |-> "api" \in DOMAIN urls /\ urls["api"] = q.host,
              urls |-> urls,
              version |-> c.version]

(* extractor.Hob: the city or hob parameter, or the city of the hostname,  *)
(* which then becomes the city parameter of the request.                   *)
Hob(city, q) ==
    CASE city # "" -> city
      [] city = "" /\ Extracted(q, "hob") # "" -> Extracted(q, "hob")
      [] OTHER -> HostMap[q.host]

\* The city of the hostname is not added to the request.
BugSetHob(city, q) == city

(* The city parameter once Hob was called.                                 *)
SetHob(city, q) ==
    IF city = "" /\ Extracted(q, "hob") = "" THEN HostMap[q.host] ELSE city
===============================================================================
