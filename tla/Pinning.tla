------------------------------- MODULE Pinning -------------------------------
(***************************************************************************)
(* An app and the regions of the API.  Every region answers at a hostname  *)
(* of its own and loads new versions of the configuration when it gets     *)
(* them; each answer may carry the hostname the app should use and the     *)
(* version that says so.  The app, which is external, follows the README:  *)
(* it sends requests to the host it was last given, several at a time, and *)
(* ignores a timestamp lower than the one it has.  Answers overtake each   *)
(* other and get lost, regions crash and start again from their last good  *)
(* configuration.                                                          *)
(*                                                                         *)
(* What a region answers is Router's CorrectHostname and Region.  The app  *)
(* stays in one city.  A region that is offline for an app still answers.  *)
(***************************************************************************)
EXTENDS Router

CONSTANTS
    Regions,     \* hostnames, one per region
    History,     \* the configurations, version by version
    App, City,   \* the app's source and the city it is used in
    MaxRestarts  \* bound on restarts

Versions == DOMAIN History

(* The hostname a version has for the app.                                 *)
Home == [v \in Versions |-> Urls(Region(History[v], City), App)["api"]]

ASSUME PinningAssumption ==
    /\ Len(History) \in Nat \ {0} /\ Versions = 1..Len(History)
    /\ \A v \in Versions : History[v].version = v /\ Home[v] \in Regions
    /\ City # ""
    /\ MaxRestarts \in Nat

(* loadedConfig of a region that has loaded version v.                     *)
Config(v) ==
    IF v = 0
    THEN [version |-> 0, rules |-> {}, regions |-> <<>>, hobRegions |-> <<>>,
          hobModes |-> <<>>]
    ELSE History[v]

-----------------------------------------------------------------------------
(* Definitions whose name starts with Bug are wrong on purpose: each one   *)
(* is a slip the definition after it could have, and breaks a property     *)
(* below.                                                                  *)

\* Endpoints are sent out without looking at the error.
BugPinned(v, p) ==
    LET h == CorrectHostname(Config(v), [source |-> App, host |-> p], City, "")
    IN  IF h.isCorrect THEN {}
        ELSE {[timestamp |-> h.version,
               api |-> IF h.urls = NoUrls THEN "" ELSE h.urls["api"]]}

(* maybePinRequestToHostname: the endpoints an API answer of p carries.    *)
Pinned(v, p) ==
    LET h == CorrectHostname(Config(v), [source |-> App, host |-> p], City, "")
    IN  IF h.err \/ h.isCorrect THEN {}
        ELSE {[timestamp |-> h.version, api |-> h.urls["api"]]}

\* An offline region does not yield to its failover.
BugEndpoints(v) ==
    LET region == HomeRegion(Config(v), City)
        urls == Urls(region, App)
    IN  IF region = Nil \/ ~HasUrls(region, App) THEN {}
        ELSE {[timestamp |-> Config(v).version, api |-> urls["api"]]}

(* EndpointsHandler: the endpoints of the region, right host or not.       *)
Endpoints(v) ==
    LET region == Region(Config(v), City)
        urls == Urls(region, App)
    IN  IF region = Nil \/ ~HasUrls(region, App) THEN {}
        ELSE {[timestamp |-> Config(v).version, api |-> urls["api"]]}

(* All the answers there may be, of region p with version v loaded.        *)
ApiAnswer == [v \in 0..Len(History) |-> [p \in Regions |-> Pinned(v, p)]]

EndpointsAnswer == [v \in 0..Len(History) |-> Endpoints(v)]

-----------------------------------------------------------------------------
VARIABLES
    published,  \* the newest version
    loaded,     \* the version each region has loaded, 0 for none
    starting,   \* regions in which the first load of New has not ended
    host,       \* where the app sends its requests
    stamp,      \* the timestamp the app has
    visited,    \* regions the app has sent requests to
    answers,    \* endpoints on their way to the app
    restarts    \* restarts so far

app == <<host, stamp>>
vars == <<published, loaded, starting, app, visited, answers, restarts>>

Init ==
    /\ published \in {0, 1}
    /\ loaded = [p \in Regions |-> 0]
    /\ starting = Regions
    /\ host \in Regions
    /\ stamp = 0
    /\ visited = {host}
    /\ answers = {}
    /\ restarts = 0

-----------------------------------------------------------------------------
Publish ==
    /\ published < Len(History)
    /\ published' = published + 1
    /\ UNCHANGED <<loaded, starting, app, visited, answers, restarts>>

(* The subscriber of a region loads the newest version.                    *)
LoadNewest(p) ==
    /\ loaded[p] # published
    /\ loaded' = [loaded EXCEPT ![p] = published]
    /\ UNCHANGED <<published, starting, app, visited, answers, restarts>>

(* The first load, that of New, ends: it fails, or stores what it read     *)
(* some time ago, over a newer version if the subscriber was faster.       *)
FirstLoad(p) ==
    /\ p \in starting
    /\ starting' = starting \ {p}
    /\ \/ UNCHANGED loaded
       \/ \E v \in 1..published : loaded' = [loaded EXCEPT ![p] = v]
    /\ UNCHANGED <<published, app, visited, answers, restarts>>

(* A region crashes and comes back with what it saved last, which may be   *)
(* older than what it had loaded, or nothing.                              *)
Restart(p) ==
    /\ restarts < MaxRestarts
    /\ restarts' = restarts + 1
    /\ \E v \in 0..loaded[p] : loaded' = [loaded EXCEPT ![p] = v]
    /\ starting' = starting \cup {p}
    /\ UNCHANGED <<published, app, visited, answers>>

(* A region answers a request of the app, which may have been on its way   *)
(* since the app was at another host.                                      *)
Serve(p, endpoints) ==
    /\ p \in visited
    /\ answers' = answers \cup endpoints
    /\ UNCHANGED <<published, loaded, starting, app, visited, restarts>>

(* The app takes over endpoints that are not older than those it has.      *)
(* Another answer may say the same, so what it got stays in answers.       *)
Receive(a) ==
    /\ a.timestamp >= stamp
    /\ stamp' = a.timestamp
    /\ host' = a.api
    /\ visited' = visited \cup {a.api}
    /\ UNCHANGED <<published, loaded, starting, answers, restarts>>

(* An answer is lost, or it was the last one of its kind.                  *)
Lose ==
    /\ \E a \in answers : answers' = answers \ {a}
    /\ UNCHANGED <<published, loaded, starting, app, visited, restarts>>

Next ==
    \/ Publish
    \/ \E p \in Regions :
           \/ LoadNewest(p)
           \/ FirstLoad(p)
           \/ Restart(p)
           \/ Serve(p, ApiAnswer[loaded[p]][p])
           \/ Serve(p, EndpointsAnswer[loaded[p]])
    \/ \E a \in answers : Receive(a)
    \/ Lose

Spec == Init /\ [][Next]_vars

(* The app's API requests are answered (it need not ask for its endpoints  *)
(* again), and the network does not lose all the answers.  Nothing is      *)
(* assumed about loading.                                                  *)
Fairness ==
    /\ WF_vars(Serve(host, ApiAnswer[loaded[host]][host]))
    /\ SF_vars(\E a \in answers : Receive(a))

FairSpec == Spec /\ Fairness

-----------------------------------------------------------------------------
(* The shape of the state: no endpoints without a version, and none of a   *)
(* version that is not published.                                          *)
TypeOK ==
    /\ published \in {0} \cup Versions
    /\ loaded \in [Regions -> 0..published]
    /\ starting \subseteq Regions
    /\ stamp \in 0..published
    /\ host \in visited /\ visited \subseteq Regions
    /\ answers \subseteq [timestamp : 1..published, api : Regions]

R == INSTANCE Roaming WITH Hosts <- Regions

(* README, "Timestamp": the regions do not send an app back and forth,     *)
(* whichever versions they have loaded, restart with, and in whatever      *)
(* order their answers arrive; each move is to the home of a later version *)
(* of the configuration.                                                   *)
RoamsForward == R!Spec

(* README, "Corrective measures": after the last change of the             *)
(* configuration the app ends up at the home of its city and stays there,  *)
(* from whatever host it starts, or else it ends up at a region that keeps *)
(* an older configuration for good (as New can make it, controlplane.go:81,*)
(* by storing what it read over what the subscriber loaded).               *)
Settles ==
    \/ <>[](published # 0 => host = Home[published])
    \/ <>[](loaded[host] # published)
===============================================================================
