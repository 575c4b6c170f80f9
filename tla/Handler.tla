------------------------------- MODULE Handler -------------------------------
(***************************************************************************)
(* The HTTP handlers of the API (package handler) around the router: the   *)
(* throttling and CORS wrappers, Handler with its H1, H2, throttle and     *)
(* deprecate branches, RpcHandler and EndpointsHandler.  (The PCI filter,  *)
(* between throttling and CORS, is in Server.)  A request is a sequence of *)
(* steps; the control plane may load another configuration between any two *)
(* of them, and a handler asks the control plane anew at each step that    *)
(* needs it.                                                               *)
(*                                                                         *)
(* Requests share nothing but the loaded configuration.  The backends, H1  *)
(* and H2, are external: they answer what H1Statuses and H2Replies hold.   *)
(***************************************************************************)
EXTENDS Router

CONSTANTS
    Requests,    \* requests being served
    Inputs,      \* what a request may be
    Configs,     \* configurations that may be loaded
    UrlNames,    \* names of the urls of an app
    Admins,      \* session ids of administrators
    H1Statuses,  \* HTTP statuses H1 and the proxy to it answer with
    H2Replies    \* [error, status, hob, pinning] of an API service

Root == <<"/">>

(* loadedConfig before anything is loaded.                                 *)
EmptyConfig ==
    [version |-> 0, rules |-> {}, regions |-> <<>>,
     hobRegions |-> <<>>, hobModes |-> <<>>]

ASSUME HandlerAssumption ==
    /\ \A q \in Inputs : q.kind \in {"api", "rpc", "endpoints"}
    /\ \A c, d \in Configs : c.version = d.version => c = d
    /\ EmptyConfig \notin Configs
    /\ \A c \in Configs :
           /\ IsFiniteSet(c.rules) /\ Nil \notin c.rules
           /\ \A rule \in c.rules : rule.weight \in Int
    /\ H1Statuses \subseteq 100..599

VARIABLES
    cfg,      \* the configuration loadedConfig returns
    order,    \* its rules, sorted
    req,      \* the requests
    pc,       \* where their handlers are
    city,     \* city parameter of each request, as the extractor has it
    route,    \* the rule Route returned
    used,     \* the configuration and order the rule was taken from
    hdr,      \* X-Hailo-Route, X-H-Mode and X-H-Hob response headers
    pin,      \* X-H-ENDPOINT-* response headers
    sess,     \* session ids found: throttling bucket, router
    called,   \* backend calls: to whom, with which city and session id
    status,   \* HTTP status of the answer, 0 before there is one
    stat,     \* stats.Record calls: endpoint and success
    answer    \* configurations the /endpoints answer was built from

resp == <<hdr, pin, status>>
ghost == <<used, sess, called, stat, answer>>
vars == <<cfg, order, req, pc, city, route, resp, ghost>>

Unpinned == [timestamp |-> 0, urls |-> [k \in UrlNames |-> ""]]

NoHeaders == [route |-> "", mode |-> "", hob |-> ""]

NoSession == [admitted |-> FALSE, bucket |-> "", routed |-> ""]

Init ==
    /\ cfg = EmptyConfig
    /\ order = <<>>
    /\ req \in [Requests -> Inputs]
    /\ pc = [r \in Requests |-> "bucket"]
    /\ city = [r \in Requests |-> Extracted(req[r], "city")]
    /\ sess = [r \in Requests |-> NoSession]
    /\ route = [r \in Requests |-> Nil]
    /\ used = [r \in Requests |-> EmptyConfig]
    /\ hdr = [r \in Requests |-> NoHeaders]
    /\ pin = [r \in Requests |-> Unpinned]
    /\ called = [r \in Requests |-> <<>>]
    /\ status = [r \in Requests |-> 0]
    /\ stat = [r \in Requests |-> <<>>]
    /\ answer = [r \in Requests |-> <<>>]

Goto(r, l) == pc' = [pc EXCEPT ![r] = l]

-----------------------------------------------------------------------------
(* Definitions whose name starts with Bug are wrong on purpose: each one   *)
(* is a slip the definition after it could have, and breaks a property     *)
(* below.                                                                  *)

\* The rules are sorted later.
BugLoad ==
    \E c \in Configs :
        /\ cfg' = c
        /\ UNCHANGED <<order, req, pc, city, route, resp, ghost>>

(* The control plane swaps in another configuration.                       *)
Load ==
    \E c \in Configs :
        /\ cfg' = c
        /\ order' \in Sorts(c.rules)
        /\ UNCHANGED <<req, pc, city, route, resp, ghost>>

(* ThrottlingHandler.ServeHTTP comes first and asks for the session id     *)
(* before any form is parsed; a request with a bucket may be refused.      *)
Admit(r) ==
    /\ pc[r] = "bucket"
    /\ \E id \in SessionIds(req[r], FALSE) :
           \/ /\ sess' = [sess EXCEPT ![r].bucket = id, ![r].admitted = TRUE]
              /\ Goto(r, "cors")
              /\ UNCHANGED status
           \/ /\ id # ""
              /\ sess' = [sess EXCEPT ![r].bucket = id]
              /\ status' = [status EXCEPT ![r] = 429]
              /\ Goto(r, "done")
    /\ UNCHANGED <<cfg, order, req, city, route, hdr, pin, used, called, stat,
                   answer>>

(* initServeMux: the first step of the handler a path belongs to.          *)
Mux(q) ==
    CASE q.kind = "api" -> "route" [] q.kind = "rpc" -> "pin"
      [] OTHER -> "region"

(* CORSHandler.ServeHTTP: a preflight request from an allowed origin goes  *)
(* no further; the mux gives any other to its handler.                     *)
Cors(r) ==
    /\ pc[r] = "cors"
    /\ \/ /\ req[r].preflight
          /\ status' = [status EXCEPT ![r] = 200]
          /\ Goto(r, "done")
       \/ /\ ~req[r].preflight
          /\ Goto(r, Mux(req[r]))
          /\ UNCHANGED status
    /\ UNCHANGED <<cfg, order, req, city, route, hdr, pin, ghost>>

-----------------------------------------------------------------------------
(* Handler: router.Route().                                                *)
RouteRequest(r) ==
    /\ pc[r] = "route"
    /\ \E rolls \in [DOMAIN order -> Rolls], id \in ExtractedSessions(req[r]) :
           /\ route' = [route EXCEPT
                 ![r] = Route(order, req[r], Hob(city[r], req[r]), id, rolls)]
           /\ sess' = [sess EXCEPT ![r].routed = id]
    /\ used' = [used EXCEPT ![r] = cfg]
    /\ Goto(r, "pin")
    /\ UNCHANGED <<cfg, order, req, city, resp, called, stat, answer>>

(* pinRequestToHostname: the timestamp and one header per url.             *)
Pinned(p, h) ==
    [timestamp |-> h.version,
     urls |-> [k \in UrlNames |->
                  IF k \in DOMAIN h.urls THEN h.urls[k] ELSE p.urls[k]]]

\* The urls are those of the configuration the rule was taken from.
BugMaybePin(r) ==
    LET hob == Hob(city[r], req[r])
        h == CorrectHostname(used[r], req[r], hob, hdr[r].hob)
    IN  /\ pc[r] = "pin"
        /\ city' = [city EXCEPT ![r] = SetHob(@, req[r])]
        /\ pin' = IF h.err \/ h.isCorrect THEN pin
                  ELSE [pin EXCEPT ![r] =
                           Pinned(@, [h EXCEPT !.version = cfg.version])]
        /\ Goto(r, IF req[r].kind = "rpc" THEN "rpc" ELSE "mode")
        /\ UNCHANGED <<cfg, order, req, route, hdr, status, ghost>>

(* maybePinRequestToHostname.  Its call of Hob leaves the city in the      *)
(* request, if no rule has already.                                        *)
MaybePin(r) ==
    LET hob == Hob(city[r], req[r])
        h == CorrectHostname(cfg, req[r], hob, hdr[r].hob)
    IN  /\ pc[r] = "pin"
        /\ city' = [city EXCEPT ![r] = SetHob(@, req[r])]
        /\ pin' = IF h.err \/ h.isCorrect THEN pin
                  ELSE [pin EXCEPT ![r] = Pinned(@, h)]
        /\ Goto(r, IF req[r].kind = "rpc" THEN "rpc" ELSE "mode")
        /\ UNCHANGED <<cfg, order, req, route, hdr, status, ghost>>

(* Handler: X-H-Mode.                                                      *)
SetMode(r) ==
    /\ pc[r] = "mode"
    /\ hdr' = [hdr EXCEPT
           ![r].mode = GetHobMode(cfg, req[r], Hob(city[r], req[r]))]
    /\ Goto(r, "dispatch")
    /\ UNCHANGED <<cfg, order, req, city, route, pin, status, ghost>>

\* A rule with an unknown action ends in no branch of the switch.
BugDispatch(r) ==
    /\ pc[r] = "dispatch"
    /\ \/ /\ route[r] = Nil
          /\ hdr' = [hdr EXCEPT ![r].route = "H2"]
          /\ Goto(r, "H2")
       \/ /\ route[r] # Nil /\ route[r].action \in Actions
          /\ hdr' = [hdr EXCEPT ![r].route = route[r].action]
          /\ Goto(r, route[r].action)
    /\ UNCHANGED <<cfg, order, req, city, route, pin, status, ghost>>

(* Handler: the switch on the action; H2 is the default of everything.     *)
Dispatch(r) ==
    /\ pc[r] = "dispatch"
    /\ \/ /\ route[r] = Nil
          /\ hdr' = [hdr EXCEPT ![r].route = "H2"]
          /\ Goto(r, "H2")
       \/ /\ route[r] # Nil /\ route[r].action \in Actions
          /\ hdr' = [hdr EXCEPT ![r].route = route[r].action]
          /\ Goto(r, route[r].action)
       \/ /\ route[r] # Nil /\ route[r].action \notin Actions
          /\ hdr' = [hdr EXCEPT ![r].route = "?"]
          /\ Goto(r, "H2")
    /\ UNCHANGED <<cfg, order, req, city, route, pin, status, ghost>>

\* The handler forgets to return and goes on to the default.
BugShed(r, handler, standard) ==
    /\ pc[r] = handler
    /\ Goto(r, "H2")
    /\ UNCHANGED <<cfg, order, req, city, route, resp, ghost>>

(* A shed request gets the payload of its rule, or the standard answer,    *)
(* and reaches no backend.                                                 *)
Shed(r, handler, standard) ==
    /\ pc[r] = handler
    /\ status' = [status EXCEPT ![r] =
           IF route[r].payload # Nil THEN route[r].payload ELSE standard]
    /\ Goto(r, "done")
    /\ UNCHANGED <<cfg, order, req, city, route, hdr, pin, ghost>>

(* throttleHandler and deprecateHandler.                                   *)
Throttle(r) == Shed(r, "Throttle", 503)

Deprecate(r) == Shed(r, "Deprecate", 410)

-----------------------------------------------------------------------------
Call(r, backend, hob, id) ==
    called' = [called EXCEPT
                  ![r] = Append(@, [to |-> backend, hob |-> hob, session |-> id])]

\* The root path is recorded twice.
BugRecorded(q, success) == <<[ep |-> Root, ok |-> success],
                             [ep |-> q.path, ok |-> success]>>

(* The deferred stats.Record calls of h1Handler, h2Handler, rpcHandler.    *)
Recorded(q, success) ==
    (IF q.path # Root THEN <<[ep |-> Root, ok |-> success]>> ELSE <<>>)
    \o <<[ep |-> q.path, ok |-> success]>>

(* The handler writes its status and returns.                              *)
Finish(r, code, success) ==
    /\ status' = [status EXCEPT ![r] = code]
    /\ stat' = [stat EXCEPT ![r] = @ \o Recorded(req[r], success)]
    /\ Goto(r, "done")

(* httpRequestToProto: the hob a service is told, the hob parameters first *)
(* and among those the body's; c is the city the extractor has, which it   *)
(* may have added to the query string.                                     *)
HobCode(q, c) == FirstGiven(<<q.form.hob, q.query.hob, q.query.city, c>>)

(* h1Handler: the reverse proxy makes the request ...                      *)
SendH1(r) ==
    /\ pc[r] = "H1"
    /\ Call(r, "H1", HobCode(req[r], city[r]), "")
    /\ Goto(r, "H1 wait")
    /\ UNCHANGED <<cfg, order, req, city, route, resp, used, sess, stat, answer>>

(* ... and its status, or that of its own failure, is passed on.           *)
AnswerH1(r) ==
    /\ pc[r] = "H1 wait"
    /\ \E code \in H1Statuses : Finish(r, code, ~(code >= 500 /\ code < 600))
    /\ UNCHANGED <<cfg, order, req, city, route, hdr, pin, used, sess, called,
                   answer>>

(* h2Handler: a request that cannot be mapped is refused, any other is     *)
(* sent once, without retries ...                                          *)
SendH2(r) ==
    /\ pc[r] = "H2"
    /\ \/ /\ ~req[r].valid
          /\ Finish(r, 400, FALSE)
          /\ UNCHANGED called
       \/ /\ req[r].valid
          /\ \E id \in SessionIds(req[r], TRUE) :
                 Call(r, "H2", HobCode(req[r], city[r]), id)
          /\ Goto(r, "H2 wait")
          /\ UNCHANGED <<status, stat>>
    /\ UNCHANGED <<cfg, order, req, city, route, hdr, pin, used, sess, answer>>

(* ... its error is written, or its headers are added to ours ...          *)
AnswerH2(r) ==
    /\ pc[r] = "H2 wait"
    /\ \E reply \in H2Replies :
           \/ /\ reply.error
              /\ Finish(r, reply.status, FALSE)
              /\ UNCHANGED <<hdr, city>>
           \/ /\ ~reply.error
              /\ hdr' = [hdr EXCEPT ![r].hob = reply.hob]
              /\ IF reply.hob # "" /\ reply.pinning
                 THEN /\ city' = [city EXCEPT ![r] = reply.hob]
                      /\ Goto(r, "repin")
                 ELSE /\ Goto(r, "write")
                      /\ UNCHANGED city
              /\ status' = [status EXCEPT ![r] = reply.status]
              /\ UNCHANGED stat
    /\ UNCHANGED <<cfg, order, req, route, pin, used, sess, called, answer>>

(* ... then regionPinning points the app at the region of the city the     *)
(* service asked for, right host or not ...                                *)
RegionPinning(r) ==
    LET h == CorrectHostname(cfg, req[r], Hob(city[r], req[r]), hdr[r].hob)
    IN  /\ pc[r] = "repin"
        /\ pin' = IF h.err THEN pin ELSE [pin EXCEPT ![r] = Pinned(@, h)]
        /\ Goto(r, "write")
        /\ UNCHANGED <<cfg, order, req, city, route, hdr, status, ghost>>

(* ... and the answer is written.                                          *)
WriteH2(r) ==
    /\ pc[r] = "write"
    /\ Finish(r, status[r], status[r] < 500)
    /\ UNCHANGED <<cfg, order, req, city, route, hdr, pin, used, sess, called,
                   answer>>

-----------------------------------------------------------------------------
(* authorisedFor looks for the session in the parameter session_id only,   *)
(* in the query string and then in the parsed form.                        *)
Authorised(q) ==
    LET id == FirstGiven(<<q.query.session_id, q.form.session_id>>)
    IN  id # "" /\ id \in Admins

(* rpcHandler refuses all but a POST that names a service and an endpoint, *)
(* and to a kernel service all but an administrator's session; 0 if none.  *)
Refused(q) ==
    CASE q.method # "POST" -> 405
      [] ~q.valid -> 400
      [] q.kernel /\ ~Authorised(q) -> 403
      [] OTHER -> 0

(* Any other request is given to the platform's client once, whatever the  *)
(* client then does to deliver it (no number of retries is set) ...        *)
SendRpc(r) ==
    /\ pc[r] = "rpc"
    /\ \/ /\ Refused(req[r]) # 0
          /\ Finish(r, Refused(req[r]), FALSE)
          /\ UNCHANGED called
       \/ /\ Refused(req[r]) = 0
          /\ \E id \in SessionIds(req[r], TRUE) : Call(r, "RPC", "", id)
          /\ Goto(r, "rpc wait")
          /\ UNCHANGED <<status, stat>>
    /\ UNCHANGED <<cfg, order, req, city, route, hdr, pin, used, sess, answer>>

(* ... and its error or its body comes back.                               *)
AnswerRpc(r) ==
    /\ pc[r] = "rpc wait"
    /\ \E reply \in H2Replies :
           Finish(r, IF reply.error THEN reply.status ELSE 200, ~reply.error)
    /\ UNCHANGED <<cfg, order, req, city, route, hdr, pin, used, sess, called,
                   answer>>

-----------------------------------------------------------------------------
(* EndpointsHandler: the urls of the region, or an error ...               *)
EndpointUrls(r) ==
    LET region == Region(cfg, Hob(city[r], req[r]))
        urls == Urls(region, req[r].app)
        served == region # Nil /\ HasUrls(region, req[r].app)
    IN  /\ pc[r] = "region"
        /\ city' = [city EXCEPT ![r] = SetHob(@, req[r])]
        /\ \/ /\ ~served
              /\ status' = [status EXCEPT ![r] = 500]
              /\ Goto(r, "done")
              /\ UNCHANGED <<answer, pin>>
           \/ /\ served
              /\ pin' = [pin EXCEPT ![r] =
                     Pinned(@, [version |-> cfg.version, urls |-> urls])]
              /\ answer' = [answer EXCEPT ![r] = <<cfg>>]
              /\ status' = [status EXCEPT ![r] = 200]
              /\ Goto(r, IF req[r].verbose THEN "regions" ELSE "done")
        /\ UNCHANGED <<cfg, order, req, route, hdr, used, sess, called, stat>>

(* ... and, when asked, all the regions, then the region of every city.    *)
EndpointTable(r) ==
    /\ pc[r] \in {"regions", "hobRegions"}
    /\ answer' = [answer EXCEPT ![r] = Append(@, cfg)]
    /\ Goto(r, IF pc[r] = "regions" THEN "hobRegions" ELSE "done")
    /\ UNCHANGED <<cfg, order, req, city, route, resp, used, sess, called, stat>>

-----------------------------------------------------------------------------
Serve(r) ==
    \/ Admit(r) \/ Cors(r) \/ RouteRequest(r) \/ MaybePin(r) \/ SetMode(r)
    \/ Dispatch(r) \/ Throttle(r) \/ Deprecate(r) \/ SendH1(r) \/ AnswerH1(r)
    \/ SendH2(r) \/ AnswerH2(r) \/ RegionPinning(r) \/ WriteH2(r)
    \/ SendRpc(r) \/ AnswerRpc(r) \/ EndpointUrls(r) \/ EndpointTable(r)

Next == Load \/ \E r \in Requests : Serve(r)

Spec == Init /\ [][Next]_vars

FairSpec == Spec /\ \A r \in Requests : WF_vars(Serve(r))

-----------------------------------------------------------------------------
(* The shape of the state: a handler is at a step its kind of request has, *)
(* and only an api request past Route holds a rule.                        *)
Steps ==
    [api |-> {"bucket", "cors", "route", "pin", "mode", "dispatch", "Throttle",
              "Deprecate", "H1", "H1 wait", "H2", "H2 wait", "repin",
              "write", "done"},
     rpc |-> {"bucket", "cors", "pin", "rpc", "rpc wait", "done"},
     endpoints |-> {"bucket", "cors", "region", "regions", "hobRegions", "done"}]

TypeOK ==
    /\ cfg \in Configs \cup {EmptyConfig}
    /\ order \in Sorts(cfg.rules)
    /\ req \in [Requests -> Inputs]
    /\ DOMAIN pc = Requests
    /\ \A r \in Requests :
           /\ pc[r] \in Steps[req[r].kind]
           /\ route[r] \in used[r].rules \cup {Nil, ForceRoute(req[r].force)}
           /\ pin[r].timestamp \in {0} \cup {c.version : c \in Configs}

Done(r) == pc[r] = "done"

(* The city the rules were tried with.                                     *)
AskedHob(r) == Hob(Extracted(req[r], "city"), req[r])

Rank(rule) == 21 * rule.weight + Specificity(rule)

Certain(rule, r) ==
    \A roll \in Rolls :
        Matches(rule, req[r], AskedHob(r), sess[r].routed, roll)

(* SortedRules.Less: of the rules of one configuration that match a        *)
(* request whatever the dice say, the one it gets has the highest weight,  *)
(* and the most specific match among those; loading another configuration  *)
(* while the request is served changes nothing about that.  (README,       *)
(* "Rules", and rules.go:13 know of specificity only: where weights        *)
(* differ, a rule may win over one that is more specific.)                 *)
BestRuleWins ==
    \A r \in Requests :
        pc[r] \notin {"bucket", "cors", "route"} /\ req[r].kind = "api"
        /\ sess[r].admitted /\ ~req[r].preflight
        /\ ForceRoute(req[r].force) = Nil
        => /\ route[r] \in used[r].rules \cup {Nil}
           /\ \A rule \in used[r].rules :
                  Certain(rule, r)
                  => route[r] # Nil /\ Rank(route[r]) >= Rank(rule)

(* The urls configuration c has for the app that sent r.                   *)
UrlsFor(c, r) ==
    Urls(Region(c, Hob(city[r], req[r])),
         IF req[r].kind = "endpoints" THEN req[r].app ELSE req[r].source)

(* Every configuration has regions, and each app of each region the same   *)
(* urls: those in names.                                                   *)
UniformUrls(names) ==
    \A c \in Configs :
        /\ RegionTable(c)
        /\ \A id \in DOMAIN c.regions :
               LET apps == c.regions[id].apps
               IN  /\ "default" \in DOMAIN apps
                   /\ \A app \in DOMAIN apps : DOMAIN apps[app] = names

ConfigOf(version) == CHOOSE c \in Configs : c.version = version

(* An app ignores endpoints with an older timestamp, so the timestamp of   *)
(* an answer, pinning headers or /endpoints, must be the version of the    *)
(* configuration that all the urls beside it come from.  (With regions or  *)
(* apps that differ in the names of their urls, a second pinning leaves    *)
(* behind the headers of the first that it has no url for.)                *)
TimestampMatchesUrls ==
    \A r \in Requests :
        Done(r) /\ pin[r].timestamp # 0
        => LET urls == UrlsFor(ConfigOf(pin[r].timestamp), r)
           IN  \A k \in UrlNames :
                   pin[r].urls[k] = IF k \in DOMAIN urls THEN urls[k] ELSE ""

(* An app is never sent to an offline region while the configuration its   *)
(* timestamp names has an online failover for the region of its city.      *)
PinsOnlineRegion ==
    \A r \in Requests :
        Done(r) /\ pin[r].timestamp # 0
        => LET c == ConfigOf(pin[r].timestamp)
               home == HomeRegion(c, Hob(city[r], req[r]))
               online == {id \in DOMAIN c.regions : IsOnline(c.regions[id])}
           IN  (\E i \in DOMAIN home.failover : home.failover[i] \in online)
               => \E id \in online : \E a \in DOMAIN c.regions[id].apps :
                      pin[r].urls["api"] = c.regions[id].apps[a]["api"]

(* The backend a request is given to is the one X-Hailo-Route names, the   *)
(* handler calls it at most once, and a shed request reaches none.         *)
BackendAsRouted ==
    \A r \in Requests :
        /\ Len(called[r]) <= 1
        /\ req[r].kind = "api" =>
               \A i \in DOMAIN called[r] :
                   \/ called[r][i].to = "H1" /\ hdr[r].route = "H1"
                   \/ called[r][i].to = "H2" /\ hdr[r].route \in {"H2", "?"}

(* The cities a request names.                                             *)
Named(q) == {q.query.city, q.query.hob, q.form.city, q.form.hob} \ {""}

(* The backend is told the city the request was routed by, wherever in the *)
(* request it was, and also when it was known from the hostname only.      *)
(* (Where a request names two cities, the router prefers city to hob and   *)
(* body to query, and httpRequestToProto does neither; and it uses what    *)
(* could be read of a form that does not parse.)                           *)
HobReachesBackend ==
    \A r \in Requests : \A i \in DOMAIN called[r] :
        req[r].kind = "api" /\ Cardinality(Named(req[r])) <= 1 /\ ~req[r].badForm
        => called[r][i].hob = AskedHob(r)

(* extractor.go:164, "extracted in the same way we extract when we decide  *)
(* what to use for auth": rules sample by the session id the service gets, *)
(* and the request counts against the bucket of that session unless the id *)
(* is in the body, which the throttling handler does not see.  (Two        *)
(* headers with different ids, and a form that does not parse, void it.)   *)
OneSession ==
    \A r \in Requests : \A i \in DOMAIN called[r] :
        LET q == req[r]
        IN  Cardinality(HeaderSessions(q)) = 1 /\ ~q.badForm
            => /\ called[r][i].to = "H2" => called[r][i].session = sess[r].routed
               /\ called[r][i].to # "H1" /\ q.form.session_id = ""
                  /\ q.form.api_token = ""
                  => called[r][i].session = sess[r].bucket

(* The health checks count every request given to H1, H2 or RPC exactly    *)
(* once under the root endpoint, other requests never, and no answer of    *)
(* 500 or more as a success.                                               *)
CountedOnce ==
    \A r \in Requests :
        Done(r)
        => LET roots == {i \in DOMAIN stat[r] : stat[r][i].ep = Root}
               counted == \/ req[r].kind = "rpc" /\ ~req[r].preflight
                             /\ sess[r].admitted
                          \/ hdr[r].route \in {"H1", "H2", "?"}
           IN  /\ Cardinality(roots) = IF counted THEN 1 ELSE 0
               /\ \A i \in roots : stat[r][i].ok => status[r] < 500

(* Every request is answered, whatever its rule says, while configurations *)
(* come and go.                                                            *)
EveryRequestAnswered == \A r \in Requests : <>(Done(r) /\ status[r] # 0)

===============================================================================
