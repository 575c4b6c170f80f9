---------------------------- MODULE HandlerProofs ----------------------------
(***************************************************************************)
(* Proofs about Handler, for any requests, any configurations that come    *)
(* and go between their steps, and any answers of the backends.            *)
(***************************************************************************)
EXTENDS Handler, RouterProofs

(* A table with an entry for every request.                                *)
PerRequest(f) == f = [r \in Requests |-> f[r]]

Shape ==
    /\ req \in [Requests -> Inputs]
    /\ PerRequest(pc) /\ PerRequest(city) /\ PerRequest(route)
    /\ PerRequest(used) /\ PerRequest(hdr) /\ PerRequest(pin)
    /\ PerRequest(sess) /\ PerRequest(called) /\ PerRequest(status)
    /\ PerRequest(stat) /\ PerRequest(answer)
    /\ \A r \in Requests :
           /\ DOMAIN sess[r] = DOMAIN NoSession
           /\ DOMAIN hdr[r] = DOMAIN NoHeaders

(* A step that changes nothing of request r.                               *)
Same(r) ==
    /\ pc'[r] = pc[r] /\ city'[r] = city[r] /\ route'[r] = route[r]
    /\ used'[r] = used[r] /\ hdr'[r] = hdr[r] /\ pin'[r] = pin[r]
    /\ sess'[r] = sess[r] /\ called'[r] = called[r] /\ status'[r] = status[r]
    /\ stat'[r] = stat[r] /\ answer'[r] = answer[r]

(* g is f with another entry for r, or f itself.                           *)
Written(f, g, r) == g = f \/ \E e : g = [f EXCEPT ![r] = e]

LEMMA EntryWritten ==
    ASSUME NEW f, PerRequest(f), NEW g, NEW r \in Requests, Written(f, g, r)
    PROVE  /\ PerRequest(g)
           /\ \A o \in Requests : o # r => g[o] = f[o]
<1>1. CASE g = f
    BY <1>1
<1>2. CASE \E e : g = [f EXCEPT ![r] = e]
    BY <1>2 DEF PerRequest
<1> QED
    BY <1>1, <1>2 DEF Written

(* A step of one request leaves the configuration and the others alone.    *)
LEMMA ServesOne ==
    ASSUME Shape, NEW r \in Requests, Serve(r)
    PROVE  /\ cfg' = cfg /\ order' = order /\ req' = req
           /\ Shape'
           /\ \A o \in Requests : o # r => Same(o)
<1>1. /\ cfg' = cfg /\ order' = order /\ req' = req
      /\ Written(pc, pc', r) /\ Written(city, city', r)
      /\ Written(route, route', r) /\ Written(used, used', r)
      /\ Written(hdr, hdr', r) /\ Written(pin, pin', r)
      /\ Written(sess, sess', r) /\ Written(called, called', r)
      /\ Written(status, status', r) /\ Written(stat, stat', r)
      /\ Written(answer, answer', r)
    \* What the parts of an action write, and what it leaves alone.
    <2>w. /\ \A f, g : g = f => Written(f, g, r)
          /\ \A f, g, e : g = [f EXCEPT ![r] = e] => Written(f, g, r)
        BY Zenon DEF Written
    <2>g. ASSUME NEW l, Goto(r, l) PROVE Written(pc, pc', r)
        BY <2>g, <2>w DEF Goto
    <2>c. ASSUME NEW backend, NEW hob, NEW id, Call(r, backend, hob, id)
          PROVE  Written(called, called', r)
        BY <2>c, <2>w DEF Call
    <2>f. ASSUME NEW code, NEW ok, Finish(r, code, ok)
          PROVE  /\ Written(status, status', r) /\ Written(stat, stat', r)
                 /\ Written(pc, pc', r)
        BY <2>f, <2>g, <2>w DEF Finish
    <2> USE DEF resp, ghost
    <2>s. ASSUME NEW handler, NEW standard, Shed(r, handler, standard)
          PROVE  /\ UNCHANGED <<cfg, order, req, city, route, hdr, pin, ghost>>
                 /\ Written(pc, pc', r) /\ Written(status, status', r)
        <3>1. /\ UNCHANGED <<cfg, order, req, city, route, hdr, pin, ghost>>
              /\ Goto(r, "done")
              /\ \E e : status' = [status EXCEPT ![r] = e]
            BY <2>s, Zenon DEF Shed
        <3> QED
            BY <3>1, <2>g, <2>w
    <2>1. CASE Admit(r)
        <3>1. \E id : \/ sess' = [sess EXCEPT ![r].bucket = id, ![r].admitted = TRUE]
                      \/ sess' = [sess EXCEPT ![r].bucket = id]
            BY <2>1 DEF Admit
        <3>2. Written(sess, sess', r)
            BY <3>1 DEF Written
        <3>3. Written(pc, pc', r) /\ Written(status, status', r)
            <4>1. /\ \E l : Goto(r, l)
                  /\ status' = status \/ \E e : status' = [status EXCEPT ![r] = e]
                BY <2>1, Zenon DEF Admit
            <4> QED
                BY <4>1, <2>g, <2>w
        <3>4. UNCHANGED <<cfg, order, req, city, route, hdr, pin, used, called, stat,
                          answer>>
            BY <2>1 DEF Admit
        <3> QED
            BY <3>2, <3>3, <3>4, <2>w
    <2>2. CASE Cors(r)
        BY <2>2, <2>g, <2>w DEF Cors
    <2>3. CASE RouteRequest(r)
        <3>1. \E id : sess' = [sess EXCEPT ![r].routed = id]
            BY <2>3 DEF RouteRequest
        <3>2. Written(sess, sess', r)
            BY <3>1 DEF Written
        <3> QED
            BY <2>3, <2>g, <2>w, <3>2 DEF RouteRequest
    <2>4. CASE MaybePin(r)
        BY <2>4, <2>g, <2>w DEF MaybePin
    <2>5. CASE SetMode(r)
        <3>1. Written(hdr, hdr', r)
            BY <2>5 DEF SetMode, Written
        <3> QED
            BY <2>5, <2>g, <2>w, <3>1 DEF SetMode
    <2>6. CASE Dispatch(r)
        <3>1. \E to : hdr' = [hdr EXCEPT ![r].route = to]
            BY <2>6, Zenon DEF Dispatch
        <3>2. Written(hdr, hdr', r)
            BY <3>1 DEF Written
        <3>3. \E l : Goto(r, l)
            BY <2>6, Zenon DEF Dispatch
        <3> QED
            BY <2>6, <2>g, <2>w, <3>2, <3>3, Zenon DEF Dispatch
    <2>7. CASE Throttle(r)
        BY <2>7, <2>s, <2>w DEF Throttle
    <2>8. CASE Deprecate(r)
        BY <2>8, <2>s, <2>w DEF Deprecate
    <2>9. CASE SendH1(r)
        BY <2>9, <2>c, <2>g, <2>w DEF SendH1
    <2>10. CASE AnswerH1(r)
        <3>1. /\ \E code, ok : Finish(r, code, ok)
              /\ UNCHANGED <<cfg, order, req, city, route, hdr, pin, used, sess,
                             called, answer>>
            BY <2>10, Zenon DEF AnswerH1
        <3> QED
            BY <3>1, <2>f, <2>w
    <2>11. CASE SendH2(r)
        <3>1. /\ \/ /\ \E code : Finish(r, code, FALSE)
                    /\ UNCHANGED called
                 \/ /\ \E id : Call(r, "H2", HobCode(req[r], city[r]), id)
                    /\ \E l : Goto(r, l)
                    /\ UNCHANGED <<status, stat>>
              /\ UNCHANGED <<cfg, order, req, city, route, hdr, pin, used, sess,
                             answer>>
            BY <2>11, Zenon DEF SendH2
        <3>2. /\ Written(called, called', r) /\ Written(pc, pc', r)
              /\ Written(status, status', r) /\ Written(stat, stat', r)
            BY <3>1, <2>c, <2>f, <2>g, <2>w
        <3> QED
            BY <3>1, <3>2, <2>w
    <2>12. CASE AnswerH2(r)
        <3>1. \/ UNCHANGED hdr
              \/ \E hob : hdr' = [hdr EXCEPT ![r].hob = hob]
            BY <2>12, Zenon DEF AnswerH2
        <3>2. Written(hdr, hdr', r)
            BY <3>1 DEF Written
        <3> QED
            BY <2>12, <2>f, <2>g, <2>w, <3>2 DEF AnswerH2
    <2>13. CASE RegionPinning(r)
        BY <2>13, <2>g, <2>w DEF RegionPinning
    <2>14. CASE WriteH2(r)
        BY <2>14, <2>f, <2>w DEF WriteH2
    <2>15. CASE SendRpc(r)
        <3>1. /\ \/ /\ \E code : Finish(r, code, FALSE)
                    /\ UNCHANGED called
                 \/ /\ \E id : Call(r, "RPC", "", id)
                    /\ \E l : Goto(r, l)
                    /\ UNCHANGED <<status, stat>>
              /\ UNCHANGED <<cfg, order, req, city, route, hdr, pin, used, sess,
                             answer>>
            BY <2>15, Zenon DEF SendRpc
        <3>2. /\ Written(called, called', r) /\ Written(pc, pc', r)
              /\ Written(status, status', r) /\ Written(stat, stat', r)
            BY <3>1, <2>c, <2>f, <2>g, <2>w
        <3> QED
            BY <3>1, <3>2, <2>w
    <2>16. CASE AnswerRpc(r)
        <3>1. /\ \E code, ok : Finish(r, code, ok)
              /\ UNCHANGED <<cfg, order, req, city, route, hdr, pin, used, sess,
                             called, answer>>
            BY <2>16, Zenon DEF AnswerRpc
        <3> QED
            BY <3>1, <2>f, <2>w
    <2>17. CASE EndpointUrls(r)
        <3>1. \E e : city' = [city EXCEPT ![r] = e]
            BY <2>17, Zenon DEF EndpointUrls
        <3>2. pin' = pin \/ \E e : pin' = [pin EXCEPT ![r] = e]
            BY <2>17, Zenon DEF EndpointUrls
        <3>3. answer' = answer \/ \E e : answer' = [answer EXCEPT ![r] = e]
            BY <2>17, Zenon DEF EndpointUrls
        <3>4. \/ status' = [status EXCEPT ![r] = 500]
              \/ status' = [status EXCEPT ![r] = 200]
            BY <2>17, Zenon DEF EndpointUrls
        <3>5. \E l : Goto(r, l)
            BY <2>17, Zenon DEF EndpointUrls
        <3>6. UNCHANGED <<cfg, order, req, route, hdr, used, sess, called, stat>>
            BY <2>17, Zenon DEF EndpointUrls
        <3>7. Written(city, city', r) /\ Written(pc, pc', r)
            BY <3>1, <3>5, <2>g, <2>w
        <3>8. Written(pin, pin', r) /\ Written(answer, answer', r)
            BY <3>2, <3>3, Zenon DEF Written
        <3>9. Written(status, status', r)
            BY <3>4, <2>w
        <3> QED
            BY <3>6, <3>7, <3>8, <3>9, <2>w
    <2>18. CASE EndpointTable(r)
        BY <2>18, <2>g, <2>w DEF EndpointTable
    <2> QED
        BY <2>1, <2>2, <2>3, <2>4, <2>5, <2>6, <2>7, <2>8, <2>9,
           <2>10, <2>11, <2>12, <2>13, <2>14, <2>15, <2>16, <2>17, <2>18 DEF Serve
<1>2. /\ PerRequest(pc) /\ PerRequest(city) /\ PerRequest(route)
      /\ PerRequest(used) /\ PerRequest(hdr) /\ PerRequest(pin)
      /\ PerRequest(sess) /\ PerRequest(called) /\ PerRequest(status)
      /\ PerRequest(stat) /\ PerRequest(answer)
    BY DEF Shape
<1>3. ASSUME NEW o \in Requests, o # r PROVE Same(o)
    <2>1. /\ pc'[o] = pc[o] /\ city'[o] = city[o] /\ route'[o] = route[o]
          /\ used'[o] = used[o] /\ hdr'[o] = hdr[o] /\ pin'[o] = pin[o]
        BY <1>1, <1>2, <1>3, EntryWritten
    <2>2. /\ sess'[o] = sess[o] /\ called'[o] = called[o]
          /\ status'[o] = status[o] /\ stat'[o] = stat[o]
          /\ answer'[o] = answer[o]
        BY <1>1, <1>2, <1>3, EntryWritten
    <2> QED
        BY <2>1, <2>2 DEF Same
<1>4. /\ PerRequest(pc') /\ PerRequest(city') /\ PerRequest(route')
      /\ PerRequest(used') /\ PerRequest(hdr') /\ PerRequest(pin')
      /\ PerRequest(sess') /\ PerRequest(called') /\ PerRequest(status')
      /\ PerRequest(stat') /\ PerRequest(answer')
    BY <1>1, <1>2, EntryWritten, Zenon
<1>5. DOMAIN sess'[r] = DOMAIN sess[r]
    <2>1. CASE Admit(r)
        <3>1. PICK id : \/ sess' = [sess EXCEPT ![r].bucket = id, ![r].admitted = TRUE]
                        \/ sess' = [sess EXCEPT ![r].bucket = id]
            BY <2>1 DEF Admit
        <3> QED
            BY <3>1, <1>2 DEF PerRequest
    <2>2. CASE RouteRequest(r)
        BY <2>2, <1>2 DEF RouteRequest, PerRequest
    <2>3. CASE Cors(r) \/ MaybePin(r) \/ SetMode(r) \/ Dispatch(r) \/ Throttle(r)
               \/ Deprecate(r) \/ RegionPinning(r)
        <3>1. UNCHANGED ghost
            BY <2>3, Zenon DEF Cors, MaybePin, SetMode, Dispatch, Throttle, Deprecate,
                               Shed, RegionPinning
        <3> QED
            BY <3>1 DEF ghost
    <2>4. CASE SendH1(r) \/ AnswerH1(r) \/ SendH2(r) \/ AnswerH2(r) \/ WriteH2(r)
               \/ SendRpc(r) \/ AnswerRpc(r) \/ EndpointUrls(r) \/ EndpointTable(r)
        <3>1. UNCHANGED sess
            BY <2>4, Zenon DEF SendH1, AnswerH1, SendH2, AnswerH2, WriteH2, SendRpc,
                               AnswerRpc, EndpointUrls, EndpointTable
        <3> QED
            BY <3>1
    <2> QED
        BY <2>1, <2>2, <2>3, <2>4 DEF Serve
<1>6. DOMAIN hdr'[r] = DOMAIN hdr[r]
    <2>1. CASE SetMode(r)
        BY <2>1, <1>2 DEF SetMode, PerRequest
    <2>2. CASE Dispatch(r)
        BY <2>2, <1>2 DEF Dispatch, PerRequest
    <2>3. CASE AnswerH2(r)
        <3>1. hdr' = hdr \/ \E hob : hdr' = [hdr EXCEPT ![r].hob = hob]
            BY <2>3 DEF AnswerH2
        <3> QED
            BY <3>1, <1>2 DEF PerRequest
    <2>4. CASE Admit(r) \/ Cors(r) \/ RouteRequest(r) \/ MaybePin(r) \/ Throttle(r)
               \/ Deprecate(r) \/ RegionPinning(r) \/ EndpointTable(r)
        <3>1. UNCHANGED hdr \/ UNCHANGED resp
            BY <2>4, Zenon DEF Admit, Cors, RouteRequest, MaybePin, Throttle, Deprecate,
                               Shed, RegionPinning, EndpointTable
        <3> QED
            BY <3>1 DEF resp
    <2>5. CASE SendH1(r) \/ AnswerH1(r) \/ SendH2(r) \/ WriteH2(r)
               \/ SendRpc(r) \/ AnswerRpc(r) \/ EndpointUrls(r)
        <3>1. UNCHANGED hdr \/ UNCHANGED resp
            BY <2>5, Zenon DEF SendH1, AnswerH1, SendH2, WriteH2, SendRpc, AnswerRpc,
                               EndpointUrls
        <3> QED
            BY <3>1 DEF resp
    <2> QED
        BY <2>1, <2>2, <2>3, <2>4, <2>5 DEF Serve
<1>7. \A o \in Requests : DOMAIN sess'[o] = DOMAIN NoSession
                           /\ DOMAIN hdr'[o] = DOMAIN NoHeaders
    BY <1>3, <1>5, <1>6, Zenon DEF Shape, Same
<1> QED
    BY <1>1, <1>3, <1>4, <1>7 DEF Shape

-----------------------------------------------------------------------------
(* Where the handler of r may be, and what it has gone through to be       *)
(* there: admission, the preflight check, and the branch it wrote into     *)
(* X-Hailo-Route.                                                          *)
Control(r) ==
    /\ pc[r] \in Steps[req[r].kind]
    /\ pc[r] = "bucket" => ~sess[r].admitted
    /\ pc[r] \notin {"bucket", "done"} => sess[r].admitted
    /\ pc[r] \notin {"bucket", "cors", "done"} => ~req[r].preflight
    /\ req[r].kind # "api"
       \/ pc[r] \in {"bucket", "cors", "route", "pin", "mode", "dispatch"}
       => hdr[r].route = ""
    /\ pc[r] \in {"Throttle", "Deprecate"} => hdr[r].route = pc[r]
    /\ pc[r] \in {"H1", "H1 wait"} => hdr[r].route = "H1"
    /\ pc[r] \in {"H2", "H2 wait", "repin", "write"} => hdr[r].route \in {"H2", "?"}

(* The city parameter once the router has asked for the city.              *)
KnownCity(r) == SetHob(Extracted(req[r], "city"), req[r])

Cities(r) ==
    /\ pc[r] \in {"bucket", "cors", "route", "pin", "region"}
       => city[r] = Extracted(req[r], "city")
    /\ pc[r] \in {"mode", "dispatch", "H1", "H2"} => city[r] = KnownCity(r)

(* The backend call of r, if it was made: to the backend of its branch,    *)
(* about the known city, with a session id found in the request.           *)
Calls(r) ==
    \/ called[r] = <<>>
    \/ /\ called[r] = <<called[r][1]>>
       /\ pc[r] \in {"H1 wait", "H2 wait", "repin", "write", "rpc wait", "done"}
       /\ sess[r].admitted /\ ~req[r].preflight
       /\ \/ /\ req[r].kind = "api" /\ hdr[r].route = "H1"
             /\ called[r][1].to = "H1"
             /\ called[r][1].hob = HobCode(req[r], KnownCity(r))
          \/ /\ req[r].kind = "api" /\ hdr[r].route \in {"H2", "?"}
             /\ called[r][1].to = "H2"
             /\ called[r][1].hob = HobCode(req[r], KnownCity(r))
             /\ called[r][1].session \in SessionIds(req[r], TRUE)
          \/ /\ req[r].kind = "rpc"
             /\ called[r][1].to = "RPC"
             /\ called[r][1].session \in SessionIds(req[r], TRUE)

(* The health checks must hear of r.                                       *)
MustCount(r) ==
    \/ req[r].kind = "rpc" /\ ~req[r].preflight /\ sess[r].admitted
    \/ hdr[r].route \in {"H1", "H2", "?"}

(* Exactly one entry of s is about the root, and no success if the answer  *)
(* is none.                                                                *)
OneRoot(s, code) ==
    \E i \in DOMAIN s :
        /\ s[i].ep = Root
        /\ \A j \in DOMAIN s : s[j].ep = Root => j = i
        /\ s[i].ok => code < 500

(* Nothing is recorded before the handler returns, and then one root       *)
(* entry, or nothing at all.                                               *)
Counts(r) ==
    IF pc[r] = "done" /\ MustCount(r) THEN OneRoot(stat[r], status[r])
    ELSE stat[r] = <<>>

(* r went through Route.                                                   *)
Routed(r) ==
    /\ pc[r] \notin {"bucket", "cors", "route"} /\ req[r].kind = "api"
    /\ sess[r].admitted /\ ~req[r].preflight

Sessions(r) ==
    /\ pc[r] # "bucket" => sess[r].bucket \in SessionIds(req[r], FALSE)
    /\ Routed(r) => sess[r].routed \in ExtractedSessions(req[r])

(* What BestRuleWins says of r, and that a rule is held past Route only.   *)
Best(r) ==
    /\ route[r] \in used[r].rules \cup {Nil, ForceRoute(req[r].force)}
    /\ Routed(r) /\ ForceRoute(req[r].force) = Nil
       => /\ route[r] \in used[r].rules \cup {Nil}
          /\ \A rule \in used[r].rules :
                 Certain(rule, r)
                 => route[r] # Nil /\ Rank(route[r]) >= Rank(rule)

Stamp(r) == pin[r].timestamp \in {0} \cup {c.version : c \in Configs}

Own(r) ==
    /\ Control(r) /\ Cities(r) /\ Calls(r) /\ Counts(r) /\ Sessions(r)
    /\ Best(r) /\ Stamp(r)

Loaded ==
    /\ cfg \in Configs \cup {EmptyConfig}
    /\ order \in Sorts(cfg.rules)

ServeInv == Shape /\ Loaded /\ \A r \in Requests : Own(r)

-----------------------------------------------------------------------------
LEMMA StepsOf ==
    /\ Steps["api"] = {"bucket", "cors", "route", "pin", "mode", "dispatch",
                       "Throttle", "Deprecate", "H1", "H1 wait", "H2", "H2 wait",
                       "repin", "write", "done"}
    /\ Steps["rpc"] = {"bucket", "cors", "pin", "rpc", "rpc wait", "done"}
    /\ Steps["endpoints"] = {"bucket", "cors", "region", "regions", "hobRegions",
                             "done"}
BY DEF Steps

(* What the deferred calls record has one root entry.                      *)
LEMMA RecordedOnce ==
    ASSUME NEW q, NEW ok, NEW code, ok => code < 500
    PROVE  OneRoot(<<>> \o Recorded(q, ok), code)
<1> DEFINE root == [ep |-> Root, ok |-> ok]
           own == [ep |-> q.path, ok |-> ok]
<1>1. CASE q.path = Root
    <2>1. Recorded(q, ok) = <<>> \o <<own>>
        BY <1>1 DEF Recorded
    <2> QED
        BY <1>1, <2>1 DEF OneRoot
<1>2. CASE q.path # Root
    <2>1. Recorded(q, ok) = <<root>> \o <<own>>
        BY <1>2 DEF Recorded
    <2> QED
        BY <1>2, <2>1 DEF OneRoot
<1> QED
    BY <1>1, <1>2

(* The version an answer of the router comes with, and the timestamp that  *)
(* pinning makes of it.                                                    *)
LEMMA AnswerVersion ==
    ASSUME NEW c, NEW q, NEW hob, NEW rwHob
    PROVE  CorrectHostname(c, q, hob, rwHob).version \in {0, c.version}
BY DEF CorrectHostname

(* Rank puts rules in the order of Less.                                   *)
LEMMA RankOrder ==
    ASSUME NEW a, NEW b, a.weight \in Int, b.weight \in Int,
           a = b \/ ~Less(b, a)
    PROVE  Rank(a) >= Rank(b)
<1>1. ASSUME NEW rule PROVE Specificity(rule) \in 0..20
    <2> DEFINE hobs == Points(rule.match.hobs # {}, 5)
               source == Points(rule.match.source # "", 5)
               path == Points(rule.match.path # <<>>, 10)
    <2>1. hobs \in {0, 5} /\ source \in {0, 5} /\ path \in {0, 10}
        BY Zenon DEF Points
    <2>2. Specificity(rule) = IF rule.match = Nil THEN 0 ELSE hobs + source + path
        BY Zenon DEF Specificity
    <2> HIDE DEF hobs, source, path
    <2> QED
        BY <2>1, <2>2
<1> QED
    BY <1>1 DEF Rank, Less

LEMMA OneCall ==
    ASSUME NEW call
    PROVE  /\ Append(<<>>, call) = <<call>> /\ <<call>>[1] = call
           /\ Len(<<call>>) = 1 /\ DOMAIN <<call>> = {1}
OBVIOUS

LEMMA PinnedStamp ==
    ASSUME NEW p, NEW h
    PROVE  Pinned(p, h).timestamp = h.version
BY DEF Pinned

-----------------------------------------------------------------------------
(* Each step of a request keeps what holds of that request.                *)
LEMMA OwnStep ==
    ASSUME Shape, Loaded, NEW r \in Requests, Own(r), Serve(r)
    PROVE  Own(r)'
<1> USE DEF Own
<1>k. req[r].kind \in {"api", "rpc", "endpoints"}
    BY HandlerAssumption DEF Shape
<1>c. req' = req /\ cfg' = cfg /\ KnownCity(r)' = KnownCity(r)
    BY ServesOne DEF KnownCity
<1>p. /\ PerRequest(pc) /\ PerRequest(city) /\ PerRequest(route)
      /\ PerRequest(used) /\ PerRequest(hdr) /\ PerRequest(pin)
      /\ PerRequest(sess) /\ PerRequest(called) /\ PerRequest(status)
      /\ PerRequest(stat) /\ PerRequest(answer)
      /\ DOMAIN sess[r] = {"admitted", "bucket", "routed"}
      /\ DOMAIN hdr[r] = {"route", "mode", "hob"}
    BY DEF Shape, NoSession, NoHeaders
\* A step past Route that leaves rule and session ids alone.
<1>q. ASSUME pc[r] \notin {"bucket", "cors", "route"},
             UNCHANGED <<route[r], used[r], sess[r]>>
      PROVE  Sessions(r)' /\ Best(r)'
    <2>1. (Routed(r)' => Routed(r)) /\ \A rule : Certain(rule, r)' = Certain(rule, r)
        BY <1>q, <1>c DEF Routed, Certain, AskedHob
    <2>2. Sessions(r)'
        BY <1>q, <1>c, <2>1 DEF Sessions
    <2>3. Best(r)'
        BY <1>q, <1>c, <2>1 DEF Best
    <2> QED
        BY <2>2, <2>3
\* No call was made, or the one that was made stands.
<1>n. ASSUME pc[r] \notin {"H1 wait", "H2 wait", "repin", "write", "rpc wait", "done"},
             UNCHANGED called[r]
      PROVE  Calls(r)'
    BY <1>n DEF Calls
<1>l. ASSUME UNCHANGED <<called[r], sess[r]>>, hdr'[r].route = hdr[r].route,
             pc'[r] \in {"H1 wait", "H2 wait", "repin", "write", "rpc wait", "done"}
      PROVE  Calls(r)'
    BY <1>l, <1>c DEF Calls
\* The handler goes on, and records nothing yet.
<1>o. ASSUME pc[r] # "done", pc'[r] # "done", UNCHANGED stat[r]
      PROVE  Counts(r)'
    BY <1>o DEF Counts
<1>z. ASSUME UNCHANGED pin[r] PROVE Stamp(r)'
    BY <1>z DEF Stamp
\* The call is made.
<1>m. ASSUME NEW call, called'[r] = Append(called[r], call), UNCHANGED <<sess[r], hdr[r]>>,
             pc[r] \in {"H1", "H2", "rpc"}, pc'[r] \in {"H1 wait", "H2 wait", "rpc wait"},
             \/ /\ pc[r] = "H1" /\ call.to = "H1"
                /\ call.hob = HobCode(req[r], city[r])
             \/ /\ pc[r] = "H2" /\ call.to = "H2"
                /\ call.hob = HobCode(req[r], city[r])
                /\ call.session \in SessionIds(req[r], TRUE)
             \/ /\ pc[r] = "rpc" /\ call.to = "RPC"
                /\ call.session \in SessionIds(req[r], TRUE)
      PROVE  Calls(r)'
    <2>1. called[r] = <<>>
        BY <1>m DEF Calls
    <2>5. called'[r] = <<call>>
        BY <1>m, <2>1, OneCall
    <2>6. called'[r][1] = call /\ called'[r] = <<called'[r][1]>>
        BY <2>5, OneCall
    <2>2. req[r].kind = IF pc[r] = "rpc" THEN "rpc" ELSE "api"
        BY <1>m, <1>k, StepsOf DEF Control
    <2>3. pc[r] # "rpc" => city[r] = KnownCity(r)
        BY <1>m DEF Cities
    <2>4. sess[r].admitted /\ ~req[r].preflight
        BY <1>m DEF Control
    <2> QED
        BY <1>m, <1>c, <2>2, <2>3, <2>4, <2>6 DEF Calls, Control
\* The handler returns.
<1>f. ASSUME pc[r] # "done", pc'[r] = "done", MustCount(r)',
             OneRoot(stat'[r], status'[r])
      PROVE  Counts(r)'
    BY <1>f DEF Counts
<1>1. CASE Admit(r)
    <2>0. PICK id \in SessionIds(req[r], FALSE) :
              \/ /\ sess' = [sess EXCEPT ![r].bucket = id, ![r].admitted = TRUE]
                 /\ Goto(r, "cors")
              \/ /\ sess' = [sess EXCEPT ![r].bucket = id]
                 /\ Goto(r, "done")
        BY <1>1 DEF Admit
    <2>a. pc[r] = "bucket" /\ ~sess[r].admitted
        BY <1>1 DEF Admit, Control
    <2>b. /\ sess'[r].bucket = id
          /\ \/ pc'[r] = "cors" /\ sess'[r].admitted
             \/ pc'[r] = "done" /\ ~sess'[r].admitted
        <3>1. CASE sess' = [sess EXCEPT ![r].bucket = id, ![r].admitted = TRUE]
                   /\ Goto(r, "cors")
            BY <1>p, <3>1 DEF Goto, PerRequest
        <3>2. CASE sess' = [sess EXCEPT ![r].bucket = id] /\ Goto(r, "done")
            BY <1>p, <2>a, <3>2 DEF Goto, PerRequest
        <3> QED
            BY <2>0, <3>1, <3>2
    <2>1. /\ pc[r] = "bucket" /\ sess'[r].bucket = id
          /\ \/ pc'[r] = "cors" /\ sess'[r].admitted
             \/ pc'[r] = "done" /\ ~sess'[r].admitted
          /\ UNCHANGED <<city[r], route[r], used[r], hdr[r], pin[r],
                       called[r], stat[r]>>
        BY <1>1, <1>p, <2>a, <2>b DEF Admit
    <2>2. Control(r)'
        BY <2>1, <1>c, <1>k, StepsOf DEF Control
    <2>3. Cities(r)'
        BY <2>1, <1>c DEF Cities
    <2>4. Calls(r)'
        BY <2>1, <1>n
    <2>5. Counts(r)'
        BY <2>1, <1>c, <1>k, StepsOf DEF Counts, MustCount, Control
    <2>6. Sessions(r)'
        BY <2>1, <1>c DEF Sessions, Routed
    <2>7. Best(r)'
        BY <2>1, <1>c DEF Best, Routed
    <2>8. Stamp(r)'
        BY <2>1, <1>z
    <2> QED
        BY <2>2, <2>3, <2>4, <2>5, <2>6, <2>7, <2>8 DEF Own
<1>2. CASE Cors(r)
    <2>1. /\ pc[r] = "cors"
          /\ \/ pc'[r] = "done" /\ req[r].preflight
             \/ pc'[r] = Mux(req[r]) /\ ~req[r].preflight
          /\ UNCHANGED <<city[r], route[r], used[r], hdr[r], pin[r], sess[r],
                       called[r], stat[r]>>
        BY <1>2, <1>p DEF Cors, Mux, Goto, PerRequest, ghost
    <2>2. Control(r)'
        BY <2>1, <1>c, <1>k, StepsOf DEF Control, Mux
    <2>3. Cities(r)'
        BY <2>1, <1>c, <1>k DEF Cities, Mux
    <2>4. Calls(r)'
        BY <2>1, <1>n
    <2>5. Counts(r)'
        BY <2>1, <1>c, <1>k DEF Counts, MustCount, Control, Mux
    <2>6. Sessions(r)'
        BY <2>1, <1>c, <1>k DEF Sessions, Routed, Mux
    <2>7. Best(r)'
        BY <2>1, <1>c, <1>k DEF Best, Routed, Mux
    <2>8. Stamp(r)'
        BY <2>1, <1>z
    <2> QED
        BY <2>2, <2>3, <2>4, <2>5, <2>6, <2>7, <2>8 DEF Own
<1>3. CASE RouteRequest(r)
    <2>0. PICK rolls \in [DOMAIN order -> Rolls], id \in ExtractedSessions(req[r]) :
              /\ route' = [route EXCEPT
                     ![r] = Route(order, req[r], Hob(city[r], req[r]), id, rolls)]
              /\ sess' = [sess EXCEPT ![r].routed = id]
        BY <1>3 DEF RouteRequest
    <2>a. pc[r] = "route" /\ city[r] = Extracted(req[r], "city")
        BY <1>3 DEF RouteRequest, Cities
    <2> DEFINE best == Route(order, req[r], AskedHob(r), id, rolls)
    <2>1. /\ pc[r] = "route" /\ pc'[r] = "pin"
          /\ route'[r] = best /\ used'[r] = cfg
          /\ sess'[r].routed = id /\ sess'[r].bucket = sess[r].bucket
          /\ sess'[r].admitted = sess[r].admitted
          /\ UNCHANGED <<city[r], hdr[r], pin[r], called[r], stat[r]>>
        BY <1>3, <1>p, <2>0, <2>a DEF RouteRequest, Goto, PerRequest, resp, AskedHob
    <2>2. Control(r)'
        BY <2>1, <1>c, <1>k, StepsOf DEF Control
    <2>3. Cities(r)'
        BY <2>1, <1>c DEF Cities
    <2>4. Calls(r)'
        BY <2>1, <1>n
    <2>5. Counts(r)'
        BY <2>1, <1>o
    <2>6. Sessions(r)'
        BY <2>1, <1>c DEF Sessions, Routed
    <2>7. Best(r)'
        <3>1. IsFiniteSet(cfg.rules)
            <4>1. CASE cfg = EmptyConfig
                BY <4>1, FS_EmptySet DEF EmptyConfig
            <4>2. CASE cfg \in Configs
                BY <4>2, HandlerAssumption, Zenon
            <4> QED
                BY <4>1, <4>2 DEF Loaded
        <3>2. best = ForceRoute(req[r].force) \/ ForceRoute(req[r].force) = Nil
            BY DEF Route
        <3>3. ASSUME ForceRoute(req[r].force) = Nil
              PROVE  /\ best \in cfg.rules \cup {Nil}
                     /\ \A rule \in cfg.rules :
                            Certain(rule, r)'
                            => best # Nil /\ Rank(best) >= Rank(rule)
            <4>1. best \in cfg.rules \cup {Nil}
                BY <3>1, <3>3, FirstMatchIsBest DEF Loaded
            <4>2. ASSUME NEW rule \in cfg.rules, Certain(rule, r)'
                  PROVE  best # Nil /\ Rank(best) >= Rank(rule)
                <5>1. \A roll \in Rolls :
                          Matches(rule, req[r], AskedHob(r), id, roll)
                    BY <4>2, <2>1, <1>c DEF Certain, AskedHob
                <5>2. best \in cfg.rules /\ (best = rule \/ ~Less(rule, best))
                    BY <3>1, <3>3, <5>1, FirstMatchIsBest DEF Loaded
                <5>3. best # Nil /\ best.weight \in Int /\ rule.weight \in Int
                    BY <5>2, HandlerAssumption DEF Loaded, EmptyConfig
                <5> HIDE DEF best
                <5> QED
                    BY <5>2, <5>3, RankOrder
            <4> QED
                BY <4>1, <4>2
        <3> HIDE DEF best
        <3> QED
            BY <1>c, <2>1, <3>2, <3>3 DEF Best
    <2>8. Stamp(r)'
        BY <2>1, <1>z
    <2> QED
        BY <2>2, <2>3, <2>4, <2>5, <2>6, <2>7, <2>8 DEF Own
<1>4. CASE MaybePin(r)
    <2>1. /\ pc[r] = "pin" /\ pc'[r] = IF req[r].kind = "rpc" THEN "rpc" ELSE "mode"
          /\ city'[r] = SetHob(city[r], req[r])
          /\ UNCHANGED <<route[r], used[r], hdr[r], sess[r], called[r], stat[r]>>
        BY <1>4, <1>p DEF MaybePin, Goto, PerRequest, ghost
    <2>2. Control(r)'
        BY <2>1, <1>c, <1>k, StepsOf DEF Control
    <2>3. Cities(r)'
        BY <2>1, <1>c, <1>k DEF Cities, KnownCity
    <2>4. Calls(r)'
        BY <2>1, <1>n
    <2>5. Counts(r)'
        BY <2>1, <1>o
    <2>6. Sessions(r)' /\ Best(r)'
        BY <2>1, <1>q
    <2>7. Stamp(r)'
        <3> DEFINE h == CorrectHostname(cfg, req[r], Hob(city[r], req[r]), hdr[r].hob)
        <3>1. pin' = pin \/ pin' = [pin EXCEPT ![r] = Pinned(pin[r], h)]
            BY <1>4 DEF MaybePin
        <3>2. h.version \in {0, cfg.version}
            BY AnswerVersion
        <3> HIDE DEF h
        <3>3. pin'[r] = pin[r] \/ pin'[r].timestamp \in {0, cfg.version}
            BY <1>p, <3>1, <3>2, PinnedStamp DEF PerRequest
        <3> QED
            BY <1>c, <3>3 DEF Stamp, Loaded, EmptyConfig
    <2> QED
        BY <2>2, <2>3, <2>4, <2>5, <2>6, <2>7 DEF Own
<1>5. CASE SetMode(r)
    <2>1. /\ pc[r] = "mode" /\ pc'[r] = "dispatch"
          /\ hdr'[r].route = hdr[r].route
          /\ UNCHANGED <<city[r], route[r], used[r], pin[r], sess[r],
                       called[r], stat[r]>>
        BY <1>5, <1>p DEF SetMode, Goto, PerRequest, ghost
    <2>2. Control(r)'
        BY <2>1, <1>c, <1>k, StepsOf DEF Control
    <2>3. Cities(r)'
        BY <2>1, <1>c DEF Cities
    <2>4. Calls(r)'
        BY <2>1, <1>n
    <2>5. Counts(r)'
        BY <2>1, <1>o
    <2>6. Sessions(r)' /\ Best(r)'
        BY <2>1, <1>q
    <2>7. Stamp(r)'
        BY <2>1, <1>z
    <2> QED
        BY <2>2, <2>3, <2>4, <2>5, <2>6, <2>7 DEF Own
<1>6. CASE Dispatch(r)
    <2>1. /\ pc[r] = "dispatch" /\ pc'[r] \in {"H1", "H2", "Throttle", "Deprecate"}
          /\ hdr'[r].route = pc'[r] \/ (pc'[r] = "H2" /\ hdr'[r].route = "?")
          /\ UNCHANGED <<city[r], route[r], used[r], pin[r], sess[r],
                       called[r], stat[r]>>
        BY <1>6, <1>p DEF Dispatch, Goto, PerRequest, ghost, Actions
    <2>2. Control(r)'
        BY <2>1, <1>c, <1>k, StepsOf DEF Control
    <2>3. Cities(r)'
        BY <2>1, <1>c DEF Cities
    <2>4. Calls(r)'
        BY <2>1, <1>n
    <2>5. Counts(r)'
        BY <2>1, <1>o
    <2>6. Sessions(r)' /\ Best(r)'
        BY <2>1, <1>q
    <2>7. Stamp(r)'
        BY <2>1, <1>z
    <2> QED
        BY <2>2, <2>3, <2>4, <2>5, <2>6, <2>7 DEF Own
<1>7. CASE Throttle(r) \/ Deprecate(r)
    <2>1. /\ pc[r] \in {"Throttle", "Deprecate"} /\ pc'[r] = "done"
          /\ UNCHANGED <<city[r], route[r], used[r], hdr[r], pin[r], sess[r],
                       called[r], stat[r]>>
        BY <1>7, <1>p DEF Throttle, Deprecate, Shed, Goto, PerRequest, ghost
    <2>2. Control(r)'
        BY <2>1, <1>c, <1>k, StepsOf DEF Control
    <2>3. Cities(r)'
        BY <2>1, <1>c DEF Cities
    <2>4. Calls(r)'
        BY <2>1, <1>n
    <2>5. Counts(r)'
        BY <2>1, <1>c, <1>k, StepsOf DEF Counts, MustCount, Control
    <2>6. Sessions(r)' /\ Best(r)'
        BY <2>1, <1>q
    <2>7. Stamp(r)'
        BY <2>1, <1>z
    <2> QED
        BY <2>2, <2>3, <2>4, <2>5, <2>6, <2>7 DEF Own
<1>8. CASE SendH1(r)
    <2>1. /\ pc[r] = "H1" /\ pc'[r] = "H1 wait"
          /\ called'[r] = Append(called[r], [to |-> "H1", hob |-> HobCode(req[r], city[r]),
                                         session |-> ""])
          /\ UNCHANGED <<city[r], route[r], used[r], hdr[r], pin[r], sess[r],
                       stat[r]>>
        BY <1>8, <1>p DEF SendH1, Call, Goto, PerRequest, resp
    <2>2. Control(r)'
        BY <2>1, <1>c, <1>k, StepsOf DEF Control
    <2>3. Cities(r)'
        BY <2>1, <1>c DEF Cities
    <2>4. Calls(r)'
        BY <2>1, <1>m
    <2>5. Counts(r)'
        BY <2>1, <1>o
    <2>6. Sessions(r)' /\ Best(r)'
        BY <2>1, <1>q
    <2>7. Stamp(r)'
        BY <2>1, <1>z
    <2> QED
        BY <2>2, <2>3, <2>4, <2>5, <2>6, <2>7 DEF Own
<1>9. CASE AnswerH1(r)
    <2>0. PICK code \in H1Statuses : Finish(r, code, ~(code >= 500 /\ code < 600))
        BY <1>9 DEF AnswerH1
    <2>a. status'[r] = code /\ code \in 100..599
        <3>1. status' = [status EXCEPT ![r] = code]
            BY <2>0, Zenon DEF Finish
        <3>2. status'[r] = code
            BY <1>p, <3>1, Zenon DEF PerRequest
        <3>3. code \in 100..599
            BY HandlerAssumption, Zenon
        <3> QED
            BY <3>2, <3>3
    <2>1. /\ pc[r] = "H1 wait" /\ pc'[r] = "done"
          /\ stat'[r] = stat[r] \o Recorded(req[r], ~(code >= 500 /\ code < 600))
          /\ UNCHANGED <<city[r], route[r], used[r], hdr[r], pin[r], sess[r],
                       called[r]>>
        <3> DEFINE ok == ~(code >= 500 /\ code < 600)
        <3> HIDE DEF ok
        <3>1. /\ stat' = [stat EXCEPT ![r] = @ \o Recorded(req[r], ok)]
              /\ Goto(r, "done")
            BY <2>0 DEF Finish, ok
        <3>2. stat'[r] = stat[r] \o Recorded(req[r], ok) /\ pc'[r] = "done"
            BY <1>p, <3>1 DEF Goto, PerRequest
        <3>3. /\ pc[r] = "H1 wait"
              /\ UNCHANGED <<city, route, used, hdr, pin, sess, called>>
            BY <1>9, Zenon DEF AnswerH1
        <3> QED
            BY <3>2, <3>3 DEF ok
    <2>2. Control(r)'
        BY <2>1, <1>c, <1>k, StepsOf DEF Control
    <2>3. Cities(r)'
        BY <2>1, <1>c DEF Cities
    <2>4. Calls(r)'
        BY <2>1, <1>l
    <2>5. Counts(r)'
        <3> DEFINE ok == ~(code >= 500 /\ code < 600)
        <3>1. MustCount(r)'
            BY <2>1, <1>c, <1>k, StepsOf DEF Control, MustCount
        <3>2. stat[r] = <<>>
            BY <2>1 DEF Counts
        <3>3. stat'[r] = stat[r] \o Recorded(req[r], ok)
            BY <2>1, Zenon
        <3>4. ok => status'[r] < 500
            BY <2>a
        <3> HIDE DEF ok
        <3>5. OneRoot(<<>> \o Recorded(req[r], ok), status'[r])
            BY <3>4, RecordedOnce
        <3> QED
            BY <2>1, <3>1, <3>2, <3>3, <3>5, <1>f
    <2>6. Sessions(r)' /\ Best(r)'
        BY <2>1, <1>q
    <2>7. Stamp(r)'
        BY <2>1, <1>z
    <2> QED
        BY <2>2, <2>3, <2>4, <2>5, <2>6, <2>7 DEF Own
<1>10. CASE SendH2(r) /\ ~req[r].valid
    <2>1. /\ pc[r] = "H2" /\ pc'[r] = "done"
          /\ stat'[r] = stat[r] \o Recorded(req[r], FALSE)
          /\ UNCHANGED <<city[r], route[r], used[r], hdr[r], pin[r], sess[r],
                       called[r]>>
        BY <1>10, <1>p DEF SendH2, Finish, Goto, PerRequest
    <2>2. Control(r)'
        BY <2>1, <1>c, <1>k, StepsOf DEF Control
    <2>3. Cities(r)'
        BY <2>1, <1>c DEF Cities
    <2>4. Calls(r)'
        BY <2>1, <1>n
    <2>5. Counts(r)'
        <3> DEFINE ok == FALSE
        <3>1. MustCount(r)'
            BY <2>1, <1>c, <1>k, StepsOf DEF Control, MustCount
        <3>2. stat[r] = <<>>
            BY <2>1 DEF Counts
        <3>3. stat'[r] = stat[r] \o Recorded(req[r], ok)
            BY <2>1, Zenon
        <3>4. ok => status'[r] < 500
            BY <2>1
        <3> HIDE DEF ok
        <3>5. OneRoot(<<>> \o Recorded(req[r], ok), status'[r])
            BY <3>4, RecordedOnce
        <3> QED
            BY <2>1, <3>1, <3>2, <3>3, <3>5, <1>f
    <2>6. Sessions(r)' /\ Best(r)'
        BY <2>1, <1>q
    <2>7. Stamp(r)'
        BY <2>1, <1>z
    <2> QED
        BY <2>2, <2>3, <2>4, <2>5, <2>6, <2>7 DEF Own
<1>11. CASE SendH2(r) /\ req[r].valid
    <2>0. PICK id \in SessionIds(req[r], TRUE) :
              Call(r, "H2", HobCode(req[r], city[r]), id)
        BY <1>11 DEF SendH2
    <2>1. /\ pc[r] = "H2" /\ pc'[r] = "H2 wait"
          /\ called'[r] = Append(called[r], [to |-> "H2", hob |-> HobCode(req[r], city[r]),
                                         session |-> id])
          /\ UNCHANGED <<city[r], route[r], used[r], hdr[r], pin[r], sess[r],
                       stat[r]>>
        BY <1>11, <1>p, <2>0 DEF SendH2, Call, Goto, PerRequest
    <2>2. Control(r)'
        BY <2>1, <1>c, <1>k, StepsOf DEF Control
    <2>3. Cities(r)'
        BY <2>1, <1>c DEF Cities
    <2>4. Calls(r)'
        BY <2>1, <1>m
    <2>5. Counts(r)'
        BY <2>1, <1>o
    <2>6. Sessions(r)' /\ Best(r)'
        BY <2>1, <1>q
    <2>7. Stamp(r)'
        BY <2>1, <1>z
    <2> QED
        BY <2>2, <2>3, <2>4, <2>5, <2>6, <2>7 DEF Own
<1>12. ASSUME AnswerH2(r), NEW reply \in H2Replies,
             Finish(r, reply.status, FALSE), UNCHANGED <<hdr, city>>
      PROVE  Own(r)'
    <2>1. /\ pc[r] = "H2 wait" /\ pc'[r] = "done"
          /\ stat'[r] = stat[r] \o Recorded(req[r], FALSE)
          /\ UNCHANGED <<city[r], route[r], used[r], hdr[r], pin[r], sess[r],
                       called[r]>>
        BY <1>12, <1>p DEF AnswerH2, Finish, Goto, PerRequest
    <2>2. Control(r)'
        BY <2>1, <1>c, <1>k, StepsOf DEF Control
    <2>3. Cities(r)'
        BY <2>1, <1>c DEF Cities
    <2>4. Calls(r)'
        BY <2>1, <1>l
    <2>5. Counts(r)'
        <3> DEFINE ok == FALSE
        <3>1. MustCount(r)'
            BY <2>1, <1>c, <1>k, StepsOf DEF Control, MustCount
        <3>2. stat[r] = <<>>
            BY <2>1 DEF Counts
        <3>3. stat'[r] = stat[r] \o Recorded(req[r], ok)
            BY <2>1, Zenon
        <3>4. ok => status'[r] < 500
            BY <2>1
        <3> HIDE DEF ok
        <3>5. OneRoot(<<>> \o Recorded(req[r], ok), status'[r])
            BY <3>4, RecordedOnce
        <3> QED
            BY <2>1, <3>1, <3>2, <3>3, <3>5, <1>f
    <2>6. Sessions(r)' /\ Best(r)'
        BY <2>1, <1>q
    <2>7. Stamp(r)'
        BY <2>1, <1>z
    <2> QED
        BY <2>2, <2>3, <2>4, <2>5, <2>6, <2>7 DEF Own
<1>13. ASSUME AnswerH2(r), NEW reply \in H2Replies, hdr' = [hdr EXCEPT ![r].hob = reply.hob],
             Goto(r, "repin") \/ Goto(r, "write"), UNCHANGED stat
      PROVE  Own(r)'
    <2>1. /\ pc[r] = "H2 wait" /\ pc'[r] \in {"repin", "write"}
          /\ hdr'[r].route = hdr[r].route
          /\ UNCHANGED <<route[r], used[r], pin[r], sess[r], called[r], stat[r]>>
        BY <1>13, <1>p DEF AnswerH2, Goto, PerRequest
    <2>2. Control(r)'
        BY <2>1, <1>c, <1>k, StepsOf DEF Control
    <2>3. Cities(r)'
        BY <2>1, <1>c DEF Cities
    <2>4. Calls(r)'
        BY <2>1, <1>l
    <2>5. Counts(r)'
        BY <2>1, <1>o
    <2>6. Sessions(r)' /\ Best(r)'
        BY <2>1, <1>q
    <2>7. Stamp(r)'
        BY <2>1, <1>z
    <2> QED
        BY <2>2, <2>3, <2>4, <2>5, <2>6, <2>7 DEF Own
<1>14. CASE RegionPinning(r)
    <2>1. /\ pc[r] = "repin" /\ pc'[r] = "write"
          /\ UNCHANGED <<city[r], route[r], used[r], hdr[r], sess[r],
                       called[r], stat[r]>>
        BY <1>14, <1>p DEF RegionPinning, Goto, PerRequest, ghost
    <2>2. Control(r)'
        BY <2>1, <1>c, <1>k, StepsOf DEF Control
    <2>3. Cities(r)'
        BY <2>1, <1>c DEF Cities
    <2>4. Calls(r)'
        BY <2>1, <1>l
    <2>5. Counts(r)'
        BY <2>1, <1>o
    <2>6. Sessions(r)' /\ Best(r)'
        BY <2>1, <1>q
    <2>7. Stamp(r)'
        <3> DEFINE h == CorrectHostname(cfg, req[r], Hob(city[r], req[r]), hdr[r].hob)
        <3>1. pin' = pin \/ pin' = [pin EXCEPT ![r] = Pinned(pin[r], h)]
            BY <1>14 DEF RegionPinning
        <3>2. h.version \in {0, cfg.version}
            BY AnswerVersion
        <3> HIDE DEF h
        <3>3. pin'[r] = pin[r] \/ pin'[r].timestamp \in {0, cfg.version}
            BY <1>p, <3>1, <3>2, PinnedStamp DEF PerRequest
        <3> QED
            BY <1>c, <3>3 DEF Stamp, Loaded, EmptyConfig
    <2> QED
        BY <2>2, <2>3, <2>4, <2>5, <2>6, <2>7 DEF Own
<1>15. CASE WriteH2(r)
    <2>1. /\ pc[r] = "write" /\ pc'[r] = "done"
          /\ status'[r] = status[r]
          /\ stat'[r] = stat[r] \o Recorded(req[r], status[r] < 500)
          /\ UNCHANGED <<city[r], route[r], used[r], hdr[r], pin[r], sess[r],
                       called[r]>>
        BY <1>15, <1>p DEF WriteH2, Finish, Goto, PerRequest
    <2>2. Control(r)'
        BY <2>1, <1>c, <1>k, StepsOf DEF Control
    <2>3. Cities(r)'
        BY <2>1, <1>c DEF Cities
    <2>4. Calls(r)'
        BY <2>1, <1>l
    <2>5. Counts(r)'
        <3> DEFINE ok == status[r] < 500
        <3>1. MustCount(r)'
            <4>1. hdr[r].route \in {"H2", "?"} /\ hdr'[r] = hdr[r]
                BY <2>1, <1>c, Zenon DEF Control
            <4> QED
                BY <4>1, Zenon DEF MustCount
        <3>2. stat[r] = <<>>
            BY <2>1 DEF Counts
        <3>3. stat'[r] = stat[r] \o Recorded(req[r], ok)
            BY <2>1, Zenon
        <3>4. ok => status'[r] < 500
            BY <2>1
        <3> HIDE DEF ok
        <3>5. OneRoot(<<>> \o Recorded(req[r], ok), status'[r])
            BY <3>4, RecordedOnce
        <3> QED
            BY <2>1, <3>1, <3>2, <3>3, <3>5, <1>f
    <2>6. Sessions(r)' /\ Best(r)'
        BY <2>1, <1>q
    <2>7. Stamp(r)'
        BY <2>1, <1>z
    <2> QED
        BY <2>2, <2>3, <2>4, <2>5, <2>6, <2>7 DEF Own
<1>16. CASE SendRpc(r) /\ pc'[r] = "done"
    <2>1. /\ pc[r] = "rpc" /\ pc'[r] = "done"
          /\ stat'[r] = stat[r] \o Recorded(req[r], FALSE)
          /\ UNCHANGED <<city[r], route[r], used[r], hdr[r], pin[r], sess[r],
                       called[r]>>
        BY <1>16, <1>p DEF SendRpc, Finish, Goto, PerRequest
    <2>2. Control(r)'
        BY <2>1, <1>c, <1>k, StepsOf DEF Control
    <2>3. Cities(r)'
        BY <2>1, <1>c DEF Cities
    <2>4. Calls(r)'
        BY <2>1, <1>n
    <2>5. Counts(r)'
        <3> DEFINE ok == FALSE
        <3>1. MustCount(r)'
            BY <2>1, <1>c, <1>k, StepsOf DEF Control, MustCount
        <3>2. stat[r] = <<>>
            BY <2>1 DEF Counts
        <3>3. stat'[r] = stat[r] \o Recorded(req[r], ok)
            BY <2>1, Zenon
        <3>4. ok => status'[r] < 500
            BY <2>1
        <3> HIDE DEF ok
        <3>5. OneRoot(<<>> \o Recorded(req[r], ok), status'[r])
            BY <3>4, RecordedOnce
        <3> QED
            BY <2>1, <3>1, <3>2, <3>3, <3>5, <1>f
    <2>6. Sessions(r)' /\ Best(r)'
        BY <2>1, <1>q
    <2>7. Stamp(r)'
        BY <2>1, <1>z
    <2> QED
        BY <2>2, <2>3, <2>4, <2>5, <2>6, <2>7 DEF Own
<1>17. CASE SendRpc(r) /\ pc'[r] # "done"
    <2>0. PICK id \in SessionIds(req[r], TRUE) : Call(r, "RPC", "", id)
        BY <1>17, <1>p DEF SendRpc, Finish, Goto, PerRequest
    <2>1. /\ pc[r] = "rpc" /\ pc'[r] = "rpc wait"
          /\ called'[r] = Append(called[r], [to |-> "RPC", hob |-> "", session |-> id])
          /\ UNCHANGED <<city[r], route[r], used[r], hdr[r], pin[r], sess[r],
                       stat[r]>>
        BY <1>17, <1>p, <2>0 DEF SendRpc, Call, Finish, Goto, PerRequest
    <2>2. Control(r)'
        BY <2>1, <1>c, <1>k, StepsOf DEF Control
    <2>3. Cities(r)'
        BY <2>1, <1>c DEF Cities
    <2>4. Calls(r)'
        BY <2>1, <1>m
    <2>5. Counts(r)'
        BY <2>1, <1>o
    <2>6. Sessions(r)' /\ Best(r)'
        BY <2>1, <1>q
    <2>7. Stamp(r)'
        BY <2>1, <1>z
    <2> QED
        BY <2>2, <2>3, <2>4, <2>5, <2>6, <2>7 DEF Own
<1>18. CASE AnswerRpc(r)
    <2>0. PICK reply \in H2Replies :
              Finish(r, IF reply.error THEN reply.status ELSE 200, ~reply.error)
        BY <1>18 DEF AnswerRpc
    <2>a. status'[r] = IF reply.error THEN reply.status ELSE 200
        BY <1>p, <2>0 DEF Finish, PerRequest
    <2>1. /\ pc[r] = "rpc wait" /\ pc'[r] = "done"
          /\ stat'[r] = stat[r] \o Recorded(req[r], ~reply.error)
          /\ UNCHANGED <<city[r], route[r], used[r], hdr[r], pin[r], sess[r],
                       called[r]>>
        BY <1>18, <1>p, <2>0 DEF AnswerRpc, Finish, Goto, PerRequest
    <2>2. Control(r)'
        BY <2>1, <1>c, <1>k, StepsOf DEF Control
    <2>3. Cities(r)'
        BY <2>1, <1>c DEF Cities
    <2>4. Calls(r)'
        BY <2>1, <1>l
    <2>5. Counts(r)'
        <3> DEFINE ok == ~reply.error
        <3>1. MustCount(r)'
            BY <2>1, <1>c, <1>k, StepsOf DEF Control, MustCount
        <3>2. stat[r] = <<>>
            BY <2>1 DEF Counts
        <3>3. stat'[r] = stat[r] \o Recorded(req[r], ok)
            BY <2>1, Zenon
        <3>4. ok => status'[r] < 500
            BY <2>a
        <3> HIDE DEF ok
        <3>5. OneRoot(<<>> \o Recorded(req[r], ok), status'[r])
            BY <3>4, RecordedOnce
        <3> QED
            BY <2>1, <3>1, <3>2, <3>3, <3>5, <1>f
    <2>6. Sessions(r)' /\ Best(r)'
        BY <2>1, <1>q
    <2>7. Stamp(r)'
        BY <2>1, <1>z
    <2> QED
        BY <2>2, <2>3, <2>4, <2>5, <2>6, <2>7 DEF Own
<1>19. CASE EndpointUrls(r)
    <2>1. /\ pc[r] = "region" /\ pc'[r] \in {"done", "regions"}
          /\ UNCHANGED <<route[r], used[r], hdr[r], sess[r], called[r], stat[r]>>
        BY <1>19, <1>p DEF EndpointUrls, Goto, PerRequest
    <2>2. Control(r)'
        BY <2>1, <1>c, <1>k, StepsOf DEF Control
    <2>3. Cities(r)'
        BY <2>1, <1>c DEF Cities
    <2>4. Calls(r)'
        BY <2>1, <1>n
    <2>5. Counts(r)'
        BY <2>1, <1>c, <1>k, StepsOf DEF Counts, MustCount, Control
    <2>6. Sessions(r)' /\ Best(r)'
        BY <2>1, <1>q
    <2>7. Stamp(r)'
        <3> DEFINE h(urls) == [version |-> cfg.version, urls |-> urls]
        <3>1. pin' = pin \/ \E urls : pin' = [pin EXCEPT ![r] = Pinned(pin[r], h(urls))]
            BY <1>19 DEF EndpointUrls
        <3>2. pin'[r] = pin[r] \/ \E urls : pin'[r] = Pinned(pin[r], h(urls))
            BY <1>p, <3>1 DEF PerRequest
        <3>3. \A urls : Pinned(pin[r], h(urls)).timestamp = cfg.version
            BY PinnedStamp
        <3> HIDE DEF h
        <3>4. pin'[r] = pin[r] \/ pin'[r].timestamp = cfg.version
            BY <3>2, <3>3
        <3> QED
            BY <1>c, <3>4 DEF Stamp, Loaded, EmptyConfig
    <2> QED
        BY <2>2, <2>3, <2>4, <2>5, <2>6, <2>7 DEF Own
<1>20. CASE EndpointTable(r)
    <2>1. /\ pc[r] \in {"regions", "hobRegions"} /\ pc'[r] \in {"done", "hobRegions"}
          /\ UNCHANGED <<city[r], route[r], used[r], hdr[r], pin[r], sess[r],
                       called[r], stat[r]>>
        BY <1>20, <1>p DEF EndpointTable, Goto, PerRequest, resp
    <2>2. Control(r)'
        BY <2>1, <1>c, <1>k, StepsOf DEF Control
    <2>3. Cities(r)'
        BY <2>1, <1>c DEF Cities
    <2>4. Calls(r)'
        BY <2>1, <1>n
    <2>5. Counts(r)'
        BY <2>1, <1>c, <1>k, StepsOf DEF Counts, MustCount, Control
    <2>6. Sessions(r)' /\ Best(r)'
        BY <2>1, <1>q
    <2>7. Stamp(r)'
        BY <2>1, <1>z
    <2> QED
        BY <2>2, <2>3, <2>4, <2>5, <2>6, <2>7 DEF Own
<1>21. CASE AnswerH2(r)
    BY <1>12, <1>13, <1>21 DEF AnswerH2
<1> QED
    BY <1>1, <1>2, <1>3, <1>4, <1>5, <1>6, <1>7, <1>8, <1>9, <1>10, <1>11, <1>14,
       <1>15, <1>16, <1>17, <1>18, <1>19, <1>20, <1>21 DEF Serve

(* What holds of a request is about that request only.                     *)
LEMMA OwnFrame ==
    ASSUME Shape, NEW r \in Requests, Own(r), req' = req, Same(r)
    PROVE  Own(r)'
<1>1. Control(r)' /\ Cities(r)' /\ Counts(r)' /\ Stamp(r)'
    BY DEF Own, Same, Control, Cities, KnownCity, Counts, MustCount, Stamp
<1>2. Calls(r)'
    BY DEF Own, Same, Calls, KnownCity
<1>3. Sessions(r)' /\ Best(r)'
    BY DEF Own, Same, Sessions, Best, Routed, Certain, AskedHob
<1> QED
    BY <1>1, <1>2, <1>3 DEF Own

LEMMA ServeInvInit == Init => ServeInv
<1> SUFFICES ASSUME Init PROVE ServeInv
    OBVIOUS
<1>1. Shape
    BY DEF Init, Shape, PerRequest
<1>2. Loaded
    BY SortOfNone DEF Init, Loaded, EmptyConfig
<1>3. ASSUME NEW r \in Requests PROVE Own(r)
    <2>1. /\ pc[r] = "bucket" /\ city[r] = Extracted(req[r], "city")
          /\ sess[r] = NoSession /\ route[r] = Nil /\ hdr[r] = NoHeaders
          /\ pin[r] = Unpinned /\ called[r] = <<>> /\ stat[r] = <<>>
        BY DEF Init
    <2>2. req[r].kind \in {"api", "rpc", "endpoints"}
        BY HandlerAssumption DEF Init
    <2>3. /\ ~sess[r].admitted
          /\ hdr[r].route = ""
          /\ pin[r].timestamp = 0
        <3>1. ~NoSession.admitted
            BY DEF NoSession
        <3>2. NoHeaders.route = ""
            BY DEF NoHeaders
        <3>3. Unpinned.timestamp = 0
            BY DEF Unpinned
        <3> QED
            BY <2>1, <3>1, <3>2, <3>3
    <2>4. Control(r) /\ Cities(r)
        <3>1. pc[r] \in Steps[req[r].kind]
            BY <2>1, <2>2, StepsOf
        <3> QED
            BY <2>1, <2>3, <3>1 DEF Control, Cities
    <2>5. Calls(r) /\ Counts(r) /\ Sessions(r)
        BY <2>1 DEF Calls, Counts, Sessions, Routed
    <2>6. Best(r) /\ Stamp(r)
        BY <2>1, <2>3 DEF Best, Routed, Stamp
    <2> QED
        BY <2>4, <2>5, <2>6 DEF Own
<1> QED
    BY <1>1, <1>2, <1>3 DEF ServeInv

LEMMA ServeInvStep == ServeInv /\ [Next]_vars => ServeInv'
<1> SUFFICES ASSUME ServeInv, [Next]_vars PROVE ServeInv'
    OBVIOUS
<1>1. ASSUME NEW r \in Requests, Serve(r) PROVE ServeInv'
    <2>1. /\ cfg' = cfg /\ order' = order /\ req' = req /\ Shape'
          /\ \A o \in Requests : o # r => Same(o)
        BY <1>1, ServesOne DEF ServeInv
    <2>2. Loaded'
        BY <2>1 DEF ServeInv, Loaded
    <2>3. \A o \in Requests : Own(o)'
        BY <1>1, <2>1, OwnStep, OwnFrame, Zenon DEF ServeInv
    <2> QED
        BY <2>1, <2>2, <2>3 DEF ServeInv
<1>2. ASSUME UNCHANGED <<req, pc, city, route, resp, ghost>> PROVE
             Shape' /\ \A r \in Requests : Own(r)'
    <2>1. Shape'
        BY <1>2 DEF ServeInv, Shape, PerRequest, resp, ghost
    <2>2. req' = req /\ \A r \in Requests : Same(r)
        BY <1>2 DEF Same, resp, ghost
    <2> QED
        BY <2>1, <2>2, OwnFrame DEF ServeInv
<1>3. CASE Load
    <2>1. Loaded'
        BY <1>3 DEF Load, Loaded
    <2> QED
        BY <1>2, <1>3, <2>1 DEF Load, ServeInv
<1>4. CASE UNCHANGED vars
    <2>1. Loaded'
        BY <1>4 DEF vars, ServeInv, Loaded
    <2> QED
        BY <1>2, <1>4, <2>1 DEF vars, ServeInv
<1> QED
    BY <1>1, <1>3, <1>4 DEF Next

LEMMA ServeInvHolds == Spec => []ServeInv
BY ServeInvInit, ServeInvStep, PTL DEF Spec

-----------------------------------------------------------------------------
(* For any requests, configurations and answers: a handler is at a step of *)
(* its kind of request, the rules are always sorted, a request holds a     *)
(* rule of one configuration, and a timestamp is that of some version.     *)
THEOREM TypeCorrect == Spec => []TypeOK
<1>1. ServeInv => TypeOK
    BY DEF ServeInv, Shape, PerRequest, Loaded, Own, Control, Best, Stamp, TypeOK
<1> QED
    BY <1>1, ServeInvHolds, PTL

(* For any rules: the rule a request gets is the best of those that match  *)
(* it for sure in the configuration that was loaded at that moment.        *)
THEOREM BestRule == Spec => []BestRuleWins
<1>1. ServeInv => BestRuleWins
    BY DEF ServeInv, Own, Best, Routed, BestRuleWins
<1> QED
    BY <1>1, ServeInvHolds, PTL

(* The backend is the one X-Hailo-Route names, called once at most.        *)
THEOREM CalledAsRouted == Spec => []BackendAsRouted
<1>1. ServeInv => BackendAsRouted
    <2> SUFFICES ASSUME ServeInv, NEW r \in Requests
                 PROVE  /\ Len(called[r]) <= 1
                        /\ req[r].kind = "api" =>
                               \A i \in DOMAIN called[r] :
                                   \/ called[r][i].to = "H1" /\ hdr[r].route = "H1"
                                   \/ called[r][i].to = "H2"
                                      /\ hdr[r].route \in {"H2", "?"}
        BY DEF BackendAsRouted
    <2>1. Calls(r)
        BY DEF ServeInv, Own
    <2>2. CASE called[r] = <<>>
        BY <2>2
    <2>3. CASE called[r] # <<>>
        <3>1. Len(called[r]) = 1 /\ DOMAIN called[r] = {1}
            BY <2>1, <2>3, OneCall DEF Calls
        <3>2. req[r].kind = "api" =>
                  \/ called[r][1].to = "H1" /\ hdr[r].route = "H1"
                  \/ called[r][1].to = "H2" /\ hdr[r].route \in {"H2", "?"}
            BY <2>1, <2>3 DEF Calls
        <3> QED
            BY <3>1, <3>2
    <2> QED
        BY <2>2, <2>3
<1> QED
    BY <1>1, ServeInvHolds, PTL

(* The health checks hear of every request given to H1, H2 or RPC once,    *)
(* and of no other: also of one that was refused or failed on its way.     *)
THEOREM Counted == Spec => []CountedOnce
<1>1. ServeInv => CountedOnce
    <2> SUFFICES ASSUME ServeInv, NEW r \in Requests, pc[r] = "done"
                 PROVE  LET roots == {i \in DOMAIN stat[r] : stat[r][i].ep = Root}
                        IN  /\ Cardinality(roots) = IF MustCount(r) THEN 1 ELSE 0
                            /\ \A i \in roots : stat[r][i].ok => status[r] < 500
        BY Zenon DEF CountedOnce, Done, MustCount
    <2> DEFINE roots == {i \in DOMAIN stat[r] : stat[r][i].ep = Root}
    <2>1. Counts(r)
        BY DEF ServeInv, Own
    <2>2. CASE MustCount(r)
        <3>1. PICK i \in DOMAIN stat[r] :
                  /\ stat[r][i].ep = Root
                  /\ \A j \in DOMAIN stat[r] : stat[r][j].ep = Root => j = i
                  /\ stat[r][i].ok => status[r] < 500
            BY <2>1, <2>2, Zenon DEF Counts, OneRoot
        <3>2. roots = {i}
            BY <3>1, Zenon
        <3> HIDE DEF roots
        <3>3. Cardinality(roots) = 1
            BY <3>2, FS_Singleton
        <3> QED
            BY <2>2, <3>1, <3>2, <3>3, Zenon DEF roots
    <2>3. CASE ~MustCount(r)
        <3>1. stat[r] = <<>>
            BY <2>1, <2>3, Zenon DEF Counts
        <3>2. roots = {}
            BY <3>1
        <3> HIDE DEF roots
        <3>3. Cardinality(roots) = 0
            BY <3>2, FS_EmptySet
        <3> QED
            BY <2>3, <3>2, <3>3, Zenon DEF roots
    <2> QED
        BY <2>2, <2>3
<1> QED
    BY <1>1, ServeInvHolds, PTL

(* A call was made by a routed request, or by an rpc.                      *)
LEMMA CallOf ==
    ASSUME ServeInv, NEW r \in Requests, NEW i \in DOMAIN called[r]
    PROVE  /\ i = 1 /\ pc[r] # "bucket"
           /\ req[r].kind = "api" =>
                  /\ Routed(r)
                  /\ called[r][1].hob = HobCode(req[r], KnownCity(r))
           /\ called[r][1].to = "H2" => req[r].kind = "api"
           /\ called[r][1].to # "H1" =>
                  called[r][1].session \in SessionIds(req[r], TRUE)
<1>1. Calls(r)
    BY DEF ServeInv, Own
<1>2. called[r] # <<>>
    OBVIOUS
<1>3. i = 1
    BY <1>1, <1>2, OneCall DEF Calls
<1>4. /\ pc[r] \in {"H1 wait", "H2 wait", "repin", "write", "rpc wait", "done"}
      /\ sess[r].admitted /\ ~req[r].preflight
    BY <1>1, <1>2, Zenon DEF Calls
<1>5. pc[r] \notin {"bucket", "cors", "route"}
    BY <1>4
<1>6. /\ req[r].kind = "api" => called[r][1].hob = HobCode(req[r], KnownCity(r))
      /\ called[r][1].to = "H2" => req[r].kind = "api"
      /\ called[r][1].to # "H1" => called[r][1].session \in SessionIds(req[r], TRUE)
    BY <1>1, <1>2, Zenon DEF Calls
<1> QED
    BY <1>3, <1>4, <1>5, <1>6 DEF Routed

(* One session: the rules sample by the id the service is given, and the   *)
(* throttling bucket is that of the same id unless the body holds it.      *)
THEOREM SessionIsOne == Spec => []OneSession
<1>1. ServeInv => OneSession
    <2> SUFFICES ASSUME ServeInv, NEW r \in Requests, NEW i \in DOMAIN called[r],
                        Cardinality(HeaderSessions(req[r])) = 1, ~req[r].badForm
                 PROVE  /\ called[r][i].to = "H2"
                           => called[r][i].session = sess[r].routed
                        /\ called[r][i].to # "H1" /\ req[r].form.session_id = ""
                           /\ req[r].form.api_token = ""
                           => called[r][i].session = sess[r].bucket
        BY Zenon DEF OneSession
    <2>1. Sessions(r)
        BY DEF ServeInv, Own
    <2>2. \A a, b \in SessionIds(req[r], TRUE) : a = b
        <3>1. PICK id : SessionIds(req[r], TRUE) = {id}
            BY OneAnswer
        <3> QED
            BY <3>1
    <2>3. called[r][i].to = "H2" => called[r][i].session = sess[r].routed
        <3> SUFFICES ASSUME called[r][1].to = "H2"
                     PROVE  called[r][1].session = sess[r].routed
            BY CallOf
        <3>1. sess[r].routed \in SessionIds(req[r], TRUE)
            BY <2>1, CallOf, Zenon DEF Sessions, ExtractedSessions
        <3>2. called[r][1].session \in SessionIds(req[r], TRUE)
            BY CallOf
        <3> QED
            BY <2>2, <3>1, <3>2, Zenon
    <2>4. called[r][i].to # "H1" /\ req[r].form.session_id = ""
          /\ req[r].form.api_token = "" => called[r][i].session = sess[r].bucket
        <3> SUFFICES ASSUME called[r][1].to # "H1", req[r].form.session_id = "",
                            req[r].form.api_token = ""
                     PROVE  called[r][1].session = sess[r].bucket
            BY CallOf
        <3>1. sess[r].bucket \in SessionIds(req[r], TRUE)
            BY <2>1, CallOf, BodyWithoutSession, Zenon DEF Sessions
        <3>2. called[r][1].session \in SessionIds(req[r], TRUE)
            BY CallOf
        <3> QED
            BY <2>2, <3>1, <3>2, Zenon
    <2> QED
        BY <2>3, <2>4
<1> QED
    BY <1>1, ServeInvHolds, PTL

LEMMA FourAreFinite ==
    ASSUME NEW a, NEW b, NEW c, NEW d
    PROVE  IsFiniteSet({a, b, c, d})
<1>1. IsFiniteSet({a})
    BY FS_Singleton
<1>2. IsFiniteSet({a} \cup {b})
    BY <1>1, FS_AddElement
<1>3. IsFiniteSet(({a} \cup {b}) \cup {c})
    BY <1>2, FS_AddElement
<1>4. IsFiniteSet((({a} \cup {b}) \cup {c}) \cup {d})
    BY <1>3, FS_AddElement
<1>5. {a, b, c, d} = (({a} \cup {b}) \cup {c}) \cup {d}
    OBVIOUS
<1> QED
    BY <1>4, <1>5, Zenon

(* Wherever a request names its one city, the backend hears of the city    *)
(* the rules were tried with.                                              *)
LEMMA OneCity ==
    ASSUME NEW q, ~q.badForm, Cardinality(Named(q)) <= 1
    PROVE  HobCode(q, SetHob(Extracted(q, "city"), q)) = Hob(Extracted(q, "city"), q)
<1> DEFINE own == Extracted(q, "city")
           known == SetHob(own, q)
           told == <<q.form.hob, q.query.hob, q.query.city, known>>
<1>1. \A a, b \in Named(q) : a = b
    <2> DEFINE all == {q.query.city, q.query.hob, q.form.city, q.form.hob}
    <2>1. IsFiniteSet(Named(q))
        <3>1. Named(q) \in SUBSET all /\ IsFiniteSet(all)
            BY FourAreFinite DEF Named
        <3> QED
            BY <3>1, FS_Subset
    <2>2. Cardinality(Named(q)) \in Nat
        BY <2>1, FS_CardinalityType
    <2>3. CASE Cardinality(Named(q)) = 0
        BY <2>1, <2>3, FS_EmptySet
    <2>4. CASE Cardinality(Named(q)) = 1
        BY <2>1, <2>4, FS_Singleton
    <2> QED
        BY <2>2, <2>3, <2>4
<1>2. /\ Extracted(q, "city") = IF q.form.city # "" THEN q.form.city ELSE q.query.city
      /\ Extracted(q, "hob") = IF q.form.hob # "" THEN q.form.hob ELSE q.query.hob
    BY DEF Extracted
<1>3. DOMAIN told = {1, 2, 3, 4} /\ told[1] = q.form.hob /\ told[2] = q.query.hob
      /\ told[3] = q.query.city /\ told[4] = known
    OBVIOUS
<1>4. \/ /\ \A k \in {1, 2, 3, 4} : told[k] = ""
         /\ HobCode(q, known) = ""
      \/ /\ HobCode(q, known) # ""
         /\ \E k \in {1, 2, 3, 4} : HobCode(q, known) = told[k]
    <2>1. HobCode(q, known) = FirstGiven(told)
        BY DEF HobCode
    <2>2. DOMAIN told \subseteq Nat
        BY <1>3
    <2> HIDE DEF told
    <2> QED
        BY <1>3, <2>1, <2>2, FirstGivenFinds
<1> HIDE DEF told
<1>5. CASE own = "" /\ Extracted(q, "hob") = ""
    <2>1. known = HostMap[q.host] /\ Hob(own, q) = HostMap[q.host]
        BY <1>5 DEF SetHob, Hob
    <2>2. told[1] = "" /\ told[2] = "" /\ told[3] = ""
        BY <1>2, <1>3, <1>5
    <2> HIDE DEF known
    <2>3. \A k \in {1, 2, 3, 4} : told[k] = "" \/ told[k] = known
        BY <1>3, <2>2, Zenon
    <2>4. (\A k \in {1, 2, 3, 4} : told[k] = "") => known = ""
        BY <1>3, Zenon
    <2>5. HobCode(q, known) = Hob(own, q)
        BY <1>4, <2>1, <2>3, <2>4, Zenon
    <2> QED
        BY <2>5 DEF known
<1>6. CASE ~(own = "" /\ Extracted(q, "hob") = "")
    <2>1. known = own
        BY <1>6 DEF SetHob
    <2>2. Hob(own, q) \in Named(q)
        <3>1. Hob(own, q) = IF own # "" THEN own ELSE Extracted(q, "hob")
            BY <1>6 DEF Hob
        <3> QED
            BY <1>2, <1>6, <3>1 DEF Named
    <2>3. \A k \in {1, 2, 3, 4} : told[k] = "" \/ told[k] \in Named(q)
        BY <1>2, <1>3, <2>1, Zenon DEF Named
    <2>4. \E k \in {1, 2, 3, 4} : told[k] # ""
        BY <1>2, <1>3, <1>6, <2>1, Zenon
    <2> HIDE DEF own, known
    <2>5. HobCode(q, known) = Hob(own, q)
        BY <1>1, <1>4, <2>2, <2>3, <2>4, Zenon
    <2> QED
        BY <2>5 DEF own, known
<1> QED
    BY <1>5, <1>6

(* For any requests and host map: the backend is told the city that the    *)
(* rules were tried with, however configurations and pinning come between. *)
THEOREM HobIsPassedOn == Spec => []HobReachesBackend
<1>1. ServeInv => HobReachesBackend
    BY CallOf, OneCity DEF HobReachesBackend, KnownCity, AskedHob
<1> QED
    BY <1>1, ServeInvHolds, PTL

-----------------------------------------------------------------------------
(* The urls beside a timestamp, where the apps of all regions have urls of *)
(* the same names.  Before anything is pinned there are no headers; past   *)
(* that, the urls are those that the version of the timestamp has for the  *)
(* city at hand, but for the moment between the answer of a service that   *)
(* asks for another city and the pinning to it.  That one goes through:    *)
(* the city is known, and a configuration once loaded has a region for it. *)
UrlsOf(r) ==
    \A k \in UrlNames :
        pin[r].urls[k] =
            IF k \in DOMAIN UrlsFor(ConfigOf(pin[r].timestamp), r)
            THEN UrlsFor(ConfigOf(pin[r].timestamp), r)[k] ELSE ""

Pins(r, names) ==
    /\ pc[r] \in {"bucket", "cors", "route", "pin", "region"} => pin[r] = Unpinned
    /\ \A k \in UrlNames \ names : pin[r].urls[k] = ""
    /\ pin[r].timestamp # 0 /\ pc[r] # "repin" => UrlsOf(r)
    /\ pc[r] = "repin" => hdr[r].hob # ""
    /\ cfg = EmptyConfig => pin[r].timestamp = 0

PinInv(names) == ServeInv /\ UniformUrls(names) /\ \A r \in Requests : Pins(r, names)

(* A timestamp names one configuration.                                    *)
LEMMA VersionOf ==
    ASSUME NEW c \in Configs
    PROVE  ConfigOf(c.version) = c
BY HandlerAssumption, Zenon DEF ConfigOf

(* Before anything is loaded no city has a region.                         *)
LEMMA NoRegion ==
    ASSUME NEW hob
    PROVE  Region(EmptyConfig, hob) = Nil
<1>1. DOMAIN EmptyConfig.regions = {}
    BY DEF EmptyConfig
<1>2. HomeRegion(EmptyConfig, hob) = Nil
    BY <1>1, Zenon DEF HomeRegion, RegionAt
<1> QED
    BY <1>2, Zenon DEF Region

(* Once something is, every city has one, with urls of the names there are. *)
LEMMA UniformRegion ==
    ASSUME NEW names, UniformUrls(names), NEW c \in Configs, NEW hob, NEW app
    PROVE  /\ Region(c, hob) # Nil
           /\ DOMAIN Urls(Region(c, hob), app) = names
           /\ \E a \in DOMAIN Region(c, hob).apps :
                  Urls(Region(c, hob), app) = Region(c, hob).apps[a]
<1>1. RegionTable(c)
    BY DEF UniformUrls
<1>2. PICK id \in DOMAIN c.regions : Region(c, hob) = c.regions[id]
    BY <1>1, RegionExists
<1>3. c.regions[id] # Nil
    BY <1>1 DEF RegionTable
<1> DEFINE apps == c.regions[id].apps
<1>4. "default" \in DOMAIN apps /\ \A a \in DOMAIN apps : DOMAIN apps[a] = names
    BY Zenon DEF UniformUrls
<1>5. \E a \in DOMAIN apps : Urls(Region(c, hob), app) = apps[a]
    BY <1>2, <1>4, Zenon DEF Urls
<1> QED
    BY <1>2, <1>3, <1>4, <1>5, Zenon

LEMMA UnpinnedBlank ==
    Unpinned.timestamp = 0 /\ \A k \in UrlNames : Unpinned.urls[k] = ""
BY DEF Unpinned

LEMMA PinnedUrls ==
    ASSUME NEW p, NEW h
    PROVE  /\ Pinned(p, h).timestamp = h.version
           /\ \A k \in UrlNames :
                  Pinned(p, h).urls[k] =
                      IF k \in DOMAIN h.urls THEN h.urls[k] ELSE p.urls[k]
BY DEF Pinned

(* An answer of CorrectHostname that is no error.                          *)
LEMMA HostnameUrls ==
    ASSUME NEW c, NEW q, NEW hob, NEW rwHob, ~CorrectHostname(c, q, hob, rwHob).err
    PROVE  /\ Region(c, hob) # Nil
           /\ CorrectHostname(c, q, hob, rwHob).version = c.version
           /\ CorrectHostname(c, q, hob, rwHob).urls = Urls(Region(c, hob), q.source)
<1>1. ~((hob = "" /\ rwHob = "") \/ Region(c, hob) = Nil)
    BY DEF CorrectHostname
<1> QED
    BY <1>1 DEF CorrectHostname

(* Headers p hold the version of c and the given urls, and no others.      *)
PinnedTo(p, c, urls, names) ==
    /\ ConfigOf(p.timestamp) = c
    /\ \A k \in UrlNames \ names : p.urls[k] = ""
    /\ \A k \in UrlNames : p.urls[k] = IF k \in DOMAIN urls THEN urls[k] ELSE ""

(* Headers p hold no url but those named.                                  *)
BlankBut(names, p) == \A k \in UrlNames \ names : p.urls[k] = ""

(* An answer with the urls of a region of c.                               *)
AnswerOf(c, h) ==
    \E hob, app : /\ Region(c, hob) # Nil
                  /\ h.version = c.version /\ h.urls = Urls(Region(c, hob), app)

(* Pinning to the urls that configuration c has.                           *)
LEMMA NewPin ==
    ASSUME NEW names, UniformUrls(names), NEW c \in Configs \cup {EmptyConfig},
           NEW p, BlankBut(names, p), NEW h, AnswerOf(c, h)
    PROVE  /\ c # EmptyConfig
           /\ PinnedTo(Pinned(p, h), c, h.urls, names)
<1>a. PICK hob, app : /\ Region(c, hob) # Nil
                      /\ h.version = c.version /\ h.urls = Urls(Region(c, hob), app)
    BY DEF AnswerOf
<1>1. c \in Configs /\ c # EmptyConfig
    BY <1>a, NoRegion, HandlerAssumption
<1>2. ConfigOf(Pinned(p, h).timestamp) = c
    <2>1. Pinned(p, h).timestamp = c.version
        BY <1>a, PinnedUrls
    <2> QED
        BY <1>1, <2>1, VersionOf, Zenon
<1>3. DOMAIN h.urls = names
    <2>1. DOMAIN Urls(Region(c, hob), app) = names
        BY <1>1, <1>a, UniformRegion
    <2> QED
        BY <1>a, <2>1, Zenon
<1>4. \A k \in UrlNames :
          Pinned(p, h).urls[k] = IF k \in names THEN h.urls[k] ELSE ""
    <2>1. \A k \in UrlNames :
              Pinned(p, h).urls[k] = IF k \in DOMAIN h.urls THEN h.urls[k] ELSE p.urls[k]
        BY PinnedUrls, Zenon
    <2> QED
        BY <1>3, <2>1, Zenon DEF BlankBut
<1> QED
    BY <1>1, <1>2, <1>3, <1>4, Zenon DEF BlankBut, PinnedTo

(* The frame: a step that leaves the city and the pinning headers of r     *)
(* alone and neither leaves nor reaches the second pinning, or no step of  *)
(* r at all.                                                               *)
LEMMA PinsFrame ==
    ASSUME NEW names, NEW r \in Requests, Pins(r, names),
           req' = req, cfg' = cfg \/ cfg' # EmptyConfig,
           UNCHANGED <<pin[r], city[r]>>,
           \/ UNCHANGED <<pc[r], hdr[r]>>
           \/ pc[r] # "repin" /\ pc'[r] # "repin"
              /\ (pc'[r] \in {"bucket", "cors", "route", "pin", "region"}
                  => pc[r] \in {"bucket", "cors", "route", "pin", "region"})
    PROVE  Pins(r, names)'
<1>1. pin'[r].timestamp # 0 /\ pc'[r] # "repin" => UrlsOf(r)'
    BY DEF Pins, UrlsOf, UrlsFor
<1>2. pc'[r] \in {"bucket", "cors", "route", "pin", "region"} => pin'[r] = Unpinned'
    BY DEF Pins, Unpinned
<1>3. /\ \A k \in UrlNames \ names : pin'[r].urls[k] = ""
      /\ cfg' = EmptyConfig => pin'[r].timestamp = 0
    BY DEF Pins
<1>4. pc'[r] = "repin" => hdr'[r].hob # ""
    BY DEF Pins
<1> QED
    BY <1>1, <1>2, <1>3, <1>4 DEF Pins


(* Each step of a request keeps its headers as Pins says.                  *)
LEMMA PinsStep ==
    ASSUME NEW names, PinInv(names), NEW r \in Requests, Serve(r)
    PROVE  Pins(r, names)'
<1>1. /\ UniformUrls(names) /\ Pins(r, names) /\ Own(r) /\ Loaded
      /\ req' = req /\ cfg' = cfg
      /\ PerRequest(pin) /\ PerRequest(city) /\ PerRequest(pc) /\ PerRequest(hdr)
    BY ServesOne DEF PinInv, ServeInv, Shape
<1>2. /\ req[r].kind \in {"api", "rpc", "endpoints"}
      /\ pc[r] \in Steps[req[r].kind]
    BY <1>1, HandlerAssumption DEF PinInv, ServeInv, Shape, Own, Control
<1>3. UNCHANGED cfg /\ \A k \in UrlNames \ names : pin[r].urls[k] = ""
    BY <1>1 DEF Pins
\* A step that pins nothing leaves city and headers alone.
<1>4. ASSUME UNCHANGED <<pin[r], city[r]>>, pc[r] # "repin", pc'[r] # "repin",
             pc'[r] \in {"bucket", "cors", "route", "pin", "region"}
             => pc[r] \in {"bucket", "cors", "route", "pin", "region"}
      PROVE  Pins(r, names)'
    BY <1>1, <1>4, PinsFrame
\* A step that pins to what the loaded configuration has.
<1>5. ASSUME NEW h, NEW hob, NEW app, Region(cfg, hob) # Nil,
             pin'[r] = Pinned(pin[r], h),
             h.version = cfg.version, h.urls = Urls(Region(cfg, hob), app),
             UrlsFor(cfg, r)' = Urls(Region(cfg, hob), app),
             pc'[r] \notin {"bucket", "cors", "route", "pin", "region", "repin"}
      PROVE  Pins(r, names)'
    <2>1. cfg \in Configs \cup {EmptyConfig}
        BY <1>1 DEF Loaded
    <2>2. /\ cfg # EmptyConfig
          /\ ConfigOf(pin'[r].timestamp) = cfg
          /\ \A k \in UrlNames \ names : pin'[r].urls[k] = ""
          /\ \A k \in UrlNames :
                 pin'[r].urls[k] = IF k \in DOMAIN h.urls THEN h.urls[k] ELSE ""
        <3>1. UniformUrls(names) /\ BlankBut(names, pin[r]) /\ AnswerOf(cfg, h)
            BY <1>1, <1>3, <1>5, Zenon DEF BlankBut, AnswerOf
        <3>2. cfg # EmptyConfig /\ PinnedTo(Pinned(pin[r], h), cfg, h.urls, names)
            BY <2>1, <3>1, NewPin, Zenon
        <3>3. PinnedTo(pin'[r], cfg, h.urls, names)
            BY <1>5, <3>2
        <3> QED
            BY <3>2, <3>3, Zenon DEF PinnedTo
    <2>3. UrlsFor(ConfigOf(pin[r].timestamp), r)' = h.urls
        <3>1. UrlsFor(ConfigOf(pin[r].timestamp), r)' = UrlsFor(cfg, r)'
            BY <1>1, <2>2, Zenon DEF UrlsFor
        <3> QED
            BY <1>5, <3>1, Zenon
    <2>4. UrlsOf(r)'
        BY <2>2, <2>3, Zenon DEF UrlsOf
    <2> QED
        BY <1>1, <1>5, <2>2, <2>4 DEF Pins
<1>6. CASE MaybePin(r)
    <2> DEFINE hob == Hob(city[r], req[r])
               h == CorrectHostname(cfg, req[r], hob, hdr[r].hob)
    <2>1. /\ pc[r] = "pin" /\ pc'[r] \in {"rpc", "mode"}
          /\ req[r].kind \in {"api", "rpc"}
          /\ city'[r] = SetHob(city[r], req[r])
          /\ hdr' = hdr
        BY <1>1, <1>2, <1>6, StepsOf DEF MaybePin, Goto, PerRequest
    <2>2. Hob(city'[r], req'[r]) = hob
        BY <1>1, <2>1, HobSettles
    <2>3. UrlsFor(cfg, r)' = Urls(Region(cfg, hob), req[r].source)
        BY <1>1, <2>1, <2>2 DEF UrlsFor
    <2>4. CASE h.err \/ h.isCorrect
        <3>1. pin'[r] = pin[r] /\ pin[r] = Unpinned
            BY <1>1, <1>6, <2>1, <2>4 DEF MaybePin, Pins
        <3>2. pin'[r].timestamp = 0
            BY <3>1, UnpinnedBlank
        <3> QED
            BY <1>1, <1>3, <2>1, <3>1, <3>2 DEF Pins
    <2>5. CASE ~(h.err \/ h.isCorrect)
        <3>1. pin'[r] = Pinned(pin[r], h)
            BY <1>1, <1>6, <2>5 DEF MaybePin, PerRequest
        <3>2. /\ Region(cfg, hob) # Nil
              /\ h.version = cfg.version
              /\ h.urls = Urls(Region(cfg, hob), req[r].source)
            BY <2>5, HostnameUrls
        <3> HIDE DEF h, hob
        <3> QED
            BY <1>5, <2>1, <2>3, <3>1, <3>2
    <2> QED
        BY <2>4, <2>5
<1>7. CASE RegionPinning(r)
    <2> DEFINE hob == Hob(city[r], req[r])
               h == CorrectHostname(cfg, req[r], hob, hdr[r].hob)
    <2>1. /\ pc[r] = "repin" /\ pc'[r] = "write"
          /\ req[r].kind = "api" /\ hdr[r].hob # ""
          /\ city' = city
        BY <1>1, <1>2, <1>7, StepsOf DEF RegionPinning, Goto, PerRequest, Pins
    <2>2. UrlsFor(cfg, r)' = Urls(Region(cfg, hob), req[r].source)
        BY <1>1, <2>1 DEF UrlsFor
    <2>3. CASE h.err
        <3>1. pin'[r] = pin[r]
            BY <1>7, <2>3 DEF RegionPinning
        <3>2. Region(cfg, hob) = Nil
            BY <2>1, <2>3 DEF CorrectHostname
        <3>3. cfg = EmptyConfig
            BY <1>1, <3>2, UniformRegion DEF Loaded
        <3>4. pin'[r].timestamp = 0
            BY <1>1, <3>1, <3>3 DEF Pins
        <3> QED
            BY <1>1, <1>3, <2>1, <3>1, <3>4 DEF Pins
    <2>4. CASE ~h.err
        <3>1. pin'[r] = Pinned(pin[r], h)
            BY <1>1, <1>7, <2>4 DEF RegionPinning, PerRequest
        <3>2. /\ Region(cfg, hob) # Nil
              /\ h.version = cfg.version
              /\ h.urls = Urls(Region(cfg, hob), req[r].source)
            BY <2>4, HostnameUrls
        <3> HIDE DEF h, hob
        <3> QED
            BY <1>5, <2>1, <2>2, <3>1, <3>2
    <2> QED
        BY <2>3, <2>4
<1>8. CASE EndpointUrls(r)
    <2> DEFINE hob == Hob(city[r], req[r])
               urls == Urls(Region(cfg, hob), req[r].app)
               h == [version |-> cfg.version, urls |-> urls]
    <2>1. /\ pc[r] = "region" /\ pc'[r] \in {"regions", "done"}
          /\ req[r].kind = "endpoints"
          /\ city'[r] = SetHob(city[r], req[r])
        BY <1>1, <1>2, <1>8, StepsOf DEF EndpointUrls, Goto, PerRequest
    <2>2. Hob(city'[r], req'[r]) = hob
        BY <1>1, <2>1, HobSettles
    <2>3. UrlsFor(cfg, r)' = urls
        BY <1>1, <2>1, <2>2 DEF UrlsFor
    <2>4. \/ pin'[r] = pin[r]
          \/ Region(cfg, hob) # Nil /\ pin'[r] = Pinned(pin[r], h)
        BY <1>1, <1>8 DEF EndpointUrls, PerRequest
    <2>5. CASE pin'[r] = pin[r]
        <3>1. pin[r] = Unpinned
            BY <1>1, <2>1 DEF Pins
        <3>2. pin'[r].timestamp = 0
            BY <2>5, <3>1, UnpinnedBlank
        <3> QED
            BY <1>1, <1>3, <2>1, <2>5, <3>2 DEF Pins
    <2>6. CASE Region(cfg, hob) # Nil /\ pin'[r] = Pinned(pin[r], h)
        <3>1. h.version = cfg.version /\ h.urls = urls
            OBVIOUS
        <3> HIDE DEF h, hob
        <3> QED
            BY <1>5, <2>1, <2>3, <2>6, <3>1
    <2> QED
        BY <2>4, <2>5, <2>6
<1>9. CASE AnswerH2(r)
    <2>1. pin' = pin /\ pc[r] = "H2 wait"
        BY <1>9 DEF AnswerH2
    <2>2. \/ city' = city /\ pc'[r] \in {"write", "done"}
          \/ pc'[r] = "repin" /\ hdr'[r].hob # ""
        <3>1. PICK reply \in H2Replies :
                  \/ city' = city /\ (Goto(r, "done") \/ Goto(r, "write"))
                  \/ /\ hdr' = [hdr EXCEPT ![r].hob = reply.hob]
                     /\ reply.hob # "" /\ Goto(r, "repin")
            BY <1>9, Zenon DEF AnswerH2, Finish
        <3>2. DOMAIN hdr[r] = {"route", "mode", "hob"}
            BY DEF PinInv, ServeInv, Shape, NoHeaders
        <3>3. ASSUME NEW l, Goto(r, l) PROVE pc'[r] = l
            BY <1>1, <3>3 DEF Goto, PerRequest
        <3>4. CASE city' = city /\ (Goto(r, "done") \/ Goto(r, "write"))
            BY <3>3, <3>4
        <3>5. CASE /\ hdr' = [hdr EXCEPT ![r].hob = reply.hob]
                   /\ reply.hob # "" /\ Goto(r, "repin")
            <4>1. hdr'[r].hob = reply.hob
                BY <1>1, <3>2, <3>5 DEF PerRequest
            <4> QED
                BY <3>3, <3>5, <4>1
        <3> QED
            BY <3>1, <3>4, <3>5
    <2>3. CASE city' = city /\ pc'[r] \in {"write", "done"}
        BY <1>4, <2>1, <2>3
    <2>4. CASE pc'[r] = "repin" /\ hdr'[r].hob # ""
        BY <1>1, <1>3, <2>1, <2>4 DEF Pins
    <2> QED
        BY <2>2, <2>3, <2>4
<1>10. CASE Admit(r) \/ Cors(r) \/ RouteRequest(r)
    <2>1. pin' = pin /\ city' = city
        BY <1>10, Zenon DEF Admit, Cors, RouteRequest, resp
    <2>2. /\ pc[r] \in {"bucket", "cors", "route"}
          /\ pc'[r] \in {"cors", "route", "pin", "region", "done"}
        BY <1>1, <1>10 DEF Admit, Cors, RouteRequest, Goto, Mux, PerRequest
    <2> QED
        BY <1>4, <2>1, <2>2
<1>11. CASE SetMode(r) \/ Dispatch(r) \/ Throttle(r) \/ Deprecate(r)
    <2>1. pin' = pin /\ city' = city
        BY <1>11, Zenon DEF SetMode, Dispatch, Throttle, Deprecate, Shed
    <2>2. /\ pc[r] \in {"mode", "dispatch", "Throttle", "Deprecate"}
          /\ pc'[r] \in {"dispatch", "H1", "H2", "Throttle", "Deprecate", "done"}
        <3>1. CASE Dispatch(r)
            <4>1. pc[r] = "dispatch" /\ \E l \in {"H2"} \cup Actions : Goto(r, l)
                BY <3>1, Zenon DEF Dispatch
            <4> QED
                BY <1>1, <4>1 DEF Goto, PerRequest, Actions
        <3>2. CASE SetMode(r) \/ Throttle(r) \/ Deprecate(r)
            BY <1>1, <3>2 DEF SetMode, Throttle, Deprecate, Shed, Goto, PerRequest
        <3> QED
            BY <1>11, <3>1, <3>2
    <2> QED
        BY <1>4, <2>1, <2>2
<1>12. CASE SendH1(r) \/ AnswerH1(r) \/ SendH2(r) \/ WriteH2(r) \/ SendRpc(r)
            \/ AnswerRpc(r) \/ EndpointTable(r)
    <2>1. pin' = pin /\ city' = city
        BY <1>12, Zenon DEF SendH1, AnswerH1, SendH2, WriteH2, SendRpc, AnswerRpc,
                            EndpointTable, resp
    <2>2. /\ pc[r] \in {"H1", "H1 wait", "H2", "write", "rpc", "rpc wait",
                        "regions", "hobRegions"}
          /\ \E l \in {"H1 wait", "H2 wait", "rpc wait", "hobRegions", "done"} :
                 Goto(r, l)
        <3>1. CASE SendH1(r) \/ AnswerH1(r) \/ SendH2(r) \/ WriteH2(r)
            BY <3>1, Zenon DEF SendH1, AnswerH1, SendH2, WriteH2, Finish
        <3>2. CASE SendRpc(r) \/ AnswerRpc(r)
            BY <3>2, Zenon DEF SendRpc, AnswerRpc, Finish
        <3>3. CASE EndpointTable(r)
            BY <3>3, Zenon DEF EndpointTable
        <3> QED
            BY <1>12, <3>1, <3>2, <3>3
    <2>3. pc'[r] \in {"H1 wait", "H2 wait", "rpc wait", "hobRegions", "done"}
        BY <1>1, <2>2 DEF Goto, PerRequest
    <2> QED
        BY <1>4, <2>1, <2>2, <2>3
<1> QED
    BY <1>6, <1>7, <1>8, <1>9, <1>10, <1>11, <1>12, Zenon DEF Serve

LEMMA PinInvHolds ==
    ASSUME NEW CONSTANT names
    PROVE  Spec /\ UniformUrls(names) => []PinInv(names)
<1>1. Init /\ UniformUrls(names) => PinInv(names)
    <2> SUFFICES ASSUME Init, UniformUrls(names), NEW r \in Requests
                 PROVE  Pins(r, names)
        BY ServeInvInit DEF PinInv
    <2>1. pin[r] = Unpinned /\ pc[r] = "bucket"
        BY DEF Init
    <2> QED
        BY <2>1, UnpinnedBlank DEF Pins
<1>2. PinInv(names) /\ [Next]_vars => PinInv(names)'
    <2> SUFFICES ASSUME PinInv(names), [Next]_vars PROVE PinInv(names)'
        OBVIOUS
    <2>1. ServeInv' /\ UniformUrls(names)'
        BY ServeInvStep DEF PinInv, UniformUrls, RegionTable
    <2>2. ASSUME NEW r \in Requests, Serve(r), NEW o \in Requests
          PROVE  Pins(o, names)'
        <3>1. CASE o = r
            BY <2>2, <3>1, PinsStep
        <3>2. CASE o # r
            <4>1. Same(o) /\ cfg' = cfg /\ req' = req
                BY <2>2, <3>2, ServesOne DEF PinInv, ServeInv
            <4> QED
                BY <4>1, PinsFrame DEF Same, PinInv
        <3> QED
            BY <3>1, <3>2
    <2>3. ASSUME Load, NEW o \in Requests PROVE Pins(o, names)'
        <3>1. cfg' # EmptyConfig
            BY <2>3, HandlerAssumption DEF Load
        <3>2. req' = req /\ UNCHANGED <<pc, city, pin, hdr>>
            BY <2>3 DEF Load, resp
        <3> QED
            BY <3>1, <3>2, PinsFrame DEF PinInv
    <2>4. ASSUME UNCHANGED vars, NEW o \in Requests PROVE Pins(o, names)'
        <3>1. req' = req /\ cfg' = cfg /\ UNCHANGED <<pc, city, pin, hdr>>
            BY <2>4 DEF vars, resp
        <3> QED
            BY <3>1, PinsFrame DEF PinInv
    <2>5. \A o \in Requests : Pins(o, names)'
        BY <2>2, <2>3, <2>4 DEF Next
    <2> QED
        BY <2>1, <2>5 DEF PinInv
<1> QED
    BY <1>1, <1>2, PTL DEF Spec

(* Where all apps have urls of the same names, also for a service that     *)
(* sends the app to another city while configurations come and go: all     *)
(* urls of an answer are of the version its timestamp names.               *)
THEOREM UrlsOfOneVersion ==
    ASSUME NEW CONSTANT names
    PROVE  Spec /\ UniformUrls(names) => []TimestampMatchesUrls
<1>1. PinInv(names) => TimestampMatchesUrls
    <2> SUFFICES ASSUME PinInv(names), NEW r \in Requests, pc[r] = "done",
                        pin[r].timestamp # 0
                 PROVE  UrlsOf(r)
        BY Zenon DEF TimestampMatchesUrls, Done, UrlsOf
    <2> QED
        BY DEF PinInv, Pins
<1> QED
    BY <1>1, PinInvHolds, PTL

(* And if api is one of those names, the api url of an answer is that of   *)
(* an online region whenever the home of the city has an online failover.  *)
THEOREM OnlineRegion ==
    ASSUME NEW CONSTANT names, "api" \in names, "api" \in UrlNames
    PROVE  Spec /\ UniformUrls(names) => []PinsOnlineRegion
<1>1. PinInv(names) => PinsOnlineRegion
    <2> SUFFICES ASSUME PinInv(names), NEW r \in Requests, pc[r] = "done",
                        pin[r].timestamp # 0
                 PROVE  LET c == ConfigOf(pin[r].timestamp)
                            home == HomeRegion(c, Hob(city[r], req[r]))
                            online == {id \in DOMAIN c.regions : IsOnline(c.regions[id])}
                        IN  (\E i \in DOMAIN home.failover : home.failover[i] \in online)
                            => \E id \in online : \E a \in DOMAIN c.regions[id].apps :
                                   pin[r].urls["api"] = c.regions[id].apps[a]["api"]
        BY Zenon DEF PinsOnlineRegion, Done
    <2> DEFINE c == ConfigOf(pin[r].timestamp)
               hob == Hob(city[r], req[r])
               home == HomeRegion(c, hob)
               online == {id \in DOMAIN c.regions : IsOnline(c.regions[id])}
    <2> SUFFICES ASSUME NEW i \in DOMAIN home.failover, home.failover[i] \in online
                 PROVE  \E id \in online : \E a \in DOMAIN c.regions[id].apps :
                            pin[r].urls["api"] = c.regions[id].apps[a]["api"]
        BY Zenon
    <2>1. UniformUrls(names) /\ UrlsOf(r) /\ Stamp(r)
        BY DEF PinInv, Pins, ServeInv, Own
    <2>2. c \in Configs
        <3>1. PICK d \in Configs : pin[r].timestamp = d.version
            BY <2>1 DEF Stamp
        <3> QED
            BY <3>1, VersionOf
    <2> HIDE DEF c
    <2>3. RegionTable(c)
        BY <2>1, <2>2 DEF UniformUrls
    <2>4. IsOnline(RegionAt(c, home.failover[i]))
        BY DEF RegionAt
    <2>5. PICK id \in DOMAIN c.regions :
              Region(c, hob) = c.regions[id] /\ IsOnline(c.regions[id])
        BY <2>3, <2>4, RegionExists
    <2>6. PICK app : UrlsFor(c, r) = Urls(Region(c, hob), app)
        BY Zenon DEF UrlsFor
    <2>7. /\ DOMAIN UrlsFor(c, r) = names
          /\ \E a \in DOMAIN Region(c, hob).apps : UrlsFor(c, r) = Region(c, hob).apps[a]
        BY <2>1, <2>2, <2>6, UniformRegion
    <2>8. PICK a \in DOMAIN c.regions[id].apps : UrlsFor(c, r) = c.regions[id].apps[a]
        BY <2>5, <2>7, Zenon
    <2>9. pin[r].urls["api"] = UrlsFor(c, r)["api"]
        BY <2>1, <2>7, Zenon DEF UrlsOf, c
    <2> QED
        BY <2>5, <2>8, <2>9, Zenon
<1> QED
    BY <1>1, PinInvHolds, PTL

-----------------------------------------------------------------------------
(* The safety part of EveryRequestAnswered.  The steps a handler may take   *)
(* after each of its steps, over all kinds of request.                     *)
Move(a, b) ==
    \/ a = "bucket" /\ b \in {"cors", "done"}
    \/ a = "cors" /\ b \in {"done", "route", "pin", "region"}
    \/ a = "route" /\ b = "pin"
    \/ a = "pin" /\ b \in {"mode", "rpc"}
    \/ a = "mode" /\ b = "dispatch"
    \/ a = "dispatch" /\ b \in Actions
    \/ a \in {"Throttle", "Deprecate"} /\ b = "done"
    \/ a = "H1" /\ b = "H1 wait"
    \/ a = "H1 wait" /\ b = "done"
    \/ a = "H2" /\ b \in {"H2 wait", "done"}
    \/ a = "H2 wait" /\ b \in {"done", "repin", "write"}
    \/ a = "repin" /\ b = "write"
    \/ a = "write" /\ b = "done"
    \/ a = "rpc" /\ b \in {"rpc wait", "done"}
    \/ a = "rpc wait" /\ b = "done"
    \/ a = "region" /\ b \in {"done", "regions"}
    \/ a = "regions" /\ b = "hobRegions"
    \/ a = "hobRegions" /\ b = "done"

(* How far a handler has come: its steps numbered along Move.              *)
StageOf(l) ==
    CASE l = "bucket" -> 0 [] l = "cors" -> 1 [] l = "route" -> 2
      [] l \in {"pin", "region"} -> 3
      [] l \in {"mode", "rpc", "regions"} -> 4
      [] l \in {"dispatch", "rpc wait", "hobRegions"} -> 5
      [] l \in Actions -> 6
      [] l \in {"H1 wait", "H2 wait"} -> 7
      [] l = "repin" -> 8 [] l = "write" -> 9 [] l = "done" -> 10

(* Every move leads to a later stage.                                      *)
LEMMA MovesGoOn ==
    ASSUME NEW a, NEW b, Move(a, b)
    PROVE  StageOf(a) \in 0..9 /\ StageOf(b) \in 1..10 /\ StageOf(b) > StageOf(a)
<1>1. /\ StageOf("bucket") = 0 /\ StageOf("cors") = 1 /\ StageOf("route") = 2
      /\ StageOf("pin") = 3 /\ StageOf("region") = 3
      /\ StageOf("mode") = 4 /\ StageOf("rpc") = 4 /\ StageOf("regions") = 4
      /\ StageOf("dispatch") = 5 /\ StageOf("rpc wait") = 5
      /\ StageOf("hobRegions") = 5
      /\ \A l \in Actions : StageOf(l) = 6
      /\ StageOf("H1 wait") = 7 /\ StageOf("H2 wait") = 7
      /\ StageOf("repin") = 8 /\ StageOf("write") = 9 /\ StageOf("done") = 10
    BY DEF StageOf, Actions
<1>2. \A l \in {"H1", "H2", "Throttle", "Deprecate"} : StageOf(l) = 6
    BY <1>1, Zenon DEF Actions
<1>3. CASE a \in {"bucket", "cors", "route", "pin", "mode"}
    <2>1. \/ StageOf(a) = 0 /\ StageOf(b) \in {1, 10}
          \/ StageOf(a) = 1 /\ StageOf(b) \in {2, 3, 10}
          \/ StageOf(a) = 2 /\ StageOf(b) = 3
          \/ StageOf(a) = 3 /\ StageOf(b) = 4
          \/ StageOf(a) = 4 /\ StageOf(b) = 5
        BY <1>1, <1>3 DEF Move
    <2> QED
        BY <2>1
<1>4. CASE a \in {"dispatch", "H1", "H2", "Throttle", "Deprecate"}
    <2>1. \/ StageOf(a) = 5 /\ StageOf(b) = 6
          \/ StageOf(a) = 6 /\ StageOf(b) \in {7, 10}
        BY <1>1, <1>2, <1>4 DEF Move
    <2> QED
        BY <2>1
<1>5. CASE a \in {"H1 wait", "H2 wait", "repin", "write"}
    <2>1. \/ StageOf(a) = 7 /\ StageOf(b) \in {8, 9, 10}
          \/ StageOf(a) = 8 /\ StageOf(b) = 9
          \/ StageOf(a) = 9 /\ StageOf(b) = 10
        BY <1>1, <1>5 DEF Move
    <2> QED
        BY <2>1
<1>6. CASE a \in {"rpc", "rpc wait", "region", "regions", "hobRegions"}
    <2>1. \/ StageOf(a) = 3 /\ StageOf(b) \in {4, 10}
          \/ StageOf(a) = 4 /\ StageOf(b) \in {5, 10}
          \/ StageOf(a) = 5 /\ StageOf(b) = 10
        BY <1>1, <1>6 DEF Move
    <2> QED
        BY <2>1
<1> QED
    BY <1>3, <1>4, <1>5, <1>6, Zenon DEF Move

(* A step of a handler is a move to a later stage, so no request takes     *)
(* more than ten, whatever its rule, the answers of the backends and the   *)
(* configurations that come and go meanwhile.                              *)
Forward ==
    [][\A r \in Requests :
          Serve(r) => Move(pc[r], pc'[r]) /\ StageOf(pc'[r]) > StageOf(pc[r])]_vars

(* A step of a handler is one of the moves.                                *)
LEMMA ServeMoves ==
    ASSUME PerRequest(pc), NEW r \in Requests, Serve(r)
    PROVE  Move(pc[r], pc'[r])
<1>g. ASSUME NEW l, Goto(r, l) PROVE pc'[r] = l
    BY <1>g DEF Goto, PerRequest
<1>f. ASSUME NEW code, NEW ok, Finish(r, code, ok) PROVE pc'[r] = "done"
    BY <1>f, <1>g, Zenon DEF Finish
<1>1. CASE Admit(r)
    <2>1. pc[r] = "bucket" /\ (Goto(r, "cors") \/ Goto(r, "done"))
        BY <1>1, Zenon DEF Admit
    <2> QED
        BY <1>g, <2>1, Zenon DEF Move
<1>2. CASE Cors(r)
    <2>1. pc[r] = "cors" /\ (Goto(r, "done") \/ Goto(r, Mux(req[r])))
        BY <1>2, Zenon DEF Cors
    <2>2. Mux(req[r]) \in {"route", "pin", "region"}
        BY Zenon DEF Mux
    <2> QED
        BY <1>g, <2>1, <2>2, Zenon DEF Move
<1>3. CASE RouteRequest(r)
    BY <1>3, <1>g, Zenon DEF RouteRequest, Move
<1>4. CASE MaybePin(r)
    <2>1. pc[r] = "pin" /\ Goto(r, IF req[r].kind = "rpc" THEN "rpc" ELSE "mode")
        BY <1>4, Zenon DEF MaybePin
    <2>2. pc'[r] \in {"rpc", "mode"}
        BY <1>g, <2>1, Zenon
    <2> QED
        BY <2>1, <2>2, Zenon DEF Move
<1>5. CASE SetMode(r)
    BY <1>5, <1>g, Zenon DEF SetMode, Move
<1>6. CASE Dispatch(r)
    BY <1>6, <1>g, Zenon DEF Dispatch, Move, Actions
<1>7. CASE Throttle(r) \/ Deprecate(r)
    <2>1. pc[r] \in {"Throttle", "Deprecate"} /\ Goto(r, "done")
        BY <1>7, Zenon DEF Throttle, Deprecate, Shed
    <2> QED
        BY <1>g, <2>1, Zenon DEF Move
<1>8. CASE SendH1(r)
    BY <1>8, <1>g, Zenon DEF SendH1, Move
<1>9. CASE AnswerH1(r)
    BY <1>9, <1>f, Zenon DEF AnswerH1, Move
<1>10. CASE SendH2(r)
    BY <1>10, <1>f, <1>g, Zenon DEF SendH2, Move
<1>11. CASE AnswerH2(r)
    <2>1. /\ pc[r] = "H2 wait"
          /\ Goto(r, "done") \/ Goto(r, "repin") \/ Goto(r, "write")
        BY <1>11, Zenon DEF AnswerH2, Finish
    <2> QED
        BY <1>g, <2>1, Zenon DEF Move
<1>12. CASE RegionPinning(r)
    BY <1>12, <1>g, Zenon DEF RegionPinning, Move
<1>13. CASE WriteH2(r)
    BY <1>13, <1>f, Zenon DEF WriteH2, Move
<1>14. CASE SendRpc(r)
    <2>1. pc[r] = "rpc" /\ (Goto(r, "rpc wait") \/ Goto(r, "done"))
        BY <1>14, Zenon DEF SendRpc, Finish
    <2> QED
        BY <1>g, <2>1, Zenon DEF Move
<1>15. CASE AnswerRpc(r)
    BY <1>15, <1>f, Zenon DEF AnswerRpc, Move
<1>16. CASE EndpointUrls(r)
    <2>1. /\ pc[r] = "region"
          /\ Goto(r, "done") \/ Goto(r, IF req[r].verbose THEN "regions" ELSE "done")
        BY <1>16, Zenon DEF EndpointUrls
    <2>2. pc'[r] \in {"done", "regions"}
        BY <1>g, <2>1, Zenon
    <2> QED
        BY <2>1, <2>2, Zenon DEF Move
<1>17. CASE EndpointTable(r)
    <2>1. /\ pc[r] \in {"regions", "hobRegions"}
          /\ Goto(r, IF pc[r] = "regions" THEN "hobRegions" ELSE "done")
        BY <1>17, Zenon DEF EndpointTable
    <2>2. pc'[r] = IF pc[r] = "regions" THEN "hobRegions" ELSE "done"
        BY <1>g, <2>1, Zenon
    <2> QED
        BY <2>1, <2>2, Zenon DEF Move
<1> QED
    BY <1>1, <1>2, <1>3, <1>4, <1>5, <1>6, <1>7, <1>8, <1>9, <1>10, <1>11,
       <1>12, <1>13, <1>14, <1>15, <1>16, <1>17, Zenon DEF Serve

(* Handlers do not loop: each step of a request is a later one than the    *)
(* step before, for any requests, configurations and answers.              *)
THEOREM HandlersGoForward == Spec => Forward
<1>1. ServeInv /\ [Next]_vars
      => [\A r \in Requests :
            Serve(r) => Move(pc[r], pc'[r]) /\ StageOf(pc'[r]) > StageOf(pc[r])]_vars
    <2>1. ServeInv => PerRequest(pc)
        BY Zenon DEF ServeInv, Shape
    <2> QED
        BY <2>1, ServeMoves, MovesGoOn, Zenon
<1> QED
    BY <1>1, ServeInvHolds, PTL DEF Spec, Forward

===============================================================================
