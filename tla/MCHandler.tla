------------------------------ MODULE MCHandler ------------------------------
(***************************************************************************)
(* Instances of Handler for TLC: a few configurations that disagree on     *)
(* rules, regions and cities, and requests that tell them apart.           *)
(***************************************************************************)
EXTENDS Handler

SampleHash == [c1 |-> 0, c2 |-> 2, s1 |-> 0, s2 |-> 2]

SampleHostMap ==
    [eu |-> "", us |-> "", old |-> "LON"]

Paths ==
    [root |-> <<"/">>, quote |-> <<"/", "v1", "/quote">>, v10 |-> <<"/", "v1", "0">>]

Match(path, source, hobs, prop, sampler) ==
    [path |-> path, source |-> source, hobs |-> hobs, prop |-> prop,
     sampler |-> sampler]

Rule(match, action, payload, weight) ==
    [match |-> match, action |-> action, payload |-> payload, weight |-> weight]

RegionOf(online, failover, urls) ==
    [online |-> online, failover |-> failover, apps |-> [default |-> urls]]

Whole(host) == [api |-> host, hms |-> host]

LonRule == Rule(Match(<<>>, "", {"LON"}, 3, "random"), "H1", Nil, 0)
QuoteRule == Rule(Match(<<"/", "v1">>, "", {}, 3, "customer"), "H2", Nil, 0)
HalfRule == Rule(Match(<<"/", "v1">>, "", {}, 1, "customer"), "Throttle", 429, 0)
OddRule == Rule(Match(<<"/">>, "driver", {}, 3, "random"), "unknown", Nil, 0)
DiceRule == Rule(Match(<<"/">>, "driver", {}, 1, "random"), "Deprecate", Nil, 1)
CatchAll == Rule(Match(<<>>, "", {}, 3, "random"), "Throttle", Nil, 2)
SessionRule == Rule(Match(<<"/", "v1">>, "", {}, 1, "session_id"), "H2", Nil, 3)
BlankRule == Rule(Nil, "Throttle", Nil, 3)

\* LON at home in region 1, its failover not needed.
HomeConfig ==
    [version |-> 1, rules |-> {LonRule, QuoteRule, OddRule, BlankRule},
     regions |-> [i \in 1..2 |-> IF i = 1 THEN RegionOf(TRUE, <<2>>, Whole("eu"))
                                  ELSE RegionOf(TRUE, <<1>>, Whole("us"))],
     hobRegions |-> [LON |-> 1, NYC |-> 2], hobModes |-> [default |-> "h2"]]

\* Region 1 is offline; region 3 is its first failover but offline as well.
FailedConfig ==
    [version |-> 2, rules |-> {HalfRule, DiceRule, LonRule},
     regions |-> [i \in 1..3 |->
                     CASE i = 1 -> RegionOf(FALSE, <<3, 2>>, Whole("eu"))
                       [] i = 2 -> RegionOf(TRUE, <<>>, Whole("us"))
                       [] OTHER -> RegionOf(FALSE, <<>>, Whole("ap"))],
     hobRegions |-> [LON |-> 1, default |-> 2], hobModes |-> [LON |-> "h1"]]

\* Everything is shed, but for some sessions.
ShedConfig ==
    [HomeConfig EXCEPT !.version = 3, !.rules = {CatchAll, HalfRule, SessionRule}]

SampleConfigs == {HomeConfig, FailedConfig, ShedConfig}

NoParams ==
    [city |-> "", hob |-> "", customer |-> "", session_id |-> "", api_token |-> ""]

Auth(scheme, content) == [scheme |-> scheme, content |-> content]

Plain ==
    [kind |-> "api", method |-> "GET", preflight |-> FALSE, path |-> Paths.quote,
     source |-> "customer", query |-> NoParams, form |-> NoParams,
     badForm |-> FALSE, headers |-> [xApiToken |-> <<>>, authorization |-> <<>>],
     host |-> "eu", force |-> "", valid |-> TRUE,
     kernel |-> FALSE, app |-> "customer", verbose |-> FALSE]

SampleInputs ==
    {[Plain EXCEPT !.query.customer = "c1"],
     [Plain EXCEPT !.query.city = "LON", !.host = "us"],
     [Plain EXCEPT !.form.hob = "NYC", !.query.customer = "c2"],
     [Plain EXCEPT !.form.city = "LON", !.query.city = "NYC",
                   !.query.customer = "c2", !.form.customer = "c1"],
     [Plain EXCEPT !.host = "old", !.path = Paths.root],
     [Plain EXCEPT !.source = "driver", !.path = Paths.root, !.valid = FALSE],
     [Plain EXCEPT !.source = "driver", !.query.city = "DUB", !.force = "bogus"],
     [Plain EXCEPT !.force = "throttle"],
     [Plain EXCEPT !.path = Paths.v10],
     [Plain EXCEPT !.preflight = TRUE]}
    \cup
    {[Plain EXCEPT !.kind = "rpc", !.path = <<"/", "rpc">>, !.method = m,
                   !.query.city = "LON", !.query.session_id = qs,
                   !.query.api_token = qt, !.form.session_id = fs,
                   !.kernel = k, !.valid = v] :
        m \in {"GET", "POST"}, k \in BOOLEAN, v \in BOOLEAN,
        qs \in {"", "s1", "s2"}, qt \in {"", "s2"}, fs \in {"", "s1"}}
    \cup
    {[Plain EXCEPT !.kind = "endpoints", !.query.hob = "LON", !.verbose = v] :
        v \in BOOLEAN}
    \cup
    {[Plain EXCEPT !.method = "POST", !.query.session_id = qs,
                   !.query.api_token = qt, !.form.session_id = fs,
                   !.headers.xApiToken = ht, !.headers.authorization = ha,
                   !.badForm = bad] :
        qs \in {"", "s1"}, qt \in {"", "s2"}, fs \in {"", "s2"},
        ht \in {<<>>, <<"", "s1">>},
        ha \in {<<>>, <<Auth("basic", "s2"), Auth("token", "s2")>>},
        bad \in BOOLEAN}

SampleH1Statuses == {200, 404, 500}

Reply(error, code, h, p) ==
    [error |-> error, status |-> code, hob |-> h, pinning |-> p]

SampleH2Replies ==
    {Reply(FALSE, 200, "", FALSE), Reply(FALSE, 200, "NYC", TRUE),
     Reply(FALSE, 503, "LON", TRUE), Reply(FALSE, 404, "LON", FALSE),
     Reply(TRUE, 408, "", FALSE), Reply(TRUE, 500, "", FALSE)}

ASSUME SampleUrls == UniformUrls(UrlNames)
=============================================================================
