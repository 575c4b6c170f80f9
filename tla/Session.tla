------------------------------- MODULE Session -------------------------------
(***************************************************************************)
(* session/session.go: which session id a request carries.  The answer     *)
(* depends on when it is asked: r.Form is empty until somebody has parsed  *)
(* the form.                                                               *)
(*                                                                         *)
(* Of a request q this uses                                                *)
(*   query, form   parameters of the URL and of the body, "" when absent   *)
(*                 (requests that give a parameter a blank value, which    *)
(*                 hides one of the same name elsewhere, are left out)     *)
(*   headers       X-Api-Token and Authorization values, as sequences;     *)
(*                 an Authorization value is [scheme, content], content    *)
(*                 being "" when the value has less than two parts         *)
(***************************************************************************)
EXTENDS Sequences, SequencesExt, FiniteSetsExt

(* The first value that is not blank, or "".                               *)
FirstGiven(values) ==
    LET given == {i \in DOMAIN values : values[i] # ""}
    IN  IF given = {} THEN "" ELSE values[Min(given)]

(* extractAuthorizationHeader: only the token scheme is supported.         *)
ExtractAuthorization(v) == IF v.scheme = "token" THEN v.content ELSE ""

(* What each of headerExtractors finds, the first value that gives one.    *)
XApiToken(q) == FirstGiven(q.headers.xApiToken)

Authorization(q) ==
    FirstGiven([i \in DOMAIN q.headers.authorization |->
                   ExtractAuthorization(q.headers.authorization[i])])

(* The headers are looked at in the order of a map iteration: when both    *)
(* give a session id, either may be found first.                           *)
HeaderSessions(q) ==
    LET found == {XApiToken(q), Authorization(q)} \ {""}
    IN  IF found = {} THEN {""} ELSE found

(* SessionId: the query string, then the parsed form, then the headers.    *)
SessionIds(q, parsed) ==
    LET body == IF parsed THEN <<q.form.session_id, q.form.api_token>> ELSE <<>>
        id == FirstGiven(<<q.query.session_id, q.query.api_token>> \o body)
    IN  IF id # "" THEN {id} ELSE HeaderSessions(q)
=============================================================================
