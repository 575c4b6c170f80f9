-------------------------------- MODULE Health --------------------------------
(***************************************************************************)
(* The health checks of healthcheck/ on the rates of stats/.  The platform *)
(* keeps one-minute success and error rates per endpoint and runs each     *)
(* check once a minute, on a timer of its own.  The drop-off check         *)
(* compares the total rate with the one it saved the last time, the        *)
(* error-rate check the errors with all requests.                          *)
(*                                                                         *)
(* Rates are numbers of requests per unit of time and thresholds are       *)
(* percentages, so a comparison of fractions is cross-multiplied.          *)
(***************************************************************************)
EXTENDS Integers

CONSTANTS
    MaxRate,    \* bound on a rate
    DropOff,    \* threshold of RegisterDropOffCheck, in percent
    ErrRate     \* threshold of RegisterErrorRateCheck, in percent

ASSUME HealthAssumption ==
    /\ MaxRate \in Nat
    /\ DropOff \in 0..100
    /\ ErrRate \in 0..99

VARIABLES
    success,    \* GetRate1 of the successes of the endpoint
    failed,     \* GetRate1 of its errors
    saved,      \* the saved metric totalRate1
    outcome,    \* of the last drop-off check: none yet, ok or error
    last,       \* the rate at the last drop-off check
    prev,       \* the rate at the one before it, 0 if there was none
    ran,        \* the checks that ran since the rates last moved
    before,     \* last when the rates last moved
    alarm       \* one of the checks failed since then

window == <<ran, before, alarm>>
vars == <<success, failed, saved, outcome, last, prev, window>>

TypeOK ==
    /\ success \in 0..MaxRate
    /\ failed \in 0..MaxRate
    /\ saved \in 0..2 * MaxRate
    /\ outcome \in {"none", "ok", "error"}
    /\ last \in 0..2 * MaxRate
    /\ prev \in 0..2 * MaxRate
    /\ ran \subseteq {"drop", "errors"}
    /\ before \in 0..2 * MaxRate
    /\ alarm => ran # {}

(* Nothing is saved before the first check: GetMetric answers 0.           *)
Init ==
    /\ success = 0 /\ failed = 0
    /\ saved = 0 /\ last = 0 /\ prev = 0
    /\ outcome = "none"
    /\ ran = {} /\ before = 0 /\ alarm = FALSE

-----------------------------------------------------------------------------
(* Definitions whose name starts with Bug are wrong on purpose: each one   *)
(* is a slip the definition after it could have, and breaks a property     *)
(* below.                                                                  *)

\* The errors are among the successes.
BugRate1Total == success + failed + failed

(* rate1Total.                                                             *)
Rate1Total == success + failed

(* Requests come in and the platform's rates move.                         *)
Traffic ==
    /\ success' \in 0..MaxRate
    /\ failed' \in 0..MaxRate
    /\ ran' = {} /\ before' = last /\ alarm' = FALSE
    /\ UNCHANGED <<saved, outcome, last, prev>>

(* A check runs and its outcome goes to the platform.                      *)
Report(check, error) ==
    /\ ran' = ran \cup {check}
    /\ alarm' = (alarm \/ error)
    /\ UNCHANGED <<success, failed, before>>

\* Without a deviation there is no error.
BugDropOffError(old, new) ==
    old # 0 /\ new # 0 /\ new < old /\ (old - new) * 100 > DropOff * old

(* dev is the new rate over the old, and 0 when either is 0.  No deviation *)
(* is reported for 0 and 1, an error only if there is no request at all;   *)
(* then, whichever case it was, a dev that is too far below 1 is an error. *)
DropOffError(old, new) ==
    \/ new = 0
    \/ old = 0 /\ 100 > DropOff
    \/ old # 0 /\ new < old /\ (old - new) * 100 > DropOff * old

\* The rate is saved only when the check passes.
BugDropOffCheck ==
    /\ outcome' = IF DropOffError(saved, Rate1Total) THEN "error" ELSE "ok"
    /\ saved' = IF saved # 0 /\ outcome' = "error" THEN saved ELSE Rate1Total
    /\ last' = Rate1Total
    /\ prev' = last
    /\ Report("drop", outcome' = "error")

(* The checker of RegisterDropOffCheck: the new rate replaces the saved    *)
(* one whatever the outcome.                                               *)
DropOffCheck ==
    /\ outcome' = IF DropOffError(saved, Rate1Total) THEN "error" ELSE "ok"
    /\ saved' = Rate1Total
    /\ last' = Rate1Total
    /\ prev' = last
    /\ Report("drop", outcome' = "error")

\* No rate without successes.
BugErrorRateTooHigh == success # 0 /\ failed * 100 > ErrRate * Rate1Total

(* rate1: the errors as a part of all requests, 0 without errors.          *)
ErrorRateTooHigh == failed # 0 /\ failed * 100 > ErrRate * Rate1Total

(* The checker of RegisterErrorRateCheck, which keeps nothing.             *)
ErrorRateCheck ==
    /\ Report("errors", ErrorRateTooHigh)
    /\ UNCHANGED <<saved, outcome, last, prev>>

Next == Traffic \/ DropOffCheck \/ ErrorRateCheck

Spec == Init /\ [][Next]_vars

-----------------------------------------------------------------------------
(* RegisterDropOffCheck: the check fails when there are no requests, and   *)
(* when the rate fell by more than the threshold between two checks,       *)
(* whatever happened in between and before; and it fails once for a drop,  *)
(* traffic that stays at a level, however low, passes from the second      *)
(* check on.  Traffic that comes back from nothing fails it too, as if it  *)
(* had dropped by 100 percent (healthcheck.go:90).                         *)
DropIsReportedOnce ==
    /\ outcome # "none" /\ (last = 0 \/ (prev - last) * 100 > DropOff * prev)
       => outcome = "error"
    /\ last = prev /\ last # 0 => outcome = "ok"
    /\ prev = 0 /\ last # 0 => (outcome = "error" <=> DropOff < 100)

(* The two checks leave no gap between them: when each has run since the   *)
(* rates moved, one of them has failed if there were no successes, or less *)
(* successes than the part of the rate before that both thresholds allow,  *)
(* in whatever order and however often they ran.                           *)
LossIsReported ==
    /\ ran = {"drop", "errors"}
    /\ \/ success = 0
       \/ success * 100 * 100 < (100 - ErrRate) * (100 - DropOff) * before
    => alarm
===============================================================================
