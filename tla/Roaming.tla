------------------------------- MODULE Roaming -------------------------------
(***************************************************************************)
(* What region pinning promises an app (README, "Timestamp"): it moves     *)
(* from the home of one version of the configuration to the home of a      *)
(* later one and never back, however the regions differ meanwhile.         *)
(***************************************************************************)
EXTENDS Naturals

CONSTANTS
    Hosts,   \* hostnames of the API
    Home     \* the host an app belongs at, for each version

VARIABLES
    host,    \* where the app sends its requests
    stamp    \* the version that sent it there, 0 before any did

Init == host \in Hosts /\ stamp = 0

Move ==
    \E v \in DOMAIN Home :
        /\ v > stamp
        /\ stamp' = v
        /\ host' = Home[v]

Spec == Init /\ [][Move]_<<host, stamp>>
=============================================================================
