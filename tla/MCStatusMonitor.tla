--------------------------- MODULE MCStatusMonitor ---------------------------
(* Small instances of StatusMonitor for TLC.                               *)
EXTENDS StatusMonitor

CONSTANTS a1, a2, b1, c1, off1, east, west, north

\* One instance per zone, and one outside AWS.
ZonePerInstance ==
    [i \in Instances |-> CASE i = a1 -> east
                           [] i = b1 -> west
                           [] i = c1 -> north
                           [] OTHER -> Undefined]

\* Two instances share a zone.
SharedZone == [i \in Instances |-> IF i \in {a1, a2} THEN east ELSE west]

=============================================================================
