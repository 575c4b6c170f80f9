---------------------------- MODULE MCControlPlane ----------------------------
(* Small instances of ControlPlane for TLC.                                *)
EXTENDS ControlPlane

CONSTANTS a, b, secA, secB

\* Two contents that load and differ; all others do not load.
SampleSections ==
    [c \in Raw |-> CASE c = a -> secA
                     [] c = b -> secB
                     [] OTHER -> Invalid]

=============================================================================
