------------------------------- MODULE MCPinning -------------------------------
(***************************************************************************)
(* An instance of Pinning for TLC: the city moves to region 2, region 2    *)
(* fails and yields to its failover, region 3, then it moves to region 1   *)
(* and back to region 2.                                                   *)
(***************************************************************************)
EXTENDS Pinning

NoHash == <<>>

RegionAs(p, online, failover) ==
    [online |-> online, failover |-> failover,
     apps |-> [default |-> [api |-> p]]]

ConfigAs(v, homeOfCity, offline) ==
    [version |-> v, rules |-> {}, hobModes |-> <<>>,
     regions |-> [i \in 1..3 |->
         CASE i = 1 -> RegionAs("eu", 1 \notin offline, <<2>>)
           [] i = 2 -> RegionAs("us", 2 \notin offline, <<1, 3>>)
           [] OTHER -> RegionAs("ap", 3 \notin offline, <<>>)],
     hobRegions |-> [LON |-> homeOfCity]]

SampleHistory ==
    <<ConfigAs(1, 2, {}), ConfigAs(2, 2, {1, 2}), ConfigAs(3, 1, {2}),
      ConfigAs(4, 2, {})>>
===============================================================================
