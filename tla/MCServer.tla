------------------------------- MODULE MCServer -------------------------------
(* An instance of Server for TLC.                                          *)
EXTENDS Server

SampleSensitive ==
    [v \in Versions |-> CASE v = 0 -> {} [] v = 1 -> {"card", "token"}
                          [] OTHER -> {"card"}]

SampleHosts ==
    [v \in Versions |-> CASE v = 0 -> <<>> [] v = 1 -> [a |-> "old"]
                          [] OTHER -> [a |-> "new"]]

SampleInputs ==
    {[path |-> "card", encrypted |-> FALSE, host |-> "a"],
     [path |-> "token", encrypted |-> TRUE, host |-> "a"]}
===============================================================================
