------------------------------- MODULE LastGood -------------------------------
(***************************************************************************)
(* What loading a configuration promises (controlplane/controlplane.go):   *)
(* the configuration in use, and the file the next process starts from,    *)
(* are replaced as a whole, by valid content the config library has held,  *)
(* in the file first; a process that starts again finds the file in the    *)
(* library and nothing in use.  Temporary files, hashes and retries are    *)
(* not seen here.                                                          *)
(***************************************************************************)
CONSTANTS
    Raw,         \* contents of the config library
    Empty,       \* its zero-length content
    Invalid,     \* what content that does not load parses to
    Section,     \* the configuration each content parses to
    Nothing,     \* no content, configuration or file
    Loaders      \* goroutines that load

VARIABLES
    raw,      \* content of the library
    load,     \* content each loader is loading
    file,     \* the last good content on disk
    loaded    \* the configuration in use

vars == <<raw, load, file, loaded>>

Idle == [p \in Loaders |-> Nothing]

Init == raw = Empty /\ load = Idle /\ file = Nothing /\ loaded = Nothing

Fetch ==
    /\ raw' \in Raw
    /\ UNCHANGED <<load, file, loaded>>

Begin(p) ==
    /\ load[p] = Nothing
    /\ raw \in Raw /\ Section[raw] # Invalid
    /\ load' = [load EXCEPT ![p] = raw]
    /\ UNCHANGED <<raw, file, loaded>>

Save(p) ==
    /\ load[p] # Nothing
    /\ file' = load[p]
    /\ UNCHANGED <<raw, load, loaded>>

(* The configuration ends up in use, if it is not already.                 *)
Finish(p) ==
    /\ load[p] # Nothing
    /\ loaded' = Section[load[p]]
    /\ load' = [load EXCEPT ![p] = Nothing]
    /\ UNCHANGED <<raw, file>>

Restart ==
    /\ raw' = IF file = Nothing THEN Empty ELSE file
    /\ load' = Idle
    /\ loaded' = Nothing
    /\ UNCHANGED file

Next ==
    \/ Fetch
    \/ Restart
    \/ \E p \in Loaders : Begin(p) \/ Save(p) \/ Finish(p)

Spec == Init /\ [][Next]_vars
===============================================================================
