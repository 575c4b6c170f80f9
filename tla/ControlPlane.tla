----------------------------- MODULE ControlPlane -----------------------------
(***************************************************************************)
(* How controlplane/controlplane.go loads its configuration.  Two          *)
(* goroutines run tryLoad: the caller of New (the first, synchronous load) *)
(* and the subscriber, which runs a load cycle per change notification.    *)
(* Both read the raw bytes of the config library, validate them, compare   *)
(* their hash with what is loaded, save the bytes as the "last good" file  *)
(* and then swap in the new configuration.  A restarted process starts     *)
(* from that file.                                                         *)
(*                                                                         *)
(* A raw configuration is a value of Raw; Section gives its parsed         *)
(* controlPlane part, or Invalid when it is empty, is not JSON or has no   *)
(* rule or no region.  Two raw configurations may share a section.         *)
(* loadCycleLock has one user, the subscriber, and never blocks it.        *)
(***************************************************************************)
EXTENDS Naturals

CONSTANTS
    Raw,         \* contents of the config library
    Empty,       \* its zero-length content
    Torn,        \* half-written bytes
    Sections,    \* parsed and validated controlPlane parts
    Invalid,     \* the content does not load
    Section,     \* what each content parses to
    Tied,        \* sections with rules of equal weight and specificity
    Nothing,     \* no configuration is loaded, no file exists
    IOFaults,    \* TRUE: writing the file may fail
    MaxCrashes   \* bound on restarts

ASSUME ControlPlaneAssumption ==
    /\ Empty \in Raw
    /\ Torn \notin Raw
    /\ Nothing \notin Raw \cup Sections \cup {Torn}
    /\ Invalid \notin Sections
    /\ Section \in [Raw -> Sections \cup {Invalid}]
    /\ Section[Empty] = Invalid
    /\ Tied \subseteq Sections
    /\ IOFaults \in BOOLEAN
    /\ MaxCrashes \in Nat

VARIABLES
    raw,      \* config.Raw()
    notify,   \* a change notification is waiting in ch
    pc,       \* where the two goroutines are
    got,      \* rawConfig of the running tryLoad
    tmp,      \* the temporary file of the running save
    loaded,   \* _loadedConfig
    file,     \* the last good config on disk
    dying,    \* the tomb
    fresh,    \* no content has arrived since the process started
    crashes   \* restarts so far

mem == <<raw, notify, loaded, dying, fresh>>
vars == <<raw, notify, pc, got, tmp, loaded, file, dying, fresh, crashes>>

Loaders == {"new", "sub"}

Locations == {"select", "cycle", "read", "hash", "write", "writing",
              "rename", "store", "done"}

Contents == Raw \cup {Torn}

TypeOK ==
    /\ raw \in Contents
    /\ notify \in BOOLEAN
    /\ pc \in [Loaders -> Locations]
    /\ got \in [Loaders -> Contents]
    /\ tmp \in [Loaders -> Contents \cup {Nothing}]
    /\ loaded \in Sections \cup {Nothing}
    /\ file \in Contents \cup {Nothing}
    /\ dying \in BOOLEAN
    /\ fresh \in BOOLEAN
    /\ crashes \in 0..MaxCrashes
    /\ pc["new"] \notin {"select", "cycle"}

(* The content parses and validates.                                       *)
Good(c) == c \in Raw /\ Section[c] # Invalid

Boot == [p \in Loaders |-> IF p = "new" THEN "read" ELSE "select"]

Init ==
    /\ raw = Empty
    /\ notify = FALSE
    /\ pc = Boot
    /\ got = [p \in Loaders |-> Empty]
    /\ tmp = [p \in Loaders |-> Nothing]
    /\ loaded = Nothing
    /\ file = Nothing
    /\ dying = FALSE
    /\ fresh = TRUE
    /\ crashes = 0

Goto(p, l) == pc' = [pc EXCEPT ![p] = l]

\* The load cycle drains the notifications that came in meanwhile.
BugReturnDrains(p) ==
    /\ Goto(p, IF p = "new" THEN "done" ELSE "select")
    /\ notify' = IF p = "sub" THEN FALSE ELSE notify

(* tryLoad succeeded: New returns, a load cycle ends.                      *)
Return(p) ==
    /\ Goto(p, IF p = "new" THEN "done" ELSE "select")
    /\ UNCHANGED notify

-----------------------------------------------------------------------------
(* Definitions whose name starts with Bug are wrong on purpose: each one   *)
(* is a slip the definition after it could have, and breaks a property     *)
(* below.                                                                  *)

\* Nothing is validated.
BugReadRawUnchecked(p) ==
    /\ pc[p] = "read"
    /\ got' = [got EXCEPT ![p] = raw]
    /\ Goto(p, "write")
    /\ UNCHANGED <<tmp, file, mem, crashes>>

(* tryLoad: read the raw content, parse and validate it.  After an error   *)
(* New carries on without a configuration, a load cycle sleeps and tries   *)
(* again.                                                                  *)
ReadRaw(p) ==
    /\ pc[p] = "read"
    /\ got' = [got EXCEPT ![p] = raw]
    /\ \/ Good(raw) /\ Goto(p, "hash")
       \/ ~Good(raw) /\ Goto(p, IF p = "new" THEN "done" ELSE "cycle")
    /\ UNCHANGED <<tmp, file, mem, crashes>>

(* tryLoad: nothing to do when the hash is the loaded one.  The order of   *)
(* tied rules follows the iteration order of a map, so their hash may      *)
(* differ from one load to the next.                                       *)
CompareHash(p) ==
    /\ pc[p] = "hash"
    /\ \/ Section[got[p]] = loaded /\ Return(p)
       \/ /\ Section[got[p]] # loaded \/ loaded \in Tied
          /\ Goto(p, "write")
          /\ UNCHANGED notify
    /\ UNCHANGED <<got, tmp, file, raw, loaded, dying, fresh, crashes>>

\* The file itself is written.
BugWriteInPlace(p) ==
    /\ pc[p] = "write"
    /\ file' = Torn
    /\ tmp' = [tmp EXCEPT ![p] = Torn]
    /\ Goto(p, "writing")
    /\ UNCHANGED <<got, mem, crashes>>

(* saveConfigToFile: the temporary file is created, unless that fails ...  *)
CreateTemp(p) ==
    /\ pc[p] = "write"
    /\ \/ /\ tmp' = [tmp EXCEPT ![p] = Torn]
          /\ Goto(p, "writing")
       \/ /\ IOFaults
          /\ Goto(p, "store")
          /\ UNCHANGED tmp
    /\ UNCHANGED <<got, file, mem, crashes>>

(* ... and written ...                                                     *)
WriteTemp(p) ==
    /\ pc[p] = "writing"
    /\ \/ /\ tmp' = [tmp EXCEPT ![p] = got[p]]
          /\ Goto(p, "rename")
       \/ /\ IOFaults
          /\ Goto(p, "store")
          /\ UNCHANGED tmp
    /\ UNCHANGED <<got, file, mem, crashes>>

(* ... and moved over the old file.                                        *)
Rename(p) ==
    /\ pc[p] = "rename"
    /\ file' = tmp[p] \/ (IOFaults /\ UNCHANGED file)
    /\ Goto(p, "store")
    /\ UNCHANGED <<got, tmp, mem, crashes>>

\* What is swapped in is parsed again, from what the library has by now.
BugStore(p) ==
    /\ pc[p] = "store"
    /\ loaded' = IF Good(raw) THEN Section[raw] ELSE Section[got[p]]
    /\ Return(p)
    /\ UNCHANGED <<got, tmp, file, raw, dying, fresh, crashes>>

(* tryLoad: the new configuration is swapped in, saved or not.             *)
Store(p) ==
    /\ pc[p] = "store"
    /\ loaded' = Section[got[p]]
    /\ Return(p)
    /\ UNCHANGED <<got, tmp, file, raw, dying, fresh, crashes>>

-----------------------------------------------------------------------------
(* The subscriber.                                                         *)

Receive ==
    /\ pc["sub"] = "select"
    /\ notify
    /\ notify' = FALSE
    /\ Goto("sub", "cycle")
    /\ UNCHANGED <<got, tmp, file, raw, loaded, dying, fresh, crashes>>

\* The tomb is not looked at between two attempts.
BugCycleIgnoresTomb ==
    /\ pc["sub"] = "cycle"
    /\ Goto("sub", "read")
    /\ UNCHANGED <<got, tmp, file, mem, crashes>>

(* The head of the load cycle's loop looks at the tomb.                    *)
Cycle ==
    /\ pc["sub"] = "cycle"
    /\ Goto("sub", IF dying THEN "select" ELSE "read")
    /\ UNCHANGED <<got, tmp, file, mem, crashes>>

SubscriberDies ==
    /\ pc["sub"] = "select"
    /\ dying
    /\ Goto("sub", "done")
    /\ UNCHANGED <<got, tmp, file, mem, crashes>>

TryLoad(p) ==
    ReadRaw(p) \/ CompareHash(p) \/ CreateTemp(p) \/ WriteTemp(p) \/ Rename(p)
               \/ Store(p)

-----------------------------------------------------------------------------
(* The surroundings.                                                       *)

(* The config library fetches new content and notifies (external): the     *)
(* channel keeps one notification.                                         *)
Publish(c) ==
    /\ c # raw
    /\ raw' = c
    /\ notify' = TRUE
    /\ fresh' = FALSE
    /\ UNCHANGED <<pc, got, tmp, loaded, file, dying, crashes>>

Kill ==
    /\ ~dying
    /\ dying' = TRUE
    /\ UNCHANGED <<raw, notify, pc, got, tmp, loaded, file, fresh, crashes>>

\* The file is not looked at.
BugStartFrom == Empty

(* LoadLastGoodConfig: an unreadable file leaves the library empty.        *)
StartFrom == IF file = Nothing THEN Empty ELSE file

(* The process crashes anywhere and starts again; only the file survives.  *)
Restart ==
    /\ crashes < MaxCrashes
    /\ crashes' = crashes + 1
    /\ raw' = StartFrom
    /\ notify' = FALSE
    /\ pc' = Boot
    /\ got' = [p \in Loaders |-> Empty]
    /\ tmp' = [p \in Loaders |-> Nothing]
    /\ loaded' = Nothing
    /\ dying' = FALSE
    /\ fresh' = TRUE
    /\ UNCHANGED file

Next ==
    \/ \E p \in Loaders : TryLoad(p)
    \/ Receive
    \/ Cycle
    \/ SubscriberDies
    \/ \E c \in Raw : Publish(c)
    \/ Kill
    \/ Restart

Spec == Init /\ [][Next]_vars

(* Goroutines keep running, and a select with two ready branches picks at  *)
(* random, so a dying subscriber ends.                                     *)
Fairness ==
    /\ WF_vars(TryLoad("new"))
    /\ WF_vars(TryLoad("sub") \/ Receive \/ Cycle)
    /\ SF_vars(SubscriberDies)

FairSpec == Spec /\ Fairness

-----------------------------------------------------------------------------
(* Properties.                                                             *)

(* The file a restart depends on is whole and valid, whatever crashes,     *)
(* fails or races with its writing (controlplane.go:255-266).              *)
LastGoodIsGood == file # Nothing => Good(file)

(* Once a good configuration was saved, a process that starts without the  *)
(* config service comes up with a configuration as soon as New returns.    *)
RestartsFromLastGood ==
    fresh /\ file # Nothing /\ pc["new"] = "done" => loaded # Nothing

(* The content a loader has read and found valid.                          *)
Loading ==
    [p \in Loaders |->
        IF pc[p] \in {"hash", "write", "writing", "rename", "store"}
        THEN got[p] ELSE Nothing]

LG == INSTANCE LastGood WITH load <- Loading

(* The file and the configuration in use change only as LastGood says,     *)
(* whole, valid and in this order, with two loaders, failing writes and    *)
(* crashes anywhere in between (tryLoad, saveConfigToFile).                *)
ReplacedAsAWhole == LG!Spec

(* No notification is lost: good content that is announced once New has    *)
(* returned gets loaded, however many changes arrive during a load cycle,  *)
(* unless newer content, a restart or the end of the process intervenes.   *)
NotifiedChangeLoads ==
    \A c \in Raw :
        Good(c) /\ raw = c /\ notify /\ pc["new"] = "done"
            ~> loaded = Section[c] \/ raw # c \/ dying \/ pc["new"] # "done"

(* No wake-up is lost: when content has been announced and the subscriber  *)
(* waits with no notification left, the configuration in use is that of    *)
(* the content the library has now, however the announcements fell between *)
(* the steps of a load cycle; or else New has put what it read at the      *)
(* start over it, the one way to be out of date (controlplane.go:72-81).   *)
QuietMeansLoaded ==
    ~fresh /\ ~dying /\ ~notify /\ pc["sub"] = "select"
    => \/ loaded = Section[raw]
       \/ pc["new"] = "done" /\ loaded = Section[got["new"]]

(* The subscriber ends after the process is told to die, also from a load  *)
(* cycle that retries content that never becomes valid.                    *)
SubscriberStops == dying ~> pc["sub"] = "done" \/ ~dying

(* controlplane.go:136, "There can only be one load cycle at a time", so   *)
(* that the configuration of the newest good content is the one that stays *)
(* loaded when the content stops changing.                                 *)
NewestStaysLoaded ==
    \A c \in Raw :
        Good(c) => (<>[](raw = c /\ ~dying) => <>[](loaded = Section[c]))

=============================================================================
