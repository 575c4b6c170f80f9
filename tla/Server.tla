-------------------------------- MODULE Server --------------------------------
(***************************************************************************)
(* The life of a server (handler/server.go) and the two tables that follow *)
(* the config library while it serves: the sensitive paths of the PCI      *)
(* filter (handler/pcifilter.go) and the host mappings                     *)
(* (hostmapping/hostmapping.go).  NewServer starts the goroutines one by   *)
(* one, then requests come, and Kill stops the goroutines of three tombs.  *)
(* The goroutine of the host mappings belongs to no tomb and starts before *)
(* main.                                                                   *)
(*                                                                         *)
(* What the library holds is a version: 0 is the empty configuration.      *)
(* Sensitive and Hosts give the tables of each version.  The control       *)
(* plane, the monitor and the throttling goroutines have modules of their  *)
(* own; here they run until they find that their tomb is dying.            *)
(***************************************************************************)
EXTENDS Naturals, Sequences

CONSTANTS
    MaxVersion,  \* bound on configuration changes
    Sensitive,   \* sensitive "METHOD path" pairs of each version
    Hosts,       \* explicit mappings of each version, host -> address
    Requests,    \* requests being served
    Inputs,      \* what a request may be, [path, encrypted, host]
    InAWS        \* the local availability zone is known

Versions == 0..MaxVersion

ASSUME ServerAssumption ==
    /\ MaxVersion \in Nat
    /\ Sensitive \in [Versions -> SUBSET {q.path : q \in Inputs}]
    /\ DOMAIN Hosts = Versions
    /\ InAWS \in BOOLEAN
    /\ Sensitive[0] = {} /\ Hosts[0] = <<>>

VARIABLES
    published,  \* version the config library holds
    ch,         \* change channel of each subscriber: "none", "quiet", "full"
    boot,       \* where NewServer is
    filter,     \* PCIFilter: where loadConfig is, what it has still to add
    paths,      \* sensitivePaths
    hosts,      \* where the mappings goroutine is, what it has read
    installed,  \* version of each table that was last completely loaded
    work,       \* goroutines that belong to a tomb
    killed,     \* tombs Kill has killed, in order
    waited,     \* tombs Kill has waited for, in order
    req         \* what became of each request

config == <<published, ch>>
tables == <<filter, paths, hosts, installed>>
vars == <<config, boot, tables, work, killed, waited, req>>

Tombs == <<"server", "control", "monitor">>

TombOf ==
    [listener |-> "server", ingester |-> "server", synchroniser |-> "server",
     subscriber |-> "control", monitor |-> "monitor"]

Workers == DOMAIN TombOf

Dying(t) == \E i \in 1..killed : Tombs[i] = t

(* What Map(host) returns under version v; "v1" is the default address.    *)
Map(v, host) == IF host \in DOMAIN Hosts[v] THEN Hosts[v][host] ELSE "v1"

Away == [at |-> "away", in |-> {}, since |-> 0, seen |-> 0, target |-> ""]

(* The package of the mappings subscribes and then triggers a first load.  *)
Init ==
    /\ published \in Versions
    /\ ch = [pci |-> "none", hosts |-> "quiet"]
    /\ boot = "control"
    /\ filter = [at |-> "idle", todo |-> {}, version |-> 0]
    /\ paths = {}
    /\ hosts = [at |-> "read", version |-> 0]
    /\ installed = [pci |-> 0, hosts |-> 0]
    /\ work = [w \in Workers |-> "unborn"]
    /\ killed = 0
    /\ waited = 0
    /\ req = [q \in Requests |-> Away]

-----------------------------------------------------------------------------
(* Definitions whose name starts with Bug are wrong on purpose: each one   *)
(* is a slip the definition after it could have, and breaks a property     *)
(* below.                                                                  *)

(* The library takes over the next configuration and notifies its          *)
(* subscribers (external): a channel keeps one notification.               *)
Publish ==
    /\ published < MaxVersion
    /\ published' = published + 1
    /\ ch' = [s \in DOMAIN ch |-> IF ch[s] = "none" THEN "none" ELSE "full"]
    /\ UNCHANGED <<boot, tables, work, killed, waited, req>>

\* The old map is filled up.
BugLockPaths ==
    /\ filter' = [at |-> "fill", todo |-> Sensitive[published],
                  version |-> published]
    /\ paths' = paths

(* loadConfig: the write lock is taken and a new map made, to be filled    *)
(* with the paths the library has now ...                                  *)
LockPaths ==
    /\ filter' = [at |-> "fill", todo |-> Sensitive[published],
                  version |-> published]
    /\ paths' = {}

(* ... path by path ...                                                    *)
AddPath ==
    /\ filter.at = "fill"
    /\ \E p \in filter.todo :
           /\ paths' = paths \cup {p}
           /\ filter' = [filter EXCEPT !.todo = @ \ {p}]
    /\ UNCHANGED <<config, boot, hosts, installed, work, killed, waited, req>>

\* Notifications that came during the load are dropped.
BugUnlockPaths ==
    /\ filter.at = "fill" /\ filter.todo = {}
    /\ filter' = [filter EXCEPT !.at = "idle"]
    /\ installed' = [installed EXCEPT !.pci = filter.version]
    /\ ch' = [ch EXCEPT !.pci = IF @ = "full" THEN "quiet" ELSE @]
    /\ boot' = IF boot = "filling" THEN "subscribe" ELSE boot
    /\ work' = IF work["listener"] = "busy"
               THEN [work EXCEPT !["listener"] = "select"] ELSE work
    /\ UNCHANGED <<published, paths, hosts, killed, waited, req>>

(* ... and the lock is released; NewPCIFilter, or the listener, goes on.   *)
UnlockPaths ==
    /\ filter.at = "fill" /\ filter.todo = {}
    /\ filter' = [filter EXCEPT !.at = "idle"]
    /\ installed' = [installed EXCEPT !.pci = filter.version]
    /\ boot' = IF boot = "filling" THEN "subscribe" ELSE boot
    /\ work' = IF work["listener"] = "busy"
               THEN [work EXCEPT !["listener"] = "select"] ELSE work
    /\ UNCHANGED <<config, paths, hosts, killed, waited, req>>

-----------------------------------------------------------------------------
(* A step of NewServer, which starts the goroutines born.                  *)
Start(next, born) ==
    /\ boot' = next
    /\ work' = [w \in Workers |-> IF w \in born THEN "select" ELSE work[w]]
    /\ UNCHANGED <<published, hosts, installed, killed, waited, req>>

(* NewPCIFilter loads the table first and subscribes to changes after.     *)
NewPCIFilter ==
    \/ /\ boot = "filter"
       /\ LockPaths
       /\ Start("filling", {})
       /\ UNCHANGED ch
    \/ /\ boot = "subscribe"
       /\ ch' = [ch EXCEPT !.pci = "quiet"]
       /\ Start("throttling", {"listener"})
       /\ UNCHANGED <<filter, paths>>

NewServer ==
    \/ /\ boot = "control"
       /\ Start("monitor", {"subscriber"})
       /\ UNCHANGED <<ch, filter, paths>>
    \/ /\ boot = "monitor"
       /\ Start("filter", IF InAWS THEN {"monitor"} ELSE {})
       /\ UNCHANGED <<ch, filter, paths>>
    \/ NewPCIFilter
    \/ /\ boot = "throttling"
       /\ Start("up", {"ingester", "synchroniser"})
       /\ UNCHANGED <<ch, filter, paths>>

(* listenConfig: a notification starts a load.                             *)
Notified ==
    /\ work["listener"] = "select"
    /\ ch.pci = "full"
    /\ ch' = [ch EXCEPT !.pci = "quiet"]
    /\ work' = [work EXCEPT !["listener"] = "busy"]
    /\ LockPaths
    /\ UNCHANGED <<published, boot, hosts, installed, killed, waited, req>>

\* A goroutine that has nothing to do does not look at its tomb.
BugDie(w) ==
    /\ work[w] = "select" /\ w # "synchroniser"
    /\ Dying(TombOf[w])
    /\ work' = [work EXCEPT ![w] = "dead"]
    /\ UNCHANGED <<config, boot, tables, killed, waited, req>>

(* A goroutine finds in its select that its tomb is dying.                 *)
Die(w) ==
    /\ work[w] = "select"
    /\ Dying(TombOf[w])
    /\ work' = [work EXCEPT ![w] = "dead"]
    /\ UNCHANGED <<config, boot, tables, killed, waited, req>>

(* The goroutine of the mappings: triggered by a notification (the first   *)
(* time by itself) it reads the library ...                                *)
ReadHosts ==
    /\ \/ hosts.at = "read" /\ UNCHANGED ch
       \/ /\ hosts.at = "select"
          /\ ch.hosts = "full"
          /\ ch' = [ch EXCEPT !.hosts = "quiet"]
    /\ hosts' = [at |-> "store", version |-> published]
    /\ UNCHANGED <<published, boot, filter, paths, installed, work, killed,
                   waited, req>>

\* The channel is drained after the load.
BugStoreHosts ==
    /\ hosts.at = "store"
    /\ hosts' = [hosts EXCEPT !.at = "select"]
    /\ installed' = [installed EXCEPT !.hosts = hosts.version]
    /\ ch' = [ch EXCEPT !.hosts = "quiet"]
    /\ UNCHANGED <<published, boot, filter, paths, work, killed, waited, req>>

(* ... and replaces the table.                                             *)
StoreHosts ==
    /\ hosts.at = "store"
    /\ hosts' = [hosts EXCEPT !.at = "select"]
    /\ installed' = [installed EXCEPT !.hosts = hosts.version]
    /\ UNCHANGED <<config, boot, filter, paths, work, killed, waited, req>>

-----------------------------------------------------------------------------
(* Requests, from the moment the server listens; Kill does not close the   *)
(* listener.                                                               *)
Arrive(r) ==
    /\ boot = "up"
    /\ req[r].at = "away"
    /\ \E q \in Inputs :
           req' = [req EXCEPT ![r].at = "filter", ![r].in = q,
                              ![r].since = installed.pci]
    /\ UNCHANGED <<config, boot, tables, work, killed, waited>>

(* IsSensitiveRequest on the map as it is.                                 *)
Verdict(r) ==
    /\ req[r].at = "filter"
    /\ req' = [req EXCEPT
           ![r].at = IF req[r].in.path \in paths /\ ~req[r].in.encrypted
                     THEN "refused" ELSE "passed",
           ![r].seen = published]
    /\ UNCHANGED <<config, boot, tables, work, killed, waited>>

\* The read lock is not taken.
BugFilterRequest(r) == Verdict(r)

(* PCIFilter.ServeHTTP: the read lock waits for a load to end.             *)
FilterRequest(r) == filter.at # "fill" /\ Verdict(r)

(* A request that passed and goes to H1 is given an address by Map.        *)
MapHost(r) ==
    /\ req[r].at = "passed"
    /\ req' = [req EXCEPT
           ![r] = [Away EXCEPT !.at = "mapped", !.in = req[r].in,
                               !.target = Map(installed.hosts, req[r].in.host)]]
    /\ UNCHANGED <<config, boot, tables, work, killed, waited>>

(* The answer is out; the same request may come again.                     *)
Leave(r) ==
    /\ req[r].at \in {"refused", "mapped"}
    /\ req' = [req EXCEPT ![r] = Away]
    /\ UNCHANGED <<config, boot, tables, work, killed, waited>>

-----------------------------------------------------------------------------
(* tomb.Wait (external) returns when the tomb is dying and its goroutines, *)
(* of which there has to be at least one, are dead.                        *)
WaitReturns(t) ==
    LET had == {w \in Workers : TombOf[w] = t /\ work[w] # "unborn"}
    IN  Dying(t) /\ had # {} /\ \A w \in had : work[w] = "dead"

\* Kill waits for the first tomb only.
BugKill ==
    /\ boot = "up"
    /\ \/ /\ killed < Len(Tombs)
          /\ killed' = killed + 1
          /\ UNCHANGED waited
       \/ /\ killed = Len(Tombs) /\ waited < Len(Tombs)
          /\ WaitReturns(Tombs[1])
          /\ waited' = waited + 1
          /\ UNCHANGED killed
    /\ UNCHANGED <<config, boot, tables, work, req>>

(* HailoServer.Kill: the tombs are killed one by one, then waited for.     *)
Kill ==
    /\ boot = "up"
    /\ \/ /\ killed < Len(Tombs)
          /\ killed' = killed + 1
          /\ UNCHANGED waited
       \/ /\ killed = Len(Tombs) /\ waited < Len(Tombs)
          /\ WaitReturns(Tombs[waited + 1])
          /\ waited' = waited + 1
          /\ UNCHANGED killed
    /\ UNCHANGED <<config, boot, tables, work, req>>

Next ==
    \/ Publish
    \/ NewServer
    \/ AddPath \/ UnlockPaths \/ Notified
    \/ ReadHosts \/ StoreHosts
    \/ Kill
    \/ \E w \in Workers : Die(w)
    \/ \E r \in Requests : Arrive(r) \/ FilterRequest(r) \/ MapHost(r)
                            \/ Leave(r)

Spec == Init /\ [][Next]_vars

(* Goroutines keep running and a Kill that began goes on.  A select with   *)
(* several ready branches picks at random, so a dying goroutine ends.      *)
Fairness ==
    /\ WF_vars(NewServer)
    /\ WF_vars(AddPath \/ UnlockPaths \/ Notified)
    /\ WF_vars(ReadHosts \/ StoreHosts)
    /\ WF_vars(killed > 0 /\ Kill)
    /\ SF_vars(Die("listener"))
    /\ \A w \in Workers \ {"listener"} : WF_vars(Die(w))
    /\ \A r \in Requests : WF_vars(FilterRequest(r) \/ MapHost(r) \/ Leave(r))

FairSpec == Spec /\ Fairness

-----------------------------------------------------------------------------
(* The shape of the state; the map is complete unless it is being filled.  *)
TypeOK ==
    /\ published \in Versions
    /\ ch \in [{"pci", "hosts"} -> {"none", "quiet", "full"}]
    /\ work \in [Workers -> {"unborn", "select", "busy", "dead"}]
    /\ installed \in [{"pci", "hosts"} -> 0..published]
    /\ filter.at = "idle" => paths = Sensitive[installed.pci]
    /\ waited > 0 => killed = Len(Tombs)

(* A request is refused or let through by the complete set of sensitive    *)
(* paths of one version, at least as new as the one the filter had when    *)
(* the request came, however many times the set is replaced meanwhile      *)
(* (pcifilter.go:57-77).                                                   *)
VerdictIsOfOneTable ==
    \A r \in Requests :
        req[r].at \in {"refused", "passed"}
        => \E v \in req[r].since..req[r].seen :
               req[r].at = "refused"
               <=> req[r].in.path \in Sensitive[v] /\ ~req[r].in.encrypted

(* A change of the sensitive paths that is announced to the filter is in   *)
(* force soon, also when it is announced during the load of another, and   *)
(* unless the server is told to stop (listenConfig).                       *)
FilterFollows ==
    \A v \in Versions :
        published = v /\ ch.pci = "full" ~> installed.pci >= v \/ Dying("server")

(* Requests go to the addresses the newest configuration has for their     *)
(* hosts from some time after its last change on, whenever that came; this *)
(* does not stop with the server (hostmapping.go:17-38).                   *)
AddressFollows ==
    <>[](\A r \in Requests :
            req[r].at = "mapped" => req[r].target = Map(published, req[r].in.host))

(* Kill returns when every tomb it waits for has had a goroutine, whatever *)
(* the goroutines are doing (server.go:34-41).                             *)
KillReturns == killed > 0 ~> waited = Len(Tombs)

(* Once Kill has returned, none of the goroutines it stops takes another   *)
(* step, and the sensitive paths no longer change.                         *)
StoppedMeansStopped ==
    [][waited = Len(Tombs) => UNCHANGED <<work, filter, paths>>]_vars
===============================================================================
