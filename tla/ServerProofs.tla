----------------------------- MODULE ServerProofs -----------------------------
(***************************************************************************)
(* Proofs about Server, for any number of configuration changes, tables,   *)
(* requests and inputs, in AWS or not.                                     *)
(***************************************************************************)
EXTENDS Server, TLAPS

(* The goroutines a tomb may have.                                         *)
LEMMA WorkerNames ==
    /\ Workers = {"listener", "ingester", "synchroniser", "subscriber", "monitor"}
    /\ TombOf["listener"] = "server"
    /\ \A w \in Workers : \E i \in 1..Len(Tombs) : TombOf[w] = Tombs[i]
    /\ Len(Tombs) = 3
<1>1. Workers = {"listener", "ingester", "synchroniser", "subscriber", "monitor"}
    BY DEF Workers, TombOf
<1>2. Len(Tombs) = 3
      /\ Tombs[1] = "server" /\ Tombs[2] = "control" /\ Tombs[3] = "monitor"
    BY DEF Tombs
<1>3. \A w \in Workers : TombOf[w] \in {"server", "control", "monitor"}
    BY <1>1 DEF TombOf
<1>4. TombOf["listener"] = "server"
    BY DEF TombOf
<1>5. 1 \in 1..3 /\ 2 \in 1..3 /\ 3 \in 1..3
    OBVIOUS
<1>6. ASSUME NEW w \in Workers PROVE \E i \in 1..3 : TombOf[w] = Tombs[i]
    <2>1. CASE TombOf[w] = "server"
        BY <2>1, <1>2, <1>5
    <2>2. CASE TombOf[w] = "control"
        BY <2>2, <1>2, <1>5
    <2>3. CASE TombOf[w] = "monitor"
        BY <2>3, <1>2, <1>5
    <2> QED
        BY <1>3, <2>1, <2>2, <2>3
<1> QED
    BY <1>1, <1>2, <1>4, <1>6

-----------------------------------------------------------------------------
(* The rest of the types.                                                  *)
Paths == {q.path : q \in Inputs}

Shape ==
    /\ filter \in [at : {"idle", "fill"}, todo : SUBSET Paths, version : Versions]
    /\ hosts \in [at : {"read", "select", "store"}, version : Versions]
    /\ killed \in 0..3
    /\ waited \in 0..3

(* While the map is filled, what it has and what is still to add make up   *)
(* the paths of the version that was read, which is no older than the one  *)
(* the filter had.                                                         *)
FillInv ==
    /\ filter.version <= published
    /\ filter.at = "fill" =>
           /\ paths \cup filter.todo = Sensitive[filter.version]
           /\ installed.pci <= filter.version
    /\ hosts.version <= published

TableInv == TypeOK /\ Shape /\ FillInv

LEMMA TableInvInit == Init => TableInv
BY ServerAssumption, WorkerNames
   DEF Init, TableInv, TypeOK, Shape, FillInv, Versions

(* loadConfig begins: the map is empty, all is to add.                     *)
LEMMA LockPathsStep ==
    ASSUME TableInv, LockPaths, UNCHANGED <<published, hosts, installed>>,
           killed' = killed, waited' = waited,
           ch' \in [{"pci", "hosts"} -> {"none", "quiet", "full"}],
           work' \in [Workers -> {"unborn", "select", "busy", "dead"}]
    PROVE  TableInv'
<1>1. published \in Versions /\ published \in Nat
      /\ Sensitive[published] \in SUBSET Paths
    BY ServerAssumption DEF TableInv, TypeOK, Versions, Paths
<1>2. filter' = [at |-> "fill", todo |-> Sensitive[published], version |-> published]
      /\ paths' = {}
    BY DEF LockPaths
<1>3. TypeOK'
    BY <1>2 DEF TableInv, TypeOK
<1>4. Shape'
    BY <1>1, <1>2 DEF TableInv, Shape
<1>5. FillInv'
    BY <1>1, <1>2 DEF TableInv, FillInv, TypeOK
<1> QED
    BY <1>3, <1>4, <1>5 DEF TableInv

LEMMA TableInvStep == TableInv /\ [Next]_vars => TableInv'
<1> SUFFICES ASSUME TableInv, [Next]_vars PROVE TableInv'
    OBVIOUS
<1> USE DEF TableInv
<1>n. published \in Nat /\ MaxVersion \in Nat
    BY ServerAssumption DEF TypeOK, Versions
<1>1. CASE Publish
    <2>1. published' = published + 1 /\ published' \in Versions
        BY <1>1, <1>n DEF Publish, Versions
    <2>2. UNCHANGED <<filter, paths, hosts, installed, work, killed, waited>>
        BY <1>1 DEF Publish, tables
    <2>3. ch' \in [{"pci", "hosts"} -> {"none", "quiet", "full"}]
        BY <1>1 DEF Publish, TypeOK
    <2>4. installed' \in [{"pci", "hosts"} -> 0..published']
        BY <1>n, <2>1, <2>2 DEF TypeOK
    <2>5. TypeOK'
        BY <2>1, <2>2, <2>3, <2>4 DEF TypeOK
    <2>6. Shape'
        BY <2>2 DEF Shape
    <2>7. FillInv'
        BY <1>n, <2>1, <2>2 DEF FillInv, Shape, Versions
    <2> QED
        BY <2>5, <2>6, <2>7
<1>2. CASE NewServer
    <2>w. ASSUME NEW next, NEW born, Start(next, born)
          PROVE  work' \in [Workers -> {"unborn", "select", "busy", "dead"}]
                 /\ UNCHANGED <<published, hosts, installed, killed, waited>>
        BY <2>w DEF Start, TypeOK
    <2>1. CASE boot = "filter" /\ LockPaths /\ Start("filling", {}) /\ UNCHANGED ch
        <3>1. ch' \in [{"pci", "hosts"} -> {"none", "quiet", "full"}]
            BY <2>1 DEF TypeOK
        <3> QED
            BY <2>1, <2>w, <3>1, LockPathsStep
    <2>2. ASSUME NEW next, NEW born, Start(next, born), UNCHANGED <<filter, paths>>,
                 ch' = ch \/ ch' = [ch EXCEPT !.pci = "quiet"]
          PROVE  TableInv'
        <3>1. ch' \in [{"pci", "hosts"} -> {"none", "quiet", "full"}]
            BY <2>2 DEF TypeOK
        <3>2. UNCHANGED <<published, hosts, installed, killed, waited>>
              /\ work' \in [Workers -> {"unborn", "select", "busy", "dead"}]
            BY <2>2, <2>w
        <3> QED
            BY <2>2, <3>1, <3>2 DEF TypeOK, Shape, FillInv
    <2> QED
        BY <1>2, <2>1, <2>2 DEF NewServer, NewPCIFilter
<1>3. CASE AddPath
    <2>1. PICK p \in filter.todo : /\ paths' = paths \cup {p}
                                   /\ filter' = [filter EXCEPT !.todo = @ \ {p}]
        BY <1>3 DEF AddPath
    <2>2. UNCHANGED <<published, ch, hosts, installed, work, killed, waited>>
          /\ filter.at = "fill"
        BY <1>3 DEF AddPath, config
    <2>3. filter'.at = "fill" /\ filter'.version = filter.version
          /\ filter'.todo = filter.todo \ {p} /\ Shape'
        BY <2>1, <2>2 DEF Shape
    <2>4. TypeOK'
        BY <2>2, <2>3 DEF TypeOK
    <2>5. FillInv'
        BY <2>1, <2>2, <2>3 DEF FillInv
    <2> QED
        BY <2>3, <2>4, <2>5
<1>4. CASE UnlockPaths
    <2>1. filter.at = "fill" /\ filter.todo = {}
          /\ filter' = [filter EXCEPT !.at = "idle"]
          /\ installed' = [installed EXCEPT !.pci = filter.version]
          /\ UNCHANGED <<published, ch, paths, hosts, killed, waited>>
        BY <1>4 DEF UnlockPaths, config
    <2>2. work' \in [Workers -> {"unborn", "select", "busy", "dead"}]
        BY <1>4, WorkerNames DEF UnlockPaths, TypeOK
    <2>3. filter'.at = "idle" /\ filter'.version = filter.version /\ Shape'
        BY <2>1 DEF Shape
    <2>4. installed' \in [{"pci", "hosts"} -> 0..published]
          /\ installed'.pci = filter.version
        BY <1>n, <2>1 DEF TypeOK, Shape, FillInv, Versions
    <2>5. paths = Sensitive[filter.version]
        BY <2>1 DEF FillInv
    <2>6. TypeOK'
        BY <2>1, <2>2, <2>3, <2>4, <2>5 DEF TypeOK
    <2>7. FillInv'
        BY <2>1, <2>3 DEF FillInv
    <2> QED
        BY <2>3, <2>6, <2>7
<1>5. CASE Notified
    <2>1. ch' \in [{"pci", "hosts"} -> {"none", "quiet", "full"}]
          /\ work' \in [Workers -> {"unborn", "select", "busy", "dead"}]
        BY <1>5, WorkerNames DEF Notified, TypeOK
    <2> QED
        BY <1>5, <2>1, LockPathsStep DEF Notified
<1>6. CASE ReadHosts
    <2>1. UNCHANGED <<published, filter, paths, installed, work, killed, waited>>
          /\ hosts' = [at |-> "store", version |-> published]
        BY <1>6 DEF ReadHosts
    <2>2. ch' \in [{"pci", "hosts"} -> {"none", "quiet", "full"}]
        BY <1>6 DEF ReadHosts, TypeOK
    <2> QED
        BY <1>n, <2>1, <2>2 DEF TypeOK, Shape, FillInv
<1>7. CASE StoreHosts
    <2>1. hosts' = [hosts EXCEPT !.at = "select"]
          /\ installed' = [installed EXCEPT !.hosts = hosts.version]
          /\ UNCHANGED <<published, ch, filter, paths, work, killed, waited>>
        BY <1>7 DEF StoreHosts, config
    <2>2. installed' \in [{"pci", "hosts"} -> 0..published]
          /\ installed'.pci = installed.pci
        BY <1>n, <2>1 DEF TypeOK, Shape, FillInv, Versions
    <2> QED
        BY <2>1, <2>2 DEF TypeOK, Shape, FillInv
<1>8. CASE Kill
    <2>1. UNCHANGED <<published, ch, filter, paths, hosts, installed, work>>
        BY <1>8 DEF Kill, config, tables
    <2>2. killed' \in 0..3 /\ waited' \in 0..3 /\ (waited' > 0 => killed' = 3)
        BY <1>8, WorkerNames DEF Kill, Shape, TypeOK
    <2> QED
        BY <2>1, <2>2, WorkerNames DEF TypeOK, Shape, FillInv
<1>9. ASSUME NEW w \in Workers, Die(w) PROVE TableInv'
    BY <1>9 DEF Die, config, tables, TypeOK, Shape, FillInv
<1>10. ASSUME NEW r \in Requests,
              Arrive(r) \/ FilterRequest(r) \/ MapHost(r) \/ Leave(r)
       PROVE  TableInv'
    <2>1. UNCHANGED <<published, ch, filter, paths, hosts, installed, work, killed,
                      waited>>
        BY <1>10 DEF Arrive, FilterRequest, Verdict, MapHost, Leave, config, tables
    <2> QED
        BY <2>1 DEF TypeOK, Shape, FillInv
<1>11. CASE UNCHANGED vars
    BY <1>11 DEF vars, config, tables, TypeOK, Shape, FillInv
<1> QED
    BY <1>1, <1>2, <1>3, <1>4, <1>5, <1>6, <1>7, <1>8, <1>9, <1>10, <1>11 DEF Next

(* Type correctness; in particular the sensitive paths are those of one    *)
(* version whenever nobody holds the write lock.                           *)
THEOREM TypeCorrect == Spec => []TypeOK
<1>1. TableInv => TypeOK
    BY DEF TableInv
<1> QED
    BY <1>1, TableInvInit, TableInvStep, PTL DEF Spec

-----------------------------------------------------------------------------
(* What a request slot may hold.                                           *)
Targets == {""} \cup UNION {{Map(v, q.host) : q \in Inputs} : v \in Versions}

Slots ==
    [at : {"away", "filter", "refused", "passed", "mapped"},
     in : Inputs \cup {{}}, since : Nat, seen : Nat, target : Targets]

(* A request that waits for its verdict came when the filter had a version *)
(* that is no newer than the one it has.                                   *)
WaitInv ==
    /\ req \in [Requests -> Slots]
    /\ \A r \in Requests :
           /\ req[r].at # "away" => req[r].in \in Inputs
           /\ req[r].at = "filter" => req[r].since <= installed.pci

VerdictInv == WaitInv /\ VerdictIsOfOneTable

LEMMA AwayType == Away \in Slots
BY DEF Away, Slots, Targets

(* The filter never goes back to an older version.                         *)
LEMMA FilterGrows ==
    TableInv /\ [Next]_vars => installed.pci <= installed'.pci
<1> SUFFICES ASSUME TableInv, [Next]_vars PROVE installed.pci <= installed'.pci
    OBVIOUS
<1>t. installed.pci \in Nat
    BY ServerAssumption DEF TableInv, TypeOK, Versions
<1>1. CASE UnlockPaths
    BY <1>1, <1>t DEF UnlockPaths, TableInv, TypeOK, FillInv, Shape, Versions
<1>2. CASE StoreHosts
    BY <1>2, <1>t DEF StoreHosts, TableInv, TypeOK
<1>3. CASE Publish \/ NewServer \/ AddPath \/ Notified \/ ReadHosts \/ Kill
    <2>1. UNCHANGED installed
        BY <1>3 DEF Publish, NewServer, NewPCIFilter, Start, AddPath, Notified,
                    ReadHosts, Kill, tables
    <2> QED
        BY <1>t, <2>1
<1>4. ASSUME NEW w \in Workers, Die(w) PROVE UNCHANGED installed
    BY <1>4 DEF Die, tables
<1>5. ASSUME NEW r \in Requests,
             Arrive(r) \/ FilterRequest(r) \/ MapHost(r) \/ Leave(r)
      PROVE  UNCHANGED installed
    BY <1>5 DEF Arrive, FilterRequest, Verdict, MapHost, Leave, tables
<1>6. CASE UNCHANGED vars
    BY <1>6, <1>t DEF vars, tables
<1> QED
    BY <1>t, <1>1, <1>2, <1>3, <1>4, <1>5, <1>6 DEF Next

LEMMA VerdictInvStep ==
    TableInv /\ VerdictInv /\ [Next]_vars => VerdictInv'
<1> SUFFICES ASSUME TableInv, VerdictInv, [Next]_vars PROVE VerdictInv'
    OBVIOUS
<1>t. installed.pci \in Nat /\ published \in Nat /\ installed.pci <= published
    BY ServerAssumption DEF TableInv, TypeOK, Versions
<1>g. installed.pci <= installed'.pci /\ installed'.pci \in Nat
    BY FilterGrows, TableInvStep, ServerAssumption DEF TableInv, TypeOK, Versions
<1>1. ASSUME UNCHANGED req PROVE VerdictInv'
    <2>1. WaitInv'
        BY <1>1, <1>g, <1>t DEF VerdictInv, WaitInv, Slots
    <2>2. VerdictIsOfOneTable'
        BY <1>1 DEF VerdictInv, VerdictIsOfOneTable
    <2> QED
        BY <2>1, <2>2 DEF VerdictInv
<1>2. ASSUME NEW r \in Requests, NEW s \in Slots, req' = [req EXCEPT ![r] = s],
             s.at # "away" => s.in \in Inputs,
             s.at = "filter" => s.since <= installed'.pci,
             s.at \in {"refused", "passed"}
             => \E v \in s.since..s.seen :
                    s.at = "refused" <=> s.in.path \in Sensitive[v] /\ ~s.in.encrypted
      PROVE  VerdictInv'
    <2>1. req' \in [Requests -> Slots]
        BY <1>2 DEF VerdictInv, WaitInv
    <2>2. \A o \in Requests : req'[o] = IF o = r THEN s ELSE req[o]
        BY <1>2 DEF VerdictInv, WaitInv
    <2>3. WaitInv'
        BY <1>2, <2>1, <2>2, <1>g, <1>t DEF VerdictInv, WaitInv, Slots
    <2>4. VerdictIsOfOneTable'
        <3> SUFFICES ASSUME NEW o \in Requests, req'[o].at \in {"refused", "passed"}
                     PROVE  \E v \in req'[o].since..req'[o].seen :
                                req'[o].at = "refused"
                                <=> req'[o].in.path \in Sensitive[v]
                                    /\ ~req'[o].in.encrypted
            BY DEF VerdictIsOfOneTable
        <3>1. CASE o = r
            BY <1>2, <2>2, <3>1
        <3>2. CASE o # r
            BY <2>2, <3>2 DEF VerdictInv, VerdictIsOfOneTable
        <3> QED
            BY <3>1, <3>2
    <2> QED
        BY <2>3, <2>4 DEF VerdictInv
<1>3. ASSUME NEW r \in Requests, Arrive(r) PROVE VerdictInv'
    <2>1. PICK q \in Inputs : req' = [req EXCEPT ![r].at = "filter", ![r].in = q,
                                                ![r].since = installed.pci]
        BY <1>3 DEF Arrive
    <2> DEFINE s == [req[r] EXCEPT !.at = "filter", !.in = q, !.since = installed.pci]
    <2>2. req' = [req EXCEPT ![r] = s]
        BY <2>1 DEF VerdictInv, WaitInv
    <2>3. s \in Slots /\ s.at = "filter" /\ s.since = installed.pci /\ s.in = q
        BY <1>t DEF VerdictInv, WaitInv, Slots
    <2> QED
        BY <1>2, <1>g, <2>2, <2>3
<1>4. ASSUME NEW r \in Requests, FilterRequest(r) PROVE VerdictInv'
    <2> DEFINE at == IF req[r].in.path \in paths /\ ~req[r].in.encrypted
                     THEN "refused" ELSE "passed"
               s == [req[r] EXCEPT !.at = at, !.seen = published]
    <2>1. req' = [req EXCEPT ![r] = s] /\ req[r].at = "filter" /\ filter.at # "fill"
        BY <1>4 DEF FilterRequest, Verdict, VerdictInv, WaitInv
    <2>2. s \in Slots /\ s.at = at /\ s.in = req[r].in /\ s.since = req[r].since
          /\ s.seen = published
        BY <1>t DEF VerdictInv, WaitInv, Slots
    <2>3. paths = Sensitive[installed.pci]
        BY <2>1 DEF TableInv, TypeOK, Shape
    <2>4. installed.pci \in s.since..s.seen
        BY <1>t, <2>1, <2>2 DEF VerdictInv, WaitInv, Slots
    <2>5. s.at = "refused" <=> s.in.path \in Sensitive[installed.pci]
                               /\ ~s.in.encrypted
        BY <2>2, <2>3
    <2>6. s.at # "filter" /\ s.in \in Inputs
        BY <2>1, <2>2 DEF VerdictInv, WaitInv
    <2> HIDE DEF s
    <2> QED
        BY <1>2, <2>1, <2>2, <2>4, <2>5, <2>6
<1>5. ASSUME NEW r \in Requests, MapHost(r) PROVE VerdictInv'
    <2> DEFINE t == Map(installed.hosts, req[r].in.host)
               s == [Away EXCEPT !.at = "mapped", !.in = req[r].in, !.target = t]
    <2>1. req' = [req EXCEPT ![r] = s] /\ req[r].at = "passed"
        BY <1>5 DEF MapHost
    <2>2. req[r].in \in Inputs
        BY <2>1 DEF VerdictInv, WaitInv
    <2>3. installed.hosts \in Versions
        BY <1>t, ServerAssumption DEF TableInv, TypeOK, Versions
    <2>4. t \in Targets
        <3> DEFINE OfVersion(v) == {Map(v, q.host) : q \in Inputs}
        <3>1. t \in OfVersion(installed.hosts)
            BY <2>2
        <3>2. OfVersion(installed.hosts) \in {OfVersion(v) : v \in Versions}
            BY <2>3
        <3> HIDE DEF t, OfVersion
        <3>3. t \in UNION {OfVersion(v) : v \in Versions}
            BY <3>1, <3>2
        <3> USE DEF OfVersion
        <3> QED
            BY <3>3, Zenon DEF Targets
    <2> HIDE DEF t
    <2>5. s \in Slots /\ s.at = "mapped" /\ s.in = req[r].in
        BY <2>2, <2>4 DEF Away, Slots
    <2> HIDE DEF s
    <2> QED
        BY <1>2, <2>1, <2>2, <2>5
<1>6. ASSUME NEW r \in Requests, Leave(r) PROVE VerdictInv'
    <2>1. req' = [req EXCEPT ![r] = Away] /\ Away.at = "away"
        BY <1>6 DEF Leave, Away
    <2> QED
        BY <1>2, <2>1, AwayType
<1>7. CASE Publish \/ NewServer \/ AddPath \/ UnlockPaths \/ Notified \/ ReadHosts
           \/ StoreHosts \/ Kill
    BY <1>1, <1>7 DEF Publish, NewServer, NewPCIFilter, Start, AddPath, UnlockPaths,
                      Notified, ReadHosts, StoreHosts, Kill
<1>8. ASSUME NEW w \in Workers, Die(w) PROVE VerdictInv'
    BY <1>1, <1>8 DEF Die
<1>9. CASE UNCHANGED vars
    BY <1>1, <1>9 DEF vars
<1> QED
    BY <1>3, <1>4, <1>5, <1>6, <1>7, <1>8, <1>9 DEF Next

(* For any tables, changes and requests: the filter decides by the         *)
(* complete table of one version, no older than when the request came.     *)
THEOREM OneTableDecides == Spec => []VerdictIsOfOneTable
<1>1. Init => VerdictInv
    <2> SUFFICES ASSUME Init PROVE VerdictInv
        OBVIOUS
    <2>1. req \in [Requests -> Slots] /\ Away.at = "away"
        BY AwayType DEF Init, Away
    <2>2. \A r \in Requests : req[r].at = "away"
        BY <2>1 DEF Init
    <2> QED
        BY <2>1, <2>2 DEF VerdictInv, WaitInv, VerdictIsOfOneTable
<1>2. VerdictInv => VerdictIsOfOneTable
    BY DEF VerdictInv
<1> QED
    BY <1>1, <1>2, TableInvInit, TableInvStep, VerdictInvStep, PTL DEF Spec

-----------------------------------------------------------------------------
(* Nothing of tomb t runs, and nothing of it will be started.              *)
Stopped(t) ==
    \A w \in Workers : TombOf[w] = t => work[w] \in {"dead", "unborn"}

(* Kill comes after NewServer; only NewPCIFilter and the listener hold the *)
(* write lock; the tombs Kill has waited for have nothing that runs.       *)
StopInv ==
    /\ killed > 0 => boot = "up"
    /\ boot \in {"control", "monitor", "filter", "filling", "subscribe"}
       => work["listener"] = "unborn"
    /\ filter.at = "fill" => boot = "filling" \/ work["listener"] = "busy"
    /\ \A i \in 1..waited : Stopped(Tombs[i])

LEMMA StopInvInit == Init => StopInv
<1> SUFFICES ASSUME Init PROVE StopInv
    OBVIOUS
<1>1. 1..waited = {}
    BY DEF Init
<1> QED
    BY <1>1, WorkerNames DEF Init, StopInv

LEMMA StopInvStep == TableInv /\ StopInv /\ [Next]_vars => StopInv'
<1> SUFFICES ASSUME TableInv, StopInv, [Next]_vars PROVE StopInv'
    OBVIOUS
<1>t. /\ filter \in [at : {"idle", "fill"}, todo : SUBSET Paths, version : Versions]
      /\ work \in [Workers -> {"unborn", "select", "busy", "dead"}]
      /\ killed \in 0..3 /\ waited \in 0..3 /\ (waited > 0 => killed = 3)
      /\ "listener" \in Workers
    BY WorkerNames DEF TableInv, TypeOK, Shape
<1>u. boot # "up" => waited = 0
    BY <1>t DEF StopInv
<1>s. ASSUME NEW w \in Workers, NEW l, work[w] \in {"select", "busy"},
             work' = [work EXCEPT ![w] = l], waited' = waited
      PROVE  \A i \in 1..waited' : Stopped(Tombs[i])'
    BY <1>s, <1>t DEF StopInv, Stopped
<1>1. CASE NewServer
    <2>1. waited' = waited /\ killed' = killed /\ boot # "up"
        BY <1>1 DEF NewServer, NewPCIFilter, Start
    <2>2. 1..waited' = {} /\ ~(killed > 0)
        BY <2>1, <1>u DEF StopInv
    <2>3. ASSUME NEW born, Start(boot', born), UNCHANGED filter,
                 boot \in {"control", "monitor", "subscribe", "throttling"},
                 boot' \in {"monitor", "filter", "throttling", "up"},
                 "listener" \in born => boot' = "throttling",
                 boot = "throttling" => boot' = "up" /\ "listener" \notin born
          PROVE  StopInv'
        <3>1. work' = [w \in Workers |-> IF w \in born THEN "select" ELSE work[w]]
            BY <2>3 DEF Start
        <3> QED
            BY <1>t, <2>1, <2>2, <2>3, <3>1 DEF StopInv
    <2>4. CASE boot = "filter"
        BY <1>1, <1>t, <2>1, <2>2, <2>4
           DEF NewServer, NewPCIFilter, Start, LockPaths, StopInv
    <2>5. CASE boot # "filter"
        BY <1>1, <2>3, <2>5 DEF NewServer, NewPCIFilter, Start
    <2> QED
        BY <2>4, <2>5
<1>2. CASE UnlockPaths
    <2>1. UNCHANGED <<waited, killed>> /\ filter'.at = "idle"
        BY <1>2, <1>t DEF UnlockPaths
    <2>2. \A i \in 1..waited' : Stopped(Tombs[i])'
        <3>1. CASE work["listener"] = "busy"
            BY <1>2, <3>1, <2>1, <1>t, <1>s DEF UnlockPaths
        <3>2. CASE work["listener"] # "busy"
            BY <1>2, <3>2, <2>1 DEF UnlockPaths, StopInv, Stopped
        <3> QED
            BY <3>1, <3>2
    <2>3. boot \in {"control", "monitor", "filter", "filling", "subscribe"}
          => UNCHANGED work
        BY <1>2 DEF UnlockPaths, StopInv
    <2> QED
        BY <1>2, <2>1, <2>2, <2>3 DEF UnlockPaths, StopInv
<1>3. CASE Notified
    <2>1. work["listener"] = "select" /\ work' = [work EXCEPT !["listener"] = "busy"]
          /\ UNCHANGED <<boot, killed, waited>>
        BY <1>3 DEF Notified
    <2>2. \A i \in 1..waited' : Stopped(Tombs[i])'
        BY <2>1, <1>t, <1>s
    <2> QED
        BY <1>t, <2>1, <2>2 DEF StopInv
<1>4. ASSUME NEW w \in Workers, Die(w) PROVE StopInv'
    <2>1. work[w] = "select" /\ work' = [work EXCEPT ![w] = "dead"]
          /\ UNCHANGED <<boot, filter, killed, waited>>
        BY <1>4 DEF Die, tables
    <2>2. \A i \in 1..waited' : Stopped(Tombs[i])'
        BY <2>1, <1>t DEF StopInv, Stopped
    <2> QED
        BY <1>t, <2>1, <2>2 DEF StopInv
<1>5. CASE Kill
    <2>1. boot = "up" /\ UNCHANGED <<boot, filter, work>>
        BY <1>5 DEF Kill, tables
    <2>2. ASSUME waited' = waited + 1, WaitReturns(Tombs[waited + 1])
          PROVE  \A i \in 1..waited' : Stopped(Tombs[i])'
        <3>1. Stopped(Tombs[waited + 1])
            BY <2>2, <1>t DEF WaitReturns, Stopped
        <3>2. ASSUME NEW i \in 1..waited' PROVE Stopped(Tombs[i])
            <4>1. i \in 1..waited \/ i = waited + 1
                BY <2>2, <1>t
            <4> QED
                BY <4>1, <3>1 DEF StopInv
        <3> QED
            BY <3>2, <2>1 DEF Stopped
    <2>3. ASSUME waited' = waited PROVE \A i \in 1..waited' : Stopped(Tombs[i])'
        BY <2>1, <2>3 DEF StopInv, Stopped
    <2>4. \A i \in 1..waited' : Stopped(Tombs[i])'
        BY <1>5, <2>2, <2>3 DEF Kill
    <2> QED
        BY <2>1, <2>4 DEF StopInv
<1>6. ASSUME UNCHANGED <<boot, work, killed, waited>>,
             filter' = filter \/ filter.at = "fill"
      PROVE  StopInv'
    BY <1>6 DEF StopInv, Stopped
<1>7. CASE Publish \/ AddPath \/ ReadHosts \/ StoreHosts
    BY <1>6, <1>7 DEF Publish, AddPath, ReadHosts, StoreHosts, tables
<1>8. ASSUME NEW r \in Requests,
             Arrive(r) \/ FilterRequest(r) \/ MapHost(r) \/ Leave(r)
      PROVE  StopInv'
    BY <1>6, <1>8 DEF Arrive, FilterRequest, Verdict, MapHost, Leave, tables
<1>9. CASE UNCHANGED vars
    BY <1>6, <1>9 DEF vars, tables
<1> QED
    BY <1>1, <1>2, <1>3, <1>4, <1>5, <1>7, <1>8, <1>9 DEF Next

(* After Kill has returned, the goroutines it stops, in whatever state     *)
(* they were when it began, take no step and the sensitive paths stay as   *)
(* they are.                                                               *)
THEOREM KillStops == Spec => StoppedMeansStopped
<1>1. TableInv /\ StopInv /\ [Next]_vars
      => [waited = Len(Tombs) => UNCHANGED <<work, filter, paths>>]_vars
    <2> SUFFICES ASSUME TableInv, StopInv, Next, waited = Len(Tombs)
                 PROVE  UNCHANGED <<work, filter, paths>>
        OBVIOUS
    <2>t. killed = 3 /\ "listener" \in Workers
        BY WorkerNames DEF TableInv, TypeOK
    <2>1. \A w \in Workers : work[w] \in {"dead", "unborn"}
        BY WorkerNames DEF StopInv, Stopped
    <2>2. boot = "up" /\ filter.at = "idle"
        BY <2>t, <2>1 DEF StopInv, TableInv, Shape
    <2>3. ~NewServer /\ ~AddPath /\ ~UnlockPaths /\ ~Notified
        BY <2>t, <2>1, <2>2 DEF NewServer, NewPCIFilter, AddPath, UnlockPaths, Notified
    <2>4. \A w \in Workers : ~Die(w)
        BY <2>1 DEF Die
    <2> QED
        BY <2>3, <2>4 DEF Next, Publish, ReadHosts, StoreHosts, Kill, Arrive,
                          FilterRequest, Verdict, MapHost, Leave, tables
<1> QED
    BY <1>1, TableInvInit, TableInvStep, StopInvInit, StopInvStep, PTL
       DEF Spec, StoppedMeansStopped

-----------------------------------------------------------------------------
(* The safety part of AddressFollows and FilterFollows.  A mappings        *)
(* goroutine that waits with nothing announced has the newest version      *)
(* installed, and the listener that loads with nothing announced since is  *)
(* loading the newest version, whatever was published while they worked    *)
(* (hostmapping.go:17-38, listenConfig).                                   *)
AnnouncedIsLoaded ==
    /\ hosts.at = "select" /\ ch.hosts = "quiet" => installed.hosts = published
    /\ work["listener"] = "busy" /\ ch.pci = "quiet" => filter.version = published

(* The mappings subscribe before they read, so a change in between is      *)
(* announced to them.                                                      *)
FollowInv ==
    /\ AnnouncedIsLoaded
    /\ ch.hosts # "none"
    /\ hosts.at = "store" /\ ch.hosts = "quiet" => hosts.version = published

LEMMA FollowInvInit == Init => FollowInv
BY WorkerNames DEF Init, FollowInv, AnnouncedIsLoaded

LEMMA FollowInvStep == TableInv /\ FollowInv /\ [Next]_vars => FollowInv'
<1> SUFFICES ASSUME TableInv, FollowInv, [Next]_vars PROVE FollowInv'
    OBVIOUS
<1>t. /\ ch \in [{"pci", "hosts"} -> {"none", "quiet", "full"}]
      /\ work \in [Workers -> {"unborn", "select", "busy", "dead"}]
      /\ DOMAIN installed = {"pci", "hosts"} /\ "listener" \in Workers
    BY WorkerNames DEF TableInv, TypeOK
<1>s. /\ filter \in [at : {"idle", "fill"}, todo : SUBSET Paths, version : Versions]
      /\ hosts \in [at : {"read", "select", "store"}, version : Versions]
    BY DEF TableInv, Shape
<1>1. CASE Publish
    <2>1. ch'.pci \in {"none", "full"} /\ ch'.hosts = "full"
        BY <1>1, <1>t DEF Publish, FollowInv
    <2> QED
        BY <2>1 DEF FollowInv, AnnouncedIsLoaded
<1>2. CASE LockPaths /\ ch'.hosts = ch.hosts /\ UNCHANGED <<published, hosts, installed>>
    <2>1. filter'.version = published
        BY <1>2 DEF LockPaths
    <2> QED
        BY <1>2, <2>1 DEF FollowInv, AnnouncedIsLoaded
<1>3. ASSUME ch'.hosts = ch.hosts, UNCHANGED <<published, hosts, filter, installed>>,
             work'["listener"] = "busy" => ch' = ch /\ work["listener"] = "busy"
      PROVE  FollowInv'
    BY <1>3 DEF FollowInv, AnnouncedIsLoaded
<1>4. CASE NewServer
    <2>1. ASSUME NEW next, NEW born, Start(next, born)
          PROVE  /\ UNCHANGED <<published, hosts, installed>>
                 /\ work'["listener"] \in {"select", work["listener"]}
        BY <2>1, <1>t DEF Start
    <2>2. CASE boot = "filter" /\ LockPaths /\ Start("filling", {}) /\ UNCHANGED ch
        BY <1>2, <2>1, <2>2
    <2>3. CASE /\ ch' = [ch EXCEPT !.pci = "quiet"]
               /\ Start("throttling", {"listener"}) /\ UNCHANGED <<filter, paths>>
        <3>1. work'["listener"] = "select" /\ ch'.hosts = ch.hosts
            BY <2>3, <1>t DEF Start
        <3> QED
            BY <1>3, <2>1, <2>3, <3>1
    <2>4. ASSUME NEW next, NEW born, Start(next, born), UNCHANGED <<ch, filter, paths>>
          PROVE  FollowInv'
        BY <1>3, <2>1, <2>4
    <2> QED
        BY <1>4, <2>2, <2>3, <2>4 DEF NewServer, NewPCIFilter
<1>5. CASE AddPath
    <2>1. PICK p \in filter.todo : filter' = [filter EXCEPT !.todo = @ \ {p}]
        BY <1>5 DEF AddPath
    <2>2. filter'.version = filter.version
        BY <2>1, <1>s
    <2>3. UNCHANGED <<published, ch, hosts, installed, work>>
        BY <1>5 DEF AddPath, config
    <2> QED
        BY <2>2, <2>3 DEF FollowInv, AnnouncedIsLoaded
<1>6. CASE UnlockPaths
    <2>1. work'["listener"] # "busy" /\ UNCHANGED <<published, ch, hosts>>
        BY <1>6, <1>t DEF UnlockPaths, config
    <2>2. installed'.hosts = installed.hosts
        BY <1>6, <1>t DEF UnlockPaths
    <2> QED
        BY <2>1, <2>2 DEF FollowInv, AnnouncedIsLoaded
<1>7. CASE Notified
    <2>1. ch'.hosts = ch.hosts
        BY <1>7, <1>t DEF Notified
    <2> QED
        BY <1>2, <1>7, <2>1 DEF Notified
<1>8. CASE ReadHosts
    <2>1. /\ hosts'.at = "store" /\ hosts'.version = published
          /\ UNCHANGED <<published, filter, installed, work>>
        BY <1>8 DEF ReadHosts
    <2>2. ch'.pci = ch.pci /\ ch'.hosts # "none"
        BY <1>8, <1>t DEF ReadHosts, FollowInv
    <2> QED
        BY <2>1, <2>2 DEF FollowInv, AnnouncedIsLoaded
<1>9. CASE StoreHosts
    <2>1. /\ hosts.at = "store" /\ hosts'.at = "select"
          /\ UNCHANGED <<published, ch, filter, work>>
        BY <1>9, <1>s DEF StoreHosts, config
    <2>2. installed'.hosts = hosts.version
        BY <1>9, <1>t DEF StoreHosts
    <2> QED
        BY <2>1, <2>2 DEF FollowInv, AnnouncedIsLoaded
<1>10. ASSUME NEW w \in Workers, Die(w) PROVE FollowInv'
    <2>1. work'["listener"] = "busy" => work["listener"] = "busy"
        BY <1>10, <1>t DEF Die
    <2> QED
        BY <1>3, <1>10, <2>1 DEF Die, config, tables
<1>11. ASSUME UNCHANGED <<config, tables, work>> PROVE FollowInv'
    BY <1>3, <1>11 DEF config, tables
<1> QED
    BY <1>1, <1>4, <1>5, <1>6, <1>7, <1>8, <1>9, <1>10, <1>11
       DEF Next, Kill, Arrive, FilterRequest, Verdict, MapHost, Leave, vars

(* No change that is announced to the host mappings or to the PCI filter   *)
(* is passed over, for any number of changes.                              *)
THEOREM NoAnnouncementLost == Spec => []AnnouncedIsLoaded
<1>1. FollowInv => AnnouncedIsLoaded
    BY DEF FollowInv
<1> QED
    BY TableInvInit, TableInvStep, FollowInvInit, FollowInvStep, <1>1, PTL DEF Spec

=============================================================================
