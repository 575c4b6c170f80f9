---------------------------- MODULE PinningProofs ----------------------------
(***************************************************************************)
(* Proofs about Pinning, for any regions, any history of configurations in *)
(* which the app has a home, and any number of restarts.                   *)
(***************************************************************************)
EXTENDS Pinning, TLAPS

(* What an answer may say, with version v loaded: the home of v.           *)
Says(v) == IF v = 0 THEN {} ELSE {[timestamp |-> v, api |-> Home[v]]}

(* Versions are numbered from 1.                                           *)
LEMMA VersionNumbers ==
    ASSUME NEW v \in 0..Len(History)
    PROVE  v # 0 <=> v \in Versions
<1>1. Versions = 1..Len(History)
    BY PinningAssumption, Zenon
<1>2. Len(History) \in Nat
    BY PinningAssumption, Zenon
<1> QED
    BY <1>1, <1>2

(* A region that has loaded nothing knows no region for any city.          *)
LEMMA NoRegion == Region(Config(0), City) = Nil
<1>1. Config(0).regions = <<>> /\ Config(0).hobRegions = <<>>
    BY DEF Config
<1>2. DOMAIN <<>> = {}
    OBVIOUS
<1>3. HomeRegion(Config(0), City) = Nil
    BY <1>1, <1>2 DEF HomeRegion, RegionAt, Find
<1> QED
    BY <1>3 DEF Region

(* pinRequestToHostname sends out the home of the version that is loaded,  *)
(* if anything, whichever region it runs in.                               *)
LEMMA PinnedSaysHome ==
    ASSUME NEW v \in 0..Len(History), NEW p \in Regions
    PROVE  ApiAnswer[v][p] \subseteq Says(v)
<1> DEFINE q == [source |-> App, host |-> p]
           h == CorrectHostname(Config(v), q, City, "")
<1>1. ApiAnswer[v][p] = Pinned(v, p)
    BY DEF ApiAnswer
<1>2. CASE v = 0
    <2>1. h.err
        BY <1>2, NoRegion DEF CorrectHostname
    <2> QED
        BY <1>1, <2>1 DEF Pinned
<1>3. CASE v # 0
    <2>1. v \in Versions /\ Config(v) = History[v] /\ History[v].version = v
        <3>1. v \in Versions
            BY <1>3, VersionNumbers
        <3>2. Config(v) = History[v]
            BY <1>3 DEF Config
        <3>3. History[v].version = v
            BY <3>1, PinningAssumption
        <3> QED
            BY <3>1, <3>2, <3>3
    <2>2. ~h.err => h.version = v /\ h.urls = Urls(Region(History[v], City), App)
        BY <2>1 DEF CorrectHostname
    <2>3. Pinned(v, p) \subseteq {[timestamp |-> h.version, api |-> h.urls["api"]]}
        BY DEF Pinned
    <2>4. Pinned(v, p) # {} => ~h.err
        BY DEF Pinned
    <2> HIDE DEF h
    <2>5. ~h.err => h.urls["api"] = Home[v]
        BY <2>1, <2>2 DEF Home
    <2> QED
        BY <1>1, <1>3, <2>2, <2>3, <2>4, <2>5 DEF Says
<1> QED
    BY <1>2, <1>3

(* ... and so does the endpoints handler.                                  *)
LEMMA EndpointsSayHome ==
    ASSUME NEW v \in 0..Len(History)
    PROVE  EndpointsAnswer[v] \subseteq Says(v)
<1>1. EndpointsAnswer[v] = Endpoints(v)
    BY DEF EndpointsAnswer
<1>2. CASE v = 0
    BY <1>1, <1>2, NoRegion DEF Endpoints
<1>3. CASE v # 0
    <2>1. v \in Versions /\ Config(v) = History[v] /\ History[v].version = v
        <3>1. v \in Versions
            BY <1>3, VersionNumbers
        <3>2. Config(v) = History[v]
            BY <1>3 DEF Config
        <3>3. History[v].version = v
            BY <3>1, PinningAssumption
        <3> QED
            BY <3>1, <3>2, <3>3
    <2>2. Endpoints(v) \subseteq
              {[timestamp |-> v, api |-> Urls(Region(History[v], City), App)["api"]]}
        BY <2>1 DEF Endpoints
    <2> QED
        BY <1>1, <1>3, <2>1, <2>2 DEF Says, Home
<1> QED
    BY <1>2, <1>3

-----------------------------------------------------------------------------
(* Every answer on its way names the home of its own timestamp, and the    *)
(* app is where its timestamp sent it.                                     *)
HomeInv ==
    /\ \A a \in answers : a.api = Home[a.timestamp]
    /\ stamp # 0 => host = Home[stamp]

RoamInv == TypeOK /\ HomeInv

(* What an answer says fits the type of answers.                           *)
LEMMA SaysType ==
    ASSUME NEW n \in {0} \cup Versions, NEW v \in 0..n
    PROVE  /\ Says(v) \subseteq [timestamp : 1..n, api : Regions]
           /\ \A a \in Says(v) : a.api = Home[a.timestamp]
<1>1. n \in 0..Len(History) /\ n \in Nat
    <2>1. Versions = 1..Len(History)
        BY PinningAssumption, Zenon
    <2>2. Len(History) \in Nat
        BY PinningAssumption, Zenon
    <2> QED
        BY <2>1, <2>2
<1>2. v \in 0..Len(History)
    BY <1>1
<1>3. v # 0 => v \in Versions
    BY <1>2, VersionNumbers
<1>4. v # 0 => Home[v] \in Regions
    BY <1>3, PinningAssumption, Zenon
<1> QED
    BY <1>1, <1>4 DEF Says

LEMMA RoamInvInit == Init => RoamInv
<1> SUFFICES ASSUME Init PROVE RoamInv
    OBVIOUS
<1>1. 1 \in Versions
    <2>1. Versions = 1..Len(History)
        BY PinningAssumption, Zenon
    <2>2. Len(History) \in Nat \ {0}
        BY PinningAssumption, Zenon
    <2> QED
        BY <2>1, <2>2
<1>2. published \in Nat
    BY DEF Init
<1> QED
    BY <1>1, <1>2 DEF Init, RoamInv, TypeOK, HomeInv

LEMMA RoamInvStep == RoamInv /\ [Next]_vars => RoamInv'
<1> SUFFICES ASSUME RoamInv, [Next]_vars PROVE RoamInv'
    OBVIOUS
<1> USE DEF RoamInv
<1>v. Versions = 1..Len(History) /\ Len(History) \in Nat
    BY PinningAssumption, Zenon
<1>n. published \in 0..Len(History) /\ published \in Nat
    BY <1>v DEF TypeOK
<1>1. CASE Publish
    <2>1. published' \in Versions /\ published' = published + 1
        BY <1>1, <1>v, <1>n DEF Publish
    <2>2. UNCHANGED <<loaded, starting, host, stamp, visited, answers>>
        BY <1>1 DEF Publish, app
    <2>3. 0..published \subseteq 0..published' /\ 1..published \subseteq 1..published'
        BY <1>n, <2>1
    <2>4. TypeOK'
        BY <2>1, <2>2, <2>3 DEF TypeOK
    <2> QED
        BY <2>2, <2>4 DEF HomeInv
<1>2. ASSUME NEW p \in Regions, LoadNewest(p) \/ FirstLoad(p) \/ Restart(p)
      PROVE  RoamInv'
    <2>1. UNCHANGED <<published, host, stamp, visited, answers>>
        BY <1>2 DEF LoadNewest, FirstLoad, Restart, app
    <2>s. starting' \subseteq Regions
        BY <1>2 DEF LoadNewest, FirstLoad, Restart, TypeOK
    <2>2. loaded' \in [Regions -> 0..published]
        <3>1. CASE LoadNewest(p)
            BY <3>1, <1>n DEF LoadNewest, TypeOK
        <3>2. CASE Restart(p)
            <4>1. PICK v \in 0..loaded[p] : loaded' = [loaded EXCEPT ![p] = v]
                BY <3>2 DEF Restart
            <4>2. v \in 0..published
                BY <1>n DEF TypeOK
            <4> QED
                BY <4>1, <4>2 DEF TypeOK
        <3>3. CASE FirstLoad(p)
            <4>1. \/ loaded' = loaded
                  \/ \E v \in 0..published : loaded' = [loaded EXCEPT ![p] = v]
                BY <3>3, <1>n DEF FirstLoad
            <4> QED
                BY <4>1 DEF TypeOK
        <3> QED
            BY <1>2, <3>1, <3>2, <3>3
    <2> QED
        BY <2>1, <2>2, <2>s DEF TypeOK, HomeInv
<1>3. ASSUME NEW p \in Regions,
             Serve(p, ApiAnswer[loaded[p]][p]) \/ Serve(p, EndpointsAnswer[loaded[p]])
      PROVE  RoamInv'
    <2>1. loaded[p] \in 0..published /\ loaded[p] \in 0..Len(History)
        BY <1>n DEF TypeOK
    <2>2. UNCHANGED <<published, loaded, starting, host, stamp, visited>>
        BY <1>3 DEF Serve, app
    <2>3. answers' \subseteq answers \cup Says(loaded[p])
        BY <1>3, <2>1, PinnedSaysHome, EndpointsSayHome DEF Serve
    <2>4. /\ Says(loaded[p]) \subseteq [timestamp : 1..published, api : Regions]
          /\ \A a \in Says(loaded[p]) : a.api = Home[a.timestamp]
        BY <2>1, SaysType DEF TypeOK
    <2> QED
        BY <2>2, <2>3, <2>4 DEF TypeOK, HomeInv
<1>4. ASSUME NEW a \in answers, Receive(a) PROVE RoamInv'
    <2>1. a.timestamp \in 1..published /\ a.api \in Regions
        BY DEF TypeOK
    <2>2. a.api = Home[a.timestamp]
        BY DEF HomeInv
    <2>3. UNCHANGED <<published, loaded, starting, answers>>
        BY <1>4 DEF Receive
    <2>4. stamp' = a.timestamp /\ host' = a.api /\ visited' = visited \cup {a.api}
        BY <1>4 DEF Receive
    <2>5. TypeOK'
        BY <1>n, <2>1, <2>3, <2>4 DEF TypeOK
    <2>6. HomeInv'
        BY <2>2, <2>3, <2>4 DEF HomeInv
    <2> QED
        BY <2>5, <2>6
<1>5. CASE Lose
    <2>1. UNCHANGED <<published, loaded, starting, host, stamp, visited>>
          /\ answers' \subseteq answers
        BY <1>5 DEF Lose, app
    <2> QED
        BY <2>1 DEF TypeOK, HomeInv
<1>6. CASE UNCHANGED vars
    BY <1>6 DEF vars, app, TypeOK, HomeInv
<1> QED
    BY <1>1, <1>2, <1>3, <1>4, <1>5, <1>6 DEF Next

(* Type correctness: a region never sends out a version that is not        *)
(* published, nor endpoints without one.                                   *)
THEOREM TypeCorrect == Spec => []TypeOK
<1>1. RoamInv => TypeOK
    BY DEF RoamInv
<1> QED
    BY <1>1, RoamInvInit, RoamInvStep, PTL DEF Spec

(* Whatever happens, what happens to the app is a move to the home of a    *)
(* later version, or nothing.                                              *)
LEMMA RoamStep == RoamInv /\ [Next]_vars => [R!Move]_<<host, stamp>>
<1> SUFFICES ASSUME RoamInv, [Next]_vars
             PROVE  R!Move \/ UNCHANGED <<host, stamp>>
    OBVIOUS
<1>1. ASSUME NEW a \in answers, Receive(a)
      PROVE  R!Move \/ UNCHANGED <<host, stamp>>
    <2>1. a.timestamp \in 1..published /\ stamp \in 0..published
          /\ published \in {0} \cup Versions
        BY DEF RoamInv, TypeOK
    <2>2. a.api = Home[a.timestamp] /\ (stamp # 0 => host = Home[stamp])
        BY DEF RoamInv, HomeInv
    <2>3. a.timestamp >= stamp /\ stamp' = a.timestamp /\ host' = a.api
        BY <1>1 DEF Receive
    <2>v. Versions = 1..Len(History) /\ Len(History) \in Nat
        BY PinningAssumption, Zenon
    <2>4. a.timestamp \in Versions /\ a.timestamp \in Nat \ {0} /\ stamp \in Nat
        BY <2>1, <2>v
    <2>5. CASE a.timestamp = stamp
        BY <2>2, <2>3, <2>4, <2>5
    <2>6. CASE a.timestamp # stamp
        <3>1. a.timestamp > stamp
            BY <2>3, <2>4, <2>6
        <3>2. a.timestamp \in DOMAIN Home
            BY <2>4 DEF Home
        <3> QED
            BY <2>2, <2>3, <3>1, <3>2 DEF R!Move
    <2> QED
        BY <2>5, <2>6
<1>2. CASE Publish \/ Lose
    BY <1>2 DEF Publish, Lose, app
<1>3. ASSUME NEW p \in Regions,
             \/ LoadNewest(p) \/ FirstLoad(p) \/ Restart(p)
             \/ Serve(p, ApiAnswer[loaded[p]][p])
             \/ Serve(p, EndpointsAnswer[loaded[p]])
      PROVE  UNCHANGED <<host, stamp>>
    BY <1>3 DEF LoadNewest, FirstLoad, Restart, Serve, app
<1>4. CASE UNCHANGED vars
    BY <1>4 DEF vars, app
<1> QED
    BY <1>1, <1>2, <1>3, <1>4 DEF Next

(* Region pinning implements Roaming: whatever versions the regions have   *)
(* loaded or restart with, and however their answers are lost, doubled or  *)
(* reordered, an app is never sent back to the home of an earlier version. *)
THEOREM ImplementsRoaming == Spec => RoamsForward
<1>1. Init => R!Init
    BY DEF Init, R!Init
<1> QED
    BY <1>1, RoamInvInit, RoamInvStep, RoamStep, PTL
       DEF Spec, RoamsForward, R!Spec
==============================================================================
