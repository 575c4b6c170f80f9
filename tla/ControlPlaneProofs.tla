-------------------------- MODULE ControlPlaneProofs --------------------------
(***************************************************************************)
(* Invariance proofs for ControlPlane, for any set of configurations and   *)
(* any number of crashes.                                                  *)
(***************************************************************************)
EXTENDS ControlPlane, TLAPS

(* A running tryLoad past its validation holds good content, and what it   *)
(* is about to move over the file is that content.                         *)
Validated == {"hash", "write", "writing", "rename", "store"}

LoadInv ==
    /\ TypeOK
    /\ \A p \in Loaders : pc[p] \in Validated => Good(got[p])
    /\ \A p \in Loaders : pc[p] = "rename" => tmp[p] = got[p]
    /\ LastGoodIsGood

LEMMA BootType ==
    /\ Boot \in [Loaders -> Locations]
    /\ Boot["new"] = "read"
    /\ \A p \in Loaders : Boot[p] \in {"read", "select"}
BY DEF Boot, Loaders, Locations

LEMMA LoadInvInit == Init => LoadInv
<1> SUFFICES ASSUME Init PROVE LoadInv
    OBVIOUS
<1>1. raw \in Contents /\ Nothing \in Contents \cup {Nothing}
    BY ControlPlaneAssumption DEF Init, Contents
<1>2. /\ got \in [Loaders -> Contents]
      /\ tmp \in [Loaders -> Contents \cup {Nothing}]
    BY <1>1 DEF Init
<1>3. crashes \in 0..MaxCrashes
    BY ControlPlaneAssumption DEF Init
<1>4. TypeOK
    BY <1>1, <1>2, <1>3, BootType DEF Init, TypeOK
<1>5. \A p \in Loaders : pc[p] \notin Validated
    BY BootType DEF Init, Validated
<1>6. LastGoodIsGood
    BY DEF Init, LastGoodIsGood
<1> QED
    BY <1>4, <1>5, <1>6 DEF LoadInv, Validated

LEMMA LoadInvStep == LoadInv /\ [Next]_vars => LoadInv'
<1> SUFFICES ASSUME LoadInv, [Next]_vars PROVE LoadInv'
    OBVIOUS
<1> USE ControlPlaneAssumption
    DEF LoadInv, TypeOK, Loaders, Locations, Contents, Validated,
        LastGoodIsGood, Goto, mem
<1>1. ASSUME NEW p \in Loaders, ReadRaw(p) PROVE LoadInv'
    BY <1>1 DEF ReadRaw
<1>2. ASSUME NEW p \in Loaders, CompareHash(p) PROVE LoadInv'
    BY <1>2 DEF CompareHash, Return
<1>3. ASSUME NEW p \in Loaders, CreateTemp(p) PROVE LoadInv'
    BY <1>3 DEF CreateTemp
<1>4. ASSUME NEW p \in Loaders, WriteTemp(p) PROVE LoadInv'
    BY <1>4 DEF WriteTemp
<1>5. ASSUME NEW p \in Loaders, Rename(p) PROVE LoadInv'
    <2>1. Good(got[p]) /\ tmp[p] = got[p] /\ got[p] \in Raw
        BY <1>5 DEF Rename, Good
    <2> QED
        BY <1>5, <2>1 DEF Rename
<1>6. ASSUME NEW p \in Loaders, Store(p) PROVE LoadInv'
    <2>1. Good(got[p]) /\ Section[got[p]] \in Sections
        BY <1>6 DEF Store, Good
    <2> QED
        BY <1>6, <2>1 DEF Store, Return
<1>7. CASE Receive
    BY <1>7 DEF Receive
<1>8. CASE Cycle
    BY <1>8 DEF Cycle
<1>9. CASE SubscriberDies
    BY <1>9 DEF SubscriberDies
<1>10. ASSUME NEW c \in Raw, Publish(c) PROVE LoadInv'
    BY <1>10 DEF Publish
<1>11. CASE Kill
    BY <1>11 DEF Kill
<1>12. CASE Restart
    <2>1. /\ raw' \in Contents
          /\ loaded' = Nothing /\ crashes' \in 0..MaxCrashes
          /\ UNCHANGED file
        BY <1>12 DEF Restart, StartFrom
    <2>2. pc' = Boot
        BY <1>12 DEF Restart
    <2>3. /\ got' \in [Loaders -> Contents]
          /\ tmp' \in [Loaders -> Contents \cup {Nothing}]
        BY <1>12 DEF Restart
    <2>4. TypeOK'
        BY <1>12, <2>1, <2>2, <2>3, BootType DEF Restart
    <2>5. \A p \in Loaders : pc'[p] \notin Validated
        BY <2>2, BootType
    <2> QED
        BY <2>1, <2>4, <2>5
<1>13. CASE UNCHANGED vars
    BY <1>13 DEF vars
<1> QED
    BY <1>1, <1>2, <1>3, <1>4, <1>5, <1>6, <1>7, <1>8, <1>9, <1>10, <1>11,
       <1>12, <1>13 DEF Next, TryLoad

(* Every reachable state is well typed: in particular only sections that   *)
(* were parsed and validated are ever loaded.                              *)
THEOREM TypeCorrect == Spec => []TypeOK
<1>1. LoadInv => TypeOK
    BY DEF LoadInv
<1> QED
    BY LoadInvInit, LoadInvStep, <1>1, PTL DEF Spec

(* The last good file is whole and valid in every state, through any       *)
(* crashes, failed writes and concurrent saves of the two loaders.         *)
THEOREM LastGoodFile == Spec => []LastGoodIsGood
<1>1. LoadInv => LastGoodIsGood
    BY DEF LoadInv
<1> QED
    BY LoadInvInit, LoadInvStep, <1>1, PTL DEF Spec

-----------------------------------------------------------------------------
(* RestartsFromLastGood: until content arrives the subscriber is idle, so  *)
(* the file New starts from stays as it is and is good.                    *)
FreshInv ==
    fresh => /\ ~notify
             /\ pc["sub"] \in {"select", "done"}
             /\ file # Nothing /\ pc["new"] = "read" => Good(raw)

RestartInv == LoadInv /\ FreshInv /\ RestartsFromLastGood

LEMMA RestartInvInit == Init => RestartInv
BY LoadInvInit DEF Init, RestartInv, FreshInv, RestartsFromLastGood, Boot, Loaders

LEMMA RestartInvStep == RestartInv /\ [Next]_vars => RestartInv'
<1> SUFFICES ASSUME RestartInv, [Next]_vars PROVE FreshInv' /\ RestartsFromLastGood'
    BY LoadInvStep DEF RestartInv
<1>t. LoadInv /\ LoadInv' /\ pc \in [Loaders -> Locations]
    BY LoadInvStep DEF RestartInv, LoadInv, TypeOK
<1> USE ControlPlaneAssumption
    DEF RestartInv, FreshInv, RestartsFromLastGood, Loaders, Goto, mem
<1>1. ASSUME NEW p \in Loaders, ReadRaw(p) PROVE FreshInv' /\ RestartsFromLastGood'
    BY <1>1, <1>t DEF ReadRaw
<1>2. ASSUME NEW p \in Loaders, CompareHash(p)
      PROVE  FreshInv' /\ RestartsFromLastGood'
    <2>1. Good(got[p]) /\ Section[got[p]] # Nothing
        BY <1>2, <1>t DEF CompareHash, LoadInv, Validated, Good
    <2> QED
        BY <1>2, <2>1, <1>t DEF CompareHash, Return
<1>3. ASSUME NEW p \in Loaders, CreateTemp(p)
      PROVE  FreshInv' /\ RestartsFromLastGood'
    BY <1>3, <1>t DEF CreateTemp
<1>4. ASSUME NEW p \in Loaders, WriteTemp(p)
      PROVE  FreshInv' /\ RestartsFromLastGood'
    BY <1>4, <1>t DEF WriteTemp
<1>5. ASSUME NEW p \in Loaders, Rename(p) PROVE FreshInv' /\ RestartsFromLastGood'
    BY <1>5, <1>t DEF Rename
<1>6. ASSUME NEW p \in Loaders, Store(p) PROVE FreshInv' /\ RestartsFromLastGood'
    <2>1. Good(got[p]) /\ Section[got[p]] # Nothing
        BY <1>6, <1>t DEF Store, LoadInv, Validated, Good
    <2> QED
        BY <1>6, <2>1, <1>t DEF Store, Return
<1>7. CASE Receive \/ Cycle \/ SubscriberDies
    BY <1>7, <1>t DEF Receive, Cycle, SubscriberDies
<1>8. ASSUME NEW c \in Raw, Publish(c) PROVE FreshInv' /\ RestartsFromLastGood'
    BY <1>8 DEF Publish
<1>9. CASE Kill
    BY <1>9 DEF Kill
<1>10. CASE Restart
    BY <1>10, <1>t DEF Restart, Boot, StartFrom, LoadInv, LastGoodIsGood
<1>11. CASE UNCHANGED vars
    BY <1>11 DEF vars
<1> QED
    BY <1>1, <1>2, <1>3, <1>4, <1>5, <1>6, <1>7, <1>8, <1>9, <1>10, <1>11
       DEF Next, TryLoad

(* A process that comes up without the config service after a good         *)
(* configuration was saved has a configuration when New returns, wherever  *)
(* the crash before it happened.                                           *)
THEOREM RestartIsConfigured == Spec => []RestartsFromLastGood
<1>1. RestartInv => RestartsFromLastGood
    BY DEF RestartInv
<1> QED
    BY RestartInvInit, RestartInvStep, <1>1, PTL DEF Spec

-----------------------------------------------------------------------------
(* QuietMeansLoaded: content that was announced is announced still, about  *)
(* to be read by the subscriber, or what the subscriber read last; and it  *)
(* waits only after what it read last was in use.                          *)
AnnouncedInv ==
    ~fresh /\ ~dying => \/ notify
                        \/ pc["sub"] \in {"cycle", "read"}
                        \/ got["sub"] = raw

InUseInv ==
    ~fresh /\ ~dying /\ ~notify /\ pc["sub"] = "select"
    => \/ loaded = Section[got["sub"]]
       \/ pc["new"] = "done" /\ loaded = Section[got["new"]]

WakeInv == TypeOK /\ AnnouncedInv /\ InUseInv

LEMMA WakeInvInit == Init => WakeInv
BY LoadInvInit DEF Init, LoadInv, WakeInv, AnnouncedInv, InUseInv

LEMMA WakeInvStep == WakeInv /\ TypeOK' /\ [Next]_vars => WakeInv'
<1> SUFFICES ASSUME WakeInv, TypeOK', [Next]_vars
             PROVE  AnnouncedInv' /\ InUseInv'
    BY DEF WakeInv
<1>t. pc \in [Loaders -> Locations] /\ got \in [Loaders -> Contents]
    BY DEF WakeInv, TypeOK
<1> USE DEF WakeInv, AnnouncedInv, InUseInv, Loaders, Goto, mem
<1>1. ASSUME NEW p \in Loaders, ReadRaw(p) PROVE AnnouncedInv' /\ InUseInv'
    BY <1>1, <1>t DEF ReadRaw
<1>2. ASSUME NEW p \in Loaders, CompareHash(p) PROVE AnnouncedInv' /\ InUseInv'
    BY <1>2, <1>t DEF CompareHash, Return
<1>3. ASSUME NEW p \in Loaders, CreateTemp(p) \/ WriteTemp(p) \/ Rename(p)
      PROVE  AnnouncedInv' /\ InUseInv'
    BY <1>3, <1>t DEF CreateTemp, WriteTemp, Rename
<1>4. ASSUME NEW p \in Loaders, Store(p) PROVE AnnouncedInv' /\ InUseInv'
    BY <1>4, <1>t DEF Store, Return
<1>5. CASE Receive \/ Cycle \/ SubscriberDies
    BY <1>5, <1>t DEF Receive, Cycle, SubscriberDies
<1>6. ASSUME NEW c \in Raw, Publish(c) PROVE AnnouncedInv' /\ InUseInv'
    BY <1>6 DEF Publish
<1>7. CASE Kill
    BY <1>7 DEF Kill
<1>8. CASE Restart
    BY <1>8 DEF Restart
<1>9. CASE UNCHANGED vars
    BY <1>9 DEF vars
<1> QED
    BY <1>1, <1>2, <1>3, <1>4, <1>5, <1>6, <1>7, <1>8, <1>9 DEF Next, TryLoad

(* However notifications and load cycles interleave, a subscriber that     *)
(* waits has loaded the newest content, unless New's own load came after.  *)
THEOREM NoWakeupLost == Spec => []QuietMeansLoaded
<1>1. WakeInv => QuietMeansLoaded
    BY DEF WakeInv, AnnouncedInv, InUseInv, QuietMeansLoaded
<1> QED
    BY TypeCorrect, WakeInvInit, WakeInvStep, <1>1, PTL DEF Spec

-----------------------------------------------------------------------------
(* The implementation of LastGood.  What a step of loader p does to        *)
(* Loading depends on where it goes.                                       *)
LEMMA LoadingStep ==
    ASSUME TypeOK, NEW p \in Loaders, NEW l, Goto(p, l),
           \A q \in Loaders \ {p} : got'[q] = got[q]
    PROVE  Loading' = [Loading EXCEPT ![p] =
                           IF l \in Validated THEN got'[p] ELSE Nothing]
<1>1. \A q \in Loaders : pc'[q] = IF q = p THEN l ELSE pc[q]
    BY DEF TypeOK, Goto
<1> QED
    BY <1>1 DEF Loading, Validated

LEMMA LastGoodInit == Init => LG!Init
BY BootType DEF Init, LG!Init, LG!Idle, Loading

LEMMA LastGoodStep == LoadInv /\ [Next]_vars => [LG!Next]_LG!vars
<1> SUFFICES ASSUME LoadInv, [Next]_vars PROVE LG!Next \/ UNCHANGED LG!vars
    OBVIOUS
<1>t. TypeOK /\ pc \in [Loaders -> Locations] /\ got \in [Loaders -> Contents]
    BY DEF LoadInv, TypeOK
<1>g. \A p \in Loaders : pc[p] \in Validated => Good(got[p]) /\ Loading[p] = got[p]
                                               /\ Loading[p] # Nothing
    BY ControlPlaneAssumption DEF LoadInv, Loading, Validated, Good
<1>n. \A p \in Loaders : pc[p] \notin Validated => Loading[p] = Nothing
    BY DEF Loading, Validated
<1>d. Loading = [p \in Loaders |-> Loading[p]]
    BY DEF Loading
<1>1. ASSUME NEW p \in Loaders, ReadRaw(p) PROVE LG!Next \/ UNCHANGED LG!vars
    <2>1. UNCHANGED <<raw, file, loaded>> /\ got' = [got EXCEPT ![p] = raw]
        BY <1>1 DEF ReadRaw, mem
    <2>2. Loading[p] = Nothing
        BY <1>1, <1>n DEF ReadRaw, Validated
    <2>3. CASE Good(raw) /\ Goto(p, "hash")
        <3>1. Loading' = [Loading EXCEPT ![p] = raw]
            BY <2>1, <2>3, <1>t, LoadingStep DEF Validated
        <3> QED
            BY <2>1, <2>2, <2>3, <3>1 DEF LG!Next, LG!Begin, Good
    <2>4. ASSUME NEW l, l \in {"done", "cycle"}, Goto(p, l)
          PROVE  UNCHANGED LG!vars
        <3>1. Loading' = [Loading EXCEPT ![p] = Nothing]
            BY <2>1, <2>4, <1>t, LoadingStep DEF Validated
        <3> QED
            BY <2>1, <2>2, <3>1, <1>d DEF LG!vars
    <2> QED
        BY <1>1, <2>3, <2>4 DEF ReadRaw
<1>2. ASSUME NEW p \in Loaders, CompareHash(p) PROVE LG!Next \/ UNCHANGED LG!vars
    <2>1. UNCHANGED <<got, raw, file, loaded>>
        BY <1>2 DEF CompareHash
    <2>2. Loading[p] = got[p] /\ Loading[p] # Nothing
        BY <1>2, <1>g DEF CompareHash, Validated
    <2>3. CASE Section[got[p]] = loaded /\ Return(p)
        <3>1. Loading' = [Loading EXCEPT ![p] = Nothing]
            BY <2>1, <2>3, <1>t, LoadingStep DEF Return, Validated
        <3> QED
            BY <2>1, <2>2, <2>3, <3>1 DEF LG!Next, LG!Finish
    <2>4. CASE Goto(p, "write")
        <3>1. Loading' = [Loading EXCEPT ![p] = got[p]]
            BY <2>1, <2>4, <1>t, LoadingStep DEF Validated
        <3> QED
            BY <2>1, <2>2, <3>1, <1>d DEF LG!vars
    <2> QED
        BY <1>2, <2>3, <2>4 DEF CompareHash
<1>3. ASSUME NEW p \in Loaders, CreateTemp(p) \/ WriteTemp(p)
      PROVE  LG!Next \/ UNCHANGED LG!vars
    <2>1. UNCHANGED <<got, raw, file, loaded>>
        BY <1>3 DEF CreateTemp, WriteTemp, mem
    <2>2. Loading[p] = got[p]
        BY <1>3, <1>g DEF CreateTemp, WriteTemp, Validated
    <2>3. PICK l \in Validated : Goto(p, l)
        BY <1>3 DEF CreateTemp, WriteTemp, Validated
    <2>4. Loading' = [Loading EXCEPT ![p] = got[p]]
        BY <2>1, <2>3, <1>t, LoadingStep
    <2> QED
        BY <2>1, <2>2, <2>4, <1>d DEF LG!vars
<1>4. ASSUME NEW p \in Loaders, Rename(p) PROVE LG!Next \/ UNCHANGED LG!vars
    <2>1. UNCHANGED <<got, raw, loaded>> /\ Goto(p, "store")
        BY <1>4 DEF Rename, mem
    <2>2. Loading[p] = got[p] /\ Loading[p] # Nothing /\ tmp[p] = got[p]
        BY <1>4, <1>g DEF Rename, Validated, LoadInv
    <2>3. Loading' = [Loading EXCEPT ![p] = got[p]]
        BY <2>1, <1>t, LoadingStep DEF Validated
    <2>4. UNCHANGED Loading
        BY <2>2, <2>3, <1>d
    <2>5. file' = Loading[p] \/ UNCHANGED file
        BY <1>4, <2>2 DEF Rename
    <2> QED
        BY <2>1, <2>2, <2>4, <2>5 DEF LG!Next, LG!Save, LG!vars
<1>5. ASSUME NEW p \in Loaders, Store(p) PROVE LG!Next \/ UNCHANGED LG!vars
    <2>1. UNCHANGED <<got, raw, file>> /\ loaded' = Section[got[p]]
        BY <1>5 DEF Store
    <2>2. Loading[p] = got[p] /\ Loading[p] # Nothing
        BY <1>5, <1>g DEF Store, Validated
    <2>3. Loading' = [Loading EXCEPT ![p] = Nothing]
        BY <1>5, <2>1, <1>t, LoadingStep DEF Store, Return, Validated
    <2> QED
        BY <2>1, <2>2, <2>3 DEF LG!Next, LG!Finish
<1>6. CASE Receive \/ Cycle \/ SubscriberDies
    <2>1. UNCHANGED <<got, raw, file, loaded>> /\ "sub" \in Loaders
        BY <1>6 DEF Receive, Cycle, SubscriberDies, mem, Loaders
    <2>2. Loading["sub"] = Nothing
        BY <1>6, <1>n DEF Receive, Cycle, SubscriberDies, Validated, Loaders
    <2>3. PICK l : l \notin Validated /\ Goto("sub", l)
        BY <1>6 DEF Receive, Cycle, SubscriberDies, Validated
    <2>4. Loading' = [Loading EXCEPT !["sub"] = Nothing]
        BY <2>1, <2>3, <1>t, LoadingStep
    <2> QED
        BY <2>1, <2>2, <2>4, <1>d DEF LG!vars
<1>7. ASSUME NEW c \in Raw, Publish(c) PROVE LG!Next \/ UNCHANGED LG!vars
    BY <1>7 DEF Publish, Loading, LG!Next, LG!Fetch
<1>8. CASE Kill
    BY <1>8 DEF Kill, Loading, LG!vars
<1>9. CASE Restart
    <2>1. Loading' = LG!Idle
        BY <1>9, BootType DEF Restart, Loading, LG!Idle
    <2> QED
        BY <1>9, <2>1 DEF Restart, StartFrom, LG!Next, LG!Restart
<1>10. CASE UNCHANGED vars
    BY <1>10 DEF vars, Loading, LG!vars
<1> QED
    BY <1>1, <1>2, <1>3, <1>4, <1>5, <1>6, <1>7, <1>8, <1>9, <1>10
       DEF Next, TryLoad

(* Loading a configuration implements LastGood: with any number of         *)
(* contents and crashes, the file and the configuration in use are only    *)
(* ever replaced by whole, valid content, in the file first.               *)
THEOREM ImplementsLastGood == Spec => ReplacedAsAWhole
BY LoadInvInit, LoadInvStep, LastGoodInit, LastGoodStep, PTL
   DEF Spec, ReplacedAsAWhole, LG!Spec

=============================================================================
