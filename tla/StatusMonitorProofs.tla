------------------------- MODULE StatusMonitorProofs -------------------------
(***************************************************************************)
(* Invariance proofs for StatusMonitor, for any number of instances and    *)
(* zones.                                                                  *)
(***************************************************************************)
EXTENDS StatusMonitor, TLAPS

(* The actions of Next, one disjunct per action.                           *)
LEMMA NextCases ==
    ASSUME Next
    PROVE  \/ \E i \in Instances, c \in BOOLEAN : InterpretRavenStatus(i, c)
           \/ \E i \in Instances, s \in AZStatus : InterpretAZStatus(i, s)
           \/ \E i \in Instances :
                 \/ Lock(i) \/ ReadLock(i) \/ FailoverAZ(i) \/ Unlock(i)
                 \/ RecoverAZ(i) \/ Wake(i) \/ Die(i) \/ Restart(i)
                 \/ ExpireSession(i)
           \/ ExpireOrphan
BY DEF Next, Monitor

(* A node is never taken for "no node", and the node an instance creates   *)
(* is a node once its zone is known.                                       *)
LEMMA NodeFacts ==
    /\ NoLock \notin Node
    /\ \A i \in Instances : AZName[i] \in AZs => OwnNode(i) \in Node
BY ConstantsAssumption DEF Node, OwnNode

LEMMA TypeInit == Init => TypeOK
BY ConstantsAssumption DEF Init, TypeOK, Start, Failure, NoFailure, Locations

LEMMA TypeStep == TypeOK /\ [Next]_vars => TypeOK'
<1> SUFFICES ASSUME TypeOK, [Next]_vars PROVE TypeOK'
    OBVIOUS
<1> USE DEF TypeOK, Locations, Failure, NoFailure, ConnectivityFailure,
            MonitoringFailure, Goto
<1>1. ASSUME NEW i \in Instances, NEW c \in BOOLEAN, InterpretRavenStatus(i, c)
      PROVE  TypeOK'
    BY <1>1 DEF InterpretRavenStatus, CallFailover, CallRecover
<1>2. ASSUME NEW i \in Instances, NEW s \in AZStatus, InterpretAZStatus(i, s)
      PROVE  TypeOK'
    BY <1>2 DEF InterpretAZStatus, CallFailover, CallRecover
<1>3. ASSUME NEW i \in Instances, Lock(i) PROVE TypeOK'
    BY <1>3, NodeFacts DEF Lock
<1>4. ASSUME NEW i \in Instances, ReadLock(i) PROVE TypeOK'
    BY <1>4 DEF ReadLock
<1>5. ASSUME NEW i \in Instances, FailoverAZ(i) PROVE TypeOK'
    BY <1>5 DEF FailoverAZ
<1>6. ASSUME NEW i \in Instances, Unlock(i) PROVE TypeOK'
    BY <1>6 DEF Unlock
<1>7. ASSUME NEW i \in Instances, RecoverAZ(i) PROVE TypeOK'
    BY <1>7 DEF RecoverAZ
<1>8. ASSUME NEW i \in Instances, Wake(i) PROVE TypeOK'
    BY <1>8 DEF Wake
<1>9. ASSUME NEW i \in Instances, Die(i) PROVE TypeOK'
    BY <1>9 DEF Die
<1>10. ASSUME NEW i \in Instances, Restart(i) PROVE TypeOK'
    <2>1. lock' \in Node \cup {NoLock}
        BY <1>10 DEF Restart, Node
    <2> QED
        BY <1>10, <2>1, ConstantsAssumption DEF Restart, Start
<1>11. ASSUME NEW i \in Instances, ExpireSession(i) PROVE TypeOK'
    BY <1>11 DEF ExpireSession, local
<1>12. CASE ExpireOrphan
    BY <1>12 DEF ExpireOrphan, local
<1>13. CASE UNCHANGED vars
    BY <1>13 DEF vars
<1> QED
    BY <1>1, <1>2, <1>3, <1>4, <1>5, <1>6, <1>7, <1>8, <1>9, <1>10, <1>11,
       <1>12, <1>13, NextCases

(* Every reachable state is well typed, and a monitor goroutine runs only  *)
(* on an instance that knows its zone (NewStatusMonitor, types.go:66).     *)
THEOREM TypeCorrect == Spec => []TypeOK
BY TypeInit, TypeStep, PTL DEF Spec

-----------------------------------------------------------------------------
(* HandleOwnsLock is inductive together with: who holds a handle knows its *)
(* zone, and while no session is lost every node has a living owner.       *)
LockInv ==
    /\ TypeOK
    /\ HandleOwnsLock
    /\ \A i \in Instances : lockHandle[i] => AZName[i] \in AZs
    /\ lock # NoLock => lock.owner # Orphan

LEMMA LockInvInit == Init => LockInv
BY TypeInit DEF Init, LockInv, HandleOwnsLock

LEMMA LockInvStep ==
    ASSUME ~SessionFaults, LockInv, [Next]_vars
    PROVE  LockInv'
<1>t. TypeOK /\ TypeOK'
    BY TypeStep DEF LockInv
<1> USE DEF LockInv, HandleOwnsLock
<1>1. ASSUME NEW i \in Instances, NEW c \in BOOLEAN, InterpretRavenStatus(i, c)
      PROVE  LockInv'
    BY <1>1, <1>t DEF InterpretRavenStatus, OwnNode
<1>2. ASSUME NEW i \in Instances, NEW s \in AZStatus, InterpretAZStatus(i, s)
      PROVE  LockInv'
    BY <1>2, <1>t DEF InterpretAZStatus, OwnNode
<1>3. ASSUME NEW i \in Instances, Lock(i) PROVE LockInv'
    <2>1. AZName[i] \in AZs /\ lockHandle \in [Instances -> BOOLEAN]
        BY <1>3, <1>t DEF Lock, TypeOK
    <2>2. CASE lock = NoLock /\ lock' = OwnNode(i)
        <3>1. \A j \in Instances : ~lockHandle[j]
            BY <2>2, NodeFacts
        <3>2. \A j \in Instances : lockHandle'[j] => j = i
            BY <3>1, <2>1, <1>3 DEF Lock
        <3>3. lock'.owner # Orphan
            BY <2>2, ConstantsAssumption DEF OwnNode
        <3> QED
            BY <3>2, <3>3, <2>1, <2>2, <1>t DEF OwnNode
    <2>3. CASE UNCHANGED lock
        <3>1. \A j \in Instances : lockHandle'[j] => lockHandle[j]
            BY <2>3, <2>1, <1>3, NodeFacts DEF Lock
        <3> QED
            BY <3>1, <2>3, <1>t DEF OwnNode
    <2> QED
        BY <2>2, <2>3, <1>3 DEF Lock
<1>4. ASSUME NEW i \in Instances, ReadLock(i) PROVE LockInv'
    BY <1>4, <1>t DEF ReadLock, OwnNode
<1>5. ASSUME NEW i \in Instances, FailoverAZ(i) PROVE LockInv'
    BY <1>5, <1>t DEF FailoverAZ, OwnNode
<1>6. ASSUME NEW i \in Instances, Unlock(i) PROVE LockInv'
    <2>1. lockHandle \in [Instances -> BOOLEAN]
        BY <1>t DEF TypeOK
    <2>2. \A j \in Instances : lockHandle'[j] => lockHandle[j] /\ j # i
        BY <2>1, <1>6 DEF Unlock
    <2>3. CASE lockHandle[i] /\ lock' = NoLock
        <3>1. \A j \in Instances : lockHandle[j] => j = i
            BY <2>3 DEF OwnNode
        <3> QED
            BY <3>1, <2>2, <2>3, <1>t
    <2>4. CASE UNCHANGED lock
        BY <2>2, <2>4, <1>t DEF OwnNode
    <2> QED
        BY <2>3, <2>4, <1>6 DEF Unlock
<1>7. ASSUME NEW i \in Instances, RecoverAZ(i) PROVE LockInv'
    BY <1>7, <1>t DEF RecoverAZ, OwnNode
<1>8. ASSUME NEW i \in Instances, Wake(i) PROVE LockInv'
    BY <1>8, <1>t DEF Wake, OwnNode
<1>9. ASSUME NEW i \in Instances, Die(i) \/ Restart(i) \/ ExpireSession(i)
      PROVE  LockInv'
    BY <1>9 DEF Die, Restart, ExpireSession
<1>10. CASE ExpireOrphan
    BY <1>10 DEF ExpireOrphan
<1>11. CASE UNCHANGED vars
    BY <1>11, <1>t DEF vars, OwnNode
<1> QED
    BY <1>1, <1>2, <1>3, <1>4, <1>5, <1>6, <1>7, <1>8, <1>9, <1>10, <1>11,
       NextCases

(* While no ZooKeeper session is lost, whatever calls fail or lose their   *)
(* replies and however many instances share a zone, a kept handle means    *)
(* ownership: the ownerless Delete of recoverAZ never removes another      *)
(* instance's node.                                                        *)
THEOREM HandleOwnership ==
    ASSUME ~SessionFaults
    PROVE  Spec => []HandleOwnsLock
<1>1. LockInv /\ [Next]_vars => LockInv'
    BY LockInvStep
<1>2. LockInv => HandleOwnsLock
    BY DEF LockInv
<1> QED
    BY LockInvInit, <1>1, <1>2, PTL DEF Spec

-----------------------------------------------------------------------------
(* At most one instance runs in each zone.                                 *)
OneInstancePerZone ==
    \A i, j \in Instances :
        AZName[i] = AZName[j] /\ AZName[i] \in AZs => i = j

(* FailoverUnderLock needs the ownership of handles (an unlock by another  *)
(* instance would free the zone).                                          *)
ZoneInv == LockInv /\ FailoverUnderLock

LEMMA ZoneInvInit == Init => ZoneInv
<1> SUFFICES ASSUME Init PROVE FailoverUnderLock
    BY LockInvInit DEF ZoneInv
<1> QED
    BY DEF Init, FailoverUnderLock, FailedOver, Start

LEMMA ZoneInvStep ==
    ASSUME ~SessionFaults, OneInstancePerZone, ZoneInv, [Next]_vars
    PROVE  ZoneInv'
<1>t. LockInv /\ LockInv' /\ TypeOK /\ TypeOK' /\ FailoverUnderLock
    BY LockInvStep DEF ZoneInv, LockInv
<1> SUFFICES FailoverUnderLock'
    BY <1>t DEF ZoneInv
<1> USE DEF FailoverUnderLock, FailedOver, Goto
<1>1. ASSUME NEW i \in Instances, NEW c \in BOOLEAN, InterpretRavenStatus(i, c)
      PROVE  FailoverUnderLock'
    BY <1>1, <1>t DEF InterpretRavenStatus, CallFailover, CallRecover, TypeOK
<1>2. ASSUME NEW i \in Instances, NEW s \in AZStatus, InterpretAZStatus(i, s)
      PROVE  FailoverUnderLock'
    BY <1>2, <1>t DEF InterpretAZStatus, CallFailover, CallRecover, TypeOK
<1>3. ASSUME NEW i \in Instances, Lock(i) PROVE FailoverUnderLock'
    <2>1. pc \in [Instances -> Locations] /\ AZName[i] \in AZs
        BY <1>3, <1>t DEF Lock, TypeOK
    <2>2. CASE lock = NoLock /\ lock' = OwnNode(i)
        <3>1. \A j \in Instances : ~FailedOver(j)
            BY <2>2, <1>t
        <3>2. \A j \in Instances : FailedOver(j)' => j = i
            BY <3>1, <2>1, <1>3 DEF Lock
        <3>3. lock' # NoLock /\ lock'.az = AZName[i]
            BY <2>1, <2>2, NodeFacts DEF OwnNode
        <3> QED
            BY <3>2, <3>3
    <2>3. CASE UNCHANGED lock
        <3>1. lock # NoLock \/ ZkFaults
            BY <2>1, <2>3, <1>3, NodeFacts DEF Lock
        <3>2. pc'[i] = "readLock"
            BY <2>1, <2>3, <1>3, NodeFacts DEF Lock
        <3> QED
            BY <3>2, <2>1, <2>3, <1>3, <1>t DEF Lock
    <2> QED
        BY <2>2, <2>3, <1>3 DEF Lock
<1>4. ASSUME NEW i \in Instances, ReadLock(i) PROVE FailoverUnderLock'
    BY <1>4, <1>t DEF ReadLock, TypeOK
<1>5. ASSUME NEW i \in Instances, FailoverAZ(i) PROVE FailoverUnderLock'
    BY <1>5, <1>t DEF FailoverAZ, TypeOK
<1>6. ASSUME NEW i \in Instances, Unlock(i) PROVE FailoverUnderLock'
    <2>1. pc \in [Instances -> Locations]
        BY <1>t DEF TypeOK
    <2>2. \A j \in Instances : FailedOver(j)' => FailedOver(j) /\ j # i
        BY <2>1, <1>6 DEF Unlock
    <2>3. CASE lockHandle[i]
        <3>1. lock.az = AZName[i] /\ AZName[i] \in AZs
            BY <2>3, <1>t DEF LockInv, HandleOwnsLock, OwnNode
        <3>2. \A j \in Instances : FailedOver(j) => j = i
            BY <3>1, <1>t DEF OneInstancePerZone
        <3> QED
            BY <2>2, <3>2
    <2>4. CASE ~lockHandle[i]
        BY <2>2, <2>4, <1>6, <1>t DEF Unlock
    <2> QED
        BY <2>3, <2>4
<1>7. ASSUME NEW i \in Instances, RecoverAZ(i) PROVE FailoverUnderLock'
    BY <1>7, <1>t DEF RecoverAZ, TypeOK
<1>8. ASSUME NEW i \in Instances, Wake(i) PROVE FailoverUnderLock'
    BY <1>8, <1>t DEF Wake, TypeOK
<1>9. ASSUME NEW i \in Instances, Die(i) \/ Restart(i) \/ ExpireSession(i)
      PROVE  FailoverUnderLock'
    BY <1>9 DEF Die, Restart, ExpireSession
<1>10. CASE ExpireOrphan
    BY <1>10, <1>t DEF ExpireOrphan, LockInv
<1>11. CASE UNCHANGED vars
    BY <1>11, <1>t DEF vars
<1> QED
    BY <1>1, <1>2, <1>3, <1>4, <1>5, <1>6, <1>7, <1>8, <1>9, <1>10, <1>11,
       NextCases

(* With one instance per zone and no lost session, an instance that is     *)
(* failed over or past the last test of failoverAZ always finds the node   *)
(* standing and naming its zone.                                           *)
THEOREM FailoverHoldsZone ==
    ASSUME ~SessionFaults, OneInstancePerZone
    PROVE  Spec => []FailoverUnderLock
<1>1. ZoneInv /\ [Next]_vars => ZoneInv'
    BY ZoneInvStep
<1>2. ZoneInv => FailoverUnderLock
    BY DEF ZoneInv
<1> QED
    BY ZoneInvInit, <1>1, <1>2, PTL DEF Spec

(* ... and two zones are never failed over at the same time.               *)
THEOREM SingleZoneFailover ==
    ASSUME ~SessionFaults, OneInstancePerZone
    PROVE  Spec => []OneZoneFailsOver
<1>1. FailoverUnderLock => OneZoneFailsOver
    BY DEF FailoverUnderLock, OneZoneFailsOver
<1> QED
    BY FailoverHoldsZone, <1>1, PTL

=============================================================================
