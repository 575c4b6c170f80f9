---------------------------- MODULE StatusMonitor ----------------------------
(***************************************************************************)
(* The availability-zone monitor of statusmonitor/: every API instance     *)
(* runs one monitor goroutine that polls RabbitMQ ("raven") and the        *)
(* monitoring service, and marks its own instance unhealthy so that the    *)
(* load balancer takes it out of the pool.  All instances of all zones     *)
(* coordinate through one ephemeral ZooKeeper node that names the zone     *)
(* that is allowed to be failed over.                                      *)
(*                                                                         *)
(* One step is one ZooKeeper call, one remote check, or the field          *)
(* assignments between two of them, so that the steps of different         *)
(* instances interleave exactly where the code lets them.  LastChanged is  *)
(* display only and is left out.                                           *)
(***************************************************************************)
CONSTANTS
    Instances,     \* API processes
    AZs,           \* names of availability zones
    Undefined,     \* AZName of an instance outside AWS ("undefined")
    AZName,        \* the zone each instance runs in
    Orphan,        \* owner of a node whose process was restarted
    NoLock,        \* the lock node does not exist
    ZkFaults,      \* TRUE: a ZooKeeper call may fail or lose its reply
    SessionFaults  \* TRUE: sessions expire, processes restart or are killed

ASSUME ConstantsAssumption ==
    /\ Undefined \notin AZs
    /\ AZName \in [Instances -> AZs \cup {Undefined}]
    /\ Orphan \notin Instances
    /\ NoLock \notin [az : AZs, owner : Instances \cup {Orphan}]
    /\ ZkFaults \in BOOLEAN
    /\ SessionFaults \in BOOLEAN

VARIABLES
    isHealthy,    \* IsHealthy: what /v2/az/status answers
    failureType,  \* FailureType
    lockHandle,   \* TRUE when lockHandle is not the empty string
    pc,           \* where the monitor goroutine is
    failure,      \* the argument of the running failoverAZ call
    ret,          \* where the running recoverAZ call returns to
    lock          \* the ZooKeeper node lockPath

local == <<isHealthy, failureType, lockHandle, pc, failure, ret>>
vars == <<isHealthy, failureType, lockHandle, pc, failure, ret, lock>>

NoFailure == "NoFailure"
ConnectivityFailure == "ConnectivityFailure"
MonitoringFailure == "MonitoringFailure"
Failure == {NoFailure, ConnectivityFailure, MonitoringFailure}

Locations == {"poll", "checkAZ", "lock", "readLock", "fail", "unlock",
              "recover", "sleep", "off"}

AZStatus == {"healthy", "unhealthy", "error"}

Node == [az : AZs, owner : Instances \cup {Orphan}]

TypeOK ==
    /\ isHealthy \in [Instances -> BOOLEAN]
    /\ failureType \in [Instances -> Failure]
    /\ lockHandle \in [Instances -> BOOLEAN]
    /\ pc \in [Instances -> Locations]
    /\ failure \in [Instances -> Failure]
    /\ ret \in [Instances -> {"checkAZ", "sleep"}]
    /\ lock \in Node \cup {NoLock}
    /\ \A i \in Instances : pc[i] # "off" => AZName[i] \in AZs

-----------------------------------------------------------------------------
(* Definitions whose name starts with Bug are wrong on purpose: each one   *)
(* is a slip that the definition after it could have, and breaks a         *)
(* property below.                                                         *)

BugStartAlways(i) == "poll"

(* NewStatusMonitor: the monitor starts only where the zone is known.      *)
Start(i) == IF AZName[i] = Undefined THEN "off" ELSE "poll"

Init ==
    /\ isHealthy = [i \in Instances |-> TRUE]
    /\ failureType = [i \in Instances |-> NoFailure]
    /\ lockHandle = [i \in Instances |-> FALSE]
    /\ pc = [i \in Instances |-> Start(i)]
    /\ failure = [i \in Instances |-> NoFailure]
    /\ ret = [i \in Instances |-> "sleep"]
    /\ lock = NoLock

Goto(i, l) == pc' = [pc EXCEPT ![i] = l]

(* failoverAZ(f) and recoverAZ() are entered; a failover returns to the    *)
(* end of the loop body, a recovery to l.                                  *)
CallFailover(i, f) ==
    /\ Goto(i, "lock")
    /\ failure' = [failure EXCEPT ![i] = f]
    /\ UNCHANGED ret

CallRecover(i, l) ==
    /\ Goto(i, "unlock")
    /\ ret' = [ret EXCEPT ![i] = l]
    /\ UNCHANGED failure

(* interpretRavenStatus of what raven.IsConnected() answered; the          *)
(* monitoring service is asked only when raven is connected.               *)
InterpretRavenStatus(i, isConnected) ==
    /\ pc[i] = "poll"
    /\ \/ /\ ~isConnected
          /\ CallFailover(i, ConnectivityFailure)
       \/ /\ isConnected
          /\ ~isHealthy[i]
          /\ failureType[i] = ConnectivityFailure
          /\ CallRecover(i, "checkAZ")
       \/ /\ isConnected
          /\ isHealthy[i] \/ failureType[i] # ConnectivityFailure
          /\ Goto(i, "checkAZ")
          /\ UNCHANGED <<failure, ret>>
    /\ UNCHANGED <<isHealthy, failureType, lockHandle, lock>>

(* checkAZStatus and interpretAZStatus of its answer; an error leaves      *)
(* everything as it is.                                                    *)
InterpretAZStatus(i, status) ==
    /\ pc[i] = "checkAZ"
    /\ \/ /\ status = "unhealthy" /\ isHealthy[i]
          /\ CallFailover(i, MonitoringFailure)
       \/ /\ status = "healthy" /\ ~isHealthy[i]
          /\ CallRecover(i, "sleep")
       \/ /\ \/ status = "error"
             \/ status = "healthy" /\ isHealthy[i]
             \/ status = "unhealthy" /\ ~isHealthy[i]
          /\ Goto(i, "sleep")
          /\ UNCHANGED <<failure, ret>>
    /\ UNCHANGED <<isHealthy, failureType, lockHandle, lock>>

-----------------------------------------------------------------------------
OwnNode(i) == [az |-> AZName[i], owner |-> i]

\* The error of Create is not looked at.
BugLockIgnoresError(i) ==
    /\ pc[i] = "lock"
    /\ lockHandle' = [lockHandle EXCEPT ![i] = TRUE]
    /\ lock' = IF lock = NoLock THEN OwnNode(i) ELSE lock
    /\ Goto(i, IF lock = NoLock THEN "fail" ELSE "readLock")
    /\ UNCHANGED <<isHealthy, failureType, failure, ret>>

\* A Create that fails, or seems to, ends the fail-over.
BugLockGivesUp(i) ==
    /\ pc[i] = "lock"
    /\ lock' = IF lock = NoLock THEN OwnNode(i) ELSE lock
    /\ \/ /\ lock = NoLock
          /\ lockHandle' = [lockHandle EXCEPT ![i] = TRUE]
          /\ Goto(i, "fail")
       \/ /\ lock # NoLock \/ ZkFaults
          /\ lockHandle' = [lockHandle EXCEPT ![i] = FALSE]
          /\ Goto(i, "sleep")
    /\ UNCHANGED <<isHealthy, failureType, failure, ret>>

(* failoverAZ, first half: lockHandle, err = lock(AZName).  Every failing  *)
(* Create hands back the empty handle, also when the node is the caller's  *)
(* own from an earlier round; a lost reply creates the node all the same.  *)
Lock(i) ==
    /\ pc[i] = "lock"
    /\ \/ /\ lock = NoLock
          /\ lock' = OwnNode(i)
          /\ lockHandle' = [lockHandle EXCEPT ![i] = TRUE]
          /\ Goto(i, "fail")
       \/ /\ \/ (lock # NoLock \/ ZkFaults) /\ UNCHANGED lock
             \/ ZkFaults /\ lock = NoLock /\ lock' = OwnNode(i)
          /\ lockHandle' = [lockHandle EXCEPT ![i] = FALSE]
          /\ Goto(i, "readLock")
    /\ UNCHANGED <<isHealthy, failureType, failure, ret>>

\* The zones are not compared.
BugReadLockAnyZone(i) ==
    /\ pc[i] = "readLock"
    /\ Goto(i, IF lock # NoLock THEN "fail" ELSE "sleep")
    /\ UNCHANGED <<isHealthy, failureType, lockHandle, failure, ret, lock>>

(* failoverAZ after a failed lock: go on only if the node names our zone.  *)
ReadLock(i) ==
    /\ pc[i] = "readLock"
    /\ \/ /\ lock # NoLock
          /\ lock.az = AZName[i]
          /\ Goto(i, "fail")
       \/ /\ \/ lock = NoLock \/ ZkFaults
             \/ lock # NoLock /\ lock.az # AZName[i]
          /\ Goto(i, "sleep")
    /\ UNCHANGED <<isHealthy, failureType, lockHandle, failure, ret, lock>>

(* failoverAZ, last part: the fields.                                      *)
FailoverAZ(i) ==
    /\ pc[i] = "fail"
    /\ isHealthy' = [isHealthy EXCEPT ![i] = FALSE]
    /\ failureType' = [failureType EXCEPT ![i] = failure[i]]
    /\ Goto(i, "sleep")
    /\ UNCHANGED <<lockHandle, failure, ret, lock>>

\* Only the holder of the lock recovers.
BugUnlockHolderOnly(i) ==
    /\ pc[i] = "unlock"
    /\ lock' = IF lockHandle[i] THEN NoLock ELSE lock
    /\ lockHandle' = [lockHandle EXCEPT ![i] = FALSE]
    /\ Goto(i, IF lockHandle[i] THEN "recover" ELSE ret[i])
    /\ UNCHANGED <<isHealthy, failureType, failure, ret>>

(* recoverAZ, first part: unlock(lockHandle) when there is a handle.  The  *)
(* Delete names the path and version 0, which any node there has, whoever  *)
(* created it; its error is ignored.                                       *)
Unlock(i) ==
    /\ pc[i] = "unlock"
    /\ \/ /\ lockHandle[i]
          /\ lock' = NoLock
       \/ /\ ~lockHandle[i] \/ ZkFaults
          /\ UNCHANGED lock
    /\ lockHandle' = [lockHandle EXCEPT ![i] = FALSE]
    /\ Goto(i, "recover")
    /\ UNCHANGED <<isHealthy, failureType, failure, ret>>

(* recoverAZ, last part: the fields.                                       *)
RecoverAZ(i) ==
    /\ pc[i] = "recover"
    /\ isHealthy' = [isHealthy EXCEPT ![i] = TRUE]
    /\ failureType' = [failureType EXCEPT ![i] = NoFailure]
    /\ Goto(i, ret[i])
    /\ UNCHANGED <<lockHandle, failure, ret, lock>>

(* The end of the loop body: time.After(retryDelay) fires.                 *)
Wake(i) ==
    /\ pc[i] = "sleep"
    /\ Goto(i, "poll")
    /\ UNCHANGED <<isHealthy, failureType, lockHandle, failure, ret, lock>>

(* The end of the loop body: the tomb is dying and the goroutine returns.  *)
Die(i) ==
    /\ SessionFaults
    /\ pc[i] = "sleep"
    /\ Goto(i, "off")
    /\ UNCHANGED <<isHealthy, failureType, lockHandle, failure, ret, lock>>

Monitor(i) ==
    \/ \E isConnected \in BOOLEAN : InterpretRavenStatus(i, isConnected)
    \/ \E status \in AZStatus : InterpretAZStatus(i, status)
    \/ Lock(i)
    \/ ReadLock(i)
    \/ FailoverAZ(i)
    \/ Unlock(i)
    \/ RecoverAZ(i)
    \/ Wake(i)

-----------------------------------------------------------------------------
(* The surroundings.                                                       *)

(* A process crashes and starts again: a fresh monitor, a fresh session;   *)
(* its old node stays until the old session times out.                     *)
Restart(i) ==
    /\ SessionFaults
    /\ isHealthy' = [isHealthy EXCEPT ![i] = TRUE]
    /\ failureType' = [failureType EXCEPT ![i] = NoFailure]
    /\ lockHandle' = [lockHandle EXCEPT ![i] = FALSE]
    /\ pc' = [pc EXCEPT ![i] = Start(i)]
    /\ failure' = [failure EXCEPT ![i] = NoFailure]
    /\ ret' = [ret EXCEPT ![i] = "sleep"]
    /\ lock' = IF lock # NoLock /\ lock.owner = i
                  THEN [lock EXCEPT !.owner = Orphan]
                  ELSE lock

(* ZooKeeper drops the ephemeral node of an expired session.               *)
ExpireSession(i) ==
    /\ SessionFaults
    /\ lock # NoLock
    /\ lock.owner = i
    /\ lock' = NoLock
    /\ UNCHANGED local

ExpireOrphan ==
    /\ lock # NoLock
    /\ lock.owner = Orphan
    /\ lock' = NoLock
    /\ UNCHANGED local

Next ==
    \/ \E i \in Instances :
          \/ Monitor(i)
          \/ Die(i)
          \/ Restart(i)
          \/ ExpireSession(i)
    \/ ExpireOrphan

Spec == Init /\ [][Next]_vars

(* A started goroutine keeps being scheduled and its five-second timer     *)
(* fires; ZooKeeper times out the sessions of dead processes.              *)
Fairness ==
    /\ \A i \in Instances : WF_vars(Monitor(i))
    /\ WF_vars(ExpireOrphan)

FairSpec == Spec /\ Fairness

-----------------------------------------------------------------------------
(* Properties.                                                             *)

(* While no session is lost, an instance that kept the handle of a Create  *)
(* is the owner of the node, so the Delete of recoverAZ (zk.go:21), which  *)
(* names no owner, can only remove the caller's own node: no interleaving  *)
(* of failing and recovering instances lets one of them free a zone that   *)
(* another instance has locked.                                            *)
HandleOwnsLock == \A i \in Instances : lockHandle[i] => lock = OwnNode(i)

(* Failed over, or past the last test of failoverAZ, and not yet giving    *)
(* the zone back.                                                          *)
FailedOver(i) == \/ pc[i] = "fail"
                 \/ ~isHealthy[i] /\ pc[i] # "recover"

(* With one instance per zone and no lost session the node does its job:   *)
(* whoever is failed over, or about to be, finds the node naming its own   *)
(* zone, whatever calls to ZooKeeper fail or lose their reply.             *)
FailoverUnderLock ==
    \A i \in Instances :
        FailedOver(i) => lock # NoLock /\ lock.az = AZName[i]

(* ... and therefore instances of two zones are never failed over          *)
(* together (the abort at types.go:145 and the order of recoverAZ).        *)
OneZoneFailsOver ==
    \A i, j \in Instances :
        FailedOver(i) /\ FailedOver(j) => AZName[i] = AZName[j]

(* What types.go:161 asks for, "Make sure the lock is removed on           *)
(* recovery": when recoverAZ has made an instance healthy again, no node   *)
(* of that instance is left in ZooKeeper.                                  *)
RecoveryRemovesLock ==
    [][\A i \in Instances :
          RecoverAZ(i) => lock' = NoLock \/ lock'.owner # i]_vars

(* From some time on, nothing i hears is bad news.                         *)
EventuallyWell(i) ==
    /\ <>[](pc[i] # "off")
    /\ <>[][/\ ~InterpretRavenStatus(i, FALSE)
            /\ ~InterpretAZStatus(i, "unhealthy")
            /\ ~isHealthy[i] => ~InterpretAZStatus(i, "error")]_vars

(* The fail-over never sticks: once RabbitMQ is reachable and the          *)
(* monitoring service calls the zone healthy for good, every instance      *)
(* whose monitor still runs goes back to the pool and stays there, through *)
(* lost sessions, restarts and failing ZooKeeper calls.                    *)
RecoversWhenWell ==
    \A i \in Instances : EventuallyWell(i) => <>[]isHealthy[i]

(* From some time on, ZooKeeper does what i asks and i is not restarted.   *)
EventuallyServed(i) ==
    <>[][/\ ~Restart(i)
         /\ Lock(i) /\ lock = NoLock => lockHandle'[i]
         /\ ReadLock(i) /\ lock # NoLock /\ lock.az = AZName[i]
                => pc'[i] = "fail"]_vars

(* An instance that lost RabbitMQ for good leaves the pool for good once   *)
(* ZooKeeper answers it, unless the node stands for another zone or keeps  *)
(* changing hands (each failoverAZ call then may meet a node that is gone  *)
(* when it is read).                                                       *)
DisconnectedLeavesPool ==
    \A i \in Instances :
        /\ <>[](pc[i] # "off")
        /\ <>[][~InterpretRavenStatus(i, TRUE)]_vars
        /\ EventuallyServed(i)
        /\ <>[][FALSE]_lock
        => \/ <>[]~isHealthy[i]
           \/ <>[](lock # NoLock /\ lock.az # AZName[i])

=============================================================================
