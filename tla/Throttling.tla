------------------------------ MODULE Throttling ------------------------------
(***************************************************************************)
(* The throttling decorator of handler/throttling.go and throttlesync.go.  *)
(* Three kinds of goroutine share two atomic pointers and one channel:     *)
(*   - every request (ServeHTTP) offers its bucket to ingesterChan and     *)
(*     then looks at the throttled set;                                    *)
(*   - ingesterWorker counts the offered buckets in the current buffer;    *)
(*   - synchroniser swaps the buffer on every tick, reports the old one    *)
(*     to the throttling service and installs the answer.                  *)
(*                                                                         *)
(* A count is modelled by the set of requests it counts, so that a lost or *)
(* doubled increment can be seen: the uint64 is the size of that set.      *)
(* A buffer is the memory behind bucketBuffer between two swaps.  Copies   *)
(* of the map made for one more key share the cells of the map they were   *)
(* copied from, and only ingesterWorker makes them, so the pointer it has  *)
(* loaded is stale exactly when the buffer was swapped.                    *)
(***************************************************************************)
EXTENDS Naturals, Sequences, FiniteSets

CONSTANTS
    Requests,   \* inbound requests
    Keys,       \* bucket keys
    NoKey,      \* a request without session id falls into no bucket
    Bucket,     \* buckets(r)
    QueueSize,  \* capacity of ingesterChan
    Buffers,    \* memory for buffers
    NoBuffer,   \* no buffer is held
    NoRequest   \* no request is being ingested

ASSUME ThrottlingAssumption ==
    /\ NoKey \notin Keys
    /\ Bucket \in [Requests -> Keys \cup {NoKey}]
    /\ QueueSize \in Nat
    /\ NoBuffer \notin Buffers
    /\ NoRequest \notin Requests
    /\ \A a, b \in Buffers : Buffers \ {a, b} # {}
    /\ Buffers # {}

VARIABLES
    pc,          \* where each request is
    queue,       \* ingesterChan
    buffer,      \* bucketBuffer
    dom,         \* the keys of each buffer's newest map
    cells,       \* the counts of each buffer
    throttled,   \* throttledBuckets
    ipc,         \* where ingesterWorker is
    ireq,        \* the request whose bucket it took last
    ibuf,        \* loadedP
    spc,         \* where synchroniser is
    sbuf,        \* bufP
    result,      \* tb: what it is going to install
    read,        \* the keys of each buffer reportIncrements has read
    bucketReqs,  \* ... and what it read
    reports,     \* in how many calls the service was told of each request
    dying        \* the server's tomb

ingester == <<ipc, ireq, ibuf>>
report == <<sbuf, result, read, bucketReqs, reports>>
vars == <<pc, queue, buffer, dom, cells, throttled, ipc, ireq, ibuf, spc,
          sbuf, result, read, bucketReqs, reports, dying>>

NoCounts == [k \in Keys |-> {}]

TypeOK ==
    /\ pc \in [Requests -> {"new", "check", "passed", "throttled"}]
    /\ queue \in Seq(Requests)
    /\ Len(queue) <= QueueSize
    /\ \A n \in 1..Len(queue) : Bucket[queue[n]] \in Keys
    /\ buffer \in Buffers
    /\ dom \in [Buffers -> SUBSET Keys]
    /\ cells \in [Buffers -> [Keys -> SUBSET Requests]]
    /\ throttled \in SUBSET Keys
    /\ ipc \in {"select", "load", "reload", "add", "cas", "done"}
    /\ ireq \in Requests \cup {NoRequest}
    /\ ireq # NoRequest => Bucket[ireq] \in Keys
    /\ ipc \in {"load", "reload", "add", "cas"} <=> ireq # NoRequest
    /\ ibuf \in Buffers \cup {NoBuffer}
    /\ ipc \in {"add", "cas"} <=> ibuf # NoBuffer
    /\ spc \in {"select", "report", "read", "store", "failed", "done"}
    /\ sbuf \in Buffers
    /\ result \in SUBSET Keys
    /\ read \in [Buffers -> SUBSET Keys]
    /\ bucketReqs \in [Buffers -> [Keys -> SUBSET Requests]]
    /\ reports \in [Requests -> Nat]
    /\ dying \in BOOLEAN

(* NewThrottlingHandler.                                                   *)
Init ==
    /\ pc = [r \in Requests |-> "new"]
    /\ queue = << >>
    /\ buffer = CHOOSE b \in Buffers : TRUE
    /\ dom = [b \in Buffers |-> {}]
    /\ cells = [b \in Buffers |-> NoCounts]
    /\ throttled = {}
    /\ ipc = "select"
    /\ ireq = NoRequest
    /\ ibuf = NoBuffer
    /\ spc = "select"
    /\ sbuf = buffer
    /\ result = {}
    /\ read = [b \in Buffers |-> {}]
    /\ bucketReqs = [b \in Buffers |-> NoCounts]
    /\ reports = [r \in Requests |-> 0]
    /\ dying = FALSE

-----------------------------------------------------------------------------
(* Requests.  Definitions whose name starts with Bug are wrong on purpose: *)
(* each one is a slip the definition after it could have, and breaks a     *)
(* property below.                                                         *)

\* The channel is taken for unbounded.
BugEnqueueUnbounded(r) ==
    /\ pc[r] = "new"
    /\ pc' = [pc EXCEPT ![r] = "check"]
    /\ queue' = IF Bucket[r] = NoKey THEN queue ELSE Append(queue, r)
    /\ UNCHANGED <<buffer, dom, cells, throttled, ingester, spc, report, dying>>

\* The send has no default branch.
BugEnqueueBlocks(r) ==
    /\ pc[r] = "new"
    /\ Bucket[r] = NoKey \/ Len(queue) < QueueSize
    /\ pc' = [pc EXCEPT ![r] = "check"]
    /\ queue' = IF Bucket[r] = NoKey THEN queue ELSE Append(queue, r)
    /\ UNCHANGED <<buffer, dom, cells, throttled, ingester, spc, report, dying>>

(* ServeHTTP, first half: offer the bucket; a full channel drops it.       *)
Enqueue(r) ==
    /\ pc[r] = "new"
    /\ pc' = [pc EXCEPT ![r] = "check"]
    /\ \/ /\ Bucket[r] \in Keys
          /\ Len(queue) < QueueSize
          /\ queue' = Append(queue, r)
       \/ /\ Bucket[r] = NoKey \/ Len(queue) >= QueueSize
          /\ UNCHANGED queue
    /\ UNCHANGED <<buffer, dom, cells, throttled, ingester, spc, report, dying>>

(* ServeHTTP, second half: anyThrottled decides between a 429 and the next *)
(* handler.                                                                *)
AnyThrottled(r) ==
    /\ pc[r] = "check"
    /\ pc' = [pc EXCEPT ![r] = IF Bucket[r] \in throttled
                                  THEN "throttled" ELSE "passed"]
    /\ UNCHANGED <<queue, buffer, dom, cells, throttled, ingester, spc,
                   report, dying>>

-----------------------------------------------------------------------------
(* ingesterWorker.                                                         *)

Receive ==
    /\ ipc = "select"
    /\ queue # << >>
    /\ ireq' = Head(queue)
    /\ queue' = Tail(queue)
    /\ ipc' = "load"
    /\ UNCHANGED <<pc, buffer, dom, cells, throttled, ibuf, spc, report, dying>>

\* The key is not looked up before it is inserted.
BugLoad ==
    /\ ipc \in {"load", "reload"}
    /\ ibuf' = buffer
    /\ ipc' = "cas"
    /\ UNCHANGED <<pc, queue, buffer, dom, cells, throttled, ireq, spc,
                   report, dying>>

(* LoadPointer and the lookup of the key; a retry does not look again.     *)
Load ==
    /\ ipc \in {"load", "reload"}
    /\ ibuf' = buffer
    /\ ipc' = IF ipc = "load" /\ Bucket[ireq] \in dom[buffer]
                 THEN "add" ELSE "cas"
    /\ UNCHANGED <<pc, queue, buffer, dom, cells, throttled, ireq, spc,
                   report, dying>>

\* Everything waiting for the same key is added to the loaded cell.
BugAddBatch ==
    LET waiting == {r \in Requests :
                       /\ Bucket[r] = Bucket[ireq]
                       /\ \E n \in 1..Len(queue) : queue[n] = r}
    IN /\ ipc = "add"
       /\ cells' = [cells EXCEPT ![ibuf][Bucket[ireq]] = @ \cup {ireq} \cup waiting]
       /\ queue' = SelectSeq(queue, LAMBDA r : r \notin waiting)
       /\ ipc' = "select"
       /\ ibuf' = NoBuffer
       /\ ireq' = NoRequest
       /\ UNCHANGED <<pc, buffer, dom, throttled, spc, report, dying>>

(* AddUint64 on the cell found, which may belong to a swapped buffer.      *)
Add ==
    /\ ipc = "add"
    /\ cells' = [cells EXCEPT ![ibuf][Bucket[ireq]] = @ \cup {ireq}]
    /\ ipc' = "select"
    /\ ibuf' = NoBuffer
    /\ ireq' = NoRequest
    /\ UNCHANGED <<pc, queue, buffer, dom, throttled, spc, report, dying>>

\* A plain store instead of the compare-and-swap.
BugStoreCopy ==
    /\ ipc = "cas"
    /\ buffer' = ibuf
    /\ dom' = [dom EXCEPT ![ibuf] = @ \cup {Bucket[ireq]}]
    /\ cells' = [cells EXCEPT ![ibuf][Bucket[ireq]] = {ireq}]
    /\ ipc' = "select"
    /\ ibuf' = NoBuffer
    /\ ireq' = NoRequest
    /\ UNCHANGED <<pc, queue, throttled, spc, report, dying>>

(* The copy with the new key goes in if the buffer is still the loaded one *)
AddKey ==
    /\ ipc = "cas"
    /\ buffer = ibuf
    /\ dom' = [dom EXCEPT ![buffer] = @ \cup {Bucket[ireq]}]
    /\ cells' = [cells EXCEPT ![buffer][Bucket[ireq]] = {ireq}]
    /\ ipc' = "select"
    /\ ibuf' = NoBuffer
    /\ ireq' = NoRequest
    /\ UNCHANGED <<pc, queue, buffer, throttled, spc, report, dying>>

\* A contended compare-and-swap is given up.
BugContendedGivesUp ==
    /\ ipc = "cas"
    /\ buffer # ibuf
    /\ ipc' = "select"
    /\ ibuf' = NoBuffer
    /\ ireq' = NoRequest
    /\ UNCHANGED <<pc, queue, buffer, dom, cells, throttled, spc,
                   report, dying>>

(* ... and is built again otherwise.                                       *)
Contended ==
    /\ ipc = "cas"
    /\ buffer # ibuf
    /\ ipc' = "reload"
    /\ ibuf' = NoBuffer
    /\ UNCHANGED <<pc, queue, buffer, dom, cells, throttled, ireq, spc,
                   report, dying>>

IngesterDies ==
    /\ ipc = "select"
    /\ dying
    /\ ipc' = "done"
    /\ UNCHANGED <<pc, queue, buffer, dom, cells, throttled, ireq, ibuf, spc,
                   report, dying>>

Ingester == Receive \/ Load \/ Add \/ AddKey \/ Contended

-----------------------------------------------------------------------------
(* synchroniser.                                                           *)

(* Memory that nobody uses; which does not matter.                         *)
NewBuffer == CHOOSE b \in Buffers : b \notin {buffer, ibuf}

(* A tick: SwapPointer with a new, empty buffer.                           *)
Swap ==
    /\ spc = "select"
    /\ buffer' = NewBuffer
    /\ dom' = [dom EXCEPT ![NewBuffer] = {}]
    /\ cells' = [cells EXCEPT ![NewBuffer] = NoCounts]
    /\ read' = [read EXCEPT ![NewBuffer] = {}]
    /\ bucketReqs' = [bucketReqs EXCEPT ![NewBuffer] = NoCounts]
    /\ sbuf' = buffer
    /\ spc' = "report"
    /\ UNCHANGED <<pc, queue, throttled, ingester, result, reports, dying>>

(* reportIncrements looks at its switch: off, it returns an empty set.     *)
ReportSwitch ==
    /\ spc = "report"
    /\ \/ spc' = "read" /\ UNCHANGED result
       \/ spc' = "store" /\ result' = {}
    /\ UNCHANGED <<pc, queue, buffer, dom, cells, throttled, ingester, sbuf,
                   read, bucketReqs, reports, dying>>

(* One LoadUint64 of its loop over the map.                                *)
ReadCell(k) ==
    /\ spc = "read"
    /\ k \in dom[sbuf] \ read[sbuf]
    /\ read' = [read EXCEPT ![sbuf] = @ \cup {k}]
    /\ bucketReqs' = [bucketReqs EXCEPT ![sbuf][k] = cells[sbuf][k]]
    /\ UNCHANGED <<pc, queue, buffer, dom, cells, throttled, ingester, spc,
                   sbuf, result, reports, dying>>

(* The service (external) is told of what is in the request.  One call of  *)
(* the platform's client counts as one report, whatever the client then    *)
(* does to deliver it (no number of retries is set).                       *)
Delivered ==
    reports' = [r \in Requests |->
                   IF \E k \in Keys : r \in bucketReqs[sbuf][k]
                      THEN reports[r] + 1 ELSE reports[r]]

(* The call of the service once every cell is read: it names the buckets   *)
(* to throttle ...                                                         *)
CheckinOK ==
    /\ spc = "read"
    /\ read[sbuf] = dom[sbuf]
    /\ spc' = "store"
    /\ Delivered
    /\ result' \in SUBSET Keys
    /\ UNCHANGED <<pc, queue, buffer, dom, cells, throttled, ingester, sbuf,
                   read, bucketReqs, dying>>

(* ... or fails, which leaves open whether the service was told.           *)
CheckinFails ==
    /\ spc = "read"
    /\ read[sbuf] = dom[sbuf]
    /\ spc' = "failed"
    /\ Delivered \/ UNCHANGED reports
    /\ UNCHANGED <<pc, queue, buffer, dom, cells, throttled, ingester, sbuf,
                   result, read, bucketReqs, dying>>

\* A failed report leaves the throttled set as it was.
BugStoreKeeps ==
    /\ spc \in {"store", "failed"}
    /\ throttled' = IF spc = "failed" THEN throttled ELSE result
    /\ result' = {}
    /\ spc' = "select"
    /\ UNCHANGED <<pc, queue, buffer, dom, cells, ingester, sbuf, read,
                   bucketReqs, reports, dying>>

(* StorePointer of the answer, or of an empty set after a failure.         *)
Store ==
    /\ spc \in {"store", "failed"}
    /\ throttled' = IF spc = "failed" THEN {} ELSE result
    /\ result' = {}
    /\ spc' = "select"
    /\ UNCHANGED <<pc, queue, buffer, dom, cells, ingester, sbuf, read,
                   bucketReqs, reports, dying>>

\* The tomb is not looked at.
BugSynchroniserImmortal == FALSE /\ UNCHANGED vars

SynchroniserDies ==
    /\ spc = "select"
    /\ dying
    /\ spc' = "done"
    /\ UNCHANGED <<pc, queue, buffer, dom, cells, throttled, ingester,
                   report, dying>>

Synchroniser ==
    \/ Swap
    \/ ReportSwitch
    \/ \E k \in Keys : ReadCell(k)
    \/ CheckinOK
    \/ CheckinFails
    \/ Store

-----------------------------------------------------------------------------
(* The server is killed.                                                   *)
Kill ==
    /\ ~dying
    /\ dying' = TRUE
    /\ UNCHANGED <<pc, queue, buffer, dom, cells, throttled, ingester, spc,
                   report>>

Next ==
    \/ \E r \in Requests : Enqueue(r) \/ AnyThrottled(r)
    \/ Ingester
    \/ IngesterDies
    \/ Synchroniser
    \/ SynchroniserDies
    \/ Kill

Spec == Init /\ [][Next]_vars

(* Goroutines keep running, ticks keep coming and calls of the service     *)
(* return.  A select with two ready branches picks at random, so the tomb  *)
(* is noticed in the end, and ticks are seconds apart while a retried      *)
(* compare-and-swap takes microseconds, so it succeeds in the end.         *)
Fairness ==
    /\ \A r \in Requests : WF_vars(AnyThrottled(r))
    /\ WF_vars(Ingester)
    /\ SF_vars(AddKey)
    /\ SF_vars(IngesterDies)
    /\ WF_vars(Synchroniser)
    /\ SF_vars(SynchroniserDies)

FairSpec == Spec /\ Fairness /\ \A r \in Requests : WF_vars(Enqueue(r))

-----------------------------------------------------------------------------
(* Properties.                                                             *)

(* No request is reported twice: a buffer that went to the throttling      *)
(* service never comes back, whatever the compare-and-swap of              *)
(* ingesterWorker (throttling.go:91) races with, and a cell is read once.  *)
ReportedOnce == \A r \in Requests : reports[r] <= 1

Queued(r) == \E n \in 1..Len(queue) : queue[n] = r

InCell(r) == \E b \in Buffers, k \in Keys : r \in cells[b][k]

Unoffered == {r \in Requests : pc[r] = "new"}
Accepted == {r \in Requests : Queued(r) \/ r = ireq}
Counted == {r \in Requests : InCell(r)}

T == INSTANCE Tally WITH fresh <- Unoffered, waiting <- Accepted,
                         counted <- Counted

(* The service hears of each request once at most, and of none whose offer *)
(* the full channel refused; an accepted one stays in the channel or in    *)
(* hand until it is counted, and no insertion of a key, retried under a    *)
(* swap or not, wipes out a count (ingesterWorker, throttling.go:74-99).   *)
TalliesOnce == T!Spec

(* The requests counted in a cell of b after reportIncrements read it.     *)
Lost(b) == {r \in Requests : \E k \in read[b] :
                                 r \in cells[b][k] \ bucketReqs[b][k]}

(* throttling.go:60-62: of all requests that were counted in a buffer, the *)
(* swap and the report of it miss a single one, however long ingesterWorker*)
(* is held up between its load and its increment and however the reading   *)
(* of the cells interleaves with it.                                       *)
AtMostOneLost == \A b \in Buffers : \A r, s \in Lost(b) : r = s

(* Throttling never holds up a request: it is answered or passed on with a *)
(* full channel, a dead ingester and a hanging synchroniser.               *)
RequestsNeverBlock ==
    \A r \in Requests : <>(pc[r] \in {"passed", "throttled"})

(* An accepted request is counted in the end, through any number of swaps  *)
(* that contend with it, as long as the server lives.                      *)
EventuallyCounted ==
    \A r \in Requests :
        Queued(r) ~> \/ dying
                     \/ \E b \in Buffers, k \in Keys : r \in cells[b][k]

(* Failing open (throttling.go:138): when from some time on every report   *)
(* fails, is switched off or is answered with no bucket, a live server     *)
(* stops throttling everybody.                                             *)
FailsOpen ==
    /\ []~dying
    /\ <>[](spc = "store" => result = {})
    => <>[](throttled = {})

(* Both workers end after the server is killed.                            *)
WorkersStop == dying ~> ipc = "done" /\ spc = "done"

=============================================================================
