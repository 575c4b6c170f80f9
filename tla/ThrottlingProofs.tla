--------------------------- MODULE ThrottlingProofs ---------------------------
(***************************************************************************)
(* Invariance proofs for Throttling, for any number of requests, buckets   *)
(* and buffers and any capacity of the channel.                            *)
(***************************************************************************)
EXTENDS Throttling, SequenceTheorems, TLAPS

(* The memory a swap takes is memory, and neither the current buffer nor   *)
(* the one ingesterWorker holds.                                           *)
LEMMA NewBufferIsFree ==
    ASSUME buffer \in Buffers, ibuf \in Buffers \cup {NoBuffer}
    PROVE  NewBuffer \in Buffers /\ NewBuffer # buffer /\ NewBuffer # ibuf
<1>1. \E b \in Buffers : b \notin {buffer, ibuf}
    <2>1. CASE ibuf \in Buffers
        BY <2>1, ThrottlingAssumption
    <2>2. CASE ibuf = NoBuffer
        BY <2>2, ThrottlingAssumption
    <2> QED
        BY <2>1, <2>2
<1> QED
    BY <1>1 DEF NewBuffer

LEMMA TypeInit == Init => TypeOK
<1> SUFFICES ASSUME Init PROVE TypeOK
    OBVIOUS
<1>1. buffer \in Buffers
    BY ThrottlingAssumption DEF Init
<1>2. queue = << >> /\ Len(queue) = 0 /\ queue \in Seq(Requests)
    BY DEF Init
<1>3. /\ Len(queue) <= QueueSize
      /\ \A n \in 1..Len(queue) : Bucket[queue[n]] \in Keys
    BY <1>2, ThrottlingAssumption
<1>4. /\ pc \in [Requests -> {"new", "check", "passed", "throttled"}]
      /\ reports \in [Requests -> Nat]
    BY DEF Init
<1>5. /\ dom \in [Buffers -> SUBSET Keys]
      /\ read \in [Buffers -> SUBSET Keys]
      /\ cells \in [Buffers -> [Keys -> SUBSET Requests]]
      /\ bucketReqs \in [Buffers -> [Keys -> SUBSET Requests]]
    BY DEF Init, NoCounts
<1>6. /\ ipc = "select" /\ ireq = NoRequest /\ ibuf = NoBuffer
      /\ spc = "select" /\ sbuf = buffer /\ result = {} /\ throttled = {}
      /\ dying = FALSE
    BY DEF Init
<1> QED
    BY <1>1, <1>2, <1>3, <1>4, <1>5, <1>6 DEF TypeOK

(* What sending to and receiving from the channel do to it.                *)
LEMMA SendFacts ==
    ASSUME NEW q \in Seq(Requests), NEW r \in Requests
    PROVE  /\ Append(q, r) \in Seq(Requests)
           /\ Len(q) \in Nat /\ Len(Append(q, r)) = Len(q) + 1
           /\ \A n \in 1..Len(Append(q, r)) : n = Len(q) + 1 \/ n \in 1..Len(q)
           /\ \A n \in 1..Len(q) : Append(q, r)[n] = q[n]
           /\ Append(q, r)[Len(q) + 1] = r
<1>1. Len(q) \in Nat
    BY LenProperties
<1>2. /\ Append(q, r) \in Seq(Requests)
      /\ Len(Append(q, r)) = Len(q) + 1
      /\ \A n \in 1..Len(q) : Append(q, r)[n] = q[n]
      /\ Append(q, r)[Len(q) + 1] = r
    BY AppendProperties
<1>3. \A n \in 1..Len(Append(q, r)) : n = Len(q) + 1 \/ n \in 1..Len(q)
    BY <1>1, <1>2
<1> QED
    BY <1>1, <1>2, <1>3

LEMMA ReceiveFacts ==
    ASSUME NEW q \in Seq(Requests), q # << >>
    PROVE  /\ Head(q) = q[1] /\ Head(q) \in Requests
           /\ Tail(q) \in Seq(Requests)
           /\ Len(q) \in Nat \ {0} /\ Len(Tail(q)) = Len(q) - 1
           /\ \A n \in 1..Len(Tail(q)) :
                 Tail(q)[n] = q[n + 1] /\ n + 1 \in 1..Len(q)
<1>1. Head(q) = q[1]
    OBVIOUS
<1>2. Len(q) \in Nat \ {0}
    BY EmptySeq
<1>3. /\ Head(q) \in Requests /\ Tail(q) \in Seq(Requests)
      /\ Len(Tail(q)) = Len(q) - 1
      /\ \A n \in 1..Len(Tail(q)) : Tail(q)[n] = q[n + 1]
    BY HeadTailProperties
<1>4. \A n \in 1..Len(Tail(q)) : n + 1 \in 1..Len(q)
    BY <1>2, <1>3
<1> QED
    BY <1>1, <1>2, <1>3, <1>4

LEMMA DeliveredType ==
    ASSUME TypeOK, Delivered
    PROVE  reports' \in [Requests -> Nat]
<1> DEFINE told(r) == \E k \in Keys : r \in bucketReqs[sbuf][k]
<1>1. reports' = [r \in Requests |-> IF told(r) THEN reports[r] + 1 ELSE reports[r]]
    BY DEF Delivered
<1> HIDE DEF told
<1> QED
    BY <1>1 DEF TypeOK

LEMMA TypeStep == TypeOK /\ [Next]_vars => TypeOK'
<1> SUFFICES ASSUME TypeOK, [Next]_vars PROVE TypeOK'
    OBVIOUS
<1> USE ThrottlingAssumption DEF TypeOK, ingester, report, NoCounts
<1>1. ASSUME NEW r \in Requests, Enqueue(r) PROVE TypeOK'
    <2>1. CASE UNCHANGED queue
        BY <1>1, <2>1 DEF Enqueue
    <2>2. CASE Bucket[r] \in Keys /\ Len(queue) < QueueSize /\ queue' = Append(queue, r)
        <3>1. queue' \in Seq(Requests) /\ Len(queue') = Len(queue) + 1
            BY <2>2, SendFacts
        <3>2. \A n \in 1..Len(queue') : Bucket[queue'[n]] \in Keys
            <4> SUFFICES ASSUME NEW n \in 1..Len(queue')
                         PROVE  Bucket[queue'[n]] \in Keys
                OBVIOUS
            <4>1. CASE n = Len(queue) + 1
                BY <4>1, <2>2, SendFacts
            <4>2. CASE n \in 1..Len(queue)
                BY <4>2, <2>2, SendFacts
            <4> QED
                BY <4>1, <4>2, <2>2, SendFacts
        <3>3. Len(queue') <= QueueSize
            BY <2>2, <3>1
        <3>4. pc' \in [Requests -> {"new", "check", "passed", "throttled"}]
            BY <1>1 DEF Enqueue
        <3> QED
            BY <1>1, <3>1, <3>2, <3>3, <3>4 DEF Enqueue
    <2> QED
        BY <1>1, <2>1, <2>2 DEF Enqueue
<1>2. ASSUME NEW r \in Requests, AnyThrottled(r) PROVE TypeOK'
    BY <1>2 DEF AnyThrottled
<1>3. CASE Receive
    <2>1. /\ queue' \in Seq(Requests) /\ Len(queue') = Len(queue) - 1
          /\ Len(queue) \in Nat \ {0} /\ 1 \in 1..Len(queue)
        BY <1>3, ReceiveFacts DEF Receive
    <2>2. \A n \in 1..Len(queue') : queue'[n] = queue[n + 1] /\ n + 1 \in 1..Len(queue)
        BY <1>3, ReceiveFacts DEF Receive
    <2>3. ireq' = queue[1] /\ ireq' \in Requests
        BY <1>3, ReceiveFacts DEF Receive
    <2>4. Bucket[ireq'] \in Keys
        BY <2>1, <2>3
    <2>5. \A n \in 1..Len(queue') : Bucket[queue'[n]] \in Keys
        BY <2>2
    <2>6. Len(queue') <= QueueSize
        BY <2>1
    <2> QED
        BY <1>3, <2>1, <2>3, <2>4, <2>5, <2>6 DEF Receive
<1>4. CASE Load
    BY <1>4 DEF Load
<1>5. CASE Add
    <2>0. /\ ibuf \in Buffers /\ Bucket[ireq] \in Keys /\ ireq \in Requests
          /\ cells \in [Buffers -> [Keys -> SUBSET Requests]] /\ dom' = dom
          /\ cells' = [cells EXCEPT ![ibuf][Bucket[ireq]] = @ \cup {ireq}]
        BY <1>5 DEF Add
    <2>1. /\ cells' \in [Buffers -> [Keys -> SUBSET Requests]]
          /\ dom' \in [Buffers -> SUBSET Keys]
        <3> HIDE ThrottlingAssumption DEF TypeOK, NoCounts
        <3>1. dom' \in [Buffers -> SUBSET Keys]
            BY <2>0 DEF TypeOK
        <3> QED
            BY <3>1, <2>0
    <2> QED
        BY <1>5, <2>1 DEF Add
<1>6. CASE AddKey
    <2>1. /\ cells' \in [Buffers -> [Keys -> SUBSET Requests]]
          /\ dom' \in [Buffers -> SUBSET Keys]
        BY <1>6 DEF AddKey
    <2> QED
        BY <1>6, <2>1 DEF AddKey
<1>7. CASE Contended
    BY <1>7 DEF Contended
<1>8. CASE IngesterDies
    BY <1>8 DEF IngesterDies
<1>9. CASE Swap
    BY <1>9, NewBufferIsFree DEF Swap
<1>10. CASE ReportSwitch
    BY <1>10 DEF ReportSwitch
<1>11. ASSUME NEW k \in Keys, ReadCell(k) PROVE TypeOK'
    BY <1>11 DEF ReadCell
<1>12. CASE CheckinOK
    BY <1>12, DeliveredType DEF CheckinOK
<1>13. CASE CheckinFails
    BY <1>13, DeliveredType DEF CheckinFails
<1>14. CASE Store
    BY <1>14 DEF Store
<1>15. CASE SynchroniserDies
    BY <1>15 DEF SynchroniserDies
<1>16. CASE Kill
    BY <1>16 DEF Kill
<1>17. CASE UNCHANGED vars
    BY <1>17 DEF vars
<1> QED
    BY <1>1, <1>2, <1>3, <1>4, <1>5, <1>6, <1>7, <1>8, <1>9, <1>10, <1>11,
       <1>12, <1>13, <1>14, <1>15, <1>16, <1>17
       DEF Next, Ingester, Synchroniser

(* Every reachable state is well typed, and the channel never holds more   *)
(* than its capacity.                                                      *)
THEOREM TypeCorrect == Spec => []TypeOK
BY TypeInit, TypeStep, PTL DEF Spec

-----------------------------------------------------------------------------
(* What the swap guarantees: the current buffer has not been read, and the *)
(* buffer being reported is not the current one.                           *)
SwapInv ==
    /\ TypeOK
    /\ read[buffer] = {}
    /\ bucketReqs[buffer] = NoCounts
    /\ spc \in {"report", "read", "store", "failed"} => sbuf # buffer

LEMMA SwapInvInit == Init => SwapInv
BY TypeInit DEF Init, SwapInv, TypeOK

LEMMA SwapInvStep == SwapInv /\ [Next]_vars => SwapInv'
<1> SUFFICES ASSUME SwapInv, [Next]_vars PROVE SwapInv'
    OBVIOUS
<1>t. TypeOK /\ TypeOK'
    BY TypeStep DEF SwapInv
<1>1. CASE Swap
    <2>1. NewBuffer \in Buffers /\ NewBuffer # buffer
        BY <1>t, NewBufferIsFree DEF TypeOK
    <2>2. /\ buffer' = NewBuffer /\ sbuf' = buffer
          /\ read'[NewBuffer] = {} /\ bucketReqs'[NewBuffer] = NoCounts
        BY <1>1, <1>t, <2>1 DEF Swap, TypeOK
    <2> QED
        BY <2>1, <2>2, <1>t DEF SwapInv, NoCounts
<1>2. ASSUME NEW k \in Keys, ReadCell(k) PROVE SwapInv'
    <2>1. sbuf # buffer /\ sbuf \in Buffers /\ buffer \in Buffers
        BY <1>2, <1>t DEF ReadCell, SwapInv, TypeOK
    <2>2. read'[buffer] = read[buffer] /\ bucketReqs'[buffer] = bucketReqs[buffer]
        BY <1>2, <1>t, <2>1 DEF ReadCell, TypeOK
    <2>3. UNCHANGED <<buffer, sbuf, spc>>
        BY <1>2 DEF ReadCell
    <2> QED
        BY <2>1, <2>2, <2>3, <1>t DEF SwapInv, NoCounts
<1>3. ASSUME UNCHANGED <<buffer, sbuf, read, bucketReqs>>,
             \/ UNCHANGED spc
             \/ spc \in {"report", "read", "store", "failed"}
             \/ spc' = "done"
      PROVE  SwapInv'
    BY <1>3, <1>t DEF SwapInv, NoCounts
<1> QED
    BY <1>1, <1>2, <1>3 DEF Next, Ingester, Synchroniser, Enqueue,
       AnyThrottled, Receive, Load, Add, AddKey, Contended, IngesterDies,
       ReportSwitch, CheckinOK, CheckinFails, Store, SynchroniserDies, Kill,
       vars, ingester, report

-----------------------------------------------------------------------------
(* AtMostOneLost: while ingesterWorker is between its load and its         *)
(* increment, the buffer it holds has lost nothing yet.                    *)
LostInv ==
    /\ SwapInv
    /\ AtMostOneLost
    /\ ipc \in {"add", "cas"} => Lost(ibuf) = {}

LEMMA LostInvInit == Init => LostInv
BY SwapInvInit DEF Init, LostInv, AtMostOneLost, Lost, SwapInv, TypeOK

LEMMA LostInvStep == LostInv /\ [Next]_vars => LostInv'
<1> SUFFICES ASSUME LostInv, [Next]_vars PROVE LostInv'
    OBVIOUS
<1>t. SwapInv /\ SwapInv' /\ TypeOK /\ TypeOK' /\ AtMostOneLost
    BY SwapInvStep DEF LostInv, SwapInv
<1>c. Lost(buffer) = {}
    BY <1>t DEF Lost, SwapInv
<1>1. CASE Load
    <2>1. \A b \in Buffers : Lost(b)' = Lost(b)
        BY <1>1 DEF Load, Lost, report
    <2> QED
        BY <2>1, <1>1, <1>c, <1>t DEF Load, LostInv, AtMostOneLost, TypeOK
<1>2. CASE Add
    <2>1. ibuf \in Buffers /\ ireq \in Requests /\ Bucket[ireq] \in Keys
        BY <1>2, <1>t DEF Add, TypeOK
    <2>2. \A b \in Buffers, k \in Keys :
              /\ cells'[b][k] \subseteq cells[b][k] \cup {ireq}
              /\ b # ibuf => cells'[b][k] = cells[b][k]
        BY <1>2, <1>t, <2>1 DEF Add, TypeOK
    <2>3. UNCHANGED <<read, bucketReqs>> /\ ipc' = "select"
        BY <1>2 DEF Add, report
    <2>4. \A b \in Buffers : read[b] \subseteq Keys
        BY <1>t DEF TypeOK
    <2>5. \A b \in Buffers : b # ibuf => Lost(b)' = Lost(b)
        BY <2>2, <2>3, <2>4 DEF Lost
    <2>6. Lost(ibuf) = {}
        BY <1>2 DEF Add, LostInv
    <2>7. \A b \in Buffers : b = ibuf => \A r \in Lost(b)' : r = ireq
        <3> SUFFICES ASSUME NEW b \in Buffers, b = ibuf, NEW r \in Requests,
                            NEW k \in read[b], r \in cells'[b][k],
                            r \notin bucketReqs[b][k]
                     PROVE  r = ireq
            BY <2>3 DEF Lost
        <3>1. r \notin cells[b][k]
            BY <2>6 DEF Lost
        <3>2. k \in Keys
            BY <2>4
        <3> QED
            BY <3>1, <3>2, <2>2
    <2>8. \A b \in Buffers : \A r, s \in Lost(b)' : r = s
        BY <2>5, <2>7, <1>t DEF AtMostOneLost
    <2>9. AtMostOneLost'
        BY <2>8 DEF AtMostOneLost
    <2> QED
        BY <2>9, <2>3, <1>t DEF LostInv
<1>3. CASE AddKey
    <2>1. buffer \in Buffers /\ read[buffer] = {} /\ UNCHANGED <<read, bucketReqs>>
        BY <1>3, <1>t DEF AddKey, SwapInv, TypeOK, report
    <2>2. \A b \in Buffers : b # buffer => cells'[b] = cells[b]
        BY <1>3, <1>t DEF AddKey, TypeOK
    <2>3. \A b \in Buffers : Lost(b)' \subseteq Lost(b)
        BY <2>1, <2>2 DEF Lost
    <2> QED
        BY <2>3, <1>3, <1>t DEF AddKey, LostInv, AtMostOneLost
<1>4. CASE Swap
    <2>1. \A b \in Buffers : Lost(b)' \subseteq Lost(b)
        BY <1>4, <1>t, NewBufferIsFree DEF Swap, Lost, TypeOK
    <2> QED
        BY <2>1, <1>4, <1>t DEF Swap, ingester, LostInv, AtMostOneLost, TypeOK
<1>5. ASSUME NEW k \in Keys, ReadCell(k) PROVE LostInv'
    <2>1. /\ sbuf \in Buffers /\ UNCHANGED <<cells, ipc, ibuf>>
          /\ read \in [Buffers -> SUBSET Keys]
        BY <1>5, <1>t DEF ReadCell, TypeOK, ingester
    <2>2. \A b \in Buffers, l \in Keys :
              \/ l \in read'[b] => l \in read[b] /\ bucketReqs'[b][l] = bucketReqs[b][l]
              \/ bucketReqs'[b][l] = cells[b][l]
        BY <1>5, <1>t DEF ReadCell, TypeOK
    <2>3. \A b \in Buffers : read'[b] \subseteq Keys
        BY <1>t DEF TypeOK
    <2>4. \A b \in Buffers : Lost(b)' \subseteq Lost(b)
        BY <2>1, <2>2, <2>3 DEF Lost
    <2> QED
        BY <2>1, <2>4, <1>t DEF LostInv, AtMostOneLost, TypeOK
<1>6. ASSUME UNCHANGED <<cells, read, bucketReqs>>,
             UNCHANGED <<ipc, ibuf>> \/ ipc' \notin {"add", "cas"}
      PROVE  LostInv'
    <2>1. \A b : Lost(b)' = Lost(b)
        BY <1>6 DEF Lost
    <2> QED
        BY <2>1, <1>6, <1>t DEF LostInv, AtMostOneLost
<1> QED
    BY <1>1, <1>2, <1>3, <1>4, <1>5, <1>6 DEF Next, Ingester, Synchroniser,
       Enqueue, AnyThrottled, Receive, Contended, IngesterDies, ReportSwitch,
       CheckinOK, CheckinFails, Store, SynchroniserDies, Kill, vars,
       ingester, report

(* The race between ingesterWorker and synchroniser costs one increment    *)
(* per swapped buffer and no more, for any traffic.                        *)
THEOREM SingleIncrementLost == Spec => []AtMostOneLost
<1>1. LostInv => AtMostOneLost
    BY DEF LostInv
<1> QED
    BY LostInvInit, LostInvStep, <1>1, PTL DEF Spec

-----------------------------------------------------------------------------
(* ReportedOnce: follow a request through the channel, the hands of        *)
(* ingesterWorker and one cell of one buffer.  Until its cell is reported  *)
(* the service has not heard of it, and a reported buffer never becomes    *)
(* current again.                                                          *)
Unseen(r) == ~InCell(r) /\ reports[r] = 0

(* The buffers that are still going to be reported.                        *)
Pending(b) == b = buffer \/ (b = sbuf /\ spc \in {"report", "read"})

QueueInv ==
    /\ \A m, n \in 1..Len(queue) : queue[m] = queue[n] => m = n
    /\ \A r \in Requests :
          /\ pc[r] = "new" => Unseen(r) /\ ~Queued(r) /\ r # ireq
          /\ Queued(r) => Unseen(r) /\ r # ireq
    /\ ireq # NoRequest => Unseen(ireq)

CellInv ==
    /\ \A b, c \in Buffers, k, l \in Keys, r \in Requests :
          r \in cells[b][k] /\ r \in cells[c][l] => b = c /\ k = l
    /\ \A b \in Buffers, k \in Keys, r \in Requests :
          Pending(b) /\ r \in cells[b][k] => reports[r] = 0
    /\ \A b \in Buffers, k \in Keys : bucketReqs[b][k] \subseteq cells[b][k]

ReportInv == SwapInv /\ QueueInv /\ CellInv /\ ReportedOnce

LEMMA ReportInvInit == Init => ReportInv
<1> SUFFICES ASSUME Init PROVE ReportInv
    OBVIOUS
<1>1. SwapInv /\ TypeOK
    BY SwapInvInit, TypeInit
<1>2. \A b \in Buffers, k \in Keys : cells[b][k] = {} /\ bucketReqs[b][k] = {}
    BY DEF Init, NoCounts
<1>3. \A r \in Requests : Unseen(r) /\ ~Queued(r) /\ r # ireq
    <2>1. \A r \in Requests : reports[r] = 0 /\ r # ireq
        BY ThrottlingAssumption DEF Init
    <2>2. Len(queue) = 0
        BY DEF Init
    <2> QED
        BY <1>2, <2>1, <2>2 DEF Unseen, InCell, Queued
<1>4. QueueInv
    BY <1>3 DEF Init, QueueInv
<1>5. CellInv
    BY <1>2 DEF CellInv
<1>6. ReportedOnce
    BY DEF Init, ReportedOnce
<1> QED
    BY <1>1, <1>4, <1>5, <1>6 DEF ReportInv

(* Putting the request in hand into a cell of a buffer.                    *)
LEMMA CountStep ==
    ASSUME ReportInv, TypeOK', ireq # NoRequest, ireq' = NoRequest,
           NEW d \in Buffers,
           \A b \in Buffers, k \in Keys :
              IF b = d /\ k = Bucket[ireq]
                 THEN /\ ireq \in cells'[b][k]
                      /\ cells'[b][k] \subseteq cells[b][k] \cup {ireq}
                      /\ bucketReqs[b][k] \subseteq cells'[b][k]
                 ELSE cells'[b][k] = cells[b][k],
           UNCHANGED <<pc, queue, buffer, spc, sbuf, bucketReqs, reports>>
    PROVE  QueueInv' /\ CellInv' /\ ReportedOnce'
<1>t. TypeOK /\ ireq \in Requests /\ Unseen(ireq) /\ reports[ireq] = 0
    BY DEF ReportInv, SwapInv, TypeOK, QueueInv, Unseen
<1>1. \A b \in Buffers, k \in Keys, r \in Requests :
          r \in cells'[b][k] => \/ r \in cells[b][k]
                                \/ r = ireq /\ b = d /\ k = Bucket[ireq]
    OBVIOUS
<1>2. \A b \in Buffers, k \in Keys : ireq \notin cells[b][k]
    BY <1>t DEF Unseen, InCell
<1>3. \A r \in Requests : Unseen(r) /\ r # ireq => Unseen(r)'
    BY <1>1 DEF Unseen, InCell
<1>4. \A r \in Requests : Queued(r)' = Queued(r)
    BY DEF Queued
<1>5. QueueInv'
    <2>1. QueueInv /\ queue' = queue /\ pc' = pc
        BY DEF ReportInv
    <2>2. \A m, n \in 1..Len(queue') : queue'[m] = queue'[n] => m = n
        BY <2>1 DEF QueueInv
    <2>3. \A r \in Requests :
              (pc[r] = "new" \/ Queued(r)) => Unseen(r) /\ r # ireq /\ r # NoRequest
        BY <2>1, ThrottlingAssumption DEF QueueInv
    <2>4. \A r \in Requests : pc[r] = "new" => ~Queued(r)
        BY <2>1 DEF QueueInv
    <2> QED
        BY <2>1, <2>2, <2>3, <2>4, <1>3, <1>4 DEF QueueInv
<1>6. CellInv'
    BY <1>1, <1>2, <1>t DEF ReportInv, CellInv, Pending
<1>7. ReportedOnce'
    BY DEF ReportInv, ReportedOnce
<1> QED
    BY <1>5, <1>6, <1>7

(* Steps that move no request: counts at most disappear with the memory of *)
(* a buffer, nothing is reported, and no buffer becomes pending that holds *)
(* a count.                                                                *)
LEMMA QuietStep ==
    ASSUME ReportInv, UNCHANGED <<queue, ireq, reports>>,
           \A r \in Requests : pc'[r] = "new" => pc[r] = "new",
           \A b \in Buffers, k \in Keys :
              /\ cells'[b][k] \subseteq cells[b][k]
              /\ bucketReqs'[b][k] \subseteq cells'[b][k]
              /\ \A r \in Requests :
                    Pending(b)' /\ r \in cells'[b][k] => Pending(b)
    PROVE  QueueInv' /\ CellInv' /\ ReportedOnce'
<1>1. \A r \in Requests : Unseen(r) => Unseen(r)'
    BY DEF Unseen, InCell
<1>2. \A r \in Requests : Queued(r)' = Queued(r)
    BY DEF Queued
<1>3. ireq # NoRequest => Unseen(ireq)'
    BY <1>1 DEF ReportInv, QueueInv, SwapInv, TypeOK
<1>4. QueueInv'
    <2>1. QueueInv /\ queue' = queue /\ ireq' = ireq
        BY DEF ReportInv
    <2>2. \A m, n \in 1..Len(queue') : queue'[m] = queue'[n] => m = n
        BY <2>1 DEF QueueInv
    <2> QED
        BY <2>1, <2>2, <1>1, <1>2, <1>3 DEF QueueInv
<1>5. CellInv'
    BY DEF ReportInv, CellInv
<1>6. ReportedOnce'
    BY DEF ReportInv, ReportedOnce
<1> QED
    BY <1>4, <1>5, <1>6

(* The service is told of a buffer that nobody told it of before.          *)
LEMMA DeliveredStep ==
    ASSUME ReportInv, spc = "read", spc' \in {"store", "failed"}, Delivered,
           UNCHANGED <<pc, queue, ireq, buffer, sbuf, cells, bucketReqs>>
    PROVE  QueueInv' /\ CellInv' /\ ReportedOnce'
<1>t. TypeOK /\ QueueInv /\ CellInv /\ ReportedOnce /\ sbuf # buffer
    BY DEF ReportInv, SwapInv
<1> DEFINE told(r) == \E k \in Keys : r \in bucketReqs[sbuf][k]
<1>1. \A r \in Requests :
          reports'[r] = IF told(r) THEN reports[r] + 1 ELSE reports[r]
    BY DEF Delivered
<1>2. \A r \in Requests :
          told(r) => reports[r] = 0 /\ \E k \in Keys : r \in cells[sbuf][k]
    BY <1>t DEF CellInv, Pending, TypeOK
<1>3. \A r \in Requests : reports[r] \in Nat
    BY <1>t DEF TypeOK
<1>4. \A r \in Requests : Unseen(r) => ~told(r)
    BY <1>2, <1>t DEF Unseen, InCell, TypeOK
<1> HIDE DEF told
<1>5. \A r \in Requests : Unseen(r) => Unseen(r)'
    BY <1>1, <1>4 DEF Unseen, InCell
<1>6. QueueInv'
    <2>1. queue' = queue /\ ireq' = ireq /\ pc' = pc
        OBVIOUS
    <2>2. \A r \in Requests : Queued(r)' = Queued(r)
        BY DEF Queued
    <2>3. \A m, n \in 1..Len(queue') : queue'[m] = queue'[n] => m = n
        BY <2>1, <1>t DEF QueueInv
    <2>4. ireq # NoRequest => Unseen(ireq)'
        BY <1>5, <1>t DEF QueueInv, TypeOK
    <2> QED
        BY <2>1, <2>2, <2>3, <2>4, <1>5, <1>t DEF QueueInv
<1>7. CellInv'
    <2>1. \A b \in Buffers : Pending(b)' => b = buffer
        BY DEF Pending
    <2>2. \A k \in Keys, r \in Requests : r \in cells[buffer][k] => ~told(r)
        BY <1>2, <1>t DEF CellInv, TypeOK
    <2> QED
        BY <2>1, <2>2, <1>1, <1>t DEF CellInv, Pending
<1>8. ReportedOnce'
    BY <1>1, <1>2, <1>3, <1>t DEF ReportedOnce
<1> QED
    BY <1>6, <1>7, <1>8

LEMMA ReportInvStep == ReportInv /\ [Next]_vars => ReportInv'
<1> SUFFICES ASSUME ReportInv, [Next]_vars PROVE ReportInv'
    OBVIOUS
<1>t. /\ SwapInv /\ SwapInv' /\ TypeOK /\ TypeOK'
      /\ QueueInv /\ CellInv /\ ReportedOnce
    BY SwapInvStep DEF ReportInv, SwapInv
<1> SUFFICES QueueInv' /\ CellInv' /\ ReportedOnce'
    BY <1>t DEF ReportInv
<1>c. \A b \in Buffers, k \in Keys : bucketReqs[b][k] \subseteq cells[b][k]
    BY <1>t DEF CellInv
<1>1. ASSUME NEW r \in Requests, Enqueue(r), queue' = Append(queue, r)
      PROVE  QueueInv' /\ CellInv' /\ ReportedOnce'
    <2>1. /\ UNCHANGED <<cells, reports, ireq, buffer, sbuf, spc, bucketReqs>>
          /\ pc[r] = "new" /\ pc' = [pc EXCEPT ![r] = "check"]
        BY <1>1 DEF Enqueue, ingester, report
    <2>2. Unseen(r) /\ ~Queued(r) /\ r # ireq
        BY <2>1, <1>t DEF QueueInv
    <2>3. \A q \in Requests : Unseen(q)' = Unseen(q)
        BY <2>1 DEF Unseen, InCell
    <2>4. \A q \in Requests : Queued(q)' => Queued(q) \/ q = r
        <3> SUFFICES ASSUME NEW n \in 1..Len(queue'), queue'[n] # r
                     PROVE  Queued(queue'[n])
            BY DEF Queued
        <3>1. n = Len(queue) + 1 \/ n \in 1..Len(queue)
            BY <1>1, <1>t, SendFacts DEF TypeOK
        <3>2. n \in 1..Len(queue) => queue'[n] = queue[n]
            BY <1>1, <1>t, SendFacts DEF TypeOK
        <3>3. queue'[Len(queue) + 1] = r
            BY <1>1, <1>t, SendFacts DEF TypeOK
        <3> QED
            BY <3>1, <3>2, <3>3 DEF Queued
    <2>5. \A m, n \in 1..Len(queue') : queue'[m] = queue'[n] => m = n
        <3> SUFFICES ASSUME NEW m \in 1..Len(queue'), NEW n \in 1..Len(queue'),
                            queue'[m] = queue'[n]
                     PROVE  m = n
            OBVIOUS
        <3>1. /\ m = Len(queue) + 1 \/ m \in 1..Len(queue)
              /\ n = Len(queue) + 1 \/ n \in 1..Len(queue)
            BY <1>1, <1>t, SendFacts DEF TypeOK
        <3>2. /\ \A l \in 1..Len(queue) : queue'[l] = queue[l]
              /\ queue'[Len(queue) + 1] = r
            BY <1>1, <1>t, SendFacts DEF TypeOK
        <3>3. \A l \in 1..Len(queue) : queue[l] # r
            BY <2>2 DEF Queued
        <3>4. CASE m \in 1..Len(queue) /\ n \in 1..Len(queue)
            BY <3>4, <3>2, <1>t DEF QueueInv
        <3>5. CASE m = Len(queue) + 1 \/ n = Len(queue) + 1
            BY <3>1, <3>2, <3>3, <3>5
        <3> QED
            BY <3>1, <3>4, <3>5
    <2>6. ireq # NoRequest => Unseen(ireq)'
        BY <2>1, <1>t DEF QueueInv, Unseen, InCell
    <2>7. \A q \in Requests : pc'[q] = "new" => pc[q] = "new" /\ q # r
        BY <2>1, <1>t DEF TypeOK
    <2>8. QueueInv'
        BY <2>1, <2>2, <2>3, <2>4, <2>5, <2>6, <2>7, <1>t DEF QueueInv
    <2>9. CellInv' /\ ReportedOnce'
        BY <2>1, <1>t DEF CellInv, Pending, ReportedOnce
    <2> QED
        BY <2>8, <2>9
<1>2. CASE Receive
    <2>1. /\ UNCHANGED <<pc, cells, reports, buffer, sbuf, spc, bucketReqs>>
          /\ queue # << >> /\ ireq' = Head(queue) /\ queue' = Tail(queue)
        BY <1>2 DEF Receive, report
    <2>2. /\ ireq' = queue[1] /\ ireq' \in Requests /\ 1 \in 1..Len(queue)
          /\ \A n \in 1..Len(queue') :
                /\ queue'[n] = queue[n + 1] /\ n + 1 \in 1..Len(queue)
                /\ n \in Nat \ {0}
        BY <2>1, <1>t, ReceiveFacts DEF TypeOK
    <2>3. \A q \in Requests : Unseen(q)' = Unseen(q)
        BY <2>1 DEF Unseen, InCell
    <2>4. \A q \in Requests : Queued(q)' => Queued(q)
        BY <2>2 DEF Queued
    <2>5. \A m, n \in 1..Len(queue') : queue'[m] = queue'[n] => m = n
        <3> SUFFICES ASSUME NEW m \in 1..Len(queue'), NEW n \in 1..Len(queue'),
                            queue'[m] = queue'[n]
                     PROVE  m = n
            OBVIOUS
        <3>1. m + 1 = n + 1
            BY <2>2, <1>t DEF QueueInv
        <3> QED
            BY <3>1, <2>2
    <2>6. Queued(queue[1])
        BY <2>2 DEF Queued
    <2>7. \A q \in Requests : Queued(q)' => q # ireq'
        <3> SUFFICES ASSUME NEW n \in 1..Len(queue'), queue'[n] = queue[1]
                     PROVE  FALSE
            BY <2>2 DEF Queued
        <3>1. n + 1 = 1
            BY <2>2, <1>t DEF QueueInv
        <3> QED
            BY <3>1, <2>2
    <2>8. \A q \in Requests : pc[q] = "new" => q # ireq'
        BY <2>2, <2>6, <1>t DEF QueueInv
    <2>9. Unseen(queue[1])
        BY <2>2, <2>6, <1>t DEF QueueInv
    <2>10. Unseen(ireq)'
        BY <2>1, <2>2, <2>9 DEF Unseen, InCell
    <2>11. QueueInv'
        BY <2>1, <2>3, <2>4, <2>5, <2>7, <2>8, <2>10, <1>t DEF QueueInv
    <2>12. CellInv' /\ ReportedOnce'
        BY <2>1, <1>t DEF CellInv, Pending, ReportedOnce
    <2> QED
        BY <2>11, <2>12
<1>3. CASE Add
    <2>1. /\ ireq # NoRequest /\ ireq' = NoRequest /\ ibuf \in Buffers
          /\ UNCHANGED <<pc, queue, buffer, spc, sbuf, bucketReqs, reports>>
        BY <1>3, <1>t DEF Add, TypeOK, report
    <2>2. \A b \in Buffers, k \in Keys :
              cells'[b][k] = IF b = ibuf /\ k = Bucket[ireq]
                                THEN cells[b][k] \cup {ireq} ELSE cells[b][k]
        BY <1>3, <1>t DEF Add, TypeOK
    <2>3. \A b \in Buffers, k \in Keys :
              IF b = ibuf /\ k = Bucket[ireq]
                 THEN /\ ireq \in cells'[b][k]
                      /\ cells'[b][k] \subseteq cells[b][k] \cup {ireq}
                      /\ bucketReqs[b][k] \subseteq cells'[b][k]
                 ELSE cells'[b][k] = cells[b][k]
        <3> SUFFICES ASSUME NEW b \in Buffers, NEW k \in Keys
                     PROVE  IF b = ibuf /\ k = Bucket[ireq]
                               THEN /\ ireq \in cells'[b][k]
                                    /\ cells'[b][k] \subseteq cells[b][k] \cup {ireq}
                                    /\ bucketReqs[b][k] \subseteq cells'[b][k]
                               ELSE cells'[b][k] = cells[b][k]
            OBVIOUS
        <3>1. bucketReqs[b][k] \subseteq cells[b][k]
            BY <1>c
        <3> QED
            BY <3>1, <2>2
    <2> QED
        BY <2>1, <2>3, <1>t, CountStep
<1>4. CASE AddKey
    <2>1. /\ ireq # NoRequest /\ ireq' = NoRequest /\ buffer \in Buffers
          /\ UNCHANGED <<pc, queue, buffer, spc, sbuf, bucketReqs, reports>>
        BY <1>4, <1>t DEF AddKey, TypeOK, report
    <2>2. \A b \in Buffers, k \in Keys :
              cells'[b][k] = IF b = buffer /\ k = Bucket[ireq]
                                THEN {ireq} ELSE cells[b][k]
        BY <1>4, <1>t DEF AddKey, TypeOK
    <2>3. \A k \in Keys : bucketReqs[buffer][k] = {}
        BY <1>t DEF SwapInv, NoCounts
    <2>4. \A b \in Buffers, k \in Keys :
              IF b = buffer /\ k = Bucket[ireq]
                 THEN /\ ireq \in cells'[b][k]
                      /\ cells'[b][k] \subseteq cells[b][k] \cup {ireq}
                      /\ bucketReqs[b][k] \subseteq cells'[b][k]
                 ELSE cells'[b][k] = cells[b][k]
        BY <2>2, <2>3
    <2> QED
        BY <2>1, <2>4, <1>t, CountStep
<1>5. CASE Swap
    <2>1. /\ UNCHANGED <<pc, queue, ireq, reports>> /\ buffer' = NewBuffer
          /\ sbuf' = buffer /\ NewBuffer \in Buffers
        BY <1>5, <1>t, NewBufferIsFree DEF Swap, ingester, TypeOK
    <2>2. \A b \in Buffers, k \in Keys :
              /\ cells'[b][k] = IF b = NewBuffer THEN {} ELSE cells[b][k]
              /\ bucketReqs'[b][k] = IF b = NewBuffer THEN {} ELSE bucketReqs[b][k]
        BY <1>5, <2>1, <1>t DEF Swap, TypeOK, NoCounts
    <2>3. \A b \in Buffers : Pending(b)' => b = NewBuffer \/ Pending(b)
        BY <2>1 DEF Pending
    <2> QED
        BY <2>1, <2>2, <2>3, <1>c, QuietStep
<1>6. ASSUME NEW k \in Keys, ReadCell(k)
      PROVE  QueueInv' /\ CellInv' /\ ReportedOnce'
    <2>1. UNCHANGED <<pc, queue, ireq, reports, cells, buffer, sbuf, spc>>
        BY <1>6 DEF ReadCell, ingester
    <2>2. \A b \in Buffers, l \in Keys :
              bucketReqs'[b][l] = bucketReqs[b][l] \/ bucketReqs'[b][l] = cells[b][l]
        BY <1>6, <1>t DEF ReadCell, TypeOK
    <2>3. \A b \in Buffers : Pending(b)' = Pending(b)
        BY <2>1 DEF Pending
    <2> QED
        BY <2>1, <2>2, <2>3, <1>c, QuietStep
<1>7. ASSUME spc = "read", spc' \in {"store", "failed"}, Delivered,
             UNCHANGED <<pc, queue, ireq, buffer, sbuf, cells, bucketReqs>>
      PROVE  QueueInv' /\ CellInv' /\ ReportedOnce'
    BY <1>7, DeliveredStep
<1>8. ASSUME UNCHANGED <<queue, ireq, reports, cells, bucketReqs, buffer, sbuf>>,
             \A r \in Requests : pc'[r] = "new" => pc[r] = "new",
             spc' \in {"report", "read"} => spc \in {"report", "read"}
      PROVE  QueueInv' /\ CellInv' /\ ReportedOnce'
    <2>1. \A b \in Buffers : Pending(b)' => Pending(b)
        BY <1>8 DEF Pending
    <2> QED
        BY <2>1, <1>8, <1>c, QuietStep
<1>9. ASSUME NEW r \in Requests, Enqueue(r) \/ AnyThrottled(r)
      PROVE  QueueInv' /\ CellInv' /\ ReportedOnce'
    <2>1. \A q \in Requests : pc'[q] = "new" => pc[q] = "new"
        BY <1>9, <1>t DEF Enqueue, AnyThrottled, TypeOK
    <2> QED
        BY <2>1, <1>1, <1>8, <1>9 DEF Enqueue, AnyThrottled, ingester, report
<1> QED
    BY <1>2, <1>3, <1>4, <1>5, <1>6, <1>7, <1>8, <1>9 DEF Next, Ingester,
       Synchroniser, Load, Contended, IngesterDies, ReportSwitch, CheckinOK,
       CheckinFails, Store, SynchroniserDies, Kill, vars, ingester, report

(* No request is reported to the throttling service twice, for any traffic *)
(* and any interleaving of ingestion, swaps and reports.                   *)
THEOREM NothingReportedTwice == Spec => []ReportedOnce
<1>1. ReportInv => ReportedOnce
    BY DEF ReportInv
<1> QED
    BY ReportInvInit, ReportInvStep, <1>1, PTL DEF Spec

-----------------------------------------------------------------------------
(* The implementation of Tally.  A key goes into the map only if it is not *)
(* there: ingesterWorker does not look again after a contended compare-    *)
(* and-swap, but nobody else adds keys, and a swapped-in buffer has none.  *)
KeyInv ==
    /\ \A b \in Buffers, k \in Keys : k \notin dom[b] => cells[b][k] = {}
    /\ ipc = "add" => Bucket[ireq] \in dom[ibuf]
    /\ ipc \in {"cas", "reload"} => Bucket[ireq] \notin dom[buffer]

LEMMA KeyInvInit == Init => KeyInv
BY DEF Init, KeyInv, NoCounts

LEMMA KeyInvStep == TypeOK /\ KeyInv /\ [Next]_vars => KeyInv'
<1> SUFFICES ASSUME TypeOK, KeyInv, [Next]_vars PROVE KeyInv'
    OBVIOUS
<1>t. /\ buffer \in Buffers /\ dom \in [Buffers -> SUBSET Keys]
      /\ cells \in [Buffers -> [Keys -> SUBSET Requests]]
    BY DEF TypeOK
<1>1. CASE Load
    BY <1>1 DEF Load, KeyInv
<1>2. CASE Add
    <2>1. ibuf \in Buffers /\ Bucket[ireq] \in Keys /\ Bucket[ireq] \in dom[ibuf]
        BY <1>2 DEF Add, TypeOK, KeyInv
    <2>2. \A b \in Buffers, k \in Keys :
              cells'[b][k] = IF b = ibuf /\ k = Bucket[ireq]
                                THEN cells[b][k] \cup {ireq} ELSE cells[b][k]
        BY <1>2, <2>1, <1>t DEF Add
    <2>3. dom' = dom /\ ipc' = "select"
        BY <1>2 DEF Add
    <2>4. ASSUME NEW b \in Buffers, NEW k \in Keys, k \notin dom[b]
          PROVE  cells'[b][k] = {}
        <3>1. cells'[b][k] = cells[b][k]
            BY <2>1, <2>2, <2>4
        <3> QED
            BY <3>1, <2>4 DEF KeyInv
    <2> QED
        BY <2>3, <2>4 DEF KeyInv
<1>3. CASE AddKey
    <2>1. ipc' = "select" /\ Bucket[ireq] \in Keys
        BY <1>3 DEF AddKey, TypeOK
    <2>2. \A b \in Buffers, k \in Keys :
              /\ dom'[b] = IF b = buffer THEN dom[b] \cup {Bucket[ireq]} ELSE dom[b]
              /\ ~(b = buffer /\ k = Bucket[ireq]) => cells'[b][k] = cells[b][k]
        BY <1>3, <1>t, <2>1 DEF AddKey
    <2>3. ASSUME NEW b \in Buffers, NEW k \in Keys, k \notin dom'[b]
          PROVE  cells'[b][k] = {}
        <3>1. cells'[b][k] = cells[b][k] /\ k \notin dom[b]
            BY <2>2, <2>3
        <3> QED
            BY <3>1 DEF KeyInv
    <2> QED
        BY <2>1, <2>3 DEF KeyInv
<1>4. CASE Swap
    <2>1. /\ NewBuffer \in Buffers /\ NewBuffer # ibuf
          /\ UNCHANGED <<ipc, ireq, ibuf>> /\ buffer' = NewBuffer
        BY <1>4, NewBufferIsFree DEF Swap, ingester, TypeOK
    <2>2. \A b \in Buffers : /\ dom'[b] = IF b = NewBuffer THEN {} ELSE dom[b]
                             /\ cells'[b] = IF b = NewBuffer THEN NoCounts ELSE cells[b]
        BY <1>4, <2>1, <1>t DEF Swap
    <2>3. \A k \in Keys : NoCounts[k] = {}
        BY DEF NoCounts
    <2>4. ipc = "add" => ibuf \in Buffers
        BY DEF TypeOK
    <2> QED
        BY <2>1, <2>2, <2>3, <2>4 DEF KeyInv
<1>5. ASSUME UNCHANGED <<dom, cells, buffer>>,
             \/ UNCHANGED <<ipc, ireq, ibuf>>
             \/ ipc' \notin {"add", "cas", "reload"}
             \/ ipc = "cas" /\ ipc' = "reload" /\ UNCHANGED ireq
      PROVE  KeyInv'
    BY <1>5 DEF KeyInv
<1> QED
    BY <1>1, <1>2, <1>3, <1>4, <1>5 DEF Next, Ingester, Synchroniser, Enqueue,
       AnyThrottled, Receive, Contended, IngesterDies, ReadCell, ReportSwitch,
       CheckinOK, CheckinFails, Store, SynchroniserDies, Kill, vars,
       ingester, report

LEMMA TallyInit == Init => T!Init
<1> SUFFICES ASSUME Init PROVE T!Init
    OBVIOUS
<1>1. \A r \in Requests : Unseen(r) /\ ~Queued(r) /\ r # ireq /\ pc[r] = "new"
    BY ReportInvInit DEF ReportInv, QueueInv, Init
<1>2. Unoffered = Requests /\ Accepted = {} /\ Counted = {}
    BY <1>1 DEF Unoffered, Accepted, Counted, Unseen
<1> QED
    BY <1>2 DEF Init, T!Init

(* Counting the request in hand, in a cell of d that holds only others of  *)
(* its bucket, is Count.                                                   *)
LEMMA TallyCount ==
    ASSUME ReportInv, ireq # NoRequest, ireq' = NoRequest, NEW d \in Buffers,
           \A b \in Buffers, k \in Keys :
              cells'[b][k] = IF b = d /\ k = Bucket[ireq]
                                THEN cells[b][k] \cup {ireq} ELSE cells[b][k],
           UNCHANGED <<pc, queue, reports>>
    PROVE  T!Next
<1>1. ireq \in Requests /\ Bucket[ireq] \in Keys /\ ~Queued(ireq)
    BY DEF ReportInv, SwapInv, TypeOK, QueueInv
<1>2. \A r \in Requests : Queued(r)' = Queued(r)
    BY DEF Queued
<1>3. \A r \in Requests : InCell(r)' <=> InCell(r) \/ r = ireq
    <2> SUFFICES ASSUME NEW r \in Requests PROVE InCell(r)' <=> InCell(r) \/ r = ireq
        OBVIOUS
    <2>1. ASSUME NEW b \in Buffers, NEW k \in Keys
          PROVE  /\ r \in cells'[b][k] => r \in cells[b][k] \/ r = ireq
                 /\ r \in cells[b][k] => r \in cells'[b][k]
        <3>1. cells'[b][k] = cells[b][k] \cup {ireq} \/ cells'[b][k] = cells[b][k]
            OBVIOUS
        <3> QED
            BY <3>1
    <2>2. /\ InCell(r)' => InCell(r) \/ r = ireq
          /\ InCell(r) => InCell(r)'
        BY <2>1, Zenon DEF InCell
    <2>3. r = ireq => InCell(r)'
        BY <1>1 DEF InCell
    <2> QED
        BY <2>2, <2>3
<1>4. ireq \in Accepted /\ Accepted' = Accepted \ {ireq}
    <2>1. \A r : r \in Accepted' <=> r \in Requests /\ (Queued(r)' \/ r = ireq')
        BY Zenon DEF Accepted
    <2>2. \A r : r \in Accepted <=> r \in Requests /\ (Queued(r) \/ r = ireq)
        BY Zenon DEF Accepted
    <2>3. \A r \in Requests : r # ireq'
        BY ThrottlingAssumption
    <2>4. \A r : r \in Accepted' <=> r \in Accepted /\ r # ireq
        BY <1>1, <1>2, <2>1, <2>2, <2>3, Zenon
    <2>5. ireq \in Accepted
        BY <1>1, <2>2
    <2> QED
        BY <2>4, <2>5
<1>5. Counted' = Counted \cup {ireq}
    <2>1. \A r : r \in Counted' <=> r \in Requests /\ InCell(r)'
        BY Zenon DEF Counted
    <2>2. \A r : r \in Counted <=> r \in Requests /\ InCell(r)
        BY Zenon DEF Counted
    <2>3. \A r : r \in Counted' <=> r \in Counted \/ r = ireq
        BY <1>1, <1>3, <2>1, <2>2, Zenon
    <2> QED
        BY <2>3
<1>6. Unoffered' = Unoffered
    BY DEF Unoffered
<1> QED
    BY <1>1, <1>4, <1>5, <1>6 DEF T!Next, T!Count

(* A report is Tell of what was read from the buffer.                      *)
LEMMA TallyTell ==
    ASSUME ReportInv, spc = "read", Delivered,
           UNCHANGED <<pc, queue, ireq, cells>>
    PROVE  T!Next
<1>t. TypeOK /\ CellInv
    BY DEF ReportInv, SwapInv
<1> DEFINE S == {r \in Requests : \E k \in Keys : r \in bucketReqs[sbuf][k]}
<1>1. \A r \in S : reports[r] = 0 /\ r \in Counted
    BY <1>t DEF CellInv, Pending, TypeOK, Counted, InCell
<1>2. reports' = [r \in Requests |-> IF r \in S THEN 1 ELSE reports[r]]
    BY <1>1 DEF Delivered
<1>3. UNCHANGED <<Unoffered, Accepted, Counted>>
    BY DEF Unoffered, Accepted, Counted, Queued, InCell
<1>4. S \in SUBSET Counted
    BY <1>1
<1> HIDE DEF S
<1> QED
    BY <1>1, <1>2, <1>3, <1>4 DEF T!Next, T!Tell

LEMMA TallyStep == ReportInv /\ KeyInv /\ [Next]_vars => [T!Next]_T!vars
<1> SUFFICES ASSUME ReportInv, KeyInv, [Next]_vars
             PROVE  T!Next \/ UNCHANGED T!vars
    OBVIOUS
<1>t. /\ TypeOK /\ QueueInv /\ queue \in Seq(Requests)
      /\ cells \in [Buffers -> [Keys -> SUBSET Requests]]
    BY DEF ReportInv, SwapInv, TypeOK
<1>1. ASSUME NEW r \in Requests, Enqueue(r) PROVE T!Next
    <2>1. /\ pc[r] = "new" /\ pc' = [pc EXCEPT ![r] = "check"]
          /\ UNCHANGED <<cells, ireq, reports>>
        BY <1>1 DEF Enqueue, ingester, report
    <2>2. r \in Unoffered /\ Unoffered' = Unoffered \ {r}
        BY <2>1, <1>t DEF Unoffered, TypeOK
    <2>3. UNCHANGED Counted
        BY <2>1 DEF Counted, InCell
    <2>4. CASE queue' = Append(queue, r)
        <3>1. /\ Len(queue) \in Nat /\ Len(queue') = Len(queue) + 1
              /\ queue'[Len(queue) + 1] = r
              /\ \A n \in 1..Len(queue) : queue'[n] = queue[n]
            BY <2>4, <1>t, SendFacts
        <3>2. \A q \in Requests : Queued(q)' <=> Queued(q) \/ q = r
            BY <3>1 DEF Queued
        <3>3. Accepted' = Accepted \cup {r}
            BY <2>1, <3>2 DEF Accepted
        <3> QED
            BY <2>1, <2>2, <2>3, <3>3 DEF T!Next, T!Offer
    <2>5. CASE UNCHANGED queue
        <3>1. UNCHANGED Accepted
            BY <2>1, <2>5 DEF Accepted, Queued
        <3> QED
            BY <2>1, <2>2, <2>3, <3>1 DEF T!Next, T!Offer
    <2> QED
        BY <1>1, <2>4, <2>5 DEF Enqueue
<1>2. CASE Receive
    <2>1. /\ UNCHANGED <<pc, cells, reports>> /\ queue # << >>
          /\ ireq' = Head(queue) /\ queue' = Tail(queue) /\ ireq = NoRequest
        BY <1>2, <1>t DEF Receive, report, TypeOK
    <2>2. \A q \in Requests : Queued(q) <=> Queued(q)' \/ q = ireq'
        <3>1. /\ ireq' = queue[1] /\ Len(queue) \in Nat /\ Len(queue) > 0
              /\ Len(queue') = Len(queue) - 1
              /\ \A n \in 1..Len(queue') : queue'[n] = queue[n + 1]
            BY <2>1, <1>t, ReceiveFacts
        <3>2. ASSUME NEW q \in Requests, Queued(q) PROVE Queued(q)' \/ q = ireq'
            <4>1. PICK n \in 1..Len(queue) : queue[n] = q
                BY <3>2 DEF Queued
            <4>2. CASE n = 1
                BY <3>1, <4>1, <4>2
            <4>3. CASE n # 1
                <5>1. n - 1 \in 1..Len(queue') /\ queue'[n - 1] = q
                    BY <3>1, <4>1, <4>3
                <5> QED
                    BY <5>1 DEF Queued
            <4> QED
                BY <4>2, <4>3
        <3>3. ASSUME NEW q \in Requests, Queued(q)' \/ q = ireq' PROVE Queued(q)
            BY <3>1, <3>3 DEF Queued
        <3> QED
            BY <3>2, <3>3
    <2>3. UNCHANGED Accepted
        BY <2>1, <2>2, ThrottlingAssumption DEF Accepted
    <2>4. UNCHANGED <<Unoffered, Counted>>
        BY <2>1 DEF Unoffered, Counted, InCell
    <2> QED
        BY <2>1, <2>3, <2>4 DEF T!vars
<1>3. CASE Add
    <2>1. /\ ireq # NoRequest /\ ireq' = NoRequest /\ ibuf \in Buffers
          /\ UNCHANGED <<pc, queue, reports>>
        BY <1>3, <1>t DEF Add, TypeOK, report
    <2>2. \A b \in Buffers, k \in Keys :
              cells'[b][k] = IF b = ibuf /\ k = Bucket[ireq]
                                THEN cells[b][k] \cup {ireq} ELSE cells[b][k]
        BY <1>3, <1>t, <2>1 DEF Add
    <2> QED
        BY <2>1, <2>2, TallyCount
<1>4. CASE AddKey
    <2>1. /\ ireq # NoRequest /\ ireq' = NoRequest /\ buffer \in Buffers
          /\ Bucket[ireq] \in Keys /\ UNCHANGED <<pc, queue, reports>>
        BY <1>4, <1>t DEF AddKey, TypeOK, report
    <2>2. cells[buffer][Bucket[ireq]] = {}
        BY <1>4, <2>1 DEF AddKey, KeyInv
    <2>3. \A b \in Buffers, k \in Keys :
              cells'[b][k] = IF b = buffer /\ k = Bucket[ireq]
                                THEN cells[b][k] \cup {ireq} ELSE cells[b][k]
        BY <1>4, <1>t, <2>1, <2>2 DEF AddKey
    <2> QED
        BY <2>1, <2>3, TallyCount
<1>5. CASE Swap
    <2>1. /\ UNCHANGED <<pc, queue, ireq, reports>> /\ NewBuffer \in Buffers
        BY <1>5, <1>t, NewBufferIsFree DEF Swap, ingester, TypeOK
    <2>2. \A b \in Buffers, k \in Keys : cells'[b][k] \subseteq cells[b][k]
        BY <1>5, <2>1, <1>t DEF Swap, NoCounts
    <2>3. Counted' \subseteq Counted
        BY <2>2 DEF Counted, InCell
    <2>4. UNCHANGED <<Unoffered, Accepted>>
        BY <2>1 DEF Unoffered, Accepted, Queued
    <2>5. Counted \ Counted' \in SUBSET Counted
          /\ Counted' = Counted \ (Counted \ Counted')
        BY <2>3
    <2> QED
        BY <2>1, <2>4, <2>5 DEF T!Next, T!Forget
<1>6. ASSUME spc = "read", Delivered, UNCHANGED <<pc, queue, ireq, cells>>
      PROVE  T!Next
    BY <1>6, TallyTell
<1>7. ASSUME UNCHANGED <<queue, ireq, reports, cells>>,
             \A r \in Requests : pc'[r] = "new" <=> pc[r] = "new"
      PROVE  UNCHANGED T!vars
    BY <1>7 DEF T!vars, Unoffered, Accepted, Counted, Queued, InCell
<1>8. ASSUME NEW r \in Requests, AnyThrottled(r) PROVE UNCHANGED T!vars
    <2>1. \A q \in Requests : pc'[q] = "new" <=> pc[q] = "new"
        BY <1>8, <1>t DEF AnyThrottled, TypeOK
    <2> QED
        BY <2>1, <1>7, <1>8 DEF AnyThrottled, ingester, report
<1> QED
    BY <1>1, <1>2, <1>3, <1>4, <1>5, <1>6, <1>7, <1>8 DEF Next, Ingester,
       Synchroniser, Load, Contended, IngesterDies, ReadCell, ReportSwitch,
       CheckinOK, CheckinFails, Store, SynchroniserDies, Kill, vars,
       ingester, report

(* The throttling handler implements Tally: whatever the swaps race with,  *)
(* what the service is told of was offered, accepted and counted, each     *)
(* request once, and no count is overwritten.                              *)
THEOREM ImplementsTally == Spec => TalliesOnce
<1>1. ReportInv => TypeOK
    BY DEF ReportInv, SwapInv
<1> QED
    BY ReportInvInit, ReportInvStep, KeyInvInit, KeyInvStep, TallyInit, TallyStep,
       <1>1, PTL DEF Spec, TalliesOnce, T!Spec

=============================================================================
