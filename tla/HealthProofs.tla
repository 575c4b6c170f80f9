----------------------------- MODULE HealthProofs -----------------------------
(***************************************************************************)
(* Proofs about Health, for any bound on the rates and any thresholds.     *)
(***************************************************************************)
EXTENDS Health, TLAPS

(* The checks compare products of a percentage and a rate; these facts are *)
(* all that is needed about them.                                          *)
LEMMA PercentOf ==
    ASSUME NEW p \in 0..100, NEW n \in Nat
    PROVE  p * n \in Nat /\ p * n <= 100 * n
<1>1. p * n >= 0
    OBVIOUS
<1>2. (100 - p) * n >= 0
    OBVIOUS
<1> QED
    BY <1>1, <1>2

(* If less than e percent of n failed and n is at least 100 - d percent of *)
(* old, then the rest s of n is at least that much of old.                 *)
LEMMA PartOfPart ==
    ASSUME NEW d \in 0..100, NEW e \in 0..99,
           NEW s \in Nat, NEW f \in Nat, NEW old \in Nat,
           f * 100 <= e * (s + f),
           (old - (s + f)) * 100 <= d * old
    PROVE  s * 100 * 100 >= (100 - e) * (100 - d) * old
<1> DEFINE n == s + f
           a == (100 - d) * old
<1>1. n \in Nat /\ a \in Int
    OBVIOUS
<1>2. s * 100 >= (100 - e) * n
    OBVIOUS
<1>3. n * 100 >= a
    OBVIOUS
<1> HIDE DEF n, a
<1>4. (100 - e) * (n * 100) >= (100 - e) * a
    BY <1>1, <1>3
<1>5. (100 - e) * (n * 100) = ((100 - e) * n) * 100
    BY <1>1
<1>6. s * 100 * 100 >= (100 - e) * a
    BY <1>1, <1>2, <1>4, <1>5
<1>7. (100 - e) * a = (100 - e) * (100 - d) * old
    BY DEF a
<1> QED
    BY <1>6, <1>7

-----------------------------------------------------------------------------
(* Type correctness of both checks, for any bound on the rates.            *)
THEOREM TypeCorrect == Spec => []TypeOK
<1>1. Init => TypeOK
    BY HealthAssumption DEF Init, TypeOK
<1>2. TypeOK /\ [Next]_vars => TypeOK'
    <2> SUFFICES ASSUME TypeOK, [Next]_vars PROVE TypeOK'
        OBVIOUS
    <2> USE HealthAssumption
    <2>t. Rate1Total \in 0..2 * MaxRate
        BY DEF TypeOK, Rate1Total
    <2>1. CASE Traffic
        BY <2>1 DEF Traffic, TypeOK
    <2>2. CASE DropOffCheck
        BY <2>2, <2>t DEF DropOffCheck, Report, TypeOK
    <2>3. CASE ErrorRateCheck
        BY <2>3 DEF ErrorRateCheck, Report, TypeOK
    <2>4. CASE UNCHANGED vars
        BY <2>4 DEF vars, window, TypeOK
    <2> QED
        BY <2>1, <2>2, <2>3, <2>4 DEF Next
<1> QED
    BY <1>1, <1>2, PTL DEF Spec

(* What a check left behind: the saved rate is that of the last check, and *)
(* the outcome is that of the last two rates.                              *)
SavedInv ==
    /\ saved = last
    /\ outcome = "none" => last = 0 /\ prev = 0
    /\ outcome = "ok" => ~DropOffError(prev, last)
    /\ outcome = "error" => DropOffError(prev, last)

(* Of the window since the rates last moved: the first drop-off check in   *)
(* it compares with the rate before, later ones with the same rate again.  *)
WindowInv ==
    /\ "drop" \notin ran => last = before
    /\ "drop" \in ran /\ DropOffError(before, Rate1Total) => alarm
    /\ "errors" \in ran /\ ErrorRateTooHigh => alarm

CheckInv == TypeOK /\ SavedInv /\ WindowInv

LEMMA CheckInvInit == Init => CheckInv
BY HealthAssumption DEF Init, CheckInv, TypeOK, SavedInv, WindowInv

LEMMA CheckInvStep == CheckInv /\ [Next]_vars /\ TypeOK' => CheckInv'
<1> SUFFICES ASSUME CheckInv, [Next]_vars, TypeOK' PROVE SavedInv' /\ WindowInv'
    BY DEF CheckInv
<1> USE DEF CheckInv
<1>1. CASE Traffic
    BY <1>1 DEF Traffic, SavedInv, WindowInv, DropOffError
<1>2. CASE DropOffCheck
    <2>1. Rate1Total' = Rate1Total /\ (ErrorRateTooHigh' <=> ErrorRateTooHigh)
        BY <1>2 DEF DropOffCheck, Report, Rate1Total, ErrorRateTooHigh
    <2>2. SavedInv'
        BY <1>2, <2>1 DEF DropOffCheck, SavedInv, DropOffError
    <2>3. "drop" \in ran \/ DropOffError(saved, Rate1Total)
                             = DropOffError(before, Rate1Total)
        BY DEF SavedInv, WindowInv
    <2>4. WindowInv'
        BY <1>2, <2>1, <2>3 DEF DropOffCheck, Report, WindowInv, DropOffError
    <2> QED
        BY <2>2, <2>4
<1>3. CASE ErrorRateCheck
    <2>1. Rate1Total' = Rate1Total /\ (ErrorRateTooHigh' <=> ErrorRateTooHigh)
        BY <1>3 DEF ErrorRateCheck, Report, Rate1Total, ErrorRateTooHigh
    <2>2. SavedInv'
        BY <1>3 DEF ErrorRateCheck, SavedInv, DropOffError
    <2>3. WindowInv'
        BY <1>3, <2>1 DEF ErrorRateCheck, Report, WindowInv, DropOffError
    <2> QED
        BY <2>2, <2>3
<1>4. CASE UNCHANGED vars
    BY <1>4 DEF vars, window, SavedInv, WindowInv, DropOffError, Rate1Total,
                ErrorRateTooHigh
<1> QED
    BY <1>1, <1>2, <1>3, <1>4 DEF Next

LEMMA CheckInvHolds == Spec => []CheckInv
BY CheckInvInit, CheckInvStep, TypeCorrect, PTL DEF Spec

(* For any threshold and any traffic: a drop beyond the threshold, and the *)
(* absence of requests, fail the drop-off check, and so does traffic that  *)
(* comes back; a level that stays passes it from the second time on.       *)
THEOREM DropReported == Spec => []DropIsReportedOnce
<1>1. CheckInv => DropIsReportedOnce
    <2> SUFFICES ASSUME CheckInv PROVE DropIsReportedOnce
        OBVIOUS
    <2> USE HealthAssumption
    <2>t. last \in Nat /\ prev \in Nat
        BY DEF CheckInv, TypeOK
    <2>1. DropOff * prev >= 0 /\ DropOff * prev <= 100 * prev
        BY <2>t, PercentOf
    <2>2. ASSUME outcome # "none", last = 0 \/ (prev - last) * 100 > DropOff * prev
          PROVE  outcome = "error"
        <3>1. DropOffError(prev, last)
            BY <2>t, <2>1, <2>2 DEF DropOffError
        <3> QED
            BY <2>2, <3>1 DEF CheckInv, SavedInv, TypeOK
    <2>3. ASSUME last = prev, last # 0 PROVE outcome = "ok"
        <3>1. ~DropOffError(prev, last)
            BY <2>t, <2>3 DEF DropOffError
        <3> QED
            BY <2>3, <3>1 DEF CheckInv, SavedInv, TypeOK
    <2>4. ASSUME prev = 0, last # 0 PROVE outcome = "error" <=> DropOff < 100
        <3>1. DropOffError(prev, last) <=> DropOff < 100
            BY <2>t, <2>4 DEF DropOffError
        <3>2. outcome = "error" \/ outcome = "ok"
            BY <2>4 DEF CheckInv, SavedInv, TypeOK
        <3> QED
            BY <3>1, <3>2 DEF CheckInv, SavedInv
    <2> QED
        BY <2>2, <2>3, <2>4 DEF DropIsReportedOnce
<1> QED
    BY <1>1, CheckInvHolds, PTL

(* For any two thresholds: a loss of successful requests that both allow   *)
(* together is the largest that can go unreported, in whatever order and   *)
(* however often the two checks run.                                       *)
THEOREM LossReported == Spec => []LossIsReported
<1>1. CheckInv => LossIsReported
    <2> SUFFICES ASSUME CheckInv, ran = {"drop", "errors"}, ~alarm
                 PROVE  /\ success # 0
                        /\ ~(success * 100 * 100
                             < (100 - ErrRate) * (100 - DropOff) * before)
        BY DEF LossIsReported
    <2> USE HealthAssumption
    <2>t. success \in Nat /\ failed \in Nat /\ before \in Nat
        BY DEF CheckInv, TypeOK
    <2>1. ~DropOffError(before, success + failed)
        BY DEF CheckInv, WindowInv, Rate1Total
    <2>2. failed * 100 <= ErrRate * (success + failed)
        BY <2>t DEF CheckInv, WindowInv, ErrorRateTooHigh, Rate1Total
    <2>3. success + failed # 0
        BY <2>1 DEF DropOffError
    <2>4. (before - (success + failed)) * 100 <= DropOff * before
        <3>1. DropOff * before >= 0
            BY <2>t, PercentOf
        <3> QED
            BY <2>t, <2>1, <3>1 DEF DropOffError
    <2>5. success # 0
        <3> SUFFICES ASSUME success = 0 PROVE FALSE
            OBVIOUS
        <3>1. failed > 0 /\ failed * 100 <= ErrRate * failed
            BY <2>t, <2>2, <2>3
        <3>2. (100 - ErrRate) * failed > 0
            BY <2>t, <3>1
        <3> QED
            BY <2>t, <3>1, <3>2
    <2>6. success * 100 * 100 >= (100 - ErrRate) * (100 - DropOff) * before
        BY <2>t, <2>2, <2>4, PartOfPart
    <2>7. (100 - ErrRate) * (100 - DropOff) * before \in Int
        BY <2>t
    <2> QED
        BY <2>t, <2>5, <2>6, <2>7
<1> QED
    BY <1>1, CheckInvHolds, PTL
===============================================================================
