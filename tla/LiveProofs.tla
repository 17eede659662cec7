------------------------------ MODULE LiveProofs -------------------------------
(* Proofs about the services of a live call: Verification, for any number of tool   *)
(* calls and any limit; Admission, for any calls, limit and number of restarts;     *)
(* Transfer, for a plan of any length; Approvals, for any owners; Supervision, for  *)
(* any people and requests, with any number of taps, commands and restarts; and     *)
(* Payments, for any requests, processes, amount and moves.                         *)
EXTENDS Verification, Admission, Transfer, Approvals, Supervision, Payments,
        FiniteSetTheorems, SequenceTheorems, TLAPS

--------------------------------------------------------------------------------
(* Verification. *)

\* A listing that is current is that of a call with attempts left.
FreshCurrent ==
  \A c \in verFresh : /\ verPc[c] = "compare"
                      /\ verSeen[c] = VerAttempts
                      /\ VerAttempts < VerMax
                      /\ verSaved["verified"] = 0

\* A listing never runs ahead of the attempts.
SeenBehind == \A c \in VerCalls : verSeen[c] <= VerAttempts

\* What the worker was told is true of the attempts.
ToldTruly == /\ verVerified => verSaved["verified"] > 0
             /\ verLocked => VerAttempts >= VerMax

VerInv == VerificationTypeOK /\ FreshCurrent /\ SeenBehind /\ ToldTruly /\ AnswersBounded

LEMMA AttemptsNat ==
  ASSUME VerificationTypeOK
  PROVE  VerAttempts \in Nat
  BY DEF VerificationTypeOK, VerificationOutcome, VerAttempts

LEMMA VerInitInv == VerificationInit => VerInv
<1> SUFFICES ASSUME VerificationInit PROVE VerInv
  OBVIOUS
<1>1. VerificationTypeOK
  BY DEF VerificationInit, VerificationTypeOK, VerificationOutcome
<1>2. VerAttempts = 0
  BY DEF VerificationInit, VerAttempts, VerificationOutcome
<1> QED
  BY <1>1, <1>2, VerificationAssumption
  DEF VerificationInit, VerInv, FreshCurrent, SeenBehind, ToldTruly, AnswersBounded

-------------------------------------------------------------------------------
(* The steps. *)

LEMMA VerTurnedAwayInv ==
  ASSUME VerInv, NEW c \in VerCalls, VerTurnedAway(c)
  PROVE  VerInv'
<1>1. VerAttempts' = VerAttempts
  BY DEF VerTurnedAway, VerAttempts
<1>2. VerificationTypeOK'
  BY DEF VerInv, VerificationTypeOK, VerTurnedAway, VerAnswer
<1>3. (FreshCurrent /\ SeenBehind)'
  BY <1>1 DEF VerInv, FreshCurrent, SeenBehind, VerTurnedAway
<1>4. CASE verSaved["verified"] > 0 /\ VerAnswer("verified")
  <2>1. ~verLocked'
    BY <1>4 DEF VerAnswer, VerTurnedAway
  <2>2. verVerified' => verSaved'["verified"] > 0
    BY <1>4 DEF VerTurnedAway
  <2> QED
    BY <1>1, <1>2, <1>3, <2>1, <2>2 DEF VerInv, ToldTruly, AnswersBounded, VerTurnedAway
<1>5. CASE verSaved["verified"] = 0 /\ VerAttempts >= VerMax /\ VerAnswer("locked")
  <2>1. ~verVerified
    BY <1>5 DEF VerInv, ToldTruly
  <2>2. ~verVerified'
    BY <2>1, <1>5 DEF VerAnswer
  <2> QED
    BY <1>1, <1>2, <1>3, <1>5, <2>2 DEF VerInv, ToldTruly, AnswersBounded, VerTurnedAway
<1> QED
  BY <1>4, <1>5 DEF VerTurnedAway

LEMMA VerListInv ==
  ASSUME VerInv, NEW c \in VerCalls, VerList(c)
  PROVE  VerInv'
<1>1. VerAttempts' = VerAttempts /\ VerAttempts \in Nat
  BY AttemptsNat DEF VerList, VerAttempts, VerInv
<1>2. VerificationTypeOK'
  BY <1>1 DEF VerInv, VerificationTypeOK, VerList
<1>3. verPc \in [VerCalls -> {"idle", "compare"}] /\ verSeen \in [VerCalls -> Nat]
  BY DEF VerInv, VerificationTypeOK
<1>4. FreshCurrent'
  BY <1>1, <1>3 DEF VerInv, VerificationTypeOK, FreshCurrent, VerList
<1>5. SeenBehind'
  BY <1>1, <1>3 DEF VerInv, SeenBehind, VerList
<1> QED
  BY <1>1, <1>2, <1>4, <1>5 DEF VerInv, ToldTruly, AnswersBounded, VerList

LEMMA VerLostInv ==
  ASSUME VerInv, NEW c \in VerCalls, VerLost(c)
  PROVE  VerInv'
<1>1. VerAttempts' = VerAttempts /\ VerAttempts \in Nat
  BY AttemptsNat DEF VerLost, VerAttempts, VerInv
<1>2. VerificationTypeOK'
  BY DEF VerInv, VerificationTypeOK, VerLost
<1>3. verPc \in [VerCalls -> {"idle", "compare"}] /\ verSeen \in [VerCalls -> Nat]
  BY DEF VerInv, VerificationTypeOK
<1>4. FreshCurrent'
  BY <1>1, <1>3 DEF VerInv, VerificationTypeOK, FreshCurrent, VerLost
<1>5. SeenBehind'
  BY <1>1, <1>3 DEF VerInv, SeenBehind, VerLost
<1> QED
  BY <1>1, <1>2, <1>4, <1>5 DEF VerInv, ToldTruly, AnswersBounded, VerLost

LEMMA VerCompareInv ==
  ASSUME VerInv, NEW c \in VerCalls, VerCompare(c)
  PROVE  VerInv'
<1>0. VerAttempts \in Nat /\ verStale \in Nat /\ verSeen[c] \in Nat /\ VerMax \in Nat \ {0}
  BY AttemptsNat, VerificationAssumption DEF VerInv, VerificationTypeOK
<1>1. PICK o \in VerOutcomes(verSeen[c]) :
        verSaved' = [verSaved EXCEPT ![o] = @ + 1] /\ VerAnswer(o)
  BY DEF VerCompare
<1>2. o \in VerificationOutcome
  BY <1>1 DEF VerOutcomes, VerificationOutcome
<1>3. verSaved' \in [VerificationOutcome -> Nat]
  BY <1>1, <1>2 DEF VerInv, VerificationTypeOK
<1>4. VerAttempts' = VerAttempts + 1
  <2>1. verSaved \in [VerificationOutcome -> Nat]
    BY DEF VerInv, VerificationTypeOK
  <2> QED
    BY <1>1, <1>2, <2>1 DEF VerificationOutcome, VerAttempts
<1>5. /\ verSaved'["verified"] >= verSaved["verified"]
      /\ o = "verified" => verSaved'["verified"] > 0
  BY <1>1, <1>2 DEF VerInv, VerificationTypeOK, VerificationOutcome
<1>6. VerificationTypeOK'
  <2>1. verVerified \in BOOLEAN /\ verLocked \in BOOLEAN
    BY DEF VerInv, VerificationTypeOK
  <2>2. verVerified' \in BOOLEAN /\ verLocked' \in BOOLEAN
    <3>1. CASE UNCHANGED <<verVerified, verLocked>>
      BY <2>1, <3>1
    <3>2. CASE /\ verVerified' = (verVerified \/ o = "verified")
               /\ verLocked' = (verLocked \/ o = "locked")
      BY <3>2, Zenon
    <3> QED
      BY <1>1, <3>1, <3>2, Zenon DEF VerAnswer
  <2>3. verStale' \in Nat /\ verFresh' \subseteq VerCalls
    BY <1>0 DEF VerCompare
  <2> QED
    BY <1>3, <2>2, <2>3 DEF VerInv, VerificationTypeOK, VerCompare
<1>7. FreshCurrent'
  BY DEF FreshCurrent, VerCompare
<1>8. SeenBehind'
  BY <1>0, <1>4 DEF VerInv, VerificationTypeOK, SeenBehind, VerCompare
<1>9. o = "locked" => verSeen[c] + 1 >= VerMax
  BY <1>1 DEF VerOutcomes
<1>10. /\ verVerified' => verVerified \/ o = "verified"
       /\ verLocked' => verLocked \/ o = "locked"
  <2>1. CASE UNCHANGED <<verVerified, verLocked>>
    BY <2>1
  <2>2. CASE /\ verVerified' = (verVerified \/ o = "verified")
             /\ verLocked' = (verLocked \/ o = "locked")
    BY <2>2, Zenon
  <2> QED
    BY <1>1, <2>1, <2>2, Zenon DEF VerAnswer
<1>11. ToldTruly'
  <2>1. verVerified' => verSaved'["verified"] > 0
    BY <1>5, <1>10, <1>3 DEF VerInv, ToldTruly, VerificationTypeOK, VerificationOutcome
  <2>2. verSeen[c] <= VerAttempts
    BY DEF VerInv, SeenBehind
  <2>3. verLocked' => VerAttempts' >= VerMax
    BY <1>0, <1>4, <1>9, <1>10, <2>2 DEF VerInv, ToldTruly
  <2> QED
    BY <2>1, <2>3 DEF ToldTruly
<1>12. AnswersBounded'
  <2>1. CASE c \in verFresh
    <3>1. VerAttempts < VerMax /\ verSaved["verified"] = 0 /\ verStale' = verStale
      BY <2>1 DEF VerInv, FreshCurrent, VerCompare
    <3>2. ~verVerified /\ ~verLocked
      BY <1>0, <3>1 DEF VerInv, ToldTruly
    <3>3. ~(verVerified' /\ verLocked')
      BY <1>10, <3>2
    <3> QED
      BY <1>0, <1>4, <3>1, <3>3 DEF AnswersBounded
  <2>2. CASE c \notin verFresh
    BY <1>0, <1>4, <2>2 DEF VerInv, AnswersBounded, VerCompare
  <2> QED
    BY <2>1, <2>2
<1> QED
  BY <1>6, <1>7, <1>8, <1>11, <1>12 DEF VerInv

LEMMA VerNextInv == VerInv /\ [VerificationNext]_verificationVars => VerInv'
<1> SUFFICES ASSUME VerInv, [VerificationNext]_verificationVars PROVE VerInv'
  OBVIOUS
<1>1. CASE VerificationNext
  BY <1>1, VerTurnedAwayInv, VerListInv, VerCompareInv, VerLostInv DEF VerificationNext
<1>2. CASE UNCHANGED verificationVars
  BY <1>2 DEF verificationVars, VerInv, VerificationTypeOK, FreshCurrent, SeenBehind, ToldTruly,
              AnswersBounded, VerAttempts
<1> QED
  BY <1>1, <1>2

-------------------------------------------------------------------------------
(* The theorems. *)

LEMMA VerSpecInv == VerificationSpec => []VerInv
  BY VerInitInv, VerNextInv, PTL DEF VerificationSpec

\* Attempts, listings and what the worker was told have their types, for any
\* number of tool calls in flight (verify, verify_caller).
THEOREM VerificationTypeCorrect == VerificationSpec => []VerificationTypeOK
<1>1. VerInv => VerificationTypeOK
  BY DEF VerInv
<1> QED
  BY <1>1, VerSpecInv, PTL

\* However many answers are in flight, a call has no more comparisons than the
\* limit and one for each that was checked on an outdated list (verify).
THEOREM AnswersAreBounded == VerificationSpec => []AnswersBounded
<1>1. VerInv => AnswersBounded
  BY DEF VerInv
<1> QED
  BY <1>1, VerSpecInv, PTL

--------------------------------------------------------------------------------
(* Admission. *)

\* The count is that of the places, and the places are within the limit.
CountExact == adCount = Cardinality(adHeld) /\ adCount <= AdLimit

\* A call that was admitted keeps its place until it is over; its last event is
\* sent only then.
BusyHeld ==
  /\ \A c \in adAdmitted \ adForgot : AdBusy(c) => c \in adHeld
  /\ \A c \in adEvents : ~AdBusy(c) /\ adPc[c] # "ringing"
  /\ \A c \in adHeld \cup adAdmitted \cup adAsked : adPc[c] # "ringing"
  /\ \A c \in adHeld \ adLoose : AdBusy(c) \/ c \in adEvents

AdInv == AdmissionTypeOK /\ CountExact /\ BusyHeld

-------------------------------------------------------------------------------
(* ConcurrencyGuard. *)

LEMMA HeldFinite ==
  ASSUME AdmissionTypeOK
  PROVE  IsFiniteSet(adHeld)
  BY AdmissionAssumption, FS_Subset DEF AdmissionTypeOK

LEMMA AcquireExact ==
  ASSUME AdmissionTypeOK, CountExact, NEW c \in AdCalls, AdRoom(c), AdAcquire(c)
  PROVE  CountExact' /\ adCount' \in Nat /\ adHeld' \subseteq AdCalls
<1>1. IsFiniteSet(adHeld) /\ adCount \in Nat /\ adHeld \subseteq AdCalls /\ AdLimit \in Nat
  BY HeldFinite, AdmissionAssumption DEF AdmissionTypeOK
<1>2. Cardinality(adHeld \cup {c}) =
        IF c \in adHeld THEN Cardinality(adHeld) ELSE Cardinality(adHeld) + 1
  BY <1>1, FS_AddElement
<1> QED
  BY <1>1, <1>2 DEF CountExact, AdRoom, AdAcquire

LEMMA ReleaseExact ==
  ASSUME AdmissionTypeOK, CountExact, NEW c \in AdCalls, AdRelease(c)
  PROVE  CountExact' /\ adCount' \in Nat /\ adHeld' \subseteq AdCalls
<1>1. IsFiniteSet(adHeld) /\ adCount \in Nat /\ adHeld \subseteq AdCalls /\ AdLimit \in Nat
  BY HeldFinite, AdmissionAssumption DEF AdmissionTypeOK
<1>2. Cardinality(adHeld \ {c}) =
        IF c \in adHeld THEN Cardinality(adHeld) - 1 ELSE Cardinality(adHeld)
  BY <1>1, FS_RemoveElement
<1>3. c \in adHeld => adCount > 0
  <2>1. SUFFICES ASSUME c \in adHeld PROVE Cardinality(adHeld) # 0
    BY <1>1 DEF CountExact
  <2> QED
    BY <1>1, <2>1, FS_EmptySet
<1> QED
  BY <1>1, <1>2, <1>3 DEF CountExact, AdRelease

-------------------------------------------------------------------------------
(* The steps. *)

LEMMA AdInitInv == AdmissionInit => AdInv
<1> SUFFICES ASSUME AdmissionInit PROVE AdInv
  OBVIOUS
<1>1. Cardinality({}) = 0
  BY FS_EmptySet
<1> QED
  BY <1>1, AdmissionAssumption
  DEF AdmissionInit, AdInv, AdmissionTypeOK, CountExact, BusyHeld, AdPC

LEMMA AdAdmitInv ==
  ASSUME AdInv, NEW c \in AdCalls, AdAdmit(c)
  PROVE  AdInv'
<1>1. CountExact' /\ adCount' \in Nat /\ adHeld' \subseteq AdCalls
  BY AcquireExact DEF AdInv, AdAdmit
<1>2. AdmissionTypeOK'
  BY <1>1 DEF AdInv, AdmissionTypeOK, AdAdmit, AdGoto, AdPC
<1>3. BusyHeld'
  BY DEF AdInv, AdmissionTypeOK, BusyHeld, AdAdmit, AdAcquire, AdGoto, AdBusy
<1> QED
  BY <1>1, <1>2, <1>3 DEF AdInv

LEMMA AdAdmitUnheardInv ==
  ASSUME AdInv, NEW c \in AdCalls, AdAdmitUnheard(c)
  PROVE  AdInv'
<1>1. CountExact' /\ adCount' \in Nat /\ adHeld' \subseteq AdCalls
  BY AcquireExact DEF AdInv, AdAdmitUnheard
<1>2. AdmissionTypeOK'
  BY <1>1 DEF AdInv, AdmissionTypeOK, AdAdmitUnheard
<1>3. BusyHeld'
  BY DEF AdInv, AdmissionTypeOK, BusyHeld, AdAdmitUnheard, AdAcquire, AdBusy
<1> QED
  BY <1>1, <1>2, <1>3 DEF AdInv

\* The steps that leave the guard alone.
LEMMA AdPassingInv ==
  ASSUME AdInv, NEW c \in AdCalls,
         \/ AdDecline(c) \/ AdFailOpen(c) \/ AdReject(c)
         \/ AdAnswer(c) \/ AdEnd(c) \/ AdWorkerDies(c)
  PROVE  AdInv'
<1>1. UNCHANGED <<adHeld, adCount, adRestarts, adAdmitted, adForgot>>
  BY DEF AdDecline, AdFailOpen, AdReject, AdAnswer, AdEnd, AdWorkerDies, adGhost
<1>2. CountExact'
  BY <1>1 DEF AdInv, CountExact
<1>3. PICK next \in AdPC : adPc' = [adPc EXCEPT ![c] = next] /\ next # "ringing"
  BY DEF AdDecline, AdFailOpen, AdReject, AdAnswer, AdEnd, AdWorkerDies, AdGoto, AdPC
<1>4. /\ adEvents' \in {adEvents, adEvents \cup {c}}
      /\ adLoose' \in {adLoose, adLoose \cup {c}}
      /\ adAsked' \in {adAsked, adAsked \cup {c}}
  BY DEF AdDecline, AdFailOpen, AdReject, AdAnswer, AdEnd, AdWorkerDies, AdLastEvent, adGhost
<1>5. AdmissionTypeOK'
  BY <1>1, <1>3, <1>4 DEF AdInv, AdmissionTypeOK
<1>6. AdBusy(c)' => (AdBusy(c) \/ adPc[c] = "ringing") /\ adEvents' = adEvents
  BY DEF AdInv, AdmissionTypeOK, AdBusy, AdDecline, AdFailOpen, AdReject, AdAnswer, AdEnd,
         AdWorkerDies, AdGoto
<1>7. c \in adEvents' => ~AdBusy(c)'
  BY <1>6 DEF AdInv, BusyHeld
<1>8. c \in adHeld \ adLoose' => AdBusy(c)' \/ c \in adEvents'
  BY <1>3 DEF AdInv, AdmissionTypeOK, BusyHeld, AdBusy, AdDecline, AdFailOpen, AdReject, AdAnswer,
              AdEnd, AdWorkerDies, AdLastEvent, AdGoto, adGhost
<1>9. BusyHeld'
  BY <1>1, <1>3, <1>4, <1>6, <1>7, <1>8 DEF AdInv, AdmissionTypeOK, BusyHeld, AdBusy
<1> QED
  BY <1>2, <1>5, <1>9 DEF AdInv

LEMMA AdWorkerReleasesInv ==
  ASSUME AdInv, NEW c \in AdCalls, AdWorkerReleases(c)
  PROVE  AdInv'
<1>1. CountExact' /\ adCount' \in Nat /\ adHeld' \subseteq AdCalls
  BY ReleaseExact DEF AdInv, AdWorkerReleases, AdmissionTypeOK, CountExact
<1>2. adHeld \ {c} \subseteq adHeld' /\ adHeld' \subseteq adHeld
  BY DEF AdWorkerReleases, AdRelease
<1>3. AdmissionTypeOK'
  BY <1>1 DEF AdInv, AdmissionTypeOK, AdWorkerReleases, AdGoto, AdPC, adGhost
<1>4. BusyHeld'
  BY <1>2 DEF AdInv, AdmissionTypeOK, BusyHeld, AdWorkerReleases, AdGoto, AdBusy, adGhost
<1> QED
  BY <1>1, <1>3, <1>4 DEF AdInv

LEMMA AdHubReleasesInv ==
  ASSUME AdInv, NEW c \in AdCalls, AdHubReleases(c)
  PROVE  AdInv'
<1>1. CountExact' /\ adCount' \in Nat /\ adHeld' \subseteq AdCalls
  BY ReleaseExact DEF AdInv, AdHubReleases
<1>2. adHeld' = adHeld \ {c}
  BY DEF AdHubReleases, AdRelease
<1>3. ~AdBusy(c) /\ adPc' = adPc
  BY DEF AdInv, BusyHeld, AdHubReleases
<1>4. AdmissionTypeOK'
  BY <1>1 DEF AdInv, AdmissionTypeOK, AdHubReleases, adGhost
<1>5. BusyHeld'
  BY <1>2, <1>3 DEF AdInv, BusyHeld, AdHubReleases, AdBusy, adGhost
<1> QED
  BY <1>1, <1>4, <1>5 DEF AdInv

LEMMA AdGhostHangupInv ==
  ASSUME AdInv, NEW c \in AdCalls, AdGhostHangup(c)
  PROVE  AdInv'
<1>1. CountExact' /\ adCount' \in Nat /\ adHeld' \subseteq AdCalls
  BY ReleaseExact DEF AdInv, AdGhostHangup
<1>2. adHeld' = adHeld \ {c}
  BY DEF AdGhostHangup, AdRelease
<1>3. AdmissionTypeOK'
  BY <1>1 DEF AdInv, AdmissionTypeOK, AdGhostHangup
<1>4. BusyHeld'
  BY <1>2 DEF AdInv, BusyHeld, AdGhostHangup, AdBusy
<1> QED
  BY <1>1, <1>3, <1>4 DEF AdInv

LEMMA AdRestartInv == ASSUME AdInv, AdRestart PROVE AdInv'
<1>1. CountExact'
  BY FS_EmptySet, AdmissionAssumption DEF AdRestart, CountExact
<1>2. AdmissionTypeOK'
  BY DEF AdInv, AdmissionTypeOK, AdRestart
<1>3. BusyHeld'
  BY DEF AdInv, BusyHeld, AdRestart, AdBusy
<1> QED
  BY <1>1, <1>2, <1>3 DEF AdInv

LEMMA AdNextInv == AdInv /\ [AdmissionNext]_admissionVars => AdInv'
<1> SUFFICES ASSUME AdInv, [AdmissionNext]_admissionVars PROVE AdInv'
  OBVIOUS
<1>1. ASSUME NEW c \in AdCalls,
             \/ AdAdmit(c) \/ AdDecline(c) \/ AdFailOpen(c) \/ AdAdmitUnheard(c)
             \/ AdReject(c) \/ AdAnswer(c) \/ AdEnd(c)
             \/ AdWorkerReleases(c) \/ AdHubReleases(c) \/ AdWorkerDies(c) \/ AdGhostHangup(c)
      PROVE  AdInv'
  BY <1>1, AdAdmitInv, AdAdmitUnheardInv, AdPassingInv, AdWorkerReleasesInv, AdHubReleasesInv,
     AdGhostHangupInv
<1>2. CASE AdRestart
  BY <1>2, AdRestartInv
<1>3. CASE UNCHANGED admissionVars
  BY <1>3 DEF admissionVars, adGhost, AdInv, AdmissionTypeOK, CountExact, BusyHeld, AdBusy
<1> QED
  BY <1>1, <1>2, <1>3 DEF AdmissionNext

LEMMA AdSpecInv == AdmissionSpec => []AdInv
  BY AdInitInv, AdNextInv, PTL DEF AdmissionSpec

-------------------------------------------------------------------------------
(* The theorems. *)

\* The guard, the workers and the events have their types, for any calls
\* (ConcurrencyGuard, entrypoint).
THEOREM AdmissionTypeCorrect == AdmissionSpec => []AdmissionTypeOK
<1>1. AdInv => AdmissionTypeOK
  BY DEF AdInv
<1> QED
  BY <1>1, AdSpecInv, PTL

\* For any number of calls, restarts, lost releases and answers that come late, the
\* admitted calls that no restart and no supervisor's hang-up has forgotten stay within
\* the trunk's limit; and a place is held by a call that is on the phone or has its
\* release to come, but for the losses named (acquire, release, close_ghost_call).
THEOREM TrunkStaysWithinLimit == AdmissionSpec => []TrunkWithinLimit
<1>1. ASSUME AdInv PROVE TrunkWithinLimit
  <2> DEFINE Busy == {c \in adAdmitted \ adForgot : AdBusy(c)}
  <2>1. Busy \subseteq adHeld
    BY <1>1 DEF AdInv, BusyHeld
  <2>2. IsFiniteSet(adHeld)
    BY <1>1, HeldFinite DEF AdInv
  <2>3. IsFiniteSet(Busy) /\ Cardinality(Busy) <= Cardinality(adHeld)
    BY <2>1, <2>2, FS_Subset
  <2>4. Cardinality(Busy) \in Nat /\ Cardinality(adHeld) \in Nat /\ AdLimit \in Nat
    BY <2>2, <2>3, FS_CardinalityType, AdmissionAssumption
  <2>5. adCount = Cardinality(adHeld) /\ adCount <= AdLimit
    BY <1>1 DEF AdInv, CountExact
  <2>6. Cardinality(Busy) <= AdLimit
    BY <2>3, <2>4, <2>5
  <2>7. \A c \in adHeld \ adLoose : AdBusy(c) \/ c \in adEvents
    BY <1>1 DEF AdInv, BusyHeld
  <2> QED
    BY <2>5, <2>6, <2>7 DEF TrunkWithinLimit
<1> QED
  BY <1>1, AdSpecInv, PTL

--------------------------------------------------------------------------------
(* Transfer. *)

\* Where the transfer can be, with what settings.
TrPhases ==
  /\ trPc \in {"hold", "confirm", "drop", "unhold", "thanks"} => trKey
  /\ trPc \in {"hold", "brief", "confirm", "drop", "unhold", "thanks", "leave"} => trMode = "warm"
  /\ trRaised => trPc \in {"unhold", "talk", "over"} /\ ~trTaken
  /\ trTaken => trPc \notin {"idle", "dial", "hold", "brief", "confirm", "drop"}
  /\ trAssistant # "on" => trPc \in {"bridged", "over"}
  /\ trListen => trPc \in {"bridged", "over"} /\ trMode = "warm"

\* The caller is held only while somebody is briefed or asked for the key.
TrHoldEnds ==
  ~trFault /\ trHeld # {} => trKey /\ trPc \in {"brief", "confirm", "drop", "unhold", "over"}

\* One person at a time, and none who did not take the call once it is decided.
TrOneHuman ==
  ~trFault =>
    /\ trHumans \subseteq {trLeg}
    /\ trPc \in {"idle", "dial"} \/ trMode = "cold" => trHumans = {}
    /\ trPc = "unhold" /\ ~trTaken /\ ~trRaised => trHumans = {}
    /\ trPc = "talk" => trHumans = {} \/ trRaised
    /\ trKey /\ (\/ trPc = "unhold" /\ trTaken
                 \/ trPc \in {"result", "undo", "thanks", "leave", "bridged"})
         => trHumans \subseteq trPressed

\* Who took the call is there, unless they hung up, which ends it when it is heard.
TrHumanStays ==
  ~trFault /\ ~trUnheard /\ trMode = "warm" =>
    /\ \/ trPc \in {"hold", "brief", "result", "thanks", "leave"}
       \/ trPc = "unhold" /\ trTaken
       => trLeg \in trHumans
    /\ trPc = "bridged" /\ trListen => trLeg \in trHumans \/ trHangup

TrInv == TransferTypeOK /\ TrPhases /\ TrHoldEnds /\ TrOneHuman /\ TrHumanStays

USE DEF TransferTypeOK, TrLegs

LEMMA TrInitInv == TransferInit => TrInv
<1> SUFFICES ASSUME TransferInit PROVE TrInv
  OBVIOUS
<1>1. TransferTypeOK
  <2>1. 1 \in TrLegs
    BY TransferAssumption
  <2> QED
    BY <2>1 DEF TransferInit, TrPC
<1>2. TrPhases /\ TrHoldEnds /\ TrOneHuman /\ TrHumanStays
  BY DEF TransferInit, TrPhases, TrHoldEnds, TrOneHuman, TrHumanStays
<1> QED
  BY <1>1, <1>2 DEF TrInv

-------------------------------------------------------------------------------
(* The engine. *)

LEMMA TrBeginInv == ASSUME TrInv, TrBegin PROVE TrInv'
<1>1. TransferTypeOK'
  <2>1. trPc' \in TrPC
    BY DEF TrInv, TrPC, TrBegin, trSettings, trRoom, trFlags, trGhost
  <2>2. trPlan' \in TrLegs /\ trLeg' \in TrLegs
    BY TransferAssumption DEF TrInv, TrBegin, trSettings, trRoom, trFlags, trGhost
  <2>3. trHumans' \subseteq TrLegs /\ trHeld' \subseteq TrLegs /\ trPressed' \subseteq TrLegs
    BY DEF TrInv, TrBegin, trSettings, trRoom, trFlags, trGhost
  <2>4. /\ trMode' \in {"cold", "warm"} /\ trAssistant' \in {"on", "mute", "gone"}
        /\ trKey' \in BOOLEAN /\ trRecord' \in BOOLEAN
    BY DEF TrInv, TrBegin, trSettings, trRoom, trFlags, trGhost
  <2>5. /\ trTaken' \in BOOLEAN /\ trRaised' \in BOOLEAN /\ trCaller' \in BOOLEAN
        /\ trGone' \in BOOLEAN /\ trDone' \in BOOLEAN /\ trListen' \in BOOLEAN
        /\ trHangup' \in BOOLEAN /\ trFault' \in BOOLEAN /\ trUnheard' \in BOOLEAN
    BY Zenon DEF TrInv, TrBegin, trSettings, trRoom, trFlags, trGhost
  <2> QED
    BY <2>1, <2>2, <2>3, <2>4, <2>5
<1>2. TrPhases'
  BY DEF TrInv, TrPhases, TrBegin, trSettings, trRoom, trFlags, trGhost
<1>3. TrHoldEnds'
  BY DEF TrInv, TrPhases, TrHoldEnds, TrBegin, trSettings, trRoom, trFlags, trGhost
<1>4. TrOneHuman'
  BY DEF TrInv, TrPhases, TrOneHuman, TrBegin, trSettings, trRoom, trFlags, trGhost
<1>5. TrHumanStays'
  BY DEF TrInv, TrPhases, TrOneHuman, TrHumanStays, TrBegin, trSettings, trRoom, trFlags, trGhost
<1> QED
  BY <1>1, <1>2, <1>3, <1>4, <1>5 DEF TrInv

LEMMA TrDialInv == ASSUME TrInv, TrDial PROVE TrInv'
<1>1. TransferTypeOK'
  <2>1. trPc' \in TrPC
    BY DEF TrInv, TrPC, TrDial, TrNext, trSettings, trRoom, trFlags, trGhost
  <2>2. trPlan' \in TrLegs /\ trLeg' \in TrLegs
    BY TransferAssumption DEF TrInv, TrDial, TrNext, trSettings, trRoom, trFlags, trGhost
  <2>3. trHumans' \subseteq TrLegs /\ trHeld' \subseteq TrLegs /\ trPressed' \subseteq TrLegs
    BY DEF TrInv, TrDial, TrNext, trSettings, trRoom, trFlags, trGhost
  <2>4. /\ trMode' \in {"cold", "warm"} /\ trAssistant' \in {"on", "mute", "gone"}
        /\ trKey' \in BOOLEAN /\ trRecord' \in BOOLEAN
    BY DEF TrInv, TrDial, TrNext, trSettings, trRoom, trFlags, trGhost
  <2>5. /\ trTaken' \in BOOLEAN /\ trRaised' \in BOOLEAN /\ trCaller' \in BOOLEAN
        /\ trGone' \in BOOLEAN /\ trDone' \in BOOLEAN /\ trListen' \in BOOLEAN
        /\ trHangup' \in BOOLEAN /\ trFault' \in BOOLEAN /\ trUnheard' \in BOOLEAN
    BY Zenon DEF TrInv, TrDial, TrNext, trSettings, trRoom, trFlags, trGhost
  <2> QED
    BY <2>1, <2>2, <2>3, <2>4, <2>5
<1>2. TrPhases'
  BY DEF TrInv, TrPhases, TrDial, TrNext, trSettings, trRoom, trFlags, trGhost
<1>3. TrHoldEnds'
  BY DEF TrInv, TrPhases, TrHoldEnds, TrDial, TrNext, trSettings, trRoom, trFlags, trGhost
<1>4. TrOneHuman'
  BY DEF TrInv, TrPhases, TrOneHuman, TrDial, TrNext, trSettings, trRoom, trFlags, trGhost
<1>5. TrHumanStays'
  BY DEF TrInv, TrPhases, TrOneHuman, TrHumanStays, TrDial, TrNext, trSettings, trRoom, trFlags, trGhost
<1> QED
  BY <1>1, <1>2, <1>3, <1>4, <1>5 DEF TrInv

LEMMA TrReferInv == ASSUME TrInv, TrRefer PROVE TrInv'
<1>1. TransferTypeOK'
  <2>1. trPc' \in TrPC
    BY DEF TrInv, TrPC, TrRefer, TrNext, trSettings, trRoom, trFlags, trGhost
  <2>2. trPlan' \in TrLegs /\ trLeg' \in TrLegs
    BY TransferAssumption DEF TrInv, TrRefer, TrNext, trSettings, trRoom, trFlags, trGhost
  <2>3. trHumans' \subseteq TrLegs /\ trHeld' \subseteq TrLegs /\ trPressed' \subseteq TrLegs
    BY DEF TrInv, TrRefer, TrNext, trSettings, trRoom, trFlags, trGhost
  <2>4. /\ trMode' \in {"cold", "warm"} /\ trAssistant' \in {"on", "mute", "gone"}
        /\ trKey' \in BOOLEAN /\ trRecord' \in BOOLEAN
    BY DEF TrInv, TrRefer, TrNext, trSettings, trRoom, trFlags, trGhost
  <2>5. /\ trTaken' \in BOOLEAN /\ trRaised' \in BOOLEAN /\ trCaller' \in BOOLEAN
        /\ trGone' \in BOOLEAN /\ trDone' \in BOOLEAN /\ trListen' \in BOOLEAN
        /\ trHangup' \in BOOLEAN /\ trFault' \in BOOLEAN /\ trUnheard' \in BOOLEAN
    BY Zenon DEF TrInv, TrRefer, TrNext, trSettings, trRoom, trFlags, trGhost
  <2> QED
    BY <2>1, <2>2, <2>3, <2>4, <2>5
<1>2. TrPhases'
  BY DEF TrInv, TrPhases, TrRefer, TrNext, trSettings, trRoom, trFlags, trGhost
<1>3. TrHoldEnds'
  BY DEF TrInv, TrPhases, TrHoldEnds, TrRefer, TrNext, trSettings, trRoom, trFlags, trGhost
<1>4. TrOneHuman'
  BY DEF TrInv, TrPhases, TrOneHuman, TrRefer, TrNext, trSettings, trRoom, trFlags, trGhost
<1>5. TrHumanStays'
  BY DEF TrInv, TrPhases, TrOneHuman, TrHumanStays, TrRefer, TrNext, trSettings, trRoom, trFlags, trGhost
<1> QED
  BY <1>1, <1>2, <1>3, <1>4, <1>5 DEF TrInv

LEMMA TrHoldInv == ASSUME TrInv, TrHold PROVE TrInv'
<1>1. TransferTypeOK'
  <2>1. trPc' \in TrPC
    BY DEF TrInv, TrPC, TrHold, trSettings, trRoom, trFlags, trGhost
  <2>2. trPlan' \in TrLegs /\ trLeg' \in TrLegs
    BY TransferAssumption DEF TrInv, TrHold, trSettings, trRoom, trFlags, trGhost
  <2>3. trHumans' \subseteq TrLegs /\ trHeld' \subseteq TrLegs /\ trPressed' \subseteq TrLegs
    BY DEF TrInv, TrHold, trSettings, trRoom, trFlags, trGhost
  <2>4. /\ trMode' \in {"cold", "warm"} /\ trAssistant' \in {"on", "mute", "gone"}
        /\ trKey' \in BOOLEAN /\ trRecord' \in BOOLEAN
    BY DEF TrInv, TrHold, trSettings, trRoom, trFlags, trGhost
  <2>5. /\ trTaken' \in BOOLEAN /\ trRaised' \in BOOLEAN /\ trCaller' \in BOOLEAN
        /\ trGone' \in BOOLEAN /\ trDone' \in BOOLEAN /\ trListen' \in BOOLEAN
        /\ trHangup' \in BOOLEAN /\ trFault' \in BOOLEAN /\ trUnheard' \in BOOLEAN
    BY Zenon DEF TrInv, TrHold, trSettings, trRoom, trFlags, trGhost
  <2> QED
    BY <2>1, <2>2, <2>3, <2>4, <2>5
<1>2. TrPhases'
  BY DEF TrInv, TrPhases, TrHold, trSettings, trRoom, trFlags, trGhost
<1>3. TrHoldEnds'
  BY DEF TrInv, TrPhases, TrHoldEnds, TrHold, trSettings, trRoom, trFlags, trGhost
<1>4. TrOneHuman'
  BY DEF TrInv, TrPhases, TrOneHuman, TrHold, trSettings, trRoom, trFlags, trGhost
<1>5. TrHumanStays'
  BY DEF TrInv, TrPhases, TrOneHuman, TrHumanStays, TrHold, trSettings, trRoom, trFlags, trGhost
<1> QED
  BY <1>1, <1>2, <1>3, <1>4, <1>5 DEF TrInv

LEMMA TrUnholdInv == ASSUME TrInv, TrUnhold PROVE TrInv'
<1>1. TransferTypeOK'
  <2>1. trPc' \in TrPC
    BY DEF TrInv, TrPC, TrUnhold, TrNext, trSettings, trRoom, trFlags, trGhost
  <2>2. trPlan' \in TrLegs /\ trLeg' \in TrLegs
    BY TransferAssumption DEF TrInv, TrUnhold, TrNext, trSettings, trRoom, trFlags, trGhost
  <2>3. trHumans' \subseteq TrLegs /\ trHeld' \subseteq TrLegs /\ trPressed' \subseteq TrLegs
    BY DEF TrInv, TrUnhold, TrNext, trSettings, trRoom, trFlags, trGhost
  <2>4. /\ trMode' \in {"cold", "warm"} /\ trAssistant' \in {"on", "mute", "gone"}
        /\ trKey' \in BOOLEAN /\ trRecord' \in BOOLEAN
    BY DEF TrInv, TrUnhold, TrNext, trSettings, trRoom, trFlags, trGhost
  <2>5. /\ trTaken' \in BOOLEAN /\ trRaised' \in BOOLEAN /\ trCaller' \in BOOLEAN
        /\ trGone' \in BOOLEAN /\ trDone' \in BOOLEAN /\ trListen' \in BOOLEAN
        /\ trHangup' \in BOOLEAN /\ trFault' \in BOOLEAN /\ trUnheard' \in BOOLEAN
    BY Zenon DEF TrInv, TrUnhold, TrNext, trSettings, trRoom, trFlags, trGhost
  <2> QED
    BY <2>1, <2>2, <2>3, <2>4, <2>5
<1>2. TrPhases'
  BY DEF TrInv, TrPhases, TrUnhold, TrNext, trSettings, trRoom, trFlags, trGhost
<1>3. TrHoldEnds'
  BY DEF TrInv, TrPhases, TrHoldEnds, TrUnhold, TrNext, trSettings, trRoom, trFlags, trGhost
<1>4. TrOneHuman'
  BY DEF TrInv, TrPhases, TrOneHuman, TrUnhold, TrNext, trSettings, trRoom, trFlags, trGhost
<1>5. TrHumanStays'
  BY DEF TrInv, TrPhases, TrOneHuman, TrHumanStays, TrUnhold, TrNext, trSettings, trRoom, trFlags, trGhost
<1> QED
  BY <1>1, <1>2, <1>3, <1>4, <1>5 DEF TrInv

LEMMA TrBriefInv == ASSUME TrInv, TrBrief PROVE TrInv'
<1>1. TransferTypeOK'
  <2>1. trPc' \in TrPC
    BY DEF TrInv, TrPC, TrBrief, trSettings, trRoom, trFlags, trGhost
  <2>2. trPlan' \in TrLegs /\ trLeg' \in TrLegs
    BY TransferAssumption DEF TrInv, TrBrief, trSettings, trRoom, trFlags, trGhost
  <2>3. trHumans' \subseteq TrLegs /\ trHeld' \subseteq TrLegs /\ trPressed' \subseteq TrLegs
    BY DEF TrInv, TrBrief, trSettings, trRoom, trFlags, trGhost
  <2>4. /\ trMode' \in {"cold", "warm"} /\ trAssistant' \in {"on", "mute", "gone"}
        /\ trKey' \in BOOLEAN /\ trRecord' \in BOOLEAN
    BY DEF TrInv, TrBrief, trSettings, trRoom, trFlags, trGhost
  <2>5. /\ trTaken' \in BOOLEAN /\ trRaised' \in BOOLEAN /\ trCaller' \in BOOLEAN
        /\ trGone' \in BOOLEAN /\ trDone' \in BOOLEAN /\ trListen' \in BOOLEAN
        /\ trHangup' \in BOOLEAN /\ trFault' \in BOOLEAN /\ trUnheard' \in BOOLEAN
    BY Zenon DEF TrInv, TrBrief, trSettings, trRoom, trFlags, trGhost
  <2> QED
    BY <2>1, <2>2, <2>3, <2>4, <2>5
<1>2. TrPhases'
  BY DEF TrInv, TrPhases, TrBrief, trSettings, trRoom, trFlags, trGhost
<1>3. TrHoldEnds'
  BY DEF TrInv, TrPhases, TrHoldEnds, TrBrief, trSettings, trRoom, trFlags, trGhost
<1>4. TrOneHuman'
  BY DEF TrInv, TrPhases, TrOneHuman, TrBrief, trSettings, trRoom, trFlags, trGhost
<1>5. TrHumanStays'
  BY DEF TrInv, TrPhases, TrOneHuman, TrHumanStays, TrBrief, trSettings, trRoom, trFlags, trGhost
<1> QED
  BY <1>1, <1>2, <1>3, <1>4, <1>5 DEF TrInv

LEMMA TrConfirmInv == ASSUME TrInv, TrConfirm PROVE TrInv'
<1>1. TransferTypeOK'
  <2>1. trPc' \in TrPC
    BY DEF TrInv, TrPC, TrConfirm, trSettings, trRoom, trFlags, trGhost
  <2>2. trPlan' \in TrLegs /\ trLeg' \in TrLegs
    BY TransferAssumption DEF TrInv, TrConfirm, trSettings, trRoom, trFlags, trGhost
  <2>3. trHumans' \subseteq TrLegs /\ trHeld' \subseteq TrLegs /\ trPressed' \subseteq TrLegs
    BY DEF TrInv, TrConfirm, trSettings, trRoom, trFlags, trGhost
  <2>4. /\ trMode' \in {"cold", "warm"} /\ trAssistant' \in {"on", "mute", "gone"}
        /\ trKey' \in BOOLEAN /\ trRecord' \in BOOLEAN
    BY DEF TrInv, TrConfirm, trSettings, trRoom, trFlags, trGhost
  <2>5. /\ trTaken' \in BOOLEAN /\ trRaised' \in BOOLEAN /\ trCaller' \in BOOLEAN
        /\ trGone' \in BOOLEAN /\ trDone' \in BOOLEAN /\ trListen' \in BOOLEAN
        /\ trHangup' \in BOOLEAN /\ trFault' \in BOOLEAN /\ trUnheard' \in BOOLEAN
    BY Zenon DEF TrInv, TrConfirm, trSettings, trRoom, trFlags, trGhost
  <2> QED
    BY <2>1, <2>2, <2>3, <2>4, <2>5
<1>2. TrPhases'
  BY DEF TrInv, TrPhases, TrConfirm, trSettings, trRoom, trFlags, trGhost
<1>3. TrHoldEnds'
  BY DEF TrInv, TrPhases, TrHoldEnds, TrConfirm, trSettings, trRoom, trFlags, trGhost
<1>4. TrOneHuman'
  BY DEF TrInv, TrPhases, TrOneHuman, TrConfirm, trSettings, trRoom, trFlags, trGhost
<1>5. TrHumanStays'
  BY DEF TrInv, TrPhases, TrOneHuman, TrHumanStays, TrConfirm, trSettings, trRoom, trFlags, trGhost
<1> QED
  BY <1>1, <1>2, <1>3, <1>4, <1>5 DEF TrInv

LEMMA TrDropInv == ASSUME TrInv, TrDrop PROVE TrInv'
<1>1. TransferTypeOK'
  <2>1. trPc' \in TrPC
    BY DEF TrInv, TrPC, TrDrop, TrDropped, trSettings, trRoom, trFlags, trGhost
  <2>2. trPlan' \in TrLegs /\ trLeg' \in TrLegs
    BY TransferAssumption DEF TrInv, TrDrop, TrDropped, trSettings, trRoom, trFlags, trGhost
  <2>3. trHumans' \subseteq TrLegs /\ trHeld' \subseteq TrLegs /\ trPressed' \subseteq TrLegs
    BY DEF TrInv, TrDrop, TrDropped, trSettings, trRoom, trFlags, trGhost
  <2>4. /\ trMode' \in {"cold", "warm"} /\ trAssistant' \in {"on", "mute", "gone"}
        /\ trKey' \in BOOLEAN /\ trRecord' \in BOOLEAN
    BY DEF TrInv, TrDrop, TrDropped, trSettings, trRoom, trFlags, trGhost
  <2>5. /\ trTaken' \in BOOLEAN /\ trRaised' \in BOOLEAN /\ trCaller' \in BOOLEAN
        /\ trGone' \in BOOLEAN /\ trDone' \in BOOLEAN /\ trListen' \in BOOLEAN
        /\ trHangup' \in BOOLEAN /\ trFault' \in BOOLEAN /\ trUnheard' \in BOOLEAN
    BY Zenon DEF TrInv, TrDrop, TrDropped, trSettings, trRoom, trFlags, trGhost
  <2> QED
    BY <2>1, <2>2, <2>3, <2>4, <2>5
<1>2. TrPhases'
  BY DEF TrInv, TrPhases, TrDrop, TrDropped, trSettings, trRoom, trFlags, trGhost
<1>3. TrHoldEnds'
  BY DEF TrInv, TrPhases, TrHoldEnds, TrDrop, TrDropped, trSettings, trRoom, trFlags, trGhost
<1>4. TrOneHuman'
  BY DEF TrInv, TrPhases, TrOneHuman, TrDrop, TrDropped, trSettings, trRoom, trFlags, trGhost
<1>5. TrHumanStays'
  BY DEF TrInv, TrPhases, TrOneHuman, TrHumanStays, TrDrop, TrDropped, trSettings, trRoom, trFlags, trGhost
<1> QED
  BY <1>1, <1>2, <1>3, <1>4, <1>5 DEF TrInv

-------------------------------------------------------------------------------
(* The transfer tool, and the room. *)

LEMMA TrResultInv == ASSUME TrInv, TrResult PROVE TrInv'
<1>1. TransferTypeOK'
  <2>1. trPc' \in TrPC
    BY DEF TrInv, TrPC, TrResult, trSettings, trRoom, trFlags, trGhost
  <2>2. trPlan' \in TrLegs /\ trLeg' \in TrLegs
    BY TransferAssumption DEF TrInv, TrResult, trSettings, trRoom, trFlags, trGhost
  <2>3. trHumans' \subseteq TrLegs /\ trHeld' \subseteq TrLegs /\ trPressed' \subseteq TrLegs
    BY DEF TrInv, TrResult, trSettings, trRoom, trFlags, trGhost
  <2>4. /\ trMode' \in {"cold", "warm"} /\ trAssistant' \in {"on", "mute", "gone"}
        /\ trKey' \in BOOLEAN /\ trRecord' \in BOOLEAN
    BY DEF TrInv, TrResult, trSettings, trRoom, trFlags, trGhost
  <2>5. /\ trTaken' \in BOOLEAN /\ trRaised' \in BOOLEAN /\ trCaller' \in BOOLEAN
        /\ trGone' \in BOOLEAN /\ trDone' \in BOOLEAN /\ trListen' \in BOOLEAN
        /\ trHangup' \in BOOLEAN /\ trFault' \in BOOLEAN /\ trUnheard' \in BOOLEAN
    BY Zenon DEF TrInv, TrResult, trSettings, trRoom, trFlags, trGhost
  <2> QED
    BY <2>1, <2>2, <2>3, <2>4, <2>5
<1>2. TrPhases'
  <2>1. /\ trPc' \in {"undo", "bridged", "thanks", "leave"}
        /\ trPc' = "thanks" => trKey /\ trMode # "cold"
        /\ trPc' = "leave" => trMode # "cold"
    BY DEF TrInv, TrResult
  <2>2. UNCHANGED <<trMode, trKey, trRaised, trTaken, trAssistant, trListen>>
    BY DEF TrResult, trSettings, trRoom
  <2>3. ~trRaised /\ trAssistant = "on" /\ ~trListen
    BY DEF TrInv, TrPhases, TrResult
  <2> QED
    BY <2>1, <2>2, <2>3 DEF TrInv, TrPhases
<1>3. TrHoldEnds'
  BY DEF TrInv, TrPhases, TrHoldEnds, TrResult, trSettings, trRoom, trFlags, trGhost
<1>4. TrOneHuman'
  BY DEF TrInv, TrPhases, TrOneHuman, TrResult, trSettings, trRoom, trFlags, trGhost
<1>5. TrHumanStays'
  BY DEF TrInv, TrPhases, TrOneHuman, TrHumanStays, TrResult, trSettings, trRoom, trFlags, trGhost
<1> QED
  BY <1>1, <1>2, <1>3, <1>4, <1>5 DEF TrInv

LEMMA TrUndoInv == ASSUME TrInv, TrUndo PROVE TrInv'
<1>1. TransferTypeOK'
  <2>1. trPc' \in TrPC
    BY DEF TrInv, TrPC, TrUndo, TrDropped, trSettings, trRoom, trFlags, trGhost
  <2>2. trPlan' \in TrLegs /\ trLeg' \in TrLegs
    BY TransferAssumption DEF TrInv, TrUndo, TrDropped, trSettings, trRoom, trFlags, trGhost
  <2>3. trHumans' \subseteq TrLegs /\ trHeld' \subseteq TrLegs /\ trPressed' \subseteq TrLegs
    BY DEF TrInv, TrUndo, TrDropped, trSettings, trRoom, trFlags, trGhost
  <2>4. /\ trMode' \in {"cold", "warm"} /\ trAssistant' \in {"on", "mute", "gone"}
        /\ trKey' \in BOOLEAN /\ trRecord' \in BOOLEAN
    BY DEF TrInv, TrUndo, TrDropped, trSettings, trRoom, trFlags, trGhost
  <2>5. /\ trTaken' \in BOOLEAN /\ trRaised' \in BOOLEAN /\ trCaller' \in BOOLEAN
        /\ trGone' \in BOOLEAN /\ trDone' \in BOOLEAN /\ trListen' \in BOOLEAN
        /\ trHangup' \in BOOLEAN /\ trFault' \in BOOLEAN /\ trUnheard' \in BOOLEAN
    BY Zenon DEF TrInv, TrUndo, TrDropped, trSettings, trRoom, trFlags, trGhost
  <2> QED
    BY <2>1, <2>2, <2>3, <2>4, <2>5
<1>2. TrPhases'
  BY DEF TrInv, TrPhases, TrUndo, TrDropped, trSettings, trRoom, trFlags, trGhost
<1>3. TrHoldEnds'
  BY DEF TrInv, TrPhases, TrHoldEnds, TrUndo, TrDropped, trSettings, trRoom, trFlags, trGhost
<1>4. TrOneHuman'
  BY DEF TrInv, TrPhases, TrOneHuman, TrUndo, TrDropped, trSettings, trRoom, trFlags, trGhost
<1>5. TrHumanStays'
  BY DEF TrInv, TrPhases, TrOneHuman, TrHumanStays, TrUndo, TrDropped, trSettings, trRoom, trFlags, trGhost
<1> QED
  BY <1>1, <1>2, <1>3, <1>4, <1>5 DEF TrInv

LEMMA TrThanksInv == ASSUME TrInv, TrThanks PROVE TrInv'
<1>1. TransferTypeOK'
  <2>1. trPc' \in TrPC
    BY DEF TrInv, TrPC, TrThanks, trSettings, trRoom, trFlags, trGhost
  <2>2. trPlan' \in TrLegs /\ trLeg' \in TrLegs
    BY TransferAssumption DEF TrInv, TrThanks, trSettings, trRoom, trFlags, trGhost
  <2>3. trHumans' \subseteq TrLegs /\ trHeld' \subseteq TrLegs /\ trPressed' \subseteq TrLegs
    BY DEF TrInv, TrThanks, trSettings, trRoom, trFlags, trGhost
  <2>4. /\ trMode' \in {"cold", "warm"} /\ trAssistant' \in {"on", "mute", "gone"}
        /\ trKey' \in BOOLEAN /\ trRecord' \in BOOLEAN
    BY DEF TrInv, TrThanks, trSettings, trRoom, trFlags, trGhost
  <2>5. /\ trTaken' \in BOOLEAN /\ trRaised' \in BOOLEAN /\ trCaller' \in BOOLEAN
        /\ trGone' \in BOOLEAN /\ trDone' \in BOOLEAN /\ trListen' \in BOOLEAN
        /\ trHangup' \in BOOLEAN /\ trFault' \in BOOLEAN /\ trUnheard' \in BOOLEAN
    BY Zenon DEF TrInv, TrThanks, trSettings, trRoom, trFlags, trGhost
  <2> QED
    BY <2>1, <2>2, <2>3, <2>4, <2>5
<1>2. TrPhases'
  BY DEF TrInv, TrPhases, TrThanks, trSettings, trRoom, trFlags, trGhost
<1>3. TrHoldEnds'
  BY DEF TrInv, TrPhases, TrHoldEnds, TrThanks, trSettings, trRoom, trFlags, trGhost
<1>4. TrOneHuman'
  BY DEF TrInv, TrPhases, TrOneHuman, TrThanks, trSettings, trRoom, trFlags, trGhost
<1>5. TrHumanStays'
  BY DEF TrInv, TrPhases, TrOneHuman, TrHumanStays, TrThanks, trSettings, trRoom, trFlags, trGhost
<1> QED
  BY <1>1, <1>2, <1>3, <1>4, <1>5 DEF TrInv

LEMMA TrLeaveInv == ASSUME TrInv, TrLeave PROVE TrInv'
<1>1. TransferTypeOK'
  <2>1. trPc' \in TrPC
    BY DEF TrInv, TrPC, TrLeave, trSettings, trRoom, trFlags, trGhost
  <2>2. trPlan' \in TrLegs /\ trLeg' \in TrLegs
    BY TransferAssumption DEF TrInv, TrLeave, trSettings, trRoom, trFlags, trGhost
  <2>3. trHumans' \subseteq TrLegs /\ trHeld' \subseteq TrLegs /\ trPressed' \subseteq TrLegs
    BY DEF TrInv, TrLeave, trSettings, trRoom, trFlags, trGhost
  <2>4. /\ trMode' \in {"cold", "warm"} /\ trAssistant' \in {"on", "mute", "gone"}
        /\ trKey' \in BOOLEAN /\ trRecord' \in BOOLEAN
    BY DEF TrInv, TrLeave, trSettings, trRoom, trFlags, trGhost
  <2>5. /\ trTaken' \in BOOLEAN /\ trRaised' \in BOOLEAN /\ trCaller' \in BOOLEAN
        /\ trGone' \in BOOLEAN /\ trDone' \in BOOLEAN /\ trListen' \in BOOLEAN
        /\ trHangup' \in BOOLEAN /\ trFault' \in BOOLEAN /\ trUnheard' \in BOOLEAN
    BY Zenon DEF TrInv, TrLeave, trSettings, trRoom, trFlags, trGhost
  <2> QED
    BY <2>1, <2>2, <2>3, <2>4, <2>5
<1>2. TrPhases'
  BY DEF TrInv, TrPhases, TrLeave, trSettings, trRoom, trFlags, trGhost
<1>3. TrHoldEnds'
  BY DEF TrInv, TrPhases, TrHoldEnds, TrLeave, trSettings, trRoom, trFlags, trGhost
<1>4. TrOneHuman'
  BY DEF TrInv, TrPhases, TrOneHuman, TrLeave, trSettings, trRoom, trFlags, trGhost
<1>5. TrHumanStays'
  BY DEF TrInv, TrPhases, TrOneHuman, TrHumanStays, TrLeave, trSettings, trRoom, trFlags, trGhost
<1> QED
  BY <1>1, <1>2, <1>3, <1>4, <1>5 DEF TrInv

LEMMA TrCallerLeavesInv == ASSUME TrInv, TrCallerLeaves PROVE TrInv'
<1>1. TransferTypeOK'
  <2>1. trPc' \in TrPC
    BY DEF TrInv, TrPC, TrCallerLeaves, trSettings, trRoom, trFlags, trGhost
  <2>2. trPlan' \in TrLegs /\ trLeg' \in TrLegs
    BY TransferAssumption DEF TrInv, TrCallerLeaves, trSettings, trRoom, trFlags, trGhost
  <2>3. trHumans' \subseteq TrLegs /\ trHeld' \subseteq TrLegs /\ trPressed' \subseteq TrLegs
    BY DEF TrInv, TrCallerLeaves, trSettings, trRoom, trFlags, trGhost
  <2>4. /\ trMode' \in {"cold", "warm"} /\ trAssistant' \in {"on", "mute", "gone"}
        /\ trKey' \in BOOLEAN /\ trRecord' \in BOOLEAN
    BY DEF TrInv, TrCallerLeaves, trSettings, trRoom, trFlags, trGhost
  <2>5. /\ trTaken' \in BOOLEAN /\ trRaised' \in BOOLEAN /\ trCaller' \in BOOLEAN
        /\ trGone' \in BOOLEAN /\ trDone' \in BOOLEAN /\ trListen' \in BOOLEAN
        /\ trHangup' \in BOOLEAN /\ trFault' \in BOOLEAN /\ trUnheard' \in BOOLEAN
    BY Zenon DEF TrInv, TrCallerLeaves, trSettings, trRoom, trFlags, trGhost
  <2> QED
    BY <2>1, <2>2, <2>3, <2>4, <2>5
<1>2. TrPhases'
  BY DEF TrInv, TrPhases, TrCallerLeaves, trSettings, trRoom, trFlags, trGhost
<1>3. TrHoldEnds'
  BY DEF TrInv, TrPhases, TrHoldEnds, TrCallerLeaves, trSettings, trRoom, trFlags, trGhost
<1>4. TrOneHuman'
  BY DEF TrInv, TrPhases, TrOneHuman, TrCallerLeaves, trSettings, trRoom, trFlags, trGhost
<1>5. TrHumanStays'
  BY DEF TrInv, TrPhases, TrOneHuman, TrHumanStays, TrCallerLeaves, trSettings, trRoom, trFlags, trGhost
<1> QED
  BY <1>1, <1>2, <1>3, <1>4, <1>5 DEF TrInv

LEMMA TrHangupEndsInv == ASSUME TrInv, TrHangupEnds PROVE TrInv'
<1>1. TransferTypeOK'
  <2>1. trPc' \in TrPC
    BY DEF TrInv, TrPC, TrHangupEnds, trSettings, trRoom, trFlags, trGhost
  <2>2. trPlan' \in TrLegs /\ trLeg' \in TrLegs
    BY TransferAssumption DEF TrInv, TrHangupEnds, trSettings, trRoom, trFlags, trGhost
  <2>3. trHumans' \subseteq TrLegs /\ trHeld' \subseteq TrLegs /\ trPressed' \subseteq TrLegs
    BY DEF TrInv, TrHangupEnds, trSettings, trRoom, trFlags, trGhost
  <2>4. /\ trMode' \in {"cold", "warm"} /\ trAssistant' \in {"on", "mute", "gone"}
        /\ trKey' \in BOOLEAN /\ trRecord' \in BOOLEAN
    BY DEF TrInv, TrHangupEnds, trSettings, trRoom, trFlags, trGhost
  <2>5. /\ trTaken' \in BOOLEAN /\ trRaised' \in BOOLEAN /\ trCaller' \in BOOLEAN
        /\ trGone' \in BOOLEAN /\ trDone' \in BOOLEAN /\ trListen' \in BOOLEAN
        /\ trHangup' \in BOOLEAN /\ trFault' \in BOOLEAN /\ trUnheard' \in BOOLEAN
    BY Zenon DEF TrInv, TrHangupEnds, trSettings, trRoom, trFlags, trGhost
  <2> QED
    BY <2>1, <2>2, <2>3, <2>4, <2>5
<1>2. TrPhases'
  BY DEF TrInv, TrPhases, TrHangupEnds, trSettings, trRoom, trFlags, trGhost
<1>3. TrHoldEnds'
  BY DEF TrInv, TrPhases, TrHoldEnds, TrHangupEnds, trSettings, trRoom, trFlags, trGhost
<1>4. TrOneHuman'
  BY DEF TrInv, TrPhases, TrOneHuman, TrHangupEnds, trSettings, trRoom, trFlags, trGhost
<1>5. TrHumanStays'
  BY DEF TrInv, TrPhases, TrOneHuman, TrHumanStays, TrHangupEnds, trSettings, trRoom, trFlags, trGhost
<1> QED
  BY <1>1, <1>2, <1>3, <1>4, <1>5 DEF TrInv

LEMMA TrHumanLeavesInv ==
  ASSUME TrInv, NEW leg \in TrLegs, TrHumanLeaves(leg)
  PROVE  TrInv'
<1>1. TransferTypeOK'
  BY DEF TrInv, TrHumanLeaves, trSettings
<1>2. TrPhases' /\ TrHoldEnds'
  BY DEF TrInv, TrPhases, TrHoldEnds, TrHumanLeaves, trSettings
<1>3. TrOneHuman'
  BY DEF TrInv, TrOneHuman, TrHumanLeaves, trSettings
<1>4. TrHumanStays'
  BY DEF TrInv, TrPhases, TrHumanStays, TrHumanLeaves, trSettings
<1> QED
  BY <1>1, <1>2, <1>3, <1>4 DEF TrInv

LEMMA TrNextInv == TrInv /\ [TransferNext]_transferVars => TrInv'
<1> SUFFICES ASSUME TrInv, [TransferNext]_transferVars PROVE TrInv'
  OBVIOUS
<1>1. CASE TransferNext
  BY <1>1, TrBeginInv, TrDialInv, TrReferInv, TrHoldInv, TrUnholdInv, TrBriefInv, TrConfirmInv, TrDropInv,
     TrResultInv, TrUndoInv, TrThanksInv, TrLeaveInv, TrCallerLeavesInv, TrHangupEndsInv, TrHumanLeavesInv
  DEF TransferNext
<1>2. CASE UNCHANGED transferVars
  BY <1>2 DEF transferVars, trSettings, trRoom, trFlags, trGhost, TrInv, TrPhases, TrHoldEnds,
              TrOneHuman, TrHumanStays
<1> QED
  BY <1>1, <1>2

-------------------------------------------------------------------------------
(* The theorems. *)

LEMMA TrSpecInv == TransferSpec => []TrInv
  BY TrInitInv, TrNextInv, PTL DEF TransferSpec

\* The transfer, its room and its flags have their types, for a plan of any length
\* (TransferEngine.run).
THEOREM TransferTypeCorrect == TransferSpec => []TransferTypeOK
<1>1. TrInv => TransferTypeOK
  BY DEF TrInv
<1> QED
  BY <1>1, TrSpecInv, PTL

\* However many people are tried and whoever hangs up when, the caller is not left
\* on hold, nor with somebody who did not take the call (TransferEngine.run,
\* transfer, _leave_after_bridge).
THEOREM CallerNeverStranded == TransferSpec => []CallerNotStranded
<1>1. TrInv => CallerNotStranded
  BY DEF TrInv, TrPhases, TrHoldEnds, TrOneHuman, TrHumanStays, CallerNotStranded
<1> QED
  BY <1>1, TrSpecInv, PTL

--------------------------------------------------------------------------------
(* Approvals. *)

ApPolling == {"asked", "look", "expire", "listen"}

\* Nobody answers before the approval is stored, and what is told is told at the end.
ApStages ==
  /\ apPc = "idle" => apDoc = "absent"
  /\ apDoc = "absent" =>
       /\ apPc \in {"idle", "done"}
       /\ \A o \in ApOwners : apOwner[o] = "idle"
  /\ apPc # "done" => apTold = "nothing"
  /\ \A o \in ApOwners : apOwner[o] \in {"decide", "publish"} => apWants[o] \in ApDecisions

\* A copy nobody has written past is that of an approval still open.
ApFreshOpen == apFresh # {} => apDoc = "pending"

\* What is published is what is stored, unless an older copy was written over it.
ApPublished ==
  ~apTorn =>
    /\ \A i \in DOMAIN apHeard : apHeard[i] = apDoc
    /\ \A o \in ApOwners : apOwner[o] = "publish" => apDoc = apWants[o]

\* A worker that still polls has not read the answer.
ApUnread == apPc \in ApPolling /\ apDoc \in ApDecisions => apUnseen

ApInv ==
  /\ ApprovalsTypeOK /\ ApStages /\ ApFreshOpen /\ ApPublished /\ ApUnread /\ ApprovalStands

LEMMA ApInitInv == ApprovalsInit => ApInv
<1> SUFFICES ASSUME ApprovalsInit PROVE ApInv
  OBVIOUS
<1> USE DEF ApprovalsInit, ApDecisions, ApStatus, ApPolling
<1>1. ApprovalsTypeOK
  <2>1. apHeard \in Seq(ApDecisions)
    OBVIOUS
  <2> QED
    BY <2>1 DEF ApprovalsTypeOK
<1>2. ApStages /\ ApFreshOpen /\ ApUnread /\ ApprovalStands
  BY DEF ApStages, ApFreshOpen, ApUnread, ApprovalStands
<1>3. ApPublished
  BY DEF ApPublished
<1> QED
  BY <1>1, <1>2, <1>3 DEF ApInv

-------------------------------------------------------------------------------
(* The worker. *)

LEMMA ApAskInv == ASSUME ApInv, ApAsk PROVE ApInv'
<1> USE DEF ApDecisions, ApStatus, ApPolling
<1>1. apDoc = "absent" /\ apFresh = {} /\ apTold = "nothing"
  BY DEF ApInv, ApStages, ApFreshOpen, ApAsk
<1>2. ApprovalsTypeOK'
  BY DEF ApInv, ApprovalsTypeOK, ApAsk, apDeciding
<1>3. ApStages'
  BY <1>1 DEF ApInv, ApStages, ApAsk, apDeciding
<1>4. ApFreshOpen' /\ ApUnread' /\ ApprovalStands'
  BY <1>1 DEF ApInv, ApFreshOpen, ApUnread, ApprovalStands, ApAsk
<1>5. ApPublished'
  BY <1>1 DEF ApInv, ApprovalsTypeOK, ApStages, ApPublished, ApAsk, apDeciding
<1> QED
  BY <1>2, <1>3, <1>4, <1>5 DEF ApInv

LEMMA ApPollInv == ASSUME ApInv, ApPoll PROVE ApInv'
<1> USE DEF ApDecisions, ApStatus, ApPolling
<1>1. /\ UNCHANGED <<apDoc, apOver, apDue, apDeciding, apGhost>>
      /\ apPc = "asked"
      /\ \/ /\ apPc' = "done" /\ apTold' = "timed_out" /\ apHeard' = <<>>
         \/ apPc' = "look" /\ UNCHANGED <<apTold, apHeard>>
  BY DEF ApPoll, ApTell
<1>2. ApprovalsTypeOK'
  <2>1. apHeard' \in Seq(ApDecisions)
    <3>1. <<>> \in Seq(ApDecisions) /\ apHeard \in Seq(ApDecisions)
      BY DEF ApInv, ApprovalsTypeOK
    <3> QED
      BY <1>1, <3>1
  <2> QED
    BY <1>1, <2>1 DEF ApInv, ApprovalsTypeOK, apDeciding, apGhost
<1>3. ApStages'
  BY <1>1 DEF ApInv, ApStages, apDeciding
<1>4. ApFreshOpen' /\ ApUnread'
  BY <1>1 DEF ApInv, ApFreshOpen, ApUnread, apGhost
<1>5. ApPublished'
  BY <1>1 DEF ApInv, ApPublished, apDeciding, apGhost
<1>6. ApprovalStands'
  BY <1>1 DEF ApInv, ApStages, ApUnread, ApprovalStands, apGhost
<1> QED
  BY <1>2, <1>3, <1>4, <1>5, <1>6 DEF ApInv

LEMMA ApLookInv == ASSUME ApInv, ApLook PROVE ApInv'
<1> USE DEF ApDecisions, ApStatus, ApPolling
<1>1. apPc = "look" /\ apDoc # "absent" /\ apDoc \in ApStatus
  BY DEF ApInv, ApprovalsTypeOK, ApStages, ApLook
<1>2. CASE apDoc # "pending"
  <2>1. /\ UNCHANGED <<apDoc, apOver, apDue, apDeciding, apTorn, apFailed, apFresh>>
        /\ apPc' = "done" /\ apHeard' = <<>> /\ apHeard' \in Seq(ApDecisions)
        /\ apTold' = apDoc /\ apUnseen' = FALSE
    BY <1>1, <1>2 DEF ApLook, ApTell
  <2>2. ApprovalsTypeOK'
    BY <1>1, <1>2, <2>1 DEF ApInv, ApprovalsTypeOK, apDeciding
  <2>3. ApStages'
    BY <1>1, <2>1 DEF ApInv, ApStages, apDeciding
  <2>4. ApFreshOpen' /\ ApUnread' /\ ApprovalStands'
    BY <1>1, <1>2, <2>1 DEF ApInv, ApFreshOpen, ApUnread, ApprovalStands
  <2>5. ApPublished'
    BY <2>1 DEF ApInv, ApPublished, apDeciding
  <2> QED
    BY <2>2, <2>3, <2>4, <2>5 DEF ApInv
<1>3. CASE apDoc = "pending"
  <2>1. /\ UNCHANGED <<apDoc, apOver, apDue, apDeciding, apTorn, apFailed, apTold, apHeard>>
        /\ apPc' \in {"expire", "listen"} /\ apFresh' = apFresh \cup {ApWorker}
        /\ apUnseen' = FALSE
    BY <1>3 DEF ApLook
  <2>2. ApprovalsTypeOK'
    BY <2>1 DEF ApInv, ApprovalsTypeOK, apDeciding
  <2>3. ApStages'
    BY <1>1, <2>1 DEF ApInv, ApStages, apDeciding
  <2>4. ApFreshOpen' /\ ApUnread' /\ ApprovalStands'
    BY <1>1, <1>3, <2>1 DEF ApInv, ApStages, ApFreshOpen, ApUnread, ApprovalStands
  <2>5. ApPublished'
    BY <2>1 DEF ApInv, ApPublished, apDeciding
  <2> QED
    BY <2>2, <2>3, <2>4, <2>5 DEF ApInv
<1> QED
  BY <1>2, <1>3

\* A decision that is heard is the one that is stored.
LEMMA ApHearInv == ASSUME ApInv, ApHear PROVE ApInv'
<1> USE DEF ApDecisions, ApStatus, ApPolling
<1>1. /\ UNCHANGED <<apDoc, apOver, apDue, apDeciding, apGhost>>
      /\ apPc = "listen" /\ apHeard # <<>> /\ apHeard \in Seq(ApDecisions)
  BY DEF ApInv, ApprovalsTypeOK, ApHear
<1>2. 1 \in DOMAIN apHeard /\ Head(apHeard) = apHeard[1] /\ apHeard[1] \in ApDecisions
  BY <1>1
<1>3. /\ apPc' = "done" /\ apHeard' = <<>> /\ apHeard' \in Seq(ApDecisions)
      /\ apTold' = apHeard[1]
  BY <1>2 DEF ApHear, ApTell
<1>4. ~apTorn => apHeard[1] = apDoc
  BY <1>2 DEF ApInv, ApPublished
<1>5. ApprovalsTypeOK'
  BY <1>1, <1>2, <1>3 DEF ApInv, ApprovalsTypeOK, apDeciding, apGhost
<1>6. ApStages'
  BY <1>1, <1>3 DEF ApInv, ApStages, apDeciding
<1>7. ApFreshOpen' /\ ApUnread' /\ ApprovalStands'
  BY <1>1, <1>2, <1>3, <1>4 DEF ApInv, ApFreshOpen, ApUnread, ApprovalStands, apGhost
<1>8. ApPublished'
  BY <1>1, <1>3 DEF ApInv, ApPublished, apDeciding, apGhost
<1> QED
  BY <1>5, <1>6, <1>7, <1>8 DEF ApInv

LEMMA ApListenOnInv == ASSUME ApInv, ApListenOn PROVE ApInv'
<1> USE DEF ApDecisions, ApStatus, ApPolling
<1>1. /\ UNCHANGED <<apDoc, apOver, apDue, apTold, apDeciding, apGhost>>
      /\ apPc = "listen" /\ apPc' \in {"look", "asked"}
      /\ apHeard' = <<>> /\ apHeard' \in Seq(ApDecisions)
  BY DEF ApListenOn
<1>2. ApprovalsTypeOK'
  BY <1>1 DEF ApInv, ApprovalsTypeOK, apDeciding, apGhost
<1>3. ApStages'
  BY <1>1 DEF ApInv, ApStages, apDeciding
<1>4. ApFreshOpen' /\ ApUnread' /\ ApprovalStands'
  BY <1>1 DEF ApInv, ApFreshOpen, ApUnread, ApprovalStands, apGhost
<1>5. ApPublished'
  BY <1>1 DEF ApInv, ApPublished, apDeciding, apGhost
<1> QED
  BY <1>2, <1>3, <1>4, <1>5 DEF ApInv

LEMMA ApPollFailsInv == ASSUME ApInv, ApPollFails PROVE ApInv'
<1> USE DEF ApDecisions, ApStatus, ApPolling
<1>1. /\ UNCHANGED <<apDoc, apOver, apDue, apDeciding, apFresh, apTorn, apUnseen>>
      /\ apPc \in {"look", "expire", "listen"} /\ apPc' = "done"
      /\ apHeard' = <<>> /\ apHeard' \in Seq(ApDecisions)
      /\ apTold' = "timed_out" /\ apFailed' = TRUE
  BY DEF ApPollFails, ApTell
<1>2. ApprovalsTypeOK'
  BY <1>1 DEF ApInv, ApprovalsTypeOK, apDeciding
<1>3. ApStages'
  BY <1>1 DEF ApInv, ApStages, apDeciding
<1>4. ApFreshOpen' /\ ApUnread' /\ ApprovalStands'
  BY <1>1 DEF ApInv, ApFreshOpen, ApUnread, ApprovalStands
<1>5. ApPublished'
  BY <1>1 DEF ApInv, ApPublished, apDeciding
<1> QED
  BY <1>2, <1>3, <1>4, <1>5 DEF ApInv

-------------------------------------------------------------------------------
(* The writes. *)

\* A write that tears nothing finds the approval open: nobody has been told of an
\* answer, none is published, and none is about to be.
LEMMA ApPutOpen ==
  ASSUME ApInv, NEW p, NEW status, ApPut(p, status), ~apTorn'
  PROVE  /\ ~apTorn /\ apDoc = "pending"
         /\ apTold \notin ApDecisions \cup {"expired"}
         /\ DOMAIN apHeard = {}
         /\ \A o \in ApOwners : apOwner[o] # "publish"
<1> USE DEF ApDecisions, ApStatus
<1>1. ~apTorn /\ apDoc = "pending"
  BY DEF ApInv, ApFreshOpen, ApPut
<1>2. apTold \notin ApDecisions \cup {"expired"}
  BY <1>1 DEF ApInv, ApprovalStands
<1>3. DOMAIN apHeard = {}
  <2>1. \A i \in DOMAIN apHeard : apHeard[i] \in ApDecisions /\ apHeard[i] = "pending"
    BY <1>1 DEF ApInv, ApprovalsTypeOK, ApPublished
  <2> QED
    BY <2>1
<1>4. \A o \in ApOwners : apOwner[o] # "publish"
  BY <1>1 DEF ApInv, ApStages, ApPublished
<1> QED
  BY <1>1, <1>2, <1>3, <1>4

LEMMA ApExpireInv == ASSUME ApInv, ApExpire PROVE ApInv'
<1> USE DEF ApDecisions, ApStatus, ApPolling
<1>1. /\ UNCHANGED <<apOver, apDue, apDeciding, apUnseen, apFailed>>
      /\ apPc = "expire" /\ apPc' = "done"
      /\ apHeard' = <<>> /\ apHeard' \in Seq(ApDecisions)
      /\ apTold' = "expired" /\ apDoc' = "expired" /\ apFresh' = {}
  BY DEF ApExpire, ApTell, ApPut
<1>2. apTorn' \in BOOLEAN
  BY DEF ApExpire, ApPut
<1>3. ApprovalsTypeOK'
  BY <1>1, <1>2 DEF ApInv, ApprovalsTypeOK, apDeciding
<1>4. ApStages'
  BY <1>1 DEF ApInv, ApStages, apDeciding
<1>5. ApFreshOpen' /\ ApUnread' /\ ApprovalStands'
  BY <1>1 DEF ApFreshOpen, ApUnread, ApprovalStands
<1>6. ApPublished'
  BY <1>1, ApPutOpen DEF ApPublished, ApExpire, apDeciding
<1> QED
  BY <1>3, <1>4, <1>5, <1>6 DEF ApInv

LEMMA ApDecideInv == ASSUME ApInv, NEW o \in ApOwners, ApDecide(o) PROVE ApInv'
<1> USE DEF ApDecisions, ApStatus, ApPolling
<1>1. /\ UNCHANGED <<apOver, apDue, apPc, apTold, apHeard, apMoves, apFailed>>
      /\ apOwner[o] = "decide" /\ apWants[o] \in ApDecisions
      /\ apOwner' = [apOwner EXCEPT ![o] = "publish"]
      /\ apWants' = [apWants EXCEPT ![o] = apWants[o]]
      /\ apDoc' = apWants[o] /\ apFresh' = {} /\ apUnseen' = TRUE
  BY DEF ApInv, ApStages, ApDecide, ApPut, ApOwnerAt, apWorking
<1>2. apTorn' \in BOOLEAN
  BY DEF ApDecide, ApPut
<1>3. apOwner \in [ApOwners -> {"idle", "decide", "publish", "expire"}]
      /\ apWants \in [ApOwners -> {"pending"} \cup ApDecisions]
  BY DEF ApInv, ApprovalsTypeOK
<1>4. ApprovalsTypeOK'
  BY <1>1, <1>2, <1>3 DEF ApInv, ApprovalsTypeOK
<1>5. apDoc # "absent" /\ apPc # "idle"
  BY <1>1 DEF ApInv, ApStages
<1>6. ApStages'
  BY <1>1, <1>3, <1>5 DEF ApInv, ApStages
<1>7. ApFreshOpen' /\ ApUnread'
  BY <1>1 DEF ApFreshOpen, ApUnread
<1>8. ApprovalStands'
  BY <1>1, ApPutOpen DEF ApprovalStands, ApDecide
<1>9. ApPublished'
  <2>1. SUFFICES ASSUME ~apTorn' PROVE ApPublished'
    BY DEF ApPublished
  <2>2. DOMAIN apHeard = {} /\ \A q \in ApOwners : apOwner[q] # "publish"
    BY <2>1, ApPutOpen DEF ApDecide
  <2> QED
    BY <1>1, <1>3, <2>2 DEF ApPublished
<1> QED
  BY <1>4, <1>6, <1>7, <1>8, <1>9 DEF ApInv

LEMMA ApOwnerExpiresInv == ASSUME ApInv, NEW o \in ApOwners, ApOwnerExpires(o) PROVE ApInv'
<1> USE DEF ApDecisions, ApStatus, ApPolling
<1>1. /\ UNCHANGED <<apOver, apDue, apPc, apTold, apHeard, apMoves, apUnseen, apFailed>>
      /\ apOwner[o] = "expire"
      /\ apOwner' = [apOwner EXCEPT ![o] = "idle"]
      /\ apWants' = [apWants EXCEPT ![o] = "pending"]
      /\ apDoc' = "expired" /\ apFresh' = {}
  BY DEF ApOwnerExpires, ApPut, ApOwnerAt, apWorking
<1>2. apTorn' \in BOOLEAN
  BY DEF ApOwnerExpires, ApPut
<1>3. apOwner \in [ApOwners -> {"idle", "decide", "publish", "expire"}]
      /\ apWants \in [ApOwners -> {"pending"} \cup ApDecisions]
  BY DEF ApInv, ApprovalsTypeOK
<1>4. ApprovalsTypeOK'
  BY <1>1, <1>2, <1>3 DEF ApInv, ApprovalsTypeOK
<1>5. apDoc # "absent" /\ apPc # "idle"
  BY <1>1 DEF ApInv, ApStages
<1>6. ApStages'
  BY <1>1, <1>3, <1>5 DEF ApInv, ApStages
<1>7. ApFreshOpen' /\ ApUnread'
  BY <1>1 DEF ApFreshOpen, ApUnread
<1>8. ApprovalStands'
  BY <1>1, ApPutOpen DEF ApprovalStands, ApOwnerExpires
<1>9. ApPublished'
  <2>1. SUFFICES ASSUME ~apTorn' PROVE ApPublished'
    BY DEF ApPublished
  <2>2. DOMAIN apHeard = {} /\ \A q \in ApOwners : apOwner[q] # "publish"
    BY <2>1, ApPutOpen DEF ApOwnerExpires
  <2> QED
    BY <1>1, <1>3, <2>2 DEF ApPublished
<1> QED
  BY <1>4, <1>6, <1>7, <1>8, <1>9 DEF ApInv

-------------------------------------------------------------------------------
(* The owner's other steps, and time. *)

LEMMA ApOpenInv == ASSUME ApInv, NEW o \in ApOwners, ApOpen(o) PROVE ApInv'
<1> USE DEF ApDecisions, ApStatus, ApPolling
<1>1. /\ UNCHANGED <<apDoc, apOver, apDue, apPc, apTold, apHeard, apTorn, apUnseen, apFailed>>
      /\ apDoc = "pending" /\ apFresh' = apFresh \cup {o} /\ apMoves' \in Nat
  BY DEF ApInv, ApprovalsTypeOK, ApOpen, apWorking
<1>2. PICK next \in {"expire", "decide"}, wants \in {"pending"} \cup ApDecisions :
        /\ apOwner' = [apOwner EXCEPT ![o] = next]
        /\ apWants' = [apWants EXCEPT ![o] = wants]
        /\ next = "decide" => wants \in ApDecisions
  BY DEF ApOpen, ApOwnerAt
<1>3. apOwner \in [ApOwners -> {"idle", "decide", "publish", "expire"}]
      /\ apWants \in [ApOwners -> {"pending"} \cup ApDecisions]
  BY DEF ApInv, ApprovalsTypeOK
<1>4. ApprovalsTypeOK'
  BY <1>1, <1>2, <1>3 DEF ApInv, ApprovalsTypeOK
<1>5. ApStages'
  BY <1>1, <1>2, <1>3 DEF ApInv, ApStages
<1>6. ApFreshOpen' /\ ApUnread' /\ ApprovalStands'
  BY <1>1 DEF ApInv, ApFreshOpen, ApUnread, ApprovalStands
<1>7. ApPublished'
  BY <1>1, <1>2, <1>3 DEF ApInv, ApPublished
<1> QED
  BY <1>4, <1>5, <1>6, <1>7 DEF ApInv

LEMMA ApPublishInv == ASSUME ApInv, NEW o \in ApOwners, ApPublish(o) PROVE ApInv'
<1> USE DEF ApDecisions, ApStatus, ApPolling
<1>1. /\ UNCHANGED <<apDoc, apOver, apDue, apPc, apTold, apMoves, apGhost>>
      /\ apOwner[o] = "publish" /\ apWants[o] \in ApDecisions
      /\ apOwner' = [apOwner EXCEPT ![o] = "idle"]
      /\ apWants' = [apWants EXCEPT ![o] = "pending"]
      /\ apHeard' \in {apHeard, Append(apHeard, apWants[o])}
  BY DEF ApInv, ApStages, ApPublish, ApOwnerAt
<1>2. /\ apOwner \in [ApOwners -> {"idle", "decide", "publish", "expire"}]
      /\ apWants \in [ApOwners -> {"pending"} \cup ApDecisions]
      /\ apHeard \in Seq(ApDecisions)
  BY DEF ApInv, ApprovalsTypeOK
<1>3. apHeard' \in Seq(ApDecisions)
  BY <1>1, <1>2
<1>4. ApprovalsTypeOK'
  BY <1>1, <1>2, <1>3 DEF ApInv, ApprovalsTypeOK, apGhost
<1>5. ApStages'
  BY <1>1, <1>2 DEF ApInv, ApStages
<1>6. ApFreshOpen' /\ ApUnread' /\ ApprovalStands'
  BY <1>1 DEF ApInv, ApFreshOpen, ApUnread, ApprovalStands, apGhost
<1>7. ApPublished'
  <2>1. SUFFICES ASSUME ~apTorn PROVE ApPublished'
    BY <1>1 DEF ApPublished, apGhost
  <2>2. \A i \in DOMAIN apHeard : apHeard[i] = apDoc
    BY <2>1 DEF ApInv, ApPublished
  <2>3. apWants[o] = apDoc
    BY <1>1, <2>1 DEF ApInv, ApPublished
  <2>4. \A i \in DOMAIN apHeard' : apHeard'[i] = apDoc
    BY <1>1, <1>2, <2>2, <2>3
  <2>5. \A q \in ApOwners : apOwner'[q] = "publish" => apDoc = apWants'[q]
    BY <1>1, <1>2, <2>1 DEF ApInv, ApPublished
  <2> QED
    BY <1>1, <2>4, <2>5 DEF ApPublished
<1> QED
  BY <1>4, <1>5, <1>6, <1>7 DEF ApInv

LEMMA ApTimeInv == ASSUME ApInv, ApTime PROVE ApInv'
<1>1. /\ UNCHANGED <<apDoc, apPc, apTold, apHeard, apDeciding, apGhost>>
      /\ apOver' \in BOOLEAN /\ apDue' \in BOOLEAN
  BY DEF ApInv, ApprovalsTypeOK, ApTime
<1>2. ApprovalsTypeOK'
  BY <1>1 DEF ApInv, ApprovalsTypeOK, apDeciding, apGhost
<1>3. ApStages' /\ ApFreshOpen' /\ ApPublished' /\ ApUnread' /\ ApprovalStands'
  BY <1>1 DEF ApInv, ApStages, ApFreshOpen, ApPublished, ApUnread, ApprovalStands, apDeciding, apGhost
<1> QED
  BY <1>2, <1>3 DEF ApInv

LEMMA ApRestartInv == ASSUME ApInv, ApRestart PROVE ApInv'
<1> USE DEF ApDecisions, ApStatus, ApPolling
<1>1. /\ UNCHANGED <<apDoc, apOver, apDue, apTorn, apUnseen>>
      /\ apOwner' = [o \in ApOwners |-> "idle"] /\ apWants' = [o \in ApOwners |-> "pending"]
      /\ apFresh' = {} /\ apMoves' \in Nat
  BY DEF ApInv, ApprovalsTypeOK, ApRestart
<1>2. \/ /\ apPc \in {"look", "expire", "listen"} /\ apPc' = "done"
         /\ apTold' = "timed_out" /\ apHeard' = <<>> /\ apFailed' = TRUE
      \/ UNCHANGED <<apPc, apTold, apHeard, apFailed>>
  BY DEF ApRestart, ApTell
<1>3. apHeard' \in Seq(ApDecisions)
  <2>1. <<>> \in Seq(ApDecisions) /\ apHeard \in Seq(ApDecisions)
    BY DEF ApInv, ApprovalsTypeOK
  <2> QED
    BY <1>2, <2>1
<1>4. ApprovalsTypeOK'
  <2>1. apPc' \in {"idle", "asked", "look", "expire", "listen", "done"} /\ apFailed' \in BOOLEAN
    BY <1>2 DEF ApInv, ApprovalsTypeOK
  <2>2. apTold' \in {"nothing", "timed_out", "unavailable", "expired"} \cup ApDecisions
    BY <1>2 DEF ApInv, ApprovalsTypeOK
  <2> QED
    BY <1>1, <1>3, <2>1, <2>2 DEF ApInv, ApprovalsTypeOK
<1>5. ApStages'
  BY <1>1, <1>2 DEF ApInv, ApStages
<1>6. ApFreshOpen' /\ ApUnread' /\ ApprovalStands'
  BY <1>1, <1>2 DEF ApInv, ApFreshOpen, ApUnread, ApprovalStands
<1>7. ApPublished'
  BY <1>1, <1>2 DEF ApInv, ApPublished
<1> QED
  BY <1>4, <1>5, <1>6, <1>7 DEF ApInv

LEMMA ApNextInv == ApInv /\ [ApprovalsNext]_approvalsVars => ApInv'
<1> SUFFICES ASSUME ApInv, [ApprovalsNext]_approvalsVars PROVE ApInv'
  OBVIOUS
<1>1. ASSUME ApAsk \/ ApPoll \/ ApLook \/ ApExpire \/ ApHear \/ ApListenOn \/ ApPollFails
      PROVE  ApInv'
  BY <1>1, ApAskInv, ApPollInv, ApLookInv, ApExpireInv, ApHearInv, ApListenOnInv, ApPollFailsInv
<1>2. ASSUME NEW o \in ApOwners, ApOpen(o) \/ ApDecide(o) \/ ApPublish(o) \/ ApOwnerExpires(o)
      PROVE  ApInv'
  BY <1>2, ApOpenInv, ApDecideInv, ApPublishInv, ApOwnerExpiresInv
<1>3. ASSUME ApTime \/ ApRestart PROVE ApInv'
  BY <1>3, ApTimeInv, ApRestartInv
<1>4. CASE UNCHANGED approvalsVars
  <2>1. ApprovalsTypeOK' /\ ApStages'
    BY <1>4 DEF approvalsVars, apGhost, ApInv, ApprovalsTypeOK, ApStages
  <2>2. ApFreshOpen' /\ ApPublished' /\ ApUnread' /\ ApprovalStands'
    BY <1>4 DEF approvalsVars, apGhost, ApInv, ApFreshOpen, ApPublished, ApUnread, ApprovalStands
  <2> QED
    BY <2>1, <2>2 DEF ApInv
<1> QED
  BY <1>1, <1>2, <1>3, <1>4 DEF ApprovalsNext

LEMMA ApSpecInv == ApprovalsSpec => []ApInv
  BY ApInitInv, ApNextInv, PTL DEF ApprovalsSpec

-------------------------------------------------------------------------------
(* The theorems. *)

\* The approval, the worker and the owners' requests have their types, for any owners
\* and bounds (ApprovalService, request_owner_approval).
THEOREM ApprovalsTypeCorrect == ApprovalsSpec => []ApprovalsTypeOK
<1>1. ApInv => ApprovalsTypeOK
  BY DEF ApInv
<1> QED
  BY <1>1, ApSpecInv, PTL

\* However many people tap, what the caller was told stands, and nobody's answer is
\* passed over, unless two copies were written over each other (decide, _load, wait).
THEOREM ApprovalAlwaysStands == ApprovalsSpec => []ApprovalStands
<1>1. ApInv => ApprovalStands
  BY DEF ApInv
<1> QED
  BY <1>1, ApSpecInv, PTL

--------------------------------------------------------------------------------
(* Supervision. *)

SuFrame == [user : SuUsers, cmd : SuCommands]

\* What a request that is under way asks.
SuAsked == \A r \in SuReqs : suPc[r] # "idle" => suAsks[r] \in SuFrame

\* The worker's audio goes with its state, but for a takeover that still waits.
SuAudioKept ==
  ~suCrossed =>
    IF suTaken = SuNobody THEN suMuting = 0 /\ suAudio
    ELSE (suMuting = 1 /\ suAudio) \/ (suMuting = 0 /\ ~suAudio)

\* The call is over, or will be when the worker has read what was sent.
SuEnding == suCall = "over" \/ \E i \in DOMAIN suWire : suWire[i].cmd = "hangup"

\* Who has the call according to a command, to the board, and according to the worker
\* when it has read what was sent.
SuGives(frame) == IF frame.cmd = "takeover" THEN frame.user ELSE SuNobody
SuHolder == IF suBoard.mode = "taken_over" THEN suBoard.who ELSE SuNobody
SuGoal == IF suWire = <<>> THEN suTaken ELSE SuGives(suWire[Len(suWire)])

\* Nobody takes the call from somebody who has it.
SuChain ==
  /\ \A i \in 1 .. Len(suWire) - 1 :
       suWire[i].cmd = "takeover" /\ suWire[i + 1].cmd = "takeover" =>
         suWire[i].user = suWire[i + 1].user
  /\ suWire # <<>> /\ suWire[1].cmd = "takeover" => suTaken \in {SuNobody, suWire[1].user}

SuAlone ==
  /\ suRestarts = 0
  /\ \A q, r \in SuReqs : suPc[q] # "idle" /\ suPc[r] # "idle" => q = r

\* The board is one command behind what was sent, at most.
SuFollows ==
  /\ SuChain
  /\ suBoard.on
  /\ (\A r \in SuReqs : suPc[r] # "sent") => SuGoal = SuHolder
  /\ \A r \in SuReqs : suPc[r] = "send" => SuGives(suAsks[r]) = SuNobody \/ SuHolder \in {SuNobody, suAsks[r].user}
  /\ \A r \in SuReqs : suPc[r] = "sent" => suAsks[r].cmd # "hangup" /\ SuGoal = SuGives(suAsks[r])

SuTight == ~suLoose => SuAlone /\ (~SuEnding => SuFollows)

SuInv == SupervisionTypeOK /\ SuAsked /\ SuAudioKept /\ SuTight

LEMMA SuInitInv == SupervisionInit => SuInv
<1> SUFFICES ASSUME SupervisionInit PROVE SuInv
  OBVIOUS
<1>1. SupervisionTypeOK
  <2>1. <<>> \in Seq([user : SuUsers, cmd : SuCommands])
    OBVIOUS
  <2> QED
    BY <2>1, SupervisionAssumption DEF SupervisionInit, SupervisionTypeOK, SuBoard
<1>2. SuAsked /\ SuAudioKept
  BY DEF SupervisionInit, SuAsked, SuAudioKept
<1>3. SuAlone
  BY DEF SupervisionInit, SuAlone
<1>4. SuFollows
  BY DEF SupervisionInit, SuFollows, SuChain, SuGoal, SuHolder, SuBoard
<1> QED
  BY <1>1, <1>2, <1>3, <1>4 DEF SuInv, SuTight

-------------------------------------------------------------------------------
(* The steps of the API. *)

\* Steps that write only the board.
LEMMA SuBoardOnly ==
  ASSUME SuInv, UNCHANGED <<suPc, suAsks, suMoves, suRestarts, suWorker, suWire>>,
         suBoard' \in [on : BOOLEAN, room : BOOLEAN, who : SuUsers \cup {SuNobody},
                       mode : {"none", "listening", "taken_over"}],
         suLoose' \in BOOLEAN, suLoose => suLoose',
         ~suLoose' /\ ~SuEnding => suBoard'.on /\ SuHolder' = SuHolder
  PROVE  SuInv'
<1>1. SupervisionTypeOK'
  BY DEF SuInv, SupervisionTypeOK, suWorker
<1>2. SuAsked' /\ SuAudioKept'
  BY DEF SuInv, SuAsked, SuAudioKept, suWorker
<1>3. ASSUME ~suLoose' PROVE SuAlone' /\ (~SuEnding' => SuFollows')
  <2>1. SuAlone'
    BY <1>3 DEF SuInv, SuTight, SuAlone
  <2>2. ASSUME ~SuEnding' PROVE SuFollows'
    <3>1. ~SuEnding
      BY <2>2 DEF SuEnding, suWorker
    <3>2. SuFollows /\ suBoard'.on /\ SuHolder' = SuHolder
      BY <1>3, <3>1 DEF SuInv, SuTight
    <3>3. SuGoal' = SuGoal /\ SuChain'
      BY <3>2 DEF SuGoal, SuChain, SuFollows, suWorker
    <3> QED
      BY <3>2, <3>3 DEF SuFollows
  <2> QED
    BY <2>1, <2>2
<1> QED
  BY <1>1, <1>2, <1>3 DEF SuInv, SuTight

LEMMA SuJoinInv == ASSUME SuInv, NEW u \in SuUsers, SuJoin(u) PROVE SuInv'
<1>1. suBoard' = SuBoard(TRUE, TRUE, u, "listening")
  BY DEF SuJoin
<1>2. SuHolder = SuNobody /\ SuHolder' = SuNobody
  BY <1>1 DEF SuJoin, SuHolder, SuBoard
<1>3. suBoard'.on
  BY <1>1 DEF SuBoard
<1>4. suBoard' \in [on : BOOLEAN, room : BOOLEAN, who : SuUsers \cup {SuNobody},
                    mode : {"none", "listening", "taken_over"}]
  BY <1>1 DEF SuBoard
<1> QED
  BY <1>2, <1>3, <1>4, SuBoardOnly DEF SuJoin, SuInv, SupervisionTypeOK

LEMMA SuLeaveInv == ASSUME SuInv, NEW u \in SuUsers, SuLeave(u) PROVE SuInv'
<1>1. suBoard' = [suBoard EXCEPT !.who = SuNobody, !.mode = "none"]
  BY DEF SuLeave
<1>2. suBoard \in [on : BOOLEAN, room : BOOLEAN, who : SuUsers \cup {SuNobody},
                   mode : {"none", "listening", "taken_over"}]
  BY DEF SuInv, SupervisionTypeOK
<1>3. /\ suBoard' \in [on : BOOLEAN, room : BOOLEAN, who : SuUsers \cup {SuNobody},
                       mode : {"none", "listening", "taken_over"}]
      /\ suBoard'.on = suBoard.on /\ suBoard'.mode = "none"
  BY <1>1, <1>2
<1>4. suBoard'.on
  BY <1>3 DEF SuLeave
<1>5. ~suLoose' => SuHolder' = SuHolder
  BY <1>3 DEF SuLeave, SuHolder
<1>6. suLoose' \in BOOLEAN /\ (suLoose => suLoose')
  BY DEF SuLeave, SuInv, SupervisionTypeOK
<1> QED
  BY <1>3, <1>4, <1>5, <1>6, SuBoardOnly DEF SuLeave

LEMMA SuCommandInv ==
  ASSUME SuInv, NEW r \in SuReqs, NEW u \in SuUsers, NEW cmd \in SuCommands, SuCommand(r, u, cmd)
  PROVE  SuInv'
<1> DEFINE ask == [user |-> u, cmd |-> cmd]
<1>1. /\ suPc[r] = "idle" /\ suPc' = [suPc EXCEPT ![r] = "send"]
      /\ suAsks' = [suAsks EXCEPT ![r] = ask]
      /\ suMoves' = suMoves + 1
      /\ suLoose' = (suLoose \/ \E q \in SuReqs \ {r} : suPc[q] # "idle")
      /\ suBoard' = suBoard /\ suRestarts' = suRestarts /\ suWire' = suWire
      /\ UNCHANGED suWorker
      /\ ~SuHeldByOther(u) \/ cmd = "hangup"
  BY DEF SuCommand, SuAccept
<1>2. ask \in SuFrame /\ ask.user = u /\ ask.cmd = cmd
  BY DEF SuFrame
<1>3. /\ suPc' \in [SuReqs -> {"idle", "send", "sent"}]
      /\ suPc'[r] = "send" /\ \A q \in SuReqs \ {r} : suPc'[q] = suPc[q]
  BY <1>1 DEF SuInv, SupervisionTypeOK
<1>4. /\ suAsks' \in [SuReqs -> {SuNothing} \cup SuFrame]
      /\ suAsks'[r] = ask /\ \A q \in SuReqs \ {r} : suAsks'[q] = suAsks[q]
  <2> HIDE DEF ask
  <2> QED
    BY <1>1, <1>2 DEF SuInv, SupervisionTypeOK, SuFrame
<1> HIDE DEF ask
<1>5. SupervisionTypeOK'
  <2>1. suMoves' \in Nat /\ suLoose' \in BOOLEAN
    BY <1>1 DEF SuInv, SupervisionTypeOK
  <2> QED
    BY <1>1, <1>3, <1>4, <2>1 DEF SuInv, SupervisionTypeOK, suWorker, SuFrame
<1>6. SuAsked' /\ SuAudioKept'
  <2>1. SuAsked'
    BY <1>2, <1>3, <1>4 DEF SuInv, SuAsked
  <2>2. SuAudioKept'
    BY <1>1 DEF SuInv, SuAudioKept, suWorker
  <2> QED
    BY <2>1, <2>2
<1>7. ASSUME ~suLoose' PROVE SuAlone' /\ (~SuEnding' => SuFollows')
  <2>1. ~suLoose /\ \A q \in SuReqs \ {r} : suPc'[q] = "idle"
    BY <1>1, <1>3, <1>7
  <2>2. SuAlone'
    BY <1>1, <2>1 DEF SuInv, SuTight, SuAlone
  <2>3. ASSUME ~SuEnding' PROVE SuFollows'
    <3>1. SuFollows
      BY <1>1, <2>1, <2>3 DEF SuEnding, suWorker, SuInv, SuTight
    <3>2. SuGoal' = SuGoal /\ SuHolder' = SuHolder /\ SuChain' /\ suBoard'.on
      BY <1>1, <3>1 DEF SuGoal, SuHolder, SuChain, SuFollows, suWorker
    <3>3. \A q \in SuReqs : suPc[q] # "sent" /\ suPc'[q] # "sent"
      BY <1>1, <1>3, <2>1
    <3>4. SuGoal' = SuHolder'
      BY <3>1, <3>2, <3>3 DEF SuFollows
    <3>5. SuGives(ask) = SuNobody \/ SuHolder \in {SuNobody, ask.user}
      BY <1>1, <1>2 DEF SuGives, SuHolder, SuHeldByOther
    <3> QED
      BY <1>3, <1>4, <2>1, <3>2, <3>3, <3>4, <3>5 DEF SuFollows
  <2> QED
    BY <2>2, <2>3
<1> QED
  BY <1>5, <1>6, <1>7 DEF SuInv, SuTight

\* A frame after the others.
LEMMA SuAppended ==
  ASSUME SuInv, NEW frame \in SuFrame, suWire' = Append(suWire, frame)
  PROVE  /\ suWire' \in Seq(SuFrame) /\ suWire' # <<>>
         /\ Len(suWire') = Len(suWire) + 1
         /\ suWire'[Len(suWire')] = frame
         /\ \A i \in 1 .. Len(suWire) : suWire'[i] = suWire[i]
<1>1. suWire \in Seq(SuFrame)
  BY DEF SuInv, SupervisionTypeOK, SuFrame
<1> QED
  BY <1>1, AppendProperties

LEMMA SuSendInv == ASSUME SuInv, NEW r \in SuReqs, SuSend(r) PROVE SuInv'
<1> DEFINE ask == suAsks[r]
<1>1. /\ suPc[r] = "send" /\ suPc' = [suPc EXCEPT ![r] = "sent"]
      /\ suWire' = Append(suWire, ask)
      /\ suBoard' = suBoard /\ suAsks' = suAsks /\ suMoves' = suMoves
      /\ suRestarts' = suRestarts /\ suLoose' = suLoose
      /\ UNCHANGED suWorker
  BY DEF SuSend
<1>2. ask \in SuFrame
  BY <1>1 DEF SuInv, SuAsked
<1>3. /\ suPc' \in [SuReqs -> {"idle", "send", "sent"}]
      /\ suPc'[r] = "sent" /\ \A q \in SuReqs \ {r} : suPc'[q] = suPc[q]
  BY <1>1 DEF SuInv, SupervisionTypeOK
<1>4. /\ suWire' \in Seq(SuFrame) /\ suWire' # <<>>
      /\ Len(suWire') = Len(suWire) + 1
      /\ suWire'[Len(suWire')] = ask
      /\ \A i \in 1 .. Len(suWire) : suWire'[i] = suWire[i]
  <2> HIDE DEF ask
  <2> QED
    BY <1>1, <1>2, SuAppended
<1>5. SupervisionTypeOK'
  BY <1>1, <1>3, <1>4 DEF SuInv, SupervisionTypeOK, suWorker, SuFrame
<1>6. SuAsked' /\ SuAudioKept'
  <2>1. SuAsked'
    BY <1>1, <1>2, <1>3 DEF SuInv, SuAsked
  <2>2. SuAudioKept'
    BY <1>1 DEF SuInv, SuAudioKept, suWorker
  <2> QED
    BY <2>1, <2>2
<1>7. ASSUME ~suLoose' PROVE SuAlone' /\ (~SuEnding' => SuFollows')
  <2>1. SuAlone /\ \A q \in SuReqs \ {r} : suPc[q] = "idle" /\ suPc'[q] = "idle"
    BY <1>1, <1>3, <1>7 DEF SuInv, SuTight, SuAlone
  <2>2. SuAlone'
    BY <1>1, <2>1 DEF SuAlone
  <2>3. ASSUME ~SuEnding' PROVE SuFollows'
    <3>0. suWire \in Seq(SuFrame) /\ Len(suWire) \in Nat
      BY DEF SuInv, SupervisionTypeOK, SuFrame
    <3>1. ask.cmd # "hangup" /\ ~SuEnding
      <4>1. Len(suWire') \in DOMAIN suWire' /\ \A i \in DOMAIN suWire : i \in DOMAIN suWire'
        BY <1>4, <3>0
      <4> QED
        BY <1>1, <1>4, <2>3, <3>0, <4>1 DEF SuEnding, suWorker
    <3>2. SuFollows
      BY <1>1, <1>7, <3>1 DEF SuInv, SuTight
    <3>3. SuGoal = SuHolder /\ (SuGives(ask) = SuNobody \/ SuHolder \in {SuNobody, ask.user})
      <4>1. \A q \in SuReqs : suPc[q] # "sent"
        BY <1>1, <2>1
      <4> QED
        BY <1>1, <3>2, <4>1 DEF SuFollows
    <3>4. SuGoal' = SuGives(ask) /\ SuHolder' = SuHolder /\ suBoard'.on
      BY <1>1, <1>4, <3>2 DEF SuGoal, SuHolder, SuFollows
    <3>5. SuChain'
      <4>1. ASSUME NEW i \in 1 .. Len(suWire') - 1,
                   suWire'[i].cmd = "takeover", suWire'[i + 1].cmd = "takeover"
            PROVE  suWire'[i].user = suWire'[i + 1].user
        <5>1. CASE i < Len(suWire)
          <6>1. i \in 1 .. Len(suWire) - 1 /\ i + 1 \in 1 .. Len(suWire)
            BY <5>1, <3>0, <4>1
          <6> QED
            BY <1>4, <3>0, <3>2, <4>1, <6>1 DEF SuFollows, SuChain
        <5>2. CASE i = Len(suWire)
          <6>1. suWire'[i + 1] = ask /\ suWire'[i] = suWire[i] /\ suWire # <<>>
            BY <1>4, <3>0, <4>1, <5>2
          <6>2. SuGives(ask) = ask.user /\ SuGoal = suWire[i].user
            BY <4>1, <5>2, <6>1 DEF SuGives, SuGoal
          <6>3. suWire[i].user # SuNobody /\ ask.user # SuNobody
            <7>1. suWire[i] \in SuFrame
              BY <3>0, <4>1, <5>2
            <7> QED
              BY <1>2, <7>1, SupervisionAssumption DEF SuFrame
          <6> QED
            BY <3>3, <6>1, <6>2, <6>3
        <5> QED
          BY <1>4, <3>0, <5>1, <5>2
      <4>2. ASSUME suWire'[1].cmd = "takeover" PROVE suTaken' \in {SuNobody, suWire'[1].user}
        <5>1. CASE suWire = <<>>
          <6>1. suWire'[1] = ask /\ SuGives(ask) = ask.user /\ SuGoal = suTaken
            BY <1>4, <4>2, <5>1 DEF SuGives, SuGoal
          <6>2. ask.user # SuNobody
            BY <1>2, SupervisionAssumption DEF SuFrame
          <6> QED
            BY <1>1, <3>3, <6>1, <6>2 DEF suWorker
        <5>2. CASE suWire # <<>>
          <6>1. suWire'[1] = suWire[1]
            BY <1>4, <3>0, <5>2, EmptySeq
          <6> QED
            BY <1>1, <3>2, <4>2, <5>2, <6>1 DEF SuFollows, SuChain, suWorker
        <5> QED
          BY <5>1, <5>2
      <4> QED
        BY <4>1, <4>2 DEF SuChain
    <3> QED
      BY <1>1, <1>3, <2>1, <3>1, <3>4, <3>5 DEF SuFollows
  <2> QED
    BY <2>2, <2>3
<1> QED
  BY <1>5, <1>6, <1>7 DEF SuInv, SuTight

LEMMA SuSendRaisesInv == ASSUME SuInv, NEW r \in SuReqs, SuSendRaises(r) PROVE SuInv'
<1>1. /\ suPc[r] = "send" /\ suPc' = [suPc EXCEPT ![r] = "idle"]
      /\ suAsks' = [suAsks EXCEPT ![r] = SuNothing]
      /\ suMoves' = suMoves /\ suRestarts' = suRestarts /\ suLoose' = TRUE
      /\ UNCHANGED suWorker
  BY DEF SuSendRaises
<1>2. suWire' \in Seq(SuFrame)
  <2>1. suAsks[r] \in SuFrame
    BY <1>1 DEF SuInv, SuAsked
  <2>2. suWire' = suWire \/ suWire' = Append(suWire, suAsks[r])
    BY DEF SuSendRaises
  <2> QED
    BY <2>1, <2>2, SuAppended DEF SuInv, SupervisionTypeOK, SuFrame
<1>3. suBoard' \in [on : BOOLEAN, room : BOOLEAN, who : SuUsers \cup {SuNobody},
                    mode : {"none", "listening", "taken_over"}]
  <2>1. suBoard' = suBoard \/ suBoard' = SuBoard(FALSE, FALSE, SuNobody, "none")
    BY DEF SuSendRaises
  <2>2. CASE suBoard' = suBoard
    BY <2>2 DEF SuInv, SupervisionTypeOK
  <2>3. CASE suBoard' = SuBoard(FALSE, FALSE, SuNobody, "none")
    BY <2>3 DEF SuBoard
  <2> QED
    BY <2>1, <2>2, <2>3
<1>4. SupervisionTypeOK'
  <2>1. /\ suPc' \in [SuReqs -> {"idle", "send", "sent"}]
        /\ suAsks' \in [SuReqs -> {SuNothing} \cup SuFrame]
    BY <1>1 DEF SuInv, SupervisionTypeOK, SuFrame
  <2> QED
    BY <1>1, <1>2, <1>3, <2>1 DEF SuInv, SupervisionTypeOK, suWorker, SuFrame
<1>5. SuAsked' /\ SuAudioKept'
  <2>1. \A q \in SuReqs \ {r} : suPc'[q] = suPc[q] /\ suAsks'[q] = suAsks[q]
    BY <1>1 DEF SuInv, SupervisionTypeOK
  <2>2. suPc'[r] = "idle"
    BY <1>1 DEF SuInv, SupervisionTypeOK
  <2>3. SuAsked'
    BY <2>1, <2>2 DEF SuInv, SuAsked
  <2>4. SuAudioKept'
    BY <1>1 DEF SuInv, SuAudioKept, suWorker
  <2> QED
    BY <2>3, <2>4
<1> QED
  BY <1>1, <1>4, <1>5 DEF SuInv, SuTight

LEMMA SuSentInv == ASSUME SuInv, NEW r \in SuReqs, SuSent(r) PROVE SuInv'
<1> DEFINE ask == suAsks[r]
<1>1. /\ suPc[r] = "sent" /\ suPc' = [suPc EXCEPT ![r] = "idle"]
      /\ suAsks' = [suAsks EXCEPT ![r] = SuNothing]
      /\ suBoard' = SuWritten(ask)
      /\ suMoves' = suMoves /\ suRestarts' = suRestarts /\ suLoose' = suLoose
      /\ suWire' = suWire /\ UNCHANGED suWorker
  BY DEF SuSent
<1>2. ask \in SuFrame
  BY <1>1 DEF SuInv, SuAsked
<1>3. /\ suPc' \in [SuReqs -> {"idle", "send", "sent"}]
      /\ suAsks' \in [SuReqs -> {SuNothing} \cup SuFrame]
      /\ suPc'[r] = "idle"
      /\ \A q \in SuReqs \ {r} : suPc'[q] = suPc[q] /\ suAsks'[q] = suAsks[q]
  BY <1>1 DEF SuInv, SupervisionTypeOK, SuFrame
<1>4. /\ suBoard' \in [on : BOOLEAN, room : BOOLEAN, who : SuUsers \cup {SuNobody},
                       mode : {"none", "listening", "taken_over"}]
      /\ suBoard'.on = suBoard.on
      /\ suBoard.on /\ ask.cmd # "hangup" => SuHolder' = SuGives(ask)
  <2> DEFINE boards == [on : BOOLEAN, room : BOOLEAN, who : SuUsers \cup {SuNobody},
                        mode : {"none", "listening", "taken_over"}]
  <2>1. suBoard \in boards
    BY DEF SuInv, SupervisionTypeOK
  <2>2. ask.cmd \in {"takeover", "handback", "hangup"} /\ ask.user \in SuUsers
    BY <1>2 DEF SuFrame, SuCommands
  <2> HIDE DEF ask
  <2>3. CASE ~suBoard.on
    <3>1. suBoard' = suBoard
      BY <1>1, <2>3 DEF SuWritten
    <3> QED
      BY <2>1, <2>3, <3>1
  <2>4. CASE suBoard.on /\ ask.cmd = "takeover"
    <3>1. suBoard' = [suBoard EXCEPT !.who = ask.user, !.mode = "taken_over"]
      BY <1>1, <2>4 DEF SuWritten
    <3>2. suBoard' \in boards /\ suBoard'.on = suBoard.on /\ suBoard'.who = ask.user
          /\ suBoard'.mode = "taken_over"
      BY <2>1, <2>2, <3>1
    <3> QED
      BY <2>4, <3>2 DEF SuHolder, SuGives
  <2>5. CASE suBoard.on /\ ask.cmd = "handback"
    <3>1. suBoard' = [suBoard EXCEPT !.who = ask.user, !.mode = "listening"]
      BY <1>1, <2>5 DEF SuWritten
    <3>2. suBoard' \in boards /\ suBoard'.on = suBoard.on /\ suBoard'.mode = "listening"
      BY <2>1, <2>2, <3>1
    <3> QED
      BY <2>5, <3>2 DEF SuHolder, SuGives
  <2>6. CASE suBoard.on /\ ask.cmd = "hangup"
    <3>1. suBoard' = [suBoard EXCEPT !.who = ask.user, !.mode = "none"]
      BY <1>1, <2>6 DEF SuWritten
    <3>2. suBoard' \in boards /\ suBoard'.on = suBoard.on
      BY <2>1, <2>2, <3>1
    <3> QED
      BY <2>6, <3>2
  <2> QED
    BY <2>2, <2>3, <2>4, <2>5, <2>6
<1>5. SupervisionTypeOK'
  BY <1>1, <1>3, <1>4 DEF SuInv, SupervisionTypeOK, suWorker, SuFrame
<1>6. SuAsked' /\ SuAudioKept'
  <2>1. SuAsked'
    BY <1>3 DEF SuInv, SuAsked
  <2>2. SuAudioKept'
    BY <1>1 DEF SuInv, SuAudioKept, suWorker
  <2> QED
    BY <2>1, <2>2
<1>7. ASSUME ~suLoose' PROVE SuAlone' /\ (~SuEnding' => SuFollows')
  <2>1. SuAlone /\ \A q \in SuReqs : suPc'[q] = "idle"
    BY <1>1, <1>3, <1>7 DEF SuInv, SuTight, SuAlone
  <2>2. SuAlone'
    BY <1>1, <2>1 DEF SuAlone
  <2>3. ASSUME ~SuEnding' PROVE SuFollows'
    <3>1. SuFollows
      BY <1>1, <1>7, <2>3 DEF SuEnding, suWorker, SuInv, SuTight
    <3>2. SuGoal' = SuGoal /\ SuChain'
      BY <1>1, <3>1 DEF SuGoal, SuChain, SuFollows, suWorker
    <3>3. ask.cmd # "hangup" /\ SuGoal = SuGives(ask) /\ suBoard.on
      BY <1>1, <3>1 DEF SuFollows
    <3>4. suBoard'.on /\ SuGoal' = SuHolder'
      BY <1>4, <3>2, <3>3
    <3> QED
      BY <2>1, <3>2, <3>4 DEF SuFollows
  <2> QED
    BY <2>2, <2>3
<1> QED
  BY <1>5, <1>6, <1>7 DEF SuInv, SuTight

LEMMA SuEndSeenInv == ASSUME SuInv, SuEndSeen PROVE SuInv'
<1>1. /\ suBoard' = SuBoard(FALSE, FALSE, SuNobody, "none")
      /\ UNCHANGED <<suPc, suAsks, suMoves, suRestarts, suLoose, suWorker, suWire>>
      /\ suCall = "over"
  BY DEF SuEndSeen, SuBoardIs
<1>2. suBoard' \in [on : BOOLEAN, room : BOOLEAN, who : SuUsers \cup {SuNobody},
                    mode : {"none", "listening", "taken_over"}]
  BY <1>1 DEF SuBoard
<1>3. SuEnding
  BY <1>1 DEF SuEnding
<1> QED
  BY <1>1, <1>2, <1>3, SuBoardOnly DEF SuInv, SupervisionTypeOK

LEMMA SuEventSeenInv == ASSUME SuInv, SuEventSeen PROVE SuInv'
<1>1. /\ suBoard' = SuBoard(TRUE, FALSE, SuNobody, "none")
      /\ UNCHANGED <<suPc, suAsks, suMoves, suRestarts, suLoose, suWorker, suWire>>
      /\ suRestarts > 0
  BY DEF SuEventSeen, SuBoardIs
<1>2. suBoard' \in [on : BOOLEAN, room : BOOLEAN, who : SuUsers \cup {SuNobody},
                    mode : {"none", "listening", "taken_over"}]
  BY <1>1 DEF SuBoard
<1>3. suLoose
  BY <1>1 DEF SuInv, SuTight, SuAlone
<1> QED
  BY <1>1, <1>2, <1>3, SuBoardOnly DEF SuInv, SupervisionTypeOK

LEMMA SuRestartInv == ASSUME SuInv, SuRestart PROVE SuInv'
<1>1. SupervisionTypeOK'
  BY DEF SuInv, SupervisionTypeOK, SuRestart, suWorker, SuBoard
<1>2. SuAsked' /\ SuAudioKept' /\ suLoose'
  BY DEF SuInv, SuAsked, SuAudioKept, SuRestart, suWorker
<1> QED
  BY <1>1, <1>2 DEF SuInv, SuTight

-------------------------------------------------------------------------------
(* The steps of the worker. *)

\* Steps that end the call.
LEMMA SuOver ==
  ASSUME SuInv, UNCHANGED suApi, suWire' \in Seq(SuFrame), suCall' = "over",
         UNCHANGED <<suTaken, suMuting, suAudio, suCrossed>>
  PROVE  SuInv'
<1>1. SupervisionTypeOK'
  BY DEF SuInv, SupervisionTypeOK, SuFrame, suApi
<1>2. SuAsked' /\ SuAudioKept' /\ SuEnding'
  BY DEF SuInv, SuAsked, SuAudioKept, SuEnding, suApi
<1>3. SuAlone' = SuAlone /\ suLoose' = suLoose
  BY DEF SuAlone, suApi
<1> QED
  BY <1>1, <1>2, <1>3 DEF SuInv, SuTight

\* Steps that move only the audio.
LEMMA SuAudioOnly ==
  ASSUME SuInv, UNCHANGED <<suApi, suWire, suCall, suTaken>>,
         suMuting' \in Nat, suAudio' \in BOOLEAN, suCrossed' \in BOOLEAN, SuAudioKept'
  PROVE  SuInv'
<1>1. SupervisionTypeOK'
  BY DEF SuInv, SupervisionTypeOK, suApi
<1>2. SuAsked'
  BY DEF SuInv, SuAsked, suApi
<1>3. SuAlone' = SuAlone /\ suLoose' = suLoose /\ SuEnding' = SuEnding /\ SuFollows' = SuFollows
  BY DEF SuAlone, SuEnding, SuFollows, SuChain, SuGoal, SuHolder, suApi
<1> QED
  BY <1>1, <1>2, <1>3 DEF SuInv, SuTight

LEMMA SuCallEndsInv == ASSUME SuInv, SuCallEnds PROVE SuInv'
BY SuOver DEF SuCallEnds, SuInv, SupervisionTypeOK, SuFrame

LEMMA SuMuteInv == ASSUME SuInv, SuMute PROVE SuInv'
<1>1. suMuting' \in Nat /\ suAudio' \in BOOLEAN /\ suCrossed' \in BOOLEAN
  <2>1. suMuting' \in Nat
    BY DEF SuMute, SuInv, SupervisionTypeOK
  <2>2. suAudio' \in BOOLEAN /\ suCrossed' \in BOOLEAN
    BY Zenon DEF SuMute, SuInv, SupervisionTypeOK
  <2> QED
    BY <2>1, <2>2
<1>2. SuAudioKept'
  BY DEF SuMute, SuInv, SuAudioKept, SupervisionTypeOK
<1> QED
  BY <1>1, <1>2, SuAudioOnly DEF SuMute

LEMMA SuMuteRaisesInv == ASSUME SuInv, SuMuteRaises PROVE SuInv'
<1>1. suMuting' \in Nat /\ suAudio' \in BOOLEAN /\ suCrossed' \in BOOLEAN
  BY DEF SuMuteRaises, SuInv, SupervisionTypeOK
<1>2. SuAudioKept'
  BY DEF SuMuteRaises, SuAudioKept
<1> QED
  BY <1>1, <1>2, SuAudioOnly DEF SuMuteRaises

LEMMA SuHandleInv == ASSUME SuInv, SuHandle PROVE SuInv'
<1> DEFINE frame == suWire[1]
<1>1. /\ suWire # <<>> /\ suWire' = Tail(suWire) /\ Head(suWire) = frame
      /\ UNCHANGED suApi
  BY DEF SuHandle
<1>2. suWire \in Seq(SuFrame) /\ Len(suWire) \in Nat \ {0} /\ frame \in SuFrame
  <2>1. suWire \in Seq(SuFrame)
    BY DEF SuInv, SupervisionTypeOK, SuFrame
  <2>2. Len(suWire) \in Nat \ {0}
    BY <1>1, <2>1, EmptySeq
  <2>3. 1 \in 1 .. Len(suWire)
    BY <2>2
  <2> QED
    BY <2>1, <2>2, <2>3
<1>3. /\ suWire' \in Seq(SuFrame) /\ Len(suWire') = Len(suWire) - 1
      /\ \A i \in 1 .. Len(suWire) - 1 : suWire'[i] = suWire[i + 1]
  BY <1>1, <1>2, HeadTailProperties
<1>4. frame.cmd \in SuCommands /\ frame.user \in SuUsers /\ frame.user # SuNobody
  BY <1>2, SupervisionAssumption DEF SuFrame
<1>5. CASE frame.cmd = "hangup"
  <2>1. suCall' = "over" /\ UNCHANGED <<suTaken, suMuting, suAudio, suCrossed>>
    BY <1>1, <1>5 DEF SuHandle
  <2> QED
    BY <1>1, <1>3, <2>1, SuOver
<1>6. CASE frame.cmd \in {"takeover", "handback"}
  <2>A. frame.cmd = "takeover" =>
          /\ IF suTaken = SuNobody
             THEN suTaken' = frame.user /\ suMuting' = suMuting + 1
             ELSE suTaken' = suTaken /\ suMuting' = suMuting
          /\ suCall' = suCall /\ suAudio' = suAudio /\ suCrossed' = suCrossed
    BY <1>1 DEF SuHandle
  <2>B. frame.cmd = "handback" =>
          /\ suTaken' = SuNobody /\ suCall' = suCall /\ suMuting' = suMuting
          /\ suAudio' = (IF suTaken = SuNobody THEN suAudio ELSE TRUE)
          /\ suCrossed' = (suCrossed \/ (suTaken # SuNobody /\ suMuting > 0))
    BY <1>1 DEF SuHandle
  <2>1. /\ suCall' = suCall /\ suTaken' \in SuUsers \cup {SuNobody}
        /\ suMuting' \in Nat /\ suAudio' \in BOOLEAN /\ suCrossed' \in BOOLEAN
    <3>1. suTaken \in SuUsers \cup {SuNobody} /\ suMuting \in Nat
      BY DEF SuInv, SupervisionTypeOK
    <3>2. suAudio \in BOOLEAN /\ suCrossed \in BOOLEAN
      BY DEF SuInv, SupervisionTypeOK
    <3>3. CASE frame.cmd = "takeover"
      <4>1. suTaken' \in SuUsers \cup {SuNobody} /\ suMuting' \in Nat /\ suCall' = suCall
        BY <1>4, <3>1, <2>A, <3>3
      <4>2. suAudio' \in BOOLEAN /\ suCrossed' \in BOOLEAN
        BY <3>2, <2>A, <3>3
      <4> QED
        BY <4>1, <4>2
    <3>4. CASE frame.cmd = "handback"
      <4>1. suTaken' \in SuUsers \cup {SuNobody} /\ suMuting' \in Nat /\ suCall' = suCall
        BY <3>1, <2>B, <3>4
      <4>2. suAudio' \in BOOLEAN
        BY <3>2, <2>B, <3>4
      <4>3. suCrossed' \in BOOLEAN
        BY <3>2, <2>B, <3>4
      <4> QED
        BY <4>1, <4>2, <4>3
    <3> QED
      BY <1>6, <3>3, <3>4
  <2>2. SuAudioKept'
    <3>1. CASE frame.cmd = "takeover"
      <4>1. CASE suTaken = SuNobody
        <5>1. suTaken' # SuNobody /\ suMuting' = suMuting + 1 /\ suAudio' = suAudio
          BY <1>4, <2>A, <3>1, <4>1
        <5>2. ~suCrossed' => suMuting = 0 /\ suAudio
          BY <2>A, <3>1, <4>1 DEF SuInv, SuAudioKept
        <5>3. suMuting = 0 => suMuting' = 1
          BY <5>1
        <5>4. ~suCrossed' => suMuting' = 1 /\ suAudio'
          BY <5>1, <5>2, <5>3, Zenon
        <5> QED
          BY <5>1, <5>4, Zenon DEF SuAudioKept
      <4>2. CASE suTaken # SuNobody
        BY <2>A, <3>1, <4>2 DEF SuInv, SuAudioKept
      <4> QED
        BY <4>1, <4>2
    <3>2. CASE frame.cmd = "handback"
      <4>1. CASE suTaken = SuNobody
        <5>1. /\ suTaken' = SuNobody /\ suMuting' = suMuting /\ suAudio' = suAudio
              /\ ~suCrossed' => ~suCrossed
          BY <2>B, <3>2, <4>1
        <5> QED
          BY <4>1, <5>1 DEF SuInv, SuAudioKept
      <4>2. CASE suTaken # SuNobody
        <5>1. /\ suTaken' = SuNobody /\ suMuting' = suMuting /\ suAudio' = TRUE
              /\ ~suCrossed' => ~suCrossed /\ ~(suMuting > 0)
          BY <2>B, <3>2, <4>2
        <5>2. suMuting = 1 => suMuting > 0
          OBVIOUS
        <5> QED
          BY <4>2, <5>1, <5>2 DEF SuInv, SuAudioKept
      <4> QED
        BY <4>1, <4>2
    <3> QED
      BY <1>6, <3>1, <3>2
  <2>3. SupervisionTypeOK' /\ SuAsked'
    BY <1>1, <1>3, <2>1 DEF SuInv, SupervisionTypeOK, SuAsked, SuFrame, suApi
  <2>4. SuAlone' = SuAlone /\ suLoose' = suLoose /\ suPc' = suPc /\ suAsks' = suAsks
        /\ suBoard' = suBoard /\ SuHolder' = SuHolder
    BY <1>1 DEF SuAlone, SuHolder, suApi
  <2>5. ASSUME ~suLoose, ~SuEnding' PROVE SuFollows'
    <3>1. ~SuEnding
      <4>1. ASSUME NEW i \in DOMAIN suWire PROVE suWire[i].cmd # "hangup"
        <5>1. CASE i = 1
          BY <1>6, <5>1
        <5>2. CASE i # 1
          <6>1. i \in 1 .. Len(suWire)
            BY <1>2, <4>1
          <6>2. i - 1 \in 1 .. Len(suWire) - 1 /\ i - 1 \in DOMAIN suWire'
            BY <1>2, <1>3, <5>2, <6>1
          <6>3. suWire'[i - 1] = suWire[(i - 1) + 1] /\ (i - 1) + 1 = i
            BY <1>2, <1>3, <6>1, <6>2
          <6> QED
            BY <2>5, <6>2, <6>3 DEF SuEnding
        <5> QED
          BY <5>1, <5>2
      <4> QED
        BY <2>1, <2>5, <4>1 DEF SuEnding
    <3>2. SuFollows
      BY <2>5, <3>1 DEF SuInv, SuTight
    <3>3. suTaken' = SuGives(frame)
      <4>1. CASE frame.cmd = "takeover"
        <5>1. suTaken \in {SuNobody, frame.user}
          BY <1>1, <3>2, <4>1 DEF SuFollows, SuChain
        <5> QED
          BY <1>1, <4>1, <5>1 DEF SuHandle, SuGives
      <4>2. CASE frame.cmd = "handback"
        BY <1>1, <4>2 DEF SuHandle, SuGives
      <4> QED
        BY <1>6, <4>1, <4>2
    <3>4. SuGoal' = SuGoal
      <4>1. CASE Len(suWire) = 1
        <5>1. suWire' = <<>>
          BY <1>3, <4>1, EmptySeq
        <5> QED
          BY <1>1, <3>3, <4>1, <5>1 DEF SuGoal
      <4>2. CASE Len(suWire) # 1
        <5>1. suWire' # <<>> /\ Len(suWire') \in 1 .. Len(suWire) - 1 /\ Len(suWire') + 1 = Len(suWire)
          BY <1>2, <1>3, <4>2, EmptySeq
        <5>2. suWire'[Len(suWire')] = suWire[Len(suWire)]
          BY <1>3, <5>1
        <5> QED
          BY <1>1, <5>1, <5>2 DEF SuGoal
      <4> QED
        BY <4>1, <4>2
    <3>5. SuChain'
      <4>1. ASSUME NEW i \in 1 .. Len(suWire') - 1,
                   suWire'[i].cmd = "takeover", suWire'[i + 1].cmd = "takeover"
            PROVE  suWire'[i].user = suWire'[i + 1].user
        <5>1. /\ i \in 1 .. Len(suWire) - 1 /\ i + 1 \in 1 .. Len(suWire) - 1
              /\ suWire'[i] = suWire[i + 1] /\ suWire'[i + 1] = suWire[(i + 1) + 1]
          BY <1>2, <1>3, <4>1
        <5> QED
          BY <3>2, <4>1, <5>1 DEF SuFollows, SuChain
      <4>2. ASSUME suWire' # <<>>, suWire'[1].cmd = "takeover"
            PROVE  suTaken' \in {SuNobody, suWire'[1].user}
        <5>1. Len(suWire') # 0
          BY <1>3, <4>2, EmptySeq
        <5>2. 1 \in 1 .. Len(suWire) - 1 /\ suWire'[1] = suWire[1 + 1]
          BY <1>2, <1>3, <5>1
        <5>3. frame.cmd = "takeover" => frame.user = suWire'[1].user
          BY <3>2, <4>2, <5>2 DEF SuFollows, SuChain
        <5> QED
          BY <3>3, <5>3 DEF SuGives
      <4> QED
        BY <4>1, <4>2 DEF SuChain
    <3> QED
      BY <2>4, <3>2, <3>4, <3>5 DEF SuFollows
  <2> QED
    BY <2>2, <2>3, <2>4, <2>5 DEF SuInv, SuTight
<1> QED
  BY <1>4, <1>5, <1>6 DEF SuCommands

-------------------------------------------------------------------------------
LEMMA SuNextInv == ASSUME SuInv, [SupervisionNext]_supervisionVars PROVE SuInv'
<1>1. CASE \E u \in SuUsers : SuJoin(u) \/ SuLeave(u)
  BY <1>1, SuJoinInv, SuLeaveInv
<1>2. CASE \E r \in SuReqs, u \in SuUsers, cmd \in SuCommands : SuCommand(r, u, cmd)
  BY <1>2, SuCommandInv
<1>3. CASE \E r \in SuReqs : SuSend(r) \/ SuSendRaises(r) \/ SuSent(r)
  BY <1>3, SuSendInv, SuSendRaisesInv, SuSentInv
<1>4. CASE SuHandle \/ SuMute \/ SuMuteRaises
  BY <1>4, SuHandleInv, SuMuteInv, SuMuteRaisesInv
<1>5. CASE SuCallEnds \/ SuEndSeen \/ SuEventSeen \/ SuRestart
  BY <1>5, SuCallEndsInv, SuEndSeenInv, SuEventSeenInv, SuRestartInv
<1>6. CASE UNCHANGED supervisionVars
  <2>1. UNCHANGED <<suApi, suWire, suCall, suTaken, suMuting, suAudio, suCrossed>>
    BY <1>6 DEF supervisionVars, suWorker
  <2>2. SuAudioKept' /\ suMuting' \in Nat /\ suAudio' \in BOOLEAN /\ suCrossed' \in BOOLEAN
    BY <2>1 DEF SuInv, SuAudioKept, SupervisionTypeOK
  <2> QED
    BY <2>1, <2>2, SuAudioOnly
<1> QED
  BY <1>1, <1>2, <1>3, <1>4, <1>5, <1>6 DEF SupervisionNext

LEMMA SuSpecInv == SupervisionSpec => []SuInv
BY SuInitInv, SuNextInv, PTL DEF SupervisionSpec

\* The board, the requests, the frames and the worker's state keep their types
\* (LiveCall, SupervisorService.command, Supervisor).
THEOREM SupervisionTypeCorrect == SupervisionSpec => []SupervisionTypeOK
<1>1. SuInv => SupervisionTypeOK
  BY DEF SuInv
<1> QED
  BY <1>1, SuSpecInv, PTL

\* For any number of supervisors, requests and commands, when all is quiet the caller
\* has the assistant or a supervisor, and the board names who it is, under the
\* conditions that SupervisorAgrees names (command, leave, Supervisor.handle).
THEOREM SupervisorAlwaysAgrees == SupervisionSpec => []SupervisorAgrees
<1>1. ASSUME SuInv, SuQuiet PROVE ~suCrossed => (suAudio <=> suTaken = SuNobody)
  BY <1>1 DEF SuInv, SuAudioKept, SuQuiet, SupervisionTypeOK
<1>2. ASSUME SuInv, SuQuiet, ~suLoose
      PROVE  IF suBoard.mode = "taken_over" THEN suTaken = suBoard.who ELSE suTaken = SuNobody
  <2>1. ~SuEnding
    BY <1>2 DEF SuEnding, SuQuiet
  <2>2. SuFollows
    BY <1>2, <2>1 DEF SuInv, SuTight
  <2>3. SuGoal = SuHolder
    BY <1>2, <2>2 DEF SuFollows, SuQuiet
  <2> QED
    BY <1>2, <2>3 DEF SuGoal, SuHolder, SuQuiet
<1>3. SuInv => SupervisorAgrees
  BY <1>1, <1>2 DEF SupervisorAgrees
<1> QED
  BY <1>3, SuSpecInv, PTL

--------------------------------------------------------------------------------
(* Payments. *)

Working(p) == payPc[p] \notin {"idle", "create"}

\* A process that works has a request to work on, which exists.
PayWorkOK ==
  /\ \A p \in PayProcs : Working(p) => payCur[p] \in PayIds
  /\ \A p \in PayProcs : Working(p) => /\ payDoc[payCur[p]].status # "absent"
                                       /\ payHeld[p].status # "absent"
  /\ \A p \in PayProcs : payPc[p] = "hook" => payEvent[p] \in PayKinds
  /\ \A p \in payFresh : payPc[p] # "idle"

\* What is stored, or held, of refunds is within the amount.
RefundRange ==
  /\ \A i \in PayIds : payDoc[i].refunded \in 0 .. PayAmount
  /\ \A p \in PayProcs : payHeld[p].refunded \in 0 .. PayAmount
  /\ \A p \in PayProcs : payPc[p] = "refund" =>
       payBack[p] \in 1 .. PayAmount - payHeld[p].refunded

\* The copy of a process that nobody has overtaken, against the document.
CopyOf(p, doc) ==
  /\ payPc[p] = "text" => doc.status = "pending" /\ payHeld[p] = doc
  /\ payPc[p] = "cancel" => /\ doc.status \in PayOpen
                            /\ payHeld[p] = [doc EXCEPT !.status = "cancelled"]
  /\ payPc[p] = "refund" => doc.status \in PayTaken /\ payHeld[p] = doc
  /\ payPc[p] = "refunded" => /\ doc.status \in PayTaken
                              /\ payHeld[p] = PayAfterRefund(doc, payBack[p])
  /\ payPc[p] = "hook" => /\ payHeld[p] = PayAfterEvent(doc, payEvent[p])
                          /\ <<payCur[p], payEvent[p]>> \in payEvents

FreshCopies == \A p \in payFresh : Working(p) => CopyOf(p, payDoc[payCur[p]])

\* The provider's session and its events.
KindOK(i, k) ==
  /\ k = "completed" => paySession[i] \in {"processing", "charged", "failed"}
  /\ k = "succeeded" => paySession[i] = "charged"
  /\ k = "failed" => paySession[i] = "failed"
  /\ k = "expired" => paySession[i] = "expired"

SessionOK(i) ==
  /\ payDoc[i].status = "absent" => paySession[i] = "none" /\ payRefunded[i] = 0
  /\ \A k \in PayKinds : <<i, k>> \in payEvents => KindOK(i, k)
  /\ paySession[i] = "failed" => <<i, "failed">> \in payEvents \/ i \in payFailed

Sessions ==
  /\ \A i \in PayIds : SessionOK(i)
  /\ \A p \in PayProcs : payPc[p] = "hook" => KindOK(payCur[p], payEvent[p])

\* Money is taken down only of a session that has, or had, some.
TakenOK(i) ==
  /\ paySession[i] \in {"none", "open", "expired"} => payDoc[i].status \notin PayTaken
  /\ \/ \E k \in PayKinds : <<i, k>> \in payEvents
     \/ i \in payFailed
     \/ paySession[i] \in {"charged", "processing"} => payDoc[i].status \in PayTaken
  /\ paySession[i] = "failed" => (\E k \in PayKinds : <<i, k>> \in payEvents) \/ i \in payFailed

Takens == \A i \in PayIds \ payTorn : TakenOK(i)

\* Refunds between the provider and the save.
Between(i) == {p \in PayProcs : payPc[p] = "refunded" /\ payCur[p] = i}

RefundOK(i) ==
  \/ \E p \in Between(i) : p \notin payFresh
  \/ \E p, q \in Between(i) : p # q
  \/ \E p \in Between(i) :
       Between(i) = {p} /\ payRefunded[i] = payDoc[i].refunded + payBack[p]
  \/ Between(i) = {} /\ payRefunded[i] = payDoc[i].refunded

Refunds == \A i \in PayIds \ payTorn : RefundOK(i)

FullOK ==
  \A i \in PayIds \ payTorn :
    payDoc[i].refunded = PayAmount => payDoc[i].status = "refunded" \/ i \in payRepaid

\* While a search is current, no request is open but one that lost an update.
SearchOK ==
  \A p \in payFresh : payPc[p] = "create" =>
    \A i \in PayIds \ payTorn : payDoc[i].status \notin PayOpen

PayInv ==
  /\ PaymentsTypeOK /\ PayWorkOK /\ RefundRange /\ FreshCopies
  /\ Sessions /\ Takens /\ Refunds /\ FullOK /\ SearchOK /\ OneOpenLink

USE PaymentsAssumption

-------------------------------------------------------------------------------
(* Requests, and what a save leaves. *)

\* A copy was saved and its process is done: what that leaves.
Saved(p, i, doc) ==
  /\ payPc'[p] = "idle" /\ payCur'[p] = PayNoId
  /\ \A q \in PayProcs \ {p} :
       /\ payPc'[q] = payPc[q] /\ payCur'[q] = payCur[q] /\ payHeld'[q] = payHeld[q]
       /\ payEvent'[q] = payEvent[q] /\ payBack'[q] = payBack[q]
  /\ payHeld'[p] = PayAbsent
  /\ payDoc'[i] = doc
  /\ \A j \in PayIds \ {i} : payDoc'[j] = payDoc[j]
  /\ \A q \in payFresh' : q \in payFresh /\ q # p /\ payCur[q] # i
  /\ \A j \in PayIds \ payTorn' : j \notin payTorn
  /\ i \notin payTorn' => p \in payFresh
  /\ paySession' = paySession /\ payRefunded' = payRefunded /\ payRaced' = payRaced

LEMMA AbsentTyped == PayAbsent \in PaymentRequest /\ PayAbsent.refunded = 0
  BY DEF PayAbsent, PaymentRequest, PayStatus

LEMMA RequestTyped ==
  ASSUME NEW doc \in PaymentRequest
  PROVE  /\ doc.status \in PayStatus /\ doc.refunded \in Int
         /\ doc = [status |-> doc.status, refunded |-> doc.refunded]
         /\ \A s \in PayStatus :
              /\ [doc EXCEPT !.status = s] \in PaymentRequest
              /\ [doc EXCEPT !.status = s].status = s
              /\ [doc EXCEPT !.status = s].refunded = doc.refunded
  BY DEF PaymentRequest

LEMMA AfterRefundTyped ==
  ASSUME NEW doc \in PaymentRequest, NEW amt \in Int
  PROVE  /\ PayAfterRefund(doc, amt) \in PaymentRequest
         /\ PayAfterRefund(doc, amt).refunded = doc.refunded + amt
         /\ doc.refunded + amt >= PayAmount => PayAfterRefund(doc, amt).status = "refunded"
         /\ doc.refunded + amt < PayAmount => PayAfterRefund(doc, amt).status = doc.status
  BY DEF PayAfterRefund, PaymentRequest, PayStatus, PayTaken

\* The status an event leaves.
LEMMA AfterEventTyped ==
  ASSUME NEW doc \in PaymentRequest, NEW kind \in PayKinds
  PROVE  /\ PayAfterEvent(doc, kind) \in PaymentRequest
         /\ PayAfterEvent(doc, kind).refunded = doc.refunded
         /\ kind \in {"completed", "succeeded"} => PayAfterEvent(doc, kind).status = "paid"
         /\ kind = "failed" => PayAfterEvent(doc, kind).status = "failed"
         /\ kind = "expired" /\ doc.status \in PayOpen =>
              PayAfterEvent(doc, kind).status = "expired"
         /\ kind = "expired" /\ doc.status \notin PayOpen =>
              PayAfterEvent(doc, kind).status = doc.status
         /\ PayAfterEvent(doc, kind).status \notin PayOpen
         /\ doc.status # "absent" => PayAfterEvent(doc, kind).status # "absent"
<1>1. CASE kind \in {"completed", "succeeded"}
  BY <1>1 DEF PayAfterEvent, PaymentRequest, PayStatus, PayOpen, PayClosed, PayTaken
<1>2. CASE kind = "expired"
  BY <1>2 DEF PayAfterEvent, PaymentRequest, PayStatus, PayOpen, PayClosed, PayTaken
<1>3. CASE kind = "failed"
  BY <1>3 DEF PayAfterEvent, PaymentRequest, PayStatus, PayOpen, PayClosed, PayTaken
<1> QED
  BY <1>1, <1>2, <1>3 DEF PayKinds

LEMMA SavedIs ==
  ASSUME PayInv, NEW p \in PayProcs, NEW doc \in PaymentRequest, Working(p),
         PayPut(p, payCur[p], doc), PayDone(p),
         UNCHANGED <<paySession, payRefunded, payRaced>>
  PROVE  Saved(p, payCur[p], doc)
<1> USE DEF PayInv, PaymentsTypeOK, PayWorkOK
<1>1. payCur[p] \in PayIds
  OBVIOUS
<1>2. /\ payPc'[p] = "idle" /\ payCur'[p] = PayNoId /\ payHeld'[p] = PayAbsent
      /\ \A q \in PayProcs \ {p} :
           /\ payPc'[q] = payPc[q] /\ payCur'[q] = payCur[q] /\ payHeld'[q] = payHeld[q]
           /\ payEvent'[q] = payEvent[q] /\ payBack'[q] = payBack[q]
  BY DEF PayDone
<1>3. payDoc'[payCur[p]] = doc /\ \A j \in PayIds \ {payCur[p]} : payDoc'[j] = payDoc[j]
  BY <1>1 DEF PayPut
<1>4. \A q \in payFresh' : q \in payFresh /\ q # p /\ payCur[q] # payCur[p]
  BY DEF PayPut
<1>5. /\ \A j \in PayIds \ payTorn' : j \notin payTorn
      /\ payCur[p] \notin payTorn' => p \in payFresh
  BY DEF PayPut
<1> QED
  BY <1>2, <1>3, <1>4, <1>5 DEF Saved

\* A save keeps the types.
LEMMA SavedTyped ==
  ASSUME PayInv, NEW p \in PayProcs, NEW doc \in PaymentRequest, Working(p),
         PayPut(p, payCur[p], doc), PayDone(p),
         UNCHANGED <<paySession, payRefunded, payRaced>>,
         payEvents' \subseteq PayIds \X PayKinds, payMoves' \in Nat,
         payFailed' \subseteq PayIds, payRepaid' \subseteq PayIds
  PROVE  PaymentsTypeOK'
<1> USE DEF PayInv, PaymentsTypeOK, PayWorkOK
<1>1. payCur[p] \in PayIds
  OBVIOUS
<1>2. payDoc' \in [PayIds -> PaymentRequest]
  BY <1>1 DEF PayPut
<1>3. payTorn' \subseteq PayIds /\ payFresh' \subseteq PayProcs
  BY <1>1 DEF PayPut
<1>4. /\ payPc' \in [PayProcs -> PayPC] /\ payCur' \in [PayProcs -> PayIds \cup {PayNoId}]
      /\ payHeld' \in [PayProcs -> PaymentRequest] /\ payBack' \in [PayProcs -> Int]
      /\ payEvent' \in [PayProcs -> PayKinds \cup {PayNoEvent}]
  BY AbsentTyped DEF PayDone, PayPC
<1>5. payRaced' \in BOOLEAN
  BY Zenon
<1> QED
  BY <1>2, <1>3, <1>4, <1>5

\* What every save keeps, of a copy that exists and is within the amount.
LEMMA SavedKeeps ==
  ASSUME PayInv, NEW p \in PayProcs, NEW i \in PayIds, NEW doc \in PaymentRequest,
         Working(p), payCur[p] = i, Saved(p, i, doc),
         doc.status # "absent", doc.refunded \in 0 .. PayAmount,
         \A j \in PayIds \ {i}, k \in PayKinds :
           <<j, k>> \in payEvents => <<j, k>> \in payEvents',
         p \in payFresh /\ doc.status \in PayOpen => payDoc[i].status \in PayOpen
  PROVE  /\ PayWorkOK' /\ RefundRange' /\ FreshCopies' /\ SearchOK' /\ OneOpenLink'
<1> USE DEF PayInv, PaymentsTypeOK
<1>1. PayWorkOK'
  BY DEF Saved, PayWorkOK, Working
<1>2. RefundRange'
  BY AbsentTyped, SMTT(30) DEF Saved, RefundRange
<1>3. FreshCopies'
  <2> SUFFICES ASSUME NEW q \in payFresh', Working(q)' PROVE CopyOf(q, payDoc[payCur[q]])'
    BY DEF FreshCopies
  <2>1. q \in payFresh /\ q # p /\ payCur[q] # i /\ q \in PayProcs
    BY DEF Saved
  <2>2. /\ payPc'[q] = payPc[q] /\ payCur'[q] = payCur[q] /\ payHeld'[q] = payHeld[q]
        /\ payEvent'[q] = payEvent[q] /\ payBack'[q] = payBack[q]
    BY <2>1 DEF Saved
  <2>3. Working(q) /\ payCur[q] \in PayIds /\ payDoc'[payCur[q]] = payDoc[payCur[q]]
    BY <2>1, <2>2 DEF Working, PayWorkOK, Saved
  <2>4. CopyOf(q, payDoc[payCur[q]])
    BY <2>1, <2>3 DEF FreshCopies
  <2>5. payPc[q] = "hook" => <<payCur[q], payEvent[q]>> \in payEvents'
    BY <2>1, <2>3, <2>4 DEF CopyOf, PayWorkOK
  <2> QED
    BY <2>2, <2>3, <2>4, <2>5 DEF CopyOf
<1>4. SearchOK'
  <2> SUFFICES ASSUME NEW q \in payFresh', payPc'[q] = "create", NEW j \in PayIds \ payTorn',
                      payDoc'[j].status \in PayOpen
               PROVE  FALSE
    BY DEF SearchOK
  <2>1. q \in payFresh /\ q # p /\ payPc[q] = "create" /\ j \notin payTorn
    BY DEF Saved
  <2>2. payDoc[j].status \in PayOpen
    BY DEF Saved
  <2> QED
    BY <2>1, <2>2 DEF SearchOK
<1>5. OneOpenLink'
  <2> SUFFICES ASSUME NEW j \in PayIds, NEW k \in PayIds, j # k, ~ payRaced',
                      j \notin payTorn', k \notin payTorn',
                      payDoc'[j].status \in PayOpen, payDoc'[k].status \in PayOpen
               PROVE  FALSE
    BY Zenon DEF OneOpenLink
  <2>1. payDoc[j].status \in PayOpen /\ payDoc[k].status \in PayOpen
    BY DEF Saved
  <2>2. j \notin payTorn /\ k \notin payTorn /\ ~ payRaced
    BY Zenon DEF Saved
  <2> QED
    BY <2>1, <2>2 DEF OneOpenLink
<1> QED
  BY <1>1, <1>2, <1>3, <1>4, <1>5

\* A save of a copy that has not been overtaken, and the requests it leaves alone.
LEMMA SavedOthers ==
  ASSUME PayInv, NEW p \in PayProcs, NEW i \in PayIds, NEW doc \in PaymentRequest,
         Working(p), payCur[p] = i, Saved(p, i, doc), doc.status # "absent",
         \A j \in PayIds \ {i}, k \in PayKinds :
           <<j, k>> \in payEvents' <=> <<j, k>> \in payEvents,
         payFailed \subseteq payFailed', payRepaid \subseteq payRepaid'
  PROVE  /\ \A j \in PayIds \ {i} : SessionOK(j)'
         /\ \A q \in PayProcs : payPc'[q] = "hook" => KindOK(payCur[q], payEvent[q])'
         /\ \A j \in (PayIds \ payTorn') \ {i} : TakenOK(j)' /\ RefundOK(j)'
         /\ \A j \in (PayIds \ payTorn') \ {i} : payDoc'[j].refunded = PayAmount =>
              payDoc'[j].status = "refunded" \/ j \in payRepaid'
<1> USE DEF PayInv, PaymentsTypeOK
<1>1. ASSUME NEW j \in PayIds \ {i} PROVE SessionOK(j)'
  BY DEF Sessions, SessionOK, KindOK, Saved
<1>5. ASSUME NEW q \in PayProcs, payPc'[q] = "hook" PROVE KindOK(payCur[q], payEvent[q])'
  BY <1>5 DEF Sessions, KindOK, Saved
<1>2. ASSUME NEW j \in (PayIds \ payTorn') \ {i} PROVE TakenOK(j)'
  BY DEF Takens, TakenOK, Saved
<1>3. ASSUME NEW j \in (PayIds \ payTorn') \ {i} PROVE RefundOK(j)'
  <2>1. Between(j)' = Between(j)
    BY DEF Between, Saved
  <2>2. RefundOK(j) /\ payDoc'[j] = payDoc[j] /\ payRefunded' = payRefunded
    BY DEF Saved, Refunds
  <2>3. \A q \in Between(j) : payBack'[q] = payBack[q] /\ (q \notin payFresh => q \notin payFresh')
    BY DEF Between, Saved
  <2> QED
    BY <2>1, <2>2, <2>3 DEF RefundOK
<1>4. ASSUME NEW j \in (PayIds \ payTorn') \ {i}, payDoc'[j].refunded = PayAmount
      PROVE  payDoc'[j].status = "refunded" \/ j \in payRepaid'
  BY <1>4 DEF FullOK, Saved
<1> QED
  BY <1>1, <1>2, <1>3, <1>4, <1>5

\* A save of what is not a refund: whoever else is between the provider and its
\* save of this request is now overtaken.
LEMMA SavedNoRefund ==
  ASSUME PayInv, NEW p \in PayProcs, NEW i \in PayIds, NEW doc \in PaymentRequest,
         Working(p), payCur[p] = i, Saved(p, i, doc),
         payPc[p] # "refunded", i \notin payTorn', doc.refunded = payDoc[i].refunded
  PROVE  RefundOK(i)'
<1> USE DEF PayInv, PaymentsTypeOK
<1>1. Between(i)' = Between(i)
  BY DEF Between, Saved
<1>2. RefundOK(i) /\ payDoc'[i].refunded = payDoc[i].refunded /\ payRefunded' = payRefunded
  BY DEF Saved, Refunds
<1>3. \A q \in Between(i) : q \notin payFresh'
  BY DEF Between, Saved
<1> QED
  BY <1>1, <1>2, <1>3 DEF RefundOK


-------------------------------------------------------------------------------
(* The steps, conjunct by conjunct. *)

LEMMA InitInv == PaymentsInit => PayInv
<1> SUFFICES ASSUME PaymentsInit PROVE PayInv
  OBVIOUS
<1>1. PaymentsTypeOK
  <2>1. payRaced \in BOOLEAN
    BY Zenon DEF PaymentsInit
  <2>2. /\ payDoc \in [PayIds -> PaymentRequest] /\ paySession \in [PayIds -> PaySessions]
        /\ payHeld \in [PayProcs -> PaymentRequest] /\ payPc \in [PayProcs -> PayPC]
        /\ payCur \in [PayProcs -> PayIds \cup {PayNoId}]
    BY AbsentTyped DEF PaymentsInit, PayPC, PaySessions
  <2>3. /\ payRefunded \in [PayIds -> Int] /\ payBack \in [PayProcs -> Int] /\ payMoves \in Nat
        /\ payEvent \in [PayProcs -> PayKinds \cup {PayNoEvent}]
        /\ payEvents \subseteq PayIds \X PayKinds /\ payFresh \subseteq PayProcs
        /\ payTorn \subseteq PayIds /\ payFailed \subseteq PayIds /\ payRepaid \subseteq PayIds
    BY DEF PaymentsInit
  <2> QED
    BY <2>1, <2>2, <2>3 DEF PaymentsTypeOK
<1>2. PayWorkOK /\ RefundRange
  BY DEF PaymentsInit, PayWorkOK, Working, RefundRange, PayAbsent
<1>3. FreshCopies /\ SearchOK
  BY DEF PaymentsInit, FreshCopies, SearchOK
<1>4. Sessions
  BY DEF PaymentsInit, Sessions, SessionOK, KindOK
<1>5. Takens
  BY DEF PaymentsInit, Takens, TakenOK, PayAbsent, PayTaken
<1>6. Refunds
  BY DEF PaymentsInit, Refunds, RefundOK, Between, PayAbsent
<1>7. FullOK /\ OneOpenLink
  BY DEF PaymentsInit, FullOK, OneOpenLink, PayAbsent, PayOpen
<1> QED
  BY <1>1, <1>2, <1>3, <1>4, <1>5, <1>6, <1>7 DEF PayInv

LEMMA FindInv ==
  ASSUME PayInv, NEW p \in PayProcs, PayFind(p)
  PROVE  PayInv'
<1>1. PaymentsTypeOK'
  BY DEF PayInv, PaymentsTypeOK, PaymentRequest, PayStatus, PayPC,
         PayFind
<1>2. PayWorkOK'
  BY DEF PayInv, PaymentsTypeOK, PayWorkOK, Working,
         PayFind
<1>3. RefundRange'
  BY DEF PayInv, PaymentsTypeOK, RefundRange,
         PayFind
<1>4. FreshCopies'
  BY DEF PayInv, PaymentsTypeOK, PayWorkOK, FreshCopies, Working, CopyOf,
         PayFind
<1>5. Sessions'
  BY DEF PayInv, PaymentsTypeOK, PayWorkOK, Sessions, SessionOK, KindOK,
         PayFind
<1>6. Takens'
  BY DEF PayInv, PaymentsTypeOK, PayWorkOK, Takens, TakenOK,
         PayFind
<1>7. Refunds'
  BY DEF PayInv, PaymentsTypeOK, PayWorkOK, Refunds, RefundOK, Between,
         PayFind
<1>8. FullOK'
  BY DEF PayInv, PaymentsTypeOK, PayWorkOK, FullOK,
         PayFind
<1>9. SearchOK'
  BY DEF PayInv, PaymentsTypeOK, SearchOK, PayFind, PayOpen, PayClosed
<1>10. OneOpenLink'
  BY DEF PayInv, PaymentsTypeOK, PayWorkOK, OneOpenLink,
         PayFind
<1> QED
  BY <1>1, <1>2, <1>3, <1>4, <1>5, <1>6, <1>7, <1>8, <1>9, <1>10 DEF PayInv

LEMMA CreateInv ==
  ASSUME PayInv, NEW p \in PayProcs, PayCreate(p)
  PROVE  PayInv'
<1>0. PICK i \in PayIds :
        /\ payDoc[i].status = "absent"
        /\ payDoc' = [payDoc EXCEPT ![i] = [status |-> "pending", refunded |-> 0]]
        /\ paySession' = [paySession EXCEPT ![i] = "open"]
        /\ payCur' = [payCur EXCEPT ![p] = i]
  BY DEF PayCreate
<1>20. /\ payDoc'[i] = [status |-> "pending", refunded |-> 0] /\ paySession'[i] = "open"
       /\ \A j \in PayIds \ {i} : payDoc'[j] = payDoc[j] /\ paySession'[j] = paySession[j]
       /\ payPc[p] = "create" /\ payPc'[p] = "text"
       /\ \A q \in PayProcs \ {p} : payPc'[q] = payPc[q] /\ payCur'[q] = payCur[q]
                                    /\ payBack'[q] = payBack[q] /\ payEvent'[q] = payEvent[q]
       /\ payRefunded' = payRefunded /\ payEvents' = payEvents /\ payFailed' = payFailed
       /\ payTorn' = payTorn
  BY <1>0 DEF PayInv, PaymentsTypeOK, PayCreate
<1>21. /\ paySession[i] = "none" /\ payRefunded[i] = 0
       /\ \A k \in PayKinds : <<i, k>> \notin payEvents
       /\ \A q \in PayProcs : Working(q) => payCur[q] # i
  BY <1>0 DEF PayInv, Sessions, SessionOK, KindOK, PayKinds, PayWorkOK
<1>1. PaymentsTypeOK'
  <2>0. [status |-> "pending", refunded |-> 0] \in PaymentRequest
    BY DEF PaymentRequest, PayStatus, PayOpen
  <2>1. /\ payDoc' \in [PayIds -> PaymentRequest] /\ paySession' \in [PayIds -> PaySessions]
        /\ payRefunded' \in [PayIds -> Int] /\ payEvents' \subseteq PayIds \X PayKinds
    BY <2>0, AbsentTyped, RequestTyped DEF PayInv, PaymentsTypeOK, PaySessions, PayCreate, payGhost, payLocal
  <2>2. /\ payPc' \in [PayProcs -> PayPC] /\ payCur' \in [PayProcs -> PayIds \cup {PayNoId}]
        /\ payHeld' \in [PayProcs -> PaymentRequest]
    BY <2>0, AbsentTyped, RequestTyped DEF PayInv, PaymentsTypeOK, PayPC, PayCreate, payGhost, payLocal
  <2>3. /\ payEvent' \in [PayProcs -> PayKinds \cup {PayNoEvent}]
        /\ payBack' \in [PayProcs -> Int] /\ payMoves' \in Nat
    BY DEF PayInv, PaymentsTypeOK, PaySessions, PayCreate, payGhost, payLocal
  <2>4. /\ payFresh' \subseteq PayProcs /\ payTorn' \subseteq PayIds
        /\ payFailed' \subseteq PayIds /\ payRepaid' \subseteq PayIds
    BY DEF PayInv, PaymentsTypeOK, PayWorkOK, Working, PayCreate, payGhost, payLocal
  <2>5. payRaced' \in BOOLEAN
    BY Zenon DEF PayInv, PaymentsTypeOK, PaySessions, PayCreate, payGhost, payLocal
  <2> QED
    BY <2>1, <2>2, <2>3, <2>4, <2>5 DEF PaymentsTypeOK
<1>2. PayWorkOK'
  BY DEF PayInv, PaymentsTypeOK, PayWorkOK, Working,
         PayCreate
<1>3. RefundRange'
  BY DEF PayInv, PaymentsTypeOK, RefundRange,
         PayCreate
<1>4. FreshCopies'
  BY DEF PayInv, PaymentsTypeOK, PayWorkOK, FreshCopies, Working, CopyOf,
         PayCreate
<1>5. Sessions'
  <2>1. SessionOK(i)'
    BY <1>20, <1>21 DEF SessionOK
  <2>2. ASSUME NEW j \in PayIds \ {i} PROVE SessionOK(j)'
    BY <1>20 DEF PayInv, Sessions, SessionOK, KindOK
  <2>3. ASSUME NEW q \in PayProcs, payPc'[q] = "hook" PROVE KindOK(payCur[q], payEvent[q])'
    <3>1. q # p /\ payPc[q] = "hook" /\ payCur[q] \in PayIds \ {i}
      BY <1>20, <1>21, <2>3 DEF PayInv, PayWorkOK, Working
    <3> QED
      BY <3>1, <1>20 DEF PayInv, Sessions, KindOK
  <2> QED
    BY <2>1, <2>2, <2>3 DEF Sessions
<1>6. Takens'
  <2>1. TakenOK(i)'
    BY <1>20 DEF TakenOK, PayTaken
  <2>2. ASSUME NEW j \in PayIds \ payTorn', j # i PROVE TakenOK(j)'
    BY <1>20, <2>2 DEF PayInv, Takens, TakenOK
  <2> QED
    BY <2>1, <2>2 DEF Takens
<1>7. Refunds'
  <2>1. \A j \in PayIds : Between(j)' = Between(j)
    BY <1>20 DEF Between
  <2>2. RefundOK(i)'
    BY <2>1, <1>20, <1>21 DEF RefundOK, Between, Working
  <2>3. ASSUME NEW j \in PayIds \ payTorn', j # i PROVE RefundOK(j)'
    <3>1. RefundOK(j) /\ payDoc'[j] = payDoc[j] /\ Between(j)' = Between(j)
      BY <1>20, <2>1, <2>3 DEF PayInv, Refunds
    <3>2. \A q \in Between(j) : payBack'[q] = payBack[q] /\ (q \notin payFresh => q \notin payFresh')
      BY <1>20 DEF Between, PayCreate
    <3> QED
      BY <3>1, <3>2, <1>20 DEF RefundOK
  <2> QED
    BY <2>2, <2>3 DEF Refunds
<1>8. FullOK'
  BY DEF PayInv, PaymentsTypeOK, PayWorkOK, FullOK,
         PayCreate
<1>9. SearchOK'
  BY DEF PayInv, PaymentsTypeOK, PayWorkOK, SearchOK,
         PayCreate
<1>10. OneOpenLink'
  <2> SUFFICES ASSUME NEW j \in PayIds, NEW k \in PayIds, j # k, ~ payRaced',
                      j \notin payTorn', k \notin payTorn',
                      payDoc'[j].status \in PayOpen, payDoc'[k].status \in PayOpen
               PROVE  FALSE
    BY Zenon DEF OneOpenLink
  <2>1. p \in payFresh
    BY Zenon DEF PayCreate
  <2>2. PICK m \in PayIds : m # i /\ m \notin payTorn /\ payDoc[m].status \in PayOpen
    BY <1>20
  <2> QED
    BY <2>1, <2>2, <1>20 DEF PayInv, SearchOK
<1> QED
  BY <1>1, <1>2, <1>3, <1>4, <1>5, <1>6, <1>7, <1>8, <1>9, <1>10 DEF PayInv

LEMMA RefusedInv ==
  ASSUME PayInv, NEW p \in PayProcs, PayRefused(p)
  PROVE  PayInv'
<1>1. PaymentsTypeOK'
  <2>1. /\ payDoc' \in [PayIds -> PaymentRequest] /\ paySession' \in [PayIds -> PaySessions]
        /\ payRefunded' \in [PayIds -> Int] /\ payEvents' \subseteq PayIds \X PayKinds
    BY AbsentTyped, RequestTyped DEF PayInv, PaymentsTypeOK, PayRefused, PayDone, payGhost, payLocal
  <2>2. /\ payPc' \in [PayProcs -> PayPC] /\ payCur' \in [PayProcs -> PayIds \cup {PayNoId}]
        /\ payHeld' \in [PayProcs -> PaymentRequest]
    BY AbsentTyped, RequestTyped DEF PayInv, PaymentsTypeOK, PayPC, PayRefused, PayDone, payGhost, payLocal
  <2>3. /\ payEvent' \in [PayProcs -> PayKinds \cup {PayNoEvent}]
        /\ payBack' \in [PayProcs -> Int] /\ payMoves' \in Nat
    BY DEF PayInv, PaymentsTypeOK, PayRefused, PayDone, payGhost, payLocal
  <2>4. /\ payFresh' \subseteq PayProcs /\ payTorn' \subseteq PayIds
        /\ payFailed' \subseteq PayIds /\ payRepaid' \subseteq PayIds
    BY DEF PayInv, PaymentsTypeOK, PayWorkOK, Working, PayRefused, PayDone, payGhost, payLocal
  <2>5. payRaced' \in BOOLEAN
    BY Zenon DEF PayInv, PaymentsTypeOK, PayRefused, PayDone, payGhost, payLocal
  <2> QED
    BY <2>1, <2>2, <2>3, <2>4, <2>5 DEF PaymentsTypeOK
<1>2. PayWorkOK'
  BY DEF PayInv, PaymentsTypeOK, PayWorkOK, Working,
         PayRefused, PayDone
<1>3. RefundRange'
  BY AbsentTyped DEF PayInv, PaymentsTypeOK, RefundRange, PayRefused, PayDone
<1>4. FreshCopies'
  BY DEF PayInv, PaymentsTypeOK, PayWorkOK, FreshCopies, Working, CopyOf,
         PayRefused, PayDone
<1>5. Sessions'
  BY DEF PayInv, PaymentsTypeOK, PayWorkOK, Sessions, SessionOK, KindOK,
         PayRefused, PayDone
<1>6. Takens'
  BY DEF PayInv, PaymentsTypeOK, PayWorkOK, Takens, TakenOK,
         PayRefused, PayDone
<1>7. Refunds'
  BY DEF PayInv, PaymentsTypeOK, PayWorkOK, Refunds, RefundOK, Between,
         PayRefused, PayDone
<1>8. FullOK'
  BY DEF PayInv, PaymentsTypeOK, PayWorkOK, FullOK,
         PayRefused, PayDone
<1>9. SearchOK'
  BY DEF PayInv, PaymentsTypeOK, PayWorkOK, SearchOK,
         PayRefused, PayDone
<1>10. OneOpenLink'
  BY DEF PayInv, PaymentsTypeOK, PayWorkOK, OneOpenLink,
         PayRefused, PayDone
<1> QED
  BY <1>1, <1>2, <1>3, <1>4, <1>5, <1>6, <1>7, <1>8, <1>9, <1>10 DEF PayInv

LEMMA TextInv ==
  ASSUME PayInv, NEW p \in PayProcs, PayText(p)
  PROVE  PayInv'
<1>0. PICK i \in PayIds : i = payCur[p]
  BY DEF PayInv, PayWorkOK, Working, PayText
<1>1. /\ payPc[p] = "text" /\ Working(p) /\ i \in PayIds
      /\ payHeld[p] \in PaymentRequest /\ payHeld[p].status # "absent"
      /\ payHeld[p].refunded \in 0 .. PayAmount
      /\ p \in payFresh => payDoc[i].status = "pending" /\ payHeld[p] = payDoc[i]
  BY <1>0 DEF PayInv, PaymentsTypeOK, PayText, PayWorkOK, Working, RefundRange, FreshCopies, CopyOf
<1>2. PICK doc \in PaymentRequest :
        /\ PayPut(p, i, doc) /\ doc.status # "absent" /\ doc.refunded = payHeld[p].refunded
        /\ doc.status \in {"sent", payHeld[p].status}
  <2>1. PICK sent \in BOOLEAN :
          PayPut(p, i, IF sent THEN [payHeld[p] EXCEPT !.status = "sent"] ELSE payHeld[p])
    BY <1>0 DEF PayInv, PaymentsTypeOK, PayText
  <2>2. [payHeld[p] EXCEPT !.status = "sent"] \in PaymentRequest
        /\ [payHeld[p] EXCEPT !.status = "sent"].status = "sent"
        /\ [payHeld[p] EXCEPT !.status = "sent"].refunded = payHeld[p].refunded
    BY <1>0, <1>1, RequestTyped DEF PayStatus, PayOpen
  <2>3. CASE sent
    <3>1. PayPut(p, i, [payHeld[p] EXCEPT !.status = "sent"])
      BY <2>1, <2>3, Zenon
    <3> QED
      BY <3>1, <2>2
  <2>4. CASE ~ sent
    <3>1. PayPut(p, i, payHeld[p])
      BY <2>1, <2>4, Zenon
    <3> QED
      BY <3>1, <1>1
  <2> QED
    BY <2>3, <2>4
<1>3. Saved(p, i, doc)
  BY <1>0, <1>1, <1>2, SavedIs DEF PayText
<1>4. PaymentsTypeOK'
  <2>1. /\ payEvents' \subseteq PayIds \X PayKinds /\ payMoves' \in Nat
        /\ payFailed' \subseteq PayIds /\ payRepaid' \subseteq PayIds
    BY <1>0 DEF PayInv, PaymentsTypeOK, PayText
  <2> QED
    BY <1>0, <1>1, <1>2, <2>1, SavedTyped DEF PayText
<1>5. doc.refunded \in 0 .. PayAmount
      /\ (p \in payFresh /\ doc.status \in PayOpen => payDoc[i].status \in PayOpen)
  BY <1>0, <1>1, <1>2 DEF PayInv, PaymentsTypeOK, PayOpen
<1>6. SessionOK(i)'
  BY <1>0, <1>1, <1>2, <1>3 DEF PayInv, PaymentsTypeOK, Saved, PayText, Sessions, SessionOK, KindOK
<1>7. i \notin payTorn' => TakenOK(i)'
  BY <1>0, <1>1, <1>2, <1>3 DEF PayInv, PaymentsTypeOK, Saved, PayText, Takens, TakenOK, PayTaken
<1>8. i \notin payTorn' => RefundOK(i)'
  <2>1. i \notin payTorn' => doc.refunded = payDoc[i].refunded
    BY <1>0, <1>1, <1>2, <1>3 DEF Saved
  <2> QED
    BY <1>0, <2>1, <1>1, <1>2, <1>3, SavedNoRefund
<1>9. i \notin payTorn' => (payDoc'[i].refunded = PayAmount =>
                              payDoc'[i].status = "refunded" \/ i \in payRepaid')
  BY <1>0, <1>1, <1>2, <1>3 DEF PayInv, PaymentsTypeOK, Saved, PayText, FullOK
<1>10. \A j \in PayIds \ {i}, k \in PayKinds : <<j, k>> \in payEvents' <=> <<j, k>> \in payEvents
  BY <1>0 DEF PayText
<1>11. PayWorkOK' /\ RefundRange' /\ FreshCopies' /\ SearchOK' /\ OneOpenLink'
  BY <1>0, <1>1, <1>2, <1>3, <1>5, <1>10, SavedKeeps
<1>12. /\ \A j \in PayIds \ {i} : SessionOK(j)'
       /\ \A q \in PayProcs : payPc'[q] = "hook" => KindOK(payCur[q], payEvent[q])'
       /\ \A j \in (PayIds \ payTorn') \ {i} : TakenOK(j)' /\ RefundOK(j)'
       /\ \A j \in (PayIds \ payTorn') \ {i} : payDoc'[j].refunded = PayAmount =>
            payDoc'[j].status = "refunded" \/ j \in payRepaid'
  BY <1>0, <1>1, <1>2, <1>3, <1>10, SavedOthers DEF PayText
<1>13. Sessions'
  BY <1>6, <1>12 DEF Sessions
<1>14. Takens' /\ Refunds' /\ FullOK'
  BY <1>7, <1>8, <1>9, <1>12 DEF Takens, Refunds, FullOK
<1> QED
  BY <1>4, <1>11, <1>13, <1>14 DEF PayInv

LEMMA CancelInv ==
  ASSUME PayInv, NEW p \in PayProcs, NEW i \in PayIds, PayCancel(p, i)
  PROVE  PayInv'
<1>1. PaymentsTypeOK'
  <2>1. /\ payDoc' \in [PayIds -> PaymentRequest] /\ paySession' \in [PayIds -> PaySessions]
        /\ payRefunded' \in [PayIds -> Int] /\ payEvents' \subseteq PayIds \X PayKinds
    BY DEF PayInv, PaymentsTypeOK, PayCancel, PayGet, payGhost, payLocal
  <2>0. [payDoc[i] EXCEPT !.status = "cancelled"] \in PaymentRequest
    BY RequestTyped DEF PayInv, PaymentsTypeOK, PayStatus, PayClosed
  <2>2. /\ payPc' \in [PayProcs -> PayPC] /\ payCur' \in [PayProcs -> PayIds \cup {PayNoId}]
        /\ payHeld' \in [PayProcs -> PaymentRequest]
    BY <2>0 DEF PayInv, PaymentsTypeOK, PayPC, PayCancel, PayGet, payGhost, payLocal
  <2>3. /\ payEvent' \in [PayProcs -> PayKinds \cup {PayNoEvent}]
        /\ payBack' \in [PayProcs -> Int] /\ payMoves' \in Nat
    BY DEF PayInv, PaymentsTypeOK, PayCancel, PayGet, payGhost, payLocal
  <2>4. /\ payFresh' \subseteq PayProcs /\ payTorn' \subseteq PayIds
        /\ payFailed' \subseteq PayIds /\ payRepaid' \subseteq PayIds
    BY DEF PayInv, PaymentsTypeOK, PayWorkOK, Working, PayCancel, PayGet, payGhost, payLocal
  <2>5. payRaced' \in BOOLEAN
    BY Zenon DEF PayInv, PaymentsTypeOK, PayCancel, PayGet, payGhost, payLocal
  <2> QED
    BY <2>1, <2>2, <2>3, <2>4, <2>5 DEF PaymentsTypeOK
<1>2. PayWorkOK'
  BY RequestTyped DEF PayInv, PaymentsTypeOK, PayWorkOK, Working, PayCancel, PayGet, PayOpen, PayStatus, PayClosed
<1>3. RefundRange'
  BY DEF PayInv, PaymentsTypeOK, RefundRange,
         PayCancel, PayGet
<1>4. FreshCopies'
  BY DEF PayInv, PaymentsTypeOK, PayWorkOK, FreshCopies, Working, CopyOf,
         PayCancel, PayGet
<1>5. Sessions'
  BY DEF PayInv, PaymentsTypeOK, PayWorkOK, Sessions, SessionOK, KindOK,
         PayCancel, PayGet
<1>6. Takens'
  BY DEF PayInv, PaymentsTypeOK, PayWorkOK, Takens, TakenOK,
         PayCancel, PayGet
<1>7. Refunds'
  BY DEF PayInv, PaymentsTypeOK, PayWorkOK, Refunds, RefundOK, Between,
         PayCancel, PayGet
<1>8. FullOK'
  BY DEF PayInv, PaymentsTypeOK, PayWorkOK, FullOK,
         PayCancel, PayGet
<1>9. SearchOK'
  BY DEF PayInv, PaymentsTypeOK, PayWorkOK, SearchOK,
         PayCancel, PayGet
<1>10. OneOpenLink'
  BY DEF PayInv, PaymentsTypeOK, PayWorkOK, OneOpenLink,
         PayCancel, PayGet
<1> QED
  BY <1>1, <1>2, <1>3, <1>4, <1>5, <1>6, <1>7, <1>8, <1>9, <1>10 DEF PayInv

LEMMA RefundInv ==
  ASSUME PayInv, NEW p \in PayProcs, NEW i \in PayIds, NEW amt \in 1 .. PayAmount, PayRefund(p, i, amt)
  PROVE  PayInv'
<1>1. PaymentsTypeOK'
  BY DEF PayInv, PaymentsTypeOK, PaymentRequest, PayStatus, PayPC,
         PayRefund, PayGet, PayRemaining
<1>2. PayWorkOK'
  BY DEF PayInv, PaymentsTypeOK, PayWorkOK, Working, PayRefund, PayGet, PayTaken
<1>3. RefundRange'
  BY DEF PayInv, PaymentsTypeOK, RefundRange,
         PayRefund, PayGet, PayRemaining
<1>4. FreshCopies'
  BY DEF PayInv, PaymentsTypeOK, PayWorkOK, FreshCopies, Working, CopyOf,
         PayRefund, PayGet, PayRemaining
<1>5. Sessions'
  BY DEF PayInv, PaymentsTypeOK, PayWorkOK, Sessions, SessionOK, KindOK,
         PayRefund, PayGet, PayRemaining
<1>6. Takens'
  BY DEF PayInv, PaymentsTypeOK, PayWorkOK, Takens, TakenOK,
         PayRefund, PayGet, PayRemaining
<1>7. Refunds'
  BY DEF PayInv, PaymentsTypeOK, PayWorkOK, Refunds, RefundOK, Between,
         PayRefund, PayGet, PayRemaining
<1>8. FullOK'
  BY DEF PayInv, PaymentsTypeOK, PayWorkOK, FullOK,
         PayRefund, PayGet, PayRemaining
<1>9. SearchOK'
  BY DEF PayInv, PaymentsTypeOK, PayWorkOK, SearchOK,
         PayRefund, PayGet, PayRemaining
<1>10. OneOpenLink'
  BY DEF PayInv, PaymentsTypeOK, PayWorkOK, OneOpenLink,
         PayRefund, PayGet, PayRemaining
<1> QED
  BY <1>1, <1>2, <1>3, <1>4, <1>5, <1>6, <1>7, <1>8, <1>9, <1>10 DEF PayInv

LEMMA ProviderRefundsInv ==
  ASSUME PayInv, NEW p \in PayProcs, PayProviderRefunds(p)
  PROVE  PayInv'
<1>0. /\ payPc[p] = "refund" /\ payCur[p] \in PayIds /\ payBack[p] \in Int
      /\ payHeld[p] \in PaymentRequest /\ payDoc[payCur[p]].status # "absent"
  BY DEF PayInv, PaymentsTypeOK, PayWorkOK, Working, PayProviderRefunds
<1>1. PaymentsTypeOK'
  <2>1. /\ payDoc' \in [PayIds -> PaymentRequest] /\ paySession' \in [PayIds -> PaySessions]
        /\ payRefunded' \in [PayIds -> Int] /\ payEvents' \subseteq PayIds \X PayKinds
    BY <1>0, AfterRefundTyped, AbsentTyped, RequestTyped DEF PayInv, PaymentsTypeOK, PayProviderRefunds, PayAfterRefund, payGhost, payLocal
  <2>2. /\ payPc' \in [PayProcs -> PayPC] /\ payCur' \in [PayProcs -> PayIds \cup {PayNoId}]
        /\ payHeld' \in [PayProcs -> PaymentRequest]
    BY <1>0, AfterRefundTyped, AbsentTyped, RequestTyped DEF PayInv, PaymentsTypeOK, PayPC, PayProviderRefunds, PayAfterRefund, payGhost, payLocal
  <2>3. /\ payEvent' \in [PayProcs -> PayKinds \cup {PayNoEvent}]
        /\ payBack' \in [PayProcs -> Int] /\ payMoves' \in Nat
    BY DEF PayInv, PaymentsTypeOK, PayProviderRefunds, PayAfterRefund, payGhost, payLocal
  <2>4. /\ payFresh' \subseteq PayProcs /\ payTorn' \subseteq PayIds
        /\ payFailed' \subseteq PayIds /\ payRepaid' \subseteq PayIds
    BY DEF PayInv, PaymentsTypeOK, PayWorkOK, Working, PayProviderRefunds, PayAfterRefund, payGhost, payLocal
  <2>5. payRaced' \in BOOLEAN
    BY Zenon DEF PayInv, PaymentsTypeOK, PayProviderRefunds, PayAfterRefund, payGhost, payLocal
  <2> QED
    BY <2>1, <2>2, <2>3, <2>4, <2>5 DEF PaymentsTypeOK
<1>2. PayWorkOK'
  BY DEF PayInv, PaymentsTypeOK, PayWorkOK, Working,
         PayProviderRefunds, PayAfterRefund, payGhost
<1>3. RefundRange'
  BY DEF PayInv, PaymentsTypeOK, RefundRange,
         PayProviderRefunds, PayAfterRefund, payGhost
<1>4. FreshCopies'
  <2> SUFFICES ASSUME NEW q \in payFresh', Working(q)' PROVE CopyOf(q, payDoc[payCur[q]])'
    BY DEF FreshCopies
  <2>1. q \in payFresh /\ q \in PayProcs /\ Working(q) /\ CopyOf(q, payDoc[payCur[q]])
    BY DEF PayInv, PaymentsTypeOK, PayProviderRefunds, payGhost, FreshCopies, Working
  <2>2. CASE q = p
    BY <2>1, <2>2, <1>0 DEF PayInv, PaymentsTypeOK, CopyOf, PayProviderRefunds
  <2>3. CASE q # p
    BY <2>1, <2>3 DEF PayInv, PaymentsTypeOK, CopyOf, PayProviderRefunds
  <2> QED
    BY <2>2, <2>3
<1>5. Sessions'
  <2>1. ASSUME NEW i \in PayIds PROVE SessionOK(i)'
    <3>1. payRefunded'[i] = payRefunded[i] \/ payDoc[i].status # "absent"
      BY <1>0 DEF PayInv, PaymentsTypeOK, PayProviderRefunds
    <3>2. SessionOK(i)
      BY DEF PayInv, Sessions
    <3> QED
      BY <3>1, <3>2 DEF SessionOK, KindOK, PayProviderRefunds, payGhost
  <2>2. ASSUME NEW q \in PayProcs, payPc'[q] = "hook" PROVE KindOK(payCur[q], payEvent[q])'
    BY <1>0, <2>2 DEF PayInv, PaymentsTypeOK, Sessions, KindOK, PayProviderRefunds
  <2> QED
    BY <2>1, <2>2 DEF Sessions
<1>6. Takens'
  BY DEF PayInv, PaymentsTypeOK, PayWorkOK, Takens, TakenOK,
         PayProviderRefunds, PayAfterRefund, payGhost
<1>7. Refunds'
  BY SMTT(30) DEF PayInv, PaymentsTypeOK, PayWorkOK, Refunds, RefundOK, Between,
         PayProviderRefunds, PayAfterRefund, payGhost
<1>8. FullOK'
  BY DEF PayInv, PaymentsTypeOK, PayWorkOK, FullOK,
         PayProviderRefunds, PayAfterRefund, payGhost
<1>9. SearchOK'
  BY DEF PayInv, PaymentsTypeOK, PayWorkOK, SearchOK,
         PayProviderRefunds, PayAfterRefund, payGhost
<1>10. OneOpenLink'
  BY DEF PayInv, PaymentsTypeOK, PayWorkOK, OneOpenLink,
         PayProviderRefunds, PayAfterRefund, payGhost
<1> QED
  BY <1>1, <1>2, <1>3, <1>4, <1>5, <1>6, <1>7, <1>8, <1>9, <1>10 DEF PayInv

LEMMA RefundFailsInv ==
  ASSUME PayInv, NEW p \in PayProcs, PayRefundFails(p)
  PROVE  PayInv'
<1>0. PICK i \in PayIds :
        /\ i = payCur[p] /\ payDoc[i].status # "absent"
        /\ payBack[p] \in Int /\ payRefunded[i] \in Int
        /\ \/ payRefunded' = payRefunded /\ payTorn' = payTorn
           \/ /\ payRefunded' = [payRefunded EXCEPT ![i] = @ + payBack[p]]
              /\ payTorn' = payTorn \cup {i}
  BY DEF PayInv, PaymentsTypeOK, PayWorkOK, Working, PayRefundFails
<1>20. \A j \in PayIds : j # i => payRefunded'[j] = payRefunded[j]
  BY <1>0 DEF PayInv, PaymentsTypeOK
<1>21. \A j \in PayIds \ payTorn' : j \notin payTorn /\ payRefunded'[j] = payRefunded[j]
  BY <1>0 DEF PayInv, PaymentsTypeOK
<1>1. PaymentsTypeOK'
  <2>1. /\ payDoc' \in [PayIds -> PaymentRequest] /\ paySession' \in [PayIds -> PaySessions]
        /\ payRefunded' \in [PayIds -> Int] /\ payEvents' \subseteq PayIds \X PayKinds
    BY <1>0 DEF PayInv, PaymentsTypeOK, PayRefundFails
  <2>2. /\ payPc' \in [PayProcs -> PayPC] /\ payCur' \in [PayProcs -> PayIds \cup {PayNoId}]
        /\ payHeld' \in [PayProcs -> PaymentRequest]
    BY AbsentTyped DEF PayInv, PaymentsTypeOK, PayPC, PayRefundFails, PayDone
  <2>3. /\ payEvent' \in [PayProcs -> PayKinds \cup {PayNoEvent}]
        /\ payBack' \in [PayProcs -> Int] /\ payMoves' \in Nat
    BY DEF PayInv, PaymentsTypeOK, PayRefundFails, PayDone
  <2>4. /\ payFresh' \subseteq PayProcs /\ payTorn' \subseteq PayIds
        /\ payFailed' \subseteq PayIds /\ payRepaid' \subseteq PayIds
    BY <1>0 DEF PayInv, PaymentsTypeOK, PayRefundFails
  <2>5. payRaced' \in BOOLEAN
    BY Zenon DEF PayInv, PaymentsTypeOK, PayRefundFails
  <2> QED
    BY <2>1, <2>2, <2>3, <2>4, <2>5 DEF PaymentsTypeOK
<1>2. PayWorkOK'
  BY DEF PayInv, PaymentsTypeOK, PayWorkOK, Working, PayRefundFails, PayDone
<1>3. RefundRange'
  BY AbsentTyped DEF PayInv, PaymentsTypeOK, RefundRange, PayRefundFails, PayDone
<1>4. FreshCopies'
  BY DEF PayInv, PaymentsTypeOK, PayWorkOK, FreshCopies, Working, CopyOf, PayRefundFails, PayDone
<1>5. Sessions'
  BY <1>0, <1>20
     DEF PayInv, PaymentsTypeOK, Sessions, SessionOK, KindOK, PayRefundFails, PayDone
<1>6. Takens'
  BY <1>21 DEF PayInv, Takens, TakenOK, PayRefundFails
<1>7. Refunds'
  <2> SUFFICES ASSUME NEW j \in PayIds \ payTorn' PROVE RefundOK(j)'
    BY DEF Refunds
  <2>1. RefundOK(j) /\ payDoc' = payDoc /\ payRefunded'[j] = payRefunded[j]
    BY <1>21 DEF PayInv, Refunds, PayRefundFails
  <2>2. Between(j)' = Between(j)
    BY DEF PayInv, PaymentsTypeOK, Between, PayRefundFails, PayDone
  <2>3. \A q \in Between(j) : payBack'[q] = payBack[q] /\ (q \notin payFresh => q \notin payFresh')
    BY DEF PayInv, PaymentsTypeOK, Between, PayRefundFails, PayDone
  <2> QED
    BY <2>1, <2>2, <2>3 DEF RefundOK
<1>8. FullOK'
  BY <1>21 DEF PayInv, FullOK, PayRefundFails
<1>9. SearchOK'
  BY <1>21 DEF PayInv, PaymentsTypeOK, SearchOK, PayRefundFails, PayDone
<1>10. OneOpenLink'
  <2>1. payTorn \subseteq payTorn'
    BY <1>0
  <2>2. payDoc' = payDoc
    BY DEF PayRefundFails
  <2>3. payRaced' = payRaced
    BY Zenon DEF PayRefundFails
  <2>4. OneOpenLink
    BY DEF PayInv
  <2> QED
    BY <2>1, <2>2, <2>3, <2>4, Zenon DEF OneOpenLink
<1> QED
  BY <1>1, <1>2, <1>3, <1>4, <1>5, <1>6, <1>7, <1>8, <1>9, <1>10 DEF PayInv

LEMMA SaveInv ==
  ASSUME PayInv, NEW p \in PayProcs, PaySave(p)
  PROVE  PayInv'
<1> DEFINE doc == payHeld[p]
<1>0. PICK i \in PayIds : i = payCur[p]
  BY DEF PayInv, PayWorkOK, Working, PaySave
<1>1. /\ payPc[p] \in {"cancel", "refunded"} /\ Working(p) /\ i \in PayIds
      /\ doc \in PaymentRequest /\ doc.status # "absent"
      /\ doc.refunded \in 0 .. PayAmount /\ payDoc[i] \in PaymentRequest
      /\ payDoc[i].status # "absent" /\ payBack[p] \in Int
  BY <1>0 DEF PayInv, PaymentsTypeOK, PaySave, PayWorkOK, Working, RefundRange
<1>2. PayPut(p, i, doc)
  BY <1>0 DEF PayInv, PaymentsTypeOK, PaySave
<1>20. p \in payFresh /\ payPc[p] = "cancel" =>
         /\ payDoc[i].status \in PayOpen /\ doc.status = "cancelled"
         /\ doc.refunded = payDoc[i].refunded
  <2>1. p \in payFresh /\ payPc[p] = "cancel" =>
          payDoc[i].status \in PayOpen /\ doc = [payDoc[i] EXCEPT !.status = "cancelled"]
    BY <1>0, <1>1 DEF PayInv, FreshCopies, CopyOf
  <2>2. /\ [payDoc[i] EXCEPT !.status = "cancelled"].status = "cancelled"
        /\ [payDoc[i] EXCEPT !.status = "cancelled"].refunded = payDoc[i].refunded
    BY <1>1, RequestTyped DEF PayStatus, PayClosed
  <2> QED
    BY <2>1, <2>2
<1>21. p \in payFresh /\ payPc[p] = "refunded" =>
         /\ payDoc[i].status \in PayTaken /\ doc.status \in PayTaken
         /\ doc.refunded = payDoc[i].refunded + payBack[p]
         /\ doc.refunded = PayAmount => doc.status = "refunded"
  <2> SUFFICES ASSUME p \in payFresh, payPc[p] = "refunded"
               PROVE  /\ payDoc[i].status \in PayTaken /\ doc.status \in PayTaken
                      /\ doc.refunded = payDoc[i].refunded + payBack[p]
                      /\ doc.refunded = PayAmount => doc.status = "refunded"
    OBVIOUS
  <2>1. payDoc[i].status \in PayTaken /\ doc = PayAfterRefund(payDoc[i], payBack[p])
    BY <1>0, <1>1 DEF PayInv, PaymentsTypeOK, FreshCopies, CopyOf
  <2>2. payDoc[i].refunded \in Int
    BY <1>1 DEF PaymentRequest
  <2>3. /\ doc.refunded = payDoc[i].refunded + payBack[p]
        /\ doc.refunded >= PayAmount => doc.status = "refunded"
        /\ doc.refunded < PayAmount => doc.status = payDoc[i].status
    <3>1. doc = PayAfterRefund(payDoc[i], payBack[p]) /\ doc.refunded \in Int
      BY <1>1, <2>1
    <3>2. PayAfterRefund(payDoc[i], payBack[p]).refunded = payDoc[i].refunded + payBack[p]
      BY <1>1, AfterRefundTyped
    <3>3. /\ payDoc[i].refunded + payBack[p] >= PayAmount =>
               PayAfterRefund(payDoc[i], payBack[p]).status = "refunded"
          /\ payDoc[i].refunded + payBack[p] < PayAmount =>
               PayAfterRefund(payDoc[i], payBack[p]).status = payDoc[i].status
      BY <1>1, AfterRefundTyped
    <3> QED
      BY <3>1, <3>2, <3>3
  <2> QED
    BY <1>1, <2>1, <2>3 DEF PayTaken
<1>3. Saved(p, i, doc)
  BY <1>0, <1>1, <1>2, SavedIs DEF PaySave
<1>4. PaymentsTypeOK'
  <2>1. /\ payEvents' \subseteq PayIds \X PayKinds /\ payMoves' \in Nat
        /\ payFailed' \subseteq PayIds /\ payRepaid' \subseteq PayIds
    BY <1>0 DEF PayInv, PaymentsTypeOK, PaySave
  <2> QED
    BY <1>0, <1>1, <1>2, <2>1, SavedTyped DEF PaySave
<1>5. doc.refunded \in 0 .. PayAmount
      /\ (p \in payFresh /\ doc.status \in PayOpen => payDoc[i].status \in PayOpen)
  BY <1>0, <1>1, <1>20, <1>21 DEF PayInv, PaymentsTypeOK, PayOpen, PayTaken
<1>6. SessionOK(i)'
  BY <1>0, <1>1, <1>2, <1>3 DEF PayInv, PaymentsTypeOK, Saved, PaySave, Sessions, SessionOK, KindOK
<1>7. i \notin payTorn' => TakenOK(i)'
  BY <1>0, <1>1, <1>20, <1>21, <1>3 DEF PayInv, PaymentsTypeOK, Saved, PaySave, Takens, TakenOK, PayTaken, PayOpen
<1>8. i \notin payTorn' => RefundOK(i)'
  <2>1. CASE payPc[p] = "cancel"
    <3>1. i \notin payTorn' => doc.refunded = payDoc[i].refunded
      BY <2>1, <1>20, <1>3 DEF Saved
    <3> QED
      BY <1>0, <3>1, <2>1, <1>1, <1>3, SavedNoRefund
  <2>2. ASSUME payPc[p] = "refunded", i \notin payTorn' PROVE RefundOK(i)'
    <3>1. p \in payFresh /\ i \notin payTorn /\ p \in Between(i)
      BY <1>0, <1>1, <1>3, <2>2 DEF PayInv, PaymentsTypeOK, Saved, Between
    <3>2. Between(i)' = Between(i) \ {p}
      BY <1>0, <1>1, <1>3 DEF PayInv, PaymentsTypeOK, Saved, Between
    <3>3. \A q \in Between(i) : q \notin payFresh'
      BY <1>3 DEF PayInv, PaymentsTypeOK, Saved, Between
    <3>4. CASE \E q \in Between(i) : q # p
      BY <3>2, <3>3, <3>4 DEF PayInv, PaymentsTypeOK, RefundOK
    <3>5. CASE Between(i) = {p}
      <4>1. payRefunded[i] = payDoc[i].refunded + payBack[p]
        BY <3>1, <3>5, <1>1 DEF PayInv, PaymentsTypeOK, Refunds, RefundOK
      <4>2. payRefunded'[i] = payDoc'[i].refunded
        BY <4>1, <3>1, <2>2, <1>21, <1>3 DEF PayInv, PaymentsTypeOK, Saved
      <4> QED
        BY <3>2, <3>5, <4>2 DEF PayInv, PaymentsTypeOK, RefundOK
    <3> QED
      BY <3>1, <3>4, <3>5
  <2> QED
    BY <1>0, <1>1, <2>1, <2>2
<1>9. i \notin payTorn' => (payDoc'[i].refunded = PayAmount =>
                              payDoc'[i].status = "refunded" \/ i \in payRepaid')
  BY <1>0, <1>1, <1>20, <1>21, <1>3 DEF PayInv, PaymentsTypeOK, Saved, PaySave, FullOK, PayOpen
<1>10. \A j \in PayIds \ {i}, k \in PayKinds : <<j, k>> \in payEvents' <=> <<j, k>> \in payEvents
  BY <1>0 DEF PaySave
<1>11. PayWorkOK' /\ RefundRange' /\ FreshCopies' /\ SearchOK' /\ OneOpenLink'
  BY <1>0, <1>1, <1>2, <1>3, <1>5, <1>10, SavedKeeps
<1>12. /\ \A j \in PayIds \ {i} : SessionOK(j)'
       /\ \A q \in PayProcs : payPc'[q] = "hook" => KindOK(payCur[q], payEvent[q])'
       /\ \A j \in (PayIds \ payTorn') \ {i} : TakenOK(j)' /\ RefundOK(j)'
       /\ \A j \in (PayIds \ payTorn') \ {i} : payDoc'[j].refunded = PayAmount =>
            payDoc'[j].status = "refunded" \/ j \in payRepaid'
  BY <1>0, <1>1, <1>2, <1>3, <1>10, SavedOthers DEF PaySave
<1>13. Sessions'
  BY <1>6, <1>12 DEF Sessions
<1>14. Takens' /\ Refunds' /\ FullOK'
  BY <1>7, <1>8, <1>9, <1>12 DEF Takens, Refunds, FullOK
<1> QED
  BY <1>4, <1>11, <1>13, <1>14 DEF PayInv

LEMMA HookInv ==
  ASSUME PayInv, NEW p \in PayProcs, PayHook(p)
  PROVE  PayInv'
<1>0. PICK i \in PayIds, k \in PayKinds :
        /\ <<i, k>> \in payEvents
        /\ PayGet(p, i, PayAfterEvent(payDoc[i], k), "hook")
        /\ payEvent' = [payEvent EXCEPT ![p] = k]
  <2>1. PICK e \in payEvents :
          /\ PayGet(p, e[1], PayAfterEvent(payDoc[e[1]], e[2]), "hook")
          /\ payEvent' = [payEvent EXCEPT ![p] = e[2]]
    BY DEF PayHook
  <2>2. e[1] \in PayIds /\ e[2] \in PayKinds /\ e = <<e[1], e[2]>>
    BY DEF PayInv, PaymentsTypeOK
  <2> QED
    BY <2>1, <2>2
<1>20. /\ KindOK(i, k) /\ payDoc[i].status # "absent" /\ payDoc[i] \in PaymentRequest
       /\ payDoc[i].refunded \in 0 .. PayAmount
  <2>1. SessionOK(i) /\ KindOK(i, k)
    BY <1>0 DEF PayInv, Sessions, SessionOK
  <2>2. payDoc[i].status # "absent"
    BY <2>1 DEF SessionOK, KindOK, PayKinds
  <2> QED
    BY <2>1, <2>2 DEF PayInv, PaymentsTypeOK, RefundRange
<1>21. /\ PayAfterEvent(payDoc[i], k) \in PaymentRequest
       /\ PayAfterEvent(payDoc[i], k).refunded = payDoc[i].refunded
       /\ PayAfterEvent(payDoc[i], k).status # "absent"
  BY <1>20, AfterEventTyped
<1>22. /\ payPc'[p] = "hook" /\ payCur'[p] = i /\ payEvent'[p] = k
       /\ payHeld'[p] = PayAfterEvent(payDoc[i], k)
       /\ \A q \in PayProcs \ {p} :
            /\ payPc'[q] = payPc[q] /\ payCur'[q] = payCur[q] /\ payHeld'[q] = payHeld[q]
            /\ payEvent'[q] = payEvent[q]
       /\ payFresh' = payFresh \cup {p} /\ payDoc' = payDoc /\ paySession' = paySession
       /\ payRefunded' = payRefunded /\ payEvents' = payEvents /\ payBack' = payBack
       /\ payFailed' = payFailed
  BY <1>0 DEF PayInv, PaymentsTypeOK, PayHook, PayGet
<1>1. PaymentsTypeOK'
  <2>1. /\ payDoc' \in [PayIds -> PaymentRequest] /\ paySession' \in [PayIds -> PaySessions]
        /\ payRefunded' \in [PayIds -> Int] /\ payEvents' \subseteq PayIds \X PayKinds
    BY <1>0, <1>21 DEF PayInv, PaymentsTypeOK, PayHook, PayGet, payGhost, payLocal
  <2>2. /\ payPc' \in [PayProcs -> PayPC] /\ payCur' \in [PayProcs -> PayIds \cup {PayNoId}]
        /\ payHeld' \in [PayProcs -> PaymentRequest]
    BY <1>0, <1>21 DEF PayInv, PaymentsTypeOK, PayPC, PayHook, PayGet, payGhost, payLocal
  <2>3. /\ payEvent' \in [PayProcs -> PayKinds \cup {PayNoEvent}]
        /\ payBack' \in [PayProcs -> Int] /\ payMoves' \in Nat
    BY DEF PayInv, PaymentsTypeOK, PayHook, PayGet, payGhost, payLocal
  <2>4. /\ payFresh' \subseteq PayProcs /\ payTorn' \subseteq PayIds
        /\ payFailed' \subseteq PayIds /\ payRepaid' \subseteq PayIds
    BY DEF PayInv, PaymentsTypeOK, PayWorkOK, Working, PayHook, PayGet, payGhost, payLocal
  <2>5. payRaced' \in BOOLEAN
    BY Zenon DEF PayInv, PaymentsTypeOK, PayHook, PayGet, payGhost, payLocal
  <2> QED
    BY <2>1, <2>2, <2>3, <2>4, <2>5 DEF PaymentsTypeOK
<1>2. PayWorkOK'
  BY <1>20, <1>21, <1>22 DEF PayInv, PaymentsTypeOK, PayWorkOK, Working
<1>3. RefundRange'
  BY <1>20, <1>21, <1>22 DEF PayInv, PaymentsTypeOK, RefundRange
<1>4. FreshCopies'
  <2>1. ASSUME NEW q \in payFresh', Working(q)' PROVE CopyOf(q, payDoc[payCur[q]])'
    <3>1. CASE q = p
      <4>1. <<i, k>> \in payEvents'
        BY <1>0, <1>22
      <4> QED
        BY <1>22, <4>1, <3>1, SMTT(30) DEF CopyOf
    <3>2. CASE q # p
      <4>1. q \in payFresh /\ q \in PayProcs \ {p} /\ Working(q)
        BY <1>22, <2>1, <3>2 DEF Working, PayInv, PaymentsTypeOK
      <4>2. CopyOf(q, payDoc[payCur[q]])
        BY <4>1 DEF PayInv, FreshCopies
      <4>3. /\ payPc'[q] = payPc[q] /\ payCur'[q] = payCur[q] /\ payHeld'[q] = payHeld[q]
            /\ payEvent'[q] = payEvent[q] /\ payBack' = payBack /\ payDoc' = payDoc
            /\ payEvents' = payEvents
        BY <1>22, <4>1
      <4> QED
        BY <4>2, <4>3, SMTT(30) DEF CopyOf
    <3> QED
      BY <3>1, <3>2
  <2> QED
    BY <2>1 DEF FreshCopies
<1>5. Sessions'
  <2>1. ASSUME NEW j \in PayIds PROVE SessionOK(j)'
    BY <1>22 DEF PayInv, Sessions, SessionOK, KindOK
  <2>2. ASSUME NEW q \in PayProcs, payPc'[q] = "hook" PROVE KindOK(payCur[q], payEvent[q])'
    BY <1>20, <1>22, <2>2 DEF PayInv, Sessions, KindOK
  <2> QED
    BY <2>1, <2>2 DEF Sessions
<1>6. Takens'
  BY DEF PayInv, PaymentsTypeOK, PayWorkOK, Takens, TakenOK,
         PayHook, PayGet
<1>7. Refunds'
  BY DEF PayInv, PaymentsTypeOK, PayWorkOK, Refunds, RefundOK, Between,
         PayHook, PayGet
<1>8. FullOK'
  BY DEF PayInv, PaymentsTypeOK, PayWorkOK, FullOK,
         PayHook, PayGet
<1>9. SearchOK'
  BY DEF PayInv, PaymentsTypeOK, PayWorkOK, SearchOK,
         PayHook, PayGet
<1>10. OneOpenLink'
  BY DEF PayInv, PaymentsTypeOK, PayWorkOK, OneOpenLink,
         PayHook, PayGet
<1> QED
  BY <1>1, <1>2, <1>3, <1>4, <1>5, <1>6, <1>7, <1>8, <1>9, <1>10 DEF PayInv

LEMMA HookSaveInv ==
  ASSUME PayInv, NEW p \in PayProcs, PayHookSave(p)
  PROVE  PayInv'
<1> DEFINE kind == payEvent[p]
       doc == payHeld[p]
<1>0. PICK i \in PayIds : i = payCur[p]
  BY DEF PayInv, PayWorkOK, Working, PayHookSave
<1>1. /\ payPc[p] = "hook" /\ Working(p) /\ i \in PayIds /\ kind \in PayKinds
      /\ doc \in PaymentRequest /\ doc.status # "absent"
      /\ doc.refunded \in 0 .. PayAmount /\ payDoc[i] \in PaymentRequest
      /\ payDoc[i].status # "absent" /\ KindOK(i, kind)
  BY <1>0 DEF PayInv, PaymentsTypeOK, PayHookSave, PayWorkOK, Working, RefundRange, Sessions
<1>2. PayPut(p, i, doc)
  BY <1>0 DEF PayInv, PaymentsTypeOK, PayHookSave
<1>20. p \in payFresh => doc = PayAfterEvent(payDoc[i], kind) /\ <<i, kind>> \in payEvents
  BY <1>0, <1>1 DEF PayInv, PaymentsTypeOK, FreshCopies, CopyOf
<1>21. p \in payFresh => /\ doc.refunded = payDoc[i].refunded /\ doc.status \notin PayOpen
                         /\ kind \in {"completed", "succeeded"} => doc.status = "paid"
                         /\ kind = "expired" => doc.status \in {"expired", payDoc[i].status}
  BY <1>0, <1>1, <1>20, AfterEventTyped
<1>22. /\ payEvents' \subseteq payEvents \cup {<<i, kind>>}
       /\ payEvents \subseteq payEvents' \cup {<<i, kind>>}
       /\ payFailed' = IF kind = "failed" THEN payFailed \cup {i} ELSE payFailed
       /\ payRepaid' = IF doc.refunded >= PayAmount /\ doc.status # "refunded"
                       THEN payRepaid \cup {i} ELSE payRepaid
  BY <1>0 DEF PayInv, PaymentsTypeOK, PayHookSave
<1>3. Saved(p, i, doc)
  BY <1>0, <1>1, <1>2, SavedIs DEF PayHookSave
<1>4. PaymentsTypeOK'
  <2>1. payEvents' \subseteq PayIds \X PayKinds
    BY <1>0, <1>1, <1>22 DEF PayInv, PaymentsTypeOK
  <2>2. payMoves' \in Nat
    BY <1>0 DEF PayInv, PaymentsTypeOK, PayHookSave
  <2>3. payFailed' \subseteq PayIds /\ payRepaid' \subseteq PayIds
    BY <1>0, <1>1, <1>22 DEF PayInv, PaymentsTypeOK
  <2> QED
    BY <1>0, <1>1, <1>2, <2>1, <2>2, <2>3, SavedTyped DEF PayHookSave
<1>5. doc.refunded \in 0 .. PayAmount
      /\ (p \in payFresh /\ doc.status \in PayOpen => payDoc[i].status \in PayOpen)
  BY <1>0, <1>1, <1>21
<1>6. SessionOK(i)'
  <2>1. ASSUME NEW k \in PayKinds, <<i, k>> \in payEvents' PROVE KindOK(i, k)'
    <3>1. KindOK(i, k)
      BY <1>1, <1>22, <2>1 DEF PayInv, Sessions, SessionOK
    <3> QED
      BY <3>1, <1>3 DEF Saved, KindOK
  <2>2. paySession[i] = "failed" => <<i, "failed">> \in payEvents' \/ i \in payFailed'
    BY <1>0, <1>1, <1>22 DEF PayInv, PaymentsTypeOK, Sessions, SessionOK, PayKinds
  <2> QED
    BY <1>0, <1>1, <2>1, <2>2, <1>3 DEF PayInv, PaymentsTypeOK, Saved, SessionOK
<1>7. i \notin payTorn' => TakenOK(i)'
  <2> SUFFICES ASSUME i \notin payTorn' PROVE TakenOK(i)'
    OBVIOUS
  <2>1. p \in payFresh /\ TakenOK(i) /\ payDoc'[i] = doc /\ paySession' = paySession
    BY <1>0, <1>1, <1>3 DEF PayInv, PaymentsTypeOK, Saved, Takens
  <2>2. CASE kind \in {"completed", "succeeded"}
    <3>1. doc.status = "paid" /\ paySession[i] \in {"processing", "charged", "failed"}
      BY <1>0, <1>1, <1>21, <2>1, <2>2 DEF PayInv, PaymentsTypeOK, KindOK
    <3>2. paySession[i] = "failed" => <<i, "failed">> \in payEvents' \/ i \in payFailed'
      BY <1>0, <1>1, <1>22 DEF PayInv, PaymentsTypeOK, Sessions, SessionOK, PayKinds
    <3> QED
      BY <2>1, <3>1, <3>2 DEF PayInv, PaymentsTypeOK, TakenOK, PayTaken, PayKinds
  <2>3. CASE kind = "failed"
    BY <1>0, <1>1, <1>22, <2>1, <2>3 DEF PayInv, PaymentsTypeOK, TakenOK, KindOK
  <2>4. CASE kind = "expired"
    BY <1>0, <1>1, <1>21, <2>1, <2>4 DEF PayInv, PaymentsTypeOK, TakenOK, KindOK, PayTaken
  <2> QED
    BY <1>0, <1>1, <2>2, <2>3, <2>4 DEF PayInv, PaymentsTypeOK, PayKinds
<1>8. i \notin payTorn' => RefundOK(i)'
  <2>1. i \notin payTorn' => doc.refunded = payDoc[i].refunded
    BY <1>21, <1>3 DEF Saved
  <2> QED
    BY <1>0, <2>1, <1>1, <1>3, SavedNoRefund
<1>9. i \notin payTorn' => (payDoc'[i].refunded = PayAmount =>
                              payDoc'[i].status = "refunded" \/ i \in payRepaid')
  BY <1>0, <1>1, <1>22, <1>3 DEF PayInv, PaymentsTypeOK, Saved
<1>10. \A j \in PayIds \ {i}, k \in PayKinds : <<j, k>> \in payEvents' <=> <<j, k>> \in payEvents
  BY <1>0 DEF PayHookSave
<1>11. PayWorkOK' /\ RefundRange' /\ FreshCopies' /\ SearchOK' /\ OneOpenLink'
  BY <1>0, <1>1, <1>2, <1>3, <1>5, <1>10, SavedKeeps
<1>12. /\ \A j \in PayIds \ {i} : SessionOK(j)'
       /\ \A q \in PayProcs : payPc'[q] = "hook" => KindOK(payCur[q], payEvent[q])'
       /\ \A j \in (PayIds \ payTorn') \ {i} : TakenOK(j)' /\ RefundOK(j)'
       /\ \A j \in (PayIds \ payTorn') \ {i} : payDoc'[j].refunded = PayAmount =>
            payDoc'[j].status = "refunded" \/ j \in payRepaid'
  BY <1>0, <1>1, <1>2, <1>3, <1>10, <1>22, SavedOthers
<1>13. Sessions'
  BY <1>6, <1>12 DEF Sessions
<1>14. Takens' /\ Refunds' /\ FullOK'
  BY <1>7, <1>8, <1>9, <1>12 DEF Takens, Refunds, FullOK
<1> QED
  BY <1>4, <1>11, <1>13, <1>14 DEF PayInv

LEMMA SessionInv ==
  ASSUME PayInv, NEW i \in PayIds, PayProvider(i)
  PROVE  PayInv'
<1>1. PICK to \in PaySessions, kind \in PayKinds :
        /\ paySession[i] \in {"open", "processing"}
        /\ kind = "completed" => to \in {"charged", "processing"}
        /\ kind = "succeeded" => to = "charged"
        /\ kind = "failed" => to = "failed"
        /\ kind = "expired" => to = "expired" /\ paySession[i] = "open"
        /\ paySession[i] = "processing" => to \in {"charged", "failed"}
        /\ paySession' = [paySession EXCEPT ![i] = to]
        /\ payEvents' = payEvents \cup {<<i, kind>>}
        /\ UNCHANGED <<payDoc, payRefunded, payLocal, payMoves, payGhost>>
  <2>1. \A k : {i} \X {k} = {<<i, k>>}
    OBVIOUS
  <2>2. CASE PaySessionTo(i, "open", "charged", {"completed"})
    BY <2>1, <2>2 DEF PaySessionTo, PaySessions, PayKinds
  <2>3. CASE PaySessionTo(i, "open", "processing", {"completed"})
    BY <2>1, <2>3 DEF PaySessionTo, PaySessions, PayKinds
  <2>4. CASE PaySessionTo(i, "open", "expired", {"expired"})
    BY <2>1, <2>4 DEF PaySessionTo, PaySessions, PayKinds
  <2>5. CASE PaySessionTo(i, "processing", "charged", {"succeeded"})
    BY <2>1, <2>5 DEF PaySessionTo, PaySessions, PayKinds
  <2>6. CASE PaySessionTo(i, "processing", "failed", {"failed"})
    BY <2>1, <2>6 DEF PaySessionTo, PaySessions, PayKinds
  <2> QED
    BY <2>2, <2>3, <2>4, <2>5, <2>6 DEF PayProvider
<1>2. /\ paySession'[i] = to /\ \A j \in PayIds \ {i} : paySession'[j] = paySession[j]
      /\ paySession' \in [PayIds -> PaySessions]
      /\ payEvents' \subseteq PayIds \X PayKinds
      /\ \A j \in PayIds \ {i}, k \in PayKinds : <<j, k>> \in payEvents' <=> <<j, k>> \in payEvents
      /\ \A k \in PayKinds : <<i, k>> \in payEvents' <=> <<i, k>> \in payEvents \/ k = kind
  BY <1>1 DEF PayInv, PaymentsTypeOK
<1>3. /\ payDoc' = payDoc /\ payRefunded' = payRefunded /\ payPc' = payPc /\ payCur' = payCur
      /\ payHeld' = payHeld /\ payEvent' = payEvent /\ payBack' = payBack
      /\ payMoves' = payMoves /\ payFresh' = payFresh /\ payTorn' = payTorn
      /\ payFailed' = payFailed /\ payRepaid' = payRepaid
  BY <1>1 DEF payLocal, payGhost
<1>4. payRaced' = payRaced
  BY <1>1, Zenon DEF payGhost
<1>5. PaymentsTypeOK'
  <2>1. payRaced' \in BOOLEAN
    BY <1>4, Zenon DEF PayInv, PaymentsTypeOK
  <2> QED
    BY <2>1, <1>2, <1>3 DEF PayInv, PaymentsTypeOK
\* What was so of a session stays so: it only moves on.
<1>6. ASSUME NEW j \in PayIds, NEW k \in PayKinds, KindOK(j, k) PROVE KindOK(j, k)'
  BY <1>1, <1>2, <1>6 DEF KindOK
<1>7. KindOK(i, kind)'
  BY <1>1, <1>2 DEF KindOK
<1>8. Sessions'
  <2>1. ASSUME NEW j \in PayIds PROVE SessionOK(j)'
    <3>1. SessionOK(j)
      BY DEF PayInv, Sessions
    <3>2. \A k \in PayKinds : <<j, k>> \in payEvents' => KindOK(j, k)'
      BY <3>1, <1>2, <1>6, <1>7 DEF SessionOK
    <3>3. payDoc[j].status = "absent" => j # i
      BY <3>1, <1>1 DEF SessionOK
    <3>4. paySession'[j] = "failed" => <<j, "failed">> \in payEvents' \/ j \in payFailed'
      BY <3>1, <1>1, <1>2, <1>3 DEF SessionOK, PayKinds
    <3> QED
      BY <3>1, <3>2, <3>3, <3>4, <1>2, <1>3 DEF SessionOK
  <2>2. ASSUME NEW q \in PayProcs, payPc'[q] = "hook" PROVE KindOK(payCur[q], payEvent[q])'
    <3>1. KindOK(payCur[q], payEvent[q]) /\ payCur[q] \in PayIds /\ payEvent[q] \in PayKinds
      BY <1>3, <2>2 DEF PayInv, Sessions, PayWorkOK, Working
    <3>2. PICK j \in PayIds, k \in PayKinds : j = payCur[q] /\ k = payEvent[q]
      BY <3>1
    <3> QED
      BY <3>1, <3>2, <1>3, <1>6
  <2> QED
    BY <2>1, <2>2 DEF Sessions
<1>9. Takens'
  <2>1. ASSUME NEW j \in PayIds \ payTorn' PROVE TakenOK(j)'
    <3>1. TakenOK(j)
      BY <1>3 DEF PayInv, Takens
    <3>2. CASE j = i
      BY <3>1, <3>2, <1>1, <1>2, <1>3 DEF TakenOK
    <3>3. CASE j # i
      BY <3>1, <3>3, <1>1, <1>2, <1>3 DEF TakenOK
    <3> QED
      BY <3>2, <3>3
  <2> QED
    BY <2>1 DEF Takens
<1>10. PayWorkOK' /\ RefundRange' /\ FreshCopies'
  <2>1. PayWorkOK' /\ RefundRange'
    BY <1>3 DEF PayInv, PayWorkOK, Working, RefundRange
  <2>2. payEvents \subseteq payEvents'
    BY <1>1
  <2>3. FreshCopies'
    BY <1>3, <2>2 DEF PayInv, FreshCopies, CopyOf, Working
  <2> QED
    BY <2>1, <2>3
<1>11. Refunds' /\ FullOK' /\ SearchOK'
  BY <1>3 DEF PayInv, Refunds, RefundOK, Between, FullOK, SearchOK
<1>12. OneOpenLink'
  BY <1>3, <1>4, Zenon DEF PayInv, OneOpenLink
<1> QED
  BY <1>5, <1>8, <1>9, <1>10, <1>11, <1>12 DEF PayInv

LEMMA RestartInv == ASSUME PayInv, PayRestart PROVE PayInv'
<1>1. PaymentsTypeOK'
  <2>1. /\ payDoc' \in [PayIds -> PaymentRequest] /\ paySession' \in [PayIds -> PaySessions]
        /\ payRefunded' \in [PayIds -> Int] /\ payEvents' \subseteq PayIds \X PayKinds
    BY AbsentTyped, RequestTyped DEF PayInv, PaymentsTypeOK, PayRestart, payGhost, payLocal
  <2>2. /\ payPc' \in [PayProcs -> PayPC] /\ payCur' \in [PayProcs -> PayIds \cup {PayNoId}]
        /\ payHeld' \in [PayProcs -> PaymentRequest]
    BY AbsentTyped, RequestTyped DEF PayInv, PaymentsTypeOK, PayPC, PayRestart, payGhost, payLocal
  <2>3. /\ payEvent' \in [PayProcs -> PayKinds \cup {PayNoEvent}]
        /\ payBack' \in [PayProcs -> Int] /\ payMoves' \in Nat
    BY DEF PayInv, PaymentsTypeOK, PayRestart, payGhost, payLocal
  <2>4. /\ payFresh' \subseteq PayProcs /\ payTorn' \subseteq PayIds
        /\ payFailed' \subseteq PayIds /\ payRepaid' \subseteq PayIds
    BY DEF PayInv, PaymentsTypeOK, PayWorkOK, Working, PayRestart, payGhost, payLocal
  <2>5. payRaced' \in BOOLEAN
    BY Zenon DEF PayInv, PaymentsTypeOK, PayRestart, payGhost, payLocal
  <2> QED
    BY <2>1, <2>2, <2>3, <2>4, <2>5 DEF PaymentsTypeOK
<1>2. PayWorkOK'
  BY DEF PayInv, PaymentsTypeOK, PayWorkOK, Working,
         PayRestart
<1>3. RefundRange'
  BY AbsentTyped DEF PayInv, PaymentsTypeOK, RefundRange, PayRestart
<1>4. FreshCopies'
  BY DEF PayInv, PaymentsTypeOK, PayWorkOK, FreshCopies, Working, CopyOf,
         PayRestart
<1>5. Sessions'
  BY DEF PayInv, PaymentsTypeOK, PayWorkOK, Sessions, SessionOK, KindOK,
         PayRestart
<1>6. Takens'
  BY DEF PayInv, PaymentsTypeOK, PayWorkOK, Takens, TakenOK,
         PayRestart
<1>7. Refunds'
  BY DEF PayInv, PaymentsTypeOK, PayWorkOK, Refunds, RefundOK, Between,
         PayRestart
<1>8. FullOK'
  BY DEF PayInv, PaymentsTypeOK, PayWorkOK, FullOK,
         PayRestart
<1>9. SearchOK'
  BY DEF PayInv, PaymentsTypeOK, PayWorkOK, SearchOK,
         PayRestart
<1>10. OneOpenLink'
  BY DEF PayInv, PaymentsTypeOK, PayWorkOK, OneOpenLink,
         PayRestart
<1> QED
  BY <1>1, <1>2, <1>3, <1>4, <1>5, <1>6, <1>7, <1>8, <1>9, <1>10 DEF PayInv

LEMMA NextInv == PayInv /\ [PaymentsNext]_paymentsVars => PayInv'
<1> SUFFICES ASSUME PayInv, [PaymentsNext]_paymentsVars PROVE PayInv'
  OBVIOUS
<1>1. ASSUME NEW p \in PayProcs, PayFind(p) \/ PayCreate(p) \/ PayRefused(p) \/ PayText(p)
      PROVE  PayInv'
  BY <1>1, FindInv, CreateInv, RefusedInv, TextInv
<1>2. ASSUME NEW p \in PayProcs, NEW i \in PayIds, PayCancel(p, i) PROVE PayInv'
  BY <1>2, CancelInv
<1>3. ASSUME NEW p \in PayProcs, NEW i \in PayIds, NEW amt \in 1 .. PayAmount,
             PayRefund(p, i, amt)
      PROVE  PayInv'
  BY <1>3, RefundInv
<1>4. ASSUME NEW p \in PayProcs, PayProviderRefunds(p) \/ PayRefundFails(p) \/ PaySave(p)
      PROVE  PayInv'
  BY <1>4, ProviderRefundsInv, RefundFailsInv, SaveInv
<1>5. ASSUME NEW p \in PayProcs, PayHook(p) \/ PayHookSave(p) PROVE PayInv'
  BY <1>5, HookInv, HookSaveInv
<1>6. ASSUME NEW i \in PayIds, PayProvider(i) PROVE PayInv'
  BY <1>6, SessionInv
<1>7. CASE PayRestart
  BY <1>7, RestartInv
<1>8. CASE UNCHANGED paymentsVars
  <2>1. PaymentsTypeOK'
    <3>1. payRaced' \in BOOLEAN
      BY <1>8, Zenon DEF paymentsVars, payGhost, PayInv, PaymentsTypeOK
    <3> QED
      BY <3>1, <1>8 DEF paymentsVars, payLocal, payGhost, PayInv, PaymentsTypeOK
  <2>2. PayWorkOK' /\ RefundRange' /\ FreshCopies' /\ SearchOK' /\ FullOK'
    BY <1>8 DEF paymentsVars, payLocal, payGhost, PayInv, PayWorkOK, Working, RefundRange,
                FreshCopies, CopyOf, SearchOK, FullOK
  <2>3. Sessions' /\ Takens' /\ Refunds'
    <3>1. Sessions'
      BY <1>8 DEF paymentsVars, payLocal, payGhost, PayInv, Sessions, SessionOK, KindOK
    <3>2. Takens'
      BY <1>8 DEF paymentsVars, payGhost, PayInv, Takens, TakenOK
    <3>3. Refunds'
      BY <1>8 DEF paymentsVars, payLocal, payGhost, PayInv, Refunds, RefundOK, Between
    <3> QED
      BY <3>1, <3>2, <3>3
  <2>4. OneOpenLink'
    BY <1>8, Zenon DEF paymentsVars, payGhost, PayInv, OneOpenLink
  <2> QED
    BY <2>1, <2>2, <2>3, <2>4 DEF PayInv
<1> QED
  BY <1>1, <1>2, <1>3, <1>4, <1>5, <1>6, <1>7, <1>8 DEF PaymentsNext

-------------------------------------------------------------------------------
(* The record stays behind the provider. *)

\* Neither the record nor a copy of it says that more was given back than was.
RecordBehind ==
  /\ \A i \in PayIds : payDoc[i].refunded <= payRefunded[i]
  /\ \A p \in PayProcs : Working(p) => payHeld[p].refunded <= payRefunded[payCur[p]]

\* A process takes a copy that says of refunds what the record says.
LEMMA BehindGet ==
  ASSUME PayInv, RecordBehind, NEW p \in PayProcs, NEW i \in PayIds, NEW next \in PayPC,
         NEW doc \in PaymentRequest, doc.refunded = payDoc[i].refunded, PayGet(p, i, doc, next),
         UNCHANGED <<payDoc, payRefunded>>
  PROVE  RecordBehind'
<1>1. payHeld'[p] = doc /\ payCur'[p] = i
  BY DEF PayInv, PaymentsTypeOK, PayGet
<1>2. \A q \in PayProcs \ {p} : /\ payPc'[q] = payPc[q] /\ payCur'[q] = payCur[q]
                                 /\ payHeld'[q] = payHeld[q]
  BY DEF PayInv, PaymentsTypeOK, PayGet
<1>3. ASSUME NEW q \in PayProcs, Working(q)' PROVE payHeld'[q].refunded <= payRefunded'[payCur'[q]]
  <2>1. CASE q = p
    BY <1>1, <2>1 DEF RecordBehind
  <2>2. CASE q # p
    BY <1>2, <1>3, <2>2 DEF RecordBehind, Working
  <2> QED
    BY <2>1, <2>2
<1>4. \A j \in PayIds : payDoc'[j].refunded <= payRefunded'[j]
  BY DEF RecordBehind
<1> QED
  BY <1>3, <1>4 DEF RecordBehind

\* A process puts its copy back, or a copy that says of refunds what it says.
LEMMA BehindPut ==
  ASSUME PayInv, RecordBehind, NEW p \in PayProcs, Working(p), NEW doc \in PaymentRequest,
         doc.refunded = payHeld[p].refunded, PayPut(p, payCur[p], doc), PayDone(p),
         payRefunded' = payRefunded
  PROVE  RecordBehind'
<1>1. payCur[p] \in PayIds
  BY DEF PayInv, PayWorkOK
<1>2. \A j \in PayIds : payDoc'[j].refunded <= payRefunded'[j]
  BY <1>1 DEF PayInv, PaymentsTypeOK, PayPut, RecordBehind
<1>3. \A q \in PayProcs : Working(q)' => payHeld'[q].refunded <= payRefunded'[payCur'[q]]
  BY DEF PayInv, PaymentsTypeOK, PayDone, RecordBehind, Working
<1> QED
  BY <1>2, <1>3 DEF RecordBehind

\* A process is done, and the provider has given back what it had, or more.
LEMMA BehindDone ==
  ASSUME PayInv, RecordBehind, NEW p \in PayProcs, PayDone(p), payDoc' = payDoc,
         \A i \in PayIds : payRefunded'[i] >= payRefunded[i] /\ payRefunded'[i] \in Int
  PROVE  RecordBehind'
<1>1. \A i \in PayIds : payDoc[i].refunded \in Int /\ payRefunded[i] \in Int
  BY DEF PayInv, PaymentsTypeOK, RefundRange
<1>2. \A i \in PayIds : payDoc'[i].refunded <= payRefunded'[i]
  BY <1>1 DEF RecordBehind
<1>3. ASSUME NEW q \in PayProcs, Working(q)' PROVE payHeld'[q].refunded <= payRefunded'[payCur'[q]]
  <2>1. /\ payCur'[q] = payCur[q] /\ payHeld'[q] = payHeld[q] /\ Working(q)
    BY <1>3 DEF PayInv, PaymentsTypeOK, PayDone, Working
  <2>2. payHeld[q].refunded \in Int /\ payCur[q] \in PayIds
    BY <2>1 DEF PayInv, RefundRange, PayWorkOK
  <2> QED
    BY <1>1, <2>1, <2>2 DEF RecordBehind
<1> QED
  BY <1>2, <1>3 DEF RecordBehind

LEMMA BehindCreate ==
  ASSUME PayInv, RecordBehind, NEW p \in PayProcs, PayCreate(p)
  PROVE  RecordBehind'
<1> DEFINE doc == [status |-> "pending", refunded |-> 0]
<1>1. PICK i \in PayIds : /\ payDoc' = [payDoc EXCEPT ![i] = doc]
                          /\ payCur' = [payCur EXCEPT ![p] = i]
                          /\ payHeld' = [payHeld EXCEPT ![p] = doc]
  BY DEF PayCreate
<1>2. payRefunded[i] \in Int /\ 0 <= payRefunded[i] /\ payRefunded' = payRefunded
  BY DEF PayInv, PaymentsTypeOK, RefundRange, RecordBehind, PayCreate
<1>3. doc.refunded = 0
  OBVIOUS
<1> HIDE DEF doc
<1>4. \A j \in PayIds : payDoc'[j].refunded <= payRefunded'[j]
  BY <1>1, <1>2, <1>3 DEF PayInv, PaymentsTypeOK, RecordBehind
<1>5. ASSUME NEW q \in PayProcs, Working(q)' PROVE payHeld'[q].refunded <= payRefunded'[payCur'[q]]
  <2>1. CASE q = p
    BY <1>1, <1>2, <1>3, <2>1 DEF PayInv, PaymentsTypeOK
  <2>2. CASE q # p
    BY <1>1, <1>2, <1>5, <2>2 DEF PayInv, PaymentsTypeOK, RecordBehind, Working, PayCreate
  <2> QED
    BY <2>1, <2>2
<1> QED
  BY <1>4, <1>5 DEF RecordBehind

LEMMA BehindRefunds ==
  ASSUME PayInv, RecordBehind, NEW p \in PayProcs, PayProviderRefunds(p)
  PROVE  RecordBehind'
<1>1. /\ payCur[p] \in PayIds /\ payBack[p] \in 1 .. PayAmount - payHeld[p].refunded
      /\ payHeld[p] \in PaymentRequest /\ payHeld[p].refunded \in Int
      /\ payHeld[p].refunded <= payRefunded[payCur[p]]
      /\ payRefunded[payCur[p]] \in Int
  BY DEF PayInv, PaymentsTypeOK, PayWorkOK, RefundRange, RecordBehind, Working, PayProviderRefunds
<1>2. payHeld' = [payHeld EXCEPT ![p] = PayAfterRefund(payHeld[p], payBack[p])]
  BY DEF PayProviderRefunds
<1>3. payHeld'[p].refunded = payHeld[p].refunded + payBack[p]
  BY <1>1, <1>2, AfterRefundTyped DEF PayInv, PaymentsTypeOK
<1>4. /\ payRefunded'[payCur[p]] = payRefunded[payCur[p]] + payBack[p]
      /\ \A j \in PayIds : payRefunded'[j] \in Int /\ payRefunded[j] <= payRefunded'[j]
  BY <1>1 DEF PayInv, PaymentsTypeOK, PayProviderRefunds
<1>5. \A j \in PayIds : payDoc'[j].refunded <= payRefunded'[j]
  BY <1>4 DEF PayInv, PaymentsTypeOK, RefundRange, RecordBehind, PayProviderRefunds
<1>6. ASSUME NEW q \in PayProcs, Working(q)' PROVE payHeld'[q].refunded <= payRefunded'[payCur'[q]]
  <2>1. CASE q = p
    BY <1>1, <1>3, <1>4, <2>1 DEF PayProviderRefunds
  <2>2. CASE q # p
    <3>1. /\ payHeld'[q] = payHeld[q] /\ payCur'[q] = payCur[q] /\ Working(q)
      BY <1>2, <1>6, <2>2 DEF PayInv, PaymentsTypeOK, PayProviderRefunds, Working
    <3>2. payHeld[q].refunded \in Int /\ payCur[q] \in PayIds
      BY <3>1 DEF PayInv, RefundRange, PayWorkOK
    <3> QED
      BY <1>4, <3>1, <3>2 DEF RecordBehind, PayInv, PaymentsTypeOK
  <2> QED
    BY <2>1, <2>2
<1> QED
  BY <1>5, <1>6 DEF RecordBehind

LEMMA BehindNext ==
  ASSUME PayInv, RecordBehind, [PaymentsNext]_paymentsVars
  PROVE  RecordBehind'
<1>1. ASSUME NEW p \in PayProcs, PayFind(p) PROVE RecordBehind'
  BY <1>1 DEF PayInv, PaymentsTypeOK, RecordBehind, Working, PayFind
<1>2. ASSUME NEW p \in PayProcs, PayRefused(p) PROVE RecordBehind'
  BY <1>2, BehindDone DEF PayInv, PaymentsTypeOK, PayRefused
<1>3. ASSUME NEW p \in PayProcs, PayText(p) PROVE RecordBehind'
  <2>1. PICK sent \in BOOLEAN : PayPut(p, payCur[p],
          IF sent THEN [payHeld[p] EXCEPT !.status = "sent"] ELSE payHeld[p])
    BY <1>3 DEF PayText
  <2>2. PICK doc \in PaymentRequest :
          doc.refunded = payHeld[p].refunded /\ PayPut(p, payCur[p], doc)
    <3>1. /\ payHeld[p] \in PaymentRequest
          /\ [payHeld[p] EXCEPT !.status = "sent"] \in PaymentRequest
          /\ [payHeld[p] EXCEPT !.status = "sent"].refunded = payHeld[p].refunded
      BY RequestTyped DEF PayInv, PaymentsTypeOK, PayStatus, PayOpen
    <3>2. CASE sent
      BY <2>1, <3>1, <3>2, Zenon
    <3>3. CASE ~ sent
      BY <2>1, <3>1, <3>3, Zenon
    <3> QED
      BY <3>2, <3>3
  <2> QED
    BY <1>3, <2>2, BehindPut DEF PayText, Working
<1>4. ASSUME NEW p \in PayProcs, NEW i \in PayIds, PayCancel(p, i) PROVE RecordBehind'
  <2>1. /\ [payDoc[i] EXCEPT !.status = "cancelled"] \in PaymentRequest
        /\ [payDoc[i] EXCEPT !.status = "cancelled"].refunded = payDoc[i].refunded
    BY RequestTyped DEF PayInv, PaymentsTypeOK, PayStatus, PayClosed
  <2> QED
    BY <1>4, <2>1, BehindGet DEF PayCancel, PayPC
<1>5. ASSUME NEW p \in PayProcs, NEW i \in PayIds, NEW amt \in 1 .. PayAmount, PayRefund(p, i, amt)
      PROVE  RecordBehind'
  BY <1>5, BehindGet DEF PayInv, PaymentsTypeOK, PayRefund, PayPC
<1>6. ASSUME NEW p \in PayProcs, PayRefundFails(p) PROVE RecordBehind'
  <2>1. /\ payBack[p] \in 1 .. PayAmount - payHeld[p].refunded /\ payHeld[p].refunded \in Int
        /\ payCur[p] \in PayIds
    BY <1>6 DEF PayInv, RefundRange, PayWorkOK, Working, PayRefundFails
  <2>2. \A j \in PayIds : payRefunded'[j] >= payRefunded[j] /\ payRefunded'[j] \in Int
    BY <1>6, <2>1 DEF PayInv, PaymentsTypeOK, PayRefundFails
  <2> QED
    BY <1>6, <2>2, BehindDone DEF PayRefundFails
<1>7. ASSUME NEW p \in PayProcs, PaySave(p) PROVE RecordBehind'
  BY <1>7, BehindPut DEF PayInv, PaymentsTypeOK, PaySave, Working
<1>8. ASSUME NEW p \in PayProcs, PayHook(p) PROVE RecordBehind'
  <2>1. PICK e \in payEvents : PayGet(p, e[1], PayAfterEvent(payDoc[e[1]], e[2]), "hook")
    BY <1>8 DEF PayHook
  <2>2. e[1] \in PayIds /\ e[2] \in PayKinds
    BY DEF PayInv, PaymentsTypeOK
  <2>3. /\ payDoc[e[1]] \in PaymentRequest
        /\ PayAfterEvent(payDoc[e[1]], e[2]) \in PaymentRequest
        /\ PayAfterEvent(payDoc[e[1]], e[2]).refunded = payDoc[e[1]].refunded
    BY <2>2, AfterEventTyped DEF PayInv, PaymentsTypeOK
  <2>4. "hook" \in PayPC /\ UNCHANGED <<payDoc, payRefunded>>
    BY <1>8 DEF PayHook, PayPC
  <2> QED
    BY <2>1, <2>2, <2>3, <2>4, BehindGet
<1>9. ASSUME NEW p \in PayProcs, PayHookSave(p) PROVE RecordBehind'
  BY <1>9, BehindPut DEF PayInv, PaymentsTypeOK, PayHookSave, Working
<1>10. ASSUME NEW i \in PayIds, PayProvider(i) PROVE RecordBehind'
  BY <1>10 DEF PayProvider, PaySessionTo, payLocal, RecordBehind, Working
<1>11. CASE PayRestart
  BY <1>11 DEF PayRestart, RecordBehind, Working
<1>12. CASE UNCHANGED paymentsVars
  BY <1>12 DEF paymentsVars, payLocal, RecordBehind, Working
<1> QED
  BY <1>1, <1>2, <1>3, <1>4, <1>5, <1>6, <1>7, <1>8, <1>9, <1>10, <1>11, <1>12,
     BehindCreate, BehindRefunds DEF PaymentsNext

-------------------------------------------------------------------------------
(* The theorems. *)

LEMMA SpecInv == PaymentsSpec => [](PayInv /\ RecordBehind)
<1>1. PaymentsInit => PayInv /\ RecordBehind
  BY InitInv DEF PaymentsInit, RecordBehind, Working, PayAbsent
<1>2. PayInv /\ RecordBehind /\ [PaymentsNext]_paymentsVars => (PayInv /\ RecordBehind)'
  BY NextInv, BehindNext
<1> QED
  BY <1>1, <1>2, PTL DEF PaymentsSpec

\* Requests, sessions, events and the copies at work have their types, for any
\* number of requests and processes (PaymentService).
THEOREM PaymentsTypeCorrect == PaymentsSpec => []PaymentsTypeOK
<1>1. PayInv => PaymentsTypeOK
  BY DEF PayInv
<1> QED
  BY <1>1, SpecInv, PTL

\* However texts, cancels, refunds and redelivered events overlap, a request that
\* has lost no update reads paid exactly when its session has the money, once its
\* events are handled (handle_webhook).
THEOREM PaymentsAlwaysAgree == PaymentsSpec => []PaymentAgrees
<1>1. ASSUME PayInv PROVE PaymentAgrees
  <2>1. \A i \in PayIds : paySession[i] \in PaySessions
    BY <1>1 DEF PayInv, PaymentsTypeOK
  <2> QED
    BY <1>1, <2>1 DEF PayInv, Takens, TakenOK, PaymentAgrees, PaySessions
<1> QED
  BY <1>1, SpecInv, PTL

\* For any amount and any refunds in flight, the record never says more than the
\* provider gave back; and its refunds are the provider's and within what was paid,
\* unless a write or the provider's answer was lost (refund).
THEOREM RefundsAlwaysAgree == PaymentsSpec => []RefundsAgree
<1>1. ASSUME PayInv, RecordBehind PROVE RefundsAgree
  <2>1. \A i \in PayIds : payDoc[i].refunded <= payRefunded[i]
    BY <1>1 DEF RecordBehind
  <2> QED
    BY <1>1, <2>1 DEF PayInv, Refunds, RefundOK, Between, RefundRange, FullOK, RefundsAgree
<1> QED
  BY <1>1, SpecInv, PTL

\* For any number of requests for one thing, two are open together only through a
\* search that was overtaken or a lost update (request_link).
THEOREM OneLinkOpen == PaymentsSpec => []OneOpenLink
<1>1. PayInv => OneOpenLink
  BY DEF PayInv
<1> QED
  BY <1>1, SpecInv, PTL

================================================================================
