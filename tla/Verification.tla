----------------------------- MODULE Verification -----------------------------
(* Caller verification on one call: PaymentService.verify of                    *)
(* apps/api/parlio_api/payments.py, and ReceptionistTools.verify_caller of the voice *)
(* worker's tools.py that calls it.                                             *)
(*                                                                              *)
(* verify lists the attempts of the call, reads the contact's stored answers    *)
(* and adds an attempt of its own; the assistant may call the tool again      *)
(* before the first answer is back, or after a reply that was lost.  Whether    *)
(* the spoken answers match, and whether the contact has answers at all, are    *)
(* free choices at each comparison.                                             *)
EXTENDS Integers, FiniteSets

CONSTANTS
  VerCalls,  \* tool calls that can be in flight together
  VerMax,    \* VerificationConfig.max_attempts
  VerBound   \* bound: comparisons that are saved

ASSUME VerificationAssumption == VerMax \in Nat \ {0} /\ VerBound \in Nat

VARIABLES
  verSaved,     \* attempts stored for the call, by outcome
  verPc,        \* each tool call: idle, or waiting on the API's comparison
  verSeen,      \* the number of attempts it has listed
  verVerified,  \* the worker's session: verified
  verLocked     \* the worker's session: verification_locked

\* History, for the properties only.
VARIABLES
  verFresh,  \* tool calls whose listing is still current
  verStale   \* attempts compared on a listing that was not

verificationVars == <<verSaved, verPc, verSeen, verVerified, verLocked, verFresh, verStale>>

VerificationOutcome == {"verified", "failed", "locked", "no_record"}

VerificationInit ==
  /\ verSaved = [o \in VerificationOutcome |-> 0]
  /\ verPc = [c \in VerCalls |-> "idle"]
  /\ verSeen = [c \in VerCalls |-> 0]
  /\ verVerified = FALSE
  /\ verLocked = FALSE
  /\ verFresh = {}
  /\ verStale = 0

VerAttempts == verSaved["verified"] + verSaved["failed"]
               + verSaved["locked"] + verSaved["no_record"]

\* What the worker keeps of an answer, if the answer reaches it.
VerAnswer(outcome) ==
  \/ /\ verVerified' = (verVerified \/ outcome = "verified")
     /\ verLocked' = (verLocked \/ outcome = "locked")
  \/ UNCHANGED <<verVerified, verLocked>>

\* verify on a call that is verified, or has no attempt left: nothing is saved.
VerTurnedAway(c) ==
  /\ verPc[c] = "idle"
  /\ ~verLocked
  /\ \/ verSaved["verified"] > 0 /\ VerAnswer("verified")
     \/ verSaved["verified"] = 0 /\ VerAttempts >= VerMax /\ VerAnswer("locked")
  /\ UNCHANGED <<verSaved, verPc, verSeen, verFresh, verStale>>

\* Mutant: the attempts are not counted.
VerListUncounted(c) ==
  /\ verPc[c] = "idle"
  /\ ~verLocked
  /\ verSaved["verified"] = 0
  /\ VerAttempts + Cardinality({d \in VerCalls : verPc[d] = "compare"}) < VerBound
  /\ verPc' = [verPc EXCEPT ![c] = "compare"]
  /\ verSeen' = [verSeen EXCEPT ![c] = VerAttempts]
  /\ verFresh' = verFresh \cup {c}
  /\ UNCHANGED <<verSaved, verVerified, verLocked, verStale>>

\* The attempts are listed; the stored answers are read next.
VerList(c) ==
  /\ verPc[c] = "idle"
  /\ ~verLocked
  /\ verSaved["verified"] = 0
  /\ VerAttempts < VerMax
  /\ VerAttempts + Cardinality({d \in VerCalls : verPc[d] = "compare"}) < VerBound
  /\ verPc' = [verPc EXCEPT ![c] = "compare"]
  /\ verSeen' = [verSeen EXCEPT ![c] = VerAttempts]
  /\ verFresh' = verFresh \cup {c}
  /\ UNCHANGED <<verSaved, verVerified, verLocked, verStale>>

\* The outcome of a comparison that came after `prior' attempts.
VerOutcomes(prior) ==
  {"no_record", "verified"} \cup {IF prior + 1 >= VerMax THEN "locked" ELSE "failed"}

VerCompare(c) ==
  /\ verPc[c] = "compare"
  /\ \E o \in VerOutcomes(verSeen[c]) :
       /\ verSaved' = [verSaved EXCEPT ![o] = @ + 1]
       /\ VerAnswer(o)
  /\ verPc' = [verPc EXCEPT ![c] = "idle"]
  /\ verSeen' = [verSeen EXCEPT ![c] = 0]
  /\ verFresh' = {}
  /\ verStale' = IF c \in verFresh THEN verStale ELSE verStale + 1

\* The API process stops, or the request is lost: the tool says "unavailable".
VerLost(c) ==
  /\ verPc[c] = "compare"
  /\ verPc' = [verPc EXCEPT ![c] = "idle"]
  /\ verSeen' = [verSeen EXCEPT ![c] = 0]
  /\ verFresh' = verFresh \ {c}
  /\ UNCHANGED <<verSaved, verVerified, verLocked, verStale>>

VerificationNext ==
  \E c \in VerCalls : VerTurnedAway(c) \/ VerList(c) \/ VerCompare(c) \/ VerLost(c)

VerificationSpec == VerificationInit /\ [][VerificationNext]_verificationVars

VerificationTypeOK ==
  /\ verSaved \in [VerificationOutcome -> Nat]
  /\ verPc \in [VerCalls -> {"idle", "compare"}]
  /\ verSeen \in [VerCalls -> Nat]
  /\ verVerified \in BOOLEAN
  /\ verLocked \in BOOLEAN
  /\ verFresh \subseteq VerCalls
  /\ verStale \in Nat

\* A call has VerMax comparisons, and one more for each answer that was checked
\* on a list another answer had already lengthened; and a caller the worker was
\* told is locked is verified, by whatever order the answers came in, only
\* through such an overlap (verify counts the earlier attempts before it saves).
AnswersBounded ==
  /\ VerAttempts <= VerMax + verStale
  /\ verVerified /\ verLocked => verStale > 0
===============================================================================
