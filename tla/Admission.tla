------------------------------- MODULE Admission -------------------------------
(* Admission of calls to a trunk (apps/api/parlio_api/sip.py, ConcurrencyGuard     *)
(* and SipService.admit; the worker's entrypoint in                                *)
(* apps/voice-worker/parlio_voice/agent.py; the integration hub's release).         *)
(*                                                                                  *)
(* The guard lives in the API process: who holds a place of the trunk, and how many *)
(* do.  A worker asks before it answers, and answers anyway when no answer comes;   *)
(* the API may go on with the question all the same, and take a place for the call. *)
(* The place is given back by the call's last event and again by the worker, or by  *)
(* a supervisor's hang-up that did not reach the call (close_ghost_call).           *)
EXTENDS Integers, FiniteSets

CONSTANTS
  AdCalls,
  AdLimit,    \* max_concurrent_calls
  AdRestarts  \* bound: restarts of the API process

ASSUME AdmissionAssumption ==
  IsFiniteSet(AdCalls) /\ AdLimit \in Nat /\ AdRestarts \in Nat

VARIABLES
  adPc,       \* the worker of each call
  adHeld,     \* _by_call
  adCount,    \* _counts
  adEvents,   \* last events that the hub has not handled
  adAsked,    \* calls whose worker gave up asking: the API may still be at it
  adRestarts

\* History, for the properties only.
VARIABLES
  adAdmitted,  \* calls that the API admitted, in an answer that arrived
  adForgot,    \* calls whose place a restart of the API has forgotten, or a
               \* supervisor's hang-up gave back
  adLoose      \* calls whose place nobody will give back: the worker died, the last
               \* event was lost, or the place was taken when the call was over

adGhost == <<adAdmitted, adForgot, adLoose>>
admissionVars == <<adPc, adHeld, adCount, adEvents, adAsked, adRestarts, adGhost>>

AdPC == {"ringing", "admitted", "talking", "ended", "done", "dead"}

AdmissionInit ==
  /\ adPc = [c \in AdCalls |-> "ringing"]
  /\ adHeld = {}
  /\ adCount = 0
  /\ adEvents = {}
  /\ adAsked = {}
  /\ adRestarts = 0
  /\ adAdmitted = {}
  /\ adForgot = {}
  /\ adLoose = {}

-------------------------------------------------------------------------------
(* ConcurrencyGuard.                                                            *)

AdGoto(c, next) == adPc' = [adPc EXCEPT ![c] = next]

\* Mutant: one call too many.
AdRoomForOneMore(c) == c \in adHeld \/ adCount <= AdLimit

AdRoom(c) == c \in adHeld \/ adCount < AdLimit

AdAcquire(c) ==
  /\ adHeld' = adHeld \cup {c}
  /\ adCount' = IF c \in adHeld THEN adCount ELSE adCount + 1

\* Mutant: every release counts.
AdReleaseAgain(c) ==
  /\ adHeld' = adHeld \ {c}
  /\ adCount' = adCount - 1

AdRelease(c) ==
  /\ adHeld' = adHeld \ {c}
  /\ adCount' = IF c \notin adHeld THEN adCount ELSE IF adCount > 0 THEN adCount - 1 ELSE 0

-------------------------------------------------------------------------------
(* The worker and the API.                                                      *)

AdBusy(c) == adPc[c] \in {"admitted", "talking"}

\* admit: the API answers yes.
AdAdmit(c) ==
  /\ adPc[c] = "ringing"
  /\ AdRoom(c)
  /\ AdAcquire(c)
  /\ AdGoto(c, "admitted")
  /\ adAdmitted' = adAdmitted \cup {c}
  /\ UNCHANGED <<adEvents, adAsked, adRestarts, adForgot, adLoose>>

\* No: the trunk or its hours say so, or its places are taken.  The last event is sent.
AdDecline(c) ==
  /\ adPc[c] = "ringing"
  /\ AdGoto(c, "done")
  /\ adEvents' = adEvents \cup {c}
  /\ UNCHANGED <<adHeld, adCount, adAsked, adRestarts, adGhost>>

\* No answer arrives: the call is answered all the same.
AdFailOpen(c) ==
  /\ adPc[c] = "ringing"
  /\ AdGoto(c, "admitted")
  /\ adAsked' = adAsked \cup {c}
  /\ UNCHANGED <<adHeld, adCount, adEvents, adRestarts, adGhost>>

\* The API got the question and says yes, then or later, to nobody.
AdAdmitUnheard(c) ==
  /\ c \in adAsked
  /\ AdRoom(c)
  /\ AdAcquire(c)
  /\ adAsked' = adAsked \ {c}
  /\ adLoose' = IF AdBusy(c) THEN adLoose ELSE adLoose \cup {c}
  /\ UNCHANGED <<adPc, adEvents, adRestarts, adAdmitted, adForgot>>

\* The last event is sent; it may be lost.
AdLastEvent(c) ==
  \/ adEvents' = adEvents \cup {c} /\ adLoose' = adLoose
  \/ adEvents' = adEvents /\ adLoose' = adLoose \cup {c}

\* A caller who is blocked is hung up on; only the last event gives the place back.
AdReject(c) ==
  /\ adPc[c] = "admitted"
  /\ AdGoto(c, "done")
  /\ AdLastEvent(c)
  /\ UNCHANGED <<adHeld, adCount, adAsked, adRestarts, adAdmitted, adForgot>>

AdAnswer(c) ==
  /\ adPc[c] = "admitted"
  /\ AdGoto(c, "talking")
  /\ UNCHANGED <<adHeld, adCount, adEvents, adAsked, adRestarts, adGhost>>

\* _on_shutdown: the last event first.
AdEnd(c) ==
  /\ adPc[c] = "talking"
  /\ AdGoto(c, "ended")
  /\ AdLastEvent(c)
  /\ UNCHANGED <<adHeld, adCount, adAsked, adRestarts, adAdmitted, adForgot>>

\* Then release, which may fail.
AdWorkerReleases(c) ==
  /\ adPc[c] = "ended"
  /\ AdGoto(c, "done")
  /\ AdRelease(c) \/ UNCHANGED <<adHeld, adCount>>
  /\ UNCHANGED <<adEvents, adAsked, adRestarts, adGhost>>

\* IntegrationHub: call.ended or call.failed.
AdHubReleases(c) ==
  /\ c \in adEvents
  /\ adEvents' = adEvents \ {c}
  /\ AdRelease(c)
  /\ UNCHANGED <<adPc, adAsked, adRestarts, adGhost>>

\* A worker process dies: the call is cut, and nothing is released.
AdWorkerDies(c) ==
  /\ adPc[c] \in {"admitted", "talking", "ended"}
  /\ AdGoto(c, "dead")
  /\ adLoose' = adLoose \cup {c}
  /\ UNCHANGED <<adHeld, adCount, adEvents, adAsked, adRestarts, adAdmitted, adForgot>>

\* close_ghost_call: a supervisor hangs up, the room cannot be reached, and the call is
\* closed on the API's side, by an event of its own that the hub handles at once.  The
\* worker may be on the call still.
AdGhostHangup(c) ==
  /\ adPc[c] # "ringing"
  /\ AdRelease(c)
  /\ adForgot' = adForgot \cup {c}
  /\ UNCHANGED <<adPc, adEvents, adAsked, adRestarts, adAdmitted, adLoose>>

\* The API process stops: the guard is empty again.
AdRestart ==
  /\ adRestarts < AdRestarts
  /\ adRestarts' = adRestarts + 1
  /\ adHeld' = {} /\ adCount' = 0
  /\ adAsked' = {}
  /\ adForgot' = adForgot \cup adHeld
  /\ UNCHANGED <<adPc, adEvents, adAdmitted, adLoose>>

AdmissionNext ==
  \/ \E c \in AdCalls :
       \/ AdAdmit(c) \/ AdDecline(c) \/ AdFailOpen(c) \/ AdAdmitUnheard(c)
       \/ AdReject(c) \/ AdAnswer(c) \/ AdEnd(c)
       \/ AdWorkerReleases(c) \/ AdHubReleases(c) \/ AdWorkerDies(c) \/ AdGhostHangup(c)
  \/ AdRestart

AdmissionSpec == AdmissionInit /\ [][AdmissionNext]_admissionVars

-------------------------------------------------------------------------------
(* Properties.                                                                  *)

AdmissionTypeOK ==
  /\ adPc \in [AdCalls -> AdPC]
  /\ adHeld \subseteq AdCalls
  /\ adCount \in Nat
  /\ adEvents \subseteq AdCalls
  /\ adAsked \subseteq AdCalls
  /\ adRestarts \in Nat
  /\ adAdmitted \subseteq AdCalls /\ adForgot \subseteq AdCalls /\ adLoose \subseteq AdCalls

\* The assistant is never on more calls of a trunk than it may take, of those the
\* API admitted and has not forgotten in a restart or closed for a supervisor whose
\* hang-up did not reach them, however the two releases of a call cross the next
\* admission.  The count is that of the calls that hold a place, so that no release
\* frees a place twice.  And a place is not held for ever: whoever holds one is on
\* the phone, or has a release still to come, unless the worker died, the last event
\* was lost, or an answer nobody waited for took the place of a call that was over
\* (admit, release, close_ghost_call).
TrunkWithinLimit ==
  /\ adCount = Cardinality(adHeld)
  /\ Cardinality({c \in adAdmitted \ adForgot : AdBusy(c)}) <= AdLimit
  /\ \A c \in adHeld \ adLoose : AdBusy(c) \/ c \in adEvents
===============================================================================
