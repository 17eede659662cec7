------------------------------- MODULE Reminders -------------------------------
(* The reminders of one booking and the customer's answers to them               *)
(* (apps/api/parlio_api/reminders.py, ReminderService and ReminderLoop; what      *)
(* calendar.py does to the booking's status).                                     *)
(*                                                                                *)
(* The loop lists what is due and then goes through its list: it looks at the     *)
(* booking of each, sends a text, and writes down that it did.  Meanwhile the     *)
(* customer answers an earlier one, and the office moves or cancels the booking.  *)
(* Reminder n is due at time n and the appointment is after the last.  Wording,   *)
(* the confirmation text and other bookings of the same customer are left out.    *)
EXTENDS Integers, FiniteSets

CONSTANTS
  RmOffsets,  \* reminders of a booking (hours_before)
  RmReqs,     \* texts and requests under way together
  RmMoves     \* bound: operations begun, failed sweeps and restarts

ASSUME RemindersAssumption == RmOffsets \in Nat \ {0} /\ RmMoves \in Nat

RmReminders == 1 .. RmOffsets

VARIABLES
  rmBooking,  \* the booking's status
  rmStatus,   \* of each reminder
  rmNow,
  rmQueue,    \* what the loop has listed and not reached
  rmAt,       \* the reminder it is sending, 0 for none
  rmSaid,     \* what became of its text, once that is known
  rmPc,
  rmCopy,     \* the status of the booking, as an operation is going to write it
  rmAnswers,  \* the reminder that an answer is about
  rmMoves

\* History, for the properties only.
VARIABLES
  rmFresh,    \* operations since whose read the booking was not written
  rmStale,    \* one wrote the booking that another had written since its read
  rmLost,     \* a restart cut an answer short
  rmOff,      \* the office has cancelled the booking
  rmRevived,  \* the customer's answer was written after that
  rmEnds,     \* times the booking that stood was cancelled or asked to be moved
  rmLate      \* texts that left while it did not stand

rmLocal == <<rmQueue, rmAt, rmSaid, rmPc, rmCopy, rmAnswers>>
rmGhost == <<rmFresh, rmStale, rmLost, rmOff, rmRevived, rmEnds, rmLate>>
remindersVars == <<rmBooking, rmStatus, rmNow, rmLocal, rmMoves, rmGhost>>

RmBookingStatus == {"none", "confirmed", "reschedule_requested", "cancelled"}
RmStatus == {"none", "scheduled", "sent", "confirmed", "reschedule_requested", "cancelled", "failed"}
RmPC == {"idle", "change", "answer", "others", "mark"}

RemindersInit ==
  /\ rmBooking = "none"
  /\ rmStatus = [n \in RmReminders |-> "none"]
  /\ rmNow = 0
  /\ rmQueue = {}
  /\ rmAt = 0
  /\ rmSaid = "none"
  /\ rmPc = [p \in RmReqs |-> "idle"]
  /\ rmCopy = [p \in RmReqs |-> "none"]
  /\ rmAnswers = [p \in RmReqs |-> 0]
  /\ rmMoves = 0
  /\ rmFresh = {}
  /\ rmStale = FALSE
  /\ rmLost = FALSE
  /\ rmOff = FALSE
  /\ rmRevived = FALSE
  /\ rmEnds = 0
  /\ rmLate = 0

-------------------------------------------------------------------------------
(* Helpers.                                                                     *)

RmGoto(p, next) == rmPc' = [rmPc EXCEPT ![p] = next]

RmDone(p) ==
  /\ RmGoto(p, "idle")
  /\ rmCopy' = [rmCopy EXCEPT ![p] = "none"]
  /\ rmAnswers' = [rmAnswers EXCEPT ![p] = 0]

\* p reads the booking, and is going to write `status' on it.
RmStart(p, next, status, n) ==
  /\ rmBooking # "none"
  /\ rmPc[p] = "idle"
  /\ rmMoves < RmMoves
  /\ rmMoves' = rmMoves + 1
  /\ RmGoto(p, next)
  /\ rmCopy' = [rmCopy EXCEPT ![p] = status]
  /\ rmAnswers' = [rmAnswers EXCEPT ![p] = n]
  /\ rmFresh' = rmFresh \cup {p}
  /\ UNCHANGED <<rmBooking, rmStatus, rmNow, rmQueue, rmAt, rmSaid, rmStale, rmLost, rmOff,
                 rmRevived, rmEnds, rmLate>>

RmDeadStatus == {"cancelled", "reschedule_requested"}

RmWrite(p) ==
  /\ rmBooking' = rmCopy[p]
  /\ rmEnds' = IF rmBooking \notin RmDeadStatus /\ rmCopy[p] \in RmDeadStatus
               THEN rmEnds + 1 ELSE rmEnds
  /\ rmFresh' = rmFresh \cap {p}
  /\ rmStale' = (rmStale \/ p \notin rmFresh)

-------------------------------------------------------------------------------
(* on_booking: a reminder for each time that is still to come.                  *)

RmBook ==
  /\ rmBooking = "none"
  /\ rmNow <= RmOffsets
  /\ rmBooking' = "confirmed"
  /\ rmStatus' = [n \in RmReminders |-> IF n > rmNow THEN "scheduled" ELSE "none"]
  /\ UNCHANGED <<rmNow, rmLocal, rmMoves, rmGhost>>

RmTick ==
  /\ rmNow <= RmOffsets
  /\ rmNow' = rmNow + 1
  /\ UNCHANGED <<rmBooking, rmStatus, rmLocal, rmMoves, rmGhost>>

-------------------------------------------------------------------------------
(* sweep and send.                                                              *)

\* due: the copies listed here all say "scheduled".
RmList ==
  /\ rmQueue = {} /\ rmAt = 0
  /\ rmQueue' = {n \in RmReminders : rmStatus[n] = "scheduled" /\ n <= rmNow}
  /\ rmQueue' # {}
  /\ UNCHANGED <<rmBooking, rmStatus, rmNow, rmAt, rmSaid, rmPc, rmCopy, rmAnswers, rmMoves,
                 rmGhost>>

\* Mutant: a cancelled booking is not looked for.
RmDeadUncancelled == rmBooking = "reschedule_requested" \/ rmNow > RmOffsets

\* What the booking says decides; the reminder's own document is not read again.
RmDead == rmBooking \in RmDeadStatus \/ rmNow > RmOffsets

RmDrop(n) ==
  /\ n \in rmQueue /\ rmAt = 0
  /\ RmDead
  /\ rmQueue' = rmQueue \ {n}
  /\ rmStatus' = [rmStatus EXCEPT ![n] = "cancelled"]
  /\ UNCHANGED <<rmBooking, rmNow, rmAt, rmSaid, rmPc, rmCopy, rmAnswers, rmMoves, rmGhost>>

\* The booking stands: its reminder is going to be sent.
RmLook(n) ==
  /\ n \in rmQueue /\ rmAt = 0
  /\ ~RmDead
  /\ rmQueue' = rmQueue \ {n}
  /\ rmAt' = n
  /\ UNCHANGED <<rmBooking, rmStatus, rmNow, rmSaid, rmPc, rmCopy, rmAnswers, rmMoves, rmGhost>>

\* The text leaves, or is refused; the booking is not looked at again.
RmSend ==
  /\ rmAt # 0 /\ rmSaid = "none"
  /\ rmSaid' \in {"sent", "failed"}
  /\ rmLate' = IF rmSaid' = "sent" /\ rmBooking \in RmDeadStatus THEN rmLate + 1 ELSE rmLate
  /\ UNCHANGED <<rmBooking, rmStatus, rmNow, rmQueue, rmAt, rmPc, rmCopy, rmAnswers, rmMoves,
                 rmFresh, rmStale, rmLost, rmOff, rmRevived, rmEnds>>

\* The loop's copy is written, whatever the reminder says by now.
RmSent ==
  /\ rmSaid # "none"
  /\ rmStatus' = [rmStatus EXCEPT ![rmAt] = rmSaid]
  /\ rmAt' = 0
  /\ rmSaid' = "none"
  /\ UNCHANGED <<rmBooking, rmNow, rmQueue, rmPc, rmCopy, rmAnswers, rmMoves, rmGhost>>

\* Something raises: the rest of the sweep is left to the next one.
RmSweepFails ==
  /\ rmQueue # {} \/ rmAt # 0
  /\ rmMoves < RmMoves
  /\ rmMoves' = rmMoves + 1
  /\ rmQueue' = {}
  /\ rmAt' = 0
  /\ rmSaid' = "none"
  /\ UNCHANGED <<rmBooking, rmStatus, rmNow, rmPc, rmCopy, rmAnswers, rmGhost>>

-------------------------------------------------------------------------------
(* handle_reply.                                                                *)

\* match: the latest reminder that was sent and can be answered.
RmOpen == {n \in RmReminders : rmStatus[n] \in {"sent", "confirmed"}}

RmReply(p, action) ==
  \E n \in RmOpen :
    /\ \A m \in RmOpen : n >= m
    /\ RmStart(p, "answer", action, n)

\* The booking says what the customer said, whatever it said before.
RmAnswer(p) ==
  /\ rmPc[p] = "answer"
  /\ RmWrite(p)
  /\ rmRevived' = (rmRevived \/ rmOff)
  /\ RmGoto(p, IF rmCopy[p] = "confirmed" THEN "mark" ELSE "others")
  /\ UNCHANGED <<rmStatus, rmNow, rmQueue, rmAt, rmSaid, rmCopy, rmAnswers, rmMoves, rmLost, rmOff,
                 rmLate>>

\* Asked for another time: the reminders to come are cancelled.
RmOthers(p) ==
  /\ rmPc[p] = "others"
  /\ rmStatus' = [n \in RmReminders |-> IF rmStatus[n] = "scheduled" THEN "cancelled" ELSE rmStatus[n]]
  /\ RmGoto(p, "mark")
  /\ UNCHANGED <<rmBooking, rmNow, rmQueue, rmAt, rmSaid, rmCopy, rmAnswers, rmMoves, rmGhost>>

RmMark(p) ==
  /\ rmPc[p] = "mark"
  /\ rmStatus' = [rmStatus EXCEPT ![rmAnswers[p]] = rmCopy[p]]
  /\ RmDone(p)
  /\ UNCHANGED <<rmBooking, rmNow, rmQueue, rmAt, rmSaid, rmMoves, rmGhost>>

-------------------------------------------------------------------------------
(* The office: reschedule, reassign and cancel, which leave the reminders alone. *)

RmOffice(p) ==
  /\ rmBooking # "cancelled"
  /\ \E status \in {rmBooking, "confirmed", "cancelled"} : RmStart(p, "change", status, 0)

RmChange(p) ==
  /\ rmPc[p] = "change"
  /\ RmWrite(p)
  /\ rmOff' = (rmOff \/ rmCopy[p] = "cancelled")
  /\ RmDone(p)
  /\ UNCHANGED <<rmStatus, rmNow, rmQueue, rmAt, rmSaid, rmMoves, rmLost, rmRevived, rmLate>>

\* The API process stops; a text that was being sent may have been.
RmRestart ==
  /\ rmMoves < RmMoves
  /\ rmQueue # {} \/ rmAt # 0 \/ \E p \in RmReqs : rmPc[p] # "idle"
  /\ rmMoves' = rmMoves + 1
  /\ rmLost' = (rmLost \/ \E p \in RmReqs : rmPc[p] \in {"others", "mark"})
  /\ rmQueue' = {}
  /\ rmAt' = 0
  /\ rmSaid' = "none"
  /\ rmPc' = [p \in RmReqs |-> "idle"]
  /\ rmCopy' = [p \in RmReqs |-> "none"]
  /\ rmAnswers' = [p \in RmReqs |-> 0]
  /\ rmFresh' = {}
  /\ UNCHANGED <<rmBooking, rmStatus, rmNow, rmStale, rmOff, rmRevived, rmEnds, rmLate>>

RemindersNext ==
  \/ RmBook \/ RmTick \/ RmList \/ RmSend \/ RmSent \/ RmSweepFails \/ RmRestart
  \/ \E n \in RmReminders : RmDrop(n) \/ RmLook(n)
  \/ \E p \in RmReqs, action \in {"confirmed", "reschedule_requested"} : RmReply(p, action)
  \/ \E p \in RmReqs : RmAnswer(p) \/ RmOthers(p) \/ RmMark(p) \/ RmOffice(p) \/ RmChange(p)

RemindersSpec == RemindersInit /\ [][RemindersNext]_remindersVars

-------------------------------------------------------------------------------
(* Properties.                                                                  *)

RemindersTypeOK ==
  /\ rmBooking \in RmBookingStatus
  /\ rmStatus \in [RmReminders -> RmStatus]
  /\ rmNow \in Nat
  /\ rmQueue \subseteq RmReminders
  /\ rmAt \in 0 .. RmOffsets
  /\ rmSaid \in {"none", "sent", "failed"}
  /\ rmPc \in [RmReqs -> RmPC]
  /\ rmCopy \in [RmReqs -> RmBookingStatus]
  /\ rmAnswers \in [RmReqs -> 0 .. RmOffsets]
  /\ rmMoves \in Nat
  /\ rmFresh \subseteq RmReqs
  /\ rmStale \in BOOLEAN /\ rmLost \in BOOLEAN /\ rmOff \in BOOLEAN
  /\ rmRevived \in BOOLEAN /\ rmEnds \in Nat /\ rmLate \in Nat

\* A customer who asked for another time hears no more of the old one: no reminder
\* waits to be sent, unless a restart cut the answer short.  Whenever a booking is
\* cancelled or asked to be moved, no more than one text still leaves, one whose
\* booking had been looked at before.  And what the office has cancelled stays
\* cancelled, unless the customer answered after that, or it was overwritten by an
\* older copy (handle_reply, send).
RemindersHeed ==
  /\ rmBooking = "reschedule_requested" /\ ~rmLost /\ (\A p \in RmReqs : rmPc[p] # "others") =>
       \A n \in RmReminders : rmStatus[n] # "scheduled"
  /\ rmLate <= rmEnds
  /\ rmOff => rmBooking = "cancelled" \/ rmRevived \/ rmStale
===============================================================================
