--------------------------------- MODULE Slots ---------------------------------
(* The times a calendar offers and the times it takes (apps/api/parlio_api/        *)
(* calendar.py): free_slots, which walks over a day, slot_allowed and _free, which *)
(* look at one start, and the operations that use them - availability, book and   *)
(* reschedule - with other people's events and the clock in between.              *)
(*                                                                                *)
(* One day of one calendar, in steps shorter than any length, of which no more      *)
(* than a limit of starts is offered.  Time zones, several days and the choice of a *)
(* person are left out; how a booking is filed is in Bookings.                      *)
EXTENDS Integers, FiniteSets

CONSTANTS
  SlDay,     \* length of a day
  SlOpen,    \* booking hours
  SlClose,
  SlLimit,   \* starts that are offered at most: 20 in the code
  SlClock    \* bound on the clock

\* Hours that are empty are none (_day_window).
ASSUME SlotsAssumption ==
  /\ SlDay \in Nat /\ SlClock \in Nat /\ SlLimit \in Nat
  /\ SlOpen \in 0 .. SlDay - 1 /\ SlClose \in SlOpen + 1 .. SlDay

SlTimes == 0 .. SlDay
SlNone == -1

VARIABLES
  slRules,    \* the rules of the connection, and the length asked for
  slAsk,      \* availability is asked from .. to
  slBusy,     \* events in the calendar, of others
  slNow,
  slOffered,  \* starts offered
  slAt,       \* and when
  slBooking,  \* the customer's own booking: its start, and whether it was moved
  slSeen      \* history: the events when the starts were offered

slotsVars == <<slRules, slAsk, slBusy, slNow, slOffered, slAt, slBooking, slSeen>>

\* any: an emergency service that is taken at any time; service: the length is a
\* service's own, and not asked for with the booking; align 0: back to back.
SlRules == [length: 1 .. 2, slot: 1 .. 2, align: {0, 2}, pad: 0 .. 1, notice: 0 .. 1,
            ahead: {4, SlDay}, service: BOOLEAN, any: BOOLEAN]

SlEvents == {<<b, b + 1>> : b \in 0 .. SlDay - 1}

SlotsInit ==
  /\ slRules \in {r \in SlRules : r.any => r.service}
  /\ slAsk \in {0, SlOpen + 1} \X {SlClose - 1, SlDay}
  /\ slBusy = {}
  /\ slNow = 0
  /\ slOffered = {}
  /\ slAt = SlNone
  /\ slBooking = [start |-> SlNone, moved |-> FALSE]
  /\ slSeen = {}

-------------------------------------------------------------------------------
(* Helpers.                                                                     *)

SlLater(a, b) == IF a > b THEN a ELSE b
SlSooner(a, b) == IF a < b THEN a ELSE b

SlOverlaps(a, b) == a[1] < b[2] /\ b[1] < a[2]

\* busy: what the provider says of a period.
SlBusyIn(events, from, to) == {b \in events : SlOverlaps(b, <<from, to>>)}

\* _align: the next point of the grid.
SlAlign(t, grid) == IF grid = 0 THEN t ELSE ((t + grid - 1) \div grid) * grid

SlPadded(s, length) == <<s - slRules.pad, s + length + slRules.pad>>

\* _day_window of the day; a day that is always open ends a minute before midnight.
SlWindow == IF slRules.any THEN <<0, SlDay - 1>> ELSE <<SlOpen, SlClose>>

-------------------------------------------------------------------------------
(* free_slots.                                                                  *)

SlGrid == IF slRules.any THEN 0 ELSE slRules.align
SlStep == IF SlGrid # 0 THEN SlGrid ELSE IF slRules.any THEN 1 ELSE slRules.slot
SlEarliest(now) == SlLater(slAsk[1], IF slRules.any THEN now ELSE now + slRules.notice)
SlEnd(now) == SlSooner(slAsk[2], now + slRules.ahead)

\* Where the walk over the day comes by.
SlWalk(now) ==
  LET first == SlAlign(SlLater(SlWindow[1], SlEarliest(now)), SlGrid) IN
  {s \in SlTimes : s >= first /\ (s - first) % SlStep = 0}

\* Mutant: the gap is kept only after the appointment.
SlFittingGapAfter(events, now) ==
  {s \in SlWalk(now) :
     /\ s + slRules.length <= SlSooner(SlWindow[2], SlEnd(now))
     /\ \A b \in SlBusyIn(events, slAsk[1], slAsk[2]) :
          ~SlOverlaps(<<s, s + slRules.length + slRules.pad>>, b)}

SlFitting(events, now) ==
  {s \in SlWalk(now) :
     /\ s + slRules.length <= SlSooner(SlWindow[2], SlEnd(now))
     /\ \A b \in SlBusyIn(events, slAsk[1], slAsk[2]) :
          ~SlOverlaps(SlPadded(s, slRules.length), b)}

\* The walk ends when it has the limit: `slots' are the first starts that fit.
SlFreeSlots(events, now, slots) ==
  LET fitting == SlFitting(events, now) IN
  /\ slots \subseteq fitting
  /\ \A s \in slots, t \in fitting \ slots : s < t
  /\ Cardinality(slots) <= SlLimit
  /\ slots # fitting => Cardinality(slots) = SlLimit

-------------------------------------------------------------------------------
(* slot_allowed and _free.  Five minutes are less than a step.                   *)

SlAllowed(s, length, now) ==
  IF slRules.any THEN s >= now
  ELSE /\ s >= now + slRules.notice
       /\ s <= now + slRules.ahead
       /\ s >= SlOpen /\ s + length <= SlClose
       /\ SlAlign(s, slRules.align) = s

SlFree(events, s, length) ==
  LET p == SlPadded(s, length) IN
  \A b \in SlBusyIn(events, p[1], p[2]) : ~SlOverlaps(p, b)

-------------------------------------------------------------------------------
(* availability, book and reschedule, one after the other or not.                *)

SlUnbooked == slBooking.start = SlNone

SlAvailability ==
  /\ slAt = SlNone
  /\ \E slots \in SUBSET SlFitting(slBusy, slNow) :
       SlFreeSlots(slBusy, slNow, slots) /\ slOffered' = slots
  /\ slAt' = slNow
  /\ slSeen' = slBusy
  /\ UNCHANGED <<slRules, slAsk, slBusy, slNow, slBooking>>

SlBook(s) ==
  /\ SlUnbooked
  /\ SlAllowed(s, slRules.length, slNow) /\ SlFree(slBusy, s, slRules.length)
  /\ slBooking' = [start |-> s, moved |-> FALSE]
  /\ UNCHANGED <<slRules, slAsk, slBusy, slNow, slOffered, slAt, slSeen>>

\* reschedule asks the rules about the length of a service, or else the usual one;
\* its own event does not stand in its way.
SlReschedule(s) ==
  /\ ~SlUnbooked /\ ~slBooking.moved
  /\ SlAllowed(s, IF slRules.service THEN slRules.length ELSE slRules.slot, slNow)
  /\ SlFree(slBusy, s, slRules.length)
  /\ slBooking' = [start |-> s, moved |-> TRUE]
  /\ UNCHANGED <<slRules, slAsk, slBusy, slNow, slOffered, slAt, slSeen>>

\* Somebody puts an event into the calendar: one at most (a bound).
SlEvent(b) ==
  /\ slBusy = {} /\ SlUnbooked
  /\ slBusy' = {b}
  /\ UNCHANGED <<slRules, slAsk, slNow, slOffered, slAt, slBooking, slSeen>>

SlTick ==
  /\ slNow < SlClock
  /\ slNow' = slNow + 1
  /\ UNCHANGED <<slRules, slAsk, slBusy, slOffered, slAt, slBooking, slSeen>>

SlotsNext ==
  \/ SlAvailability
  \/ \E s \in SlTimes : SlBook(s) \/ SlReschedule(s)
  \/ \E b \in SlEvents : SlEvent(b)
  \/ SlTick

SlotsSpec == SlotsInit /\ [][SlotsNext]_slotsVars

-------------------------------------------------------------------------------
(* Properties.                                                                  *)

SlotsTypeOK ==
  /\ slRules \in SlRules
  /\ slAsk \in SlTimes \X SlTimes
  /\ slBusy \subseteq SlEvents
  /\ slNow \in Nat
  /\ slOffered \subseteq SlTimes
  /\ slAt \in Nat \cup {SlNone}
  /\ slSeen \subseteq SlEvents
  /\ slBooking \in [start: SlTimes \cup {SlNone}, moved: BOOLEAN]

\* book would take the start, now.
SlTaken(s) == SlAllowed(s, slRules.length, slNow) /\ SlFree(slBusy, s, slRules.length)

\* A start that availability has to consider: on the grid, or where its walk comes by,
\* with an end in the period asked for, in the rules' reach and before midnight.
SlConsidered(s) ==
  /\ s >= slAsk[1]
  /\ SlGrid # 0 \/ s \in SlWalk(slNow)
  /\ s + slRules.length <= SlSooner(SlDay - 1, SlEnd(slNow))

\* What is offered can be had, and what can be had is offered.  A start that was
\* offered is refused only because its notice has run out, or for an event that came
\* later or lies beyond the period asked for, within the gap of a start at its edge
\* (availability asks for busy times without the gap, _free with it).  Conversely, as
\* long as nothing changes, a start that would be taken is among the offers, or the
\* limit of them is offered and all are sooner.  And an appointment is within the
\* booking hours, moved or not, but for one of a length of its own, which reschedule
\* does not ask about (free_slots, slot_allowed, _free).
SlotsAgree ==
  /\ \A s \in slOffered :
       \/ SlTaken(s)
       \/ s < slNow + (IF slRules.any THEN 0 ELSE slRules.notice)
       \/ slBusy # slSeen \/ \E b \in slBusy : ~SlOverlaps(b, slAsk)
  /\ slAt = slNow /\ slBusy = slSeen =>
       \A s \in SlTimes :
         SlTaken(s) /\ SlConsidered(s) =>
           \/ s \in slOffered
           \/ Cardinality(slOffered) = SlLimit /\ \A t \in slOffered : t < s
  /\ ~SlUnbooked /\ ~slRules.any =>
       \/ slBooking.start >= SlOpen /\ slBooking.start + slRules.length <= SlClose
       \/ slBooking.moved /\ ~slRules.service
===============================================================================
