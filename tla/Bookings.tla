------------------------------- MODULE Bookings -------------------------------
(* Bookings and the calendars they are in (apps/api/parlio_api/calendar.py,      *)
(* CalendarService.book, reassign, reschedule, cancel; reminders.py, a           *)
(* customer's answer).                                                           *)
(*                                                                               *)
(* A booking is a document and an event in the calendar of whoever does the job. *)
(* The calendar is asked whether the place is free, then the event is made, then *)
(* the document is written; a change deletes the old event, makes a new one and  *)
(* writes the copy it began with.  A place is a calendar and a slot: lengths,    *)
(* buffers, hours and notice are left out (slot_allowed), and so are bookings    *)
(* that a scheduling tool owns.                                                  *)
EXTENDS Integers, FiniteSets

CONSTANTS
  BkBookings,
  BkCalendars,
  BkSlots,
  BkReqs,     \* requests, calls and texts under way together
  BkNone,
  BkMoves     \* bound: operations begun, and restarts

ASSUME BookingsAssumption ==
  BkMoves \in Nat /\ BkNone \notin BkBookings \cup BkCalendars

BkPlaces == BkCalendars \X BkSlots

VARIABLES
  bkDoc,      \* the booking documents
  bkEvents,   \* the events in the calendars: whose, and where
  bkPc,
  bkFor,      \* the booking an operation works on
  bkCopy,     \* the copy it holds, as it is going to write it
  bkOld,      \* and the event to delete
  bkMoves

\* History, for the properties only.
VARIABLES
  bkFresh,    \* operations whose checks nobody has overtaken
  bkRaced,    \* an operation went on after it was overtaken
  bkFailed,   \* a change was cut half way, or an answer of a calendar was lost
  bkRevived   \* a customer confirmed a booking that was cancelled

bkLocal == <<bkPc, bkFor, bkCopy, bkOld>>
bkGhost == <<bkFresh, bkRaced, bkFailed, bkRevived>>
bookingsVars == <<bkDoc, bkEvents, bkLocal, bkMoves, bkGhost>>

BkStatus == {"confirmed", "reschedule_requested", "cancelled"}
BkNowhere == <<BkNone, BkNone>>
BkNoDoc == [status |-> "cancelled", place |-> BkNowhere, ref |-> BkNowhere]
BkDoc == [status: BkStatus, place: BkPlaces \cup {BkNowhere}, ref: BkPlaces \cup {BkNowhere}]
BkPC == {"idle", "create", "file", "delete", "recreate", "save", "answer"}

BookingsInit ==
  /\ bkDoc = [b \in BkBookings |-> BkNoDoc]
  /\ bkEvents = {}
  /\ bkPc = [p \in BkReqs |-> "idle"]
  /\ bkFor = [p \in BkReqs |-> BkNone]
  /\ bkCopy = [p \in BkReqs |-> BkNoDoc]
  /\ bkOld = [p \in BkReqs |-> BkNowhere]
  /\ bkMoves = 0
  /\ bkFresh = {}
  /\ bkRaced = FALSE
  /\ bkFailed = FALSE
  /\ bkRevived = FALSE

-------------------------------------------------------------------------------
(* Helpers.                                                                     *)

BkFiled(b) == bkDoc[b] # BkNoDoc

\* busy: the calendars are asked, and whose events they hold does not matter.
BkFree(place) == \A event \in bkEvents : event[2] # place

BkGoto(p, next) == bkPc' = [bkPc EXCEPT ![p] = next]

BkDone(p) ==
  /\ BkGoto(p, "idle")
  /\ bkFor' = [bkFor EXCEPT ![p] = BkNone]
  /\ bkCopy' = [bkCopy EXCEPT ![p] = BkNoDoc]
  /\ bkOld' = [bkOld EXCEPT ![p] = BkNowhere]

\* p changes b or takes `place': others that work on b, or want it, are overtaken.
BkTouch(p, b, place) ==
  /\ bkFresh' = {q \in bkFresh : q = p \/ (bkFor[q] # b /\ bkCopy[q].place # place)}
  /\ bkRaced' = (bkRaced \/ p \notin bkFresh)

\* p begins to work on b.
BkStart(p, b, next, copy, old) ==
  /\ bkPc[p] = "idle"
  /\ bkMoves < BkMoves
  /\ bkMoves' = bkMoves + 1
  /\ BkGoto(p, next)
  /\ bkFor' = [bkFor EXCEPT ![p] = b]
  /\ bkCopy' = [bkCopy EXCEPT ![p] = copy]
  /\ bkOld' = [bkOld EXCEPT ![p] = old]
  /\ bkFresh' = bkFresh \cup {p}
  /\ UNCHANGED <<bkDoc, bkEvents, bkRaced, bkFailed, bkRevived>>

\* create_event at the place of p's copy: made and answered, refused, or made and
\* the answer lost.
BkCreate(p, next) ==
  LET b == bkFor[p]  place == bkCopy[p].place IN
  \/ /\ bkEvents' = bkEvents \cup {<<b, place>>}
     /\ bkCopy' = [bkCopy EXCEPT ![p].ref = place]
     /\ BkGoto(p, next)
     /\ BkTouch(p, b, place)
     /\ UNCHANGED <<bkFor, bkOld, bkFailed>>
  \/ /\ bkEvents' \in {bkEvents, bkEvents \cup {<<b, place>>}}
     /\ bkFailed' = (bkFailed \/ next = "save" \/ bkEvents' # bkEvents)
     /\ BkDone(p)
     /\ BkTouch(p, b, IF bkEvents' = bkEvents THEN BkNone ELSE place)

-------------------------------------------------------------------------------
(* book.                                                                        *)

\* A place is free in the calendar chosen, and the booking gets its id.
BkBook(p, b, place) ==
  /\ ~BkFiled(b)
  /\ \A q \in BkReqs : bkFor[q] # b
  /\ BkFree(place)
  /\ BkStart(p, b, "create", [status |-> "confirmed", place |-> place, ref |-> BkNowhere], BkNowhere)

BkMake(p) ==
  /\ bkPc[p] = "create"
  /\ BkCreate(p, "file")
  /\ UNCHANGED <<bkDoc, bkMoves, bkRevived>>

\* put_doc of what the operation holds.
BkFile(p) ==
  /\ bkPc[p] \in {"file", "save"}
  /\ bkDoc' = [bkDoc EXCEPT ![bkFor[p]] = bkCopy[p]]
  /\ BkTouch(p, bkFor[p], BkNone)
  /\ BkDone(p)
  /\ UNCHANGED <<bkEvents, bkMoves, bkFailed, bkRevived>>

-------------------------------------------------------------------------------
(* reassign, reschedule and cancel.                                             *)

\* Mutant: the other calendar is not asked.
BkReassignUnasked(p, b, cal) ==
  LET d == bkDoc[b] IN
  /\ BkFiled(b)
  /\ d.status # "cancelled"
  /\ BkStart(p, b, "delete", [d EXCEPT !.place = <<cal, d.place[2]>>], d.ref)

\* Someone else's calendar, the same slot: it must be free.
BkReassign(p, b, cal) ==
  LET d == bkDoc[b]  place == <<cal, d.place[2]>> IN
  /\ BkFiled(b)
  /\ d.status # "cancelled"
  /\ BkFree(place)
  /\ BkStart(p, b, "delete", [d EXCEPT !.place = place], d.ref)

\* Another slot, the same calendar: free, but for what is there at its own time.
BkReschedule(p, b, slot) ==
  LET d == bkDoc[b]  place == <<d.place[1], slot>> IN
  /\ BkFiled(b)
  /\ d.status # "cancelled"
  /\ place = d.place \/ BkFree(place)
  /\ BkStart(p, b, "delete", [d EXCEPT !.place = place, !.status = "confirmed"], d.ref)

BkCancel(p, b) ==
  LET d == bkDoc[b] IN
  /\ BkFiled(b)
  /\ d.status # "cancelled"
  /\ BkStart(p, b, "delete", [d EXCEPT !.status = "cancelled"], d.ref)

\* delete_event: answered; or refused, or carried out and the answer lost.  Either
\* failure ends the change, and the document is left as it was.
BkDelete(p) ==
  LET gone == bkEvents \ {<<bkFor[p], bkOld[p]>>} IN
  /\ bkPc[p] = "delete"
  /\ \/ /\ bkEvents' = gone
        /\ BkGoto(p, IF bkCopy[p].status = "cancelled" THEN "save" ELSE "recreate")
        /\ BkTouch(p, bkFor[p], BkNone)
        /\ UNCHANGED <<bkFor, bkCopy, bkOld, bkFailed>>
     \/ /\ bkEvents' \in {bkEvents, gone}
        /\ bkFailed' = (bkFailed \/ bkEvents' # bkEvents)
        /\ BkDone(p)
        /\ bkFresh' = bkFresh \ {p}
        /\ UNCHANGED bkRaced
  /\ UNCHANGED <<bkDoc, bkMoves, bkRevived>>

\* The event at the new place; when it fails, the document keeps the old one.
BkRemake(p) ==
  /\ bkPc[p] = "recreate"
  /\ BkCreate(p, "save")
  /\ UNCHANGED <<bkDoc, bkMoves, bkRevived>>

-------------------------------------------------------------------------------
(* A customer's answer to a reminder (handle_reply): whatever the booking is.   *)

BkReply(p, b, status) ==
  /\ BkFiled(b)
  /\ BkStart(p, b, "answer", [bkDoc[b] EXCEPT !.status = status], BkNowhere)

BkAnswer(p) ==
  /\ bkPc[p] = "answer"
  /\ bkDoc' = [bkDoc EXCEPT ![bkFor[p]] = bkCopy[p]]
  /\ bkRevived' = (bkRevived \/ bkDoc[bkFor[p]].status = "cancelled")
  /\ BkTouch(p, bkFor[p], BkNone)
  /\ BkDone(p)
  /\ UNCHANGED <<bkEvents, bkMoves, bkFailed>>

\* The API process stops.
BkRestart ==
  /\ bkMoves < BkMoves
  /\ \E p \in BkReqs : bkPc[p] # "idle"
  /\ bkMoves' = bkMoves + 1
  /\ bkFailed' = (bkFailed \/ \E p \in BkReqs : bkPc[p] \in {"file", "recreate", "save"})
  /\ bkPc' = [p \in BkReqs |-> "idle"]
  /\ bkFor' = [p \in BkReqs |-> BkNone]
  /\ bkCopy' = [p \in BkReqs |-> BkNoDoc]
  /\ bkOld' = [p \in BkReqs |-> BkNowhere]
  /\ bkFresh' = {}
  /\ UNCHANGED <<bkDoc, bkEvents, bkRaced, bkRevived>>

BookingsNext ==
  \/ \E p \in BkReqs : BkMake(p) \/ BkFile(p) \/ BkDelete(p) \/ BkRemake(p) \/ BkAnswer(p)
  \/ \E p \in BkReqs, b \in BkBookings, place \in BkPlaces : BkBook(p, b, place)
  \/ \E p \in BkReqs, b \in BkBookings, cal \in BkCalendars : BkReassign(p, b, cal)
  \/ \E p \in BkReqs, b \in BkBookings, slot \in BkSlots : BkReschedule(p, b, slot)
  \/ \E p \in BkReqs, b \in BkBookings : BkCancel(p, b)
  \/ \E p \in BkReqs, b \in BkBookings, status \in {"confirmed", "reschedule_requested"} :
       BkReply(p, b, status)
  \/ BkRestart

BookingsSpec == BookingsInit /\ [][BookingsNext]_bookingsVars

-------------------------------------------------------------------------------
(* Properties.                                                                  *)

BookingsTypeOK ==
  /\ bkDoc \in [BkBookings -> BkDoc]
  /\ bkEvents \subseteq BkBookings \X BkPlaces
  /\ bkPc \in [BkReqs -> BkPC]
  /\ bkFor \in [BkReqs -> BkBookings \cup {BkNone}]
  /\ bkCopy \in [BkReqs -> BkDoc]
  /\ bkOld \in [BkReqs -> BkPlaces \cup {BkNowhere}]
  /\ bkMoves \in Nat
  /\ bkFresh \subseteq BkReqs
  /\ bkRaced \in BOOLEAN /\ bkFailed \in BOOLEAN /\ bkRevived \in BOOLEAN

BkLive(b) == bkDoc[b].status # "cancelled"

\* Nobody works on b.
BkStill(b) == BkLive(b) /\ \A p \in BkReqs : bkFor[p] # b

\* The calendars and the documents agree.  Nobody is booked twice for one slot,
\* while other bookings are made, moved and cancelled; a booking nobody is working
\* on has its one event where its document says, and a cancelled one has none.
\* Except when an operation was overtaken after its check, a change failed half
\* way, a calendar made or deleted an event and its answer was lost, or a cancelled
\* booking was confirmed by its customer (book, reassign, reschedule, cancel,
\* _move_event, delete_event).
BookingsAgree ==
  ~bkRaced /\ ~bkFailed /\ ~bkRevived =>
    /\ \A a, b \in BkBookings :
         a # b /\ BkStill(a) /\ BkStill(b) => bkDoc[a].place # bkDoc[b].place
    /\ \A b \in BkBookings :
         (\A p \in BkReqs : bkFor[p] # b) =>
           /\ {event \in bkEvents : event[1] = b} =
                IF BkLive(b) THEN {<<b, bkDoc[b].place>>} ELSE {}
           /\ BkLive(b) => bkDoc[b].ref = bkDoc[b].place
===============================================================================
