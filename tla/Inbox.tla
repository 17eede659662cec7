--------------------------------- MODULE Inbox ---------------------------------
(* A conversation of the shared inbox (apps/api/parlio_api/inbox.py) and the     *)
(* ticket raised from it (tickets.py, TicketService.update and escalate_overdue).*)
(*                                                                               *)
(* The two mirror each other: closing, taking or reopening the conversation is   *)
(* carried to its tickets (_sync_tickets), a ticket that is resolved, claimed or *)
(* reopened is carried to its conversation (on_ticket_changed).  A conversation  *)
(* is a document put back whole; an incoming message holds its copy while the    *)
(* assistant writes an answer, which takes seconds.  A ticket is a row, updated  *)
(* under a lock.                                                                 *)
(*                                                                               *)
(* One conversation and the first ticket raised from it are followed; a message  *)
(* that finds the conversation closed opens another, which is not.  Deadlines    *)
(* are flags; who a conversation is assigned to, texts, tags, unread counts and  *)
(* the extra puts of status lines on web chat are left out.                      *)
EXTENDS Integers, FiniteSets

CONSTANTS
  InProcs,  \* messages, dashboard requests and sweeps under way together
  InMoves   \* bound: operations started

ASSUME InboxAssumption == InMoves \in Nat

VARIABLES
  inDoc,                          \* the stored conversation
  tkStatus, tkThread, tkBreached, \* the ticket; tkThread: it has a thread_id
  inPc, inCopy,
  inWant,                         \* the ticket status an operation wants, or None
  inBefore,                       \* the status TicketService.update read first
  inMoves

\* History, for the properties only.
VARIABLES
  inFresh,    \* processes whose copy nobody has overtaken
  inTorn,     \* the conversation has lost an update
  inPaused,   \* a person, or a handoff, has switched the assistant off
  inCrossed,  \* the ticket changed while another operation was carrying a change
  inCredit,   \* handoffs less callback tickets of the sweep
  tkOwed,     \* resolutions less runs of the resolved hook
  tkStale,    \* a ticket was updated after the status that was read first
  tkNotified  \* escalations sent

inLocal == <<inPc, inCopy, inWant, inBefore>>
tkRow   == <<tkStatus, tkThread, tkBreached>>
inGhost == <<inFresh, inTorn, inPaused, inCrossed, inCredit, tkOwed, tkStale, tkNotified>>
inboxVars == <<inDoc, tkRow, inLocal, inMoves, inGhost>>

ThreadStatus == {"open", "waiting", "closed"}
TicketStatus == {"open", "claimed", "resolved", "cancelled"}
InNone == "none"

Thread == [status: ThreadStatus, ai: BOOLEAN, linked: BOOLEAN, callback: BOOLEAN,
           due: BOOLEAN, breached: BOOLEAN]

InNew == [status |-> "open", ai |-> TRUE, linked |-> FALSE, callback |-> FALSE,
          due |-> FALSE, breached |-> FALSE]

InPC == {"idle", "append", "canned", "respond", "ticket", "link", "handoff", "save", "reply",
         "sync", "tk_read", "tk_write", "mirror", "close", "reopen", "assign", "reflect", "hook",
         "sweep", "sweep_save", "escalate", "notify"}

\* Operations that have still to carry a change to the other side.
InCarrying == {"sync", "tk_read", "tk_write", "mirror", "close", "reopen", "assign", "reflect"}

InboxInit ==
  /\ inDoc = InNew
  /\ tkStatus = InNone
  /\ tkThread = FALSE
  /\ tkBreached = FALSE
  /\ inPc = [p \in InProcs |-> "idle"]
  /\ inCopy = [p \in InProcs |-> InNew]
  /\ inWant = [p \in InProcs |-> InNone]
  /\ inBefore = [p \in InProcs |-> InNone]
  /\ inMoves = 0
  /\ inFresh = {}
  /\ inTorn = FALSE
  /\ inPaused = FALSE
  /\ inCrossed = FALSE
  /\ inCredit = 0
  /\ tkOwed = 0
  /\ tkStale = FALSE
  /\ tkNotified = 0

-------------------------------------------------------------------------------
(* Documents and operations.                                                    *)

\* p starts an operation on the conversation, read now, and goes on to `next'.
InStart(p, copy, want, next) ==
  /\ inPc[p] = "idle"
  /\ inMoves < InMoves
  /\ inMoves' = inMoves + 1
  /\ inPc' = [inPc EXCEPT ![p] = next]
  /\ inCopy' = [inCopy EXCEPT ![p] = copy]
  /\ inWant' = [inWant EXCEPT ![p] = want]
  /\ inFresh' = inFresh \cup {p}
  /\ UNCHANGED <<inDoc, tkRow, inBefore, inTorn, inPaused, inCrossed, inCredit, tkOwed,
                 tkStale, tkNotified>>

\* put_doc: p saves `copy', keeps it, and goes on to `next'.
InPut(p, copy, next) ==
  /\ inDoc' = copy
  /\ inCopy' = [inCopy EXCEPT ![p] = IF next = "idle" THEN InNew ELSE copy]
  /\ inTorn' = (inTorn \/ p \notin inFresh)
  /\ inFresh' = IF next = "idle" THEN {} ELSE {p}
  /\ inPc' = [inPc EXCEPT ![p] = next]

\* p has nothing more to do.
InEnd(p) ==
  /\ inPc' = [inPc EXCEPT ![p] = "idle"]
  /\ inCopy' = [inCopy EXCEPT ![p] = InNew]
  /\ inWant' = [inWant EXCEPT ![p] = InNone]
  /\ inBefore' = [inBefore EXCEPT ![p] = InNone]
  /\ inFresh' = inFresh \ {p}

\* create_from_intake: only the conversation's first ticket is followed.
InRaise(withThread) ==
  IF tkStatus = InNone
  THEN tkStatus' = "open" /\ tkThread' = withThread /\ UNCHANGED tkBreached
  ELSE UNCHANGED tkRow

-------------------------------------------------------------------------------
(* inbound: a message from the customer.                                        *)

InMessage(p) ==
  /\ inDoc.status # "closed"
  /\ InStart(p, [inDoc EXCEPT !.due = TRUE], InNone, "append")

\* _append: the message is filed.  A word to opt out, or an answer to a reminder, is
\* met with a fixed text, anything else by the assistant unless it is off.
InAppend(p) ==
  /\ inPc[p] = "append"
  /\ \E next \in {"canned", IF inCopy[p].ai THEN "respond" ELSE "idle"} : InPut(p, inCopy[p], next)
  /\ UNCHANGED <<tkRow, inWant, inBefore, inMoves, inPaused, inCrossed, inCredit, tkOwed,
                 tkStale, tkNotified>>

InCanned(p) ==
  /\ inPc[p] = "canned"
  /\ InPut(p, [inCopy[p] EXCEPT !.due = FALSE, !.breached = FALSE], "idle")
  /\ UNCHANGED <<tkRow, inWant, inBefore, inMoves, inPaused, inCrossed, inCredit, tkOwed,
                 tkStale, tkNotified>>

\* The assistant's turn is sent and filed: an answer, a ticket, a handoff to a
\* person, or (by the fallback's rules) a handoff with a ticket.
InRespond(p) ==
  /\ inPc[p] = "respond"
  /\ \E next \in {"idle", "ticket", "handoff", "ticket_handoff"} :
       /\ InPut(p, [inCopy[p] EXCEPT !.due = FALSE, !.breached = FALSE],
                IF next = "ticket_handoff" THEN "ticket" ELSE next)
       /\ inWant' = [inWant EXCEPT ![p] = IF next = "ticket_handoff" THEN "open" ELSE InNone]
  /\ UNCHANGED <<tkRow, inBefore, inMoves, inPaused, inCrossed, inCredit, tkOwed, tkStale,
                 tkNotified>>

\* on_ticket.  A ticket of the language model's turn carries no thread_id.
InTicket(p) ==
  /\ inPc[p] = "ticket"
  /\ InRaise(inWant[p] = "open")
  /\ inPc' = [inPc EXCEPT ![p] = "link"]
  /\ inCopy' = [inCopy EXCEPT ![p].linked = TRUE]
  /\ UNCHANGED <<inDoc, inWant, inBefore, inMoves, inGhost>>

InLink(p) ==
  /\ inPc[p] = "link"
  /\ InPut(p, inCopy[p], IF inWant[p] = "open" THEN "handoff" ELSE "idle")
  /\ UNCHANGED <<tkRow, inWant, inBefore, inMoves, inPaused, inCrossed, inCredit, tkOwed,
                 tkStale, tkNotified>>

\* The assistant is switched off and the conversation waits for a person.
InHandoff(p) ==
  /\ inPc[p] = "handoff"
  /\ InPut(p, [inCopy[p] EXCEPT !.ai = FALSE, !.status = "waiting", !.due = TRUE,
                                !.callback = (inWant[p] = "open")], "idle")
  /\ inWant' = [inWant EXCEPT ![p] = InNone]
  /\ inPaused' = TRUE
  /\ inCredit' = inCredit + 1
  /\ UNCHANGED <<tkRow, inBefore, inMoves, inCrossed, tkOwed, tkStale, tkNotified>>

-------------------------------------------------------------------------------
(* The team: reply, and update of a conversation.                               *)

\* Mutant: the assistant stays on.
InReplyStaysOn(p) ==
  InStart(p, [inDoc EXCEPT !.status = "open", !.due = FALSE, !.breached = FALSE],
          "claimed", "reply")

InReply(p) ==
  InStart(p, [inDoc EXCEPT !.ai = FALSE, !.status = "open", !.due = FALSE, !.breached = FALSE],
          "claimed", "reply")

\* update, and note: a change of the dashboard, and what it asks of the tickets.
InChanged(doc, change) ==
  CASE change = "close"  -> [doc EXCEPT !.status = "closed", !.due = FALSE]
    [] change = "reopen" -> [doc EXCEPT !.status = "open"]
    [] change = "resume" -> [doc EXCEPT !.ai = TRUE,
                                        !.status = IF @ = "waiting" THEN "open" ELSE @]
    [] OTHER             -> doc

InAsks(doc, change) ==
  CASE change = "close"  /\ doc.status # "closed" -> "resolved"
    [] change = "reopen" /\ doc.status = "closed" -> "open"
    [] change = "assign" /\ doc.status # "closed" -> "claimed"
    [] OTHER -> InNone

InUpdate(p, change) ==
  InStart(p, InChanged(inDoc, change), InAsks(inDoc, change), "save")

\* The copy of a reply or an update is saved; the tickets come next.
InSave(p) ==
  /\ inPc[p] \in {"save", "reply"}
  /\ InPut(p, inCopy[p], IF inWant[p] = InNone THEN "idle" ELSE "sync")
  /\ inPaused' = (inPc[p] = "reply" \/ (inPaused /\ ~inCopy[p].ai))
  /\ UNCHANGED <<tkRow, inWant, inBefore, inMoves, inCrossed, inCredit, tkOwed, tkStale,
                 tkNotified>>

\* Mutant: the ticket nobody has claimed is left alone.
InMovableClaimed(status, want) ==
  /\ status \notin {InNone, want}
  /\ IF want = "open" THEN status = "resolved" ELSE status = "claimed"

\* _sync_tickets: is the ticket one to move?
InMovable(status, want) ==
  /\ status \notin {InNone, want}
  /\ want = "claimed" => status = "open"
  /\ want = "open" => status = "resolved"

InSync(p) ==
  /\ inPc[p] = "sync"
  /\ IF inCopy[p].linked /\ InMovable(tkStatus, inWant[p])
     THEN /\ inPc' = [inPc EXCEPT ![p] = "tk_read"]
          /\ UNCHANGED <<inCopy, inWant, inBefore, inFresh>>
     ELSE InEnd(p)
  /\ UNCHANGED <<inDoc, tkRow, inMoves, inTorn, inPaused, inCrossed, inCredit, tkOwed,
                 tkStale, tkNotified>>

-------------------------------------------------------------------------------
(* TicketService.update, from the board or from _sync_tickets.                   *)

\* The ticket's row is read ...
TkRead(p, want) ==
  /\ tkStatus # InNone
  /\ \/ inPc[p] = "tk_read" /\ want = inWant[p] /\ UNCHANGED inMoves
     \/ inPc[p] = "idle" /\ inMoves < InMoves /\ inMoves' = inMoves + 1
  /\ inPc' = [inPc EXCEPT ![p] = "tk_write"]
  /\ inWant' = [inWant EXCEPT ![p] = want]
  /\ inBefore' = [inBefore EXCEPT ![p] = tkStatus]
  /\ UNCHANGED <<inDoc, tkRow, inCopy, inGhost>>

\* ... and updated, under its lock.
TkWrite(p) ==
  LET changed == inWant[p] # inBefore[p]
      others  == {q \in InProcs \ {p} : inPc[q] \in InCarrying \/ inWant[q] # InNone}
  IN
  /\ inPc[p] = "tk_write"
  /\ tkStatus' = inWant[p]
  /\ tkOwed' = IF inWant[p] = "resolved" /\ tkStatus # "resolved" THEN tkOwed + 1 ELSE tkOwed
  /\ tkStale' = (tkStale \/ tkStatus # inBefore[p])
  /\ inCrossed' = (inCrossed \/ others # {})
  /\ inPc' = [inPc EXCEPT ![p] = IF changed /\ tkThread THEN "mirror" ELSE "hook"]
  /\ UNCHANGED <<inDoc, tkThread, tkBreached, inCopy, inWant, inBefore, inMoves, inFresh,
                 inTorn, inPaused, inCredit, tkNotified>>

\* on_ticket_changed: what the conversation has to do.  A claim only assigns it.
TkMirror(p) ==
  /\ inPc[p] = "mirror"
  /\ \E next \in {"close", "reopen", "assign", "hook"} :
       /\ next = "close"  <=> inWant[p] \in {"resolved", "cancelled"} /\ inDoc.status # "closed"
       /\ next = "reopen" <=> inWant[p] = "open" /\ inDoc.status = "closed"
       /\ next = "assign" => inWant[p] = "claimed" /\ inDoc.status # "closed"
       /\ inPc' = [inPc EXCEPT ![p] = next]
  /\ UNCHANGED <<inDoc, tkRow, inCopy, inWant, inBefore, inMoves, inGhost>>

\* update, this time without telling the tickets: the conversation is read again ...
InReflect(p) ==
  /\ inPc[p] \in {"close", "reopen", "assign"}
  /\ inPc' = [inPc EXCEPT ![p] = "reflect"]
  /\ inCopy' = [inCopy EXCEPT ![p] = InChanged(inDoc, inPc[p])]
  /\ inFresh' = inFresh \cup {p}
  /\ UNCHANGED <<inDoc, tkRow, inWant, inBefore, inMoves, inTorn, inPaused, inCrossed,
                 inCredit, tkOwed, tkStale, tkNotified>>

\* ... and saved.
InReflectSave(p) ==
  /\ inPc[p] = "reflect"
  /\ InPut(p, inCopy[p], "hook")
  /\ UNCHANGED <<tkRow, inWant, inBefore, inMoves, inPaused, inCrossed, inCredit, tkOwed,
                 tkStale, tkNotified>>

\* Mutant: the hook runs whatever the ticket was before.
TkHookAlways(p) ==
  /\ inPc[p] = "hook"
  /\ tkOwed' = IF inWant[p] = "resolved" THEN tkOwed - 1 ELSE tkOwed
  /\ InEnd(p)
  /\ UNCHANGED <<inDoc, tkRow, inMoves, inTorn, inPaused, inCrossed, inCredit, tkStale,
                 tkNotified>>

\* on_resolved, if this update is the one that resolved the ticket.
TkHook(p) ==
  /\ inPc[p] = "hook"
  /\ tkOwed' = IF inWant[p] = "resolved" /\ inBefore[p] # "resolved" THEN tkOwed - 1 ELSE tkOwed
  /\ InEnd(p)
  /\ UNCHANGED <<inDoc, tkRow, inMoves, inTorn, inPaused, inCrossed, inCredit, tkStale,
                 tkNotified>>

-------------------------------------------------------------------------------
(* The loops: InboxSlaLoop and SlaMonitor, one task each.                       *)

\* sweep_sla comes to the conversation, unanswered for too long, in its listing.
InSweep(p) ==
  /\ \A q \in InProcs : inPc[q] \notin {"sweep", "sweep_save"}
  /\ inDoc.due /\ ~inDoc.breached /\ inDoc.status # "closed"
  /\ InStart(p, [inDoc EXCEPT !.breached = TRUE], InNone, "sweep")

\* A handoff nobody took becomes a callback ticket, unless raising it fails.
InSweepRaise(p) ==
  LET c == inCopy[p] IN
  /\ inPc[p] = "sweep"
  /\ inPc' = [inPc EXCEPT ![p] = "sweep_save"]
  /\ IF c.status = "waiting" /\ ~c.ai /\ ~c.callback
     THEN \/ /\ InRaise(TRUE)
             /\ inCopy' = [inCopy EXCEPT ![p].callback = TRUE, ![p].linked = TRUE]
             /\ inCredit' = inCredit - 1
          \/ UNCHANGED <<tkRow, inCopy, inCredit>>
     ELSE UNCHANGED <<tkRow, inCopy, inCredit>>
  /\ UNCHANGED <<inDoc, inWant, inBefore, inMoves, inFresh, inTorn, inPaused, inCrossed,
                 tkOwed, tkStale, tkNotified>>

InSweepSave(p) ==
  /\ inPc[p] = "sweep_save"
  /\ InPut(p, inCopy[p], "idle")
  /\ UNCHANGED <<tkRow, inWant, inBefore, inMoves, inPaused, inCrossed, inCredit, tkOwed,
                 tkStale, tkNotified>>

\* escalate_overdue lists the ticket, marks it and sends the escalation.
TkOverdue(p) ==
  /\ tkStatus \in {"open", "claimed"} /\ ~tkBreached
  /\ \A q \in InProcs : inPc[q] \notin {"escalate", "notify"}
  /\ InStart(p, InNew, InNone, "escalate")

TkMark(p) ==
  /\ inPc[p] = "escalate"
  /\ tkBreached' = TRUE
  /\ inPc' = [inPc EXCEPT ![p] = "notify"]
  /\ UNCHANGED <<inDoc, tkStatus, tkThread, inCopy, inWant, inBefore, inMoves, inGhost>>

TkNotify(p) ==
  /\ inPc[p] = "notify"
  /\ tkNotified' = tkNotified + 1
  /\ InEnd(p)
  /\ UNCHANGED <<inDoc, tkRow, inMoves, inTorn, inPaused, inCrossed, inCredit, tkOwed, tkStale>>

InboxNext ==
  \/ \E p \in InProcs : InMessage(p) \/ InAppend(p) \/ InCanned(p) \/ InRespond(p)
  \/ \E p \in InProcs : InTicket(p) \/ InLink(p) \/ InHandoff(p) \/ InReply(p)
  \/ \E p \in InProcs : InSave(p) \/ InSync(p)
  \/ \E p \in InProcs, change \in {"close", "reopen", "assign", "resume", "note"} :
       InUpdate(p, change)
  \/ \E p \in InProcs, want \in TicketStatus : TkRead(p, want)
  \/ \E p \in InProcs : TkWrite(p) \/ TkMirror(p) \/ InReflect(p) \/ InReflectSave(p) \/ TkHook(p)
  \/ \E p \in InProcs : InSweep(p) \/ InSweepRaise(p) \/ InSweepSave(p)
  \/ \E p \in InProcs : TkOverdue(p) \/ TkMark(p) \/ TkNotify(p)

InboxSpec == InboxInit /\ [][InboxNext]_inboxVars

-------------------------------------------------------------------------------
(* Properties.                                                                  *)

InboxTypeOK ==
  /\ inDoc \in Thread
  /\ tkStatus \in TicketStatus \cup {InNone}
  /\ tkThread \in BOOLEAN /\ tkBreached \in BOOLEAN
  /\ inPc \in [InProcs -> InPC]
  /\ inCopy \in [InProcs -> Thread]
  /\ inWant \in [InProcs -> TicketStatus \cup {InNone}]
  /\ inBefore \in [InProcs -> TicketStatus \cup {InNone}]
  /\ inMoves \in Nat
  /\ inFresh \subseteq InProcs
  /\ inTorn \in BOOLEAN /\ inPaused \in BOOLEAN /\ inCrossed \in BOOLEAN /\ tkStale \in BOOLEAN
  /\ inCredit \in Int /\ tkOwed \in Int /\ tkNotified \in Nat

InQuiet == \A p \in InProcs : inPc[p] = "idle"

\* A conversation a person has taken, or the assistant has handed over, stays off
\* for the assistant until somebody switches it on again, unless an operation
\* saved an older copy over it; and the assistant has raised at most one callback
\* ticket for each handoff (inbound, reply, sweep_sla).
HumanKeepsThread == ~inTorn => (inPaused => ~inDoc.ai) /\ inCredit >= 0

\* When nothing is under way, a closed conversation has no open ticket: the two
\* mirror each other, from either side and in any order, as long as no change of
\* the ticket overtook another one on its way (_sync_tickets, on_ticket_changed).
\* The resolved hook runs once for each time the ticket is resolved, unless two
\* updates of the ticket overlapped; and a ticket is escalated at most once
\* (TicketService.update, escalate_overdue).
TicketsAgree ==
  /\ InQuiet /\ inDoc.status = "closed" /\ inDoc.linked /\ tkThread /\ ~inTorn /\ ~inCrossed
       => tkStatus # "open"
  /\ InQuiet /\ ~tkStale => tkOwed = 0
  /\ tkNotified <= 1
===============================================================================
