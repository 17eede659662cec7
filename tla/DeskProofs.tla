------------------------------ MODULE DeskProofs ------------------------------
(* Proofs about the owners' desk: Inbox, for any number of messages, tickets and     *)
(* requests under way, and Studio, for any versions, requests, calls and restarts.   *)
EXTENDS Inbox, Studio, FiniteSetTheorems, TLAPS

-------------------------------------------------------------------------------
(* Inbox: the invariant. *)

InRaising == {"append", "canned", "respond", "ticket", "link", "handoff"}
InSweeping == {"sweep", "sweep_save"}
InWriting == InRaising \cup InSweeping \cup {"reply", "save", "reflect"}
InTold == {"mirror", "close", "reopen", "assign", "reflect", "hook"}

\* What an operation wants of the ticket, by where it is.
InWants ==
  \A p \in InProcs :
    /\ inPc[p] \in {"sync", "tk_read", "tk_write"} \cup InTold => inWant[p] # InNone
    /\ inPc[p] = "close" => inWant[p] \in {"resolved", "cancelled"}
    /\ inPc[p] = "assign" => inWant[p] = "claimed"
    /\ inPc[p] = "reopen" => inWant[p] = "open"
    /\ inPc[p] \in InTold \cup {"tk_write"} => inBefore[p] # InNone

\* What the copies can hold: a message or a sweep is about a conversation that is not
\* closed, a reply takes it over, and a link is to a ticket that exists.
InCopies ==
  /\ inDoc.linked => tkStatus # InNone
  /\ \A p \in InProcs :
       /\ inCopy[p].linked => tkStatus # InNone
       /\ inPc[p] \in InRaising \cup InSweeping \cup {"reply"} => inCopy[p].status # "closed"
       /\ inPc[p] = "reply" => ~inCopy[p].ai
       /\ inPc[p] = "reflect" /\ inWant[p] = "open" => inCopy[p].status # "closed"
       /\ inBefore[p] # InNone => tkStatus # InNone

\* As long as the changes of the ticket do not overlap, each finds it as it was read,
\* and leaves it as it wanted it until it is done.
InCarried ==
  ~inCrossed =>
    \A p \in InProcs :
      /\ inPc[p] = "tk_write" => inBefore[p] = tkStatus
      /\ inPc[p] \in InTold => inWant[p] = tkStatus

\* A current copy that switches the assistant on is one that is asked to.
InOff ==
  ~inTorn /\ inPaused =>
    /\ ~inDoc.ai
    /\ \A p \in inFresh : inPc[p] \in InWriting \ {"save"} => ~inCopy[p].ai

\* A conversation that was handed over and has no callback ticket yet has a handoff
\* to its credit, or the sweep has just spent it and will say so.
InPending(doc) == doc.status = "waiting" /\ ~doc.ai /\ ~doc.callback
InOwed(doc) ==
  InPending(doc) =>
    inCredit >= 1 \/ \E q \in InProcs : inPc[q] = "sweep_save" /\ inCopy[q].callback

InCredits ==
  /\ \A p, q \in InProcs : inPc[p] \in InSweeping /\ inPc[q] \in InSweeping => p = q
  /\ ~inTorn =>
       /\ inCredit >= 0
       /\ InOwed(inDoc)
       /\ \A p \in inFresh : inPc[p] \in InWriting => InOwed(inCopy[p])
       /\ \A p \in InProcs : inPc[p] \in InSweeping /\ InPending(inCopy[p]) => inCredit >= 1

\* The updates that have resolved the ticket and not run the hook.
InOwing == {p \in InProcs : inPc[p] \in InTold /\ inWant[p] = "resolved" /\ inBefore[p] # "resolved"}
InHooks == IsFiniteSet(InOwing) /\ (~tkStale => tkOwed = Cardinality(InOwing))

\* One escalation at a time, and none after the first.
InEscalating ==
  /\ \A p, q \in InProcs :
       inPc[p] \in {"escalate", "notify"} /\ inPc[q] \in {"escalate", "notify"} => p = q
  /\ \A p \in InProcs :
       /\ inPc[p] = "escalate" => ~tkBreached
       /\ inPc[p] = "notify" => tkBreached /\ tkNotified = 0
  /\ tkBreached \/ tkNotified = 0
  /\ tkNotified <= 1

\* A current copy of a closed conversation was taken from a closed one, with the same
\* ticket; or closes it on the way to the ticket, or from it.
InClosing ==
  \A p \in inFresh : inPc[p] \in InWriting /\ inCopy[p].status = "closed" =>
    \/ inDoc.status = "closed" /\ inCopy[p].linked = inDoc.linked
    \/ inPc[p] = "save" /\ inWant[p] = "resolved"
    \/ inPc[p] = "reflect" /\ inWant[p] \in {"resolved", "cancelled"}

\* If a closed conversation has an open ticket, somebody is on the way to one of them.
InMirrored ==
  ~inTorn /\ ~inCrossed /\ inDoc.status = "closed" /\ inDoc.linked /\ tkThread
    /\ tkStatus = "open" =>
      \E p \in InProcs :
        \/ inPc[p] \in {"sync", "tk_read", "tk_write"} /\ inWant[p] = "resolved"
             /\ inCopy[p].linked
        \/ inPc[p] \in {"mirror", "reopen", "reflect"} /\ inWant[p] = "open"

InInv ==
  /\ InboxTypeOK /\ InWants /\ InCopies /\ InCarried
  /\ InOff /\ InCredits /\ InHooks /\ InEscalating /\ InClosing /\ InMirrored

USE InboxAssumption

LEMMA InNewThread == InNew \in Thread
BY DEF InNew, Thread, ThreadStatus

LEMMA InInitInv == InboxInit => InInv
<1> SUFFICES ASSUME InboxInit PROVE InInv
  OBVIOUS
<1>1. InboxTypeOK
  <2>1. inDoc \in Thread /\ inCopy \in [InProcs -> Thread]
    BY InNewThread DEF InboxInit
  <2>2. /\ tkStatus \in TicketStatus \cup {InNone}
        /\ inPc \in [InProcs -> InPC]
        /\ inWant \in [InProcs -> TicketStatus \cup {InNone}]
        /\ inBefore \in [InProcs -> TicketStatus \cup {InNone}]
    BY DEF InboxInit, InPC
  <2>3. inMoves \in Nat /\ inCredit \in Int /\ tkOwed \in Int /\ tkNotified \in Nat
    BY DEF InboxInit
  <2>4. /\ tkThread \in BOOLEAN /\ tkBreached \in BOOLEAN /\ inFresh \subseteq InProcs
        /\ inTorn \in BOOLEAN /\ inPaused \in BOOLEAN /\ inCrossed \in BOOLEAN
        /\ tkStale \in BOOLEAN
    BY DEF InboxInit
  <2> QED
    BY <2>1, <2>2, <2>3, <2>4 DEF InboxTypeOK
<1>2. InWants
  BY DEF InboxInit, InboxTypeOK, InWants, InTold, InCarrying, InNone, TicketStatus, InNew
<1>3. InCopies
  BY DEF InboxInit, InboxTypeOK, InCopies, InRaising, InSweeping, InNone, InNew,
         TicketStatus, Thread, ThreadStatus
<1>4. InCarried
  BY DEF InboxInit, InboxTypeOK, InCarried, InTold, InWants, InNone, InCarrying,
         TicketStatus, InNew
<1>5. InOff
  BY DEF InboxInit, InboxTypeOK, InOff, InCopies, InRaising, InSweeping, InWriting, InTold,
         InNew
<1>6. InCredits
  BY DEF InboxInit, InboxTypeOK, InCredits, InOwed, InPending, Thread, InRaising,
         InSweeping, InWriting, InTold, InNew
<1>7. InHooks
  <2>1. InOwing = {}
    BY DEF InboxInit, InOwing, InTold
  <2> QED
    BY <2>1, FS_EmptySet DEF InboxInit, InHooks
<1>8. InEscalating
  BY DEF InboxInit, InboxTypeOK, InEscalating, InNew
<1>9. InClosing
  BY DEF InboxInit, InboxTypeOK, InClosing, InCopies, InRaising, InSweeping, InWriting,
         InTold, InNew
<1>10. InMirrored
  BY DEF InboxInit, InboxTypeOK, InMirrored, InClosing, InWants, InCopies, InCarried,
         InTold, InNone, InCarrying, InMovable, InRaising, InSweeping, InWriting, InNew
<1> QED
  BY <1>1, <1>2, <1>3, <1>4, <1>5, <1>6, <1>7, <1>8, <1>9, <1>10 DEF InInv

LEMMA InStutterInv == ASSUME InInv, UNCHANGED inboxVars PROVE InInv'
<1>1. InboxTypeOK'
  BY DEF InInv, InboxTypeOK, Thread, ThreadStatus, TicketStatus, InPC, InNone, InNew,
         inboxVars, inLocal, tkRow, inGhost
<1>2. InWants'
  BY DEF InInv, InboxTypeOK, InWants, InTold, InCarrying, InNone, TicketStatus, inboxVars,
         inLocal, tkRow, inGhost
<1>3. InCopies'
  BY DEF InInv, InboxTypeOK, InCopies, InRaising, InSweeping, InNone, InNew, TicketStatus,
         Thread, ThreadStatus, inboxVars, inLocal, tkRow, inGhost
<1>4. InCarried'
  BY DEF InInv, InboxTypeOK, InCarried, InTold, InWants, InNone, InCarrying, TicketStatus,
         inboxVars, inLocal, tkRow, inGhost
<1>5. InOff'
  BY DEF InInv, InboxTypeOK, InOff, InCopies, InRaising, InSweeping, InWriting, InTold,
         inboxVars, inLocal, tkRow, inGhost
<1>6. InCredits'
  BY DEF InInv, InboxTypeOK, InCredits, InOwed, InPending, Thread, InRaising, InSweeping,
         InWriting, InTold, inboxVars, inLocal, tkRow, inGhost
<1>7. InHooks'
  BY DEF InInv, InboxTypeOK, InHooks, InOwing, InTold, InNone, InCarried, inboxVars,
         inLocal, tkRow, inGhost
<1>8. InEscalating'
  BY DEF InInv, InboxTypeOK, InEscalating, inboxVars, inLocal, tkRow, inGhost
<1>9. InClosing'
  BY DEF InInv, InboxTypeOK, InClosing, InCopies, InRaising, InSweeping, InWriting, InTold,
         inboxVars, inLocal, tkRow, inGhost
<1>10. InMirrored'
  BY DEF InInv, InboxTypeOK, InMirrored, InClosing, InWants, InCopies, InCarried, InTold,
         InNone, InCarrying, InMovable, InRaising, InSweeping, InWriting, inboxVars,
         inLocal, tkRow, inGhost
<1> QED
  BY <1>1, <1>2, <1>3, <1>4, <1>5, <1>6, <1>7, <1>8, <1>9, <1>10 DEF InInv

\* A save that leaves `ai' as it was in a copy, and what it means for InOff.
LEMMA InPutOff ==
  ASSUME InInv, NEW p \in InProcs, NEW copy \in Thread, NEW next, InPut(p, copy, next),
         inPaused' = inPaused, inPc[p] \in InWriting \ {"save"}, copy.ai = inCopy[p].ai
  PROVE  InOff'
<1> SUFFICES ASSUME ~inTorn', inPaused'
             PROVE  /\ ~inDoc'.ai
                    /\ \A q \in inFresh' : inPc'[q] \in InWriting \ {"save"} => ~inCopy'[q].ai
  BY DEF InOff
<1>1. p \in inFresh /\ ~inTorn /\ inPaused
  BY DEF InPut, InInv, InboxTypeOK
<1>2. ~copy.ai
  BY <1>1 DEF InInv, InOff
<1>3. next # "idle" => inCopy'[p] = copy
  BY DEF InPut, InInv, InboxTypeOK
<1> QED
  BY <1>2, <1>3 DEF InPut

\* The same of a save that leaves a conversation as pending as it was, and InCredits.
LEMMA InPutCredits ==
  ASSUME InInv, NEW p \in InProcs, NEW copy \in Thread, NEW next, InPut(p, copy, next),
         inCredit' = inCredit, inPc[p] \in InWriting \ InSweeping, next \notin InSweeping,
         InOwed(inCopy[p]) => InOwed(copy)
  PROVE  InCredits'
<1>1. \A q \in InProcs : inPc'[q] \in InSweeping =>
         q # p /\ inPc[q] = inPc'[q] /\ inCopy'[q] = inCopy[q]
  BY DEF InPut, InInv, InboxTypeOK
<1>2. \A q \in InProcs : inPc[q] \in InSweeping =>
         q # p /\ inPc[q] = inPc'[q] /\ inCopy'[q] = inCopy[q]
  BY DEF InPut, InInv, InboxTypeOK
<1>3. \A q, r \in InProcs : inPc'[q] \in InSweeping /\ inPc'[r] \in InSweeping => q = r
  BY <1>1 DEF InInv, InCredits
<1> SUFFICES ASSUME ~inTorn'
             PROVE  /\ inCredit' >= 0
                    /\ InOwed(inDoc)'
                    /\ \A q \in inFresh' : inPc'[q] \in InWriting => InOwed(inCopy[q])'
                    /\ \A q \in InProcs :
                         inPc'[q] \in InSweeping /\ InPending(inCopy'[q]) => inCredit' >= 1
  BY <1>3 DEF InCredits
<1>4. p \in inFresh /\ ~inTorn
  BY DEF InPut, InInv, InboxTypeOK
<1>5. inCredit' >= 0
  BY <1>4 DEF InInv, InCredits
<1>6. InOwed(copy)
  BY <1>4 DEF InInv, InCredits
<1>7. InOwed(copy)'
  BY <1>2, <1>6 DEF InOwed, InPending, InSweeping
<1>8. InOwed(inDoc)'
  BY <1>7 DEF InPut
<1>9. \A q \in inFresh' : inPc'[q] \in InWriting => InOwed(inCopy[q])'
  <2>1. next # "idle" => inCopy'[p] = copy
    BY DEF InPut, InInv, InboxTypeOK
  <2> QED
    BY <2>1, <1>7 DEF InPut, InOwed, InPending
<1>10. \A q \in InProcs :
          inPc'[q] \in InSweeping /\ InPending(inCopy'[q]) => inCredit' >= 1
  BY <1>1, <1>4 DEF InInv, InCredits
<1> QED
  BY <1>5, <1>8, <1>9, <1>10

LEMMA InMessageInv == ASSUME InInv, NEW p \in InProcs, InMessage(p) PROVE InInv'
<1>1. InboxTypeOK'
  <2> DEFINE copy == [inDoc EXCEPT !.due = TRUE]
  <2>1. copy \in Thread
    BY InNewThread DEF InInv, InboxTypeOK, Thread, ThreadStatus, InChanged
  <2> HIDE DEF copy
  <2>2. InStart(p, copy, InNone, "append")
    BY DEF InMessage, copy
  <2> QED
    BY <2>1, <2>2 DEF InInv, InboxTypeOK, InPC, InNone, TicketStatus, tkRow, InStart, InAsks
<1>2. InWants'
  BY DEF InInv, InboxTypeOK, InWants, InTold, InCarrying, InNone, TicketStatus, InMessage,
         InStart, tkRow
<1>3. InCopies'
  BY DEF InInv, InboxTypeOK, InCopies, InRaising, InSweeping, InNone, InNew, TicketStatus,
         Thread, ThreadStatus, InMessage, InStart, tkRow
<1>4. InCarried'
  BY DEF InInv, InboxTypeOK, InCarried, InTold, InWants, InNone, InCarrying, TicketStatus,
         InMessage, InStart, tkRow
<1>5. InOff'
  BY DEF InInv, InboxTypeOK, InOff, InCopies, InRaising, InSweeping, InWriting, InTold,
         InMessage, InStart, tkRow
<1>6. InCredits'
  BY DEF InInv, InboxTypeOK, InCredits, InOwed, InPending, Thread, InRaising, InSweeping,
         InWriting, InTold, InMessage, InStart, tkRow
<1>7. InHooks'
  BY DEF InInv, InboxTypeOK, InHooks, InOwing, InTold, InNone, InCarried, InMessage,
         InStart, tkRow
<1>8. InEscalating'
  BY DEF InInv, InboxTypeOK, InEscalating, InMessage, InStart, tkRow
<1>9. InClosing'
  BY DEF InInv, InboxTypeOK, InClosing, InCopies, InRaising, InSweeping, InWriting, InTold,
         InMessage, InStart, tkRow
<1>10. InMirrored'
  BY DEF InInv, InboxTypeOK, InMirrored, InClosing, InWants, InCopies, InCarried, InTold,
         InNone, InCarrying, InMovable, InRaising, InSweeping, InWriting, InMessage,
         InStart, tkRow
<1> QED
  BY <1>1, <1>2, <1>3, <1>4, <1>5, <1>6, <1>7, <1>8, <1>9, <1>10 DEF InInv

LEMMA InAppendInv == ASSUME InInv, NEW p \in InProcs, InAppend(p) PROVE InInv'
<1>1. InboxTypeOK'
  BY DEF InInv, InboxTypeOK, Thread, ThreadStatus, TicketStatus, InPC, InNone, InNew,
         InAppend, InPut, tkRow
<1>2. InWants'
  BY DEF InInv, InboxTypeOK, InWants, InTold, InCarrying, InNone, TicketStatus, InAppend,
         InPut, tkRow
<1>3. InCopies'
  BY DEF InInv, InboxTypeOK, InCopies, InRaising, InSweeping, InNone, InNew, TicketStatus,
         Thread, ThreadStatus, InAppend, InPut, tkRow
<1>4. InCarried'
  BY DEF InInv, InboxTypeOK, InCarried, InTold, InWants, InNone, InCarrying, TicketStatus,
         InAppend, InPut, tkRow
<1>5. InOff'
  <2>1. PICK next \in {"canned", "respond", "idle"} : InPut(p, inCopy[p], next)
    BY DEF InAppend
  <2>2. inCopy[p] \in Thread
    BY DEF InInv, InboxTypeOK, Thread
  <2> QED
    BY <2>1, <2>2, InPutOff
    DEF InAppend, InInv, InboxTypeOK, Thread, InRaising, InSweeping, InWriting
<1>6. InCredits'
  <2>1. PICK next \in {"canned", "respond", "idle"} : InPut(p, inCopy[p], next)
    BY DEF InAppend
  <2>2. inCopy[p] \in Thread
    BY DEF InInv, InboxTypeOK, Thread
  <2> QED
    BY <2>1, <2>2, InPutCredits
    DEF InAppend, InInv, InboxTypeOK, Thread, InRaising, InSweeping, InWriting, InOwed, InPending
<1>7. InHooks'
  BY DEF InInv, InboxTypeOK, InHooks, InOwing, InTold, InNone, InCarried, InAppend, InPut,
         tkRow
<1>8. InEscalating'
  BY DEF InInv, InboxTypeOK, InEscalating, InAppend, InPut, tkRow
<1>9. InClosing'
  BY DEF InInv, InboxTypeOK, InClosing, InCopies, InRaising, InSweeping, InWriting, InTold,
         InAppend, InPut, tkRow
<1>10. InMirrored'
  BY DEF InInv, InboxTypeOK, InMirrored, InClosing, InWants, InCopies, InCarried, InTold,
         InNone, InCarrying, InMovable, InRaising, InSweeping, InWriting, InAppend, InPut,
         tkRow
<1> QED
  BY <1>1, <1>2, <1>3, <1>4, <1>5, <1>6, <1>7, <1>8, <1>9, <1>10 DEF InInv

LEMMA InCannedInv == ASSUME InInv, NEW p \in InProcs, InCanned(p) PROVE InInv'
<1>1. InboxTypeOK'
  BY DEF InInv, InboxTypeOK, Thread, ThreadStatus, TicketStatus, InPC, InNone, InNew,
         InCanned, InPut, tkRow
<1>2. InWants'
  BY DEF InInv, InboxTypeOK, InWants, InTold, InCarrying, InNone, TicketStatus, InCanned,
         InPut, tkRow
<1>3. InCopies'
  BY DEF InInv, InboxTypeOK, InCopies, InRaising, InSweeping, InNone, InNew, TicketStatus,
         Thread, ThreadStatus, InCanned, InPut, tkRow
<1>4. InCarried'
  BY DEF InInv, InboxTypeOK, InCarried, InTold, InWants, InNone, InCarrying, TicketStatus,
         InCanned, InPut, tkRow
<1>5. InOff'
  <2>1. PICK next \in {"idle"} : InPut(p, [inCopy[p] EXCEPT !.due = FALSE, !.breached = FALSE], next)
    BY DEF InCanned
  <2>2. [inCopy[p] EXCEPT !.due = FALSE, !.breached = FALSE] \in Thread
    BY DEF InInv, InboxTypeOK, Thread
  <2> QED
    BY <2>1, <2>2, InPutOff
    DEF InCanned, InInv, InboxTypeOK, Thread, InRaising, InSweeping, InWriting
<1>6. InCredits'
  BY DEF InInv, InboxTypeOK, InCredits, InOwed, InPending, Thread, InRaising, InSweeping,
         InWriting, InTold, InCanned, InPut, tkRow
<1>7. InHooks'
  BY DEF InInv, InboxTypeOK, InHooks, InOwing, InTold, InNone, InCarried, InCanned, InPut,
         tkRow
<1>8. InEscalating'
  BY DEF InInv, InboxTypeOK, InEscalating, InCanned, InPut, tkRow
<1>9. InClosing'
  BY DEF InInv, InboxTypeOK, InClosing, InCopies, InRaising, InSweeping, InWriting, InTold,
         InCanned, InPut, tkRow
<1>10. InMirrored'
  BY DEF InInv, InboxTypeOK, InMirrored, InClosing, InWants, InCopies, InCarried, InTold,
         InNone, InCarrying, InMovable, InRaising, InSweeping, InWriting, InCanned, InPut,
         tkRow
<1> QED
  BY <1>1, <1>2, <1>3, <1>4, <1>5, <1>6, <1>7, <1>8, <1>9, <1>10 DEF InInv

LEMMA InRespondInv == ASSUME InInv, NEW p \in InProcs, InRespond(p) PROVE InInv'
<1>1. InboxTypeOK'
  <2> DEFINE copy == [inCopy[p] EXCEPT !.due = FALSE, !.breached = FALSE]
  <2>1. copy \in Thread
    BY DEF InInv, InboxTypeOK, Thread
  <2> HIDE DEF copy
  <2>2. PICK next \in {"idle", "ticket", "handoff", "ticket_handoff"} :
          /\ InPut(p, copy, IF next = "ticket_handoff" THEN "ticket" ELSE next)
          /\ inWant' = [inWant EXCEPT ![p] = IF next = "ticket_handoff" THEN "open" ELSE InNone]
    BY DEF InRespond, copy
  <2> QED
    BY <2>1, <2>2, InNewThread DEF InRespond, InInv, InboxTypeOK, InPC, InNone, TicketStatus,
       tkRow, InPut
<1>2. InWants'
  BY DEF InInv, InboxTypeOK, InWants, InTold, InCarrying, InNone, TicketStatus, InRespond,
         InPut, tkRow
<1>3. InCopies'
  BY DEF InInv, InboxTypeOK, InCopies, InRaising, InSweeping, InNone, InNew, TicketStatus,
         Thread, ThreadStatus, InRespond, InPut, tkRow
<1>4. InCarried'
  BY DEF InInv, InboxTypeOK, InCarried, InTold, InWants, InNone, InCarrying, TicketStatus,
         InRespond, InPut, tkRow
<1>5. InOff'
  <2>1. PICK next \in {"idle", "ticket", "handoff"} :
          InPut(p, [inCopy[p] EXCEPT !.due = FALSE, !.breached = FALSE], next)
    BY DEF InRespond
  <2>2. [inCopy[p] EXCEPT !.due = FALSE, !.breached = FALSE] \in Thread
    BY DEF InInv, InboxTypeOK, Thread
  <2> QED
    BY <2>1, <2>2, InPutOff
    DEF InRespond, InInv, InboxTypeOK, Thread, InRaising, InSweeping, InWriting
<1>6. InCredits'
  <2>1. PICK next \in {"idle", "ticket", "handoff"} :
          InPut(p, [inCopy[p] EXCEPT !.due = FALSE, !.breached = FALSE], next)
    BY DEF InRespond
  <2>2. [inCopy[p] EXCEPT !.due = FALSE, !.breached = FALSE] \in Thread
    BY DEF InInv, InboxTypeOK, Thread
  <2> QED
    BY <2>1, <2>2, InPutCredits
    DEF InRespond, InInv, InboxTypeOK, Thread, InRaising, InSweeping, InWriting, InOwed, InPending
<1>7. InHooks'
  <2>1. PICK next \in {"idle", "ticket", "handoff", "ticket_handoff"} :
          /\ inPc' = [inPc EXCEPT ![p] = IF next = "ticket_handoff" THEN "ticket" ELSE next]
          /\ inWant' = [inWant EXCEPT ![p] = IF next = "ticket_handoff" THEN "open" ELSE InNone]
    BY DEF InRespond, InPut
  <2>2. InOwing' = InOwing
    BY <2>1 DEF InRespond, InOwing, InTold, InInv, InboxTypeOK
  <2> QED
    BY <2>2 DEF InRespond, InInv, InHooks
<1>8. InEscalating'
  BY DEF InInv, InboxTypeOK, InEscalating, InRespond, InPut, tkRow
<1>9. InClosing'
  BY DEF InInv, InboxTypeOK, InClosing, InCopies, InRaising, InSweeping, InWriting, InTold,
         InRespond, InPut, tkRow
<1>10. InMirrored'
  BY DEF InInv, InboxTypeOK, InMirrored, InClosing, InWants, InCopies, InCarried, InTold,
         InNone, InCarrying, InMovable, InRaising, InSweeping, InWriting, InRespond, InPut,
         tkRow
<1> QED
  BY <1>1, <1>2, <1>3, <1>4, <1>5, <1>6, <1>7, <1>8, <1>9, <1>10 DEF InInv

LEMMA InTicketInv == ASSUME InInv, NEW p \in InProcs, InTicket(p) PROVE InInv'
<1>1. InboxTypeOK'
  <2>1. [inCopy[p] EXCEPT !.linked = TRUE] \in Thread
    BY DEF InInv, InboxTypeOK, Thread
  <2>2. inCopy' \in [InProcs -> Thread]
    BY <2>1 DEF InTicket, InInv, InboxTypeOK
  <2>3. /\ tkStatus' \in TicketStatus \cup {InNone}
        /\ tkThread' \in BOOLEAN /\ tkBreached' \in BOOLEAN
    BY DEF InTicket, InRaise, InInv, InboxTypeOK, TicketStatus, tkRow
  <2> QED
    BY <2>2, <2>3 DEF InTicket, InInv, InboxTypeOK, InPC, inGhost
<1>2. InWants'
  BY DEF InInv, InboxTypeOK, InWants, InTold, InCarrying, InNone, TicketStatus, InTicket,
         InRaise, tkRow, inGhost
<1>3. InCopies'
  BY DEF InInv, InboxTypeOK, InCopies, InRaising, InSweeping, InNone, InNew, TicketStatus,
         Thread, ThreadStatus, InTicket, InRaise, tkRow, inGhost
<1>4. InCarried'
  BY DEF InInv, InboxTypeOK, InCarried, InTold, InWants, InNone, InCarrying, TicketStatus,
         InTicket, InRaise, tkRow, inGhost
<1>5. InOff'
  BY DEF InInv, InboxTypeOK, InOff, InCopies, InRaising, InSweeping, InWriting, InTold,
         InTicket, InRaise, tkRow, inGhost
<1>6. InCredits'
  BY DEF InInv, InboxTypeOK, InCredits, InOwed, InPending, Thread, InRaising, InSweeping,
         InWriting, InTold, InTicket, InRaise, tkRow, inGhost
<1>7. InHooks'
  BY DEF InInv, InboxTypeOK, InHooks, InOwing, InTold, InNone, InCarried, InTicket,
         InRaise, tkRow, inGhost
<1>8. InEscalating'
  BY DEF InInv, InboxTypeOK, InEscalating, InTicket, InRaise, tkRow, inGhost
<1>9. InClosing'
  <2>1. p \in inFresh => inCopy[p].status # "closed"
    BY DEF InTicket, InInv, InCopies, InRaising, InboxTypeOK
  <2>2. inCopy'[p].status = inCopy[p].status
    BY DEF InTicket, InInv, InboxTypeOK, Thread
  <2>3. \A q \in InProcs \ {p} : inPc'[q] = inPc[q] /\ inCopy'[q] = inCopy[q]
    BY DEF InTicket, InInv, InboxTypeOK
  <2>4. UNCHANGED <<inDoc, inWant, inFresh>>
    BY DEF InTicket, inGhost
  <2> QED
    BY <2>1, <2>2, <2>3, <2>4 DEF InInv, InboxTypeOK, InClosing
<1>10. InMirrored'
  BY DEF InInv, InboxTypeOK, InMirrored, InClosing, InWants, InCopies, InCarried, InTold,
         InNone, InCarrying, InMovable, InRaising, InSweeping, InWriting, InTicket,
         InRaise, tkRow, inGhost
<1> QED
  BY <1>1, <1>2, <1>3, <1>4, <1>5, <1>6, <1>7, <1>8, <1>9, <1>10 DEF InInv

LEMMA InLinkInv == ASSUME InInv, NEW p \in InProcs, InLink(p) PROVE InInv'
<1>1. InboxTypeOK'
  BY DEF InInv, InboxTypeOK, Thread, ThreadStatus, TicketStatus, InPC, InNone, InNew,
         InLink, InPut, tkRow
<1>2. InWants'
  BY DEF InInv, InboxTypeOK, InWants, InTold, InCarrying, InNone, TicketStatus, InLink,
         InPut, tkRow
<1>3. InCopies'
  BY DEF InInv, InboxTypeOK, InCopies, InRaising, InSweeping, InNone, InNew, TicketStatus,
         Thread, ThreadStatus, InLink, InPut, tkRow
<1>4. InCarried'
  BY DEF InInv, InboxTypeOK, InCarried, InTold, InWants, InNone, InCarrying, TicketStatus,
         InLink, InPut, tkRow
<1>5. InOff'
  BY DEF InInv, InboxTypeOK, InOff, InCopies, InRaising, InSweeping, InWriting, InTold,
         InLink, InPut, tkRow
<1>6. InCredits'
  <2>1. PICK next \in {"handoff", "idle"} : InPut(p, inCopy[p], next)
    BY DEF InLink
  <2>2. inCopy[p] \in Thread
    BY DEF InInv, InboxTypeOK, Thread
  <2> QED
    BY <2>1, <2>2, InPutCredits
    DEF InLink, InInv, InboxTypeOK, Thread, InRaising, InSweeping, InWriting, InOwed, InPending
<1>7. InHooks'
  BY DEF InInv, InboxTypeOK, InHooks, InOwing, InTold, InNone, InCarried, InLink, InPut,
         tkRow
<1>8. InEscalating'
  BY DEF InInv, InboxTypeOK, InEscalating, InLink, InPut, tkRow
<1>9. InClosing'
  BY DEF InInv, InboxTypeOK, InClosing, InCopies, InRaising, InSweeping, InWriting, InTold,
         InLink, InPut, tkRow
<1>10. InMirrored'
  BY DEF InInv, InboxTypeOK, InMirrored, InClosing, InWants, InCopies, InCarried, InTold,
         InNone, InCarrying, InMovable, InRaising, InSweeping, InWriting, InLink, InPut,
         tkRow
<1> QED
  BY <1>1, <1>2, <1>3, <1>4, <1>5, <1>6, <1>7, <1>8, <1>9, <1>10 DEF InInv

LEMMA InHandoffInv == ASSUME InInv, NEW p \in InProcs, InHandoff(p) PROVE InInv'
<1>1. InboxTypeOK'
  <2> DEFINE copy == [inCopy[p] EXCEPT !.ai = FALSE, !.status = "waiting", !.due = TRUE,
                                       !.callback = (inWant[p] = "open")]
  <2>1. copy \in Thread
    BY DEF InInv, InboxTypeOK, Thread, ThreadStatus
  <2> HIDE DEF copy
  <2>2. InPut(p, copy, "idle")
    BY DEF InHandoff, copy
  <2> QED
    BY <2>1, <2>2, InNewThread
    DEF InHandoff, InInv, InboxTypeOK, InPC, InNone, TicketStatus, tkRow, InPut
<1>2. InWants'
  BY DEF InInv, InboxTypeOK, InWants, InTold, InCarrying, InNone, TicketStatus, InHandoff,
         InPut, tkRow
<1>3. InCopies'
  BY DEF InInv, InboxTypeOK, InCopies, InRaising, InSweeping, InNone, InNew, TicketStatus,
         Thread, ThreadStatus, InHandoff, InPut, tkRow
<1>4. InCarried'
  BY DEF InInv, InboxTypeOK, InCarried, InTold, InWants, InNone, InCarrying, TicketStatus,
         InHandoff, InPut, tkRow
<1>5. InOff'
  BY DEF InInv, InboxTypeOK, InOff, InCopies, InRaising, InSweeping, InWriting, InTold,
         InHandoff, InPut, tkRow
<1>6. InCredits'
  BY DEF InInv, InboxTypeOK, InCredits, InOwed, InPending, Thread, InRaising, InSweeping,
         InWriting, InTold, InHandoff, InPut, tkRow
<1>7. InHooks'
  BY DEF InInv, InboxTypeOK, InHooks, InOwing, InTold, InNone, InCarried, InHandoff, InPut,
         tkRow
<1>8. InEscalating'
  BY DEF InInv, InboxTypeOK, InEscalating, InHandoff, InPut, tkRow
<1>9. InClosing'
  BY DEF InInv, InboxTypeOK, InClosing, InCopies, InRaising, InSweeping, InWriting, InTold,
         InHandoff, InPut, tkRow
<1>10. InMirrored'
  BY DEF InInv, InboxTypeOK, InMirrored, InClosing, InWants, InCopies, InCarried, InTold,
         InNone, InCarrying, InMovable, InRaising, InSweeping, InWriting, InHandoff, InPut,
         tkRow
<1> QED
  BY <1>1, <1>2, <1>3, <1>4, <1>5, <1>6, <1>7, <1>8, <1>9, <1>10 DEF InInv

LEMMA InReplyInv == ASSUME InInv, NEW p \in InProcs, InReply(p) PROVE InInv'
<1>1. InboxTypeOK'
  <2> DEFINE copy == [inDoc EXCEPT !.ai = FALSE, !.status = "open", !.due = FALSE,
                                    !.breached = FALSE]
  <2>1. copy \in Thread
    BY InNewThread DEF InInv, InboxTypeOK, Thread, ThreadStatus, InChanged
  <2> HIDE DEF copy
  <2>2. InStart(p, copy, "claimed", "reply")
    BY DEF InReply, copy
  <2> QED
    BY <2>1, <2>2 DEF InInv, InboxTypeOK, InPC, InNone, TicketStatus, tkRow, InStart, InAsks
<1>2. InWants'
  BY DEF InInv, InboxTypeOK, InWants, InTold, InCarrying, InNone, TicketStatus, InReply,
         InStart, tkRow
<1>3. InCopies'
  BY DEF InInv, InboxTypeOK, InCopies, InRaising, InSweeping, InNone, InNew, TicketStatus,
         Thread, ThreadStatus, InReply, InStart, tkRow
<1>4. InCarried'
  BY DEF InInv, InboxTypeOK, InCarried, InTold, InWants, InNone, InCarrying, TicketStatus,
         InReply, InStart, tkRow
<1>5. InOff'
  BY DEF InInv, InboxTypeOK, InOff, InCopies, InRaising, InSweeping, InWriting, InTold,
         InReply, InStart, tkRow
<1>6. InCredits'
  BY DEF InInv, InboxTypeOK, InCredits, InOwed, InPending, Thread, InRaising, InSweeping,
         InWriting, InTold, InReply, InStart, tkRow
<1>7. InHooks'
  BY DEF InInv, InboxTypeOK, InHooks, InOwing, InTold, InNone, InCarried, InReply, InStart,
         tkRow
<1>8. InEscalating'
  BY DEF InInv, InboxTypeOK, InEscalating, InReply, InStart, tkRow
<1>9. InClosing'
  BY DEF InInv, InboxTypeOK, InClosing, InCopies, InRaising, InSweeping, InWriting, InTold,
         InReply, InStart, tkRow
<1>10. InMirrored'
  BY DEF InInv, InboxTypeOK, InMirrored, InClosing, InWants, InCopies, InCarried, InTold,
         InNone, InCarrying, InMovable, InRaising, InSweeping, InWriting, InReply, InStart,
         tkRow
<1> QED
  BY <1>1, <1>2, <1>3, <1>4, <1>5, <1>6, <1>7, <1>8, <1>9, <1>10 DEF InInv

LEMMA InSaveInv == ASSUME InInv, NEW p \in InProcs, InSave(p) PROVE InInv'
<1>1. InboxTypeOK'
  BY DEF InInv, InboxTypeOK, Thread, ThreadStatus, TicketStatus, InPC, InNone, InNew,
         InSave, InPut, tkRow
<1>2. InWants'
  BY DEF InInv, InboxTypeOK, InWants, InTold, InCarrying, InNone, TicketStatus, InSave,
         InPut, tkRow
<1>3. InCopies'
  BY DEF InInv, InboxTypeOK, InCopies, InRaising, InSweeping, InNone, InNew, TicketStatus,
         Thread, ThreadStatus, InSave, InPut, tkRow
<1>4. InCarried'
  BY DEF InInv, InboxTypeOK, InCarried, InTold, InWants, InNone, InCarrying, TicketStatus,
         InSave, InPut, tkRow
<1>5. InOff'
  BY DEF InInv, InboxTypeOK, InOff, InCopies, InRaising, InSweeping, InWriting, InTold,
         InSave, InPut, tkRow
<1>6. InCredits'
  BY DEF InInv, InboxTypeOK, InCredits, InOwed, InPending, Thread, InRaising, InSweeping,
         InWriting, InTold, InSave, InPut, tkRow
<1>7. InHooks'
  BY DEF InInv, InboxTypeOK, InHooks, InOwing, InTold, InNone, InCarried, InSave, InPut,
         tkRow
<1>8. InEscalating'
  BY DEF InInv, InboxTypeOK, InEscalating, InSave, InPut, tkRow
<1>9. InClosing'
  BY DEF InInv, InboxTypeOK, InClosing, InCopies, InRaising, InSweeping, InWriting, InTold,
         InSave, InPut, tkRow
<1>10. InMirrored'
  BY DEF InInv, InboxTypeOK, InMirrored, InClosing, InWants, InCopies, InCarried, InTold,
         InNone, InCarrying, InMovable, InRaising, InSweeping, InWriting, InSave, InPut,
         tkRow
<1> QED
  BY <1>1, <1>2, <1>3, <1>4, <1>5, <1>6, <1>7, <1>8, <1>9, <1>10 DEF InInv

LEMMA InSyncInv == ASSUME InInv, NEW p \in InProcs, InSync(p) PROVE InInv'
<1>1. InboxTypeOK'
  <2> QED
    BY InNewThread
    DEF InSync, InEnd, InInv, InboxTypeOK, InPC, InNone, TicketStatus, tkRow
<1>2. InWants'
  BY DEF InInv, InboxTypeOK, InWants, InTold, InCarrying, InNone, TicketStatus, InSync,
         InEnd, InMovable, tkRow
<1>3. InCopies'
  BY DEF InInv, InboxTypeOK, InCopies, InRaising, InSweeping, InNone, InNew, TicketStatus,
         Thread, ThreadStatus, InSync, InEnd, InMovable, tkRow
<1>4. InCarried'
  BY DEF InInv, InboxTypeOK, InCarried, InTold, InWants, InNone, InCarrying, TicketStatus,
         InSync, InEnd, InMovable, tkRow
<1>5. InOff'
  BY DEF InInv, InboxTypeOK, InOff, InCopies, InRaising, InSweeping, InWriting, InTold,
         InSync, InEnd, InMovable, tkRow
<1>6. InCredits'
  <2>1. \A q \in InProcs : inPc[q] \in InSweeping \/ inPc'[q] \in InSweeping =>
          q # p /\ inPc'[q] = inPc[q] /\ inCopy'[q] = inCopy[q]
    BY DEF InSync, InEnd, InInv, InboxTypeOK, InSweeping
  <2>2. \A q \in inFresh' : inPc'[q] \in InWriting =>
          q \in inFresh /\ q # p /\ inPc'[q] = inPc[q] /\ inCopy'[q] = inCopy[q]
    BY DEF InSync, InEnd, InInv, InboxTypeOK, InWriting, InRaising, InSweeping
  <2>3. ASSUME NEW doc, InOwed(doc) PROVE InOwed(doc)'
    BY <2>1, <2>3 DEF InOwed, InPending, InSweeping, InSync
  <2>4. ASSUME ~inTorn
        PROVE  \A q \in inFresh' : inPc'[q] \in InWriting => InOwed(inCopy[q])'
    BY <2>2, <2>1, <2>4 DEF InInv, InCredits, InOwed, InPending, InSync, InSweeping
  <2>5. InOwed(inDoc) => InOwed(inDoc)'
    BY <2>1 DEF InOwed, InPending, InSweeping, InSync
  <2> QED
    BY <2>1, <2>4, <2>5 DEF InSync, InInv, InCredits
<1>7. InHooks'
  BY DEF InInv, InboxTypeOK, InHooks, InOwing, InTold, InNone, InCarried, InSync, InEnd,
         InMovable, tkRow
<1>8. InEscalating'
  BY DEF InInv, InboxTypeOK, InEscalating, InSync, InEnd, InMovable, tkRow
<1>9. InClosing'
  BY DEF InInv, InboxTypeOK, InClosing, InCopies, InRaising, InSweeping, InWriting, InTold,
         InSync, InEnd, InMovable, tkRow
<1>10. InMirrored'
  BY DEF InInv, InboxTypeOK, InMirrored, InClosing, InWants, InCopies, InCarried, InTold,
         InNone, InCarrying, InMovable, InRaising, InSweeping, InWriting, InSync, InEnd,
         tkRow
<1> QED
  BY <1>1, <1>2, <1>3, <1>4, <1>5, <1>6, <1>7, <1>8, <1>9, <1>10 DEF InInv

LEMMA InUpdateInv ==
  ASSUME InInv, NEW p \in InProcs, NEW change \in {"close", "reopen", "assign", "resume",
         "note"}, InUpdate(p, change)
  PROVE  InInv'
<1>1. InboxTypeOK'
  <2> DEFINE copy == InChanged(inDoc, change)
  <2>1. copy \in Thread
    BY InNewThread DEF InInv, InboxTypeOK, Thread, ThreadStatus, InChanged
  <2> HIDE DEF copy
  <2>2. InStart(p, copy, InAsks(inDoc, change), "save")
    BY DEF InUpdate, copy
  <2> QED
    BY <2>1, <2>2 DEF InInv, InboxTypeOK, InPC, InNone, TicketStatus, tkRow, InStart, InAsks
<1>2. InWants'
  BY DEF InInv, InboxTypeOK, InWants, InTold, InCarrying, InNone, TicketStatus, InUpdate,
         InStart, InChanged, InAsks, tkRow
<1>3. InCopies'
  BY DEF InInv, InboxTypeOK, InCopies, InRaising, InSweeping, InNone, InNew, TicketStatus,
         Thread, ThreadStatus, InUpdate, InStart, InChanged, InAsks, tkRow
<1>4. InCarried'
  BY DEF InInv, InboxTypeOK, InCarried, InTold, InWants, InNone, InCarrying, TicketStatus,
         InUpdate, InStart, InChanged, InAsks, tkRow
<1>5. InOff'
  BY DEF InInv, InboxTypeOK, InOff, InCopies, InRaising, InSweeping, InWriting, InTold,
         InUpdate, InStart, InChanged, InAsks, tkRow
<1>6. InCredits'
  BY DEF InInv, InboxTypeOK, InCredits, InOwed, InPending, Thread, InRaising, InSweeping,
         InWriting, InTold, InUpdate, InStart, InChanged, InAsks, tkRow
<1>7. InHooks'
  BY DEF InInv, InboxTypeOK, InHooks, InOwing, InTold, InNone, InCarried, InUpdate,
         InStart, InChanged, InAsks, tkRow
<1>8. InEscalating'
  BY DEF InInv, InboxTypeOK, InEscalating, InUpdate, InStart, InChanged, InAsks, tkRow
<1>9. InClosing'
  BY DEF InInv, InboxTypeOK, InClosing, InCopies, InRaising, InSweeping, InWriting, InTold,
         InUpdate, InStart, InChanged, InAsks, tkRow
<1>10. InMirrored'
  BY DEF InInv, InboxTypeOK, InMirrored, InClosing, InWants, InCopies, InCarried, InTold,
         InNone, InCarrying, InMovable, InRaising, InSweeping, InWriting, InUpdate,
         InStart, InChanged, InAsks, tkRow
<1> QED
  BY <1>1, <1>2, <1>3, <1>4, <1>5, <1>6, <1>7, <1>8, <1>9, <1>10 DEF InInv

LEMMA InTkReadInv ==
  ASSUME InInv, NEW p \in InProcs, NEW want \in TicketStatus, TkRead(p, want)
  PROVE  InInv'
<1>1. InboxTypeOK'
  BY DEF InInv, InboxTypeOK, Thread, ThreadStatus, TicketStatus, InPC, InNone, InNew,
         TkRead, inGhost, tkRow
<1>2. InWants'
  BY DEF InInv, InboxTypeOK, InWants, InTold, InCarrying, InNone, TicketStatus, TkRead,
         inGhost, tkRow
<1>3. InCopies'
  BY DEF InInv, InboxTypeOK, InCopies, InRaising, InSweeping, InNone, InNew, TicketStatus,
         Thread, ThreadStatus, TkRead, inGhost, tkRow
<1>4. InCarried'
  BY DEF InInv, InboxTypeOK, InCarried, InTold, InWants, InNone, InCarrying, TicketStatus,
         TkRead, inGhost, tkRow
<1>5. InOff'
  BY DEF InInv, InboxTypeOK, InOff, InCopies, InRaising, InSweeping, InWriting, InTold,
         TkRead, inGhost, tkRow
<1>6. InCredits'
  BY DEF InInv, InboxTypeOK, InCredits, InOwed, InPending, Thread, InRaising, InSweeping,
         InWriting, InTold, TkRead, inGhost, tkRow
<1>7. InHooks'
  BY DEF InInv, InboxTypeOK, InHooks, InOwing, InTold, InNone, InCarried, TkRead, inGhost,
         tkRow
<1>8. InEscalating'
  BY DEF InInv, InboxTypeOK, InEscalating, TkRead, inGhost, tkRow
<1>9. InClosing'
  BY DEF InInv, InboxTypeOK, InClosing, InCopies, InRaising, InSweeping, InWriting, InTold,
         TkRead, inGhost, tkRow
<1>10. InMirrored'
  BY DEF InInv, InboxTypeOK, InMirrored, InClosing, InWants, InCopies, InCarried, InTold,
         InNone, InCarrying, InMovable, InRaising, InSweeping, InWriting, TkRead, inGhost,
         tkRow
<1> QED
  BY <1>1, <1>2, <1>3, <1>4, <1>5, <1>6, <1>7, <1>8, <1>9, <1>10 DEF InInv

LEMMA InTkWriteInv == ASSUME InInv, NEW p \in InProcs, TkWrite(p) PROVE InInv'
<1>1. InboxTypeOK'
  BY DEF InInv, InboxTypeOK, Thread, ThreadStatus, TicketStatus, InPC, InNone, InNew,
         TkWrite, tkRow
<1>2. InWants'
  BY DEF InInv, InboxTypeOK, InWants, InTold, InCarrying, InNone, TicketStatus, TkWrite,
         tkRow
<1>3. InCopies'
  <2>1. tkStatus' # InNone
    BY DEF TkWrite, InInv, InboxTypeOK, InWants
  <2>2. \A q \in InProcs : inPc'[q] # inPc[q] => inPc'[q] \in {"mirror", "hook"}
    BY DEF TkWrite, InInv, InboxTypeOK
  <2> QED
    BY <2>1, <2>2 DEF TkWrite, InInv, InboxTypeOK, InCopies, InRaising, InSweeping
<1>4. InCarried'
  BY DEF InInv, InboxTypeOK, InCarried, InTold, InWants, InNone, InCarrying, TicketStatus,
         TkWrite, tkRow
<1>5. InOff'
  BY DEF InInv, InboxTypeOK, InOff, InCopies, InRaising, InSweeping, InWriting, InTold,
         TkWrite, tkRow
<1>6. InCredits'
  BY DEF InInv, InboxTypeOK, InCredits, InOwed, InPending, Thread, InRaising, InSweeping,
         InWriting, InTold, TkWrite, tkRow
<1>7. InHooks'
  <2>1. inPc' = [inPc EXCEPT ![p] = inPc'[p]] /\ inPc'[p] \in InTold /\ inPc[p] \notin InTold
    BY DEF TkWrite, InInv, InboxTypeOK, InTold
  <2>2. IsFiniteSet(InOwing)
    BY DEF InInv, InHooks
  <2>3. CASE inWant[p] = "resolved" /\ inBefore[p] # "resolved"
    <3>1. InOwing' = InOwing \cup {p} /\ p \notin InOwing
      BY <2>1, <2>3 DEF TkWrite, InOwing, InInv, InboxTypeOK
    <3>2. IsFiniteSet(InOwing') /\ Cardinality(InOwing') = Cardinality(InOwing) + 1
      BY <3>1, <2>2, FS_AddElement
    <3>3. ~tkStale' => ~tkStale /\ tkOwed' = tkOwed + 1
      BY <2>3 DEF TkWrite, InInv, InboxTypeOK
    <3> QED
      BY <3>2, <3>3 DEF InInv, InHooks
  <2>4. CASE ~(inWant[p] = "resolved" /\ inBefore[p] # "resolved")
    <3>1. InOwing' = InOwing
      BY <2>1, <2>4 DEF TkWrite, InOwing, InInv, InboxTypeOK
    <3>2. ~tkStale' => ~tkStale /\ tkOwed' = tkOwed
      BY <2>4 DEF TkWrite, InInv, InboxTypeOK
    <3> QED
      BY <3>1, <3>2 DEF InInv, InHooks
  <2> QED
    BY <2>3, <2>4
<1>8. InEscalating'
  BY DEF InInv, InboxTypeOK, InEscalating, TkWrite, tkRow
<1>9. InClosing'
  BY DEF InInv, InboxTypeOK, InClosing, InCopies, InRaising, InSweeping, InWriting, InTold,
         TkWrite, tkRow
<1>10. InMirrored'
  BY DEF InInv, InboxTypeOK, InMirrored, InClosing, InWants, InCopies, InCarried, InTold,
         InNone, InCarrying, InMovable, InRaising, InSweeping, InWriting, TkWrite, tkRow
<1> QED
  BY <1>1, <1>2, <1>3, <1>4, <1>5, <1>6, <1>7, <1>8, <1>9, <1>10 DEF InInv

LEMMA InTkMirrorInv == ASSUME InInv, NEW p \in InProcs, TkMirror(p) PROVE InInv'
<1>1. InboxTypeOK'
  BY DEF InInv, InboxTypeOK, Thread, ThreadStatus, TicketStatus, InPC, InNone, InNew,
         TkMirror, inGhost, tkRow
<1>2. InWants'
  BY DEF InInv, InboxTypeOK, InWants, InTold, InCarrying, InNone, TicketStatus, TkMirror,
         inGhost, tkRow
<1>3. InCopies'
  BY DEF InInv, InboxTypeOK, InCopies, InRaising, InSweeping, InNone, InNew, TicketStatus,
         Thread, ThreadStatus, TkMirror, inGhost, tkRow
<1>4. InCarried'
  BY DEF InInv, InboxTypeOK, InCarried, InTold, InWants, InNone, InCarrying, TicketStatus,
         TkMirror, inGhost, tkRow
<1>5. InOff'
  BY DEF InInv, InboxTypeOK, InOff, InCopies, InRaising, InSweeping, InWriting, InTold,
         TkMirror, inGhost, tkRow
<1>6. InCredits'
  BY DEF InInv, InboxTypeOK, InCredits, InOwed, InPending, Thread, InRaising, InSweeping,
         InWriting, InTold, TkMirror, inGhost, tkRow
<1>7. InHooks'
  BY DEF InInv, InboxTypeOK, InHooks, InOwing, InTold, InNone, InCarried, TkMirror,
         inGhost, tkRow
<1>8. InEscalating'
  BY DEF InInv, InboxTypeOK, InEscalating, TkMirror, inGhost, tkRow
<1>9. InClosing'
  BY DEF InInv, InboxTypeOK, InClosing, InCopies, InRaising, InSweeping, InWriting, InTold,
         TkMirror, inGhost, tkRow
<1>10. InMirrored'
  BY DEF InInv, InboxTypeOK, InMirrored, InClosing, InWants, InCopies, InCarried, InTold,
         InNone, InCarrying, InMovable, InRaising, InSweeping, InWriting, TkMirror,
         inGhost, tkRow
<1> QED
  BY <1>1, <1>2, <1>3, <1>4, <1>5, <1>6, <1>7, <1>8, <1>9, <1>10 DEF InInv

LEMMA InReflectInv == ASSUME InInv, NEW p \in InProcs, InReflect(p) PROVE InInv'
<1>1. InboxTypeOK'
  <2>1. InChanged(inDoc, inPc[p]) \in Thread
    BY DEF InChanged, InInv, InboxTypeOK, Thread, ThreadStatus
  <2> QED
    BY <2>1 DEF InReflect, InInv, InboxTypeOK, InPC, tkRow
<1>2. InWants'
  BY DEF InInv, InboxTypeOK, InWants, InTold, InCarrying, InNone, TicketStatus, InReflect,
         InChanged, tkRow
<1>3. InCopies'
  <2>1. /\ inCopy'[p] = InChanged(inDoc, inPc[p])
        /\ \A q \in InProcs \ {p} : inCopy'[q] = inCopy[q] /\ inPc'[q] = inPc[q]
        /\ inPc'[p] = "reflect"
    BY DEF InReflect, InInv, InboxTypeOK
  <2>2. InChanged(inDoc, inPc[p]).linked = inDoc.linked
    BY DEF InReflect, InChanged, InInv, InboxTypeOK, Thread
  <2>3. inWant[p] = "open" => inPc[p] = "reopen"
    BY DEF InReflect, InInv, InWants
  <2>4. inPc[p] = "reopen" => InChanged(inDoc, inPc[p]).status = "open"
    BY DEF InChanged, InInv, InboxTypeOK, Thread
  <2>5. UNCHANGED <<inDoc, tkStatus, inWant, inBefore>>
    BY DEF InReflect, tkRow
  <2> QED
    BY <2>1, <2>2, <2>3, <2>4, <2>5 DEF InInv, InCopies, InRaising, InSweeping
<1>4. InCarried'
  BY DEF InInv, InboxTypeOK, InCarried, InTold, InWants, InNone, InCarrying, TicketStatus,
         InReflect, InChanged, tkRow
<1>5. InOff'
  BY DEF InInv, InboxTypeOK, InOff, InCopies, InRaising, InSweeping, InWriting, InTold,
         InReflect, InChanged, tkRow
<1>6. InCredits'
  BY DEF InInv, InboxTypeOK, InCredits, InOwed, InPending, Thread, InRaising, InSweeping,
         InWriting, InTold, InReflect, InChanged, tkRow
<1>7. InHooks'
  BY DEF InInv, InboxTypeOK, InHooks, InOwing, InTold, InNone, InCarried, InReflect,
         InChanged, tkRow
<1>8. InEscalating'
  BY DEF InInv, InboxTypeOK, InEscalating, InReflect, InChanged, tkRow
<1>9. InClosing'
  <2>1. /\ inCopy'[p] = InChanged(inDoc, inPc[p])
        /\ \A q \in InProcs \ {p} : inCopy'[q] = inCopy[q] /\ inPc'[q] = inPc[q]
        /\ inPc'[p] = "reflect"
    BY DEF InReflect, InInv, InboxTypeOK
  <2>2. InChanged(inDoc, inPc[p]).linked = inDoc.linked
    BY DEF InReflect, InChanged, InInv, InboxTypeOK, Thread
  <2>3. InChanged(inDoc, inPc[p]).status = "closed" => inDoc.status = "closed" \/ inPc[p] = "close"
    BY DEF InReflect, InChanged, InInv, InboxTypeOK, Thread
  <2>4. inPc[p] = "close" => inWant[p] \in {"resolved", "cancelled"}
    BY DEF InInv, InWants
  <2>5. UNCHANGED <<inDoc, inWant>> /\ inFresh' = inFresh \cup {p}
    BY DEF InReflect
  <2> QED
    BY <2>1, <2>2, <2>3, <2>4, <2>5 DEF InInv, InboxTypeOK, InClosing
<1>10. InMirrored'
  BY DEF InInv, InboxTypeOK, InMirrored, InClosing, InWants, InCopies, InCarried, InTold,
         InNone, InCarrying, InMovable, InRaising, InSweeping, InWriting, InReflect,
         InChanged, tkRow
<1> QED
  BY <1>1, <1>2, <1>3, <1>4, <1>5, <1>6, <1>7, <1>8, <1>9, <1>10 DEF InInv

LEMMA InReflectSaveInv == ASSUME InInv, NEW p \in InProcs, InReflectSave(p) PROVE InInv'
<1>1. InboxTypeOK'
  BY DEF InInv, InboxTypeOK, Thread, ThreadStatus, TicketStatus, InPC, InNone, InNew,
         InReflectSave, InPut, tkRow
<1>2. InWants'
  BY DEF InInv, InboxTypeOK, InWants, InTold, InCarrying, InNone, TicketStatus,
         InReflectSave, InPut, tkRow
<1>3. InCopies'
  BY DEF InInv, InboxTypeOK, InCopies, InRaising, InSweeping, InNone, InNew, TicketStatus,
         Thread, ThreadStatus, InReflectSave, InPut, tkRow
<1>4. InCarried'
  BY DEF InInv, InboxTypeOK, InCarried, InTold, InWants, InNone, InCarrying, TicketStatus,
         InReflectSave, InPut, tkRow
<1>5. InOff'
  BY DEF InInv, InboxTypeOK, InOff, InCopies, InRaising, InSweeping, InWriting, InTold,
         InReflectSave, InPut, tkRow
<1>6. InCredits'
  BY DEF InInv, InboxTypeOK, InCredits, InOwed, InPending, Thread, InRaising, InSweeping,
         InWriting, InTold, InReflectSave, InPut, tkRow
<1>7. InHooks'
  BY DEF InInv, InboxTypeOK, InHooks, InOwing, InTold, InNone, InCarried, InReflectSave,
         InPut, tkRow
<1>8. InEscalating'
  BY DEF InInv, InboxTypeOK, InEscalating, InReflectSave, InPut, tkRow
<1>9. InClosing'
  BY DEF InInv, InboxTypeOK, InClosing, InCopies, InRaising, InSweeping, InWriting, InTold,
         InReflectSave, InPut, tkRow
<1>10. InMirrored'
  BY DEF InInv, InboxTypeOK, InMirrored, InClosing, InWants, InCopies, InCarried, InTold,
         InNone, InCarrying, InMovable, InRaising, InSweeping, InWriting, InReflectSave,
         InPut, tkRow
<1> QED
  BY <1>1, <1>2, <1>3, <1>4, <1>5, <1>6, <1>7, <1>8, <1>9, <1>10 DEF InInv

LEMMA InTkHookInv == ASSUME InInv, NEW p \in InProcs, TkHook(p) PROVE InInv'
<1>1. InboxTypeOK'
  BY DEF InInv, InboxTypeOK, Thread, ThreadStatus, TicketStatus, InPC, InNone, InNew,
         TkHook, InEnd, tkRow
<1>2. InWants'
  BY DEF InInv, InboxTypeOK, InWants, InTold, InCarrying, InNone, TicketStatus, TkHook,
         InEnd, tkRow
<1>3. InCopies'
  BY DEF InInv, InboxTypeOK, InCopies, InRaising, InSweeping, InNone, InNew, TicketStatus,
         Thread, ThreadStatus, TkHook, InEnd, tkRow
<1>4. InCarried'
  BY DEF InInv, InboxTypeOK, InCarried, InTold, InWants, InNone, InCarrying, TicketStatus,
         TkHook, InEnd, tkRow
<1>5. InOff'
  BY DEF InInv, InboxTypeOK, InOff, InCopies, InRaising, InSweeping, InWriting, InTold,
         TkHook, InEnd, tkRow
<1>6. InCredits'
  BY DEF InInv, InboxTypeOK, InCredits, InOwed, InPending, Thread, InRaising, InSweeping,
         InWriting, InTold, TkHook, InEnd, tkRow
<1>7. InHooks'
  <2>1. inPc'[p] \notin InTold /\ inPc[p] \in InTold
    BY DEF TkHook, InEnd, InInv, InboxTypeOK, InTold
  <2>2. IsFiniteSet(InOwing) /\ Cardinality(InOwing) \in Nat
    BY FS_CardinalityType DEF InInv, InHooks
  <2>3. CASE inWant[p] = "resolved" /\ inBefore[p] # "resolved"
    <3>1. InOwing' = InOwing \ {p} /\ p \in InOwing
      BY <2>1, <2>3 DEF TkHook, InEnd, InOwing, InInv, InboxTypeOK
    <3>2. IsFiniteSet(InOwing') /\ Cardinality(InOwing') = Cardinality(InOwing) - 1
      BY <3>1, <2>2, FS_RemoveElement
    <3> QED
      BY <3>2, <2>2, <2>3 DEF TkHook, InInv, InHooks
  <2>4. CASE ~(inWant[p] = "resolved" /\ inBefore[p] # "resolved")
    <3>1. InOwing' = InOwing
      BY <2>1, <2>4 DEF TkHook, InEnd, InOwing, InInv, InboxTypeOK
    <3> QED
      BY <3>1, <2>4 DEF TkHook, InInv, InHooks
  <2> QED
    BY <2>3, <2>4
<1>8. InEscalating'
  BY DEF InInv, InboxTypeOK, InEscalating, TkHook, InEnd, tkRow
<1>9. InClosing'
  BY DEF InInv, InboxTypeOK, InClosing, InCopies, InRaising, InSweeping, InWriting, InTold,
         TkHook, InEnd, tkRow
<1>10. InMirrored'
  BY DEF InInv, InboxTypeOK, InMirrored, InClosing, InWants, InCopies, InCarried, InTold,
         InNone, InCarrying, InMovable, InRaising, InSweeping, InWriting, TkHook, InEnd,
         tkRow
<1> QED
  BY <1>1, <1>2, <1>3, <1>4, <1>5, <1>6, <1>7, <1>8, <1>9, <1>10 DEF InInv

LEMMA InSweepInv == ASSUME InInv, NEW p \in InProcs, InSweep(p) PROVE InInv'
<1>1. InboxTypeOK'
  <2> DEFINE copy == [inDoc EXCEPT !.breached = TRUE]
  <2>1. copy \in Thread
    BY InNewThread DEF InInv, InboxTypeOK, Thread, ThreadStatus, InChanged
  <2> HIDE DEF copy
  <2>2. InStart(p, copy, InNone, "sweep")
    BY DEF InSweep, copy
  <2> QED
    BY <2>1, <2>2 DEF InInv, InboxTypeOK, InPC, InNone, TicketStatus, tkRow, InStart, InAsks
<1>2. InWants'
  BY DEF InInv, InboxTypeOK, InWants, InTold, InCarrying, InNone, TicketStatus, InSweep,
         InStart, tkRow
<1>3. InCopies'
  BY DEF InInv, InboxTypeOK, InCopies, InRaising, InSweeping, InNone, InNew, TicketStatus,
         Thread, ThreadStatus, InSweep, InStart, tkRow
<1>4. InCarried'
  BY DEF InInv, InboxTypeOK, InCarried, InTold, InWants, InNone, InCarrying, TicketStatus,
         InSweep, InStart, tkRow
<1>5. InOff'
  BY DEF InInv, InboxTypeOK, InOff, InCopies, InRaising, InSweeping, InWriting, InTold,
         InSweep, InStart, tkRow
<1>6. InCredits'
  BY DEF InInv, InboxTypeOK, InCredits, InOwed, InPending, Thread, InRaising, InSweeping,
         InWriting, InTold, InSweep, InStart, tkRow
<1>7. InHooks'
  BY DEF InInv, InboxTypeOK, InHooks, InOwing, InTold, InNone, InCarried, InSweep, InStart,
         tkRow
<1>8. InEscalating'
  BY DEF InInv, InboxTypeOK, InEscalating, InSweep, InStart, tkRow
<1>9. InClosing'
  BY DEF InInv, InboxTypeOK, InClosing, InCopies, InRaising, InSweeping, InWriting, InTold,
         InSweep, InStart, tkRow
<1>10. InMirrored'
  BY DEF InInv, InboxTypeOK, InMirrored, InClosing, InWants, InCopies, InCarried, InTold,
         InNone, InCarrying, InMovable, InRaising, InSweeping, InWriting, InSweep, InStart,
         tkRow
<1> QED
  BY <1>1, <1>2, <1>3, <1>4, <1>5, <1>6, <1>7, <1>8, <1>9, <1>10 DEF InInv

LEMMA InSweepRaiseInv == ASSUME InInv, NEW p \in InProcs, InSweepRaise(p) PROVE InInv'
<1>1. InboxTypeOK'
  <2>1. inCopy' \in [InProcs -> Thread]
    <3>1. [[inCopy[p] EXCEPT !.callback = TRUE] EXCEPT !.linked = TRUE] \in Thread
      BY DEF InInv, InboxTypeOK, Thread
    <3> QED
      BY <3>1 DEF InSweepRaise, InInv, InboxTypeOK, tkRow, Thread
  <2>2. InRaise(TRUE) \/ UNCHANGED tkRow
    BY DEF InSweepRaise
  <2>3. /\ tkStatus' \in TicketStatus \cup {InNone}
        /\ tkThread' \in BOOLEAN /\ tkBreached' \in BOOLEAN
    BY <2>2 DEF InRaise, InInv, InboxTypeOK, TicketStatus, tkRow
  <2>4. inCredit' \in Int
    <3>1. inCredit' = inCredit \/ inCredit' = inCredit - 1
      BY DEF InSweepRaise
    <3> QED
      BY <3>1 DEF InInv, InboxTypeOK
  <2> QED
    BY <2>1, <2>3, <2>4 DEF InSweepRaise, InInv, InboxTypeOK, InPC
<1>2. InWants'
  BY DEF InInv, InboxTypeOK, InWants, InTold, InCarrying, InNone, TicketStatus,
         InSweepRaise, InRaise, tkRow
<1>3. InCopies'
  BY DEF InInv, InboxTypeOK, InCopies, InRaising, InSweeping, InNone, InNew, TicketStatus,
         Thread, ThreadStatus, InSweepRaise, InRaise, tkRow
<1>4. InCarried'
  BY DEF InInv, InboxTypeOK, InCarried, InTold, InWants, InNone, InCarrying, TicketStatus,
         InSweepRaise, InRaise, tkRow
<1>5. InOff'
  <2>1. \/ inCopy' = inCopy
        \/ inCopy' = [inCopy EXCEPT ![p].callback = TRUE, ![p].linked = TRUE]
    BY DEF InSweepRaise
  <2>2. \A q \in InProcs : inCopy'[q].ai = inCopy[q].ai
    BY <2>1 DEF InInv, InboxTypeOK, Thread
  <2>3. \A q \in InProcs : inPc'[q] \in InWriting \ {"save"} => inPc[q] \in InWriting \ {"save"}
    BY DEF InSweepRaise, InInv, InboxTypeOK, InWriting, InRaising, InSweeping
  <2> QED
    BY <2>2, <2>3 DEF InSweepRaise, InInv, InboxTypeOK, InOff
<1>6. InCredits'
  BY DEF InInv, InboxTypeOK, InCredits, InOwed, InPending, Thread, InRaising, InSweeping,
         InWriting, InTold, InSweepRaise, InRaise, tkRow
<1>7. InHooks'
  BY DEF InInv, InboxTypeOK, InHooks, InOwing, InTold, InNone, InCarried, InSweepRaise,
         InRaise, tkRow
<1>8. InEscalating'
  BY DEF InInv, InboxTypeOK, InEscalating, InSweepRaise, InRaise, tkRow
<1>9. InClosing'
  <2>1. \/ inCopy' = inCopy
        \/ inCopy' = [inCopy EXCEPT ![p].callback = TRUE, ![p].linked = TRUE]
    BY DEF InSweepRaise
  <2>2. inCopy[p].status # "closed"
    BY DEF InSweepRaise, InInv, InCopies, InRaising, InSweeping
  <2>3. \A q \in InProcs : inCopy'[q].status = inCopy[q].status
    BY <2>1 DEF InInv, InboxTypeOK, Thread
  <2>4. \A q \in InProcs \ {p} : inPc'[q] = inPc[q] /\ inCopy'[q] = inCopy[q]
    BY <2>1 DEF InSweepRaise, InInv, InboxTypeOK
  <2> QED
    BY <2>2, <2>3, <2>4 DEF InSweepRaise, InInv, InboxTypeOK, InClosing
<1>10. InMirrored'
  BY DEF InInv, InboxTypeOK, InMirrored, InClosing, InWants, InCopies, InCarried, InTold,
         InNone, InCarrying, InMovable, InRaising, InSweeping, InWriting, InSweepRaise,
         InRaise, tkRow
<1> QED
  BY <1>1, <1>2, <1>3, <1>4, <1>5, <1>6, <1>7, <1>8, <1>9, <1>10 DEF InInv

LEMMA InSweepSaveInv == ASSUME InInv, NEW p \in InProcs, InSweepSave(p) PROVE InInv'
<1>1. InboxTypeOK'
  BY DEF InInv, InboxTypeOK, Thread, ThreadStatus, TicketStatus, InPC, InNone, InNew,
         InSweepSave, InPut, tkRow
<1>2. InWants'
  BY DEF InInv, InboxTypeOK, InWants, InTold, InCarrying, InNone, TicketStatus,
         InSweepSave, InPut, tkRow
<1>3. InCopies'
  BY DEF InInv, InboxTypeOK, InCopies, InRaising, InSweeping, InNone, InNew, TicketStatus,
         Thread, ThreadStatus, InSweepSave, InPut, tkRow
<1>4. InCarried'
  BY DEF InInv, InboxTypeOK, InCarried, InTold, InWants, InNone, InCarrying, TicketStatus,
         InSweepSave, InPut, tkRow
<1>5. InOff'
  BY DEF InInv, InboxTypeOK, InOff, InCopies, InRaising, InSweeping, InWriting, InTold,
         InSweepSave, InPut, tkRow
<1>6. InCredits'
  BY DEF InInv, InboxTypeOK, InCredits, InOwed, InPending, Thread, InRaising, InSweeping,
         InWriting, InTold, InSweepSave, InPut, tkRow
<1>7. InHooks'
  BY DEF InInv, InboxTypeOK, InHooks, InOwing, InTold, InNone, InCarried, InSweepSave,
         InPut, tkRow
<1>8. InEscalating'
  BY DEF InInv, InboxTypeOK, InEscalating, InSweepSave, InPut, tkRow
<1>9. InClosing'
  BY DEF InInv, InboxTypeOK, InClosing, InCopies, InRaising, InSweeping, InWriting, InTold,
         InSweepSave, InPut, tkRow
<1>10. InMirrored'
  BY DEF InInv, InboxTypeOK, InMirrored, InClosing, InWants, InCopies, InCarried, InTold,
         InNone, InCarrying, InMovable, InRaising, InSweeping, InWriting, InSweepSave,
         InPut, tkRow
<1> QED
  BY <1>1, <1>2, <1>3, <1>4, <1>5, <1>6, <1>7, <1>8, <1>9, <1>10 DEF InInv

LEMMA InOverdueInv == ASSUME InInv, NEW p \in InProcs, TkOverdue(p) PROVE InInv'
<1>1. InboxTypeOK'
  <2> DEFINE copy == InNew
  <2>1. copy \in Thread
    BY InNewThread DEF InInv, InboxTypeOK, Thread, ThreadStatus, InChanged
  <2> HIDE DEF copy
  <2>2. InStart(p, copy, InNone, "escalate")
    BY DEF TkOverdue, copy
  <2> QED
    BY <2>1, <2>2 DEF InInv, InboxTypeOK, InPC, InNone, TicketStatus, tkRow, InStart, InAsks
<1>2. InWants'
  BY DEF InInv, InboxTypeOK, InWants, InTold, InCarrying, InNone, TicketStatus, TkOverdue,
         InStart, InNew, tkRow
<1>3. InCopies'
  BY DEF InInv, InboxTypeOK, InCopies, InRaising, InSweeping, InNone, InNew, TicketStatus,
         Thread, ThreadStatus, TkOverdue, InStart, tkRow
<1>4. InCarried'
  BY DEF InInv, InboxTypeOK, InCarried, InTold, InWants, InNone, InCarrying, TicketStatus,
         TkOverdue, InStart, InNew, tkRow
<1>5. InOff'
  BY DEF InInv, InboxTypeOK, InOff, InCopies, InRaising, InSweeping, InWriting, InTold,
         TkOverdue, InStart, InNew, tkRow
<1>6. InCredits'
  BY DEF InInv, InboxTypeOK, InCredits, InOwed, InPending, Thread, InRaising, InSweeping,
         InWriting, InTold, TkOverdue, InStart, InNew, tkRow
<1>7. InHooks'
  BY DEF InInv, InboxTypeOK, InHooks, InOwing, InTold, InNone, InCarried, TkOverdue,
         InStart, InNew, tkRow
<1>8. InEscalating'
  BY DEF InInv, InboxTypeOK, InEscalating, TkOverdue, InStart, InNew, tkRow
<1>9. InClosing'
  BY DEF InInv, InboxTypeOK, InClosing, InCopies, InRaising, InSweeping, InWriting, InTold,
         TkOverdue, InStart, InNew, tkRow
<1>10. InMirrored'
  BY DEF InInv, InboxTypeOK, InMirrored, InClosing, InWants, InCopies, InCarried, InTold,
         InNone, InCarrying, InMovable, InRaising, InSweeping, InWriting, TkOverdue,
         InStart, InNew, tkRow
<1> QED
  BY <1>1, <1>2, <1>3, <1>4, <1>5, <1>6, <1>7, <1>8, <1>9, <1>10 DEF InInv

LEMMA InMarkInv == ASSUME InInv, NEW p \in InProcs, TkMark(p) PROVE InInv'
<1>1. InboxTypeOK'
  BY DEF InInv, InboxTypeOK, Thread, ThreadStatus, TicketStatus, InPC, InNone, InNew,
         TkMark, inGhost, tkRow
<1>2. InWants'
  BY DEF InInv, InboxTypeOK, InWants, InTold, InCarrying, InNone, TicketStatus, TkMark,
         inGhost, tkRow
<1>3. InCopies'
  BY DEF InInv, InboxTypeOK, InCopies, InRaising, InSweeping, InNone, InNew, TicketStatus,
         Thread, ThreadStatus, TkMark, inGhost, tkRow
<1>4. InCarried'
  BY DEF InInv, InboxTypeOK, InCarried, InTold, InWants, InNone, InCarrying, TicketStatus,
         TkMark, inGhost, tkRow
<1>5. InOff'
  BY DEF InInv, InboxTypeOK, InOff, InCopies, InRaising, InSweeping, InWriting, InTold,
         TkMark, inGhost, tkRow
<1>6. InCredits'
  BY DEF InInv, InboxTypeOK, InCredits, InOwed, InPending, Thread, InRaising, InSweeping,
         InWriting, InTold, TkMark, inGhost, tkRow
<1>7. InHooks'
  BY DEF InInv, InboxTypeOK, InHooks, InOwing, InTold, InNone, InCarried, TkMark, inGhost,
         tkRow
<1>8. InEscalating'
  BY DEF InInv, InboxTypeOK, InEscalating, TkMark, inGhost, tkRow
<1>9. InClosing'
  BY DEF InInv, InboxTypeOK, InClosing, InCopies, InRaising, InSweeping, InWriting, InTold,
         TkMark, inGhost, tkRow
<1>10. InMirrored'
  BY DEF InInv, InboxTypeOK, InMirrored, InClosing, InWants, InCopies, InCarried, InTold,
         InNone, InCarrying, InMovable, InRaising, InSweeping, InWriting, TkMark, inGhost,
         tkRow
<1> QED
  BY <1>1, <1>2, <1>3, <1>4, <1>5, <1>6, <1>7, <1>8, <1>9, <1>10 DEF InInv

LEMMA InNotifyInv == ASSUME InInv, NEW p \in InProcs, TkNotify(p) PROVE InInv'
<1>1. InboxTypeOK'
  BY DEF InInv, InboxTypeOK, Thread, ThreadStatus, TicketStatus, InPC, InNone, InNew,
         TkNotify, InEnd, tkRow
<1>2. InWants'
  BY DEF InInv, InboxTypeOK, InWants, InTold, InCarrying, InNone, TicketStatus, TkNotify,
         InEnd, tkRow
<1>3. InCopies'
  BY DEF InInv, InboxTypeOK, InCopies, InRaising, InSweeping, InNone, InNew, TicketStatus,
         Thread, ThreadStatus, TkNotify, InEnd, tkRow
<1>4. InCarried'
  BY DEF InInv, InboxTypeOK, InCarried, InTold, InWants, InNone, InCarrying, TicketStatus,
         TkNotify, InEnd, tkRow
<1>5. InOff'
  BY DEF InInv, InboxTypeOK, InOff, InCopies, InRaising, InSweeping, InWriting, InTold,
         TkNotify, InEnd, tkRow
<1>6. InCredits'
  BY DEF InInv, InboxTypeOK, InCredits, InOwed, InPending, Thread, InRaising, InSweeping,
         InWriting, InTold, TkNotify, InEnd, tkRow
<1>7. InHooks'
  BY DEF InInv, InboxTypeOK, InHooks, InOwing, InTold, InNone, InCarried, TkNotify, InEnd,
         tkRow
<1>8. InEscalating'
  BY DEF InInv, InboxTypeOK, InEscalating, TkNotify, InEnd, tkRow
<1>9. InClosing'
  BY DEF InInv, InboxTypeOK, InClosing, InCopies, InRaising, InSweeping, InWriting, InTold,
         TkNotify, InEnd, tkRow
<1>10. InMirrored'
  BY DEF InInv, InboxTypeOK, InMirrored, InClosing, InWants, InCopies, InCarried, InTold,
         InNone, InCarrying, InMovable, InRaising, InSweeping, InWriting, TkNotify, InEnd,
         tkRow
<1> QED
  BY <1>1, <1>2, <1>3, <1>4, <1>5, <1>6, <1>7, <1>8, <1>9, <1>10 DEF InInv

LEMMA InNextInv == ASSUME InInv, [InboxNext]_inboxVars PROVE InInv'
BY InStutterInv, InMessageInv, InAppendInv, InCannedInv, InRespondInv, InTicketInv, InLinkInv,
   InHandoffInv,
   InReplyInv, InSaveInv, InSyncInv, InUpdateInv, InTkReadInv, InTkWriteInv, InTkMirrorInv, InReflectInv,
   InReflectSaveInv, InTkHookInv, InSweepInv, InSweepRaiseInv, InSweepSaveInv, InOverdueInv, InMarkInv,
   InNotifyInv
DEF InboxNext

LEMMA InInvAlways == InboxSpec => []InInv
BY InInitInv, InNextInv, PTL DEF InboxSpec

\* The state of a conversation, of its ticket and of the operations under way on them.
THEOREM InboxTypeCorrect == InboxSpec => []InboxTypeOK
<1>1. InInv => InboxTypeOK
  BY DEF InInv
<1> QED
  BY <1>1, InInvAlways, PTL

\* The assistant stays off a conversation that a person has taken, and raises no more
\* callback tickets than there were handoffs, unless an older copy was saved over it
\* (inbound, reply, sweep_sla).
THEOREM HumanAlwaysKeepsThread == InboxSpec => []HumanKeepsThread
<1>1. InInv => HumanKeepsThread
  BY DEF InInv, InOff, InCredits, HumanKeepsThread
<1> QED
  BY <1>1, InInvAlways, PTL

\* When nothing is under way, conversation and ticket tell the same story; the hook
\* ran once for each resolution; and the ticket was escalated at most once
\* (_sync_tickets, on_ticket_changed, TicketService.update, escalate_overdue).
THEOREM TicketsAlwaysAgree == InboxSpec => []TicketsAgree
<1>1. InInv => TicketsAgree
  <2> SUFFICES ASSUME InInv PROVE TicketsAgree
    OBVIOUS
  <2>1. InQuiet /\ inDoc.status = "closed" /\ inDoc.linked /\ tkThread /\ ~inTorn /\ ~inCrossed
          => tkStatus # "open"
    BY DEF InInv, InMirrored, InQuiet
  <2>2. InQuiet /\ ~tkStale => tkOwed = 0
    <3>1. InQuiet => InOwing = {}
      BY DEF InQuiet, InOwing, InTold
    <3> QED
      BY <3>1, FS_EmptySet DEF InInv, InHooks
  <2> QED
    BY <2>1, <2>2 DEF InInv, InEscalating, TicketsAgree
<1> QED
  BY <1>1, InInvAlways, PTL

-------------------------------------------------------------------------------
(* Studio: the invariant. *)

StLatest == stVersions[StVersion]

StNumbered == \E n \in Nat \ {0} : DOMAIN stVersions = 1 .. n

\* Where an operation can be, and what it holds there.
StPlaced ==
  \A p \in StReqs :
    /\ stPc[p] = "idle" <=> stOp[p] = "none"
    /\ stPc[p] \in {"voice", "file"} => stOp[p] = "delete"
    /\ stPc[p] = "save" => stOp[p] = "approve"
    /\ stOp[p] = "delete" => stPc[p] \in {"voice", "read", "write", "file"}
    /\ stOp[p] = "approve" => stPc[p] \in {"read", "write", "save"}
    /\ stPc[p] \in {"write", "tell"} => stHeld[p].version \in DOMAIN stVersions
    /\ stPc[p] = "write" => stHeld[p].config = stVersions[stHeld[p].version]

\* What publishing a configuration does.
StGrown(config) ==
  /\ StNumbered' /\ StVersion' = StVersion + 1 /\ DOMAIN stVersions' = 1 .. StVersion + 1
  /\ \A v \in DOMAIN stVersions : stVersions'[v] = stVersions[v]
  /\ stVersions'[StVersion + 1] = config /\ StLatest' = config
  /\ \A v \in DOMAIN stVersions' : stVersions'[v] \in StConfig
  /\ stEnded' \in [1 .. StVersion -> Nat]
  /\ stEnded'[StVersion] = stNow
  /\ \A v \in 1 .. StVersion - 1 : stEnded'[v] = stEnded[v]

StClean == ~stTorn /\ ~stCrossed /\ ~stCut

StApart == \A p, q \in StReqs : p # q => ~StCross(stOp[p], stOp[q])

StSaving == \E p \in StReqs : stPc[p] = "save"

\* The text of the proposal is in a version only if it was approved, or its approval is
\* about to be saved; and in the latest one if no earlier one was published again.
StFixed ==
  /\ \A p \in StReqs : stOp[p] = "approve" => stProposal = "proposed"
  /\ \A v \in DOMAIN stVersions : stVersions[v].fix <= 1
  /\ stProposal = "proposed" /\ ~StSaving => \A v \in DOMAIN stVersions : stVersions[v].fix = 0
  /\ stProposal = "rejected" /\ ~stUndone => \A v \in DOMAIN stVersions : stVersions[v].fix = 0
  /\ (stProposal = "approved" \/ StSaving) /\ ~stRolled => StLatest.fix = 1

\* The voice exists until an operation that deletes it is on its way, which takes the
\* assistant off it before it says so.
StSpoken ==
  /\ ~stVoice => \/ stClone = "deleted"
                 \/ \E q \in StReqs : stOp[q] = "delete" /\ stPc[q] \in {"read", "write", "file"}
  /\ \A q \in StReqs : stOp[q] = "activate" => stClone = "ready"
  /\ ~stRolled =>
       /\ StLatest.cloned => stClone = "ready"
       /\ StLatest.cloned /\ ~stVoice =>
            \E q \in StReqs : stOp[q] = "delete" /\ stPc[q] \in {"read", "write"}
       /\ \A q \in StReqs : stPc[q] = "file" => ~StLatest.cloned

StDecided == StClean => StApart /\ StFixed /\ StSpoken

\* What is fetched was the latest version within the moment, what is cached was so within
\* the life of an entry; and neither is older than what the cache was last told of.
StCaching ==
  /\ stFetch # StNone => /\ stFetch \in DOMAIN stVersions
                         /\ stFetch = StVersion \/ stEnded[stFetch] = stNow
  /\ stCache.version # StNone =>
       /\ stCache.version \in DOMAIN stVersions
       /\ stCache.until <= stNow + StTtl
       /\ stCache.version = StVersion \/ stEnded[stCache.version] + StTtl >= stCache.until
  /\ stTold <= StVersion
  /\ ~stLate => /\ stFetch # StNone => stFetch >= stTold
                /\ stCache.version # StNone => stCache.version >= stTold

StInv == StNumbered /\ StudioTypeOK /\ StPlaced /\ StDecided /\ StCaching

USE StudioAssumption

LEMMA StCrossIs ==
  ASSUME NEW a, NEW b
  PROVE  StCross(a, b) <=> \/ a = "approve" /\ b = "approve"
                           \/ a = "activate" /\ b = "delete"
                           \/ a = "delete" /\ b = "activate"
BY DEF StCross

LEMMA StLastOf ==
  ASSUME NEW D, NEW n \in Nat \ {0}, D = 1 .. n
  PROVE  (CHOOSE v \in D : v + 1 \notin D) = n
OBVIOUS

LEMMA StVersionIs ==
  ASSUME NEW n \in Nat \ {0}, DOMAIN stVersions = 1 .. n
  PROVE  StVersion = n
BY StLastOf DEF StVersion

LEMMA StLatestIn ==
  ASSUME StInv
  PROVE  /\ StVersion \in Nat \ {0} /\ DOMAIN stVersions = 1 .. StVersion
         /\ StVersion \in DOMAIN stVersions /\ StLatest \in StConfig
BY StVersionIs DEF StInv, StNumbered, StudioTypeOK, StLatest

LEMMA StPublishIs ==
  ASSUME StInv, NEW config \in StConfig, StPublish(config)
  PROVE  StGrown(config)
<1>1. DOMAIN stVersions' = 1 .. StVersion + 1
  BY StLatestIn DEF StPublish
<1>2. StVersion' = StVersion + 1
  <2>1. StVersion + 1 \in Nat \ {0}
    BY StLatestIn
  <2> QED
    BY <1>1, <2>1, StLastOf DEF StVersion
<1>3. /\ \A v \in DOMAIN stVersions : stVersions'[v] = stVersions[v]
      /\ stVersions'[StVersion + 1] = config
  BY StLatestIn DEF StPublish
<1>4. StNumbered' /\ StLatest' = config
  BY <1>1, <1>2, <1>3, StLatestIn DEF StNumbered, StLatest
<1>5. \A v \in DOMAIN stVersions' : stVersions'[v] \in StConfig
  BY <1>1, <1>3, StLatestIn DEF StInv, StudioTypeOK
<1>6. /\ stEnded' \in [1 .. StVersion -> Nat]
      /\ stEnded'[StVersion] = stNow
      /\ \A v \in 1 .. StVersion - 1 : stEnded'[v] = stEnded[v]
  BY StLatestIn DEF StPublish, StInv, StudioTypeOK
<1> QED
  BY <1>1, <1>2, <1>3, <1>4, <1>5, <1>6 DEF StGrown

LEMMA StChangedTyped ==
  ASSUME NEW op \in StOps, NEW config \in StConfig
  PROVE  StChanged(op, config) \in StConfig
<1>1. CASE op \in {"block", "studio"}
  BY <1>1 DEF StChanged, StConfig
<1>2. CASE op = "approve"
  <2>1. config.fix + 1 \in Nat
    BY DEF StConfig
  <2> QED
    BY <1>2, <2>1 DEF StChanged, StConfig
<1>3. CASE op = "activate"
  BY <1>3 DEF StChanged, StConfig
<1>4. CASE op = "delete"
  BY <1>4 DEF StChanged, StConfig
<1> QED
  BY <1>1, <1>2, <1>3, <1>4 DEF StOps

LEMMA StGrownCaching ==
  ASSUME StInv, NEW config, StGrown(config),
         UNCHANGED <<stCache, stFetch, stNow, stTold, stLate>>
  PROVE  StCaching'
<1>1. \A v \in DOMAIN stVersions : v # StVersion => stEnded'[v] = stEnded[v]
  BY StLatestIn DEF StGrown
<1>2. stFetch # StNone => /\ stFetch \in DOMAIN stVersions' /\ stFetch \in DOMAIN stVersions
                          /\ stEnded'[stFetch] = stNow
  BY <1>1, StLatestIn DEF StGrown, StInv, StCaching
<1>3. stCache.version # StNone =>
         /\ stCache.version \in DOMAIN stVersions'
         /\ stEnded'[stCache.version] + StTtl >= stCache.until
  BY <1>1, StLatestIn DEF StGrown, StInv, StCaching, StudioTypeOK
<1>4. stTold <= StVersion'
  BY StLatestIn DEF StGrown, StInv, StCaching, StudioTypeOK
<1> QED
  BY <1>2, <1>3, <1>4 DEF StInv, StCaching

LEMMA StBeginInv == ASSUME StInv, NEW p \in StReqs,
         NEW op \in StOps, NEW next \in {"voice", "read"}, StBegin(p, op, next),
         next = "voice" <=> op = "delete", op = "approve" => stProposal = "proposed",
         op = "activate" => stClone = "ready" PROVE StInv'
<1>1. StVersion' = StVersion /\ StLatest' = StLatest
  BY DEF StVersion, StLatest, stStore, stLocal, stGhost, StBegin, StMove, StOps
<1>2. StClean' => StClean
  BY DEF StInv, StudioTypeOK, StClean, stStore, stLocal, stGhost, StBegin, StMove, StOps
<1>3. StNumbered'
  BY <1>1 DEF StInv, StNumbered, stStore, stLocal, stGhost, StBegin, StMove, StOps
<1>4. StudioTypeOK'
  BY <1>1 DEF StInv, StNumbered, StudioTypeOK, StPC, StOps, StNone, StNoCache, StNothing,
         StConfig, stStore, stLocal, stGhost, StBegin, StMove
<1>5. StPlaced'
  BY <1>1 DEF StInv, StNumbered, StudioTypeOK, StPlaced, StNothing, StOps, StPC, stStore,
         stLocal, stGhost, StBegin, StMove
<1>6. StClean' => StApart'
  <2> SUFFICES ASSUME StClean', NEW q \in StReqs, NEW r \in StReqs, q # r
               PROVE  ~StCross(stOp'[q], stOp'[r])
    BY DEF StApart
  <2>1. StApart /\ \A s \in StReqs : ~StCross(op, stOp[s])
    BY <1>2 DEF StInv, StDecided, StBegin, StClean
  <2>2. \A s \in StReqs : ~StCross(stOp[s], op)
    BY <2>1 DEF StCross
  <2>3. stOp'[p] = op /\ \A s \in StReqs \ {p} : stOp'[s] = stOp[s]
    BY DEF StBegin, StInv, StudioTypeOK
  <2> QED
    BY <2>1, <2>2, <2>3 DEF StApart
<1>7. StClean' => StFixed'
  BY <1>1, <1>2, <1>6, StCrossIs DEF StInv, StudioTypeOK, StDecided, StFixed, StSaving,
         StPlaced, stStore, stLocal, stGhost, StBegin, StMove, StOps
<1>8. StClean' => StSpoken'
  BY <1>1, <1>2, <1>6, StCrossIs DEF StInv, StudioTypeOK, StDecided, StSpoken, StPlaced,
         stStore, stLocal, stGhost, StBegin, StMove, StOps
<1>9. StCaching'
  BY <1>1 DEF StInv, StNumbered, StudioTypeOK, StCaching, StNone, StNoCache, StCached,
         stStore, stLocal, stGhost, StBegin, StMove, StOps
<1> QED
  BY <1>3, <1>4, <1>5, <1>6, <1>7, <1>8, <1>9 DEF StInv, StDecided

LEMMA StDeleteVoiceInv == ASSUME StInv, NEW p \in StReqs, StDeleteVoice(p) PROVE StInv'
<1>1. StVersion' = StVersion /\ StLatest' = StLatest
  BY DEF StVersion, StLatest, stStore, stLocal, stGhost, StDeleteVoice, StGoto
<1>2. StClean' => StClean
  BY DEF StInv, StudioTypeOK, StClean, stStore, stLocal, stGhost, StDeleteVoice, StGoto
<1>3. StNumbered'
  BY <1>1 DEF StInv, StNumbered, stStore, stLocal, stGhost, StDeleteVoice, StGoto
<1>4. StudioTypeOK'
  BY <1>1 DEF StInv, StNumbered, StudioTypeOK, StPC, StOps, StNone, StNoCache, StNothing,
         StConfig, stStore, stLocal, stGhost, StDeleteVoice, StGoto
<1>5. StPlaced'
  BY <1>1 DEF StInv, StNumbered, StudioTypeOK, StPlaced, StNothing, StOps, StPC, stStore,
         stLocal, stGhost, StDeleteVoice, StGoto
<1>6. StClean' => StApart'
  BY <1>1, <1>2, StCrossIs DEF StInv, StudioTypeOK, StPlaced, StOps, StDecided, StApart,
         stStore, stLocal, stGhost, StDeleteVoice, StGoto
<1>7. StClean' => StFixed'
  BY <1>1, <1>2, <1>6, StCrossIs DEF StInv, StudioTypeOK, StDecided, StFixed, StSaving,
         StPlaced, stStore, stLocal, stGhost, StDeleteVoice, StGoto
<1>8. StClean' => StSpoken'
  BY <1>1, <1>2, <1>6, StCrossIs DEF StInv, StudioTypeOK, StDecided, StSpoken, StPlaced,
         stStore, stLocal, stGhost, StDeleteVoice, StGoto
<1>9. StCaching'
  BY <1>1 DEF StInv, StNumbered, StudioTypeOK, StCaching, StNone, StNoCache, StCached,
         stStore, stLocal, stGhost, StDeleteVoice, StGoto
<1> QED
  BY <1>3, <1>4, <1>5, <1>6, <1>7, <1>8, <1>9 DEF StInv, StDecided

LEMMA StReadInv == ASSUME StInv, NEW p \in StReqs, StRead(p) PROVE StInv'
<1>1. StVersion' = StVersion /\ StLatest' = StLatest
  BY DEF StVersion, StLatest, stStore, stLocal, stGhost, StRead
<1>2. StClean' => StClean
  BY DEF StInv, StudioTypeOK, StClean, stStore, stLocal, stGhost, StRead
<1>3. StNumbered'
  BY <1>1 DEF StInv, StNumbered, stStore, stLocal, stGhost, StRead
<1>4. StudioTypeOK'
  <2>1. [version |-> StVersion, config |-> StLatest] \in [version: Nat, config: StConfig]
    BY StLatestIn
  <2>2. stHeld' \in [StReqs -> [version: Nat, config: StConfig]]
    BY <2>1 DEF StRead, StLatest, StInv, StudioTypeOK
  <2> QED
    BY <2>2, <1>1 DEF StRead, StInv, StudioTypeOK, StPC, stStore, stGhost
<1>5. StPlaced'
  <2>1. /\ stHeld'[p] = [version |-> StVersion, config |-> stVersions[StVersion]]
        /\ stPc'[p] \in {"file", "write"}
        /\ stPc'[p] = "file" => stOp[p] = "delete"
        /\ \A q \in StReqs \ {p} : stHeld'[q] = stHeld[q] /\ stPc'[q] = stPc[q]
    BY DEF StRead, StInv, StudioTypeOK
  <2>2. stOp[p] \notin {"none"} /\ UNCHANGED <<stOp, stVersions>>
    BY DEF StRead, StInv, StPlaced, StudioTypeOK, stStore
  <2>3. stHeld'[p].version = StVersion /\ stHeld'[p].config = stVersions[StVersion]
    BY <2>1
  <2>4. stOp[p] # "approve" \/ stPc'[p] = "write"
    BY <2>1
  <2> QED
    BY <2>1, <2>2, <2>3, <2>4, StLatestIn DEF StInv, StPlaced
<1>6. StClean' => StApart'
  BY <1>1, <1>2, StCrossIs DEF StInv, StudioTypeOK, StPlaced, StOps, StDecided, StApart,
         stStore, stLocal, stGhost, StRead
<1>7. StClean' => StFixed'
  BY <1>1, <1>2, <1>6, StCrossIs DEF StInv, StudioTypeOK, StDecided, StFixed, StSaving,
         StPlaced, stStore, stLocal, stGhost, StRead
<1>8. StClean' => StSpoken'
  <2> SUFFICES ASSUME StClean' PROVE StSpoken'
    OBVIOUS
  <2>1. StSpoken
    BY <1>2 DEF StInv, StDecided
  <2>2. /\ stPc'[p] \in {"file", "write"}
        /\ stPc'[p] = "file" => stOp[p] = "delete" /\ ~StLatest.cloned
        /\ stPc[p] = "read" /\ (stOp[p] = "delete" /\ StLatest.cloned => stPc'[p] = "write")
        /\ \A q \in StReqs \ {p} : stPc'[q] = stPc[q]
    BY DEF StRead, StInv, StudioTypeOK, StLatest
  <2>3. UNCHANGED <<stOp, stVersions, stVoice, stClone, stRolled>>
    BY DEF StRead, stStore, stGhost
  <2> QED
    BY <1>1, <2>1, <2>2, <2>3 DEF StSpoken
<1>9. StCaching'
  BY <1>1 DEF StInv, StNumbered, StudioTypeOK, StCaching, StNone, StNoCache, StCached,
         stStore, stLocal, stGhost, StRead
<1> QED
  BY <1>3, <1>4, <1>5, <1>6, <1>7, <1>8, <1>9 DEF StInv, StDecided

LEMMA StWriteInv == ASSUME StInv, NEW p \in StReqs, StWrite(p) PROVE StInv'
<1>1. StGrown(StChanged(stOp[p], stHeld[p].config))
  <2>1. stOp[p] \in StOps /\ stHeld[p].config \in StConfig
    BY DEF StWrite, StInv, StPlaced, StudioTypeOK
  <2>2. StChanged(stOp[p], stHeld[p].config) \in StConfig
    BY <2>1, StChangedTyped
  <2> QED
    BY <2>2, StPublishIs DEF StWrite
<1>2. StClean' => StClean
  BY DEF StInv, StudioTypeOK, StClean, stStore, stLocal, stGhost, StWrite, StGoto
<1>3. StNumbered'
  BY <1>1 DEF StGrown
<1>4. StudioTypeOK'
  <2>1. stPc' \in [StReqs -> StPC] /\ stOp' \in [StReqs -> StOps \cup {"none"}]
    BY DEF StWrite, StGoto, StInv, StudioTypeOK, StPC
  <2>2. stHeld' \in [StReqs -> [version: Nat, config: StConfig]]
    <3>1. [stHeld[p] EXCEPT !.version = StVersion + 1] \in [version: Nat, config: StConfig]
      <4>1. StVersion + 1 \in Nat /\ stHeld[p] \in [version: Nat, config: StConfig]
        BY StLatestIn DEF StInv, StudioTypeOK
      <4> QED
        BY <4>1
    <3>2. StNothing \in [version: Nat, config: StConfig]
      BY DEF StNothing, StNone, StConfig
    <3>3. \/ stHeld' = stHeld
          \/ stHeld' = [stHeld EXCEPT ![p] = StNothing]
          \/ stHeld' = [stHeld EXCEPT ![p] = [stHeld[p] EXCEPT !.version = StVersion + 1]]
      BY DEF StWrite, StGoto, StInv, StudioTypeOK
    <3> QED
      BY <3>1, <3>2, <3>3 DEF StInv, StudioTypeOK
  <2>3. stTorn' \in BOOLEAN
    BY DEF StWrite, StInv, StudioTypeOK
  <2>4. StVersion' - 1 = StVersion
    BY <1>1, StLatestIn DEF StGrown
  <2> QED
    BY <2>1, <2>2, <2>3, <2>4, <1>1 DEF StWrite, StGrown, StInv, StudioTypeOK
<1>5. StPlaced'
  <2>1. \A u \in DOMAIN stVersions : u \in DOMAIN stVersions' /\ stVersions'[u] = stVersions[u]
    BY <1>1, StLatestIn DEF StGrown
  <2>2. \A q \in StReqs \ {p} :
          stPc'[q] = stPc[q] /\ stOp'[q] = stOp[q] /\ stHeld'[q] = stHeld[q]
    BY DEF StWrite, StGoto, StInv, StudioTypeOK
  <2>3. /\ stOp[p] \in StOps
        /\ stOp[p] = "studio" => stPc'[p] = "tell" /\ stOp'[p] = "studio"
                                  /\ stHeld'[p].version = StVersion + 1
        /\ stOp[p] = "approve" => stPc'[p] = "save" /\ stOp'[p] = "approve"
        /\ stOp[p] = "delete" => stPc'[p] = "file" /\ stOp'[p] = "delete"
        /\ stOp[p] \in {"block", "activate"} => stPc'[p] = "idle" /\ stOp'[p] = "none"
    BY DEF StWrite, StGoto, StInv, StPlaced, StudioTypeOK
  <2>4. StVersion + 1 \in DOMAIN stVersions'
    BY <1>1, StLatestIn DEF StGrown
  <2> QED
    BY <2>1, <2>2, <2>3, <2>4 DEF StInv, StPlaced, StOps
<1>6. StClean' => StApart'
  <2> SUFFICES ASSUME StClean' PROVE StApart'
    OBVIOUS
  <2>1. \A q \in StReqs : stOp'[q] = stOp[q] \/ stOp'[q] = "none"
    BY DEF StWrite, StGoto, StInv, StudioTypeOK
  <2> QED
    BY <1>2, <2>1, StCrossIs DEF StInv, StDecided, StApart
<1>7. StClean' => StFixed'
  <2> SUFFICES ASSUME StClean' PROVE StFixed'
    OBVIOUS
  <2>1. StApart /\ StFixed
    BY <1>2 DEF StInv, StDecided
  <2>2. stHeld[p].config = StLatest
    BY DEF StWrite, StClean, StInv, StPlaced, StLatest
  <2>3. /\ stOp[p] \in StOps /\ stPc[p] = "write"
        /\ stOp[p] = "approve" => stPc'[p] = "save" /\ stOp'[p] = "approve"
        /\ stOp[p] = "delete" => stPc'[p] = "file" /\ stOp'[p] = "delete"
        /\ stOp[p] \notin {"approve", "delete"} =>
             stPc'[p] \in {"idle", "tell"} /\ stOp'[p] \in {"none", "studio"}
        /\ \A q \in StReqs \ {p} : stPc'[q] = stPc[q] /\ stOp'[q] = stOp[q]
    BY DEF StWrite, StGoto, StInv, StPlaced, StudioTypeOK, StOps
  <2>4. UNCHANGED <<stProposal, stUndone, stRolled>>
    BY DEF StWrite
  <2>5. CASE stOp[p] = "approve"
    <3>1. stProposal = "proposed" /\ ~StSaving
      BY <2>1, <2>3, <2>5, StCrossIs DEF StFixed, StSaving, StApart, StInv, StPlaced
    <3>2. \A v \in DOMAIN stVersions : stVersions[v].fix = 0
      BY <2>1, <3>1 DEF StFixed
    <3>3. StChanged(stOp[p], StLatest).fix = 1
      BY <2>5, <3>2, StLatestIn DEF StChanged, StConfig, StLatest
    <3>4. \A v \in DOMAIN stVersions' : stVersions'[v].fix <= 1
      BY <2>2, <3>2, <3>3, <1>1, StLatestIn DEF StGrown
    <3>5. StSaving'
      BY <2>3, <2>5 DEF StSaving
    <3>6. StLatest'.fix = 1
      BY <2>2, <3>3, <1>1 DEF StGrown
    <3>7. \A q \in StReqs : stOp'[q] = "approve" => stProposal' = "proposed"
      BY <3>1, <2>4
    <3> QED
      BY <2>4, <3>1, <3>4, <3>5, <3>6, <3>7 DEF StFixed
  <2>6. CASE stOp[p] # "approve"
    <3>1. StChanged(stOp[p], StLatest).fix = StLatest.fix
      BY <2>3, <2>6, StLatestIn DEF StChanged, StConfig, StOps
    <3>2. \A u \in DOMAIN stVersions' : \E w \in DOMAIN stVersions : stVersions'[u].fix = stVersions[w].fix
      BY <2>2, <3>1, <1>1, StLatestIn DEF StGrown, StLatest
    <3>3. StLatest'.fix = StLatest.fix
      BY <2>2, <3>1, <1>1 DEF StGrown
    <3>4. StSaving' <=> StSaving
      BY <2>3, <2>6 DEF StSaving, StInv, StPlaced
    <3>5. \A q \in StReqs : stOp'[q] = "approve" => stOp[q] = "approve"
      BY <2>3, <2>6
    <3> QED
      BY <2>1, <2>4, <3>2, <3>3, <3>4, <3>5 DEF StFixed
  <2> QED
    BY <2>5, <2>6
<1>8. StClean' => StSpoken'
  <2> SUFFICES ASSUME StClean' PROVE StSpoken'
    OBVIOUS
  <2>1. StApart /\ StSpoken
    BY <1>2 DEF StInv, StDecided
  <2>2. stHeld[p].config = StLatest
    BY DEF StWrite, StClean, StInv, StPlaced, StLatest
  <2>3. /\ stOp[p] \in StOps /\ stPc[p] = "write"
        /\ stOp[p] = "approve" => stPc'[p] = "save" /\ stOp'[p] = "approve"
        /\ stOp[p] = "delete" => stPc'[p] = "file" /\ stOp'[p] = "delete"
        /\ stOp[p] \notin {"approve", "delete"} =>
             stPc'[p] \in {"idle", "tell"} /\ stOp'[p] \in {"none", "studio"}
        /\ \A q \in StReqs \ {p} : stPc'[q] = stPc[q] /\ stOp'[q] = stOp[q]
    BY DEF StWrite, StGoto, StInv, StPlaced, StudioTypeOK, StOps
  <2>4. UNCHANGED <<stClone, stVoice, stRolled>>
    BY DEF StWrite
  <2>5. StLatest' = StChanged(stOp[p], StLatest)
    BY <2>2, <1>1 DEF StGrown
  <2>6. CASE stOp[p] = "activate"
    <3>1. \A q \in StReqs : stOp[q] # "delete" /\ stPc[q] # "file"
      BY <2>1, <2>3, <2>6, StCrossIs DEF StApart, StInv, StPlaced
    <3>2. stClone = "ready" /\ stVoice
      BY <2>1, <2>6, <3>1 DEF StSpoken
    <3> QED
      BY <2>1, <2>3, <2>4, <2>6, <3>1, <3>2 DEF StSpoken
  <2>7. CASE stOp[p] = "delete"
    <3>1. ~StLatest'.cloned
      BY <2>5, <2>7, StLatestIn DEF StChanged, StConfig
    <3> QED
      BY <2>1, <2>3, <2>4, <2>7, <3>1 DEF StSpoken
  <2>8. CASE stOp[p] \notin {"activate", "delete"}
    <3>1. StLatest'.cloned = StLatest.cloned
      BY <2>3, <2>5, <2>8, StLatestIn DEF StChanged, StConfig, StOps
    <3> QED
      BY <2>1, <2>3, <2>4, <2>8, <3>1 DEF StSpoken, StOps
  <2> QED
    BY <2>6, <2>7, <2>8
<1>9. StCaching'
  BY <1>1, StGrownCaching DEF StWrite
<1> QED
  BY <1>3, <1>4, <1>5, <1>6, <1>7, <1>8, <1>9 DEF StInv, StDecided

LEMMA StBlockedInv == ASSUME StInv, NEW p \in StReqs, StBlocked(p) PROVE StInv'
<1>1. StVersion' = StVersion /\ StLatest' = StLatest
  BY DEF StVersion, StLatest, stStore, stLocal, stGhost, StBlocked, StGoto
<1>2. StClean' => StClean
  BY DEF StInv, StudioTypeOK, StClean, stStore, stLocal, stGhost, StBlocked, StGoto
<1>3. StNumbered'
  BY <1>1 DEF StInv, StNumbered, stStore, stLocal, stGhost, StBlocked, StGoto
<1>4. StudioTypeOK'
  BY <1>1 DEF StInv, StNumbered, StudioTypeOK, StPC, StOps, StNone, StNoCache, StNothing,
         StConfig, stStore, stLocal, stGhost, StBlocked, StGoto
<1>5. StPlaced'
  BY <1>1 DEF StInv, StNumbered, StudioTypeOK, StPlaced, StNothing, StOps, StPC, stStore,
         stLocal, stGhost, StBlocked, StGoto
<1>6. StClean' => StApart'
  BY <1>1, <1>2, StCrossIs DEF StInv, StudioTypeOK, StPlaced, StOps, StDecided, StApart,
         stStore, stLocal, stGhost, StBlocked, StGoto
<1>7. StClean' => StFixed'
  BY <1>1, <1>2, <1>6, StCrossIs DEF StInv, StudioTypeOK, StDecided, StFixed, StSaving,
         StPlaced, stStore, stLocal, stGhost, StBlocked, StGoto
<1>8. StClean' => StSpoken'
  BY <1>1, <1>2, <1>6, StCrossIs DEF StInv, StudioTypeOK, StDecided, StSpoken, StPlaced,
         stStore, stLocal, stGhost, StBlocked, StGoto
<1>9. StCaching'
  BY <1>1 DEF StInv, StNumbered, StudioTypeOK, StCaching, StNone, StNoCache, StCached,
         stStore, stLocal, stGhost, StBlocked, StGoto
<1> QED
  BY <1>3, <1>4, <1>5, <1>6, <1>7, <1>8, <1>9 DEF StInv, StDecided

LEMMA StTellInv == ASSUME StInv, NEW p \in StReqs, StTell(p) PROVE StInv'
<1>1. StVersion' = StVersion /\ StLatest' = StLatest
  BY DEF StVersion, StLatest, stStore, stLocal, stGhost, StTell, StGoto
<1>2. StClean' => StClean
  BY DEF StInv, StudioTypeOK, StClean, stStore, stLocal, stGhost, StTell, StGoto
<1>3. StNumbered'
  BY <1>1 DEF StInv, StNumbered, stStore, stLocal, stGhost, StTell, StGoto
<1>4. StudioTypeOK'
  <2>1. stCache' \in [version: Nat, until: Nat] /\ stTold' \in Nat
    BY DEF StTell, StInv, StudioTypeOK, StNoCache, StNone
  <2>2. /\ stPc' \in [StReqs -> StPC] /\ stOp' \in [StReqs -> StOps \cup {"none"}]
        /\ stHeld' \in [StReqs -> [version: Nat, config: StConfig]]
    BY DEF StTell, StGoto, StInv, StudioTypeOK, StPC, StNothing, StNone, StConfig
  <2>3. stLate' \in BOOLEAN
    BY DEF StTell, StInv, StudioTypeOK
  <2> QED
    BY <2>1, <2>2, <2>3, <1>1 DEF StTell, StInv, StudioTypeOK
<1>5. StPlaced'
  BY <1>1 DEF StInv, StNumbered, StudioTypeOK, StPlaced, StNothing, StOps, StPC, stStore,
         stLocal, stGhost, StTell, StGoto
<1>6. StClean' => StApart'
  BY <1>1, <1>2, StCrossIs DEF StInv, StudioTypeOK, StPlaced, StOps, StDecided, StApart,
         stStore, stLocal, stGhost, StTell, StGoto
<1>7. StClean' => StFixed'
  BY <1>1, <1>2, <1>6, StCrossIs DEF StInv, StudioTypeOK, StDecided, StFixed, StSaving,
         StPlaced, stStore, stLocal, stGhost, StTell, StGoto
<1>8. StClean' => StSpoken'
  BY <1>1, <1>2, <1>6, StCrossIs DEF StInv, StudioTypeOK, StDecided, StSpoken, StPlaced,
         stStore, stLocal, stGhost, StTell, StGoto
<1>9. StCaching'
  <2>1. stHeld[p].version \in Nat /\ stHeld[p].version <= StVersion
    BY StLatestIn DEF StTell, StInv, StPlaced, StudioTypeOK
  <2>2. UNCHANGED <<stVersions, stFetch, stNow, stEnded>>
    BY DEF StTell
  <2>3. CASE UNCHANGED <<stCache, stTold, stLate>>
    BY <2>2, <2>3, <1>1 DEF StInv, StCaching
  <2>4. CASE /\ stCache' = StNoCache
             /\ stTold' = IF stTold < stHeld[p].version THEN stHeld[p].version ELSE stTold
             /\ stLate' = (stLate \/ stFetch # StNone)
    <3>1. stTold' <= StVersion
      BY <2>1, <2>4 DEF StInv, StCaching
    <3>2. stCache'.version = StNone
      BY <2>4 DEF StNoCache
    <3>3. ~stLate' => stFetch = StNone
      BY <2>4
    <3> QED
      BY <2>2, <3>1, <3>2, <3>3, <1>1 DEF StInv, StCaching
  <2> QED
    BY <2>3, <2>4 DEF StTell
<1> QED
  BY <1>3, <1>4, <1>5, <1>6, <1>7, <1>8, <1>9 DEF StInv, StDecided

LEMMA StSaveInv == ASSUME StInv, NEW p \in StReqs, StSave(p) PROVE StInv'
<1>1. StVersion' = StVersion /\ StLatest' = StLatest
  BY DEF StVersion, StLatest, stStore, stLocal, stGhost, StSave, StGoto
<1>2. StClean' => StClean
  BY DEF StInv, StudioTypeOK, StClean, stStore, stLocal, stGhost, StSave, StGoto
<1>3. StNumbered'
  BY <1>1 DEF StInv, StNumbered, stStore, stLocal, stGhost, StSave, StGoto
<1>4. StudioTypeOK'
  BY <1>1 DEF StInv, StNumbered, StudioTypeOK, StPC, StOps, StNone, StNoCache, StNothing,
         StConfig, stStore, stLocal, stGhost, StSave, StGoto
<1>5. StPlaced'
  BY <1>1 DEF StInv, StNumbered, StudioTypeOK, StPlaced, StNothing, StOps, StPC, stStore,
         stLocal, stGhost, StSave, StGoto
<1>6. StClean' => StApart'
  BY <1>1, <1>2, StCrossIs DEF StInv, StudioTypeOK, StPlaced, StOps, StDecided, StApart,
         stStore, stLocal, stGhost, StSave, StGoto
<1>7. StClean' => StFixed'
  <2> SUFFICES ASSUME StClean' PROVE StFixed'
    OBVIOUS
  <2>1. StApart /\ StFixed
    BY <1>2 DEF StInv, StDecided
  <2>2. stOp[p] = "approve" /\ \A q \in StReqs \ {p} : stOp[q] # "approve" /\ stPc[q] # "save"
    BY <2>1, StCrossIs DEF StSave, StApart, StInv, StPlaced
  <2>3. /\ stPc'[p] = "idle" /\ stOp'[p] = "none"
        /\ \A q \in StReqs \ {p} : stPc'[q] = stPc[q] /\ stOp'[q] = stOp[q]
    BY DEF StSave, StGoto, StInv, StudioTypeOK
  <2>4. StSaving /\ stProposal' = "approved" /\ UNCHANGED <<stVersions, stRolled, stUndone>>
    BY DEF StSave, StSaving, stGhost
  <2> QED
    BY <1>1, <2>1, <2>2, <2>3, <2>4 DEF StFixed
<1>8. StClean' => StSpoken'
  BY <1>1, <1>2, <1>6, StCrossIs DEF StInv, StudioTypeOK, StDecided, StSpoken, StPlaced,
         stStore, stLocal, stGhost, StSave, StGoto
<1>9. StCaching'
  BY <1>1 DEF StInv, StNumbered, StudioTypeOK, StCaching, StNone, StNoCache, StCached,
         stStore, stLocal, stGhost, StSave, StGoto
<1> QED
  BY <1>3, <1>4, <1>5, <1>6, <1>7, <1>8, <1>9 DEF StInv, StDecided

LEMMA StFileInv == ASSUME StInv, NEW p \in StReqs, StFile(p) PROVE StInv'
<1>1. StVersion' = StVersion /\ StLatest' = StLatest
  BY DEF StVersion, StLatest, stStore, stLocal, stGhost, StFile, StGoto
<1>2. StClean' => StClean
  BY DEF StInv, StudioTypeOK, StClean, stStore, stLocal, stGhost, StFile, StGoto
<1>3. StNumbered'
  BY <1>1 DEF StInv, StNumbered, stStore, stLocal, stGhost, StFile, StGoto
<1>4. StudioTypeOK'
  BY <1>1 DEF StInv, StNumbered, StudioTypeOK, StPC, StOps, StNone, StNoCache, StNothing,
         StConfig, stStore, stLocal, stGhost, StFile, StGoto
<1>5. StPlaced'
  BY <1>1 DEF StInv, StNumbered, StudioTypeOK, StPlaced, StNothing, StOps, StPC, stStore,
         stLocal, stGhost, StFile, StGoto
<1>6. StClean' => StApart'
  BY <1>1, <1>2, StCrossIs DEF StInv, StudioTypeOK, StPlaced, StOps, StDecided, StApart,
         stStore, stLocal, stGhost, StFile, StGoto
<1>7. StClean' => StFixed'
  BY <1>1, <1>2, <1>6, StCrossIs DEF StInv, StudioTypeOK, StDecided, StFixed, StSaving,
         StPlaced, stStore, stLocal, stGhost, StFile, StGoto
<1>8. StClean' => StSpoken'
  <2> SUFFICES ASSUME StClean' PROVE StSpoken'
    OBVIOUS
  <2>1. StApart /\ StSpoken
    BY <1>2 DEF StInv, StDecided
  <2>2. stOp[p] = "delete" /\ \A q \in StReqs \ {p} : stOp[q] # "activate"
    BY <2>1, StCrossIs DEF StFile, StApart, StInv, StPlaced
  <2>3. /\ stPc'[p] = "idle" /\ stOp'[p] = "none"
        /\ \A q \in StReqs \ {p} : stPc'[q] = stPc[q] /\ stOp'[q] = stOp[q]
    BY DEF StFile, StGoto, StInv, StudioTypeOK
  <2>4. /\ stPc[p] = "file" /\ stClone' = "deleted"
        /\ UNCHANGED <<stVersions, stVoice, stRolled>>
    BY DEF StFile, stGhost
  <2> QED
    BY <1>1, <2>1, <2>2, <2>3, <2>4 DEF StSpoken
<1>9. StCaching'
  BY <1>1 DEF StInv, StNumbered, StudioTypeOK, StCaching, StNone, StNoCache, StCached,
         stStore, stLocal, stGhost, StFile, StGoto
<1> QED
  BY <1>3, <1>4, <1>5, <1>6, <1>7, <1>8, <1>9 DEF StInv, StDecided

LEMMA StRejectInv == ASSUME StInv, StReject PROVE StInv'
<1>1. StVersion' = StVersion /\ StLatest' = StLatest
  BY DEF StVersion, StLatest, stStore, stLocal, stGhost, StReject, StMove
<1>2. StClean' => StClean
  BY DEF StInv, StudioTypeOK, StClean, stStore, stLocal, stGhost, StReject, StMove
<1>3. StNumbered'
  BY <1>1 DEF StInv, StNumbered, stStore, stLocal, stGhost, StReject, StMove
<1>4. StudioTypeOK'
  BY <1>1 DEF StInv, StNumbered, StudioTypeOK, StPC, StOps, StNone, StNoCache, StNothing,
         StConfig, stStore, stLocal, stGhost, StReject, StMove
<1>5. StPlaced'
  BY <1>1 DEF StInv, StNumbered, StudioTypeOK, StPlaced, StNothing, StOps, StPC, stStore,
         stLocal, stGhost, StReject, StMove
<1>6. StClean' => StApart'
  BY <1>1, <1>2, StCrossIs DEF StInv, StudioTypeOK, StPlaced, StOps, StDecided, StApart,
         stStore, stLocal, stGhost, StReject, StMove
<1>7. StClean' => StFixed'
  <2> SUFFICES ASSUME StClean' PROVE StFixed'
    OBVIOUS
  <2>1. StFixed /\ \A q \in StReqs : stOp[q] # "approve"
    BY <1>2 DEF StInv, StDecided, StReject, StClean
  <2>2. ~StSaving /\ ~StSaving' /\ UNCHANGED <<stVersions, stOp, stRolled>>
    BY <2>1 DEF StReject, StSaving, stLocal, StInv, StPlaced
  <2>3. /\ stProposal' = "rejected" /\ stProposal \in {"proposed", "approved"}
        /\ ~stUndone' => ~stUndone /\ stProposal = "proposed"
    BY DEF StReject, StInv, StudioTypeOK
  <2> QED
    BY <1>1, <2>1, <2>2, <2>3 DEF StFixed
<1>8. StClean' => StSpoken'
  BY <1>1, <1>2, <1>6, StCrossIs DEF StInv, StudioTypeOK, StDecided, StSpoken, StPlaced,
         stStore, stLocal, stGhost, StReject, StMove
<1>9. StCaching'
  BY <1>1 DEF StInv, StNumbered, StudioTypeOK, StCaching, StNone, StNoCache, StCached,
         stStore, stLocal, stGhost, StReject, StMove
<1> QED
  BY <1>3, <1>4, <1>5, <1>6, <1>7, <1>8, <1>9 DEF StInv, StDecided

LEMMA StRollbackInv == ASSUME StInv, NEW v \in DOMAIN stVersions, StRollback(v) PROVE StInv'
<1>1. StGrown(stVersions[v])
  BY StPublishIs DEF StRollback, StInv, StudioTypeOK
<1>2. StClean' => StClean
  BY DEF StInv, StudioTypeOK, StClean, stStore, stLocal, stGhost, StRollback, StMove
<1>3. StNumbered'
  BY <1>1 DEF StGrown
<1>4. StudioTypeOK'
  <2>1. StVersion' - 1 = StVersion
    BY <1>1, StLatestIn DEF StGrown
  <2> QED
    BY <2>1, <1>1 DEF StRollback, StMove, StGrown, StInv, StudioTypeOK, stLocal
<1>5. StPlaced'
  <2>1. \A u \in DOMAIN stVersions : u \in DOMAIN stVersions' /\ stVersions'[u] = stVersions[u]
    BY <1>1, StLatestIn DEF StGrown
  <2> QED
    BY <2>1 DEF StRollback, stLocal, StInv, StPlaced
<1>6. StClean' => StApart'
  BY <1>1, <1>2, StCrossIs DEF StInv, StudioTypeOK, StPlaced, StOps, StDecided, StApart,
         stStore, stLocal, stGhost, StRollback, StMove
<1>7. StClean' => StFixed'
  <2> SUFFICES ASSUME StClean' PROVE StFixed'
    OBVIOUS
  <2>1. StFixed
    BY <1>2 DEF StInv, StDecided
  <2>2. \A u \in DOMAIN stVersions' : \E w \in DOMAIN stVersions : stVersions'[u] = stVersions[w]
    BY <1>1, StLatestIn DEF StGrown
  <2>3. stRolled' /\ UNCHANGED <<stProposal, stUndone, stPc, stOp>>
    BY DEF StRollback, stLocal
  <2> QED
    BY <2>1, <2>2, <2>3 DEF StFixed, StSaving
<1>8. StClean' => StSpoken'
  BY <1>1, <1>2, <1>6, StCrossIs DEF StInv, StudioTypeOK, StDecided, StSpoken, StPlaced,
         stStore, stLocal, stGhost, StRollback, StMove
<1>9. StCaching'
  BY <1>1, StGrownCaching DEF StRollback
<1> QED
  BY <1>3, <1>4, <1>5, <1>6, <1>7, <1>8, <1>9 DEF StInv, StDecided

LEMMA StRestartInv == ASSUME StInv, StRestart PROVE StInv'
<1>1. StVersion' = StVersion /\ StLatest' = StLatest
  BY DEF StVersion, StLatest, stStore, stLocal, stGhost, StRestart, StMove
<1>2. StClean' => StClean
  BY DEF StInv, StudioTypeOK, StClean, stStore, stLocal, stGhost, StRestart, StMove
<1>3. StNumbered'
  BY <1>1 DEF StInv, StNumbered, stStore, stLocal, stGhost, StRestart, StMove
<1>4. StudioTypeOK'
  BY <1>1 DEF StInv, StNumbered, StudioTypeOK, StPC, StOps, StNone, StNoCache, StNothing,
         StConfig, stStore, stLocal, stGhost, StRestart, StMove
<1>5. StPlaced'
  BY <1>1 DEF StInv, StNumbered, StudioTypeOK, StPlaced, StNothing, StOps, StPC, stStore,
         stLocal, stGhost, StRestart, StMove
<1>6. StClean' => StApart'
  BY <1>1, <1>2, StCrossIs DEF StInv, StudioTypeOK, StPlaced, StOps, StDecided, StApart,
         stStore, stLocal, stGhost, StRestart, StMove
<1>7. StClean' => StFixed'
  <2>1. ~StClean'
    BY DEF StRestart, StClean
  <2> QED
    BY <2>1
<1>8. StClean' => StSpoken'
  <2>1. ~StClean'
    BY DEF StRestart, StClean
  <2> QED
    BY <2>1
<1>9. StCaching'
  BY <1>1 DEF StInv, StNumbered, StudioTypeOK, StCaching, StNone, StNoCache, StCached,
         stStore, stLocal, stGhost, StRestart, StMove
<1> QED
  BY <1>3, <1>4, <1>5, <1>6, <1>7, <1>8, <1>9 DEF StInv, StDecided

LEMMA StResolveInv == ASSUME StInv, StResolve PROVE StInv'
<1>1. StVersion' = StVersion /\ StLatest' = StLatest
  BY DEF StVersion, StLatest, stStore, stLocal, stGhost, StResolve
<1>2. StClean' => StClean
  BY DEF StInv, StudioTypeOK, StClean, stStore, stLocal, stGhost, StResolve
<1>3. StNumbered'
  BY <1>1 DEF StInv, StNumbered, stStore, stLocal, stGhost, StResolve
<1>4. StudioTypeOK'
  <2>1. stFetch' \in Nat
    BY StLatestIn DEF StResolve
  <2> QED
    BY <2>1, <1>1 DEF StResolve, StInv, StudioTypeOK, stLocal, stGhost
<1>5. StPlaced'
  BY <1>1 DEF StInv, StNumbered, StudioTypeOK, StPlaced, StNothing, StOps, StPC, stStore,
         stLocal, stGhost, StResolve
<1>6. StClean' => StApart'
  BY <1>1, <1>2, StCrossIs DEF StInv, StudioTypeOK, StPlaced, StOps, StDecided, StApart,
         stStore, stLocal, stGhost, StResolve
<1>7. StClean' => StFixed'
  BY <1>1, <1>2, <1>6, StCrossIs DEF StInv, StudioTypeOK, StDecided, StFixed, StSaving,
         StPlaced, stStore, stLocal, stGhost, StResolve
<1>8. StClean' => StSpoken'
  BY <1>1, <1>2, <1>6, StCrossIs DEF StInv, StudioTypeOK, StDecided, StSpoken, StPlaced,
         stStore, stLocal, stGhost, StResolve
<1>9. StCaching'
  <2>1. stFetch' = StVersion /\ UNCHANGED <<stVersions, stEnded, stCache, stNow, stTold, stLate>>
    BY DEF StResolve, stGhost
  <2> QED
    BY <2>1, <1>1, StLatestIn DEF StInv, StCaching
<1> QED
  BY <1>3, <1>4, <1>5, <1>6, <1>7, <1>8, <1>9 DEF StInv, StDecided

LEMMA StSetInv == ASSUME StInv, StSet PROVE StInv'
<1>1. StVersion' = StVersion /\ StLatest' = StLatest
  BY DEF StVersion, StLatest, stStore, stLocal, stGhost, StSet, StUntil
<1>2. StClean' => StClean
  BY DEF StInv, StudioTypeOK, StClean, stStore, stLocal, stGhost, StSet, StUntil
<1>3. StNumbered'
  BY <1>1 DEF StInv, StNumbered, stStore, stLocal, stGhost, StSet, StUntil
<1>4. StudioTypeOK'
  BY <1>1 DEF StInv, StNumbered, StudioTypeOK, StPC, StOps, StNone, StNoCache, StNothing,
         StConfig, stStore, stLocal, stGhost, StSet, StUntil
<1>5. StPlaced'
  BY <1>1 DEF StInv, StNumbered, StudioTypeOK, StPlaced, StNothing, StOps, StPC, stStore,
         stLocal, stGhost, StSet, StUntil
<1>6. StClean' => StApart'
  BY <1>1, <1>2, StCrossIs DEF StInv, StudioTypeOK, StPlaced, StOps, StDecided, StApart,
         stStore, stLocal, stGhost, StSet, StUntil
<1>7. StClean' => StFixed'
  BY <1>1, <1>2, <1>6, StCrossIs DEF StInv, StudioTypeOK, StDecided, StFixed, StSaving,
         StPlaced, stStore, stLocal, stGhost, StSet, StUntil
<1>8. StClean' => StSpoken'
  BY <1>1, <1>2, <1>6, StCrossIs DEF StInv, StudioTypeOK, StDecided, StSpoken, StPlaced,
         stStore, stLocal, stGhost, StSet, StUntil
<1>9. StCaching'
  BY <1>1 DEF StInv, StNumbered, StudioTypeOK, StCaching, StNone, StNoCache, StCached,
         stStore, stLocal, stGhost, StSet, StUntil
<1> QED
  BY <1>3, <1>4, <1>5, <1>6, <1>7, <1>8, <1>9 DEF StInv, StDecided

LEMMA StTickInv == ASSUME StInv, StTick PROVE StInv'
<1>1. StVersion' = StVersion /\ StLatest' = StLatest
  BY DEF StVersion, StLatest, stStore, stLocal, stGhost, StTick
<1>2. StClean' => StClean
  BY DEF StInv, StudioTypeOK, StClean, stStore, stLocal, stGhost, StTick
<1>3. StNumbered'
  BY <1>1 DEF StInv, StNumbered, stStore, stLocal, stGhost, StTick
<1>4. StudioTypeOK'
  BY <1>1 DEF StInv, StNumbered, StudioTypeOK, StPC, StOps, StNone, StNoCache, StNothing,
         StConfig, stStore, stLocal, stGhost, StTick
<1>5. StPlaced'
  BY <1>1 DEF StInv, StNumbered, StudioTypeOK, StPlaced, StNothing, StOps, StPC, stStore,
         stLocal, stGhost, StTick
<1>6. StClean' => StApart'
  BY <1>1, <1>2, StCrossIs DEF StInv, StudioTypeOK, StPlaced, StOps, StDecided, StApart,
         stStore, stLocal, stGhost, StTick
<1>7. StClean' => StFixed'
  BY <1>1, <1>2, <1>6, StCrossIs DEF StInv, StudioTypeOK, StDecided, StFixed, StSaving,
         StPlaced, stStore, stLocal, stGhost, StTick
<1>8. StClean' => StSpoken'
  BY <1>1, <1>2, <1>6, StCrossIs DEF StInv, StudioTypeOK, StDecided, StSpoken, StPlaced,
         stStore, stLocal, stGhost, StTick
<1>9. StCaching'
  BY <1>1 DEF StInv, StNumbered, StudioTypeOK, StCaching, StNone, StNoCache, StCached,
         stStore, stLocal, stGhost, StTick
<1> QED
  BY <1>3, <1>4, <1>5, <1>6, <1>7, <1>8, <1>9 DEF StInv, StDecided

LEMMA StStutterInv == ASSUME StInv, UNCHANGED studioVars PROVE StInv'
<1>1. StVersion' = StVersion /\ StLatest' = StLatest
  BY DEF StVersion, StLatest, stStore, stLocal, stGhost, studioVars
<1>2. StClean' => StClean
  BY DEF StInv, StudioTypeOK, StClean, stStore, stLocal, stGhost, studioVars
<1>3. StNumbered'
  BY <1>1 DEF StInv, StNumbered, stStore, stLocal, stGhost, studioVars
<1>4. StudioTypeOK'
  BY <1>1 DEF StInv, StNumbered, StudioTypeOK, StPC, StOps, StNone, StNoCache, StNothing,
         StConfig, stStore, stLocal, stGhost, studioVars
<1>5. StPlaced'
  BY <1>1 DEF StInv, StNumbered, StudioTypeOK, StPlaced, StNothing, StOps, StPC, stStore,
         stLocal, stGhost, studioVars
<1>6. StClean' => StApart'
  BY <1>1, <1>2, StCrossIs DEF StInv, StudioTypeOK, StPlaced, StOps, StDecided, StApart,
         stStore, stLocal, stGhost, studioVars
<1>7. StClean' => StFixed'
  BY <1>1, <1>2, <1>6, StCrossIs DEF StInv, StudioTypeOK, StDecided, StFixed, StSaving,
         StPlaced, stStore, stLocal, stGhost, studioVars
<1>8. StClean' => StSpoken'
  BY <1>1, <1>2, <1>6, StCrossIs DEF StInv, StudioTypeOK, StDecided, StSpoken, StPlaced,
         stStore, stLocal, stGhost, studioVars
<1>9. StCaching'
  BY <1>1 DEF StInv, StNumbered, StudioTypeOK, StCaching, StNone, StNoCache, StCached,
         stStore, stLocal, stGhost, studioVars
<1> QED
  BY <1>3, <1>4, <1>5, <1>6, <1>7, <1>8, <1>9 DEF StInv, StDecided

LEMMA StInitInv == StudioInit => StInv
<1> SUFFICES ASSUME StudioInit PROVE StInv
  OBVIOUS
<1>1. DOMAIN stVersions = 1 .. 1
  BY DEF StudioInit
<1>2. StVersion = 1 /\ StNumbered
  BY <1>1, StVersionIs DEF StNumbered
<1>3. StudioTypeOK
  <2>1. \A v \in DOMAIN stVersions : stVersions[v] \in StConfig
    BY <1>1 DEF StudioInit, StConfig, StNothing, StNone
  <2>2. stHeld \in [StReqs -> [version: Nat, config: StConfig]]
    BY DEF StudioInit, StConfig, StNothing, StNone
  <2>3. stEnded \in [1 .. StVersion - 1 -> Nat]
    BY <1>2 DEF StudioInit
  <2>4. /\ stPc \in [StReqs -> StPC] /\ stOp \in [StReqs -> StOps \cup {"none"}]
        /\ stCache \in [version: Nat, until: Nat] /\ stFetch \in Nat /\ stNow \in Nat
        /\ stMoves \in Nat /\ stTold \in Nat
    BY DEF StudioInit, StPC, StNoCache, StNone
  <2>5. stVoice \in BOOLEAN /\ stLate \in BOOLEAN
        /\ {stTorn, stCrossed, stCut, stRolled, stUndone} \subseteq BOOLEAN
    BY DEF StudioInit
  <2> QED
    BY <1>1, <1>2, <2>1, <2>2, <2>3, <2>4, <2>5 DEF StudioInit, StudioTypeOK
<1>4. StPlaced
  BY DEF StudioInit, StPlaced
<1>5. StLatest.fix = 0 /\ ~StLatest.cloned /\ \A v \in DOMAIN stVersions : stVersions[v].fix = 0
  BY <1>1, <1>2 DEF StudioInit, StLatest, StNothing
<1>6. StDecided
  BY <1>5, StCrossIs DEF StudioInit, StDecided, StApart, StFixed, StSaving, StSpoken
<1>7. StCaching
  BY <1>2 DEF StudioInit, StCaching, StNoCache, StNone
<1> QED
  BY <1>2, <1>3, <1>4, <1>6, <1>7 DEF StInv

LEMMA StNextInv == ASSUME StInv, [StudioNext]_studioVars PROVE StInv'
<1>1. ASSUME NEW p \in StReqs,
             StBlock(p) \/ StStudio(p) \/ StApprove(p) \/ StActivate(p) \/ StDelete(p)
      PROVE  StInv'
  BY <1>1, StBeginInv DEF StBlock, StStudio, StApprove, StActivate, StDelete, StOps
<1>2. ASSUME NEW p \in StReqs,
             \/ StDeleteVoice(p) \/ StRead(p) \/ StWrite(p) \/ StBlocked(p)
             \/ StTell(p) \/ StSave(p) \/ StFile(p)
      PROVE  StInv'
  BY <1>2, StDeleteVoiceInv, StReadInv, StWriteInv, StBlockedInv, StTellInv, StSaveInv, StFileInv
<1>3. ASSUME \/ StReject \/ (\E v \in DOMAIN stVersions : StRollback(v)) \/ StRestart
             \/ StResolve \/ StSet \/ StTick
      PROVE  StInv'
  BY <1>3, StRejectInv, StRollbackInv, StRestartInv, StResolveInv, StSetInv, StTickInv
<1> QED
  BY <1>1, <1>2, <1>3, StStutterInv DEF StudioNext

LEMMA StSpecInv == StudioSpec => []StInv
BY StInitInv, StNextInv, PTL DEF StudioSpec

\* The versions of a configuration, the cache and the operations under way.
THEOREM StudioTypeCorrect == StudioSpec => []StudioTypeOK
<1>1. StInv => StudioTypeOK
  BY DEF StInv
<1> QED
  BY <1>1, StSpecInv, PTL

\* A proposal is in the configuration exactly when it was approved, and the voice the
\* assistant speaks with exists, on the terms DecisionsStand names (approve, reject,
\* activate, delete, rollback_version).
THEOREM DecisionsAlwaysStand == StudioSpec => []DecisionsStand
<1>1. StInv => DecisionsStand
  <2> SUFFICES ASSUME StInv, \A p \in StReqs : stPc[p] = "idle", StClean
               PROVE  /\ StLatest.fix <= 1
                      /\ stProposal = "proposed" => StLatest.fix = 0
                      /\ stProposal = "approved" /\ ~stRolled => StLatest.fix = 1
                      /\ stProposal = "rejected" /\ ~stUndone => StLatest.fix = 0
                      /\ StLatest.cloned /\ ~stRolled => stClone = "ready" /\ stVoice
    BY DEF DecisionsStand, StLatest, StClean
  <2>1. StFixed /\ StSpoken /\ ~StSaving
    BY DEF StInv, StDecided, StSaving
  <2>2. stVoice \in BOOLEAN
    BY DEF StInv, StudioTypeOK
  <2> QED
    BY <2>1, <2>2, StLatestIn DEF StFixed, StSpoken, StLatest
<1> QED
  BY <1>1, StSpecInv, PTL

\* The configuration a call is handled with was current within the life of a cache
\* entry, and is none the Studio told the cache to drop (resolve, upsert_assistant).
THEOREM CallsAlwaysGetRecentConfig == StudioSpec => []CallsGetRecentConfig
<1>1. StInv => CallsGetRecentConfig
  <2> SUFFICES ASSUME StInv, StCached
               PROVE  /\ \/ stCache.version = StVersion
                         \/ stEnded[stCache.version] + StTtl > stNow
                      /\ stLate \/ stCache.version >= stTold
    BY DEF CallsGetRecentConfig
  <2>1. stCache.version # StNone /\ stNow < stCache.until
    BY DEF StCached
  <2>2. \/ stCache.version = StVersion
        \/ /\ stEnded[stCache.version] + StTtl >= stCache.until
           /\ stCache.version \in 1 .. StVersion - 1
    BY <2>1, StLatestIn DEF StInv, StCaching
  <2> QED
    BY <2>1, <2>2, StLatestIn DEF StInv, StCaching, StudioTypeOK
<1> QED
  BY <1>1, StSpecInv, PTL
===============================================================================
