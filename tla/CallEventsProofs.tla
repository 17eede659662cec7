--------------------------- MODULE CallEventsProofs ---------------------------
(* Proofs about CallEvents, for any calls, request handlers and bounds. *)
EXTENDS CallEvents, FiniteSetTheorems, TLAPS

Handling == {"fold", "insert", "folded", "hub", "check", "text", "log"}

\* A process that handles an event has one, and the consumer's is in its batch.
ProcOK ==
  /\ \A p \in Proc : pc[p] \in Handling => ev[p] \in Event
  /\ \A p \in Proc : pc[p] \in {"text", "log"} => text[p] \in Triggers
  /\ pc[Consumer] \in Handling \cup {"ack"} => batch # <<>>

Typed == TypeOK /\ ProcOK

-------------------------------------------------------------------------------
(* Types. *)

LEMMA EvType ==
  ASSUME NEW c \in Calls, NEW kind \in WorkerKinds
  PROVE  Ev(c, kind) \in Event
  BY DEF Ev, Event

LEMMA InitTyped == Init => Typed
<1> SUFFICES ASSUME Init PROVE Typed
  OBVIOUS
<1>1. MaxCloses \in Nat /\ MaxDetours \in Nat /\ MaxFaults \in Nat
  BY CallEventsAssumption
<1>2. TypeOK
  BY <1>1 DEF Init, TypeOK, Phases, Asks, PC, Triggers
<1>3. ProcOK
  BY DEF Init, ProcOK, Handling, Proc
<1> QED
  BY <1>2, <1>3 DEF Typed

LEMMA ProgressTyped ==
  ASSUME Typed, NEW c \in Calls, NEW from, NEW to \in Phases, NEW kind \in WorkerKinds,
         Progress(c, from, to, kind)
  PROVE  Typed'
<1>1. Ev(c, kind) \in Event
  BY EvType
<1>2. phase' \in [Calls -> Phases]
  BY DEF Typed, TypeOK, Progress
<1>3. flight' \subseteq Flight
  BY <1>1 DEF Typed, TypeOK, Progress, Emit, Flight
<1>4. TypeOK'
  BY <1>2, <1>3 DEF Typed, TypeOK, Progress, api, memory, calls, ticket, sms, ghost
<1>5. ProcOK'
  BY DEF Typed, ProcOK, Progress, api
<1> QED
  BY <1>4, <1>5 DEF Typed

LEMMA TakeEntryTyped == ASSUME Typed, TakeEntry PROVE Typed'
<1>1. Head(batch) \in Event
  BY DEF Typed, TypeOK, TakeEntry
<1>2. Consumer \in Proc
  BY DEF Proc
<1>3. TypeOK'
  BY <1>1, <1>2 DEF Typed, TypeOK, TakeEntry, PC, worker, memory, calls, ticket, sms, ghost
<1>4. ProcOK'
  BY <1>1, <1>2 DEF Typed, TypeOK, ProcOK, TakeEntry, Handling
<1> QED
  BY <1>3, <1>4 DEF Typed

LEMMA FoldRowType ==
  ASSUME NEW r \in Row, NEW e \in Event
  PROVE  FoldRow(r, e) \in Row
<1> DEFINE s == r.started \/ e.kind = "started"
           a == r.answered \/ e.kind = "answered"
           t == IF IsEnd(e) THEN "completed"
                ELSE IF e.kind = "answered" THEN "in_progress" ELSE r.status
<1>1. s \in BOOLEAN /\ a \in BOOLEAN
  BY Zenon
<1>2. t \in RowStatus
  BY DEF Row, RowStatus
<1>3. FoldRow(r, e) = [r EXCEPT !.started = s, !.answered = a, !.status = t]
  BY DEF FoldRow
<1> HIDE DEF s, a, t
<1> QED
  BY <1>1, <1>2, <1>3 DEF Row

(* Moving a process to another step of its event, or ending it, leaves the      *)
(* processes in order.                                                          *)
LocalOK == pc \in [Proc -> PC] /\ ev \in [Proc -> Event \cup {NoEvent}] /\ ProcOK

LEMMA HandlingEvent ==
  ASSUME Typed, NEW p \in Proc, pc[p] \in Handling
  PROVE  ev[p] \in Event /\ ev[p].call \in Calls
  BY DEF Typed, ProcOK, Event

LEMMA GotoTyped ==
  ASSUME Typed, NEW p \in Proc, pc[p] \in Handling, NEW next \in Handling,
         Goto(p, next), UNCHANGED batch,
         \A q \in Proc : pc'[q] \in {"text", "log"} => text'[q] \in Triggers
  PROVE  LocalOK'
<1>1. pc' \in [Proc -> PC] /\ ev' \in [Proc -> Event \cup {NoEvent}]
  BY DEF Typed, TypeOK, Goto, Handling, PC
<1>2. ProcOK'
  BY DEF Typed, TypeOK, ProcOK, Goto
<1> QED
  BY <1>1, <1>2 DEF LocalOK

LEMMA DoneTyped ==
  ASSUME Typed, NEW p \in Proc, pc[p] \in Handling, Done(p), UNCHANGED batch,
         \A q \in Proc \ {p} : text'[q] = text[q]
  PROVE  LocalOK'
<1>1. pc' \in [Proc -> PC] /\ ev' \in [Proc -> Event \cup {NoEvent}]
  BY DEF Typed, TypeOK, Done, PC
<1>2. \A q \in Proc : pc'[q] \in Handling => q # p /\ pc'[q] = pc[q] /\ ev'[q] = ev[q]
  BY DEF Typed, TypeOK, Done, Handling
<1>3. pc'[Consumer] \in Handling \cup {"ack"} => batch # <<>>
  BY DEF Typed, TypeOK, ProcOK, Done
<1>4. ProcOK'
  BY <1>2, <1>3 DEF Typed, ProcOK, Handling
<1> QED
  BY <1>1, <1>4 DEF LocalOK

LEMMA RekeyType ==
  ASSUME NEW n \in Row, NEW S \in SUBSET Row
  PROVE  {[n EXCEPT !.key = s.key] : s \in S} \in SUBSET Row
<1> SUFFICES ASSUME NEW s \in S PROVE [n EXCEPT !.key = s.key] \in Row
  OBVIOUS
<1>1. s.key \in Event
  BY DEF Row
<1> QED
  BY <1>1 DEF Row

LEMMA FoldTyped == ASSUME Typed, NEW p \in Proc, Fold(p) PROVE Typed'
<1> USE DEF Typed, TypeOK
<1> DEFINE c == ev[p].call
<1>1. pc[p] \in Handling /\ ev[p] \in Event /\ c \in Calls
  BY HandlingEvent DEF Fold, Mine, Handling
<1>2. PICK r \in rows[c] :
        rows' = [rows EXCEPT ![c] = {[FoldRow(r, ev[p]) EXCEPT !.key = s.key] : s \in @}]
  BY DEF Fold
<1> DEFINE R == {[FoldRow(r, ev[p]) EXCEPT !.key = s.key] : s \in rows[c]}
<1>3. r \in Row /\ rows[c] \subseteq Row
  BY <1>1
<1>4. FoldRow(r, ev[p]) \in Row
  BY <1>1, <1>3, FoldRowType
<1>5. R \subseteq Row
  BY <1>3, <1>4, RekeyType
<1>6. rows' = [rows EXCEPT ![c] = R]
  BY <1>2
<1>7. rows' \in [Calls -> SUBSET Row]
  <2> HIDE DEF R
  <2> QED
    BY <1>1, <1>5, <1>6
<1>8. LocalOK'
  BY <1>1, GotoTyped DEF Fold, rest, Handling, ProcOK, Goto
<1>9. TypeOK'
  BY <1>1, <1>7, <1>8 DEF Fold, Recorded, LocalOK, rest, worker, memory, ticket, sms
<1> QED
  BY <1>8, <1>9 DEF LocalOK
LEMMA AskTicketTyped == ASSUME Typed, NEW c \in Calls, AskTicket(c) PROVE Typed'
<1>1. TypeOK'
  BY DEF Typed, TypeOK, AskTicket, Asks, memory, calls, ticket, sms, ghost
<1>2. ProcOK'
  BY DEF Typed, ProcOK, AskTicket
<1> QED
  BY <1>1, <1>2 DEF Typed

LEMMA TicketAnsweredTyped == ASSUME Typed, NEW c \in Calls, TicketAnswered(c) PROVE Typed'
<1>1. Ev(c, "ticket") \in Event
  BY EvType DEF WorkerKinds
<1>2. TypeOK'
  BY <1>1, SMTT(30) DEF Typed, TypeOK, TicketAnswered, Emit, Flight, Asks, api, memory, calls, ticket,
              sms, ghost
<1>3. ProcOK'
  BY DEF Typed, ProcOK, TicketAnswered, api
<1> QED
  BY <1>2, <1>3 DEF Typed

LEMMA TicketGivenUpTyped == ASSUME Typed, NEW c \in Calls, TicketGivenUp(c) PROVE Typed'
<1>1. Ev(c, "intake") \in Event
  BY EvType DEF WorkerKinds
<1>2. TypeOK'
  BY <1>1, SMTT(30) DEF Typed, TypeOK, TicketGivenUp, Emit, Flight, Asks, api, memory, calls, ticket, sms
<1>3. ProcOK'
  BY DEF Typed, ProcOK, TicketGivenUp, api
<1> QED
  BY <1>2, <1>3 DEF Typed

LEMMA WorkerDiesTyped ==
  ASSUME Typed, NEW c \in Calls, WorkerDies(c) \/ DeclinedQuits(c)
  PROVE  Typed'
<1>1. faults' \in 0..MaxFaults
  BY CallEventsAssumption DEF Typed, TypeOK, WorkerDies, DeclinedQuits
<1>2. phase' \in [Calls -> Phases] /\ flight' \subseteq Flight
  BY DEF Typed, TypeOK, WorkerDies, DeclinedQuits, Phases
<1>3. TypeOK'
  BY <1>1, <1>2 DEF Typed, TypeOK, WorkerDies, DeclinedQuits, api, memory, calls, ticket, sms, ghost
<1>4. ProcOK'
  BY DEF Typed, ProcOK, WorkerDies, DeclinedQuits, api
<1> QED
  BY <1>3, <1>4 DEF Typed

LEMMA WorkerTyped == ASSUME Typed, NEW c \in Calls, Worker(c) PROVE Typed'
<1>1. CASE Start(c) \/ Decline(c) \/ Answer(c) \/ End(c)
  BY <1>1, ProgressTyped DEF Start, Decline, Answer, End, Phases, WorkerKinds
<1> QED
  BY <1>1, WorkerDiesTyped, AskTicketTyped, TicketAnsweredTyped, TicketGivenUpTyped DEF Worker

LEMMA XAddTyped == ASSUME Typed, NEW f \in flight, XAdd(f) PROVE Typed'
<1>1. f.ev \in Event
  BY DEF Typed, TypeOK, Flight
<1>2. TypeOK'
  BY <1>1, SMTT(30) DEF Typed, TypeOK, XAdd, worker, memory, calls, ticket, sms, ghost
<1>3. ProcOK'
  BY DEF Typed, ProcOK, XAdd
<1> QED
  BY <1>2, <1>3 DEF Typed

LEMMA XAddRaisesTyped == ASSUME Typed, NEW f \in flight, XAddRaises(f) PROVE Typed'
<1>1. f \in Flight /\ f.ev \in Event
  BY DEF Typed, TypeOK, Flight
<1>2. [f EXCEPT !.way = "http"] \in Flight
  BY <1>1 DEF Flight
<1>3. TypeOK'
  <2>1. detours' \in 0..MaxDetours
    BY CallEventsAssumption DEF Typed, TypeOK, XAddRaises
  <2>2. stream' \in Seq(Event)
    <3>1. stream \in Seq(Event) /\ Append(stream, f.ev) \in Seq(Event)
      BY <1>1 DEF Typed, TypeOK
    <3> QED
      BY <3>1 DEF XAddRaises
  <2>3. flight' \subseteq Flight
    BY <1>2 DEF Typed, TypeOK, XAddRaises
  <2> QED
    BY <2>1, <2>2, <2>3
    DEF Typed, TypeOK, XAddRaises, worker, memory, calls, ticket, sms, ghost
<1>4. ProcOK'
  BY DEF Typed, ProcOK, XAddRaises
<1> QED
  BY <1>3, <1>4 DEF Typed

LEMMA PostTyped == ASSUME Typed, NEW f \in flight, Post(f) PROVE Typed'
<1>1. f.ev \in Event
  BY DEF Typed, TypeOK, Flight
<1>2. PICK h \in Handlers :
        /\ pc[h] = "idle"
        /\ pc' = [pc EXCEPT ![h] = "fold"]
        /\ ev' = [ev EXCEPT ![h] = f.ev]
  BY DEF Post
<1>3. h \in Proc /\ Consumer \in Proc /\ h # Consumer
  BY CallEventsAssumption DEF Proc
<1>4. TypeOK'
  BY <1>1, <1>2, <1>3 DEF Typed, TypeOK, PC, Post, worker, memory, calls, ticket, sms, ghost
<1>5. ProcOK'
  BY <1>1, <1>2, <1>3 DEF Typed, TypeOK, ProcOK, Post
<1> QED
  BY <1>4, <1>5 DEF Typed

LEMMA PostLostTyped == ASSUME Typed, NEW f \in flight, PostLost(f) PROVE Typed'
<1>1. TypeOK'
  BY CallEventsAssumption, SMTT(30) DEF Typed, TypeOK, PostLost, api, worker, memory, calls, ticket, sms, ghost
<1>2. ProcOK'
  BY DEF Typed, ProcOK, PostLost, api
<1> QED
  BY <1>1, <1>2 DEF Typed

LEMMA ConsumeTyped == ASSUME Typed, Consume \/ AckRaises PROVE Typed'
<1>1. Consumer \in Proc
  BY DEF Proc
<1>2. CASE Read
  <2>1. TypeOK'
    BY <1>2 DEF Typed, TypeOK, Read, worker, memory, calls, ticket, sms, ghost
  <2>2. ProcOK'
    BY <1>2 DEF Typed, ProcOK, Read
  <2> QED
    BY <2>1, <2>2 DEF Typed
<1>3. CASE TakeEntry
  BY <1>3, TakeEntryTyped
<1>4. CASE Ack
  <2>1. batch # <<>>
    BY <1>4 DEF Typed, ProcOK, Ack
  <2>2. TypeOK'
    <3>1. batch' \in Seq(Event)
      BY <1>4, <2>1 DEF Typed, TypeOK, Ack
    <3>2. pc' \in [Proc -> PC]
      BY <1>1, <1>4 DEF Typed, TypeOK, Ack, PC
    <3> QED
      BY <1>4, <3>1, <3>2 DEF Typed, TypeOK, Ack, worker, memory, calls, ticket, sms, ghost
  <2>3. ProcOK'
    BY <1>1, <1>4 DEF Typed, TypeOK, ProcOK, Handling, Ack
  <2> QED
    BY <2>2, <2>3 DEF Typed
<1>5. CASE AckRaises
  <2>1. TypeOK'
    <3>1. pc' \in [Proc -> PC]
      BY <1>1, <1>5 DEF Typed, TypeOK, AckRaises, PC
    <3>2. faults' \in 0..MaxFaults
      BY <1>5, CallEventsAssumption DEF Typed, TypeOK, AckRaises
    <3> QED
      BY <1>5, <3>1, <3>2 DEF Typed, TypeOK, AckRaises, worker, memory, calls, ticket, sms, ghost
  <2>2. ProcOK'
    BY <1>1, <1>5 DEF Typed, TypeOK, ProcOK, Handling, AckRaises
  <2> QED
    BY <2>1, <2>2 DEF Typed
<1> QED
  BY <1>2, <1>3, <1>4, <1>5 DEF Consume

LEMMA CloseGhostTyped ==
  ASSUME Typed, NEW h \in Handlers, NEW c \in Calls, CloseGhost(h, c)
  PROVE  Typed'
<1>1. h \in Proc /\ Consumer \in Proc /\ h # Consumer
  BY CallEventsAssumption DEF Proc
<1>2. closes + 1 \in 1..MaxCloses
  BY CallEventsAssumption DEF Typed, TypeOK, CloseGhost
<1>3. [call |-> c, kind |-> "closed", n |-> closes + 1] \in Event
  BY <1>2 DEF Event
<1>4. TypeOK'
  <2>1. closes' \in 0..MaxCloses
    BY <1>2, CallEventsAssumption DEF Typed, TypeOK, CloseGhost
  <2>2. pc' \in [Proc -> PC] /\ ev' \in [Proc -> Event \cup {NoEvent}]
    BY <1>1, <1>3 DEF Typed, TypeOK, CloseGhost, PC
  <2> QED
    BY <2>1, <2>2 DEF Typed, TypeOK, CloseGhost, worker, memory, calls, ticket, sms, ghost
<1>5. ProcOK'
  BY <1>1, <1>3 DEF Typed, TypeOK, ProcOK, CloseGhost
<1> QED
  BY <1>4, <1>5 DEF Typed

LEMMA FoldAgainTyped == ASSUME Typed, NEW p \in Proc, FoldAgain(p) PROVE Typed'
<1>1. LocalOK'
  BY DoneTyped DEF FoldAgain, Handling, rest
<1> QED
  BY <1>1 DEF Typed, TypeOK, LocalOK, FoldAgain, rest, worker, memory, calls, ticket, sms, ghost

LEMMA FoldFirstTyped == ASSUME Typed, NEW p \in Proc, FoldFirst(p) PROVE Typed'
<1>1. LocalOK'
  BY GotoTyped DEF FoldFirst, Mine, Goto, Handling, rest, Typed, TypeOK, ProcOK
<1> QED
  BY <1>1 DEF Typed, TypeOK, LocalOK, FoldFirst, rest, worker, memory, calls, ticket, sms, ghost

LEMMA InsertTyped == ASSUME Typed, NEW p \in Proc, Insert(p) PROVE Typed'
<1> DEFINE e   == ev[p]
           new == FoldRow(NewRow(e), e)
<1>1. pc[p] \in Handling /\ e \in Event /\ e.call \in Calls
  BY HandlingEvent DEF Insert, Handling
<1>2. NewRow(e) \in Row
  BY <1>1 DEF NewRow, Row, RowStatus
<1>3. new \in Row
  BY <1>1, <1>2, FoldRowType
<1>4. PICK visible \in SUBSET rows[e.call] :
        rows' = [rows EXCEPT ![e.call] =
                   (@ \ visible) \cup {[new EXCEPT !.key = s.key] : s \in visible} \cup {new}]
  BY DEF Insert
<1> DEFINE old == rows[e.call]
           R == {[new EXCEPT !.key = s.key] : s \in visible}
<1> HIDE DEF new
<1>5. old \in SUBSET Row /\ visible \in SUBSET Row
  BY <1>1 DEF Typed, TypeOK
<1>6. R \in SUBSET Row
  BY <1>3, <1>5, RekeyType
<1>7. rows' = [rows EXCEPT ![e.call] = (old \ visible) \cup R \cup {new}]
  BY <1>4
<1>8. rows' \in [Calls -> SUBSET Row]
  <2> HIDE DEF R
  <2> QED
    BY <1>1, <1>3, <1>5, <1>6, <1>7 DEF Typed, TypeOK
<1>9. LocalOK'
  BY <1>1, GotoTyped DEF Insert, Goto, Handling, rest, Typed, TypeOK, ProcOK
<1>10. seen' \subseteq Event /\ overtaken' \subseteq Calls
  BY <1>1 DEF Typed, TypeOK, Insert, Recorded
<1> QED
  BY <1>8, <1>9, <1>10
  DEF Typed, TypeOK, LocalOK, Insert, rest, worker, memory, ticket, sms

LEMMA FoldRaisesTyped == ASSUME Typed, NEW p \in Proc, FoldRaises(p) PROVE Typed'
<1>1. LocalOK'
  BY DoneTyped DEF FoldRaises, Handling, rest
<1> QED
  BY <1>1, CallEventsAssumption
  DEF Typed, TypeOK, LocalOK, FoldRaises, rest, worker, memory, calls, ticket, sms, ghost

LEMMA RebuildTyped ==
  ASSUME Typed, NEW p \in Proc, Rebuild(p) \/ RebuildRaises(p)
  PROVE  Typed'
<1>1. pc[p] \in Handling /\ ev[p] \in Event /\ ev[p].call \in Calls
  BY HandlingEvent DEF Rebuild, RebuildRaises, Handling
<1>2. rebuilt' \in [Calls -> Nat]
  <2>1. rebuilt \in [Calls -> Nat] /\ rebuilt[ev[p].call] + 1 \in Nat
    BY <1>1 DEF Typed, TypeOK
  <2>2. rebuilt' = rebuilt \/ rebuilt' = [rebuilt EXCEPT ![ev[p].call] = rebuilt[ev[p].call] + 1]
    BY DEF Rebuild, RebuildRaises
  <2> QED
    BY <1>1, <2>1, <2>2
<1>3. CASE Rebuild(p)
  <2>1. LocalOK'
    BY <1>3, GotoTyped DEF Rebuild, Goto, Handling, rest, Typed, TypeOK, ProcOK
  <2> QED
    BY <1>2, <1>3, <2>1
    DEF Typed, TypeOK, LocalOK, Rebuild, rest, worker, memory, calls, sms, ghost
<1>4. CASE RebuildRaises(p)
  <2>1. LocalOK'
    BY <1>4, DoneTyped DEF RebuildRaises, Handling, rest
  <2> QED
    BY <1>2, <1>4, <2>1
    DEF Typed, TypeOK, LocalOK, RebuildRaises, rest, worker, memory, calls, sms, ghost
<1> QED
  BY <1>3, <1>4

LEMMA RememberType ==
  ASSUME recent \in Seq(Calls), forgotten \subseteq Calls, NEW c \in Calls, Remember(c)
  PROVE  recent' \in Seq(Calls) /\ forgotten' \subseteq Calls
<1> DEFINE longer == Append(recent, c)
           kept   == IF Len(longer) > RecentLimit THEN Tail(longer) ELSE longer
<1>1. longer \in Seq(Calls) /\ longer # <<>>
  OBVIOUS
<1>2. kept \in Seq(Calls)
  BY <1>1
<1>3. Range(longer) \subseteq Calls
  BY <1>1 DEF Range
<1>4. recent' = kept /\ forgotten' = (forgotten \cup Range(longer)) \ Range(kept)
  BY DEF Remember
<1> QED
  BY <1>2, <1>3, <1>4

LEMMA EffectsTyped == ASSUME Typed, NEW p \in Proc, Effects(p) PROVE Typed'
<1> DEFINE c == ev[p].call
<1>1. pc[p] \in Handling /\ ev[p] \in Event /\ c \in Calls
  BY HandlingEvent DEF Effects, Handling
<1>2. queue' \in [Calls -> Nat]
  BY <1>1 DEF Typed, TypeOK, Effects, Ended
<1>3. CASE IsEnd(ev[p])
  <2>1. recent' \in Seq(Calls) /\ forgotten' \subseteq Calls
    BY <1>1, <1>3, RememberType DEF Typed, TypeOK, Effects
  <2>2. LocalOK'
    BY <1>1, <1>3, GotoTyped DEF Effects, Goto, Handling, rest, Typed, TypeOK, ProcOK
  <2> QED
    BY <1>2, <1>3, <2>1, <2>2
    DEF Typed, TypeOK, LocalOK, Effects, rest, worker, calls, ticket, sms
<1>4. CASE ~IsEnd(ev[p])
  <2>1. LocalOK'
    BY <1>1, <1>4, DoneTyped DEF Effects, rest
  <2> QED
    BY <1>1, <1>2, <1>4, <2>1
    DEF Typed, TypeOK, LocalOK, Effects, rest, worker, calls, ticket, sms
<1> QED
  BY <1>3, <1>4

LEMMA TextTyped ==
  ASSUME Typed, NEW p \in Proc, CheckText(p) \/ SendText(p) \/ LogText(p) \/ TextRefused(p)
  PROVE  Typed'
<1>1. pc[p] \in Handling /\ ev[p] \in Event /\ ev[p].call \in Calls
  BY HandlingEvent DEF CheckText, SendText, LogText, TextRefused, Handling
<1>2. CASE CheckText(p)
  <2>1. PICK r \in rows[ev[p].call] :
          LET trigger == IF r.answered THEN "after_call" ELSE "missed_call"
          IN IF r.started /\ <<ev[p].call, trigger>> \notin logged
             THEN Goto(p, "text") /\ text' = [text EXCEPT ![p] = trigger]
             ELSE Done(p) /\ UNCHANGED text
    BY <1>2 DEF CheckText
  <2>2. text' \in [Proc -> Triggers \cup {"none"}]
    BY <2>1 DEF Typed, TypeOK, Triggers, Done, Goto
  <2>3. ASSUME Done(p), UNCHANGED text PROVE LocalOK'
    BY <1>1, <1>2, <2>3, DoneTyped DEF CheckText, rest
  <2>4. ASSUME NEW trigger \in Triggers, Goto(p, "text"), text' = [text EXCEPT ![p] = trigger]
        PROVE  LocalOK'
    <3>1. \A q \in Proc : pc'[q] \in {"text", "log"} => text'[q] \in Triggers
      BY <2>4 DEF Typed, TypeOK, ProcOK, Goto
    <3> QED
      BY <1>1, <1>2, <2>4, <3>1, GotoTyped DEF CheckText, Handling, rest
  <2>5. LocalOK'
    BY <2>1, <2>3, <2>4 DEF Triggers
  <2> QED
    BY <1>2, <2>2, <2>5
    DEF Typed, TypeOK, LocalOK, CheckText, rest, worker, memory, calls, ticket, sms, ghost
<1>3. CASE SendText(p)
  <2>1. LocalOK'
    BY <1>1, <1>3, GotoTyped DEF SendText, Goto, Handling, rest, Typed, TypeOK, ProcOK
  <2>2. <<ev[p].call, text[p]>> \in Calls \X Triggers
    BY <1>1, <1>3 DEF Typed, ProcOK, SendText
  <2>3. texted' \in [Calls \X Triggers -> Nat]
    BY <1>3, <2>2 DEF Typed, TypeOK, SendText
  <2> QED
    BY <1>3, <2>1, <2>3
    DEF Typed, TypeOK, LocalOK, SendText, rest, worker, memory, calls, ticket, ghost
<1>4. CASE LogText(p)
  <2>1. LocalOK'
    BY <1>1, <1>4, DoneTyped DEF LogText, rest, Typed, TypeOK
  <2>2. <<ev[p].call, text[p]>> \in Calls \X Triggers
    BY <1>1, <1>4 DEF Typed, ProcOK, LogText
  <2> QED
    BY <1>4, <2>1, <2>2
    DEF Typed, TypeOK, LocalOK, LogText, rest, worker, memory, calls, ticket, ghost
<1>5. CASE TextRefused(p)
  <2>1. LocalOK'
    BY <1>1, <1>5, DoneTyped DEF TextRefused, rest, Typed, TypeOK
  <2>2. faults' \in 0..MaxFaults /\ text' \in [Proc -> Triggers \cup {"none"}]
    BY <1>5, CallEventsAssumption DEF Typed, TypeOK, TextRefused
  <2> QED
    BY <1>5, <2>1, <2>2
    DEF Typed, TypeOK, LocalOK, TextRefused, rest, worker, memory, calls, ticket, sms, ghost
<1> QED
  BY <1>2, <1>3, <1>4, <1>5

LEMMA PostcallTyped ==
  ASSUME Typed, NEW c \in Calls, Analyse(c) \/ AnalyseRaises(c)
  PROVE  Typed'
<1>1. queue' \in [Calls -> Nat]
  <2>1. queue \in [Calls -> Nat] /\ queue[c] \in Nat /\ queue[c] > 0
    BY DEF Typed, TypeOK, Analyse, AnalyseRaises
  <2>2. queue' = [queue EXCEPT ![c] = queue[c] - 1]
    BY DEF Analyse, AnalyseRaises
  <2>3. queue[c] - 1 \in Nat
    BY <2>1
  <2> QED
    BY <2>1, <2>2, <2>3
<1>2. analysed' \in [Calls -> Nat]
  <2>1. analysed \in [Calls -> Nat] /\ analysed[c] + 1 \in Nat
    BY DEF Typed, TypeOK
  <2>2. analysed' = analysed \/ analysed' = [analysed EXCEPT ![c] = analysed[c] + 1]
    BY DEF Analyse, AnalyseRaises
  <2> QED
    BY <2>1, <2>2
<1>3. faults' \in 0..MaxFaults
  BY CallEventsAssumption DEF Typed, TypeOK, Analyse, AnalyseRaises, ghost
<1>4. TypeOK'
  BY <1>1, <1>2, <1>3
  DEF Typed, TypeOK, Analyse, AnalyseRaises, worker, calls, ticket, sms, ghost
<1>5. ProcOK'
  BY DEF Typed, ProcOK, Analyse, AnalyseRaises
<1> QED
  BY <1>4, <1>5 DEF Typed

LEMMA TicketPostTyped ==
  ASSUME Typed, NEW c \in Calls, CreateTicket(c) \/ RefuseTicket(c)
  PROVE  Typed'
<1>1. TypeOK'
  BY DEF Typed, TypeOK, CreateTicket, RefuseTicket, Asks, worker, memory, calls, ticket, sms, ghost
<1>2. ProcOK'
  BY DEF Typed, ProcOK, CreateTicket, RefuseTicket
<1> QED
  BY <1>1, <1>2 DEF Typed

LEMMA RestartTyped == ASSUME Typed, Restart PROVE Typed'
<1>1. TypeOK'
  BY CallEventsAssumption
  DEF Typed, TypeOK, Restart, PC, Triggers, worker, memory, calls, ticket, sms
<1>2. ProcOK'
  BY DEF Restart, ProcOK, Handling, Proc
<1> QED
  BY <1>1, <1>2 DEF Typed

LEMMA StepTyped == Typed /\ [Next]_vars => Typed'
<1> SUFFICES ASSUME Typed, [Next]_vars PROVE Typed'
  OBVIOUS
<1>1. CASE \E c \in Calls : Worker(c) \/ CreateTicket(c) \/ RefuseTicket(c) \/ Analyse(c)
  BY <1>1, WorkerTyped, TicketPostTyped, PostcallTyped
<1>2. CASE \E f \in flight : Publish(f)
  BY <1>2, XAddTyped, XAddRaisesTyped, PostTyped DEF Publish
<1>3. CASE Consume
  BY <1>3, ConsumeTyped
<1>4. CASE \E p \in Proc : Handle(p)
  BY <1>4, FoldAgainTyped, FoldTyped, FoldFirstTyped, InsertTyped, RebuildTyped, EffectsTyped,
     TextTyped DEF Handle
<1>5. CASE \E h \in Handlers, c \in Calls : CloseGhost(h, c)
  BY <1>5, CloseGhostTyped
<1>6. CASE Raise
  BY <1>6, ConsumeTyped, FoldRaisesTyped, RebuildTyped, TextTyped, PostLostTyped,
     PostcallTyped, WorkerDiesTyped DEF Raise
<1>7. CASE Restart
  BY <1>7, RestartTyped
<1>8. CASE UNCHANGED vars
  BY <1>8
  DEF Typed, TypeOK, ProcOK, vars, worker, memory, calls, ticket, sms, ghost
<1> QED
  BY <1>1, <1>2, <1>3, <1>4, <1>5, <1>6, <1>7, <1>8 DEF Next

(* In every reachable state each variable has its type; in particular a process *)
(* that acts on an event has one, and the consumer acknowledges only what it    *)
(* has read (consume_events, ingest_event).                                     *)
THEOREM TypeCorrect == Spec => []TypeOK
<1>1. Spec => []Typed
  BY InitTyped, StepTyped, PTL DEF Spec
<1>2. Typed => TypeOK
  BY DEF Typed
<1> QED
  BY <1>1, <1>2, PTL

-------------------------------------------------------------------------------
(* Every event acts once.  Two transactions with one id never both insert it,   *)
(* an event that acts has been folded, and once it has caused an analysis or a  *)
(* ticket no process is left that would cause it again.                         *)

Acting == {"folded", "hub", "check", "text", "log"}

OneInsert == \A p, q \in Proc :
  pc[p] = "insert" /\ pc[q] = "insert" /\ ev[p] = ev[q] => p = q
InsertNew == \A p \in Proc : pc[p] = "insert" => ev[p] \notin seen
ActSeen == \A p \in Proc : pc[p] \in Acting => ev[p] \in seen
OneActor == \A p, q \in Proc :
  pc[p] = "folded" /\ pc[q] = "folded" /\ ev[p] = ev[q] => p = q
HubIntake == \A p \in Proc : pc[p] = "hub" => ev[p].kind = "intake"

\* Event e has acted: it is folded and nobody is about to act on it.
Spent(e) == e \in seen /\ \A p \in Proc : pc[p] = "folded" => ev[p] # e

AnalysisSpent == \A c \in Calls :
  /\ queue[c] + analysed[c] <= 1
  /\ queue[c] + analysed[c] > 0 => Spent(Ev(c, "ended"))
RebuildSpent == \A c \in Calls :
  /\ rebuilt[c] <= 1
  /\ rebuilt[c] > 0 => Spent(Ev(c, "intake"))

Deliveries == OneInsert /\ InsertNew /\ ActSeen /\ OneActor /\ HubIntake
DeliveryInv == Typed /\ Deliveries /\ AnalysisSpent /\ RebuildSpent

LEMMA InitDelivery == Init => DeliveryInv
<1> SUFFICES ASSUME Init PROVE DeliveryInv
  OBVIOUS
<1>1. Typed
  BY InitTyped
<1>2. Deliveries
  BY DEF Init, Deliveries, OneInsert, InsertNew, ActSeen, OneActor, HubIntake, Acting
<1>3. AnalysisSpent /\ RebuildSpent
  BY DEF Init, AnalysisSpent, RebuildSpent
<1> QED
  BY <1>1, <1>2, <1>3 DEF DeliveryInv

(* A step that only makes a process go on with, let go of or begin an event,    *)
(* without folding it or acting on it, changes nothing.                         *)
LEMMA MoveKeeps ==
  ASSUME DeliveryInv, Typed', NEW p \in Proc,
         \A q \in Proc \ {p} : pc'[q] = pc[q] /\ ev'[q] = ev[q],
         \/ pc'[p] \notin Acting \cup {"insert"}
         \/ pc'[p] \in {"check", "text", "log"} /\ pc[p] \in Acting /\ ev'[p] = ev[p],
         UNCHANGED <<seen, queue, analysed, rebuilt>>
  PROVE  DeliveryInv'
<1>1. \A q \in Proc : pc'[q] \in {"insert", "folded", "hub"}
        => q # p /\ pc'[q] = pc[q] /\ ev'[q] = ev[q]
  BY DEF Acting
<1>2. OneInsert' /\ InsertNew' /\ OneActor' /\ HubIntake'
  BY <1>1 DEF DeliveryInv, Deliveries, OneInsert, InsertNew, OneActor, HubIntake
<1>3. ActSeen'
  BY DEF DeliveryInv, Deliveries, ActSeen
<1>4. \A e : Spent(e) => Spent(e)'
  BY <1>1 DEF Spent
<1>5. AnalysisSpent' /\ RebuildSpent'
  BY <1>4 DEF DeliveryInv, AnalysisSpent, RebuildSpent, Ev
<1> QED
  BY <1>2, <1>3, <1>5 DEF DeliveryInv, Deliveries

\* A step that leaves processes, ids and effects alone.
LEMMA StillKeeps ==
  ASSUME DeliveryInv, Typed', UNCHANGED <<pc, ev, seen, queue, analysed, rebuilt>>
  PROVE  DeliveryInv'
  BY DEF DeliveryInv, Deliveries, OneInsert, InsertNew, ActSeen, OneActor, HubIntake,
         AnalysisSpent, RebuildSpent, Spent, Ev

\* The commit of a new id: what it adds was not spent.
LEMMA CommitKeeps ==
  ASSUME DeliveryInv, Typed', NEW p \in Proc, pc[p] \in {"fold", "insert"}, ev[p] \notin seen,
         \A q \in Proc \ {p} : ~(pc[q] = "insert" /\ ev[q] = ev[p]),
         pc' = [pc EXCEPT ![p] = "folded"], UNCHANGED ev,
         seen' = seen \cup {ev[p]}, UNCHANGED <<queue, analysed, rebuilt>>
  PROVE  DeliveryInv'
<1>1. pc'[p] = "folded" /\ \A q \in Proc \ {p} : pc'[q] = pc[q]
  BY DEF DeliveryInv, Typed, TypeOK
<1>2. OneInsert' /\ InsertNew'
  BY <1>1 DEF DeliveryInv, Deliveries, OneInsert, InsertNew
<1>3. ActSeen'
  BY <1>1 DEF DeliveryInv, Deliveries, ActSeen, Acting
<1>4. \A q \in Proc \ {p} : pc[q] = "folded" => ev[q] # ev[p]
  BY DEF DeliveryInv, Deliveries, ActSeen, Acting
<1>5. OneActor' /\ HubIntake'
  BY <1>1, <1>4 DEF DeliveryInv, Deliveries, OneActor, HubIntake
<1>6. \A e : Spent(e) => Spent(e)'
  BY <1>1 DEF Spent
<1>7. AnalysisSpent' /\ RebuildSpent'
  BY <1>6 DEF DeliveryInv, AnalysisSpent, RebuildSpent, Ev
<1> QED
  BY <1>2, <1>3, <1>5, <1>7 DEF DeliveryInv, Deliveries

LEMMA FoldKeeps ==
  ASSUME DeliveryInv, Typed', NEW p \in Proc, Fold(p) \/ Insert(p)
  PROVE  DeliveryInv'
<1>1. CASE Fold(p)
  BY <1>1, CommitKeeps DEF Fold, Mine, Recorded, Goto, memory, ticket
<1>2. CASE Insert(p)
  <2>1. ev[p] \notin seen /\ \A q \in Proc \ {p} : ~(pc[q] = "insert" /\ ev[q] = ev[p])
    BY <1>2 DEF Insert, DeliveryInv, Deliveries, InsertNew, OneInsert
  <2> QED
    BY <1>2, <2>1, CommitKeeps DEF Insert, Recorded, Goto, memory, ticket
<1> QED
  BY <1>1, <1>2

LEMMA FoldFirstKeeps ==
  ASSUME DeliveryInv, Typed', NEW p \in Proc, FoldFirst(p)
  PROVE  DeliveryInv'
<1>1. /\ pc'[p] = "insert" /\ \A q \in Proc \ {p} : pc'[q] = pc[q]
      /\ UNCHANGED <<ev, seen, queue, analysed, rebuilt>>
      /\ ev[p] \notin seen
      /\ \A q \in Proc \ {p} : ~(pc[q] = "insert" /\ ev[q] = ev[p])
  BY DEF FoldFirst, Mine, Goto, DeliveryInv, Typed, TypeOK, memory, calls, ticket
<1>2. Deliveries'
  BY <1>1
  DEF DeliveryInv, Deliveries, OneInsert, InsertNew, ActSeen, OneActor, HubIntake, Acting
<1>3. \A e : Spent(e) => Spent(e)'
  BY <1>1 DEF Spent
<1>4. AnalysisSpent' /\ RebuildSpent'
  BY <1>1, <1>3 DEF DeliveryInv, AnalysisSpent, RebuildSpent, Ev
<1> QED
  BY <1>2, <1>4 DEF DeliveryInv

(* What an event has caused bounds what is left to cause. *)
LEMMA NotSpent ==
  ASSUME DeliveryInv, NEW c \in Calls
  PROVE  /\ ~ Spent(Ev(c, "intake")) => rebuilt[c] = 0
         /\ ~ Spent(Ev(c, "ended")) => queue[c] = 0 /\ analysed[c] = 0
<1>1. rebuilt[c] \in Nat /\ queue[c] \in Nat /\ analysed[c] \in Nat
  BY DEF DeliveryInv, Typed, TypeOK
<1>2. rebuilt[c] > 0 => Spent(Ev(c, "intake"))
  BY DEF DeliveryInv, RebuildSpent
<1>3. queue[c] + analysed[c] > 0 => Spent(Ev(c, "ended"))
  BY DEF DeliveryInv, AnalysisSpent
<1> QED
  BY <1>1, <1>2, <1>3

\* The one process at "folded" with a folded event goes on: the event is spent.
LEMMA LeavesSpent ==
  ASSUME DeliveryInv, NEW p \in Proc, NEW e, pc[p] = "folded", ev[p] = e, e \in seen,
         pc'[p] # "folded", \A q \in Proc \ {p} : pc'[q] = pc[q] /\ ev'[q] = ev[q],
         UNCHANGED seen
  PROVE  Spent(e)'
<1>1. e \in seen'
  OBVIOUS
<1>2. ASSUME NEW q \in Proc, pc'[q] = "folded" PROVE ev'[q] # e
  <2>1. q # p /\ pc[q] = "folded" /\ ev'[q] = ev[q]
    BY <1>2
  <2> QED
    BY <2>1 DEF DeliveryInv, Deliveries, OneActor
<1> QED
  BY <1>1, <1>2 DEF Spent

(* rebuild_from_event: the process leaves "folded" with the intake, and no      *)
(* other one is there with it.                                                  *)
LEMMA RebuildKeeps ==
  ASSUME DeliveryInv, Typed', NEW p \in Proc, Rebuild(p) \/ RebuildRaises(p)
  PROVE  DeliveryInv'
<1>1. pc[p] = "folded" /\ ev[p] \in Event /\ ev[p].call \in Calls /\ ev[p].kind = "intake"
  BY HandlingEvent DEF Rebuild, RebuildRaises, Handling, DeliveryInv
<1>2. PICK c \in Calls : ev[p].call = c /\ ev[p] = Ev(c, "intake")
  BY <1>1 DEF Event, Ev
<1>3. Ev(c, "intake") \in seen
  BY <1>1, <1>2 DEF DeliveryInv, Deliveries, ActSeen, Acting
<1>4. rebuilt[c] = 0
  <2>1. ~ Spent(Ev(c, "intake"))
    BY <1>1, <1>2 DEF Spent
  <2> QED
    BY <2>1, NotSpent
<1>5. /\ pc'[p] \in {"hub", "idle", "ack"} /\ \A q \in Proc \ {p} : pc'[q] = pc[q] /\ ev'[q] = ev[q]
      /\ pc'[p] = "hub" => ev'[p] = ev[p]
      /\ UNCHANGED <<seen, queue, analysed>>
  BY DEF Rebuild, RebuildRaises, Goto, Done, DeliveryInv, Typed, TypeOK, memory, calls
<1>6. rebuilt' = rebuilt \/ rebuilt' = [rebuilt EXCEPT ![c] = 1]
  <2>1. rebuilt' = rebuilt \/ rebuilt' = [rebuilt EXCEPT ![c] = rebuilt[c] + 1]
    BY <1>2 DEF Rebuild, RebuildRaises
  <2>2. rebuilt[c] + 1 = 1
    BY <1>4
  <2> QED
    BY <2>1, <2>2
<1>7. Deliveries'
  BY <1>1, <1>5
  DEF DeliveryInv, Deliveries, OneInsert, InsertNew, ActSeen, OneActor, HubIntake, Acting
<1>8. \A e : Spent(e) => Spent(e)'
  BY <1>5 DEF Spent
<1>9. Spent(Ev(c, "intake"))'
  <2> DEFINE e == Ev(c, "intake")
  <2>1. Spent(e)'
    <3> e' = e
      BY DEF Ev
    <3> HIDE DEF e
    <3> QED
      BY <1>1, <1>2, <1>3, <1>5, LeavesSpent DEF e
  <2> QED
    BY <2>1
<1>10. AnalysisSpent'
  BY <1>5, <1>8 DEF DeliveryInv, AnalysisSpent, Ev
<1>11. RebuildSpent'
  <2> SUFFICES ASSUME NEW d \in Calls
               PROVE  rebuilt'[d] <= 1 /\ (rebuilt'[d] > 0 => Spent(Ev(d, "intake"))')
    BY DEF RebuildSpent
  <2>1. CASE rebuilt'[d] = rebuilt[d]
    BY <1>8, <2>1 DEF DeliveryInv, RebuildSpent, Ev
  <2>2. CASE d = c /\ rebuilt'[d] = 1
    BY <1>9, <2>2
  <2>3. rebuilt'[d] = rebuilt[d] \/ (d = c /\ rebuilt'[d] = 1)
    BY <1>6 DEF DeliveryInv, Typed, TypeOK
  <2> QED
    BY <2>1, <2>2, <2>3
<1> QED
  BY <1>7, <1>10, <1>11 DEF DeliveryInv

(* enqueue: only the worker's end is queued, and only by the process that       *)
(* folded it.                                                                   *)
LEMMA EffectsKeeps ==
  ASSUME DeliveryInv, Typed', NEW p \in Proc, Effects(p)
  PROVE  DeliveryInv'
<1>1. pc[p] \in {"folded", "hub"} /\ ev[p] \in Event /\ ev[p].call \in Calls /\ ev[p] \in seen
  BY HandlingEvent DEF Effects, Handling, DeliveryInv, Deliveries, ActSeen, Acting
<1>2. /\ pc'[p] \in {"check", "idle", "ack"}
      /\ \A q \in Proc \ {p} : pc'[q] = pc[q] /\ ev'[q] = ev[q]
      /\ pc'[p] = "check" => ev'[p] = ev[p]
      /\ UNCHANGED <<seen, analysed, rebuilt>>
  BY DEF Effects, Goto, Done, DeliveryInv, Typed, TypeOK, calls, ticket
<1>3. Deliveries'
  BY <1>1, <1>2
  DEF DeliveryInv, Deliveries, OneInsert, InsertNew, ActSeen, OneActor, HubIntake, Acting
<1>4. \A e : Spent(e) => Spent(e)'
  BY <1>2 DEF Spent
<1>5. RebuildSpent'
  BY <1>2, <1>4 DEF DeliveryInv, RebuildSpent, Ev
<1>6. AnalysisSpent'
  <2>1. CASE ev[p].kind # "ended"
    <3>1. queue' = queue
      BY <2>1 DEF Effects, Ended
    <3> QED
      BY <1>2, <1>4, <3>1 DEF DeliveryInv, AnalysisSpent, Ev
  <2>2. CASE ev[p].kind = "ended"
    <3>1. pc[p] = "folded"
      BY <1>1, <2>2 DEF DeliveryInv, Deliveries, HubIntake
    <3>2. PICK c \in Calls : ev[p].call = c /\ ev[p] = Ev(c, "ended")
      BY <1>1, <2>2 DEF Event, Ev
    <3>3. queue[c] = 0 /\ analysed[c] = 0
      <4>1. ~ Spent(Ev(c, "ended"))
        BY <3>1, <3>2 DEF Spent
      <4> QED
        BY <4>1, NotSpent
    <3>4. queue' = [queue EXCEPT ![c] = 1]
      <4>1. queue' = [queue EXCEPT ![c] = queue[c] + 1]
        BY <2>2, <3>2 DEF Effects, Ended
      <4>2. queue[c] + 1 = 1
        BY <3>3
      <4> QED
        BY <4>1, <4>2
    <3>5. Spent(Ev(c, "ended"))'
      <4> DEFINE e == Ev(c, "ended")
      <4>1. e' = e
        BY DEF Ev
      <4> HIDE DEF e
      <4> QED
        BY <1>1, <1>2, <3>1, <3>2, <4>1, LeavesSpent DEF e
    <3> SUFFICES ASSUME NEW d \in Calls
                 PROVE  /\ queue'[d] + analysed'[d] <= 1
                        /\ queue'[d] + analysed'[d] > 0 => Spent(Ev(d, "ended"))'
      BY DEF AnalysisSpent
    <3>6. CASE d = c
      <4>1. queue'[d] + analysed'[d] = 1
        BY <1>2, <3>3, <3>4, <3>6 DEF DeliveryInv, Typed, TypeOK
      <4> QED
        BY <3>5, <3>6, <4>1
    <3>7. CASE d # c
      <4>1. queue'[d] = queue[d] /\ analysed'[d] = analysed[d]
        BY <1>2, <3>4, <3>7 DEF DeliveryInv, Typed, TypeOK
      <4> QED
        BY <1>4, <4>1 DEF Ev, DeliveryInv, AnalysisSpent
    <3> QED
      BY <3>6, <3>7
  <2> QED
    BY <2>1, <2>2
<1> QED
  BY <1>3, <1>5, <1>6 DEF DeliveryInv

LEMMA AnalyseKeeps ==
  ASSUME DeliveryInv, Typed', NEW c \in Calls, Analyse(c) \/ AnalyseRaises(c)
  PROVE  DeliveryInv'
<1>1. UNCHANGED <<pc, ev, seen, rebuilt>>
  BY DEF Analyse, AnalyseRaises, calls, ticket
<1>2. ASSUME NEW d \in Calls PROVE queue'[d] + analysed'[d] <= queue[d] + analysed[d]
  <2>1. queue[d] \in Nat /\ analysed[d] \in Nat
    BY DEF DeliveryInv, Typed, TypeOK
  <2>2. CASE d = c
    <3>1. queue'[d] = queue[d] - 1 /\ analysed'[d] \in {analysed[d], analysed[d] + 1}
      BY <2>2 DEF Analyse, AnalyseRaises, DeliveryInv, Typed, TypeOK
    <3> QED
      BY <2>1, <3>1
  <2>3. CASE d # c
    <3>1. queue'[d] = queue[d] /\ analysed'[d] = analysed[d]
      BY <2>3 DEF Analyse, AnalyseRaises, DeliveryInv, Typed, TypeOK
    <3> QED
      BY <2>1, <3>1
  <2> QED
    BY <2>2, <2>3
<1>3. Deliveries'
  BY <1>1
  DEF DeliveryInv, Deliveries, OneInsert, InsertNew, ActSeen, OneActor, HubIntake
<1>4. RebuildSpent'
  BY <1>1 DEF DeliveryInv, RebuildSpent, Spent, Ev
<1>5. AnalysisSpent'
  <2> SUFFICES ASSUME NEW d \in Calls
               PROVE  /\ queue'[d] + analysed'[d] <= 1
                      /\ queue'[d] + analysed'[d] > 0 => Spent(Ev(d, "ended"))'
    BY DEF AnalysisSpent
  <2>1. /\ queue[d] \in Nat /\ analysed[d] \in Nat /\ queue'[d] \in Nat /\ analysed'[d] \in Nat
        /\ queue[d] + analysed[d] <= 1
        /\ queue[d] + analysed[d] > 0 => Spent(Ev(d, "ended"))
    BY DEF DeliveryInv, AnalysisSpent, Typed, TypeOK
  <2>2. Spent(Ev(d, "ended"))' <=> Spent(Ev(d, "ended"))
    BY <1>1 DEF Spent, Ev
  <2> QED
    BY <1>2, <2>1, <2>2
<1> QED
  BY <1>3, <1>4, <1>5 DEF DeliveryInv

LEMMA RestartKeeps == ASSUME DeliveryInv, Typed', Restart PROVE DeliveryInv'
<1>1. /\ \A p \in Proc : pc'[p] = "idle"
      /\ \A c \in Calls : queue'[c] = 0
      /\ UNCHANGED <<seen, analysed, rebuilt>>
  BY DEF Restart, calls, ticket
<1>2. Deliveries'
  BY <1>1 DEF Deliveries, OneInsert, InsertNew, ActSeen, OneActor, HubIntake, Acting
<1>3. \A e : Spent(e) => Spent(e)'
  BY <1>1 DEF Spent
<1>4. RebuildSpent'
  BY <1>1, <1>3 DEF DeliveryInv, RebuildSpent, Ev
<1>5. AnalysisSpent'
  <2> SUFFICES ASSUME NEW d \in Calls
               PROVE  /\ queue'[d] + analysed'[d] <= 1
                      /\ queue'[d] + analysed'[d] > 0 => Spent(Ev(d, "ended"))'
    BY DEF AnalysisSpent
  <2>1. queue[d] \in Nat /\ analysed[d] \in Nat /\ queue'[d] = 0 /\ analysed'[d] = analysed[d]
    BY <1>1 DEF DeliveryInv, Typed, TypeOK
  <2>2. /\ queue[d] + analysed[d] <= 1
        /\ queue[d] + analysed[d] > 0 => Spent(Ev(d, "ended"))
    BY DEF DeliveryInv, AnalysisSpent
  <2>3. Spent(Ev(d, "ended")) => Spent(Ev(d, "ended"))'
    BY <1>3 DEF Ev
  <2> QED
    BY <2>1, <2>2, <2>3
<1> QED
  BY <1>2, <1>4, <1>5 DEF DeliveryInv

LEMMA ConsumeKeeps == ASSUME DeliveryInv, Typed', Consume \/ AckRaises PROVE DeliveryInv'
<1>1. CASE Read
  BY <1>1, StillKeeps DEF Read, memory, calls, ticket
<1>2. CASE TakeEntry \/ Ack \/ AckRaises
  <2>1. Consumer \in Proc
    BY DEF Proc
  <2>2. pc'[Consumer] \notin Acting \cup {"insert"}
    BY <1>2, <2>1 DEF TakeEntry, Ack, AckRaises, Acting, DeliveryInv, Typed, TypeOK
  <2>3. \A q \in Proc \ {Consumer} : pc'[q] = pc[q] /\ ev'[q] = ev[q]
    BY <1>2, <2>1 DEF TakeEntry, Ack, AckRaises, DeliveryInv, Typed, TypeOK
  <2> QED
    BY <1>2, <2>1, <2>2, <2>3, MoveKeeps DEF TakeEntry, Ack, AckRaises, memory, calls, ticket
<1> QED
  BY <1>1, <1>2 DEF Consume

LEMMA TakePostKeeps ==
  ASSUME DeliveryInv, Typed', NEW h \in Handlers, NEW e,
         pc' = [pc EXCEPT ![h] = "fold"], ev' = [ev EXCEPT ![h] = e],
         UNCHANGED <<seen, queue, analysed, rebuilt>>
  PROVE  DeliveryInv'
<1>1. /\ h \in Proc /\ pc'[h] \notin Acting \cup {"insert"}
      /\ \A q \in Proc \ {h} : pc'[q] = pc[q] /\ ev'[q] = ev[q]
  BY DEF Proc, Acting, DeliveryInv, Typed, TypeOK
<1> QED
  BY <1>1, MoveKeeps

LEMMA PublishKeeps ==
  ASSUME DeliveryInv, Typed', NEW f \in flight, Publish(f) \/ PostLost(f)
  PROVE  DeliveryInv'
<1>1. CASE XAdd(f) \/ XAddRaises(f) \/ PostLost(f)
  BY <1>1, StillKeeps DEF XAdd, XAddRaises, PostLost, api, memory, calls, ticket
<1>2. CASE Post(f)
  BY <1>2, TakePostKeeps DEF Post, memory, calls, ticket
<1> QED
  BY <1>1, <1>2 DEF Publish

\* Ending an event, or going on from its effects, is a move.
LEMMA EndKeeps ==
  ASSUME DeliveryInv, Typed', NEW p \in Proc,
         FoldAgain(p) \/ FoldRaises(p) \/ CheckText(p) \/ SendText(p) \/ LogText(p)
           \/ TextRefused(p)
  PROVE  DeliveryInv'
<1>1. UNCHANGED <<seen, queue, analysed, rebuilt>>
  BY DEF FoldAgain, FoldRaises, CheckText, SendText, LogText, TextRefused, memory, calls, ticket
<1>2. \/ Done(p)
      \/ \E next \in {"text", "log"} : pc[p] \in Acting /\ Goto(p, next)
  BY DEF FoldAgain, FoldRaises, CheckText, SendText, LogText, TextRefused, Acting
<1>3. \A q \in Proc \ {p} : pc'[q] = pc[q] /\ ev'[q] = ev[q]
  BY <1>2 DEF Done, Goto, DeliveryInv, Typed, TypeOK
<1>4. \/ pc'[p] \notin Acting \cup {"insert"}
      \/ pc'[p] \in {"check", "text", "log"} /\ pc[p] \in Acting /\ ev'[p] = ev[p]
  BY <1>2 DEF Done, Goto, Acting, DeliveryInv, Typed, TypeOK
<1> QED
  BY <1>1, <1>3, <1>4, MoveKeeps

LEMMA WorkerKeeps ==
  ASSUME DeliveryInv, Typed', NEW c \in Calls,
         Worker(c) \/ WorkerDies(c) \/ CreateTicket(c) \/ RefuseTicket(c)
  PROVE  DeliveryInv'
<1>1. UNCHANGED <<pc, ev, seen, queue, analysed, rebuilt>>
  BY DEF Worker, Start, Decline, DeclinedQuits, Answer, End, Progress, AskTicket,
         TicketAnswered, TicketGivenUp, WorkerDies, CreateTicket, RefuseTicket, api, memory, calls, ticket
<1> QED
  BY <1>1, StillKeeps

LEMMA StepDelivery == DeliveryInv /\ [Next]_vars => DeliveryInv'
<1> SUFFICES ASSUME DeliveryInv, [Next]_vars PROVE DeliveryInv'
  OBVIOUS
<1>0. Typed'
  BY StepTyped DEF DeliveryInv
<1>1. CASE \E c \in Calls : Worker(c) \/ CreateTicket(c) \/ RefuseTicket(c) \/ Analyse(c)
  BY <1>0, <1>1, WorkerKeeps, AnalyseKeeps
<1>2. CASE \E f \in flight : Publish(f)
  BY <1>0, <1>2, PublishKeeps
<1>3. CASE Consume
  BY <1>0, <1>3, ConsumeKeeps
<1>4. CASE \E p \in Proc : Handle(p)
  BY <1>0, <1>4, FoldKeeps, FoldFirstKeeps, RebuildKeeps, EffectsKeeps, EndKeeps DEF Handle
<1>5. CASE \E h \in Handlers, c \in Calls : CloseGhost(h, c)
  BY <1>0, <1>5, TakePostKeeps DEF CloseGhost, memory, calls, ticket
<1>6. CASE Raise
  BY <1>0, <1>6, ConsumeKeeps, EndKeeps, RebuildKeeps, PublishKeeps, AnalyseKeeps, WorkerKeeps
  DEF Raise
<1>7. CASE Restart
  BY <1>0, <1>7, RestartKeeps
<1>8. CASE UNCHANGED vars
  BY <1>0, <1>8, StillKeeps DEF vars, memory, calls, ticket
<1> QED
  BY <1>1, <1>2, <1>3, <1>4, <1>5, <1>6, <1>7, <1>8 DEF Next

LEMMA DeliveryAlways == Spec => []DeliveryInv
  BY InitDelivery, StepDelivery, PTL DEF Spec

(* No call is analysed twice, whatever is delivered again, handled at the same  *)
(* time, hung up by a supervisor or cut off by a restart (consume_events,       *)
(* ingest_event, PostgresStore.apply_event, PostCallProcessor).                 *)
THEOREM AnalysedAtMostOnce == Spec => []AnalysedOnce
<1>1. DeliveryInv => AnalysedOnce
  BY DEF DeliveryInv, AnalysisSpent, AnalysedOnce
<1> QED
  BY <1>1, DeliveryAlways, PTL

-------------------------------------------------------------------------------
(* The ledger.  A commit is its fold, a result its analysis, a ticket from an   *)
(* intake its rebuild; everything else it does not see.                         *)

LEMMA InitLedger == Init => Ledger!LedgerInit
  BY DEF Init, Ledger!LedgerInit

LEMMA CommitLedger ==
  ASSUME DeliveryInv, NEW p \in Proc, Fold(p) \/ Insert(p)
  PROVE  Ledger!LedgerNext
<1>1. pc[p] \in {"fold", "insert"} /\ ev[p] \notin seen
  BY DEF Fold, Mine, Insert, DeliveryInv, Deliveries, InsertNew
<1>2. ev[p] \in Event
  BY <1>1 DEF DeliveryInv, Typed, ProcOK, Handling
<1>3. seen' = seen \cup {ev[p]} /\ UNCHANGED <<analysed, rebuilt>>
  BY DEF Fold, Insert, Recorded, ticket
<1>4. Ledger!LedgerFold
  BY <1>1, <1>2, <1>3 DEF Ledger!LedgerFold
<1> QED
  BY <1>4 DEF Ledger!LedgerNext

LEMMA AnalyseLedger ==
  ASSUME DeliveryInv, NEW c \in Calls, Analyse(c)
  PROVE  Ledger!LedgerNext
<1>1. queue[c] > 0 /\ queue[c] \in Nat /\ analysed[c] \in Nat
  BY DEF Analyse, DeliveryInv, Typed, TypeOK
<1>2. analysed[c] = 0 /\ Spent(Ev(c, "ended"))
  <2>1. queue[c] + analysed[c] <= 1 /\ (queue[c] + analysed[c] > 0 => Spent(Ev(c, "ended")))
    BY DEF DeliveryInv, AnalysisSpent
  <2> QED
    BY <1>1, <2>1
<1>3. Ledger!Folded(c, "ended")
  BY <1>2 DEF Spent, Ev, Ledger!Folded
<1>4. analysed' = [analysed EXCEPT ![c] = 1] /\ UNCHANGED <<seen, rebuilt>>
  <2>1. analysed' = [analysed EXCEPT ![c] = analysed[c] + 1] /\ UNCHANGED <<seen, rebuilt>>
    BY DEF Analyse, calls, ticket
  <2>2. analysed[c] + 1 = 1
    BY <1>2
  <2> QED
    BY <2>1, <2>2
<1>5. Ledger!LedgerAnalyse(c)
  BY <1>2, <1>3, <1>4 DEF Ledger!LedgerAnalyse
<1> QED
  BY <1>5 DEF Ledger!LedgerNext

LEMMA RebuildLedger ==
  ASSUME DeliveryInv, NEW p \in Proc, Rebuild(p) \/ RebuildRaises(p)
  PROVE  Ledger!LedgerNext \/ UNCHANGED <<seen, analysed, rebuilt>>
<1>1. pc[p] = "folded" /\ ev[p] \in Event /\ ev[p].call \in Calls /\ ev[p].kind = "intake"
  BY HandlingEvent DEF Rebuild, RebuildRaises, Handling, DeliveryInv
<1>2. PICK c \in Calls : ev[p].call = c /\ ev[p] = Ev(c, "intake")
  BY <1>1 DEF Event, Ev
<1>3. ev[p] \in seen
  BY <1>1 DEF DeliveryInv, Deliveries, ActSeen, Acting
<1>4. rebuilt[c] = 0
  <2>1. ~ Spent(Ev(c, "intake"))
    BY <1>1, <1>2 DEF Spent
  <2> QED
    BY <2>1, NotSpent
<1>5. Ledger!Folded(c, "intake")
  BY <1>1, <1>2, <1>3 DEF Ledger!Folded
<1>6. /\ rebuilt' = rebuilt \/ rebuilt' = [rebuilt EXCEPT ![c] = 1]
      /\ UNCHANGED <<seen, analysed>>
  <2>1. /\ rebuilt' = rebuilt \/ rebuilt' = [rebuilt EXCEPT ![c] = rebuilt[c] + 1]
        /\ UNCHANGED <<seen, analysed>>
    BY <1>2 DEF Rebuild, RebuildRaises, calls
  <2>2. rebuilt[c] + 1 = 1
    BY <1>4
  <2> QED
    BY <2>1, <2>2
<1>7. CASE rebuilt' = rebuilt
  BY <1>6, <1>7
<1>8. CASE rebuilt' = [rebuilt EXCEPT ![c] = 1]
  <2>1. Ledger!LedgerRebuild(c)
    BY <1>4, <1>5, <1>6, <1>8 DEF Ledger!LedgerRebuild
  <2> QED
    BY <2>1 DEF Ledger!LedgerNext
<1> QED
  BY <1>6, <1>7, <1>8

LEMMA StepLedger ==
  DeliveryInv /\ [Next]_vars => [Ledger!LedgerNext]_(Ledger!ledger)
<1> SUFFICES ASSUME DeliveryInv, [Next]_vars
             PROVE  Ledger!LedgerNext \/ UNCHANGED <<seen, analysed, rebuilt>>
  BY DEF Ledger!ledger
<1>1. CASE \E c \in Calls : Worker(c) \/ CreateTicket(c) \/ RefuseTicket(c) \/ Analyse(c)
  BY <1>1, AnalyseLedger
  DEF Worker, Start, Decline, DeclinedQuits, Answer, End, Progress, AskTicket,
      TicketAnswered, TicketGivenUp, CreateTicket, RefuseTicket, api, calls, ticket
<1>2. CASE \E f \in flight : Publish(f)
  BY <1>2 DEF Publish, XAdd, XAddRaises, Post, calls, ticket
<1>3. CASE Consume
  BY <1>3 DEF Consume, Read, TakeEntry, Ack, calls, ticket
<1>4. CASE \E p \in Proc : Handle(p)
  <2> PICK p \in Proc : Handle(p)
    BY <1>4
  <2>1. CASE Fold(p) \/ Insert(p)
    BY <2>1, CommitLedger
  <2>2. CASE Rebuild(p)
    BY <2>2, RebuildLedger
  <2>3. CASE FoldAgain(p) \/ FoldFirst(p) \/ Effects(p) \/ CheckText(p) \/ SendText(p) \/ LogText(p)
    BY <2>3 DEF FoldAgain, FoldFirst, Effects, CheckText, SendText, LogText, calls, ticket
  <2> QED
    BY <2>1, <2>2, <2>3 DEF Handle
<1>5. CASE \E h \in Handlers, c \in Calls : CloseGhost(h, c)
  BY <1>5 DEF CloseGhost, calls, ticket
<1>6. CASE Raise
  BY <1>6, RebuildLedger
  DEF Raise, AckRaises, FoldRaises, TextRefused, PostLost, AnalyseRaises, WorkerDies, api,
      calls, ticket
<1>7. CASE Restart
  BY <1>7 DEF Restart, calls, ticket
<1>8. CASE UNCHANGED vars
  BY <1>8 DEF vars, calls, ticket
<1> QED
  BY <1>1, <1>2, <1>3, <1>4, <1>5, <1>6, <1>7, <1>8 DEF Next

(* Stream, posts, transactions and in-memory work together keep the promise of  *)
(* the ledger: fold each event once, then analyse or rebuild at most once, and  *)
(* only after the fold (consume_events, ingest_event, apply_event).             *)
THEOREM ImplementsLedger == Spec => LedgerImplemented
  BY InitLedger, StepLedger, DeliveryAlways, PTL DEF Spec, LedgerImplemented, Ledger!LedgerSpec

-------------------------------------------------------------------------------
(* Tickets.  An intake without a ticket exists anywhere only once the worker    *)
(* has given up, and only then can the API have, or still get, the worker's     *)
(* own post beside it.                                                          *)

Around(e) ==
  \/ \E f \in flight : f.ev = e
  \/ e \in Range(stream) \/ e \in Range(batch)
  \/ \E p \in Proc : ev[p] = e
  \/ e \in seen

Given(c) == Around(Ev(c, "intake"))

TicketStage == \A c \in Calls :
  /\ asked[c] = "no" => c \notin posts \cup posted
  /\ asked[c] = "waiting" => c \notin posted
  /\ Given(c) => asked[c] = "done" /\ (c \in posts \cup posted => c \in crossed)

TicketInv == DeliveryInv /\ TicketStage

LEMMA InitTickets == Init => TicketStage
<1> SUFFICES ASSUME Init, NEW c \in Calls PROVE ~ Given(c)
  BY DEF Init, TicketStage
<1>1. Ev(c, "intake") # NoEvent
  BY EvType, CallEventsAssumption DEF WorkerKinds
<1> QED
  BY <1>1 DEF Init, Given, Around, Range

LEMMA AppendRange ==
  ASSUME NEW S, NEW s \in Seq(S), NEW x \in S
  PROVE  Range(Append(s, x)) = Range(s) \cup {x}
<1>1. /\ Append(s, x) \in Seq(S) /\ Len(Append(s, x)) = Len(s) + 1
      /\ \A i \in 1..Len(s) : Append(s, x)[i] = s[i]
      /\ Append(s, x)[Len(s) + 1] = x
  OBVIOUS
<1>2. DOMAIN s = 1..Len(s) /\ DOMAIN Append(s, x) = 1..(Len(s) + 1) /\ Len(s) \in Nat
  BY <1>1
<1>3. 1..(Len(s) + 1) = 1..Len(s) \cup {Len(s) + 1}
  BY <1>2
<1> QED
  BY <1>1, <1>2, <1>3 DEF Range

LEMMA TailRange ==
  ASSUME NEW S, NEW s \in Seq(S), s # <<>>
  PROVE  Range(Tail(s)) \subseteq Range(s) /\ Head(s) \in Range(s)
<1>1. /\ Tail(s) \in Seq(S) /\ Len(Tail(s)) = Len(s) - 1 /\ Len(s) \in Nat /\ Len(s) # 0
      /\ \A i \in 1..Len(Tail(s)) : Tail(s)[i] = s[i + 1]
      /\ Head(s) = s[1]
  OBVIOUS
<1>2. DOMAIN s = 1..Len(s) /\ DOMAIN Tail(s) = 1..(Len(s) - 1)
  BY <1>1
<1>3. \A i \in 1..(Len(s) - 1) : i + 1 \in 1..Len(s)
  BY <1>1
<1>4. 1 \in 1..Len(s)
  BY <1>1
<1> QED
  BY <1>1, <1>2, <1>3, <1>4 DEF Range

\* Whatever moves events about makes no new one, and none that is an intake.
LEMMA PublishAround ==
  ASSUME Typed, NEW f \in flight, Publish(f) \/ PostLost(f), NEW e, Around(e)'
  PROVE  Around(e)
<1>1. f.ev \in Event /\ stream \in Seq(Event)
  BY DEF Typed, TypeOK, Flight
<1>2. Range(Append(stream, f.ev)) = Range(stream) \cup {f.ev}
  BY <1>1, AppendRange
<1>3. CASE XAdd(f) \/ PostLost(f)
  BY <1>2, <1>3 DEF Around, XAdd, PostLost, api, calls
<1>4. CASE XAddRaises(f)
  <2>1. [f EXCEPT !.way = "http"].ev = f.ev
    BY DEF Typed, TypeOK, Flight
  <2> QED
    BY <1>2, <1>4, <2>1 DEF Around, XAddRaises, calls
<1>5. CASE Post(f)
  <2>1. PICK h \in Handlers : ev' = [ev EXCEPT ![h] = f.ev]
    BY <1>5 DEF Post
  <2>2. \A q \in Proc : ev'[q] = ev[q] \/ ev'[q] = f.ev
    BY <2>1 DEF Typed, TypeOK
  <2> QED
    BY <1>5, <2>2 DEF Around, Post, calls
<1> QED
  BY <1>3, <1>4, <1>5 DEF Publish

LEMMA ConsumeAround ==
  ASSUME Typed, Consume \/ AckRaises, NEW e, Around(e)'
  PROVE  Around(e)
<1>1. Consumer \in Proc /\ batch \in Seq(Event)
  BY DEF Proc, Typed, TypeOK
<1>2. CASE Read
  <2>1. Range(<<>>) = {}
    BY DEF Range
  <2> QED
    BY <1>2, <2>1 DEF Around, Read, calls
<1>3. CASE TakeEntry
  <2>1. Head(batch) \in Range(batch)
    BY <1>1, <1>3, TailRange DEF TakeEntry
  <2>2. \A q \in Proc : ev'[q] = ev[q] \/ ev'[q] = Head(batch)
    BY <1>3 DEF TakeEntry, Typed, TypeOK
  <2> QED
    BY <1>3, <2>1, <2>2 DEF Around, TakeEntry, calls
<1>4. CASE Ack
  <2>1. batch # <<>>
    BY <1>4 DEF Typed, ProcOK, Ack
  <2>2. Range(Tail(batch)) \subseteq Range(batch)
    BY <1>1, <2>1, TailRange
  <2> QED
    BY <1>4, <2>2 DEF Around, Ack, calls
<1>5. CASE AckRaises
  BY <1>5 DEF Around, AckRaises, calls
<1> QED
  BY <1>2, <1>3, <1>4, <1>5 DEF Consume

LEMMA HandleAround ==
  ASSUME Typed, NEW p \in Proc,
         Handle(p) \/ FoldRaises(p) \/ RebuildRaises(p) \/ TextRefused(p),
         NEW e, e # NoEvent, Around(e)'
  PROVE  Around(e)
<1>1. UNCHANGED <<flight, stream, batch>>
  BY DEF Handle, FoldAgain, Fold, FoldFirst, Insert, FoldRaises, Rebuild, RebuildRaises, Effects,
         CheckText, SendText, LogText, TextRefused, rest
<1>2. seen' = seen \/ seen' = seen \cup {ev[p]}
  BY DEF Handle, FoldAgain, Fold, FoldFirst, Insert, FoldRaises, Rebuild, RebuildRaises, Effects,
         CheckText, SendText, LogText, TextRefused, Recorded, calls
<1>3. UNCHANGED ev \/ Done(p)
  BY DEF Handle, FoldAgain, Fold, FoldFirst, Insert, FoldRaises, Rebuild, RebuildRaises, Effects,
         CheckText, SendText, LogText, TextRefused, Goto
<1>4. \A q \in Proc : ev'[q] = ev[q] \/ ev'[q] = NoEvent
  BY <1>3 DEF Done, Typed, TypeOK
<1> QED
  BY <1>1, <1>2, <1>4 DEF Around

LEMMA OtherAround ==
  ASSUME Typed, NEW c \in Calls, NEW e \in Event, e.kind = "intake", Around(e)',
         \/ Start(c) \/ Decline(c) \/ DeclinedQuits(c) \/ Answer(c) \/ End(c) \/ AskTicket(c)
         \/ TicketAnswered(c) \/ WorkerDies(c) \/ CreateTicket(c) \/ RefuseTicket(c)
         \/ Analyse(c) \/ AnalyseRaises(c)
         \/ \E h \in Handlers : CloseGhost(h, c)
         \/ Restart
  PROVE  Around(e)
<1>1. CASE \/ AskTicket(c) \/ CreateTicket(c) \/ RefuseTicket(c) \/ Analyse(c) \/ AnalyseRaises(c)
  BY <1>1 DEF Around, AskTicket, CreateTicket, RefuseTicket, Analyse, AnalyseRaises, calls
<1>2. CASE DeclinedQuits(c) \/ WorkerDies(c)
  BY <1>2 DEF Around, DeclinedQuits, WorkerDies, api, calls
<1>3. CASE Start(c) \/ Decline(c) \/ Answer(c) \/ End(c) \/ TicketAnswered(c)
  <2>1. PICK kind \in WorkerKinds \ {"intake"} :
          flight' = flight \cup {[ev |-> Ev(c, kind), way |-> "stream"]}
    BY <1>3 DEF Start, Decline, Answer, End, Progress, TicketAnswered, Emit, WorkerKinds
  <2>2. Ev(c, kind) # e
    BY <2>1 DEF Ev
  <2>3. UNCHANGED <<stream, batch, ev, seen>>
    BY <1>3 DEF Start, Decline, Answer, End, Progress, TicketAnswered, api, calls
  <2> QED
    BY <2>1, <2>2, <2>3 DEF Around
<1>4. CASE \E h \in Handlers : CloseGhost(h, c)
  <2>1. PICK h \in Handlers : CloseGhost(h, c)
    BY <1>4
  <2>2. \A q \in Proc : ev'[q] = ev[q] \/ ev'[q].kind = "closed"
    BY <2>1 DEF CloseGhost, Typed, TypeOK
  <2> QED
    BY <2>1, <2>2 DEF Around, CloseGhost, calls
<1>5. CASE Restart
  <2>1. Range(<<>>) = {}
    BY DEF Range
  <2>2. e # NoEvent
    BY CallEventsAssumption
  <2> QED
    BY <1>5, <2>1, <2>2 DEF Around, Restart, calls
<1> QED
  BY <1>1, <1>2, <1>3, <1>4, <1>5

LEMMA GivenStays ==
  ASSUME NEW c \in Calls, Given(c)'
  PROVE  \E e \in Event : /\ e.kind = "intake" /\ e # NoEvent
                          /\ Around(e)' /\ (Around(e) => Given(c))
<1> DEFINE e == Ev(c, "intake")
<1>1. e \in Event /\ e # NoEvent
  BY EvType, CallEventsAssumption DEF WorkerKinds
<1>2. e.kind = "intake" /\ e' = e
  BY DEF Ev
<1>3. Around(e) => Given(c)
  BY DEF Given
<1>4. Around(e)'
  BY DEF Given
<1> HIDE DEF e
<1> QED
  BY <1>1, <1>2, <1>3, <1>4

\* A step that makes no intake, no post and no ticket.
LEMMA QuietKeeps ==
  ASSUME TicketStage,
         \A c \in Calls : Given(c)' => Given(c),
         UNCHANGED <<asked, posted, crossed>>, posts' \subseteq posts
  PROVE  TicketStage'
  BY DEF TicketStage

LEMMA AskKeeps ==
  ASSUME Typed, TicketStage, NEW c \in Calls,
         AskTicket(c) \/ TicketAnswered(c) \/ CreateTicket(c),
         \A d \in Calls : Given(d)' => Given(d)
  PROVE  TicketStage'
<1> SUFFICES ASSUME NEW d \in Calls
             PROVE  /\ asked'[d] = "no" => d \notin posts' \cup posted'
                    /\ asked'[d] = "waiting" => d \notin posted'
                    /\ Given(d)'
                         => asked'[d] = "done" /\ (d \in posts' \cup posted' => d \in crossed')
  BY DEF TicketStage
<1>1. /\ asked[d] = "no" => d \notin posts \cup posted
      /\ asked[d] = "waiting" => d \notin posted
      /\ Given(d) => asked[d] = "done" /\ (d \in posts \cup posted => d \in crossed)
  BY DEF TicketStage
<1>2. crossed' = crossed /\ asked \in [Calls -> Asks]
  BY DEF AskTicket, TicketAnswered, CreateTicket, ghost, Typed, TypeOK
<1>3. CASE AskTicket(c)
  <2>1. asked' = [asked EXCEPT ![c] = "waiting"] /\ posts' = posts \cup {c} /\ posted' = posted
        /\ asked[c] = "no"
    BY <1>3 DEF AskTicket, ticket
  <2> QED
    BY <1>1, <1>2, <2>1
<1>4. CASE TicketAnswered(c)
  <2>1. asked' = [asked EXCEPT ![c] = "done"] /\ posts' = posts /\ posted' = posted
        /\ asked[c] = "made"
    BY <1>4 DEF TicketAnswered, api, ticket
  <2> QED
    BY <1>1, <1>2, <2>1
<1>5. CASE CreateTicket(c)
  <2>1. /\ c \in posts /\ posts' = posts \ {c} /\ posted' = posted \cup {c}
        /\ asked' = IF asked[c] = "waiting" THEN [asked EXCEPT ![c] = "made"] ELSE asked
    BY <1>5 DEF CreateTicket
  <2> QED
    BY <1>1, <1>2, <2>1
<1> QED
  BY <1>3, <1>4, <1>5

(* The worker gives up: from here on the intake exists, and if the API has the  *)
(* ticket or the post, the call is crossed.                                     *)
LEMMA GiveUpKeeps ==
  ASSUME Typed, TicketStage, NEW c \in Calls, TicketGivenUp(c)
  PROVE  TicketStage'
<1>1. \A d \in Calls \ {c} : Given(d)' => Given(d)
  <2>1. flight' = flight \cup {[ev |-> Ev(c, "intake"), way |-> "stream"]}
        /\ UNCHANGED <<stream, batch, ev, seen>>
    BY DEF TicketGivenUp, Emit, api, calls
  <2> QED
    BY <2>1 DEF Given, Around, Ev
<1>2. /\ asked[c] \in {"waiting", "made"} /\ asked' = [asked EXCEPT ![c] = "done"]
      /\ crossed' = IF asked[c] = "made" \/ c \in posts THEN crossed \cup {c} ELSE crossed
      /\ posts' = posts /\ posted' = posted /\ asked \in [Calls -> Asks]
  BY DEF TicketGivenUp, api, ticket, Typed, TypeOK
<1>3. asked[c] = "waiting" => c \notin posted
  BY DEF TicketStage
<1>4. ASSUME NEW d \in Calls \ {c}
      PROVE  /\ asked'[d] = "no" => d \notin posts' \cup posted'
             /\ asked'[d] = "waiting" => d \notin posted'
             /\ Given(d)'
                  => asked'[d] = "done" /\ (d \in posts' \cup posted' => d \in crossed')
  BY <1>1, <1>2 DEF TicketStage
<1>5. asked'[c] = "done" /\ (c \in posts' \cup posted' => c \in crossed')
  BY <1>2, <1>3
<1> QED
  BY <1>4, <1>5 DEF TicketStage

LEMMA StepTickets == TicketInv /\ [Next]_vars => TicketStage'
<1> SUFFICES ASSUME TicketInv, [Next]_vars PROVE TicketStage'
  OBVIOUS
<1> USE DEF TicketInv, DeliveryInv
<1> DEFINE NoNewIntake == \A c \in Calls : Given(c)' => Given(c)
<1>1. CASE \E f \in flight : Publish(f) \/ PostLost(f)
  <2>1. NoNewIntake
    <3> SUFFICES ASSUME NEW d \in Calls, Given(d)' PROVE Given(d)
      OBVIOUS
    <3> PICK e \in Event : /\ e.kind = "intake" /\ e # NoEvent
                          /\ Around(e)' /\ (Around(e) => Given(d))
      BY GivenStays
    <3> QED
      BY <1>1, PublishAround
  <2> QED
    BY <1>1, <2>1, QuietKeeps
    DEF Publish, XAdd, XAddRaises, Post, PostLost, worker, api, ticket, ghost
<1>2. CASE Consume \/ AckRaises
  <2>1. NoNewIntake
    <3> SUFFICES ASSUME NEW d \in Calls, Given(d)' PROVE Given(d)
      OBVIOUS
    <3> PICK e \in Event : /\ e.kind = "intake" /\ e # NoEvent
                          /\ Around(e)' /\ (Around(e) => Given(d))
      BY GivenStays
    <3> QED
      BY <1>2, ConsumeAround
  <2> QED
    BY <1>2, <2>1, QuietKeeps DEF Consume, Read, TakeEntry, Ack, AckRaises, worker, ticket, ghost
<1>3. CASE \E p \in Proc : Handle(p) \/ FoldRaises(p) \/ RebuildRaises(p) \/ TextRefused(p)
  <2>1. NoNewIntake
    <3> SUFFICES ASSUME NEW d \in Calls, Given(d)' PROVE Given(d)
      OBVIOUS
    <3> PICK e \in Event : /\ e.kind = "intake" /\ e # NoEvent
                          /\ Around(e)' /\ (Around(e) => Given(d))
      BY GivenStays
    <3> QED
      BY <1>3, HandleAround
  <2>2. UNCHANGED <<asked, posted, crossed, posts>>
    BY <1>3
    DEF Handle, FoldAgain, Fold, FoldFirst, Insert, FoldRaises, Rebuild, RebuildRaises, Effects,
        CheckText, SendText, LogText, TextRefused, Recorded, Remember, rest, worker, ticket, ghost
  <2> QED
    BY <2>1, <2>2, QuietKeeps
<1>4. CASE \E c \in Calls : AskTicket(c) \/ TicketAnswered(c) \/ CreateTicket(c)
  <2>1. NoNewIntake
    <3> SUFFICES ASSUME NEW d \in Calls, Given(d)' PROVE Given(d)
      OBVIOUS
    <3> PICK e \in Event : /\ e.kind = "intake" /\ e # NoEvent
                          /\ Around(e)' /\ (Around(e) => Given(d))
      BY GivenStays
    <3> QED
      BY <1>4, OtherAround
  <2> QED
    BY <1>4, <2>1, AskKeeps
<1>5. CASE \E c \in Calls : TicketGivenUp(c)
  BY <1>5, GiveUpKeeps
<1>6. CASE \E c \in Calls : \/ Start(c) \/ Decline(c) \/ DeclinedQuits(c) \/ Answer(c) \/ End(c)
                            \/ WorkerDies(c) \/ RefuseTicket(c) \/ Analyse(c) \/ AnalyseRaises(c)
                            \/ \E h \in Handlers : CloseGhost(h, c)
  <2>1. NoNewIntake
    <3> SUFFICES ASSUME NEW d \in Calls, Given(d)' PROVE Given(d)
      OBVIOUS
    <3> PICK e \in Event : /\ e.kind = "intake" /\ e # NoEvent
                          /\ Around(e)' /\ (Around(e) => Given(d))
      BY GivenStays
    <3> QED
      BY <1>6, OtherAround
  <2> QED
    BY <1>6, <2>1, QuietKeeps
    DEF Start, Decline, DeclinedQuits, Answer, End, Progress, WorkerDies, RefuseTicket, Analyse,
        AnalyseRaises, CloseGhost, worker, api, ticket, ghost
<1>7. CASE Restart
  <2>1. NoNewIntake
    <3> SUFFICES ASSUME NEW d \in Calls, Given(d)' PROVE Given(d)
      OBVIOUS
    <3> PICK e \in Event : /\ e.kind = "intake" /\ e # NoEvent
                          /\ Around(e)' /\ (Around(e) => Given(d))
      BY GivenStays
    <3> QED
      BY <1>7, OtherAround
  <2> QED
    BY <1>7, <2>1, QuietKeeps DEF Restart, worker, ticket
<1>8. CASE UNCHANGED vars
  <2>1. NoNewIntake
    BY <1>8 DEF Given, Around, vars, calls
  <2> QED
    BY <1>8, <2>1, QuietKeeps DEF vars, worker, ticket, ghost
<1> QED
  BY <1>1, <1>2, <1>3, <1>4, <1>5, <1>6, <1>7, <1>8 DEF Next, Worker, Raise

(* One intake leads to one ticket, two only if the worker gave up on a post     *)
(* that the API carries out (create_ticket in tools.py, rebuild_from_event).    *)
THEOREM OneTicketPerIntake == Spec => []TicketOnce
<1>1. Init => TicketInv
  BY InitDelivery, InitTickets DEF TicketInv
<1>2. TicketInv /\ [Next]_vars => TicketInv'
  BY StepDelivery, StepTickets DEF TicketInv
<1>3. TicketInv => TicketOnce
  <2> SUFFICES ASSUME TicketInv, NEW c \in Calls
               PROVE  rebuilt[c] + (IF c \in posted THEN 1 ELSE 0)
                        <= IF c \in crossed THEN 2 ELSE 1
    BY DEF TicketOnce
  <2>1. rebuilt[c] \in Nat /\ rebuilt[c] <= 1
    BY DEF TicketInv, DeliveryInv, Typed, TypeOK, RebuildSpent
  <2>2. rebuilt[c] > 0 /\ c \in posted => c \in crossed
    BY DEF TicketInv, DeliveryInv, RebuildSpent, Spent, TicketStage, Given, Around
  <2> QED
    BY <2>1, <2>2
<1> QED
  BY <1>1, <1>2, <1>3, PTL DEF Spec

-------------------------------------------------------------------------------
(* The live board.  An end that has been folded is on its way to the board,     *)
(* remembered by it, or forgotten; what is remembered is not on it.             *)

PendingEnd(c) == \E p \in Proc : pc[p] = "folded" /\ ev[p].call = c /\ IsEnd(ev[p])
EndKnown == \A c \in Calls : EndSeen(c) => c \in forgotten \/ c \in Range(recent) \/ PendingEnd(c)
BoardClear == \A c \in live : c \notin Range(recent)

BoardInv == Typed /\ EndKnown /\ BoardClear

LEMMA InitBoard == Init => BoardInv
  BY InitTyped DEF Init, BoardInv, EndKnown, EndSeen, BoardClear

\* A step away from the board that leaves the pending ends where they are.
LEMMA BoardStill ==
  ASSUME BoardInv, Typed', UNCHANGED <<live, recent, forgotten, seen>>,
         \A q \in Proc : pc[q] = "folded" /\ IsEnd(ev[q]) => pc'[q] = "folded" /\ ev'[q] = ev[q]
  PROVE  BoardInv'
<1>1. EndKnown'
  <2> SUFFICES ASSUME NEW c \in Calls, EndSeen(c)'
               PROVE  (c \in forgotten \/ c \in Range(recent) \/ PendingEnd(c))'
    BY DEF EndKnown
  <2>1. EndSeen(c)
    BY DEF EndSeen
  <2>2. CASE PendingEnd(c)
    BY <2>2 DEF PendingEnd
  <2> QED
    BY <2>1, <2>2 DEF BoardInv, EndKnown
<1>2. BoardClear'
  BY DEF BoardInv, BoardClear
<1> QED
  BY <1>1, <1>2 DEF BoardInv

LEMMA CommitBoard ==
  ASSUME BoardInv, Typed', NEW p \in Proc, Fold(p) \/ Insert(p)
  PROVE  BoardInv'
<1>1. /\ pc' = [pc EXCEPT ![p] = "folded"] /\ UNCHANGED <<ev, live, recent, forgotten>>
      /\ seen' = seen \cup {ev[p]}
  BY DEF Fold, Insert, Recorded, Goto, memory
<1>2. pc'[p] = "folded" /\ \A q \in Proc \ {p} : pc'[q] = pc[q]
  BY <1>1 DEF BoardInv, Typed, TypeOK
<1>3. EndKnown'
  <2> SUFFICES ASSUME NEW c \in Calls, EndSeen(c)'
               PROVE  (c \in forgotten \/ c \in Range(recent) \/ PendingEnd(c))'
    BY DEF EndKnown
  <2>1. CASE ev[p].call = c /\ IsEnd(ev[p])
    BY <1>1, <1>2, <2>1 DEF PendingEnd
  <2>2. CASE EndSeen(c)
    <3>1. PendingEnd(c) => PendingEnd(c)'
      BY <1>1, <1>2 DEF PendingEnd
    <3> QED
      BY <1>1, <2>2, <3>1 DEF BoardInv, EndKnown
  <2>3. EndSeen(c) \/ (ev[p].call = c /\ IsEnd(ev[p]))
    BY <1>1 DEF EndSeen
  <2> QED
    BY <2>1, <2>2, <2>3
<1>4. BoardClear'
  BY <1>1 DEF BoardInv, BoardClear
<1> QED
  BY <1>3, <1>4 DEF BoardInv

LEMMA EffectsBoard ==
  ASSUME BoardInv, Typed', NEW p \in Proc, Effects(p)
  PROVE  BoardInv'
<1>1. /\ UNCHANGED seen
      /\ \A q \in Proc \ {p} : pc'[q] = pc[q] /\ ev'[q] = ev[q]
      /\ pc[p] \in {"folded", "hub"} /\ ev[p] \in Event /\ ev[p].call \in Calls
  BY HandlingEvent DEF Effects, Goto, Done, Handling, BoardInv, Typed, TypeOK, calls
<1> DEFINE c == ev[p].call
<1>2. CASE ~ IsEnd(ev[p])
  <2>1. /\ live' = IF c \in Range(recent) THEN live ELSE live \cup {c}
        /\ UNCHANGED <<recent, forgotten>>
    BY <1>2 DEF Effects
  <2>2. EndKnown'
    <3> SUFFICES ASSUME NEW d \in Calls, EndSeen(d)'
                 PROVE  (d \in forgotten \/ d \in Range(recent) \/ PendingEnd(d))'
      BY DEF EndKnown
    <3>1. EndSeen(d)
      BY <1>1 DEF EndSeen
    <3>2. PendingEnd(d) => PendingEnd(d)'
      BY <1>1, <1>2 DEF PendingEnd
    <3> QED
      BY <2>1, <3>1, <3>2 DEF BoardInv, EndKnown
  <2>3. BoardClear'
    BY <2>1 DEF BoardInv, BoardClear
  <2> QED
    BY <2>2, <2>3 DEF BoardInv
<1>3. CASE IsEnd(ev[p])
  <2> DEFINE longer == Append(recent, c)
  <2>1. /\ live' = live \ {c}
        /\ recent' = longer \/ recent' = Tail(longer)
        /\ forgotten' = (forgotten \cup Range(longer)) \ Range(recent')
    BY <1>3 DEF Effects, Remember
  <2>2. Range(longer) = Range(recent) \cup {c} /\ longer \in Seq(Calls) /\ longer # <<>>
    <3>1. recent \in Seq(Calls) /\ c \in Calls
      BY <1>1 DEF BoardInv, Typed, TypeOK
    <3>2. Range(longer) = Range(recent) \cup {c}
      BY <3>1, AppendRange
    <3>3. longer \in Seq(Calls) /\ Len(longer) = Len(recent) + 1 /\ Len(recent) \in Nat
      BY <3>1
    <3>4. longer # <<>>
      BY <3>3
    <3> QED
      BY <3>2, <3>3, <3>4
  <2>3. Range(recent') \subseteq Range(longer)
    <3>1. Range(Tail(longer)) \subseteq Range(longer)
      BY <2>2, TailRange
    <3> QED
      BY <2>1, <3>1
  <2> HIDE DEF longer
  <2>4. EndKnown'
    <3> SUFFICES ASSUME NEW d \in Calls, EndSeen(d)'
                 PROVE  d \in forgotten' \/ d \in Range(recent') \/ PendingEnd(d)'
      BY DEF EndKnown
    <3>1. EndSeen(d)
      BY <1>1 DEF EndSeen
    <3>2. CASE d \in forgotten \/ d \in Range(longer)
      BY <2>1, <3>2
    <3>3. CASE PendingEnd(d) /\ d # c
      BY <1>1, <3>3 DEF PendingEnd
    <3> QED
      BY <2>2, <3>1, <3>2, <3>3 DEF BoardInv, EndKnown
  <2>5. BoardClear'
    BY <2>1, <2>2, <2>3 DEF BoardInv, BoardClear
  <2> QED
    BY <2>4, <2>5 DEF BoardInv
<1> QED
  BY <1>2, <1>3

LEMMA HandleBoard ==
  ASSUME BoardInv, Typed', NEW p \in Proc,
         Handle(p) \/ FoldRaises(p) \/ RebuildRaises(p) \/ TextRefused(p)
  PROVE  BoardInv'
<1>1. CASE Fold(p) \/ Insert(p)
  BY <1>1, CommitBoard
<1>2. CASE Effects(p)
  BY <1>2, EffectsBoard
<1>3. CASE \/ FoldAgain(p) \/ FoldFirst(p) \/ Rebuild(p) \/ CheckText(p) \/ SendText(p)
           \/ LogText(p) \/ FoldRaises(p) \/ RebuildRaises(p) \/ TextRefused(p)
  <2>1. UNCHANGED <<live, recent, forgotten, seen>>
    BY <1>3
    DEF FoldAgain, FoldFirst, Rebuild, CheckText, SendText, LogText, FoldRaises, RebuildRaises,
        TextRefused, memory, calls, ghost
  <2>2. ~ (pc[p] = "folded" /\ IsEnd(ev[p]))
    BY <1>3
    DEF FoldAgain, FoldFirst, Mine, Rebuild, CheckText, SendText, LogText, FoldRaises,
        RebuildRaises, TextRefused, IsEnd
  <2>3. Done(p) \/ \E next \in PC : Goto(p, next)
    BY <1>3
    DEF FoldAgain, FoldFirst, Rebuild, CheckText, SendText, LogText, FoldRaises, RebuildRaises,
        TextRefused, PC
  <2>4. \A q \in Proc \ {p} : pc'[q] = pc[q] /\ ev'[q] = ev[q]
    BY <2>3 DEF Done, Goto, BoardInv, Typed, TypeOK
  <2> QED
    BY <2>1, <2>2, <2>4, BoardStill
<1> QED
  BY <1>1, <1>2, <1>3 DEF Handle

\* Taking an event, or acknowledging one, is for a process that is not handling any.
LEMMA TakeBoard ==
  ASSUME BoardInv, Typed', NEW p \in Proc, pc[p] # "folded",
         \A q \in Proc \ {p} : pc'[q] = pc[q] /\ ev'[q] = ev[q],
         UNCHANGED <<live, recent, forgotten, seen>>
  PROVE  BoardInv'
  BY BoardStill

LEMMA ConsumeBoard == ASSUME BoardInv, Typed', Consume \/ AckRaises PROVE BoardInv'
<1>1. CASE Read
  BY <1>1, BoardStill DEF Read, memory, calls, ghost
<1>2. CASE TakeEntry \/ Ack \/ AckRaises
  <2>1. Consumer \in Proc /\ pc[Consumer] # "folded"
    BY <1>2 DEF Proc, TakeEntry, Ack, AckRaises
  <2>2. \A q \in Proc \ {Consumer} : pc'[q] = pc[q] /\ ev'[q] = ev[q]
    BY <1>2 DEF TakeEntry, Ack, AckRaises, BoardInv, Typed, TypeOK
  <2> QED
    BY <1>2, <2>1, <2>2, TakeBoard DEF TakeEntry, Ack, AckRaises, memory, calls, ghost
<1> QED
  BY <1>1, <1>2 DEF Consume

LEMMA HandlerBoard ==
  ASSUME BoardInv, Typed', NEW h \in Handlers, NEW e, pc[h] = "idle",
         pc' = [pc EXCEPT ![h] = "fold"], ev' = [ev EXCEPT ![h] = e],
         UNCHANGED <<live, recent, forgotten, seen>>
  PROVE  BoardInv'
<1>1. h \in Proc /\ \A q \in Proc \ {h} : pc'[q] = pc[q] /\ ev'[q] = ev[q]
  BY DEF Proc, BoardInv, Typed, TypeOK
<1> QED
  BY <1>1, TakeBoard

LEMMA StepBoard == BoardInv /\ [Next]_vars => BoardInv'
<1> SUFFICES ASSUME BoardInv, [Next]_vars PROVE BoardInv'
  OBVIOUS
<1>0. Typed'
  BY StepTyped DEF BoardInv
<1>1. CASE \E f \in flight : Publish(f) \/ PostLost(f)
  <2> PICK f \in flight : Publish(f) \/ PostLost(f)
    BY <1>1
  <2>1. CASE Post(f)
    BY <1>0, <2>1, HandlerBoard DEF Post, memory, calls, ghost
  <2>2. CASE XAdd(f) \/ XAddRaises(f) \/ PostLost(f)
    BY <1>0, <2>2, BoardStill DEF XAdd, XAddRaises, PostLost, api, memory, calls, ghost
  <2> QED
    BY <2>1, <2>2 DEF Publish
<1>2. CASE Consume \/ AckRaises
  BY <1>0, <1>2, ConsumeBoard
<1>3. CASE \E p \in Proc : Handle(p) \/ FoldRaises(p) \/ RebuildRaises(p) \/ TextRefused(p)
  BY <1>0, <1>3, HandleBoard
<1>4. CASE \E h \in Handlers, c \in Calls : CloseGhost(h, c)
  BY <1>0, <1>4, HandlerBoard DEF CloseGhost, memory, calls, ghost
<1>5. CASE \E c \in Calls : \/ Worker(c) \/ WorkerDies(c) \/ CreateTicket(c) \/ RefuseTicket(c)
                            \/ Analyse(c) \/ AnalyseRaises(c)
  <2>1. UNCHANGED <<pc, ev, live, recent, forgotten, seen>>
    BY <1>5
    DEF Worker, Start, Decline, DeclinedQuits, Answer, End, Progress, AskTicket, TicketAnswered,
        TicketGivenUp, WorkerDies, CreateTicket, RefuseTicket, Analyse, AnalyseRaises, api, memory,
        calls, ghost
  <2> QED
    BY <1>0, <2>1, BoardStill
<1>6. CASE Restart
  <2>1. live' = {} /\ forgotten' = {c \in Calls : EndSeen(c)} /\ UNCHANGED seen
    BY <1>6 DEF Restart, calls
  <2>2. EndKnown'
    BY <2>1 DEF EndKnown, EndSeen
  <2>3. BoardClear'
    BY <2>1 DEF BoardClear
  <2> QED
    BY <1>0, <2>2, <2>3 DEF BoardInv
<1>7. CASE UNCHANGED vars
  BY <1>0, <1>7, BoardStill DEF vars, memory, calls, ghost
<1> QED
  BY <1>1, <1>2, <1>3, <1>4, <1>5, <1>6, <1>7 DEF Next, Raise

(* A late event never brings a call back to the live board whose end the board  *)
(* still remembers, for any number of calls and any limit (LiveCallHub.on_event). *)
THEOREM NoCallRevived == Spec => []NoZombie
<1>1. BoardInv => NoZombie
  BY DEF BoardInv, EndKnown, BoardClear, PendingEnd, NoZombie, Typed, TypeOK
<1> QED
  BY <1>1, InitBoard, StepBoard, PTL DEF Spec

-------------------------------------------------------------------------------
(* The record.  Until a call has a row none of its events has been folded; its  *)
(* rows have keys of their own, each the event that made it; and a single row   *)
(* is the fold of all its call's events.                                        *)

HasRow(c) == rows[c] = {} => \A e \in seen : e.call # c
Keyed(c) == \A r \in rows[c] :
  /\ r.key \in seen /\ r.key.call = c
  /\ \A s \in rows[c] : r.key = s.key => r = s
IsFold(c, r) ==
  /\ r.started = (Ev(c, "started") \in seen)
  /\ r.answered = (Ev(c, "answered") \in seen)
  /\ c \notin overtaken => (EndSeen(c) <=> ~Open(r))

RowOK(c) == HasRow(c) /\ Keyed(c) /\ (~Split(c) => \A r \in rows[c] : IsFold(c, r))
RowInv == \A c \in Calls : RowOK(c)

LEMMA InitRow == Init => RowInv
  BY DEF Init, RowInv, RowOK, HasRow, Keyed, Split

LEMMA RowStill ==
  ASSUME RowInv, UNCHANGED <<rows, seen, overtaken>>
  PROVE  RowInv'
<1>1. ASSUME NEW c \in Calls PROVE RowOK(c)'
  BY DEF RowInv, RowOK, HasRow, Keyed, Split, IsFold, EndSeen, Ev
<1> QED
  BY <1>1 DEF RowInv

LEMMA EventKind ==
  ASSUME NEW e \in Event, NEW kind \in WorkerKinds, e.kind = kind
  PROVE  e = Ev(e.call, kind)
  BY DEF Event, Ev, WorkerKinds

\* What folding an event into a row, under any key, leaves there.
LEMMA FoldedFields ==
  ASSUME NEW r \in Row, NEW e \in Event, NEW k
  PROVE  LET n == [FoldRow(r, e) EXCEPT !.key = k]
         IN /\ n.key = k
            /\ n.started = (r.started \/ e.kind = "started")
            /\ n.answered = (r.answered \/ e.kind = "answered")
            /\ n.status = IF IsEnd(e) THEN "completed"
                          ELSE IF e.kind = "answered" THEN "in_progress" ELSE r.status
  BY DEF FoldRow, Row

\* A fold stays one when the next event is folded into it and recorded.
LEMMA FoldStaysFold ==
  ASSUME NEW e \in Event, NEW r \in Row, NEW n,
         IsFold(e.call, r), Recorded(e),
         n.started = (r.started \/ e.kind = "started"),
         n.answered = (r.answered \/ e.kind = "answered"),
         n.status = IF IsEnd(e) THEN "completed"
                    ELSE IF e.kind = "answered" THEN "in_progress" ELSE r.status
  PROVE  IsFold(e.call, n)'
<1> DEFINE c == e.call
<1>1. seen' = seen \cup {e} /\ overtaken \subseteq overtaken'
  BY DEF Recorded
<1>2. \A kind \in WorkerKinds : Ev(c, kind) \in seen' <=> Ev(c, kind) \in seen \/ e.kind = kind
  BY <1>1, EventKind DEF Ev
<1>3. n.started = (Ev(c, "started") \in seen')
  <2>1. (Ev(c, "started") \in seen') = (Ev(c, "started") \in seen \/ e.kind = "started")
    BY <1>2 DEF WorkerKinds
  <2>2. r.started = (Ev(c, "started") \in seen)
    BY DEF IsFold
  <2>3. n.started = (Ev(c, "started") \in seen \/ e.kind = "started")
    BY ONLY <2>2, n.started = (r.started \/ e.kind = "started")
  <2> QED
    BY ONLY <2>1, <2>3
<1>4. n.answered = (Ev(c, "answered") \in seen')
  <2>1. (Ev(c, "answered") \in seen') = (Ev(c, "answered") \in seen \/ e.kind = "answered")
    BY <1>2 DEF WorkerKinds
  <2>2. r.answered = (Ev(c, "answered") \in seen)
    BY DEF IsFold
  <2>3. n.answered = (Ev(c, "answered") \in seen \/ e.kind = "answered")
    BY ONLY <2>2, n.answered = (r.answered \/ e.kind = "answered")
  <2> QED
    BY ONLY <2>1, <2>3
<1>5. ASSUME c \notin overtaken' PROVE EndSeen(c)' <=> n.status = "completed"
  <2>1. EndSeen(c)' <=> EndSeen(c) \/ IsEnd(e)
    BY <1>1 DEF EndSeen
  <2>2. ~ (e.kind = "answered" /\ EndSeen(c))
    BY <1>5 DEF Recorded
  <2>3. EndSeen(c) <=> r.status = "completed"
    BY <1>1, <1>5 DEF IsFold, Open
  <2> QED
    BY <2>1, <2>2, <2>3 DEF IsEnd
<1> QED
  BY <1>3, <1>4, <1>5 DEF IsFold, Open, Ev

\* Another call's rows are as they were, and so are the events it is made of.
LEMMA OtherRow ==
  ASSUME RowInv, NEW e, Recorded(e), NEW c \in Calls, c # e.call, rows'[c] = rows[c]
  PROVE  RowOK(c)'
<1>1. seen' = seen \cup {e} /\ (c \in overtaken' <=> c \in overtaken)
  BY DEF Recorded
<1>2. EndSeen(c)' <=> EndSeen(c)
  BY <1>1 DEF EndSeen
<1>3. \A kind : Ev(c, kind) \in seen' <=> Ev(c, kind) \in seen
  BY <1>1 DEF Ev
<1>4. HasRow(c)' /\ Keyed(c)'
  BY <1>1 DEF RowInv, RowOK, HasRow, Keyed
<1>5. ASSUME ~ Split(c)', NEW r \in rows'[c] PROVE IsFold(c, r)'
  <2>1. IsFold(c, r)
    BY <1>5 DEF RowInv, RowOK, Split
  <2> QED
    BY <1>1, <1>2, <1>3, <2>1 DEF IsFold, Ev
<1> QED
  BY <1>4, <1>5 DEF RowOK

LEMMA FoldKeepsRow ==
  ASSUME Typed, RowInv, NEW p \in Proc, Fold(p)
  PROVE  RowInv'
<1>1. pc[p] \in Handling /\ ev[p] \in Event /\ ev[p].call \in Calls
  BY HandlingEvent DEF Fold, Mine, Handling
<1>2. PICK e \in Event : e = ev[p]
  BY <1>1
<1> DEFINE c == e.call
<1>3. PICK r \in rows[ev[p].call] :
        rows' = [rows EXCEPT ![ev[p].call] = {[FoldRow(r, ev[p]) EXCEPT !.key = s.key] : s \in @}]
  BY DEF Fold
<1>4. Recorded(e) /\ seen' = seen \cup {e}
  BY <1>2 DEF Fold, Recorded
<1>5. rows[c] \subseteq Row /\ r \in rows[c] /\ r \in Row /\ c \in Calls
  BY <1>1, <1>2, <1>3 DEF Typed, TypeOK
<1>6. \A a : a \in rows'[c] <=> \E s \in rows[c] : a = [FoldRow(r, e) EXCEPT !.key = s.key]
  <2>1. \A a : a \in rows'[ev[p].call]
          <=> \E s \in rows[ev[p].call] : a = [FoldRow(r, ev[p]) EXCEPT !.key = s.key]
    BY <1>1, <1>3 DEF Typed, TypeOK
  <2> QED
    BY <1>2, <2>1
<1>7. \A d \in Calls \ {c} : rows'[d] = rows[d]
  BY <1>2, <1>3 DEF Typed, TypeOK
<1>8. ASSUME NEW s \in rows[c] PROVE [FoldRow(r, e) EXCEPT !.key = s.key].key = s.key
  BY <1>5, FoldedFields
<1>9. HasRow(c)' /\ Keyed(c)'
  <2>1. rows'[c] # {}
    BY <1>5, <1>6
  <2>2. ASSUME NEW a \in rows'[c]
        PROVE  /\ a.key \in seen' /\ a.key.call = c
               /\ \A b \in rows'[c] : a.key = b.key => a = b
    <3>1. PICK s \in rows[c] : a = [FoldRow(r, e) EXCEPT !.key = s.key]
      BY <1>6, <2>2
    <3>2. a.key = s.key
      BY <1>8, <3>1
    <3>3. a.key \in seen' /\ a.key.call = c
      BY <1>4, <1>5, <3>2 DEF RowInv, RowOK, Keyed
    <3>4. ASSUME NEW b \in rows'[c], a.key = b.key PROVE a = b
      <4>1. PICK t \in rows[c] : b = [FoldRow(r, e) EXCEPT !.key = t.key]
        BY <1>6, <3>4
      <4>2. b.key = t.key
        BY <1>8, <4>1
      <4> QED
        BY <3>1, <3>2, <3>4, <4>1, <4>2
    <3> QED
      BY <3>3, <3>4
  <2> QED
    BY <2>1, <2>2 DEF HasRow, Keyed
<1>10. ASSUME ~ Split(c)', NEW n \in rows'[c] PROVE IsFold(c, n)'
  <2>1. ~ Split(c)
    <3> SUFFICES ASSUME NEW s \in rows[c], NEW t \in rows[c], s # t PROVE FALSE
      BY DEF Split
    <3>1. s.key # t.key
      BY <1>5 DEF RowInv, RowOK, Keyed
    <3>2. /\ [FoldRow(r, e) EXCEPT !.key = s.key] \in rows'[c]
          /\ [FoldRow(r, e) EXCEPT !.key = t.key] \in rows'[c]
      BY <1>6
    <3>3. [FoldRow(r, e) EXCEPT !.key = s.key] # [FoldRow(r, e) EXCEPT !.key = t.key]
      BY <1>8, <3>1
    <3> QED
      BY <1>10, <3>2, <3>3 DEF Split
  <2>2. IsFold(c, r)
    BY <1>3, <1>5, <2>1 DEF RowInv, RowOK
  <2>3. PICK s \in rows[c] : n = [FoldRow(r, e) EXCEPT !.key = s.key]
    BY <1>6, <1>10
  <2>4. /\ n.started = (r.started \/ e.kind = "started")
        /\ n.answered = (r.answered \/ e.kind = "answered")
        /\ n.status = IF IsEnd(e) THEN "completed"
                      ELSE IF e.kind = "answered" THEN "in_progress" ELSE r.status
    BY <1>5, <2>3, FoldedFields
  <2> QED
    BY ONLY <1>4, <1>5, <2>2, <2>4, e \in Event, FoldStaysFold
<1>11. \A d \in Calls : RowOK(d)'
  BY <1>4, <1>7, <1>9, <1>10, OtherRow DEF RowOK
<1> QED
  BY <1>11 DEF RowInv

LEMMA InsertKeepsRow ==
  ASSUME DeliveryInv, RowInv, NEW p \in Proc, Insert(p)
  PROVE  RowInv'
<1> USE DEF DeliveryInv
<1>1. pc[p] \in Handling /\ ev[p] \in Event /\ ev[p].call \in Calls
  BY HandlingEvent DEF Insert, Handling
<1>2. PICK e \in Event : e = ev[p]
  BY <1>1
<1> DEFINE c   == e.call
           new == FoldRow(NewRow(e), e)
           re(s) == [new EXCEPT !.key = s.key]
<1>3. e \notin seen
  BY <1>2 DEF Deliveries, InsertNew, Insert
<1>4. Recorded(e) /\ seen' = seen \cup {e}
  BY <1>2 DEF Insert, Recorded
<1> DEFINE n == FoldRow(NewRow(ev[p]), ev[p])
<1>5. PICK visible \in SUBSET rows[ev[p].call] :
        rows' = [rows EXCEPT ![ev[p].call] =
                   (@ \ visible) \cup {[n EXCEPT !.key = s.key] : s \in visible} \cup {n}]
  BY DEF Insert
<1>6. rows[c] \subseteq Row /\ c \in Calls /\ visible \subseteq rows[c]
  BY <1>1, <1>2 DEF Typed, TypeOK
<1>7. /\ \A a : a \in rows'[c] <=> \/ a \in rows[c] \ visible
                                   \/ \E s \in visible : a = re(s)
                                   \/ a = new
      /\ \A d \in Calls \ {c} : rows'[d] = rows[d]
  <2>1. n = new
    BY <1>2
  <2> DEFINE R == (rows[ev[p].call] \ visible) \cup {[n EXCEPT !.key = s.key] : s \in visible} \cup {n}
  <2>2. rows' = [rows EXCEPT ![ev[p].call] = R]
    BY <1>5
  <2>3. \A a : a \in R <=> \/ a \in rows[ev[p].call] \ visible
                           \/ \E s \in visible : a = [n EXCEPT !.key = s.key]
                           \/ a = n
    <3> DEFINE V == {[n EXCEPT !.key = s.key] : s \in visible}
    <3> HIDE DEF n
    <3>1. \A a : a \in V <=> \E s \in visible : a = [n EXCEPT !.key = s.key]
      BY Zenon
    <3>2. R = (rows[ev[p].call] \ visible) \cup V \cup {n}
      OBVIOUS
    <3> HIDE DEF V, R
    <3> QED
      BY <3>1, <3>2
  <2>4. \A s : re(s) = [n EXCEPT !.key = s.key]
    BY <2>1, Zenon
  <2> HIDE DEF R, n, new, re
  <2>5. rows'[ev[p].call] = R /\ \A d \in Calls \ {ev[p].call} : rows'[d] = rows[d]
    BY <1>1, <2>2 DEF Typed, TypeOK
  <2>6. \A a : a \in R <=> \/ a \in rows[ev[p].call] \ visible
                           \/ \E s \in visible : a = re(s)
                           \/ a = n
    BY <2>3, <2>4, Zenon
  <2>7. \A a : a \in rows'[ev[p].call] <=> \/ a \in rows[ev[p].call] \ visible
                                           \/ \E s \in visible : a = re(s)
                                           \/ a = new
    BY <2>1, <2>5, <2>6
  <2>8. \A a : a \in rows'[c] <=> \/ a \in rows[c] \ visible
                                  \/ \E s \in visible : a = re(s)
                                  \/ a = new
    BY <1>2, <2>7
  <2>9. \A d \in Calls \ {c} : rows'[d] = rows[d]
    BY <1>2, <2>5
  <2> QED
    BY <2>8, <2>9
<1> HIDE DEF n
<1>8. NewRow(e) \in Row /\ NewRow(e).key = e
  BY DEF NewRow, Row, RowStatus
<1>9. new \in Row /\ new.key = e
  BY <1>8, FoldRowType DEF FoldRow, Row
<1>10. \A s \in visible : re(s).key = s.key
  <2> HIDE DEF new
  <2> QED
    BY <1>9 DEF Row
<1> HIDE DEF new, re
\* Every other row there now comes from one that was there, with its key.
<1>11. ASSUME NEW a \in rows'[c], a # new
       PROVE  \E s \in rows[c] : a.key = s.key /\ a = IF s \in visible THEN re(s) ELSE s
  <2>1. CASE a \in rows[c] \ visible
    BY <2>1
  <2>2. CASE \E s \in visible : a = re(s)
    BY <1>6, <1>10, <2>2
  <2> QED
    BY <1>7, <1>11, <2>1, <2>2
<1>12. ASSUME NEW a \in rows'[c], a # new PROVE a.key \in seen /\ a.key.call = c
  BY <1>6, <1>11, <1>12 DEF RowInv, RowOK, Keyed
<1>13. HasRow(c)' /\ Keyed(c)'
  <2>1. rows'[c] # {}
    BY <1>7
  <2>2. ASSUME NEW a \in rows'[c], NEW b \in rows'[c], a.key = b.key PROVE a = b
    <3>1. CASE a = new \/ b = new
      BY <1>3, <1>9, <1>12, <2>2, <3>1
    <3>2. CASE a # new /\ b # new
      <4>1. PICK s \in rows[c] : a.key = s.key /\ a = IF s \in visible THEN re(s) ELSE s
        BY <1>11, <3>2
      <4>2. PICK t \in rows[c] : b.key = t.key /\ b = IF t \in visible THEN re(t) ELSE t
        BY <1>11, <3>2
      <4>3. s.key = t.key /\ Keyed(c)
        BY <1>6, <2>2, <4>1, <4>2 DEF RowInv, RowOK
      <4>4. s = t
        BY <4>1, <4>2, <4>3 DEF Keyed
      <4> QED
        BY <4>1, <4>2, <4>4
    <3> QED
      BY <3>1, <3>2
  <2>3. ASSUME NEW a \in rows'[c] PROVE a.key \in seen' /\ a.key.call = c
    BY <1>4, <1>9, <1>12
  <2> QED
    BY <2>1, <2>2, <2>3 DEF HasRow, Keyed
<1>14. ASSUME ~ Split(c)', NEW b \in rows'[c] PROVE IsFold(c, b)'
  <2>1. rows[c] = {}
    <3> SUFFICES ASSUME NEW s \in rows[c] PROVE FALSE
      OBVIOUS
    <3>1. PICK a \in rows'[c] : a.key = s.key
      BY <1>7, <1>10
    <3>2. s.key \in seen
      BY <1>6 DEF RowInv, RowOK, Keyed
    <3>3. a # new /\ new \in rows'[c]
      BY <1>3, <1>7, <1>9, <3>1, <3>2
    <3> QED
      BY <1>14, <3>1, <3>3 DEF Split
  <2>2. b = new
    BY <1>6, <1>7, <1>14, <2>1
  <2>3. IsFold(c, NewRow(e))
    <3>1. \A f \in seen : f.call # c
      BY <1>6, <2>1 DEF RowInv, RowOK, HasRow
    <3>2. Ev(c, "started") \notin seen /\ Ev(c, "answered") \notin seen /\ ~ EndSeen(c)
      BY <3>1 DEF EndSeen, Ev
    <3>3. ~ NewRow(e).started /\ ~ NewRow(e).answered /\ NewRow(e).status = "ringing"
      BY DEF NewRow
    <3>4. /\ NewRow(e).started = (Ev(c, "started") \in seen)
          /\ NewRow(e).answered = (Ev(c, "answered") \in seen)
      <4>1. (Ev(c, "started") \in seen) = FALSE /\ (Ev(c, "answered") \in seen) = FALSE
        BY <3>2
      <4>2. NewRow(e).started = FALSE /\ NewRow(e).answered = FALSE
        BY DEF NewRow
      <4> QED
        BY ONLY <4>1, <4>2
    <3>5. EndSeen(c) <=> ~ Open(NewRow(e))
      BY <3>2, <3>3 DEF Open
    <3> QED
      BY <3>4, <3>5 DEF IsFold
  <2>4. /\ new.started = (NewRow(e).started \/ e.kind = "started")
        /\ new.answered = (NewRow(e).answered \/ e.kind = "answered")
        /\ new.status = IF IsEnd(e) THEN "completed"
                        ELSE IF e.kind = "answered" THEN "in_progress" ELSE NewRow(e).status
    BY <1>8 DEF new, FoldRow, Row
  <2> QED
    BY ONLY <1>4, <1>8, <2>2, <2>3, <2>4, e \in Event, FoldStaysFold
<1>15. \A d \in Calls : RowOK(d)'
  BY <1>4, <1>7, <1>13, <1>14, OtherRow DEF RowOK
<1> QED
  BY <1>15 DEF RowInv

LEMMA StepRow == DeliveryInv /\ RowInv /\ [Next]_vars => RowInv'
<1> SUFFICES ASSUME DeliveryInv, RowInv, [Next]_vars PROVE RowInv'
  OBVIOUS
<1>1. CASE \E p \in Proc : Fold(p)
  BY <1>1, FoldKeepsRow DEF DeliveryInv
<1>2. CASE \E p \in Proc : Insert(p)
  BY <1>2, InsertKeepsRow
<1>3. CASE ~ \E p \in Proc : Fold(p) \/ Insert(p)
  <2>1. UNCHANGED <<rows, seen, overtaken>>
    BY <1>3
    DEF Next, Worker, Start, Decline, DeclinedQuits, Answer, End, Progress, AskTicket,
        TicketAnswered, TicketGivenUp, CreateTicket, RefuseTicket, Analyse, Publish, XAdd,
        XAddRaises, Post, Consume, Read, TakeEntry, Ack, Handle, FoldAgain, FoldFirst, Rebuild,
        Effects, Remember, CheckText, SendText, LogText, CloseGhost, Raise, AckRaises, FoldRaises,
        RebuildRaises, TextRefused, PostLost, AnalyseRaises, WorkerDies, Restart, api, calls,
        ghost, vars
  <2> QED
    BY <2>1, RowStill
<1> QED
  BY <1>1, <1>2, <1>3

(* However the events of a call arrive, and for any number of calls and of      *)
(* processes, a single row is the fold of those folded (PostgresStore.apply_event, *)
(* fold_event).                                                                 *)
THEOREM RecordAlwaysFold == Spec => []RecordIsFold
<1>1. Init => RowInv
  BY InitRow
<1>2. DeliveryInv /\ RowInv /\ [Next]_vars => RowInv'
  BY StepRow
<1>3. RowInv => RecordIsFold
  BY DEF RowInv, RowOK, IsFold, RecordIsFold
<1> QED
  BY <1>1, <1>2, <1>3, DeliveryAlways, PTL DEF Spec

-------------------------------------------------------------------------------
(* Texts.  An event is acted on by one process only, so each text sent for a    *)
(* call was sent for another of its ends, and not for one still being acted on. *)

ActAlone == \A p, q \in Proc :
  pc[p] \in Acting /\ pc[q] \in Acting /\ ev[p] = ev[q] => p = q

CheckEnded == \A p \in Proc : pc[p] \in {"check", "text", "log"} => IsEnd(ev[p])

Texting == {"folded", "check", "text"}
Ends(c) == {e \in seen : e.call = c /\ IsEnd(e)}
Through(c) == {e \in Ends(c) : \A p \in Proc : pc[p] \in Texting => ev[p] # e}
TextsMatch == \A m \in Calls \X Triggers : texted[m] <= Cardinality(Through(m[1]))
TextInv == DeliveryInv /\ ActAlone /\ CheckEnded /\ TextsMatch

LEMMA InitTexts == Init => TextInv
<1> SUFFICES ASSUME Init PROVE TextInv
  OBVIOUS
<1>1. ActAlone /\ CheckEnded
  BY DEF Init, ActAlone, CheckEnded, Acting
<1>2. \A c \in Calls : Through(c) = {}
  BY DEF Init, Through, Ends
<1>3. TextsMatch
  <2>1. ASSUME NEW m \in Calls \X Triggers PROVE texted[m] = 0 /\ m[1] \in Calls
    BY DEF Init
  <2> QED
    BY <1>2, <2>1, FS_EmptySet DEF TextsMatch
<1> QED
  BY <1>1, <1>3, InitDelivery DEF TextInv

\* A call has one end of the worker's and at most MaxCloses others.
LEMMA EndsFinite ==
  ASSUME NEW S, S \subseteq Event, NEW c
  PROVE  IsFiniteSet({e \in S : e.call = c /\ IsEnd(e)})
<1> DEFINE E == {e \in S : e.call = c /\ IsEnd(e)}
           f == [e \in E |-> e.n]
<1>1. MaxCloses \in Nat
  BY CallEventsAssumption
<1>2. \A e \in E : \/ e = [call |-> c, kind |-> "ended", n |-> 0]
                   \/ /\ e.n \in 1..MaxCloses
                      /\ e = [call |-> c, kind |-> "closed", n |-> e.n]
  BY DEF Event, IsEnd, WorkerKinds
<1>3. \A e \in E : e.n \in 0..MaxCloses
  BY <1>1, <1>2
<1>4. \A d, e \in E : d.n = e.n => d = e
  BY <1>1, <1>2
<1> HIDE DEF E
<1>5. f \in Injection(E, 0..MaxCloses)
  BY <1>3, <1>4 DEF Injection, IsInjective
<1>6. IsFiniteSet(0..MaxCloses)
  BY <1>1, FS_Interval
<1>7. IsFiniteSet(E)
  BY <1>5, <1>6, FS_Injection
<1> QED
  BY <1>7 DEF E

LEMMA ThroughFinite ==
  ASSUME Typed, NEW c
  PROVE  /\ IsFiniteSet(Ends(c)) /\ IsFiniteSet(Through(c))
         /\ Cardinality(Through(c)) \in Nat /\ Cardinality(Ends(c)) \in Nat
         /\ Cardinality(Through(c)) <= Cardinality(Ends(c))
<1>1. IsFiniteSet(Ends(c))
  <2>1. seen \subseteq Event
    BY DEF Typed, TypeOK
  <2> QED
    BY <2>1, EndsFinite DEF Ends
<1>2. Through(c) \in SUBSET Ends(c)
  BY DEF Through
<1>3. IsFiniteSet(Through(c)) /\ Cardinality(Through(c)) <= Cardinality(Ends(c))
  BY <1>1, <1>2, FS_Subset
<1> QED
  BY <1>1, <1>3, FS_CardinalityType

\* Ends that have been seen through stay so: what they count for can only grow.
LEMMA ThroughGrows ==
  ASSUME Typed, seen' \subseteq Event, NEW c, Through(c) \subseteq Through(c)'
  PROVE  /\ IsFiniteSet(Through(c)') /\ Cardinality(Through(c)') \in Nat
         /\ Cardinality(Through(c)) <= Cardinality(Through(c)')
<1>1. IsFiniteSet({e \in seen' : e.call = c /\ IsEnd(e)})
  BY EndsFinite
<1>2. Through(c)' \subseteq {e \in seen' : e.call = c /\ IsEnd(e)}
  BY DEF Through, Ends
<1>3. IsFiniteSet(Through(c)')
  BY <1>1, <1>2, FS_Subset
<1>4. Through(c) \in SUBSET (Through(c)')
  OBVIOUS
<1>5. Cardinality(Through(c)) <= Cardinality(Through(c)')
  BY <1>3, <1>4, FS_Subset
<1> QED
  BY <1>3, <1>5, FS_CardinalityType

(* A step of one process, of none, that sends no text: whoever acts after it    *)
(* did before, with the same event, or has just folded a new one.               *)
LEMMA TextsKeep ==
  ASSUME TextInv, DeliveryInv', NEW p \in Proc,
         \A q \in Proc \ {p} : pc'[q] = pc[q] /\ ev'[q] = ev[q],
         pc'[p] \in Acting => (pc[p] \in Acting /\ ev'[p] = ev[p]) \/ ev'[p] \notin seen,
         pc'[p] \in Texting => (pc[p] \in Texting /\ ev'[p] = ev[p]) \/ ev'[p] \notin seen,
         pc'[p] \in {"check", "text", "log"} => IsEnd(ev'[p]),
         seen \subseteq seen', UNCHANGED texted
  PROVE  TextInv'
<1> USE DEF TextInv
<1>1. ActAlone'
  <2>1. \A q \in Proc : pc[q] \in Acting => ev[q] \in seen
    BY DEF DeliveryInv, Deliveries, ActSeen
  <2> QED
    BY <2>1 DEF ActAlone
<1>2. ASSUME NEW c PROVE Through(c) \subseteq Through(c)'
  BY DEF Through, Ends
<1>3. CheckEnded'
  BY DEF CheckEnded
<1>4. TextsMatch'
  <2> SUFFICES ASSUME NEW m \in Calls \X Triggers
               PROVE  texted'[m] <= Cardinality(Through(m[1])')
    BY DEF TextsMatch
  <2> DEFINE c == m[1]
  <2>1. texted'[m] = texted[m] /\ texted[m] \in Nat /\ texted[m] <= Cardinality(Through(c))
    BY DEF TextsMatch, DeliveryInv, Typed, TypeOK
  <2>2. Cardinality(Through(c)) \in Nat
    BY ThroughFinite DEF DeliveryInv
  <2>3. /\ Cardinality(Through(c)') \in Nat
        /\ Cardinality(Through(c)) <= Cardinality(Through(c)')
    BY <1>2, ThroughGrows DEF DeliveryInv, Typed, TypeOK
  <2> QED
    BY <2>1, <2>2, <2>3
<1> QED
  BY <1>1, <1>3, <1>4

LEMMA TextsStill ==
  ASSUME TextInv, DeliveryInv', UNCHANGED <<pc, ev, seen, texted>>
  PROVE  TextInv'
<1>1. Consumer \in Proc
  BY DEF Proc
<1> QED
  BY <1>1, TextsKeep DEF Acting, Texting, TextInv, CheckEnded

(* The text goes out: the event it is for has been seen through, and was not    *)
(* before, since no other process acts on it.                                   *)
LEMMA SendKeeps ==
  ASSUME TextInv, DeliveryInv', NEW p \in Proc, SendText(p)
  PROVE  TextInv'
<1> USE DEF TextInv
<1>1. /\ pc[p] = "text" /\ ev[p] \in Event /\ ev[p].call \in Calls /\ text[p] \in Triggers
      /\ ev[p] \in seen /\ IsEnd(ev[p])
  BY HandlingEvent
  DEF SendText, Handling, DeliveryInv, Typed, ProcOK, Deliveries, ActSeen, Acting, CheckEnded
<1>2. PICK e \in Event : e = ev[p]
  BY <1>1
<1>3. PICK c \in Calls : c = e.call
  BY <1>1, <1>2
<1>4. /\ pc' = [pc EXCEPT ![p] = "log"] /\ UNCHANGED <<ev, seen>>
      /\ texted' = [texted EXCEPT ![<<c, text[p]>>] = @ + 1]
  BY <1>2, <1>3 DEF SendText, Goto, calls
<1>5. pc'[p] = "log" /\ \A q \in Proc \ {p} : pc'[q] = pc[q]
  BY <1>4 DEF DeliveryInv, Typed, TypeOK
<1>6. ActAlone' /\ CheckEnded'
  BY <1>1, <1>4, <1>5 DEF ActAlone, CheckEnded, Acting
<1>7. ASSUME NEW d PROVE Through(d) \subseteq Through(d)'
  BY <1>4, <1>5 DEF Through, Ends, Texting
<1>8. e \in Through(c)' /\ e \notin Through(c)
  <2>1. \A q \in Proc \ {p} : pc[q] \in Texting => ev[q] # e
    BY <1>1, <1>2 DEF ActAlone, Acting, Texting
  <2> QED
    BY <1>1, <1>2, <1>3, <1>4, <1>5, <2>1 DEF Through, Ends, Texting
<1>9. TextsMatch'
  <2> SUFFICES ASSUME NEW m \in Calls \X Triggers
               PROVE  texted'[m] <= Cardinality(Through(m[1])')
    BY DEF TextsMatch
  <2>1. /\ texted[m] \in Nat /\ texted[m] <= Cardinality(Through(m[1]))
        /\ texted \in [Calls \X Triggers -> Nat]
    BY DEF TextsMatch, DeliveryInv, Typed, TypeOK
  <2>2. IsFiniteSet(Through(m[1])) /\ Cardinality(Through(m[1])) \in Nat
    BY ThroughFinite DEF DeliveryInv
  <2>3. /\ IsFiniteSet(Through(m[1])') /\ Cardinality(Through(m[1])') \in Nat
        /\ Cardinality(Through(m[1])) <= Cardinality(Through(m[1])')
    BY <1>7, ThroughGrows DEF DeliveryInv, Typed, TypeOK
  <2>4. CASE m = <<c, text[p]>>
    <3>1. texted'[m] = texted[m] + 1
      BY <1>4, <2>1, <2>4
    <3>2. m[1] = c
      BY <2>4
    <3>3. /\ IsFiniteSet(Through(c) \cup {e})
          /\ Cardinality(Through(c) \cup {e}) = Cardinality(Through(c)) + 1
      BY <1>8, <2>2, <3>2, FS_AddElement
    <3>4. Through(c) \cup {e} \in SUBSET (Through(c)')
      BY <1>7, <1>8
    <3>5. Cardinality(Through(c) \cup {e}) <= Cardinality(Through(c)')
      BY <2>3, <3>2, <3>4, FS_Subset
    <3> QED
      BY <2>1, <2>2, <2>3, <3>1, <3>2, <3>3, <3>5
  <2>5. CASE m # <<c, text[p]>>
    <3>1. texted'[m] = texted[m]
      BY <1>4, <2>1, <2>5
    <3> QED
      BY <2>1, <2>2, <2>3, <3>1
  <2> QED
    BY <2>4, <2>5
<1> QED
  BY <1>6, <1>9

LEMMA HandleTexts ==
  ASSUME TextInv, DeliveryInv', NEW p \in Proc,
         Handle(p) \/ FoldRaises(p) \/ RebuildRaises(p) \/ TextRefused(p)
  PROVE  TextInv'
<1> USE DEF TextInv
<1>1. CASE SendText(p)
  BY <1>1, SendKeeps
<1>2. CASE Fold(p) \/ Insert(p)
  <2>1. ev[p] \notin seen
    BY <1>2 DEF Fold, Mine, Insert, DeliveryInv, Deliveries, InsertNew
  <2>2. /\ pc' = [pc EXCEPT ![p] = "folded"] /\ UNCHANGED <<ev, texted>>
        /\ seen' = seen \cup {ev[p]}
    BY <1>2 DEF Fold, Insert, Recorded, Goto, sms
  <2>3. pc'[p] = "folded" /\ \A q \in Proc \ {p} : pc'[q] = pc[q]
    BY <2>2 DEF DeliveryInv, Typed, TypeOK
  <2> QED
    BY <2>1, <2>2, <2>3, TextsKeep
<1>3. CASE \/ FoldAgain(p) \/ FoldFirst(p) \/ Rebuild(p) \/ Effects(p) \/ CheckText(p)
           \/ LogText(p) \/ FoldRaises(p) \/ RebuildRaises(p) \/ TextRefused(p)
  <2>1. UNCHANGED <<seen, texted>>
    BY <1>3
    DEF FoldAgain, FoldFirst, Rebuild, Effects, CheckText, LogText, FoldRaises, RebuildRaises,
        TextRefused, calls, sms
  <2>2. \/ Done(p)
        \/ Goto(p, "insert")
        \/ pc[p] \in Acting /\ Goto(p, "hub")
        \/ pc[p] = "folded" /\ Goto(p, "check") /\ IsEnd(ev[p])
        \/ pc[p] = "check" /\ Goto(p, "text") /\ IsEnd(ev[p])
    <3>1. pc[p] = "hub" => ~ IsEnd(ev[p])
      BY DEF DeliveryInv, Deliveries, HubIntake, IsEnd
    <3>2. pc[p] = "check" => IsEnd(ev[p])
      BY DEF CheckEnded
    <3> QED
      BY <1>3, <3>1, <3>2
      DEF FoldAgain, FoldFirst, Rebuild, Effects, CheckText, LogText, FoldRaises, RebuildRaises,
          TextRefused, Acting
  <2>3. \A q \in Proc \ {p} : pc'[q] = pc[q] /\ ev'[q] = ev[q]
    BY <2>2 DEF Done, Goto, DeliveryInv, Typed, TypeOK
  <2>4. \/ pc'[p] \in {"idle", "ack", "insert"}
        \/ pc[p] \in Acting /\ pc'[p] = "hub" /\ ev'[p] = ev[p]
        \/ pc[p] \in {"folded", "check"} /\ pc'[p] \in {"check", "text"} /\ ev'[p] = ev[p]
           /\ IsEnd(ev[p])
    BY <2>2 DEF Done, Goto, DeliveryInv, Typed, TypeOK
  <2> QED
    BY <2>1, <2>3, <2>4, TextsKeep DEF Acting, Texting
<1> QED
  BY <1>1, <1>2, <1>3 DEF Handle

LEMMA StepTexts == TextInv /\ [Next]_vars => TextInv'
<1> SUFFICES ASSUME TextInv, [Next]_vars PROVE TextInv'
  OBVIOUS
<1>0. DeliveryInv'
  BY StepDelivery DEF TextInv
<1> USE DEF TextInv
<1>1. CASE \E p \in Proc : Handle(p) \/ FoldRaises(p) \/ RebuildRaises(p) \/ TextRefused(p)
  BY <1>0, <1>1, HandleTexts
<1>2. CASE TakeEntry \/ Ack \/ AckRaises
  <2>1. Consumer \in Proc /\ UNCHANGED <<seen, texted>>
    BY <1>2 DEF Proc, TakeEntry, Ack, AckRaises, calls, sms
  <2>2. /\ pc'[Consumer] \in {"fold", "idle", "stopped"}
        /\ \A q \in Proc \ {Consumer} : pc'[q] = pc[q] /\ ev'[q] = ev[q]
    BY <1>2, <2>1 DEF TakeEntry, Ack, AckRaises, DeliveryInv, Typed, TypeOK
  <2> QED
    BY <1>0, <2>1, <2>2, TextsKeep DEF Acting, Texting
<1>3. CASE (\E f \in flight : Post(f)) \/ \E h \in Handlers, c \in Calls : CloseGhost(h, c)
  <2>1. PICK h \in Handlers : \E e : /\ pc' = [pc EXCEPT ![h] = "fold"]
                                    /\ ev' = [ev EXCEPT ![h] = e]
    BY <1>3 DEF Post, CloseGhost
  <2>2. /\ h \in Proc /\ pc'[h] = "fold"
        /\ \A q \in Proc \ {h} : pc'[q] = pc[q] /\ ev'[q] = ev[q]
    BY <2>1 DEF Proc, DeliveryInv, Typed, TypeOK
  <2>3. UNCHANGED <<seen, texted>>
    BY <1>3 DEF Post, CloseGhost, calls, sms
  <2> QED
    BY <1>0, <2>2, <2>3, TextsKeep DEF Acting, Texting
<1>4. CASE Restart
  <2>1. UNCHANGED <<seen, texted>> /\ \A q \in Proc : pc'[q] = "idle"
    BY <1>4 DEF Restart, calls, sms
  <2>2. ActAlone' /\ CheckEnded'
    BY <2>1 DEF ActAlone, CheckEnded, Acting
  <2>3. ASSUME NEW c PROVE Through(c) \subseteq Through(c)'
    BY <2>1 DEF Through, Ends, Texting
  <2>4. TextsMatch'
    <3> SUFFICES ASSUME NEW m \in Calls \X Triggers
                 PROVE  texted'[m] <= Cardinality(Through(m[1])')
      BY DEF TextsMatch
    <3>1. texted'[m] = texted[m] /\ texted[m] \in Nat /\ texted[m] <= Cardinality(Through(m[1]))
      BY <2>1 DEF TextsMatch, DeliveryInv, Typed, TypeOK
    <3>2. Cardinality(Through(m[1])) \in Nat
      BY ThroughFinite DEF DeliveryInv
    <3>3. /\ Cardinality(Through(m[1])') \in Nat
          /\ Cardinality(Through(m[1])) <= Cardinality(Through(m[1])')
      BY <1>0, <2>3, ThroughGrows DEF DeliveryInv, Typed, TypeOK
    <3> QED
      BY <3>1, <3>2, <3>3
  <2> QED
    BY <1>0, <2>2, <2>4
<1>5. CASE \/ Read \/ UNCHANGED vars
           \/ \E f \in flight : XAdd(f) \/ XAddRaises(f) \/ PostLost(f)
           \/ \E c \in Calls : \/ Worker(c) \/ WorkerDies(c) \/ CreateTicket(c) \/ RefuseTicket(c)
                              \/ Analyse(c) \/ AnalyseRaises(c)
  <2>1. UNCHANGED <<pc, ev, seen, texted>>
    BY <1>5
    DEF Read, XAdd, XAddRaises, PostLost, Worker, Start, Decline, DeclinedQuits, Answer, End,
        Progress, AskTicket, TicketAnswered, TicketGivenUp, WorkerDies, CreateTicket, RefuseTicket,
        Analyse, AnalyseRaises, api, calls, sms, vars
  <2> QED
    BY <1>0, <2>1, TextsStill
<1> QED
  BY <1>1, <1>2, <1>3, <1>4, <1>5 DEF Next, Publish, Consume, Raise

(* For any number of calls, processes and redeliveries there are at most as     *)
(* many texts of one kind after a call as it had different ends                 *)
(* (MessageService.on_call_ended, after apply_event's ON CONFLICT).             *)
THEOREM TextsAlwaysBounded == Spec => []TextsBounded
<1>1. TextInv => TextsBounded
  <2> SUFFICES ASSUME TextInv, NEW m \in Calls \X Triggers
               PROVE  texted[m] <= Cardinality(Ends(m[1]))
    BY DEF TextsBounded, Ends
  <2>1. texted[m] \in Nat /\ texted[m] <= Cardinality(Through(m[1]))
    BY DEF TextInv, TextsMatch, DeliveryInv, Typed, TypeOK
  <2>2. /\ Cardinality(Through(m[1])) \in Nat /\ Cardinality(Ends(m[1])) \in Nat
        /\ Cardinality(Through(m[1])) <= Cardinality(Ends(m[1]))
    BY ThroughFinite DEF TextInv, DeliveryInv
  <2> QED
    BY <2>1, <2>2
<1> QED
  BY <1>1, InitTexts, StepTexts, PTL DEF Spec

-------------------------------------------------------------------------------
(* Board and record.  Without faults nothing of a call that goes on is lost, so *)
(* whatever there is of it, its call.started is there or has been folded; and   *)
(* that is what puts it on the board.                                           *)

Talking(c) == phase[c] \in {"ringing", "up", "over"}

\* A process not handling an event has none, and the consumer handles the first of its batch.
Orderly ==
  /\ \A p \in Proc : pc[p] \notin Handling => ev[p] = NoEvent
  /\ pc[Consumer] \in Handling => ev[Consumer] = Head(batch)
  /\ faults = 0 /\ pc[Consumer] = "ack" => Head(batch) \in seen

Begun == faults = 0 => \A e \in Event : Around(e) /\ ~IsEnd(e) => Talking(e.call)
StartKept == faults = 0 => \A c \in Calls : Talking(c) => Around(Ev(c, "started"))
RecentEnded == \A c \in Calls : c \in Range(recent) => EndSeen(c)
LiveSeen == \A c \in live : \E e \in seen : e.call = c
StartShown == faults = 0 => \A c \in Calls :
  \/ Ev(c, "started") \notin seen \/ EndSeen(c) \/ c \in live
  \/ \E p \in Proc : pc[p] = "folded" /\ ev[p] = Ev(c, "started")

KeptInv ==
  /\ DeliveryInv /\ RowInv /\ BoardInv
  /\ Orderly /\ Begun /\ StartKept /\ RecentEnded /\ LiveSeen /\ StartShown

LEMMA InitKept == Init => KeptInv
<1> SUFFICES ASSUME Init PROVE KeptInv
  OBVIOUS
<1>1. Orderly
  BY DEF Init, Orderly, Handling, Proc
<1>2. \A e \in Event : ~ Around(e)
  BY CallEventsAssumption DEF Init, Around, Range
<1>3. Begun /\ StartKept /\ StartShown
  BY <1>2 DEF Init, Begun, StartKept, Talking, StartShown
<1>4. RecentEnded /\ LiveSeen
  BY DEF Init, RecentEnded, LiveSeen, Range
<1> QED
  BY <1>1, <1>3, <1>4, InitDelivery, InitRow, InitBoard DEF KeptInv

\* A fault is for good.
LEMMA FaultStays == ASSUME Typed, [Next]_vars PROVE faults' = 0 => faults = 0
<1>1. faults' = faults \/ faults' = faults + 1
  BY DEF Next, Worker, Start, Decline, DeclinedQuits, Answer, End, Progress, AskTicket,
         TicketAnswered, TicketGivenUp, CreateTicket, RefuseTicket, Analyse, Publish, XAdd,
         XAddRaises, Post, Consume, Read, TakeEntry, Ack, Handle, FoldAgain, Fold, FoldFirst,
         Insert, Rebuild, Effects, CheckText, SendText, LogText, CloseGhost, Raise, AckRaises,
         FoldRaises, RebuildRaises, TextRefused, PostLost, AnalyseRaises, WorkerDies, Restart,
         api, vars
<1>2. faults \in Nat
  BY CallEventsAssumption DEF Typed, TypeOK
<1> QED
  BY <1>1, <1>2

\* What the steps of a process's own do to its place and event.
LEMMA HandleMoves ==
  ASSUME DeliveryInv, NEW p \in Proc,
         Handle(p) \/ FoldRaises(p) \/ RebuildRaises(p) \/ TextRefused(p)
  PROVE  /\ pc[p] \in Handling
         /\ \A q \in Proc \ {p} : pc'[q] = pc[q] /\ ev'[q] = ev[q]
         /\ \/ pc'[p] \in Handling /\ ev'[p] = ev[p]
            \/ /\ pc'[p] = IF p = Consumer THEN "ack" ELSE "idle"
               /\ ev'[p] = NoEvent
               /\ ev[p] \in seen \/ faults' = faults + 1
         /\ seen' = seen \/ seen' = seen \cup {ev[p]}
         /\ UNCHANGED <<phase, flight, stream, batch>>
<1>1. /\ pc[p] \in Handling
      /\ Done(p) \/ \E next \in Handling : Goto(p, next)
      /\ seen' = seen \/ seen' = seen \cup {ev[p]}
  BY DEF Handle, FoldAgain, Fold, Mine, FoldFirst, Insert, FoldRaises, Rebuild, RebuildRaises,
         Effects, CheckText, SendText, LogText, TextRefused, Handling, Recorded, calls
<1>2. UNCHANGED <<phase, flight, stream, batch>>
  BY DEF Handle, FoldAgain, Fold, FoldFirst, Insert, FoldRaises, Rebuild, RebuildRaises,
         Effects, CheckText, SendText, LogText, TextRefused, rest, worker
<1>3. Done(p) => ev[p] \in seen \/ faults' = faults + 1
  <2>1. CASE FoldRaises(p) \/ TextRefused(p)
    BY <2>1 DEF FoldRaises, TextRefused
  <2>2. CASE FoldAgain(p)
    BY <2>2 DEF FoldAgain
  <2>3. CASE pc[p] \in Acting
    BY <2>3 DEF DeliveryInv, Deliveries, ActSeen
  <2>4. CASE Fold(p) \/ FoldFirst(p) \/ Insert(p)
    <3>1. Goto(p, "folded") \/ Goto(p, "insert")
      BY <2>4 DEF Fold, FoldFirst, Insert
    <3> QED
      BY <3>1 DEF Goto, Done, DeliveryInv, Typed, TypeOK
  <2> QED
    BY <2>1, <2>2, <2>3, <2>4
    DEF Handle, Rebuild, RebuildRaises, Effects, CheckText, SendText, LogText, Acting
<1> QED
  BY <1>1, <1>2, <1>3 DEF Done, Goto, DeliveryInv, Typed, TypeOK

\* A handler that takes an event had none.
LEMMA HandlerTakes ==
  ASSUME DeliveryInv,
         (\E f \in flight : Post(f)) \/ \E h \in Handlers, c \in Calls : CloseGhost(h, c)
  PROVE  \E h \in Proc :
           /\ h # Consumer /\ pc[h] = "idle" /\ pc'[h] = "fold"
           /\ \A q \in Proc \ {h} : pc'[q] = pc[q] /\ ev'[q] = ev[q]
           /\ UNCHANGED <<batch, seen, phase, faults>>
<1>1. PICK h \in Handlers : /\ pc[h] = "idle" /\ pc' = [pc EXCEPT ![h] = "fold"]
                            /\ \E e : ev' = [ev EXCEPT ![h] = e]
  BY DEF Post, CloseGhost
<1>2. h \in Proc /\ h # Consumer
  BY CallEventsAssumption DEF Proc
<1>3. UNCHANGED <<batch, seen, phase, faults>>
  BY DEF Post, CloseGhost, calls, worker
<1> QED
  BY <1>1, <1>2, <1>3 DEF DeliveryInv, Typed, TypeOK

\* Steps that no process of the API makes, and that leave what it holds alone.
Aside ==
  \/ Read \/ UNCHANGED vars
  \/ \E f \in flight : XAdd(f) \/ XAddRaises(f) \/ PostLost(f)
  \/ \E c \in Calls : \/ Worker(c) \/ WorkerDies(c) \/ CreateTicket(c) \/ RefuseTicket(c)
                      \/ Analyse(c) \/ AnalyseRaises(c)

LEMMA AsideKeeps == ASSUME Aside PROVE UNCHANGED <<pc, ev, seen, live, recent>>
  BY DEF Aside, Read, XAdd, XAddRaises, PostLost, Worker, Start, Decline, DeclinedQuits, Answer,
         End, Progress, AskTicket, TicketAnswered, TicketGivenUp, WorkerDies, CreateTicket,
         RefuseTicket, Analyse, AnalyseRaises, api, calls, memory, vars

LEMMA StepCases ==
  ASSUME [Next]_vars
  PROVE  \/ \E p \in Proc : Handle(p) \/ FoldRaises(p) \/ RebuildRaises(p) \/ TextRefused(p)
         \/ (\E f \in flight : Post(f)) \/ \E h \in Handlers, c \in Calls : CloseGhost(h, c)
         \/ TakeEntry \/ Ack \/ AckRaises
         \/ Aside \/ Restart
  BY DEF Next, Publish, Consume, Raise, Aside

LEMMA StepOrderly == ASSUME DeliveryInv, Orderly, [Next]_vars PROVE Orderly'
<1>0. Consumer \in Proc /\ (faults' = 0 => faults = 0)
  BY FaultStays DEF Proc, DeliveryInv
<1>1. CASE \E p \in Proc : Handle(p) \/ FoldRaises(p) \/ RebuildRaises(p) \/ TextRefused(p)
  <2> PICK p \in Proc : Handle(p) \/ FoldRaises(p) \/ RebuildRaises(p) \/ TextRefused(p)
    BY <1>1
  <2>1. faults \in Nat
    BY CallEventsAssumption DEF DeliveryInv, Typed, TypeOK
  <2>2. /\ pc[p] \in Handling
        /\ \A q \in Proc \ {p} : pc'[q] = pc[q] /\ ev'[q] = ev[q]
        /\ \/ pc'[p] \in Handling /\ ev'[p] = ev[p]
           \/ /\ pc'[p] = IF p = Consumer THEN "ack" ELSE "idle"
              /\ ev'[p] = NoEvent
              /\ ev[p] \in seen \/ faults' = faults + 1
        /\ seen \subseteq seen' /\ UNCHANGED batch
    BY HandleMoves
  <2>3. /\ \A q \in Proc : pc'[q] \notin Handling => ev'[q] = NoEvent
        /\ pc'[Consumer] \in Handling => ev'[Consumer] = Head(batch)
    BY <1>0, <2>2 DEF Orderly, Handling
  <2>4. faults' = 0 /\ pc'[Consumer] = "ack" => Head(batch) \in seen'
    BY <1>0, <2>1, <2>2 DEF Orderly, Handling
  <2> QED
    BY <2>2, <2>3, <2>4 DEF Orderly
<1>2. CASE (\E f \in flight : Post(f)) \/ \E h \in Handlers, c \in Calls : CloseGhost(h, c)
  <2>1. PICK h \in Proc :
          /\ h # Consumer /\ pc[h] = "idle" /\ pc'[h] = "fold"
          /\ \A q \in Proc \ {h} : pc'[q] = pc[q] /\ ev'[q] = ev[q]
          /\ UNCHANGED <<batch, seen, phase, faults>>
    BY <1>2, HandlerTakes
  <2>2. \A q \in Proc : pc'[q] \notin Handling => ev'[q] = NoEvent
    BY <2>1 DEF Orderly, Handling
  <2> QED
    BY <1>0, <2>1, <2>2 DEF Orderly
<1>3. CASE TakeEntry
  <2>1. /\ pc'[Consumer] = "fold" /\ ev'[Consumer] = Head(batch) /\ UNCHANGED batch
        /\ \A q \in Proc \ {Consumer} : pc'[q] = pc[q] /\ ev'[q] = ev[q]
    BY <1>0, <1>3 DEF TakeEntry, DeliveryInv, Typed, TypeOK
  <2> QED
    BY <2>1 DEF Orderly, Handling
<1>4. CASE Ack \/ AckRaises
  <2>1. /\ pc[Consumer] = "ack" /\ pc'[Consumer] \in {"idle", "stopped"} /\ UNCHANGED ev
        /\ \A q \in Proc \ {Consumer} : pc'[q] = pc[q]
    BY <1>0, <1>4 DEF Ack, AckRaises, DeliveryInv, Typed, TypeOK
  <2> QED
    BY <1>0, <2>1 DEF Orderly, Handling
<1>5. CASE Aside
  <2>1. UNCHANGED <<pc, ev, seen>>
    BY <1>5, AsideKeeps
  <2>2. UNCHANGED batch \/ pc[Consumer] = "idle"
    BY <1>5
    DEF Aside, Read, XAdd, XAddRaises, PostLost, Worker, Start, Decline, DeclinedQuits, Answer,
        End, Progress, AskTicket, TicketAnswered, TicketGivenUp, WorkerDies, CreateTicket,
        RefuseTicket, Analyse, AnalyseRaises, api, vars
  <2> QED
    BY <1>0, <2>1, <2>2 DEF Orderly, Handling
<1>6. CASE Restart
  <2>1. \A q \in Proc : pc'[q] = "idle" /\ ev'[q] = NoEvent
    BY <1>6 DEF Restart
  <2> QED
    BY <1>0, <2>1 DEF Orderly, Handling
<1> QED
  BY <1>1, <1>2, <1>3, <1>4, <1>5, <1>6, StepCases

LEMMA HeadTailRange ==
  ASSUME NEW S, NEW s \in Seq(S), s # <<>>
  PROVE  Range(s) \subseteq Range(Tail(s)) \cup {Head(s)}
<1>1. /\ Tail(s) \in Seq(S) /\ Len(Tail(s)) = Len(s) - 1 /\ Len(s) \in Nat /\ Len(s) # 0
      /\ \A i \in 1..Len(Tail(s)) : Tail(s)[i] = s[i + 1]
      /\ Head(s) = s[1]
  OBVIOUS
<1>2. DOMAIN s = 1..Len(s) /\ DOMAIN Tail(s) = 1..(Len(s) - 1)
  BY <1>1
<1> SUFFICES ASSUME NEW i \in 1..Len(s) PROVE s[i] \in Range(Tail(s)) \cup {Head(s)}
  BY <1>2 DEF Range
<1>3. CASE i = 1
  BY <1>1, <1>3
<1>4. CASE i # 1
  <2>1. i - 1 \in 1..(Len(s) - 1) /\ (i - 1) + 1 = i
    BY <1>1, <1>4
  <2>2. Tail(s)[i - 1] = s[i]
    BY <1>1, <2>1
  <2> QED
    BY <1>2, <2>1, <2>2 DEF Range
<1> QED
  BY <1>3, <1>4

\* Only a fault loses what there is of a call that is under way.
LEMMA AroundStays ==
  ASSUME DeliveryInv, Orderly, [Next]_vars, faults' = 0,
         NEW e \in Event, Around(e), Talking(e.call)
  PROVE  Around(e)'
<1>0. Consumer \in Proc /\ faults = 0 /\ e # NoEvent
  BY FaultStays, CallEventsAssumption DEF Proc, DeliveryInv
<1>1. CASE \E p \in Proc : Handle(p) \/ FoldRaises(p) \/ RebuildRaises(p) \/ TextRefused(p)
  <2> PICK p \in Proc : Handle(p) \/ FoldRaises(p) \/ RebuildRaises(p) \/ TextRefused(p)
    BY <1>1
  <2>1. /\ \A q \in Proc \ {p} : ev'[q] = ev[q]
        /\ ev'[p] = ev[p] \/ ev[p] \in seen \/ faults' = faults + 1
        /\ seen \subseteq seen' /\ UNCHANGED <<flight, stream, batch>>
    BY HandleMoves
  <2> QED
    BY <1>0, <2>1 DEF Around
<1>2. CASE (\E f \in flight : Post(f)) \/ \E h \in Handlers, c \in Calls : CloseGhost(h, c)
  <2>1. PICK h \in Proc :
          /\ h # Consumer /\ pc[h] = "idle" /\ pc'[h] = "fold"
          /\ \A q \in Proc \ {h} : pc'[q] = pc[q] /\ ev'[q] = ev[q]
          /\ UNCHANGED <<batch, seen, phase, faults>>
    BY <1>2, HandlerTakes
  <2>2. ev[h] = NoEvent
    BY <2>1 DEF Orderly, Handling
  <2>3. UNCHANGED stream
    BY <1>2 DEF Post, CloseGhost
  <2>4. \A f \in flight : f \in flight' \/ \E q \in Proc : ev'[q] = f.ev
    <3>1. CASE \E f \in flight : Post(f)
      <4> PICK f \in flight : Post(f)
        BY <3>1
      <4>1. PICK q \in Handlers : ev' = [ev EXCEPT ![q] = f.ev]
        BY DEF Post
      <4>2. q \in Proc /\ ev'[q] = f.ev
        BY <4>1 DEF Proc, DeliveryInv, Typed, TypeOK
      <4> QED
        BY <4>2 DEF Post
    <3>2. CASE \E q \in Handlers, c \in Calls : CloseGhost(q, c)
      BY <3>2 DEF CloseGhost
    <3> QED
      BY <1>2, <3>1, <3>2
  <2> QED
    BY <1>0, <2>1, <2>2, <2>3, <2>4 DEF Around
<1>3. CASE TakeEntry
  <2>1. ev[Consumer] = NoEvent
    BY <1>0, <1>3 DEF TakeEntry, Orderly, Handling
  <2>2. /\ \A q \in Proc \ {Consumer} : ev'[q] = ev[q]
        /\ UNCHANGED <<flight, stream, batch, seen>>
    BY <1>3 DEF TakeEntry, DeliveryInv, Typed, TypeOK, calls
  <2> QED
    BY <1>0, <2>1, <2>2 DEF Around
<1>4. CASE Ack
  <2>1. batch \in Seq(Event) /\ batch # <<>>
    BY <1>4 DEF Ack, DeliveryInv, Typed, TypeOK, ProcOK
  <2>2. Range(batch) \subseteq Range(Tail(batch)) \cup {Head(batch)}
    BY <2>1, HeadTailRange
  <2>3. Head(batch) \in seen
    BY <1>0, <1>4 DEF Ack, Orderly
  <2> QED
    BY <1>4, <2>2, <2>3 DEF Ack, Around, calls
<1>5. CASE Read
  <2>1. Range(<<>>) = {}
    BY DEF Range
  <2> QED
    BY <1>5, <2>1 DEF Read, Around, calls
<1>6. CASE \E f \in flight : XAdd(f) \/ XAddRaises(f)
  <2> PICK f \in flight : XAdd(f) \/ XAddRaises(f)
    BY <1>6
  <2>1. f.ev \in Event /\ stream \in Seq(Event) /\ [f EXCEPT !.way = "http"].ev = f.ev
    BY DEF DeliveryInv, Typed, TypeOK, Flight
  <2>2. Range(Append(stream, f.ev)) = Range(stream) \cup {f.ev}
    BY <2>1, AppendRange
  <2>3. CASE XAdd(f)
    BY <2>2, <2>3 DEF XAdd, Around, calls
  <2>4. CASE XAddRaises(f)
    BY <2>1, <2>2, <2>4 DEF XAddRaises, Around, calls
  <2> QED
    BY <2>3, <2>4
<1>7. CASE \E c \in Calls : DeclinedQuits(c)
  BY <1>7 DEF DeclinedQuits, Talking, Around, api, calls
<1>8. CASE \E c \in Calls : \/ Start(c) \/ Decline(c) \/ Answer(c) \/ End(c) \/ AskTicket(c)
                            \/ TicketAnswered(c) \/ TicketGivenUp(c) \/ CreateTicket(c)
                            \/ RefuseTicket(c) \/ Analyse(c)
  <2>1. flight \subseteq flight' /\ UNCHANGED <<stream, batch, ev, seen>>
    BY <1>8
    DEF Start, Decline, Answer, End, Progress, AskTicket, TicketAnswered, TicketGivenUp, Emit,
        CreateTicket, RefuseTicket, Analyse, api, calls
  <2> QED
    BY <2>1 DEF Around
<1>9. CASE UNCHANGED vars
  BY <1>9 DEF vars, Around, calls
<1>10. CASE \/ AckRaises \/ Restart \/ \E f \in flight : PostLost(f)
            \/ \E c \in Calls : WorkerDies(c) \/ AnalyseRaises(c)
  BY <1>0, <1>10 DEF AckRaises, Restart, PostLost, WorkerDies, AnalyseRaises
<1> QED
  BY <1>1, <1>2, <1>3, <1>4, <1>5, <1>6, <1>7, <1>8, <1>9, <1>10, StepCases DEF Aside, Worker

\* A call that is under way stays so, without faults.
LEMMA TalkStays ==
  ASSUME DeliveryInv, [Next]_vars, faults' = 0, NEW c \in Calls, Talking(c)
  PROVE  Talking(c)'
<1>0. faults = 0
  BY FaultStays DEF DeliveryInv
<1>1. CASE \E d \in Calls : \/ Start(d) \/ Decline(d) \/ DeclinedQuits(d) \/ Answer(d) \/ End(d)
                            \/ WorkerDies(d)
  <2> PICK d \in Calls : \/ Start(d) \/ Decline(d) \/ DeclinedQuits(d) \/ Answer(d) \/ End(d)
                        \/ WorkerDies(d)
    BY <1>1
  <2>1. phase \in [Calls -> Phases]
    BY DEF DeliveryInv, Typed, TypeOK
  <2>2. CASE d # c
    BY <2>1, <2>2
    DEF Start, Decline, DeclinedQuits, Answer, End, Progress, WorkerDies, Talking
  <2>3. CASE d = c
    BY <1>0, <2>1, <2>3
    DEF Start, Decline, DeclinedQuits, Answer, End, Progress, WorkerDies, Talking
  <2> QED
    BY <2>2, <2>3
<1>2. CASE ~ \E d \in Calls : \/ Start(d) \/ Decline(d) \/ DeclinedQuits(d) \/ Answer(d) \/ End(d)
                              \/ WorkerDies(d)
  <2>1. UNCHANGED phase
    BY <1>2
    DEF Next, Worker, AskTicket, TicketAnswered, TicketGivenUp, CreateTicket, RefuseTicket,
        Analyse, Publish, XAdd, XAddRaises, Post, Consume, Read, TakeEntry, Ack, Handle, FoldAgain,
        Fold, FoldFirst, Insert, Rebuild, Effects, CheckText, SendText, LogText, CloseGhost, Raise,
        AckRaises, FoldRaises, RebuildRaises, TextRefused, PostLost, AnalyseRaises, Restart, api,
        rest, worker, vars
  <2> QED
    BY <2>1 DEF Talking
<1> QED
  BY <1>1, <1>2

\* An event that is new and no end is of a call that is under way.
LEMMA NewAround ==
  ASSUME DeliveryInv, [Next]_vars, NEW e \in Event, Around(e)', ~ IsEnd(e)
  PROVE  Around(e) \/ Talking(e.call)'
<1>0. e # NoEvent /\ Typed /\ Consumer \in Proc
  BY CallEventsAssumption DEF DeliveryInv, Proc
<1>1. CASE \E p \in Proc : Handle(p) \/ FoldRaises(p) \/ RebuildRaises(p) \/ TextRefused(p)
  BY <1>0, <1>1, HandleAround
<1>2. CASE \E f \in flight : Publish(f) \/ PostLost(f)
  BY <1>0, <1>2, PublishAround
<1>3. CASE Consume \/ AckRaises
  BY <1>0, <1>3, ConsumeAround
<1>4. CASE \E h \in Handlers, c \in Calls : CloseGhost(h, c)
  <2> PICK h \in Handlers, c \in Calls : CloseGhost(h, c)
    BY <1>4
  <2>1. \A q \in Proc : ev'[q] = ev[q] \/ IsEnd(ev'[q])
    BY <1>0 DEF CloseGhost, IsEnd, Typed, TypeOK
  <2> QED
    BY <2>1 DEF Around, CloseGhost, calls
<1>5. CASE \E c \in Calls : \/ Start(c) \/ Answer(c) \/ End(c) \/ TicketAnswered(c)
                            \/ TicketGivenUp(c)
  <2> PICK c \in Calls : \/ Start(c) \/ Answer(c) \/ End(c) \/ TicketAnswered(c)
                        \/ TicketGivenUp(c)
    BY <1>5
  <2>1. \E kind : flight' = flight \cup {[ev |-> Ev(c, kind), way |-> "stream"]}
    BY DEF Start, Answer, End, Progress, TicketAnswered, TicketGivenUp, Emit
  <2>2. UNCHANGED <<stream, batch, ev, seen>>
    BY DEF Start, Answer, End, Progress, TicketAnswered, TicketGivenUp, api, calls
  <2>3. Talking(c)'
    BY <1>0
    DEF Start, Answer, End, Progress, TicketAnswered, TicketGivenUp, Talking, Typed, TypeOK
  <2> QED
    BY <2>1, <2>2, <2>3 DEF Around, Ev
<1>6. CASE \E c \in Calls : Decline(c)
  BY <1>6 DEF Decline, Progress, Emit, Around, Ev, IsEnd, api, calls
<1>7. CASE \E c \in Calls : \/ DeclinedQuits(c) \/ AskTicket(c) \/ WorkerDies(c) \/ CreateTicket(c)
                            \/ RefuseTicket(c) \/ Analyse(c) \/ AnalyseRaises(c)
  <2>1. flight' \subseteq flight /\ UNCHANGED <<stream, batch, ev, seen>>
    BY <1>7
    DEF DeclinedQuits, AskTicket, WorkerDies, CreateTicket, RefuseTicket, Analyse, AnalyseRaises,
        api, calls
  <2> QED
    BY <2>1 DEF Around
<1>8. CASE Restart
  <2>1. Range(<<>>) = {}
    BY DEF Range
  <2> QED
    BY <1>0, <1>8, <2>1 DEF Restart, Around, calls
<1>9. CASE UNCHANGED vars
  BY <1>9 DEF vars, Around, calls
<1> QED
  BY <1>1, <1>2, <1>3, <1>4, <1>5, <1>6, <1>7, <1>8, <1>9 DEF Next, Worker, Raise

LEMMA StepBegun == ASSUME DeliveryInv, Begun, [Next]_vars PROVE Begun'
<1> SUFFICES ASSUME faults' = 0, NEW e \in Event, Around(e)', ~ IsEnd(e) PROVE Talking(e.call)'
  BY DEF Begun
<1>1. faults = 0 /\ e.call \in Calls
  BY FaultStays DEF DeliveryInv, Event
<1>2. CASE Around(e)
  <2>1. Talking(e.call)
    BY <1>1, <1>2 DEF Begun
  <2> QED
    BY <1>1, <2>1, TalkStays
<1> QED
  BY <1>2, NewAround

LEMMA StepStart == ASSUME DeliveryInv, Orderly, StartKept, [Next]_vars PROVE StartKept'
<1> SUFFICES ASSUME faults' = 0, NEW c \in Calls, Talking(c)' PROVE Around(Ev(c, "started"))'
  BY DEF StartKept
<1>0. faults = 0 /\ Ev(c, "started") \in Event /\ Ev(c, "started").call = c
  BY FaultStays, EvType DEF DeliveryInv, WorkerKinds, Ev
<1>1. CASE Talking(c)
  <2>1. Around(Ev(c, "started"))
    BY <1>0, <1>1 DEF StartKept
  <2> QED
    BY <1>0, <1>1, <2>1, AroundStays
<1>2. CASE Start(c)
  <2>1. flight' = flight \cup {[ev |-> Ev(c, "started"), way |-> "stream"]}
    BY <1>2 DEF Start, Progress, Emit
  <2> DEFINE f == [ev |-> Ev(c, "started"), way |-> "stream"]
  <2>2. f.ev = Ev(c, "started") /\ f \in flight'
    BY <2>1
  <2> HIDE DEF f
  <2> QED
    BY <2>2 DEF Around, Ev
<1>3. CASE ~ Talking(c) /\ ~ Start(c)
  <2>1. phase'[c] = phase[c] \/ phase'[c] \in {"declined", "dead"}
    <3>1. phase \in [Calls -> Phases]
      BY DEF DeliveryInv, Typed, TypeOK
    <3>2. CASE \E d \in Calls : Start(d) \/ Decline(d) \/ DeclinedQuits(d) \/ Answer(d) \/ End(d)
                               \/ WorkerDies(d)
      BY <1>3, <3>1, <3>2
      DEF Start, Decline, DeclinedQuits, Answer, End, Progress, WorkerDies, Talking
    <3>3. CASE ~ \E d \in Calls : Start(d) \/ Decline(d) \/ DeclinedQuits(d) \/ Answer(d) \/ End(d)
                                 \/ WorkerDies(d)
      BY <3>3
      DEF Next, Worker, AskTicket, TicketAnswered, TicketGivenUp, CreateTicket, RefuseTicket,
          Analyse, Publish, XAdd, XAddRaises, Post, Consume, Read, TakeEntry, Ack, Handle,
          FoldAgain, Fold, FoldFirst, Insert, Rebuild, Effects, CheckText, SendText, LogText,
          CloseGhost, Raise, AckRaises, FoldRaises, RebuildRaises, TextRefused, PostLost,
          AnalyseRaises, Restart, api, rest, worker, vars
    <3> QED
      BY <3>2, <3>3
  <2> QED
    BY <1>3, <2>1 DEF Talking
<1> QED
  BY <1>1, <1>2, <1>3

(* What the board remembers, and what is on it, has been folded; and without    *)
(* faults a call that has begun and not ended is on it.                         *)
ShownInv == RecentEnded /\ LiveSeen /\ StartShown

LEMMA ShownStill ==
  ASSUME ShownInv, faults' = 0 => faults = 0, UNCHANGED <<live, recent, seen>>,
         \A q \in Proc : pc[q] = "folded" /\ ev[q].kind = "started"
                         => pc'[q] = "folded" /\ ev'[q] = ev[q]
  PROVE  ShownInv'
<1>1. RecentEnded' /\ LiveSeen'
  BY DEF ShownInv, RecentEnded, LiveSeen, EndSeen
<1>2. StartShown'
  <2> SUFFICES ASSUME faults' = 0, NEW c \in Calls, Ev(c, "started") \in seen',
                      ~ EndSeen(c)', c \notin live'
               PROVE  \E p \in Proc : pc'[p] = "folded" /\ ev'[p] = Ev(c, "started")
    BY DEF StartShown, Ev
  <2>1. ~ EndSeen(c)
    BY DEF EndSeen
  <2>2. PICK p \in Proc : pc[p] = "folded" /\ ev[p] = Ev(c, "started")
    BY <2>1 DEF ShownInv, StartShown
  <2>3. ev[p].kind = "started"
    BY <2>2 DEF Ev
  <2> QED
    BY <2>2, <2>3
<1> QED
  BY <1>1, <1>2 DEF ShownInv

LEMMA CommitShown ==
  ASSUME DeliveryInv, ShownInv, NEW p \in Proc, Fold(p) \/ Insert(p)
  PROVE  ShownInv'
<1>1. /\ pc' = [pc EXCEPT ![p] = "folded"] /\ UNCHANGED <<ev, live, recent, faults>>
      /\ seen' = seen \cup {ev[p]}
  BY DEF Fold, Insert, Recorded, Goto, memory
<1>2. pc'[p] = "folded" /\ \A q \in Proc \ {p} : pc'[q] = pc[q]
  BY <1>1 DEF DeliveryInv, Typed, TypeOK
<1>3. RecentEnded' /\ LiveSeen'
  BY <1>1 DEF ShownInv, RecentEnded, LiveSeen, EndSeen
<1>4. StartShown'
  <2> SUFFICES ASSUME faults' = 0, NEW c \in Calls, Ev(c, "started") \in seen',
                      ~ EndSeen(c)', c \notin live'
               PROVE  \E q \in Proc : pc'[q] = "folded" /\ ev'[q] = Ev(c, "started")
    BY DEF StartShown, Ev
  <2>1. CASE ev[p] = Ev(c, "started")
    BY <1>1, <1>2, <2>1
  <2>2. CASE Ev(c, "started") \in seen
    <3>1. ~ EndSeen(c)
      BY <1>1 DEF EndSeen
    <3>2. PICK q \in Proc : pc[q] = "folded" /\ ev[q] = Ev(c, "started")
      BY <1>1, <2>2, <3>1 DEF ShownInv, StartShown
    <3> QED
      BY <1>1, <1>2, <3>2
  <2> QED
    BY <1>1, <2>1, <2>2
<1> QED
  BY <1>3, <1>4 DEF ShownInv

LEMMA EffectsShown ==
  ASSUME DeliveryInv, ShownInv, NEW p \in Proc, Effects(p)
  PROVE  ShownInv'
<1>1. /\ UNCHANGED <<seen, faults>>
      /\ \A q \in Proc \ {p} : pc'[q] = pc[q] /\ ev'[q] = ev[q]
      /\ pc[p] \in {"folded", "hub"} /\ ev[p] \in Event /\ ev[p].call \in Calls /\ ev[p] \in seen
  BY HandlingEvent
  DEF Effects, Goto, Done, Handling, DeliveryInv, Typed, TypeOK, calls, Deliveries, ActSeen, Acting
<1> DEFINE c == ev[p].call
<1>2. Range(recent') \subseteq Range(recent) \cup {d \in Calls : EndSeen(d)}
  <2>1. CASE ~ IsEnd(ev[p])
    BY <2>1 DEF Effects
  <2>2. CASE IsEnd(ev[p])
    <3> DEFINE longer == Append(recent, c)
    <3>1. recent' = longer \/ recent' = Tail(longer)
      BY <2>2 DEF Effects, Remember
    <3>2. recent \in Seq(Calls) /\ c \in Calls
      BY <1>1 DEF DeliveryInv, Typed, TypeOK
    <3>3. Range(longer) = Range(recent) \cup {c}
      BY <3>2, AppendRange
    <3>4. longer \in Seq(Calls) /\ Len(longer) = Len(recent) + 1 /\ Len(recent) \in Nat
      BY <3>2
    <3>5. longer # <<>>
      BY <3>4
    <3>6. Range(Tail(longer)) \subseteq Range(longer)
      BY <3>4, <3>5, TailRange
    <3>7. EndSeen(c)
      BY <1>1, <2>2 DEF EndSeen
    <3> HIDE DEF longer
    <3> QED
      BY <1>1, <3>1, <3>3, <3>6, <3>7
  <2> QED
    BY <2>1, <2>2
<1>3. RecentEnded'
  BY <1>1, <1>2 DEF ShownInv, RecentEnded, EndSeen
<1>4. IF IsEnd(ev[p]) THEN live' = live \ {c}
      ELSE live' = IF c \in Range(recent) THEN live ELSE live \cup {c}
  BY DEF Effects
<1>5. LiveSeen'
  BY <1>1, <1>4 DEF ShownInv, LiveSeen
<1>6. StartShown'
  <2> SUFFICES ASSUME faults' = 0, NEW d \in Calls, Ev(d, "started") \in seen',
                      ~ EndSeen(d)', d \notin live'
               PROVE  \E q \in Proc : pc'[q] = "folded" /\ ev'[q] = Ev(d, "started")
    BY DEF StartShown, Ev
  <2>1. ~ EndSeen(d)
    BY <1>1 DEF EndSeen
  <2>2. d \notin Range(recent)
    BY <2>1 DEF ShownInv, RecentEnded
  <2>3. c = d => ~ IsEnd(ev[p])
    BY <1>1, <2>1 DEF EndSeen
  <2>4. c # d /\ d \notin live
    BY <1>4, <2>2, <2>3
  <2>5. PICK q \in Proc : pc[q] = "folded" /\ ev[q] = Ev(d, "started")
    BY <1>1, <2>1, <2>4 DEF ShownInv, StartShown
  <2>6. q # p
    BY <2>4, <2>5 DEF Ev
  <2> QED
    BY <1>1, <2>5, <2>6
<1> QED
  BY <1>3, <1>5, <1>6 DEF ShownInv

LEMMA StepShown == ASSUME DeliveryInv, ShownInv, [Next]_vars PROVE ShownInv'
<1>0. Consumer \in Proc /\ (faults' = 0 => faults = 0)
  BY FaultStays DEF Proc, DeliveryInv
<1>1. CASE \E p \in Proc : Fold(p) \/ Insert(p)
  BY <1>1, CommitShown
<1>2. CASE \E p \in Proc : Effects(p)
  BY <1>2, EffectsShown
<1>3. CASE \E p \in Proc : \/ FoldAgain(p) \/ FoldFirst(p) \/ Rebuild(p) \/ CheckText(p)
                           \/ SendText(p) \/ LogText(p) \/ FoldRaises(p) \/ RebuildRaises(p)
                           \/ TextRefused(p)
  <2> PICK p \in Proc : \/ FoldAgain(p) \/ FoldFirst(p) \/ Rebuild(p) \/ CheckText(p)
                       \/ SendText(p) \/ LogText(p) \/ FoldRaises(p) \/ RebuildRaises(p)
                       \/ TextRefused(p)
    BY <1>3
  <2>1. UNCHANGED <<live, recent, seen>>
    BY DEF FoldAgain, FoldFirst, Rebuild, CheckText, SendText, LogText, FoldRaises, RebuildRaises,
           TextRefused, memory, calls
  <2>2. pc[p] = "folded" => ev[p].kind = "intake"
    BY DEF FoldAgain, FoldFirst, Mine, Rebuild, CheckText, SendText, LogText, FoldRaises,
           RebuildRaises, TextRefused
  <2>3. \A q \in Proc \ {p} : pc'[q] = pc[q] /\ ev'[q] = ev[q]
    BY HandleMoves DEF Handle
  <2> QED
    BY <1>0, <2>1, <2>2, <2>3, ShownStill
<1>4. CASE (\E f \in flight : Post(f)) \/ \E h \in Handlers, c \in Calls : CloseGhost(h, c)
  <2>1. PICK h \in Proc :
          /\ h # Consumer /\ pc[h] = "idle" /\ pc'[h] = "fold"
          /\ \A q \in Proc \ {h} : pc'[q] = pc[q] /\ ev'[q] = ev[q]
          /\ UNCHANGED <<batch, seen, phase, faults>>
    BY <1>4, HandlerTakes
  <2>2. UNCHANGED <<live, recent, seen>>
    BY <1>4 DEF Post, CloseGhost, memory, calls
  <2> QED
    BY <1>0, <2>1, <2>2, ShownStill
<1>5. CASE TakeEntry \/ Ack \/ AckRaises
  <2>1. pc[Consumer] # "folded" /\ \A q \in Proc \ {Consumer} : pc'[q] = pc[q] /\ ev'[q] = ev[q]
    BY <1>5 DEF TakeEntry, Ack, AckRaises, DeliveryInv, Typed, TypeOK
  <2>2. UNCHANGED <<live, recent, seen>>
    BY <1>5 DEF TakeEntry, Ack, AckRaises, memory, calls
  <2> QED
    BY <1>0, <2>1, <2>2, ShownStill
<1>6. CASE Aside
  BY <1>0, <1>6, AsideKeeps, ShownStill
<1>7. CASE Restart
  <2>1. live' = {} /\ recent' = <<>> /\ faults' = faults + 1 /\ faults \in Nat
    BY <1>7, CallEventsAssumption DEF Restart, DeliveryInv, Typed, TypeOK
  <2>2. RecentEnded' /\ LiveSeen'
    BY <2>1 DEF RecentEnded, LiveSeen, Range
  <2>3. StartShown'
    BY <2>1 DEF StartShown
  <2> QED
    BY <2>2, <2>3 DEF ShownInv
<1> QED
  BY <1>1, <1>2, <1>3, <1>4, <1>5, <1>6, <1>7, StepCases DEF Handle

LEMMA StepKept == KeptInv /\ [Next]_vars => KeptInv'
<1> SUFFICES ASSUME KeptInv, [Next]_vars PROVE KeptInv'
  OBVIOUS
<1>1. DeliveryInv' /\ RowInv' /\ BoardInv'
  BY StepDelivery, StepRow, StepBoard DEF KeptInv
<1>2. Orderly' /\ Begun' /\ StartKept'
  BY StepOrderly, StepBegun, StepStart DEF KeptInv
<1>3. RecentEnded' /\ LiveSeen' /\ StartShown'
  BY StepShown DEF KeptInv, ShownInv
<1> QED
  BY <1>1, <1>2, <1>3 DEF KeptInv

\* What is around of a call about which everything has been handled is folded.
LEMMA QuietFolded ==
  ASSUME DeliveryInv, NEW c \in Calls, Quiet(c), NEW e \in Event, e.call = c, Around(e)
  PROVE  e \in seen
  BY CallEventsAssumption DEF Quiet, Around

(* Without faults the live board and the record agree, for any number of calls, *)
(* handlers and detours, once everything about a call has been handled          *)
(* (LiveCallHub.on_event, fold_event).                                          *)
THEOREM BoardAlwaysMatches == Spec => []BoardMatchesRecord
<1>1. KeptInv => BoardMatchesRecord
  <2> SUFFICES ASSUME KeptInv, NEW c \in Calls, faults = 0, Quiet(c), ~ Split(c),
                      c \notin overtaken \cup forgotten
               PROVE  c \in live <=> \E r \in rows[c] : Open(r)
    BY DEF BoardMatchesRecord
  <2> USE DEF KeptInv
  <2>1. \A p \in Proc : pc[p] = "folded" => ev[p] # NoEvent /\ ev[p].call # c
    BY CallEventsAssumption DEF Quiet, DeliveryInv, Typed, ProcOK, Handling
  <2>2. HasRow(c) /\ Keyed(c) /\ \A r \in rows[c] : EndSeen(c) <=> ~ Open(r)
    BY DEF RowInv, RowOK, IsFold
  <2>3. ASSUME c \in live PROVE \E r \in rows[c] : Open(r)
    <3>1. ~ EndSeen(c)
      BY <2>1, <2>3 DEF BoardInv, EndKnown, BoardClear, PendingEnd
    <3>2. rows[c] # {}
      BY <2>2, <2>3 DEF LiveSeen, HasRow
    <3> QED
      BY <2>2, <3>1, <3>2
  <2>4. ASSUME NEW r \in rows[c], Open(r) PROVE c \in live
    <3>1. ~ EndSeen(c) /\ r.key \in seen /\ r.key.call = c
      BY <2>2, <2>4 DEF Keyed
    <3>2. r.key \in Event /\ ~ IsEnd(r.key) /\ Around(r.key)
      BY <3>1 DEF EndSeen, Around, DeliveryInv, Typed, TypeOK
    <3>3. Talking(c)
      BY <3>1, <3>2 DEF Begun
    <3>4. Ev(c, "started") \in seen
      <4>1. Ev(c, "started") \in Event /\ Ev(c, "started").call = c
        BY EvType DEF WorkerKinds, Ev
      <4> QED
        BY <3>3, <4>1, QuietFolded DEF StartKept
    <3>5. \A p \in Proc : pc[p] = "folded" => ev[p] # Ev(c, "started")
      BY <2>1 DEF Ev
    <3> QED
      BY <3>1, <3>4, <3>5 DEF StartShown
  <2> QED
    BY <2>3, <2>4
<1> QED
  BY <1>1, InitKept, StepKept, PTL DEF Spec
===============================================================================
