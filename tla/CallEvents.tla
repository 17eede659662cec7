------------------------------ MODULE CallEvents ------------------------------
(* A call's events from the voice worker to the core API, and what the API does *)
(* with them.  The worker emits; each event is published by a task of its own,  *)
(* to the Redis stream or, when that raises, by one HTTP post.  One consumer    *)
(* reads the stream, request handlers take the posts, and a supervisor's        *)
(* hang-up of a dead call makes an event inside the API.  All of them fold the  *)
(* event into the database and then act on it: post-call queue, live board,     *)
(* ticket, text to the caller.  Only the database survives a restart.           *)
(*                                                                              *)
(* Abstractions: of a call record, whether call.started has been folded, the    *)
(* answer and the status; of the board, which calls are on it; of the four      *)
(* post-call workers, the calls they owe; transcripts, transfers, recordings,   *)
(* escalations, the outbound dialler (see Outbound) and the trunk guard are     *)
(* left out.                                                                    *)
EXTENDS Integers, Sequences, FiniteSets, Functions

CONSTANTS
  Calls,        \* calls, by call id
  Asking,       \* calls in which the assistant takes a ticket
  Consumer,     \* the task consume_events
  Handlers,     \* API requests that can be handled together
  NoEvent,
  RecentLimit,  \* maxlen of LiveCallHub._recent_ended
  MaxCloses,    \* bound: hang-ups of dead calls
  MaxDetours,   \* bound: events that do not go by the stream (alone)
  MaxFaults     \* bound: restarts, failed transactions, lost posts and the like

(* The event types that matter here: "ticket" is call.ticket_created with a     *)
(* ticket_id, "intake" the same without, "closed" the call.ended that the API   *)
(* makes itself.                                                                *)
WorkerKinds == {"started", "answered", "ticket", "intake", "ended"}
Event == [call: Calls, kind: WorkerKinds, n: {0}]
         \cup [call: Calls, kind: {"closed"}, n: 1..MaxCloses]
Proc == {Consumer} \cup Handlers

ASSUME CallEventsAssumption ==
  /\ Asking \subseteq Calls
  /\ Consumer \notin Handlers
  /\ NoEvent \notin Event
  /\ RecentLimit \in Nat \ {0}
  /\ MaxCloses \in Nat
  /\ MaxDetours \in Nat
  /\ MaxFaults \in Nat

VARIABLES
  phase,     \* where the worker is with each call
  asked,     \* where its create_ticket is
  flight,    \* events its publishing tasks still hold, and the way they go
  posts,     \* POST /tickets under way in the API
  stream,    \* entries of the stream not delivered yet
  batch,     \* entries the consumer has read and not acknowledged
  pc,        \* where each process of the API is
  ev,        \* the event it handles
  text,      \* the trigger of the text it is about to send
  live,      \* calls on the live board
  recent,    \* _recent_ended
  queue,     \* analyses the post-call workers owe per call
  seen,      \* call_events: ids folded
  rows,      \* calls: the rows of each call id
  analysed,  \* post-call results recorded per call
  posted,    \* calls with a ticket made by POST /tickets
  rebuilt,   \* tickets rebuilt from an intake, per call
  texted,    \* texts handed to the provider, per call and trigger
  logged,    \* call and trigger of the messages stored as sent
  closes,    \* hang-ups of dead calls so far
  detours,   \* events that have left the stream so far
  faults     \* faults so far

\* History, for the properties only.
VARIABLES
  overtaken, \* calls with an answer folded after their end
  forgotten, \* ended calls that the board no longer knows to be over
  crossed    \* calls whose worker gave up on a ticket the API made or may make

worker == <<phase, asked>>
memory == <<live, recent, queue>>
ticket == <<posted, rebuilt>>
sms    == <<texted, logged>>
calls  == <<seen, rows>>
ghost  == <<overtaken, forgotten, crossed>>
vars   == <<worker, flight, posts, stream, batch, pc, ev, text, memory, calls,
            analysed, ticket, sms, closes, detours, faults, ghost>>

Phases == {"new", "ringing", "up", "over", "declined", "dead"}
Asks == {"no", "waiting", "made", "done"}
PC == {"idle", "fold", "insert", "folded", "hub", "check", "text", "log", "ack", "stopped"}
Triggers == {"missed_call", "after_call"}
RowStatus == {"ringing", "in_progress", "completed"}
Row == [key: Event, started: BOOLEAN, answered: BOOLEAN, status: RowStatus]
Flight == [ev: Event, way: {"stream", "http"}]

Ev(c, kind) == [call |-> c, kind |-> kind, n |-> 0]
IsEnd(e) == e.kind \in {"ended", "closed"}
EndSeen(c) == \E e \in seen : e.call = c /\ IsEnd(e)
Open(r) == r.status # "completed"

Init ==
  /\ phase = [c \in Calls |-> "new"]
  /\ asked = [c \in Calls |-> "no"]
  /\ flight = {} /\ posts = {}
  /\ stream = <<>> /\ batch = <<>>
  /\ pc = [p \in Proc |-> "idle"]
  /\ ev = [p \in Proc |-> NoEvent]
  /\ text = [p \in Proc |-> "none"]
  /\ live = {} /\ recent = <<>>
  /\ queue = [c \in Calls |-> 0]
  /\ seen = {}
  /\ rows = [c \in Calls |-> {}]
  /\ analysed = [c \in Calls |-> 0]
  /\ posted = {}
  /\ rebuilt = [c \in Calls |-> 0]
  /\ texted = [m \in Calls \X Triggers |-> 0]
  /\ logged = {}
  /\ closes = 0 /\ detours = 0 /\ faults = 0
  /\ overtaken = {} /\ forgotten = {} /\ crossed = {}

-------------------------------------------------------------------------------
(* The worker.                                                                  *)

\* emit: the event is handed to a task of its own; nobody waits for it.
Emit(e) == flight' = flight \cup {[ev |-> e, way |-> "stream"]}

api == <<posts, stream, batch, pc, ev, text, memory, calls, analysed, ticket, sms, closes, detours>>

\* The call goes on: it is taken, answered, or ends.
Progress(c, from, to, kind) ==
  /\ phase[c] \in from
  /\ phase' = [phase EXCEPT ![c] = to]
  /\ Emit(Ev(c, kind))
  /\ UNCHANGED <<asked, api, faults, ghost>>

Start(c)   == Progress(c, {"new"}, "ringing", "started")
Decline(c) == Progress(c, {"new"}, "declined", "ended")
Answer(c)  == Progress(c, {"ringing"}, "up", "answered")
End(c)     == Progress(c, {"ringing", "up"}, "over", "ended")

\* Unlike the other ends, the one of a declined call is not waited for (no aclose):
\* the job may end before it is published.
DeclinedQuits(c) ==
  /\ phase[c] = "declined"
  /\ phase' = [phase EXCEPT ![c] = "dead"]
  /\ flight' = {f \in flight : f.ev.call # c}
  /\ UNCHANGED <<asked, api, faults, ghost>>

\* create_ticket: the post goes out; its outcome decides which event follows.
AskTicket(c) ==
  /\ c \in Asking /\ phase[c] = "up" /\ asked[c] = "no"
  /\ asked' = [asked EXCEPT ![c] = "waiting"]
  /\ posts' = posts \cup {c}
  /\ UNCHANGED <<phase, flight, stream, batch, pc, ev, text, memory, calls, analysed,
                 ticket, sms, closes, detours, faults, ghost>>

\* Mutant: the event does not carry the ticket's id.
TicketAnsweredWithoutId(c) ==
  /\ phase[c] = "up" /\ asked[c] = "made"
  /\ asked' = [asked EXCEPT ![c] = "done"]
  /\ Emit(Ev(c, "intake"))
  /\ UNCHANGED <<phase, api, faults, ghost>>

TicketAnswered(c) ==
  /\ phase[c] = "up" /\ asked[c] = "made"
  /\ asked' = [asked EXCEPT ![c] = "done"]
  /\ Emit(Ev(c, "ticket"))
  /\ UNCHANGED <<phase, api, faults, ghost>>

\* The post fails or takes too long.  The API may be at it, or done, all the same.
TicketGivenUp(c) ==
  /\ phase[c] = "up" /\ asked[c] \in {"waiting", "made"}
  /\ asked' = [asked EXCEPT ![c] = "done"]
  /\ Emit(Ev(c, "intake"))
  /\ crossed' = IF asked[c] = "made" \/ c \in posts THEN crossed \cup {c} ELSE crossed
  /\ UNCHANGED <<phase, api, faults, overtaken, forgotten>>

\* The job's process dies, and its publishing tasks with it.
WorkerDies(c) ==
  /\ phase[c] \in {"ringing", "up", "over", "declined"} /\ faults < MaxFaults
  /\ phase' = [phase EXCEPT ![c] = "dead"]
  /\ flight' = {f \in flight : f.ev.call # c}
  /\ faults' = faults + 1
  /\ UNCHANGED <<asked, api, ghost>>

-------------------------------------------------------------------------------
(* Publishing (EventPublisher._publish): the stream, or else one post.          *)

XAdd(f) ==
  /\ f \in flight /\ f.way = "stream"
  /\ stream' = Append(stream, f.ev)
  /\ flight' = flight \ {f}
  /\ UNCHANGED <<worker, posts, batch, pc, ev, text, memory, calls, analysed, ticket, sms,
                 closes, detours, faults, ghost>>

\* Mutant: an event that the stream refused is not posted.
XAddRaisesDropped(f) ==
  /\ f \in flight /\ f.way = "stream" /\ detours < MaxDetours
  /\ detours' = detours + 1
  /\ stream' \in {stream, Append(stream, f.ev)}
  /\ flight' = flight \ {f}
  /\ UNCHANGED <<worker, posts, batch, pc, ev, text, memory, calls, analysed, ticket, sms,
                 closes, faults, ghost>>

\* xadd raises; Redis may have taken the entry (its answer was lost).
XAddRaises(f) ==
  /\ f \in flight /\ f.way = "stream" /\ detours < MaxDetours
  /\ detours' = detours + 1
  /\ stream' \in {stream, Append(stream, f.ev)}
  /\ flight' = (flight \ {f}) \cup {[f EXCEPT !.way = "http"]}
  /\ UNCHANGED <<worker, posts, batch, pc, ev, text, memory, calls, analysed, ticket, sms,
                 closes, faults, ghost>>

Post(f) ==
  /\ f \in flight /\ f.way = "http"
  /\ \E h \in Handlers :
       /\ pc[h] = "idle"
       /\ pc' = [pc EXCEPT ![h] = "fold"]
       /\ ev' = [ev EXCEPT ![h] = f.ev]
  /\ flight' = flight \ {f}
  /\ UNCHANGED <<worker, posts, stream, batch, text, memory, calls, analysed, ticket, sms,
                 closes, detours, faults, ghost>>

PostLost(f) ==
  /\ f \in flight /\ f.way = "http" /\ faults < MaxFaults
  /\ flight' = flight \ {f}
  /\ faults' = faults + 1
  /\ UNCHANGED <<worker, api, ghost>>

-------------------------------------------------------------------------------
(* The consumer's loop.  Entries are read as new ones (">") only: an entry that *)
(* was delivered and not acknowledged is never read again.                      *)

Read ==
  /\ pc[Consumer] = "idle" /\ batch = <<>> /\ stream # <<>>
  /\ batch' = stream
  /\ stream' = <<>>
  /\ UNCHANGED <<worker, flight, posts, pc, ev, text, memory, calls, analysed, ticket, sms,
                 closes, detours, faults, ghost>>

TakeEntry ==
  /\ pc[Consumer] = "idle" /\ batch # <<>>
  /\ pc' = [pc EXCEPT ![Consumer] = "fold"]
  /\ ev' = [ev EXCEPT ![Consumer] = Head(batch)]
  /\ UNCHANGED <<worker, flight, posts, stream, batch, text, memory, calls, analysed, ticket,
                 sms, closes, detours, faults, ghost>>

Ack ==
  /\ pc[Consumer] = "ack"
  /\ pc' = [pc EXCEPT ![Consumer] = "idle"]
  /\ batch' = Tail(batch)
  /\ UNCHANGED <<worker, flight, posts, stream, ev, text, memory, calls, analysed, ticket, sms,
                 closes, detours, faults, ghost>>

\* xack is outside the loop's try: when it raises the task ends, until a restart.
AckRaises ==
  /\ pc[Consumer] = "ack" /\ faults < MaxFaults
  /\ pc' = [pc EXCEPT ![Consumer] = "stopped"]
  /\ faults' = faults + 1
  /\ UNCHANGED <<worker, flight, posts, stream, batch, ev, text, memory, calls, analysed,
                 ticket, sms, closes, detours, ghost>>

\* A supervisor hangs up a call whose room cannot be reached: close_ghost_call.
CloseGhost(h, c) ==
  /\ pc[h] = "idle" /\ closes < MaxCloses
  /\ \E r \in rows[c] : Open(r)
  /\ closes' = closes + 1
  /\ pc' = [pc EXCEPT ![h] = "fold"]
  /\ ev' = [ev EXCEPT ![h] = [call |-> c, kind |-> "closed", n |-> closes + 1]]
  /\ UNCHANGED <<worker, flight, posts, stream, batch, text, memory, calls, analysed, ticket,
                 sms, detours, faults, ghost>>

-------------------------------------------------------------------------------
(* apply_event: one transaction.  call_events rejects an id seen before, and    *)
(* makes a second transaction with the same id wait for the first.              *)

rest == <<worker, flight, posts, stream, batch, closes, detours>>
Goto(p, next) == pc' = [pc EXCEPT ![p] = next] /\ UNCHANGED ev

\* p is through with its event: the consumer acknowledges it, a request returns.
Done(p) ==
  /\ pc' = [pc EXCEPT ![p] = IF p = Consumer THEN "ack" ELSE "idle"]
  /\ ev' = [ev EXCEPT ![p] = NoEvent]

\* Mutants: each event starts a fresh record; a hang-up leaves the status alone.
FoldRowAnew(r, e) ==
  [r EXCEPT !.started  = e.kind = "started",
            !.answered = e.kind = "answered",
            !.status   = IF IsEnd(e) THEN "completed"
                         ELSE IF e.kind = "answered" THEN "in_progress" ELSE @]

FoldRowLeftOpen(r, e) ==
  [r EXCEPT !.started  = @ \/ e.kind = "started",
            !.answered = @ \/ e.kind = "answered",
            !.status   = IF e.kind = "ended" THEN "completed"
                         ELSE IF e.kind = "answered" THEN "in_progress" ELSE @]

FoldRow(r, e) ==
  [r EXCEPT !.started  = @ \/ e.kind = "started",
            !.answered = @ \/ e.kind = "answered",
            !.status   = IF IsEnd(e) THEN "completed"
                         ELSE IF e.kind = "answered" THEN "in_progress" ELSE @]

\* Mutant: the column has no default.
NewRowUnset(e) == [key |-> e, started |-> FALSE, answered |-> FALSE, status |-> "unset"]

NewRow(e) == [key |-> e, started |-> FALSE, answered |-> FALSE, status |-> "ringing"]

Recorded(e) ==
  /\ seen' = seen \cup {e}
  /\ overtaken' = IF e.kind = "answered" /\ EndSeen(e.call)
                  THEN overtaken \cup {e.call} ELSE overtaken

FoldAgain(p) ==
  /\ pc[p] = "fold" /\ ev[p] \in seen
  /\ Done(p)
  /\ UNCHANGED <<rest, text, memory, calls, analysed, ticket, sms, faults, ghost>>

\* Mutants: the id is not looked up; a second transaction with it does not wait.
MineAgain(p) == pc[p] = "fold"

MineTogether(p) == pc[p] = "fold" /\ ev[p] \notin seen

Mine(p) ==
  /\ pc[p] = "fold" /\ ev[p] \notin seen
  /\ \A q \in Proc \ {p} : ~(pc[q] = "insert" /\ ev[q] = ev[p])

\* The SELECT ... FOR UPDATE finds the call: its rows become the fold of one of them.
Fold(p) ==
  /\ Mine(p)
  /\ \E r \in rows[ev[p].call] :
       rows' = [rows EXCEPT ![ev[p].call] =
                  {[FoldRow(r, ev[p]) EXCEPT !.key = s.key] : s \in @}]
  /\ Recorded(ev[p])
  /\ Goto(p, "folded")
  /\ UNCHANGED <<rest, text, memory, analysed, ticket, sms, faults, forgotten, crossed>>

\* It finds none, and nothing is locked: another first event may get as far.
FoldFirst(p) ==
  /\ Mine(p) /\ rows[ev[p].call] = {}
  /\ Goto(p, "insert")
  /\ UNCHANGED <<rest, text, memory, calls, analysed, ticket, sms, faults, ghost>>

(* The row is inserted and updated.  Its key holds the event's own time, so a   *)
(* row that another first event inserted is no conflict; the UPDATE overwrites  *)
(* it too if it was committed by then.                                          *)
Insert(p) ==
  /\ pc[p] = "insert"
  /\ LET e   == ev[p]
         new == FoldRow(NewRow(e), e)
     IN /\ \E visible \in SUBSET rows[e.call] :
             rows' = [rows EXCEPT ![e.call] =
                        (@ \ visible) \cup {[new EXCEPT !.key = s.key] : s \in visible}
                                      \cup {new}]
        /\ Recorded(e)
  /\ Goto(p, "folded")
  /\ UNCHANGED <<rest, text, memory, analysed, ticket, sms, faults, forgotten, crossed>>

\* The transaction fails: the consumer logs and acknowledges, a request answers 500.
FoldRaises(p) ==
  /\ pc[p] \in {"fold", "insert"} /\ faults < MaxFaults
  /\ Done(p)
  /\ faults' = faults + 1
  /\ UNCHANGED <<rest, text, memory, calls, analysed, ticket, sms, ghost>>

-------------------------------------------------------------------------------
(* What follows the fold.                                                       *)

\* rebuild_from_event: an intake without a ticket gets one.
Rebuild(p) ==
  /\ pc[p] = "folded" /\ ev[p].kind = "intake"
  /\ rebuilt' = [rebuilt EXCEPT ![ev[p].call] = @ + 1]
  /\ Goto(p, "hub")
  /\ UNCHANGED <<rest, text, memory, calls, analysed, posted, sms, faults, ghost>>

\* It raises, before or after the ticket is stored; the hub does not see the event.
RebuildRaises(p) ==
  /\ pc[p] = "folded" /\ ev[p].kind = "intake"
  /\ rebuilt' \in {rebuilt, [rebuilt EXCEPT ![ev[p].call] = @ + 1]}
  /\ Done(p)
  /\ UNCHANGED <<rest, text, memory, calls, analysed, posted, sms, faults, ghost>>

\* Mutant: every end is queued.
EndedEither(e) == IF IsEnd(e) THEN [queue EXCEPT ![e.call] = @ + 1] ELSE queue

Ended(e) == IF e.kind = "ended" THEN [queue EXCEPT ![e.call] = @ + 1] ELSE queue

\* Mutant: the end is not remembered.
RememberNot(c) == UNCHANGED <<recent, forgotten>>

\* LiveCallHub.on_event for an end: off the board, and remembered for a while.
Remember(c) ==
  LET longer == Append(recent, c)
      kept   == IF Len(longer) > RecentLimit THEN Tail(longer) ELSE longer
  IN /\ recent' = kept
     /\ forgotten' = (forgotten \cup Range(longer)) \ Range(kept)

\* No await lies between the fold's return, enqueue and the board.
Effects(p) ==
  /\ \/ pc[p] = "folded" /\ ev[p].kind # "intake"
     \/ pc[p] = "hub"
  /\ queue' = Ended(ev[p])
  /\ IF IsEnd(ev[p])
     THEN /\ live' = live \ {ev[p].call}
          /\ Remember(ev[p].call)
          /\ Goto(p, "check")
     ELSE /\ live' = IF ev[p].call \in Range(recent) THEN live ELSE live \cup {ev[p].call}
          /\ Done(p)
          /\ UNCHANGED <<recent, forgotten>>
  /\ UNCHANGED <<rest, text, calls, analysed, ticket, sms, faults, overtaken, crossed>>

(* MessageService.on_call_ended: the record says which text, the stored       *)
(* messages whether it went out already.                                        *)
CheckText(p) ==
  /\ pc[p] = "check"
  /\ \E r \in rows[ev[p].call] :
       LET trigger == IF r.answered THEN "after_call" ELSE "missed_call"
       IN IF r.started /\ <<ev[p].call, trigger>> \notin logged
          THEN Goto(p, "text") /\ text' = [text EXCEPT ![p] = trigger]
          ELSE Done(p) /\ UNCHANGED text
  /\ UNCHANGED <<rest, memory, calls, analysed, ticket, sms, faults, ghost>>

SendText(p) ==
  /\ pc[p] = "text"
  /\ texted' = [texted EXCEPT ![<<ev[p].call, text[p]>>] = @ + 1]
  /\ Goto(p, "log")
  /\ UNCHANGED <<rest, text, memory, calls, analysed, ticket, logged, faults, ghost>>

LogText(p) ==
  /\ pc[p] = "log"
  /\ logged' = logged \cup {<<ev[p].call, text[p]>>}
  /\ text' = [text EXCEPT ![p] = "none"]
  /\ Done(p)
  /\ UNCHANGED <<rest, memory, calls, analysed, ticket, texted, faults, ghost>>

\* The provider refuses it: the message is stored as failed, and nobody tries again.
TextRefused(p) ==
  /\ pc[p] = "text" /\ faults < MaxFaults
  /\ text' = [text EXCEPT ![p] = "none"]
  /\ Done(p)
  /\ faults' = faults + 1
  /\ UNCHANGED <<rest, memory, calls, analysed, ticket, sms, ghost>>

\* A post-call worker takes a call off the queue and records its result.
Analyse(c) ==
  /\ queue[c] > 0
  /\ queue' = [queue EXCEPT ![c] = @ - 1]
  /\ analysed' = [analysed EXCEPT ![c] = @ + 1]
  /\ UNCHANGED <<worker, flight, posts, stream, batch, pc, ev, text, live, recent, calls,
                 ticket, sms, closes, detours, faults, ghost>>

\* It raises: the call is not tried again.
AnalyseRaises(c) ==
  /\ queue[c] > 0 /\ faults < MaxFaults
  /\ queue' = [queue EXCEPT ![c] = @ - 1]
  /\ faults' = faults + 1
  /\ UNCHANGED <<worker, flight, posts, stream, batch, pc, ev, text, live, recent, calls,
                 analysed, ticket, sms, closes, detours, ghost>>

-------------------------------------------------------------------------------
(* POST /tickets (create_from_intake), also after the worker stopped waiting.   *)

CreateTicket(c) ==
  /\ c \in posts
  /\ posts' = posts \ {c}
  /\ posted' = posted \cup {c}
  /\ asked' = IF asked[c] = "waiting" THEN [asked EXCEPT ![c] = "made"] ELSE asked
  /\ UNCHANGED <<phase, flight, stream, batch, pc, ev, text, memory, calls, analysed,
                 rebuilt, sms, closes, detours, faults, ghost>>

RefuseTicket(c) ==
  /\ c \in posts
  /\ posts' = posts \ {c}
  /\ UNCHANGED <<worker, flight, stream, batch, pc, ev, text, memory, calls, analysed,
                 ticket, sms, closes, detours, faults, ghost>>

-------------------------------------------------------------------------------
\* A restart of the API: what it held in memory is gone, its requests with it.
Restart ==
  /\ faults < MaxFaults
  /\ faults' = faults + 1
  /\ pc' = [p \in Proc |-> "idle"]
  /\ ev' = [p \in Proc |-> NoEvent]
  /\ text' = [p \in Proc |-> "none"]
  /\ batch' = <<>> /\ posts' = {}
  /\ live' = {} /\ recent' = <<>>
  /\ queue' = [c \in Calls |-> 0]
  /\ forgotten' = {c \in Calls : EndSeen(c)}
  /\ UNCHANGED <<worker, flight, stream, calls, analysed, ticket, sms, closes,
                 detours, overtaken, crossed>>

Worker(c) == Start(c) \/ Decline(c) \/ DeclinedQuits(c) \/ Answer(c) \/ End(c)
             \/ AskTicket(c) \/ TicketAnswered(c) \/ TicketGivenUp(c)
Publish(f) == XAdd(f) \/ XAddRaises(f) \/ Post(f)
Consume == Read \/ TakeEntry \/ Ack
Handle(p) == FoldAgain(p) \/ Fold(p) \/ FoldFirst(p) \/ Insert(p) \/ Rebuild(p)
             \/ Effects(p) \/ CheckText(p) \/ SendText(p) \/ LogText(p)
Raise == \/ AckRaises
         \/ \E p \in Proc : FoldRaises(p) \/ RebuildRaises(p) \/ TextRefused(p)
         \/ \E f \in flight : PostLost(f)
         \/ \E c \in Calls : AnalyseRaises(c) \/ WorkerDies(c)

Next ==
  \/ \E c \in Calls : Worker(c) \/ CreateTicket(c) \/ RefuseTicket(c) \/ Analyse(c)
  \/ \E f \in flight : Publish(f)
  \/ Consume
  \/ \E p \in Proc : Handle(p)
  \/ \E h \in Handlers, c \in Calls : CloseGhost(h, c)
  \/ Raise
  \/ Restart

Spec == Init /\ [][Next]_vars

(* What has begun goes on: the worker waits for its publishing tasks            *)
(* (EventPublisher.aclose; not so for a declined call, which may quit), the     *)
(* consumer loops, a request runs to its end, the post-call workers take what   *)
(* is queued.  Nothing is assumed of callers, supervisors or faults.            *)
Fairness ==
  /\ WF_vars(\E f \in flight : Publish(f))
  /\ WF_vars(Consume)
  /\ \A p \in Proc : WF_vars(Handle(p))
  /\ \A c \in Calls : WF_vars(Analyse(c))

LiveSpec == Spec /\ Fairness
-------------------------------------------------------------------------------
(* Properties.                                                                  *)

TypeOK ==
  /\ phase \in [Calls -> Phases] /\ asked \in [Calls -> Asks]
  /\ flight \subseteq Flight /\ posts \subseteq Calls
  /\ stream \in Seq(Event) /\ batch \in Seq(Event)
  /\ pc \in [Proc -> PC] /\ ev \in [Proc -> Event \cup {NoEvent}]
  /\ text \in [Proc -> Triggers \cup {"none"}]
  /\ live \subseteq Calls /\ recent \in Seq(Calls) /\ queue \in [Calls -> Nat]
  /\ seen \subseteq Event /\ rows \in [Calls -> SUBSET Row]
  /\ analysed \in [Calls -> Nat] /\ posted \subseteq Calls
  /\ rebuilt \in [Calls -> Nat]
  /\ texted \in [Calls \X Triggers -> Nat] /\ logged \subseteq Calls \X Triggers
  /\ closes \in 0..MaxCloses /\ detours \in 0..MaxDetours /\ faults \in 0..MaxFaults
  /\ overtaken \subseteq Calls /\ forgotten \subseteq Calls /\ crossed \subseteq Calls

(* A call is analysed at most once, counting the analyses still owed: not again *)
(* when its end comes by stream and by post, when both are handled at the same  *)
(* time, when a supervisor closes it as well, or across a restart               *)
(* (apply_event's ON CONFLICT, and enqueue only for the worker's own end).      *)
AnalysedOnce == \A c \in Calls : queue[c] + analysed[c] <= 1

(* A call whose end has been folded is on the live board only while that end is *)
(* on its way to the board, or when the board has forgotten it: after a restart *)
(* or past the limit of _recent_ended (LiveCallHub.on_event).                   *)
NoZombie ==
  \A c \in live : EndSeen(c) =>
    \/ c \in forgotten
    \/ \E p \in Proc : pc[p] = "folded" /\ ev[p].call = c /\ IsEnd(ev[p])

Split(c) == \E r, s \in rows[c] : r # s

(* However the events of a call are ordered, its record is the fold of those    *)
(* folded: call.started and call.answered show, and it is completed exactly     *)
(* when an end was folded - unless an answer came after the end, or two first   *)
(* events made two rows (fold_event, PostgresStore.apply_event).                *)
RecordIsFold ==
  \A c \in Calls : ~Split(c) => \A r \in rows[c] :
    /\ r.started = (Ev(c, "started") \in seen)
    /\ r.answered = (Ev(c, "answered") \in seen)
    /\ c \notin overtaken => (EndSeen(c) <=> ~Open(r))

Quiet(c) ==
  /\ \A f \in flight : f.ev.call # c
  /\ \A e \in Range(stream) \cup Range(batch) : e.call # c
  /\ \A p \in Proc : ev[p] = NoEvent \/ ev[p].call # c

(* Once everything about a call has been handled, the live board in memory and  *)
(* the record in the database agree whether it is still going on, though they   *)
(* are updated at different times and treat late events differently - unless a  *)
(* fault happened, an answer came after the end, or the record is split.        *)
BoardMatchesRecord ==
  \A c \in Calls :
    faults = 0 /\ Quiet(c) /\ ~Split(c) /\ c \notin overtaken \cup forgotten
      => (c \in live <=> \E r \in rows[c] : Open(r))

(* One intake makes one ticket, whether the worker's post made it or the event  *)
(* did - two when the worker gave up on a post that the API carried out         *)
(* (create_ticket in tools.py, rebuild_from_event in tickets.py).               *)
TicketOnce ==
  \A c \in Calls : rebuilt[c] + (IF c \in posted THEN 1 ELSE 0)
                     <= IF c \in crossed THEN 2 ELSE 1

(* Redelivery never repeats the text after a call: there are at most as many of *)
(* one kind as there were different ends of the call.                           *)
TextsBounded ==
  \A m \in Calls \X Triggers :
    texted[m] <= Cardinality({e \in seen : e.call = m[1] /\ IsEnd(e)})

(* "The caller never receives duplicates for the same trigger" (messaging.py:5).*)
(* Not so: _already_sent looks before the other handler has stored its message. *)
TextNeverRepeated == \A m \in Calls \X Triggers : texted[m] <= 1

(* Stream, posts, transactions and in-memory work together implement the ledger *)
(* that the event path promises: fold once, then each effect at most once.      *)
Ledger == INSTANCE EventLedger WITH folded <- seen
LedgerImplemented == Ledger!LedgerSpec

(* The end of a call takes its course, unless a fault happened: a call that was  *)
(* taken is analysed in the end, whichever way the event took and whatever       *)
(* overtook it, and a call that is over leaves the live board for good, whatever *)
(* events of it are still on their way.                                          *)
EndSettles ==
  \A c \in Calls :
    /\ phase[c] = "over" ~> (analysed[c] = 1 \/ faults > 0)
    /\ <>[](phase[c] \in {"over", "declined"} => c \notin live \/ faults > 0)
===============================================================================
