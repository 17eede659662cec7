------------------------------- MODULE Outbound -------------------------------
(* The outbound dialler of the core API (apps/api/parlio_api/outbound.py, its   *)
(* routes, and the voice worker's side of an outbound call).                    *)
(*                                                                              *)
(* A job is one whole document of the tenant store.  Nothing locks or versions  *)
(* it: every operation reads the document, awaits something, and writes its own *)
(* copy back over whatever is there.  The model therefore splits an operation   *)
(* at each await that another operation can use: `held' is what a process has   *)
(* read, `doc' what is stored.  Processes: the sweep loop, dashboard requests   *)
(* and the handlers of worker events and worker posts.                          *)
(*                                                                              *)
(* Abstractions: time is two flags of a document, `due' (it waits and its       *)
(* scheduled_at has come) and `aged' (it is live and its last attempt is older  *)
(* than stale_dial_min); outcomes fall in five classes; policy switches, the    *)
(* calling window, consent and the destination country are free choices where   *)
(* the code reads them; leads and ticket notes, which decide nothing about a    *)
(* job, are left out.                                                           *)
EXTENDS Integers, Sequences, FiniteSets

CONSTANTS
  Jobs,         \* outbound calls, by job id
  Phones,       \* numbers, as normalise_phone returns them
  PhoneOf,      \* the number each job dials
  LeadJobs,     \* jobs whose purpose is lead_followup
  Deadlined,    \* jobs with a not_after
  MaxAttempts,  \* OutboundCall.max_attempts
  DailyCap,     \* OutboundPolicy.daily_cap_per_number
  Loop,         \* the task of OutboundLoop
  Requests,     \* dashboard requests that can be in flight together
  Handlers,     \* worker events and posts that can be handled together
  NoJob,
  Spoken,       \* bound: the outcomes record_outcome is called with
  MaxDials,     \* bound: after this many calls the dialer refuses
  MaxWorkers,   \* bound: the calls after this many are lost by the worker
  Fallible,     \* bound: the processes whose awaits may raise
  MaxFaults     \* bound: restarts, and awaits that raise

(* Outcome, by what the dialler does with it: "no_contact" is NO_CONTACT,       *)
(* "unknown" is UNKNOWN and "contact" every other outcome but the last two.     *)
Outcome == {"unknown", "no_contact", "contact", "opt_out", "wrong_number"}

ASSUME OutboundAssumption ==
  /\ PhoneOf \in [Jobs -> Phones]
  /\ LeadJobs \subseteq Jobs
  /\ Deadlined \subseteq Jobs
  /\ MaxAttempts \in Nat \ {0}
  /\ DailyCap \in Nat
  /\ Spoken \subseteq Outcome \ {"unknown"}
  /\ MaxDials \in Nat
  /\ MaxWorkers \in Nat
  /\ Fallible \subseteq {Loop} \cup Requests \cup Handlers
  /\ MaxFaults \in Nat
  /\ NoJob \notin Jobs
  /\ IsFiniteSet(Requests)
  /\ Loop \notin Requests \cup Handlers
  /\ Requests \cap Handlers = {}

Proc == {Loop} \cup Requests \cup Handlers
Dispatchers == {Loop} \cup Requests

Waiting == {"scheduled", "retry"}
Live    == {"dialing", "in_progress"}
Final   == {"completed", "exhausted", "suppressed", "cancelled", "failed"}
Status  == Waiting \cup Live \cup Final \cup {"absent"}

Attempt == [outcome: Outcome, called: BOOLEAN]  \* called: it has a call_id

Job == [status: Status, attempts: Seq(Attempt), due: BOOLEAN, aged: BOOLEAN]

Absent == [status |-> "absent", attempts |-> <<>>, due |-> FALSE, aged |-> FALSE]

VARIABLES
  doc,      \* the stored documents
  dnc,      \* numbers on the do-not-call list
  expired,  \* jobs whose not_after has passed
  dials,    \* every call handed to the dialer, in order
  inbox,    \* what the worker has sent and nobody has taken yet
  folded,   \* calls whose call.started is folded into the call record
  raised,   \* "unreachable" tickets raised per job: 0, 1, or 2 for more
  pc,       \* where each process is
  cur,      \* the job it is working on
  held,     \* the documents it has read, Absent for the others
  faults    \* the faults so far: each what follows an outcome and was cut short

\* History, for the properties only.
VARIABLES
  fresh,      \* <<p, j>>: nobody has written j since p read it
  torn,       \* jobs whose document once lost an update
  grace       \* dials a listed number may still get from dispatches under way

store == <<doc, dnc, raised>>
world == <<expired, dials, inbox, folded>>
local == <<pc, cur, held>>
ghost == <<fresh, torn, grace>>
vars  == <<store, world, local, faults, ghost>>

PC == {"idle", "tick", "gate", "count", "dial", "save",
       "save_after", "save_opt_out", "after", "opt_out", "list", "suppress"}

\* What a fault can cut short: a number is listed, a ticket raised.
FollowUps == {"listing", "ticket"}

CallStates == {"placed", "up", "reported", "over"}
Dial == [job: Jobs, by: Dispatchers, state: CallStates]
Message == [kind: {"started", "outcome", "ended"}, call: Nat \ {0}, outcome: Outcome]

\* What schedule leaves behind: the process may start with jobs in the queue.
Queued == [Absent EXCEPT !.status = "scheduled", !.due = TRUE]

Init ==
  /\ doc \in [Jobs -> {Absent, Queued}]
  /\ dnc = {}
  /\ expired = {}
  /\ dials = <<>>
  /\ inbox = {}
  /\ folded = {}
  /\ raised = [j \in Jobs |-> 0]
  /\ pc = [p \in Proc |-> "idle"]
  /\ cur = [p \in Proc |-> NoJob]
  /\ held = [p \in Proc |-> [j \in Jobs |-> Absent]]
  /\ faults = <<>>
  /\ fresh = {}
  /\ torn = {}
  /\ grace = [ph \in Phones |-> 0]

-------------------------------------------------------------------------------
(* Helpers.                                                                     *)

\* _save / put_doc: the whole document is replaced by the writer's copy.
Write(p, j, job) ==
  /\ doc' = [doc EXCEPT ![j] = job]
  /\ torn' = IF <<p, j>> \in fresh THEN torn ELSE torn \cup {j}
  /\ fresh' = fresh \ (Proc \X {j})

\* p reads one document (changed to `job' in its copy) and goes on to `next'.
Take(p, j, job, next) ==
  /\ pc' = [pc EXCEPT ![p] = next]
  /\ cur' = [cur EXCEPT ![p] = j]
  /\ held' = [held EXCEPT ![p] = [@ EXCEPT ![j] = job]]
  /\ fresh' = fresh \cup {<<p, j>>}

\* p lists the documents of a set of jobs and goes on to `next'.
List(p, js, next) ==
  /\ pc' = [pc EXCEPT ![p] = next]
  /\ held' = [held EXCEPT ![p] = [j \in Jobs |-> IF j \in js THEN doc[j] ELSE Absent]]
  /\ fresh' = (fresh \ ({p} \X Jobs)) \cup ({p} \X js)

\* p changes its copy of its job and goes on to `next'.
Change(p, job, next) ==
  /\ pc' = [pc EXCEPT ![p] = next]
  /\ held' = [held EXCEPT ![p] = [@ EXCEPT ![cur[p]] = job]]

Mine(p) == held[p][cur[p]]
HeldJobs(p) == {j \in Jobs : held[p][j] # Absent}
Unheld(j) == \A p \in Proc : held[p][j] = Absent

\* p has finished with its job; the loop returns to what is left of its listing.
Leave(p) ==
  /\ pc' = [pc EXCEPT ![p] = IF HeldJobs(p) \subseteq {cur[p]} THEN "idle" ELSE "tick"]
  /\ cur' = [cur EXCEPT ![p] = NoJob]
  /\ held' = [held EXCEPT ![p] = [@ EXCEPT ![cur[p]] = Absent]]

\* Mutated: nobody looks at the list.
NotListed(ph) == FALSE

\* is_suppressed
Listed(ph) == ph \in dnc

LastOutcome(job) ==
  IF job.attempts = <<>> THEN "unknown" ELSE job.attempts[Len(job.attempts)].outcome

\* Mutated: the attempt is replaced by its outcome and loses the call it was.
WithLastOnly(job, o) ==
  IF job.attempts = <<>> THEN job
  ELSE [job EXCEPT !.attempts[Len(job.attempts)] = [outcome |-> o]]

WithLast(job, o) ==
  IF job.attempts = <<>> THEN job
  ELSE [job EXCEPT !.attempts[Len(job.attempts)].outcome = o]

\* Mutated: the attempt replaces the earlier ones; it is not recorded at all.
WithOnlyAttempt(job, o, called) ==
  [job EXCEPT !.attempts = <<[outcome |-> o, called |-> called]>>, !.due = FALSE]
WithoutAttempt(job, o, called) == [job EXCEPT !.due = FALSE]

WithAttempt(job, o, called) ==
  [job EXCEPT !.attempts = Append(@, [outcome |-> o, called |-> called]), !.due = FALSE]

\* Mutated: the limit is off by one.
AfterStatusOneMore(j, n, o) ==
  IF o # "no_contact" THEN {"completed"} ELSE IF n <= MaxAttempts THEN {"retry"} ELSE {"exhausted"}

(* _after_attempt: what the copy becomes.  The next window may lie beyond the   *)
(* deadline of a job that has one.                                              *)
AfterStatus(j, n, o) ==
  {s \in {"completed", "exhausted", "retry"} :
     /\ s = "completed" <=> o # "no_contact"
     /\ s = "retry" => n < MaxAttempts
     /\ s = "exhausted" => n >= MaxAttempts \/ j \in Deadlined}

AfterAttempt(j, call, o) ==
  {[call EXCEPT !.status = s, !.due = FALSE, !.aged = FALSE] :
     s \in AfterStatus(j, Len(call.attempts), o)}

\* Mutated: a wrong number is not suppressed.
SuppressesOptOut(o) == o = "opt_out"

\* What has _after_attempt suppress the number.
Suppresses(o) == o \in {"opt_out", "wrong_number"}

\* Mutated: a ticket on every attempt that failed; none when the dialer raised.
UnreachableEachTime(j, job) == job.status \in {"exhausted", "retry"} /\ j \in LeadJobs
UnreachableIfCalled(j, job) ==
  job.status = "exhausted" /\ j \in LeadJobs /\ job.attempts[Len(job.attempts)].called

\* What has it raise a ticket for a person to take over.
Unreachable(j, job) == job.status = "exhausted" /\ j \in LeadJobs

\* Mutated: calls in progress are never taken for lost.
StaleDialing(job) == job.status = "dialing" /\ job.attempts # <<>> /\ job.aged

\* What expire_stale takes for lost.
Stale(job) == job.status \in Live /\ job.attempts # <<>> /\ job.aged

\* _daily_count: the recorded attempts at a number (the model spans one day).
DailyCount(ph) ==
  Cardinality(UNION {{j} \X DOMAIN doc[j].attempts : j \in {k \in Jobs : PhoneOf[k] = ph}})

Inflight(ph) == {p \in Dispatchers : pc[p] \in {"count", "dial"} /\ PhoneOf[cur[p]] = ph}

\* One more fault, and what it cuts short.
Fails(cut) ==
  /\ Len(faults) < MaxFaults
  /\ faults' = Append(faults, cut)

-------------------------------------------------------------------------------
(* The dashboard.                                                               *)

\* schedule: the gates, read together; the save is a step of its own.
Schedule(r, j) ==
  /\ pc[r] = "idle"
  /\ doc[j] = Absent
  /\ Unheld(j)
  /\ \E status \in {"scheduled", "cancelled", "suppressed"}, due \in BOOLEAN :
       /\ status = "scheduled" => ~Listed(PhoneOf[j])
       /\ due => status = "scheduled"
       /\ Take(r, j, [Absent EXCEPT !.status = status, !.due = due], "save")
  /\ UNCHANGED <<store, world, faults, torn, grace>>

\* cancel: only a job still waiting; otherwise the request changes nothing.
Cancel(r, j) ==
  /\ pc[r] = "idle"
  /\ doc[j].status \in Waiting
  /\ Take(r, j, [doc[j] EXCEPT !.status = "cancelled", !.due = FALSE], "save")
  /\ UNCHANGED <<store, world, faults, torn, grace>>

\* dial_now: 409 unless the job is waiting, then an audit record, then dispatch.
DialNow(r, j) ==
  /\ pc[r] = "idle"
  /\ doc[j].status \in Waiting
  /\ Take(r, j, doc[j], "gate")
  /\ UNCHANGED <<store, world, faults, torn, grace>>

\* suppress, first await: the number goes on the list.
ListNumber(p, ph) ==
  /\ dnc' = dnc \cup {ph}
  /\ grace' = IF ph \in dnc THEN grace
              ELSE [grace EXCEPT ![ph] = Cardinality(Inflight(ph))]

\* add_suppression, or a STOP by text: the number of job j.
Suppress(r, j) ==
  /\ pc[r] = "idle"
  /\ ListNumber(r, PhoneOf[j])
  /\ pc' = [pc EXCEPT ![r] = "list"]
  /\ cur' = [cur EXCEPT ![r] = j]
  /\ UNCHANGED <<doc, raised, world, held, faults, fresh, torn>>

Unsuppress(ph) ==
  /\ ph \in dnc
  /\ dnc' = dnc \ {ph}
  /\ grace' = [grace EXCEPT ![ph] = 0]
  /\ UNCHANGED <<doc, raised, world, local, faults, fresh, torn>>

-------------------------------------------------------------------------------
(* suppress, from whichever process: list the waiting jobs, then save each.     *)

ListWaiting(p) ==
  LET js == {j \in Jobs : PhoneOf[j] = PhoneOf[cur[p]] /\ doc[j].status \in Waiting}
  IN /\ pc[p] = "list"
     /\ List(p, js, IF js = {} THEN "idle" ELSE "suppress")
     /\ cur' = IF js = {} THEN [cur EXCEPT ![p] = NoJob] ELSE cur
     /\ UNCHANGED <<store, world, faults, torn, grace>>

SuppressJob(p, j) ==
  /\ pc[p] = "suppress"
  /\ held[p][j] # Absent
  /\ Write(p, j, [held[p][j] EXCEPT !.status = "suppressed", !.due = FALSE])
  /\ held' = [held EXCEPT ![p] = [@ EXCEPT ![j] = Absent]]
  /\ IF HeldJobs(p) = {j}
       THEN pc' = [pc EXCEPT ![p] = "idle"] /\ cur' = [cur EXCEPT ![p] = NoJob]
       ELSE UNCHANGED <<pc, cur>>
  /\ UNCHANGED <<dnc, raised, world, faults, grace>>

-------------------------------------------------------------------------------
(* The loop.  A tick lists the stale jobs and expires each, then lists the due  *)
(* jobs and dispatches each; a list that comes back empty is not a step.        *)

ListStale ==
  LET js == {j \in Jobs : Stale(doc[j])}
  IN /\ pc[Loop] = "idle"
     /\ js # {}
     /\ List(Loop, js, "tick")
     /\ UNCHANGED <<store, world, cur, faults, torn, grace>>

\* expire_stale: the last attempt failed, as the listing had it.
ExpireStale(j) ==
  /\ pc[Loop] = "tick"
  /\ held[Loop][j].status \in Live
  /\ \E job \in AfterAttempt(j, WithLast(held[Loop][j], "no_contact"), "no_contact") :
       /\ Write(Loop, j, job)
       /\ held' = [held EXCEPT ![Loop] = [@ EXCEPT ![j] = job]]
  /\ pc' = [pc EXCEPT ![Loop] = "after"]
  /\ cur' = [cur EXCEPT ![Loop] = j]
  /\ UNCHANGED <<dnc, raised, world, faults, grace>>

\* due
ListDue ==
  LET js == {j \in Jobs : doc[j].status \in Waiting /\ doc[j].due}
  IN /\ pc[Loop] = "idle"
     /\ js # {}
     /\ List(Loop, js, "tick")
     /\ UNCHANGED <<store, world, cur, faults, torn, grace>>

-------------------------------------------------------------------------------
(* dispatch, by the loop or by dial_now.  The copy is the caller's.             *)

\* The policy, the deadline and the do-not-call list, read once, before the dial.
Gate(p, j) ==
  /\ \/ pc[p] = "gate" /\ cur[p] = j
     \/ p = Loop /\ pc[p] = "tick" /\ held[p][j].status \in Waiting
  /\ cur' = [cur EXCEPT ![p] = j]
  /\ LET Stop(job) == held' = [held EXCEPT ![p] = [@ EXCEPT ![j] = job]] /\ pc' = [pc EXCEPT ![p] = "save"]
     IN \/ /\ j \in expired
           /\ Stop([held[p][j] EXCEPT !.status = "cancelled", !.due = FALSE])
        \/ /\ j \notin expired
           /\ Listed(PhoneOf[j])
           /\ Stop([held[p][j] EXCEPT !.status = "suppressed", !.due = FALSE])
        \/ /\ j \notin expired  \* policy disabled, or the loop outside the window
           /\ ~Listed(PhoneOf[j])
           /\ Stop([held[p][j] EXCEPT !.due = FALSE])
        \/ /\ j \notin expired
           /\ ~Listed(PhoneOf[j])
           /\ pc' = [pc EXCEPT ![p] = IF p = Loop THEN "count" ELSE "dial"]
           /\ UNCHANGED held
  /\ UNCHANGED <<store, world, faults, ghost>>

\* Mutated: one call over the cap.
CountOneMore(p) ==
  /\ pc[p] = "count"
  /\ IF DailyCount(PhoneOf[cur[p]]) > DailyCap
       THEN Change(p, [Mine(p) EXCEPT !.due = FALSE], "save")
       ELSE pc' = [pc EXCEPT ![p] = "dial"] /\ UNCHANGED held
  /\ UNCHANGED <<store, world, cur, faults, ghost>>

\* The daily cap: the loop only.
Count(p) ==
  /\ pc[p] = "count"
  /\ IF DailyCount(PhoneOf[cur[p]]) >= DailyCap
       THEN Change(p, [Mine(p) EXCEPT !.due = FALSE], "save")
       ELSE pc' = [pc EXCEPT ![p] = "dial"] /\ UNCHANGED held
  /\ UNCHANGED <<store, world, cur, faults, ghost>>

PlaceCall(p) ==
  /\ Len(dials) < MaxDials
  /\ dials' = Append(dials, [job |-> cur[p], by |-> p, state |-> "placed"])
  /\ grace' = IF PhoneOf[cur[p]] \in dnc
                THEN [grace EXCEPT ![PhoneOf[cur[p]]] = @ - 1] ELSE grace

DialCallee(p) ==
  /\ pc[p] = "dial"
  /\ PlaceCall(p)
  /\ Change(p, [WithAttempt(Mine(p), "unknown", TRUE) EXCEPT !.status = "dialing"], "save")
  /\ UNCHANGED <<store, expired, inbox, folded, cur, faults, fresh, torn>>

\* The dialer raises; what it was asked to start may have started all the same.
DialFails(p) ==
  /\ pc[p] = "dial"
  /\ \E job \in AfterAttempt(cur[p], WithAttempt(Mine(p), "no_contact", FALSE), "no_contact") :
       Change(p, job, "save_after")
  /\ \/ UNCHANGED <<dials, grace, torn>>
     \/ PlaceCall(p) /\ torn' = torn \cup {cur[p]}
  /\ UNCHANGED <<store, expired, inbox, folded, cur, faults, fresh>>

AssistantMissing(p) ==
  /\ pc[p] = "dial"
  /\ Change(p, [Mine(p) EXCEPT !.status = "failed", !.due = FALSE], "save")
  /\ UNCHANGED <<store, world, cur, faults, ghost>>

-------------------------------------------------------------------------------
(* Saves and what follows an attempt.                                           *)

Save(p) ==
  /\ pc[p] = "save"
  /\ Write(p, cur[p], Mine(p))
  /\ Leave(p)
  /\ UNCHANGED <<dnc, raised, world, faults, grace>>

SaveThen(p) ==
  /\ pc[p] \in {"save_after", "save_opt_out"}
  /\ Write(p, cur[p], Mine(p))
  /\ pc' = [pc EXCEPT ![p] = IF @ = "save_after" THEN "after" ELSE "opt_out"]
  /\ UNCHANGED <<dnc, raised, world, cur, held, faults, grace>>

\* What p has still to do about the outcome it has in hand.
Owed(p) ==
  LET listing == \/ pc[p] \in {"save_opt_out", "opt_out"}
                 \/ pc[p] \in {"save_after", "after"} /\ Suppresses(LastOutcome(Mine(p)))
      ticket  == pc[p] = "after" /\ Unreachable(cur[p], Mine(p))
  IN {cur[p]} \X ((IF listing THEN {"listing"} ELSE {}) \cup (IF ticket THEN {"ticket"} ELSE {}))

\* The rest of _after_attempt without an opt-out: an unreachable lead becomes a ticket,
\* or on_ticket raises and nobody hears of it.
AfterSave(p) ==
  /\ pc[p] = "after"
  /\ ~Suppresses(LastOutcome(Mine(p)))
  /\ \/ /\ raised' = IF Unreachable(cur[p], Mine(p)) /\ raised[cur[p]] < 2
                       THEN [raised EXCEPT ![cur[p]] = @ + 1] ELSE raised
        /\ UNCHANGED faults
     \/ /\ Unreachable(cur[p], Mine(p))
        /\ Fails(Owed(p))
        /\ UNCHANGED raised
  /\ Leave(p)
  /\ UNCHANGED <<doc, dnc, world, ghost>>

\* The callee asked not to be called, or is not who was meant: suppress.
OptOut(p) ==
  /\ \/ pc[p] = "after" /\ Suppresses(LastOutcome(Mine(p)))
     \/ pc[p] = "opt_out"
  /\ ListNumber(p, PhoneOf[cur[p]])
  /\ pc' = [pc EXCEPT ![p] = "list"]
  /\ UNCHANGED <<doc, raised, world, cur, held, faults, fresh, torn>>

-------------------------------------------------------------------------------
(* What the worker reports.                                                     *)

\* Mutated: a late call.started takes a finished job back in progress.
OnCallStartedAlways(h, m) ==
  LET j == dials[m.call].job
  IN /\ pc[h] = "idle"
     /\ m \in inbox
     /\ m.kind = "started"
     /\ inbox' = inbox \ {m}
     /\ folded' = folded \cup {m.call}
     /\ Take(h, j, [doc[j] EXCEPT !.status = "in_progress"], "save")
     /\ UNCHANGED <<store, expired, dials, faults, torn, grace>>

\* hub.on_event for call.started.
OnCallStarted(h, m) ==
  LET j == dials[m.call].job
  IN /\ pc[h] = "idle"
     /\ m \in inbox
     /\ m.kind = "started"
     /\ inbox' = inbox \ {m}
     /\ folded' = folded \cup {m.call}
     /\ IF doc[j].status = "dialing"
          THEN Take(h, j, [doc[j] EXCEPT !.status = "in_progress"], "save")
          ELSE UNCHANGED <<pc, cur, held, fresh>>
     /\ UNCHANGED <<store, expired, dials, faults, torn, grace>>

(* Whether the call record says "outbound" yet: it does once call.started is    *)
(* folded, and may or may not while that event is still on its way.             *)
FoldedOutbound(k) ==
  IF k \in folded THEN {TRUE}
  ELSE IF \E m \in inbox : m.kind = "started" /\ m.call = k THEN {TRUE, FALSE} ELSE {FALSE}

(* hub.on_event for call.ended, then on_call_ended.  An outcome recorded        *)
(* mid-call wins over the event's; a ticket raised on the call makes a contact  *)
(* of a call without one.                                                       *)
OnCallEnded(h, m) ==
  LET j   == dials[m.call].job
      o   == IF LastOutcome(doc[j]) # "unknown" THEN LastOutcome(doc[j]) ELSE m.outcome
  IN /\ pc[h] = "idle"
     /\ m \in inbox
     /\ m.kind = "ended"
     /\ inbox' = inbox \ {m}
     /\ \/ /\ TRUE \in FoldedOutbound(m.call)
           /\ doc[j].status \in Live
           /\ \E result \in {o} \cup (IF o = "no_contact" THEN {"contact"} ELSE {}) :
                \E job \in AfterAttempt(j, WithLast(doc[j], o), result) :
                  Take(h, j, job, "save_after")
        \/ /\ FALSE \in FoldedOutbound(m.call) \/ doc[j].status \notin Live
           /\ UNCHANGED <<pc, cur, held, fresh>>
     /\ UNCHANGED <<store, expired, dials, folded, faults, torn, grace>>

\* worker_outcome: any status; the last attempt, whichever call it belongs to.
WorkerOutcome(h, m) ==
  LET j == dials[m.call].job
  IN /\ pc[h] = "idle"
     /\ m \in inbox
     /\ m.kind = "outcome"
     /\ inbox' = inbox \ {m}
     /\ Take(h, j, WithLast(doc[j], m.outcome),
             IF m.outcome = "opt_out" THEN "save_opt_out" ELSE "save")
     /\ UNCHANGED <<store, expired, dials, folded, faults, torn, grace>>

-------------------------------------------------------------------------------
(* The worker and its call.  emit publishes concurrently and gives up silently, *)
(* so messages come in any order, and one that is lost is one nobody takes; a   *)
(* dispatch that is lost, or a worker that dies, is a call that goes no further.*)

Progress(k, from, to, ms) ==
  /\ dials[k].state \in from
  /\ dials' = [dials EXCEPT ![k].state = to]
  /\ inbox' = inbox \cup ms
  /\ UNCHANGED <<store, expired, folded, local, faults, ghost>>

StartCall(k) ==
  Progress(k, {"placed"}, "up", {[kind |-> "started", call |-> k, outcome |-> "unknown"]})

ReportOutcome(k) ==
  \E o \in Spoken :
    Progress(k, {"up"}, "reported", {[kind |-> "outcome", call |-> k, outcome |-> o]})

EndCall(k) ==
  \E o \in {"no_contact", "unknown"} :
    Progress(k, {"up", "reported"}, "over", {[kind |-> "ended", call |-> k, outcome |-> o]})

-------------------------------------------------------------------------------
(* Time.  Handlers take seconds, a retry gap and stale_dial_min take minutes:   *)
(* neither passes while a process holds the document.                           *)

BecomeDue(j) ==
  /\ Unheld(j)
  /\ doc[j].status \in Waiting
  /\ ~doc[j].due
  /\ doc' = [doc EXCEPT ![j].due = TRUE]
  /\ UNCHANGED <<dnc, raised, world, local, faults, ghost>>

BecomeStale(j) ==
  /\ Unheld(j)
  /\ doc[j].status \in Live
  /\ ~doc[j].aged
  /\ doc' = [doc EXCEPT ![j].aged = TRUE]
  /\ UNCHANGED <<dnc, raised, world, local, faults, ghost>>

DeadlinePasses(j) ==
  /\ j \in Deadlined \ expired
  /\ expired' = expired \cup {j}
  /\ UNCHANGED <<store, dials, inbox, folded, local, faults, ghost>>

\* The operations of ps end where they are, and the documents stay.
Stop(ps) ==
  /\ \E p \in ps : pc[p] # "idle"
  /\ Fails(UNION {Owed(p) : p \in ps})
  /\ torn' = torn \cup {cur[p] : p \in {q \in Dispatchers \cap ps :
                                pc[q] = "save" /\ Mine(q).status = "dialing"}}
  /\ pc' = [p \in Proc |-> IF p \in ps THEN "idle" ELSE pc[p]]
  /\ cur' = [p \in Proc |-> IF p \in ps THEN NoJob ELSE cur[p]]
  /\ held' = [p \in Proc |-> IF p \in ps THEN [j \in Jobs |-> Absent] ELSE held[p]]
  /\ fresh' = fresh \ (ps \X Jobs)
  /\ UNCHANGED <<store, world, grace>>

\* The API process restarts.
Restart == Stop(Proc)

\* Something an operation awaits raises; the loop's tick ends with it, and a handler's
\* caller logs it or answers 500.
Raise(p) == Stop({p})

-------------------------------------------------------------------------------
Dispatch(p) ==
  \/ \E j \in Jobs : Gate(p, j)
  \/ Count(p) \/ DialCallee(p) \/ DialFails(p) \/ AssistantMissing(p)

Persist(p) == Save(p) \/ SaveThen(p) \/ AfterSave(p) \/ OptOut(p) \/ ListWaiting(p)
              \/ \E j \in Jobs : SuppressJob(p, j)

Request(r) ==
  \E j \in Jobs : Schedule(r, j) \/ Cancel(r, j) \/ DialNow(r, j) \/ Suppress(r, j)

Handle(h) ==
  \E m \in inbox : OnCallStarted(h, m) \/ OnCallEnded(h, m) \/ WorkerOutcome(h, m)

Worker(k) == StartCall(k) \/ ReportOutcome(k) \/ EndCall(k)

Next ==
  \/ ListStale
  \/ \E j \in Jobs : ExpireStale(j)
  \/ ListDue
  \/ \E p \in Dispatchers : Dispatch(p)
  \/ \E p \in Proc : Persist(p)
  \/ \E r \in Requests : Request(r)
  \/ \E ph \in Phones : Unsuppress(ph)
  \/ \E h \in Handlers : Handle(h)
  \/ \E k \in DOMAIN dials \cap (1..MaxWorkers) : Worker(k)
  \/ \E j \in Jobs : BecomeDue(j) \/ BecomeStale(j) \/ DeadlinePasses(j)
  \/ Restart
  \/ \E p \in Fallible : Raise(p)

Spec == Init /\ [][Next]_vars

-------------------------------------------------------------------------------
(* Properties.                                                                  *)

TypeOK ==
  /\ doc \in [Jobs -> Job]
  /\ dnc \subseteq Phones
  /\ expired \subseteq Jobs
  /\ dials \in Seq(Dial)
  /\ inbox \subseteq Message
  /\ \A m \in inbox : m.call \in DOMAIN dials
  /\ folded \subseteq DOMAIN dials
  /\ raised \in [Jobs -> 0..2]
  /\ pc \in [Proc -> PC]
  /\ cur \in [Proc -> Jobs \cup {NoJob}]
  /\ held \in [Proc -> [Jobs -> Job]]
  /\ faults \in Seq(SUBSET (Jobs \X FollowUps))
  /\ Len(faults) <= MaxFaults
  /\ fresh \subseteq Proc \X Jobs
  /\ torn \subseteq Jobs
  /\ grace \in [Phones -> Int]

(* A document never records more attempts than max_attempts, and one that may   *)
(* still be dialled has an attempt left, however the operations on it overlap:  *)
(* dispatch itself never looks at max_attempts.                                 *)
AttemptsWithinLimit ==
  \A j \in Jobs :
    /\ Len(doc[j].attempts) <= MaxAttempts
    /\ doc[j].status \in Waiting => Len(doc[j].attempts) < MaxAttempts

(* A job that is dialing or in progress has an attempt with a call id behind    *)
(* it.  expire_stale skips a job without attempts, so one that lost them would  *)
(* stay on the line forever.                                                    *)
LiveJobHasCall ==
  \A j \in Jobs :
    doc[j].status \in Live =>
      /\ doc[j].attempts # <<>>
      /\ doc[j].attempts[Len(doc[j].attempts)].called

Called(job) == Cardinality({i \in DOMAIN job.attempts : job.attempts[i].called})
CallsTo(js) == {k \in DOMAIN dials : dials[k].job \in js}
Unsaved(j) ==
  \E p \in Dispatchers : pc[p] = "save" /\ cur[p] = j /\ held[p][j].status = "dialing"

(* The attempts of a job are exactly the calls placed for it, unless one        *)
(* operation overwrote another's save, or the process died or the dialer raised *)
(* between the call and its save.                                               *)
LedgerExact ==
  \A j \in Jobs \ torn :
    ~Unsaved(j) => Called(doc[j]) = Cardinality(CallsTo({j}))

(* The loop never calls a number more often in a day than the cap, whatever     *)
(* else dials it, as long as no attempt at the number has been lost; and once   *)
(* the number is on the do-not-call list, only the dispatches that were already *)
(* past their check can still call it, and each of them once (dispatch,         *)
(* suppress).                                                                   *)
DialsBounded ==
  \A ph \in Phones :
    /\ LET js == {j \in Jobs : PhoneOf[j] = ph}
       IN js \cap torn = {} =>
            Cardinality({k \in CallsTo(js) : dials[k].by = Loop}) <= DailyCap
    /\ ph \in dnc => grace[ph] >= 0

(* An unreachable lead gets one ticket, unless its job was overwritten.         *)
OneTicket == \A j \in Jobs \ torn : raised[j] <= 1

(* Only a process that writes back a copy somebody has written past can change  *)
(* the status of a job that is finished.                                        *)
FinalIsFinal ==
  [][\A j \in Jobs :
       doc[j].status \in Final /\ doc'[j].status # doc[j].status =>
         \E p \in Proc : held[p][j] # Absent /\ <<p, j>> \notin fresh]_vars

\* p has a copy of j that it may still save.
StillSaves(p, j) ==
  /\ held[p][j] # Absent
  /\ pc[p] \notin {"opt_out", "list"}
  /\ ~(pc[p] = "after" /\ cur[p] = j)

Outdated == {j \in Jobs : \E p \in Proc : StillSaves(p, j) /\ <<p, j>> \notin fresh}

(* Every call follows the course the dialler promises it (CallLifecycle): from  *)
(* the queue to the line and back, an attempt at a time, until it is finished,  *)
(* whatever the dashboard, the loop and the worker do at the same time; only a  *)
(* process that saves a copy somebody has written past takes it off that course *)
(* (_save, dispatch, _after_attempt, on_call_started, on_call_ended).           *)
Lifecycle ==
  INSTANCE CallLifecycle
    WITH status   <- [j \in Jobs |-> doc[j].status],
         tries    <- [j \in Jobs |-> Len(doc[j].attempts)],
         outdated <- Outdated
LifecycleImplemented == Lifecycle!LifecycleSpec

Listing(ph) ==
  \E p \in Proc : pc[p] \in {"list", "suppress"} /\ PhoneOf[cur[p]] = ph

(* What the dashboard says after a suppression, "<number> will not be called"   *)
(* (outbound.tsx:76): no call is placed to a listed number once the suppression *)
(* has returned.                                                                *)
ConfirmedNeverCalled ==
  [][Len(dials') > Len(dials) =>
       LET ph == PhoneOf[dials'[Len(dials')].job] IN ph \notin dnc \/ Listing(ph)]_vars

(* What expire_stale says it does, "Fail dials the worker never reported back   *)
(* on": it fails none whose call.started has been folded.                       *)
ExpiresOnlySilentDials ==
  [][\A j \in Jobs : ExpireStale(j) =>
       ~\E k \in folded : dials[k].job = j /\ dials[k].state \in {"up", "reported"}]_vars

(* Fairness: the loop keeps ticking, and every tick begins with expire_stale;   *)
(* what has begun goes on; ten minutes pass even while requests keep coming,    *)
(* for each ends in seconds.  Nothing makes the worker report or its messages   *)
(* arrive.                                                                      *)
Fairness ==
  /\ SF_vars(ListStale)
  /\ WF_vars(\E j \in Jobs : ExpireStale(j))
  /\ \A p \in Dispatchers : WF_vars(Dispatch(p))
  /\ \A p \in Proc : WF_vars(Persist(p))
  /\ \A j \in Jobs : SF_vars(BecomeStale(j))

FairSpec == Spec /\ Fairness

(* No job stays dialing or in progress for ever: not when the worker dies, nor  *)
(* when its messages are lost or reordered, nor when a handler writes its copy  *)
(* back over what expire_stale saved.                                           *)
EveryCallSettles == \A j \in Jobs : doc[j].status \in Live ~> doc[j].status \notin Live

OptOutTaken(j) ==
  \E h \in Handlers :
    /\ cur[h] = j
    /\ \/ pc[h] = "save_opt_out"
       \/ pc[h] = "save_after" /\ LastOutcome(Mine(h)) \in {"opt_out", "wrong_number"}

\* The n-th fault, or a later one, cut short what follows an outcome of job j.
CutShort(j, what, n) == \E i \in DOMAIN faults : i >= n /\ <<j, what>> \in faults[i]

(* Once a handler has the callee's opt-out in hand, the number gets on the      *)
(* list, unless the process stops or an await of that handler raises before it  *)
(* does; and a lead that could not be reached gets its ticket, unless what      *)
(* follows the save is cut short or on_ticket raises (_after_attempt).  Nothing *)
(* takes either up again.                                                       *)
OutcomeActedOn ==
  /\ \A j \in Jobs, n \in 0..MaxFaults :
       OptOutTaken(j) /\ Len(faults) = n
         ~> \/ PhoneOf[j] \in dnc
            \/ CutShort(j, "listing", n + 1)
  /\ \A j \in LeadJobs :
       doc[j].status = "exhausted" ~> raised[j] > 0 \/ CutShort(j, "ticket", 1)
===============================================================================
