# A verification project for the Parlio agent platform

Parlio answers and places telephone calls for small businesses. This directory
holds TLA+ modules that model the parts of it whose correctness depends on the
order of events, TLC configurations that check them, and TLAPS proofs.

## 1. The system

One core API (`apps/api`), one process per deployment with a single asyncio
loop, keeps all state in Postgres: relational tables for calls, tickets and
contacts, and *tenant documents* (`put_doc`, `get_doc`, `list_docs`,
`delete_doc`, db/postgres.py:1182-1239) for everything else. A document is
read and written whole; there is no version, lock or compare-and-set. Every
`await` in a service lets every other request, loop and event handler run, so
*read, await, write the copy back* is where this system can go wrong, and what
the modules here split at.

Voice workers (`apps/voice-worker`) are separate processes, one job per call.
They report by events (a Redis stream, or an HTTP post when the stream is
down) and by direct posts. The web dashboard drives the API. Loops inside the
API process sweep outbound jobs, reminders, connector retries, SLA deadlines,
number activation and trials.

| component | state | operations | hard behaviour | what makes it correct |
|---|---|---|---|---|
| Outbound dialler (outbound.py, routes/outbound.py) | jobs, do-not-call list, policy, leads | schedule, cancel, dial now, suppress, sweep (expire, dispatch), call started / ended, outcome post | overlapping copies of one job; lost and reordered worker events; dials that raise but ring; long calls taken for lost | attempts bounded and recorded; cap kept; listed numbers not called; finished jobs stay finished; no job live for ever |
| Call events (store.py, db/postgres.py, main.py) | event ids, call record | publish, consume, ingest, fold, close a dead call | redelivery, reordering, crash between fold and side effects, first events side by side | each event folded once; the record is the fold of its events; each effect at most once |
| Live board, text after a call (live.py, messaging.py) | calls on the board, recently ended; messages | on_event, hang up, on_call_ended | late events, simultaneous ends | board and record agree; one text per end |
| Post-call pipeline, hub (postcall.py, integrations.py) | in-memory queue | enqueue, run, on_event | lost with the process | each ended call analysed |
| Payments (payments.py) | payment documents; sessions and refunds at the provider | request link, send, cancel, refund, webhook | webhook against send, cancel and refund; redelivered webhooks; two refunds; restart between provider and save | what was charged reads paid; refunds recorded are refunds made, and do not exceed the payment; one open link per charge |
| Verification (payments.py) | attempt documents | verify | simultaneous answers | attempts limited |
| Inbox and tickets (inbox.py, tickets.py) | one conversation, its ticket | inbound, assistant's turn, reply, update, sweep; ticket update, escalate, mirror both ways | a turn of the assistant across a human's reply; the two mirrors crossing; update against update | a taken conversation stays taken; closed conversations have no open ticket; resolved hook once |
| Connectors (connectors.py) | connectors, sync jobs | dispatch, run, retry, retry loop, test, patch, delete | stale listings, crash after push | a payload is pushed once per success; switching off and deleting stand; every retry comes to an end, unless newer jobs hide it |
| Calendar (calendar.py) | bookings, events at the provider | availability, book, reschedule, cancel, reassign, answer | check, then create; a change fails half way; two ways of asking whether a time is free | no double booking; every booking has its one event; what is offered can be had, what can be had is offered up to the limit |
| Reminders (reminders.py) | reminders, one booking | sweep, send, reply | reply and cancellation against send | for a cancelled booking no more is sent than what was under way; a reply stops the rest |
| Phone numbers (billing.py) | pool, tenants' numbers, routing | buy, provision, activate, return, release | two takers, crash between delete and put | a number has one owner; none is lost; reviews end |
| Trials, subscriptions (billing.py) | one subscription | sweep, plan, checkout, webhook, staff | sweep against webhook | a paying tenant is not paused or closed; notices once and in order |
| Invoices and credits (billing.py) | the period, credits, invoices, what Stripe was told | read, close, grant | closed by whoever reads, in six steps without a lock | every call is billed once; the sums add up |
| Transfer engine (worker transfer.py, tools.py, agent.py) | one transfer, who is in the room | refer or dial, hold, brief, confirm, undo, leave | anyone hangs up at any step; requests to the media server fail | the caller is never left on hold or alone |
| SIP admission (sip.py, agent.py, integrations.py) | in-memory guard | admit, decline, fail open, two releases | release twice; dead workers; restarts; a hang-up that does not reach the call | concurrent calls within the trunk's limit |
| Live supervision (live.py, worker supervisor.py) | who handles the call, on the board and at the worker; the assistant's audio | join, leave, take over, hand back, hang up | the board is written after the send; a takeover waits for speech to stop | the caller has the assistant or a person; the board names that person |
| Approvals (live.py, worker tools.py) | approval document | ask, poll, wait, decide, expire | two deadlines, answers and expiry on loaded copies | what the caller was told stands |
| Assistant configuration (routes/dashboard.py, improve.py, qa.py, db/postgres.py, worker config_client.py) | versions of the configuration, proposals, a cloned voice; the workers' cached copy | Studio save, block a caller, approve, reject, activate or delete a voice, roll back; resolve a number | everybody reads it whole and puts it back whole; a fetch against an invalidation | what the owner decided is in it, once; no call gets an old copy for long |
| Contacts, notifications, analytics, onboarding, admin, support, front-ends | records and views | CRUD | little of their own | see PROJECT.json |

What is hard in each, at its line, is listed under "hazards" in PROJECT.json.

## 2. Modules and plan

| module | of | composed in |
|---|---|---|
| `Outbound`, `CallLifecycle`, `OutboundProofs` | the dialler (section 3); `CallLifecycle` is the course of a call, the abstract specification `Outbound` implements | `MCOutbound` |
| `CallEvents`, `EventLedger`, `CallEventsProofs` | events and what follows them (section 4); `EventLedger` is the abstract specification `CallEvents` implements | `MCCallEvents` |
| `Payments`, `Verification`, `Inbox`, `Subscriptions`, `Invoices`, `Bookings`, `Reminders`, `Transfer`, `Admission`, `Supervision`, `Approvals`, `Slots`, `Studio` | one service each (section 5) | `MCServices` |
| `Connectors`, `Numbers` | services with a loop that has to bring something to an end (section 5) | `MCLoops` |
| `AppointmentsProofs` (Bookings, Reminders, Slots), `LiveProofs` (Payments, Verification, Admission, Transfer, Approvals, Supervision), `DeskProofs` (Inbox, Studio), `BillingProofs` (Subscriptions, Invoices), `LoopsProofs` (Numbers, Connectors, and the two together), `ServicesProofs` (the thirteen services together) | their theorems (section 6) | |

The services of `MCServices` and `MCLoops` share no state in the code: each has
documents of its own and none waits for another. The composition therefore
interleaves none of them: `focus` is chosen in the initial state and only that
service moves. What does interact is composed inside one module: an inbox
conversation and its ticket, bookings with the provider's calendar and the
customer's answers, payments with the provider, the worker of a call with the
guard that admitted it and with the supervisor who takes it over, a call's
events with the queue, board and ticket that
follow them.

Still worth doing: an abstract ledger of payments that Payments implements up to
its lost writes; and the alerts and incidents of operations (ops.py), whose monitor
writes beside the staff.

## 3. Outbound

`Outbound.tla` models apps/api/parlio_api/outbound.py, its routes, and the part
of the worker that reports on an outbound call.

**State.** `doc` is the stored jobs; `dnc` the do-not-call list; `raised` the
"outbound_unreachable" tickets per job; `dials` every call handed to the
dialer; `inbox` the worker's events and posts nobody has taken; `folded` the
calls whose `call.started` is in the call record. `pc`, `cur` and `held` are,
per process, where it is, its job, and the copies it has read. A process is the
sweep loop, a dashboard request or a handler of a worker message. `fresh`,
`torn` and `grace` are history: which copies are still current, which documents
lost an update, and how many dispatches were past the do-not-call check when a
number was listed.

**Correspondence.** An operation is cut at each await after which it uses
something it read before. `dispatch` is `Gate` (policy, deadline,
do-not-call), `Count` (loop only), `DialCallee` / `DialFails` /
`AssistantMissing`, `Save`; `_after_attempt` is `AfterAttempt` (the copy),
`SaveThen`, then `AfterSave`, where `on_ticket` may raise and is not heard of
(outbound.py:914), or `OptOut`; `suppress` is `ListNumber`,
`ListWaiting`, `SuppressJob` per job. A read and the pure computation that
follows it are one action. `OutboundLoop.tick` is `ListStale`, `ExpireStale`
per job, `ListDue`, `Gate` per job. Whatever an operation awaits may raise and end it
there (`Raise`): the loop's tick with it (outbound.py:1249-1255), a handler alone. A
restart ends all of them. `faults` lists these, each with what it cut short: a number
still to be listed, a ticket still to be raised (`Owed`).

**Abstractions.**
* Time is two flags: `due` (waiting, scheduled_at has come) and `aged` (live,
  last attempt older than stale_dial_min). Both rise only while no process
  holds the document: handlers take seconds, the gaps are minutes.
* Outcomes fall in five classes: unknown, no contact, contact, opt-out, wrong
  number. `_after_attempt` distinguishes no more.
* Policy switches, window, consent and destination are free choices where they
  are read, since settings can change at any time.
* Everything happens within one day: `_daily_count` counts every attempt.
* Left out: leads and ticket notes (they decide nothing about a job), the list
  limits of 500 and 5000 documents (a job behind 5000 newer ones is not listed by
  due or expire_stale), a deployment with several API processes.
* The model posts one outcome per call; the worker's tool can post more.

**Bounds.** `MaxDials` calls, of which the worker takes up `MaxWorkers`;
`MaxFaults` restarts, exceptions of the
processes in `Fallible` and tickets that raise; the outcomes in `Spoken`. Two dials with MaxAttempts 2
are enough for a retry to follow a first attempt, an outcome of the first call
to meet the second, and the limit to be reached. One request, one handler and
the loop make three overlapping copies of one job. Where a run switches the
deadlock check off, the system stops only because the dial bound is reached.

| run | instance | shows |
|---|---|---|
| race | 1 job, loop, request, handler, 2 dials | TypeOK; AttemptsWithinLimit; LiveJobHasCall; LedgerExact; LifecycleImplemented |
| numbers | 2 jobs to one number, cap 1, 1 fault | DialsBounded |
| handlers | 1 lead job with a deadline, two handlers and the loop, 1 fault | OneTicket |
| live | 1 lead job, 1 fault, fairness | EveryCallSettles; OutcomeActedOn |
| confirm | expected violation | a listed number called after the suppression returned |
| expire | expected violation | a call in progress expired by the sweep |

`LedgerExact`, the cap in `DialsBounded` and `OneTicket` hold for documents that lost no update;
the code gives no more than that, and `LifecycleImplemented` says exactly which writers
break the course of a job: those about to save a copy somebody has written past. It
reads every save as one step of `CallLifecycle` - entered, withdrawn, dialled,
answered, ended, with a retry or the end as the attempts left say - or, if the
saver's copy was overtaken, as `Overwritten`, which may take the job anywhere that
`AttemptsWithinLimit` and `LiveJobHasCall` allow. The mapping is the status and the
number of attempts of each document, and the jobs somebody has an outdated copy of
and may still save it (`Outdated`).

**Fairness.** The loop sleeps five seconds and ticks again whatever happened
(outbound.py:1249-1255), and a tick starts with expire_stale, so `ListStale` is
strongly fair: other listings may keep it from being enabled at any moment, but
not for ever. What has begun goes on (weak fairness per process). Time passes
(`BecomeStale`, strong, since requests that hold the document come and go).
Nothing is assumed of the worker, its messages or the user: EveryCallSettles
holds when every message is lost. Faults are finitely many: a job whose sweep raised
is settled by a later one. What follows its save is not taken up again, since the job
is then final: an opt-out or a ticket cut short is lost. OutcomeActedOn says that
only this loses one: it allows what a fault after the outcome was in hand cut short
of that very job.

**Findings.**
* `confirm`: dispatch reads the do-not-call list once, then awaits several
  times before it dials; the dashboard's "will not be called" is not quite so.
  `DialsBounded` gives the true bound: one call per dispatch under way.
* `expire`: expire_stale also fails a call in progress once its attempt is ten
  minutes old, and the number is called again while the first call is up.

## 4. CallEvents

`CallEvents.tla` models a call's events from the worker (events.py, agent.py,
tools.py) through the stream or the post (main.py `consume_events`,
routes/worker.py `ingest_event`) into the database (`apply_event`,
`fold_event`) and on to what follows: the post-call queue, the live board, the
ticket rebuilt from an intake and the text to the caller. `EventLedger.tla` is
what that path promises ("Idempotent on event_id"): each event folded once,
each analysis and rebuilt ticket at most once and only after its fold.

**State.** `phase` and `asked` are the worker's; `flight` the publishing tasks;
`posts` the POST /tickets under way. `stream` is what the group has not been
given, `batch` what it has been given and not acknowledged. `pc`, `ev`, `text`
are the API's processes: the consumer and the request handlers. `live`,
`recent`, `queue` are in its memory; `seen`, `rows`, `analysed`, `posted`,
`rebuilt`, `logged` in the database; `texted` is with the provider.
`overtaken`, `forgotten`, `crossed` are history and excuse what the code does
not promise: an answer folded after the end, an end the board has forgotten,
and a ticket the worker gave up on although the API made it.

**Correspondence.** A process goes `fold` (the INSERT into call_events), then
`folded`, or through `insert` when the SELECT found no row; `folded` is between
the commit and its return. An intake passes `Rebuild` and `hub`. `Effects` is
enqueue and the board, which no await separates; an end goes on with
`CheckText`, `SendText`, `LogText`, cut at the awaits of send_scenario. `Done`
is the return of the request, or the way to `Ack`.

What the code does that a reader may not expect, all of it in the model:
* Entries are read as new ones only (`">"`), so a delivered entry that a
  restart interrupts is never handled; likewise the effects of a committed fold.
* `xack` is outside the try: when it raises, the consumer ends (`stopped`).
* The key of `calls` is (id, started_at), and started_at is the event's own
  time: two first events handled together make two rows, and a later UPDATE
  by id overwrites both. `Split` calls are excused from RecordIsFold.
* xadd may raise although Redis took the entry: the event comes both ways.
* A declined call does not await its publishing tasks (agent.py:314): its
  end may be lost without any fault. EndSettles speaks of the analysis of other calls.

**Abstractions.** Of a record: started, answered, status; failed calls count as
ended. Transcripts, transfers, recordings, escalations, compliance, trunk
release, the dialler's hooks (in Outbound) and what follows an analysis are left
out. The post-call workers are a count of analyses owed per call. A call takes
at most one ticket, and a tool that is still waiting when the call ends emits
nothing. Both texts are switched on and the caller has not opted out; otherwise
fewer are sent. Transactions are READ COMMITTED, and the row lock makes one fold wait
for the other.

**Bounds.** One call: no action relates two calls but `RecentLimit`, which is 1
and counts each of a call's ends, and the properties are per call. One request
handler beside the consumer gives two concurrent transactions. `MaxDetours` is
the times xadd raises (2: two events of one call out of order, or a first event
against another), `MaxCloses` the hang-ups, `MaxFaults` restarts, failed
transactions, lost posts, refused texts. Deadlock is not checked: when the calls
are over and the bounds used up, the system has stopped.

| run | instance | shows |
|---|---|---|
| events | 1 call, 2 detours, 1 hang-up, 1 fault | TypeOK; AnalysedOnce; NoZombie; RecordIsFold; BoardMatchesRecord; TextsBounded; LedgerImplemented |
| tickets | 1 call that takes a ticket, 1 detour | TicketOnce |
| analysed | 1 call, 2 detours, 1 hang-up, fairness | EndSettles |
| texts | expected violation | two ends of one call both text the caller |

**Fairness.** Publishing goes on (the worker awaits `aclose`), and so do the
consumer's loop, every request and the post-call workers. The run has no
faults; with them EndSettles excuses itself, since a lost
event, a restart or a stopped consumer loses work for good.

**Finding.** `texts`: the check for a text already sent looks at stored messages
and the message is stored only after the provider has answered, so two ends of
one call handled together (call.ended and close_ghost_call's) text twice.
`TextsBounded` is the true bound: redelivery alone never repeats a text.

## 5. The services

All of these follow one pattern. A document is read at the start of an
operation; the operation awaits somebody (a provider, a calendar, a carrier, a
media server, the database); it then writes what it holds. `...Copy` or
`...Held` is what a process holds, `...Pc` where it is. A `...Fresh` set is
history: whose copy nobody has written past. `...Torn`, `...Raced`, `...Stale`
say that an operation nevertheless wrote such a copy. The properties are stated
*but for* those writes, because the code has neither versions nor locks and
promises no more; what they show is that this is the only way to lose the
property, whatever the order of requests, sweeps, webhooks, answers, failures
and restarts.

**Payments** (payments.py). `payDoc` is stored, `paySession`, `payRefunded` and
`payEvents` are the provider's: what became of the page, what it gave back,
and the events it has still to deliver, in any order and possibly again.
`request_link` is `PayFind` and `PayCreate` or `PayRefused`, `send_link`
`PayText`; `cancel`, `refund` and `handle_webhook` are a read (`PayCancel`,
`PayRefund`, `PayHook`), for a refund the provider's answer, and a save.
`PaymentAgrees`, `RefundsAgree` and `OneOpenLink` relate documents and provider.
An event of the payment delivered again after a full refund marks it paid
again (`payRepaid`); a second create for the same idempotency key with other
parameters is refused by Stripe (`PayRefused`). A refund that Stripe made and whose
answer is lost looks to `refund` like one that was refused (`PayRefundFails`): the
record keeps the old sum and a further refund is made on top, as the request has no
idempotency key. `RefundsAgree` then only says that the record never claims more than
was given back.

**Verification** (payments.py). Answers of several calls are checked at once;
`AnswersBounded` gives the true bound on a customer's attempts: the limit, and
one for each check that had counted before another was saved.

**Inbox** (inbox.py, tickets.py). One conversation and its first ticket. A
customer's message is filed, then answered by the assistant (`InRespond` may
raise a ticket, hand over, or both); people reply and update; each side tells
the other (`InSync`, `TkMirror`, then `InReflect`). `HumanKeepsThread`
and `TicketsAgree` are the properties. The
assistant's turn works on the conversation it read before the model answered: a
human reply meanwhile, which "pauses the AI", is overwritten and the assistant
is on again (`inTorn`, inbox.py:963-987).

**Connectors** (connectors.py). One connector and its sync jobs.
`dispatch` and a forced retry push from a request, `RetryLoop` from a listing;
the other system's answer can be lost. `SyncFaithful`: a job is pushed once but
for lost answers, forced retries, restarts and overtaken copies, and what the
owner made of the connector stands. `JobSettles` is its liveness, a part of
`LoopsSettle`. `retry_due` looks at the newest 500 jobs of all tenants, whatever their
status (connectors.py:1227); `cxNewer` counts those made since a job, up to
`CxLimit`, and a job with so many before it is never tried again, which is the one
exception of `JobSettles`.

**Numbers** (billing.py). One number at the carrier, in the pool and at its
tenants, and the routing row that calls follow. `NumberHasOneOwner`: at rest it
has exactly one document as long as the platform pays for it, and its calls go
to the tenant that has it. A purchase can fail after the carrier has taken the order
(the answer is lost, the order is not found yet, routing or the edge raises), a
release after the number is gone: the operation ends there, and the platform pays for
a number it has no document of, or has a document of a number it has not (`nmCut`,
with the restarts half way; the exception of the property). `ReviewEnds`, the other
part of `LoopsSettle`, is the liveness of `NumberActivationLoop`. A sweep ends early on
any exception but an HTTP error, and lists the newest thousand: `NmHide` is a time in
which the sweeps do not come to this number, and `ReviewEnds` is about numbers that
the sweeps come to in the end, with finitely many errors for the number itself.

**Subscriptions** (billing.py). `SbUpdated` is what each request or webhook
makes of the copy it read, `SbSwept` what the trial sweep does, `SbRolled` the
period that is over. The clock counts steps of the trial's lifecycle.
`TrialEndsInOrder`: a tenant who has paid leaves the trial's lifecycle for good,
and an owner gets each notice once and in order.

**Invoices** (billing.py). Whoever reads a subscription whose period is over closes
it (`IvRead` to `IvSave`, `_roll_period` step by step): the calls are counted, the
overage reported, the credits listed and taken one by one, the invoice recorded,
and only then the document moves on. `CallsBilledOnce` says that each call that has
ended is counted in one period and that invoices, credits and the provider add up;
its exceptions are what the code does: two readers at once, or a restart, close a
period twice over or half; a call still up when its period is closed is in nobody's
bill (`ivMissed`); after a trial longer than its month, the new period starts at the
first of that month and counts the trial's last calls again (`IvTwice`); credits of
an account that is not served are taken without an invoice.

**Bookings** (calendar.py). A place is a calendar and a slot. `book` asks, makes
the event and files the document (`BkBook`, `BkMake`, `BkFile`); a change
deletes, makes anew and saves (`BkDelete`, `BkRemake`, `BkFile`), and each of
these can fail; the answer to a delete or a create may be lost and the calendar
have done it (`bkFailed`). A customer's answer writes the document whatever it says.
`BookingsAgree` relates documents and calendars.

**Reminders** (reminders.py). One booking and its reminders; the sweep's listing,
and for each reminder the look at the booking (`RmLook`, `RmDrop`), the text
(`RmSend`) and the write of the loop's copy (`RmSent`), any of which may raise and end
the sweep (`RmSweepFails`); the reply, the office. Between look and text the sweep
awaits the policy, the company's name and the opt-out list, and a booking cancelled
then is texted about all the same, where BUILD_PLAN.md:241 says none is "for cancelled
bookings". `RemindersHeed` gives the true bound: each time the booking ends, one such
text at most. `handle_reply` "1" also confirms a booking that was cancelled, and later
reminders are sent (`rmRevived`). That `RmSent` writes "sent" over a reminder that a
reply cancelled meanwhile is in the model and no property objects: the text had left.

**Transfer** (worker). `TransferEngine.run` over the plan: a cold transfer
refers, a warm one dials, holds, briefs and confirms; each step can find that
the caller or the person has gone, or that a request failed. `CallerNotStranded`.

**Admission** (sip.py, the worker's entrypoint, the hub). A place is taken before
a call is answered and given back twice. `TrunkWithinLimit` holds of the calls the
API admitted and still remembers: a worker that cannot ask answers all the
same; a restart forgets; and a supervisor's hang-up that cannot reach the room closes
the call on the API's side and gives its place back, with the worker perhaps on the
call still (`AdGhostHangup`, close_ghost_call). A place leaks when a worker dies, when
the last event of a call is lost, or when the API answers a worker that no longer
waits (`AdAdmitUnheard`); the property says that it leaks in no other way (`adLoose`).

**Supervision** (live.py, the worker's supervisor.py). `suBoard` is the API's
entry of the call, `suTaken` and `suAudio` are the worker's, `suWire` the frames
in between. `command` is its check (`SuCommand`), the send (`SuSend`,
`SuSendRaises`) and the board's write (`SuSent`); the worker's task of a takeover
is cut at the wait for the assistant's speech to stop (`SuHandle`, `SuMute`).
`SupervisorAgrees` says when board, worker and audio agree. They do not when
commands overlap, when a supervisor leaves without handing back (`leave` sends
nothing into the room: the worker is still taken over by somebody the board has
forgotten), or when a handback overtakes the wait of a takeover: the audio
goes off last, and the caller has nobody (`suCrossed`).

**Approvals** (live.py, routes/live.py, the worker's tools.py). `apDoc` is stored;
the worker's poll subscribes, reads and listens (`ApPoll`, `ApLook`, `ApHear`,
`ApListenOn`); an owner's tap loads and decides (`ApOpen`, `ApDecide`,
`ApPublish`); either may find it expired and say so. The approval's expiry and
the worker's own deadline come in either order. `ApprovalStands` relates what the
caller was told to the document for ever after.

**Slots** (calendar.py). The arithmetic of times: `SlFitting` walks over a day
as free_slots does, `SlFreeSlots` ends the walk at `limit` starts, `SlAllowed` and `SlFree` look at one start as `slot_allowed` and
`_free` do. `SlotsAgree` compares the two in both directions, over every choice of
length, grid, gap, notice, reach and emergency rule of the bounds, with a clock
and an event of somebody else's in between. What can be had is offered, up to the
limit: otherwise the offers are the soonest. Two cases are exceptions in the code
and in the property: availability asks for busy times without the gap, so a
start at the edge of the period asked for may be offered and then refused, and
`reschedule` does not ask about a length that is not a service's.

**Studio** (routes/dashboard.py, improve.py, qa.py, db/postgres.py, config_client.py).
`stVersions` is the history of one assistant's configuration. Each writer reads
(`StRead`), works and puts the whole back (`StWrite`, which is the transaction of
upsert_assistant); approve then saves the proposal (`StSave`), the deletion of a
voice its own record (`StFile`). A worker that finds nothing cached fetches and
then caches (`StResolve`, `StSet`); a save with numbers drops the copy (`StTell`).
`DecisionsStand`: at rest, an approved proposal is in once, an undecided or rejected
one is not, a voice in use exists. `CallsGetRecentConfig`: how old a cached copy
can be, and when a save with numbers can be undone by a fetch. Most writers pass no
numbers, so that what they change reaches calls only when the copy has run out,
where block_caller says "live for the next call" (routes/dashboard.py:521).

| run | instance | shows |
|---|---|---|
| services | `MCServices.cfg` | the safety properties above, of all services but Connectors and Numbers |
| loops | `MCLoops.cfg`, fairness | Connectors and Numbers: SyncFaithful, NumberHasOneOwner, LoopsSettle |

**Bounds.** Two or three processes of one service at a time: enough for one to
overtake another, and every property but AnswersBounded and TrunkWithinLimit is
about a pair. `...Moves` bounds the operations begun, restarts and repeated
deliveries (2 or 3 of them; a lost update takes two). Payments: two requests, an
amount of 2, so a refund can be partial. Verification: a limit of 2 and three calls,
so that two may be over it. Subscriptions: `SbClock` 4 reaches the closing of a
trial of length 1. Invoices: the clock counts half months, `IvClock` 4 reaches the
end of two periods, or of a trial of a month and a half and the period after it; two
readers, one call, two credits of which both are needed, and a restart. Bookings:
two bookings, two calendars, two slots. Transfer: a plan of up to three people.
Admission: two calls on a trunk of one and one restart. Supervision: two people, two
requests at once, two commands (a takeover, and a handback or a takeover by the
other) and a restart. Approvals: two taps and a restart. Studio: two requests, three
moves, an entry that lives one tick of a clock of two. Slots: a day of six steps
with hours 1 to 5, one event, and lengths, grid, gap and notice of up to two steps,
so that each is more and less than another. `SlLimit` is 3 (20 in the code), fewer
than the starts of such a day. Loops: one sync job with two attempts, of which one
newer one is enough to hide it (`CxLimit`, 500 in the code), two tenants and two
ids. Five bounds in the next-state relations of the MC modules stop following a
behaviour once its properties say nothing more: Payments after a lost write or an
overtaken search, Subscriptions after a lost write, Numbers after an overtaken or
half-done operation, Supervision once board and audio were both left behind, Studio
after a lost write or crossing decisions; and workers fetch only beside block_caller
and Studio saves (`StudioApart`). Invoices follows a period that was closed twice,
or cut, to the end of that closing (`IvTick`, `OneAtATime`). `MCServices` also names
the links of a charge and the calls of a trunk in the order in which they come up,
since they are interchangeable, asks for availability over the whole day or a part
in its middle, and tells states apart by the service that is followed (its VIEW: the
others stay where they start). `services` has about 1,090,000 distinct states,
`loops` about 128,000. Deadlock is not checked: when the moves are used up, the
system stops.

**Fairness** (`LoopsSpec`). `RetryLoop` and `NumberActivationLoop` are tasks of
the API that sleep and come again whatever happened, so their steps are
weakly fair; so is each step of a request under way, since everything it awaits
has a timeout; time passes (`CxTick`); the carrier decides on a number under
review. Nothing is assumed of the owner, of the other system's success, or
against restarts.

## 6. Proofs

`OutboundProofs.tla` proves, for every number of jobs, numbers, requests and
handlers and every bound:

* `TypeCorrect`: Spec => []TypeOK. Inductive with `CurOK`: a process in the
  middle of an operation has a job.
* `WithinLimit`: Spec => []AttemptsWithinLimit. The invariant `AttemptsInv`
  bounds the stored documents *and every copy held*: a stale copy is written
  back, so the stored bound alone is not inductive. A dispatcher between its
  gate and its dial holds a waiting copy, hence one with an attempt left.
* `LiveHasCall`: Spec => []LiveJobHasCall, from the same invariant.
* `FinalStays`: Spec => FinalIsFinal. `FinalInv` ties `fresh` to the documents:
  a fresh copy that is about to be saved was taken from a document that was
  not finished, and still is not.
* `ImplementsLifecycle`: Spec => LifecycleImplemented, by the refinement mapping of
  section 3, step by step: whatever is not a save stutters (`StepLifecycle`), and a save
  is a step of the course (`SaveLifecycle`). The invariant `CourseInv` says so before
  the save happens: a copy nobody has written past is at the stage of its document
  (`SameStage`), or at the stage one step of the course further (`OnCourse`) while its
  holder is about to save it; a copy being suppressed is still in the queue, and one
  being entered finds no document. A write by another makes the copies of that job
  outdated, which is when `CourseInv` stops saying anything of them. Where an
  outdated copy is saved, `AttemptsInv` of the next state gives the limits.
  LifecycleImplemented implies FinalIsFinal, which no run checks of its own.
* `OneTicketEach`: Spec => []OneTicket. `TicketInv`: of a job that lost no update,
  a document that is not exhausted has no ticket and nobody about to raise one; at
  most one process is about to, and then there is no ticket yet.
* `LedgerAlwaysExact`: Spec => []LedgerExact. `Tally`: the attempts that name a
  call, and the processes that have placed one and not saved it, are together as
  many as the calls placed. It takes `FreshTally`, that a copy nobody has written
  past has the document's calls, and the one it is about to save.
* `DialsAlwaysBounded`: Spec => []DialsBounded. `CapInv`: the loop's calls to a
  number are no more than the attempts recorded for it, but for the one it is
  saving, and it has one to spare when it is about to dial. The code adds up
  attempts over the jobs of a number; the invariant counts a set of pairs (job,
  position) instead, so that no induction over the jobs is needed. `GraceInv`: a
  listed number is granted at least the dispatches that are past its gate.

`CallEventsProofs.tla` proves, for every set of calls, any number of request
handlers and every bound:

* `TypeCorrect`: Spec => []TypeOK. Inductive with `ProcOK`: whoever handles an
  event has one, and the consumer's batch is not empty until it acknowledges.
* `AnalysedAtMostOnce`: Spec => []AnalysedOnce.
* `ImplementsLedger`: Spec => LedgerImplemented, by the refinement mapping that
  reads `folded` as `seen`.
* `OneTicketPerIntake`: Spec => []TicketOnce. `TicketStage` follows the intake:
  wherever it is - with a publishing task, in the stream, in a batch, with a
  process, folded - the worker has given up, and a ticket or a post of the API
  beside it means that the call is crossed.
* `NoCallRevived`: Spec => []NoZombie. `BoardInv`: a folded end is on its way to
  the board, remembered or forgotten, and nothing remembered is on the board.
* `RecordAlwaysFold`: Spec => []RecordIsFold. `RowInv`: every row of a call is
  keyed by an event folded into it as its first, so a fold finds at most the one
  row, unless the call is split; and a single row stays the fold.
* `TextsAlwaysBounded`: Spec => []TextsBounded. `TextInv`: every text is counted
  against an end that was handled to the end, and one process acts on an event.
* `BoardAlwaysMatches`: Spec => []BoardMatchesRecord. `KeptInv`, of runs without a
  fault: the consumer handles the head of its batch and acknowledges what is folded,
  so nothing of a call under way is lost; its call.started is on its way to the
  board or there, and the calls remembered are those that have ended.

`AnalysedAtMostOnce`, `ImplementsLedger` and `OneTicketPerIntake` rest on `DeliveryInv`. Counting the analyses
alone is not inductive: one must know that no second process stands before the
enqueue with the same event. So the invariant says that two transactions never hold one id
at `insert`, that an id at `insert` is not folded and an id past it is, that
no two processes are at `folded` with one event, and that an event which has
caused work is *spent*: folded, with nobody left at `folded` to cause it again.

The services' theorems hold for every size of their constants and every bound:

* `LiveProofs`, of Payments: PaymentAgrees, RefundsAgree and OneOpenLink. The invariant
  says that a *fresh* copy derives from the document as it is now, that whoever
  is about to save a copy that is not fresh will tear its request, and that of a
  request that lost no write at most one fresh refund stands between the
  provider and its save. Without the last, two refunds counted from one document
  would break RefundsAgree at the second save.
* `AppointmentsProofs`: BookingsAgree. An operation that was overtaken half way can
  only end in `bkRaced` or `bkFailed`; otherwise a booking nobody works on has
  exactly its document's event; one that is being moved has it at its old place,
  nowhere, or at the new one, as its stage says; and the place a fresh operation
  wants stays free. And RemindersHeed: a reminder still waiting under a booking
  that asked for another time belongs to a reply under way or cut short; and while the
  sweep is between its look and its text, the booking still stands or has ended once
  more than texts left for it. And SlotsAgree (`SlInv`): what is offered is what the walk finds among the events of
  that time, and an appointment lies in the hours, but for one of the exceptions. The
  walk and the test of one start agree because `_align` finds the least point of the
  grid that is not too early and the walk's steps stay on the grid; a clock that has
  moved on only takes starts away.
* `LiveProofs`, of the rest: AnswersBounded. The checks under way are counted with
  the answers saved; Cardinality is handled with FiniteSetTheorems.
  TrunkWithinLimit: the calls admitted and not forgotten hold a place, the
  count is that of the holders, and it is within the limit; who holds a place is up,
  has a last event under way, or is one of `adLoose`.
  CallerNotStranded: each stage says who may be in the room
  and who is kept from hearing; a held caller without a fault is in a stage that
  ends in unhold. ApprovalStands: nobody answers before the approval is stored; a
  copy that is current was taken from an open one; a decision published while
  the worker polls is in the document it reads or in the message it gets. And
  SupervisorAgrees: what the board says is one command behind what was sent, at
  most, and nobody takes the call from somebody who has it; so the last frame
  sent decides who the worker will have when it has read them all, unless one of
  them is a hang-up.
* `DeskProofs`: HumanKeepsThread and TicketsAgree (`InInv`). A copy nobody has written
  past switches the assistant on only if it is asked to; changes of the ticket that
  do not overlap find it as it was read; the hooks still owed are counted by the
  processes that resolved the ticket; a conversation that waits for a callback
  ticket has a handoff to its credit; and if a closed conversation has an open
  ticket, somebody is on the way to one of the two. DecisionsStand and
  CallsGetRecentConfig (`StInv`): what is about to be written is the version that
  was read, and its successor if nobody overtook it; while writers do not cross, the
  proposal's text is in the latest version from the approval's write on, and in none
  before; what a worker fetched or cached was the latest version within the life of
  an entry, and is no older than what the cache was last told of.
* `BillingProofs`: TrialEndsInOrder (`SbInv`). A document with a card on file has no
  trial's reason; a current copy never lacks the card or a notice, unless the trial
  is being extended; the sweep's notice is one the document had not, and what was
  sent is in the document, once. And CallsBilledOnce (`IvInv`), in parts: whoever
  closes a period has it as it is stored, unless another has closed it (`IvPeriods`);
  it has counted every call of the period that had ended, and of the others is known
  that they were missed (`IvCounts`), so a closing moves the first moment of the
  period past calls that are counted or missed and none that were counted before,
  but for those of a long trial (`IvBills`); the provider is one report ahead
  (`IvReports`); the credit still to be taken is on the list (`IvCovered`), the
  month has no invoice before its closing makes it (`IvInvoices`), and so taking and
  invoicing come to the plan and the calls (`IvAdds`). The last three hold of a
  closing that nobody shares and no restart cuts. The sums are folds over credits,
  months and calls; that a fold adds one element after the other, that a sum moves
  with a term and that it counts the terms that grew is proved in the same module,
  by induction over the size of subsets: the library's induction theorems take an
  operator, so the proofs use its least-element theorem (`WFMin`) for `<` on Nat.
* `LoopsProofs`: NumberHasOneOwner (`NmInv`). An operation half way has left behind
  exactly what its stage says, in the document, the carrier's stock and the routing; two
  half way, or one half way that was overtaken, can only end in `nmRaced` or
  `nmCut`. And SyncFaithful (`CxInv`): the pushes taken and the processes that may
  still push a job, or save it as one to push, are at most one together, and none
  while the stored job waits for a loop that has no good copy of it.

The runs of section 5 check these services side by side, under `ServicesSpec` and
`LoopsSpec`. `ServicesProofs` and the end of `LoopsProofs` carry the theorems over to
them. `ServicesImplement`: ServicesSpec implies the specification of each of the
thirteen services; a step moves the service followed, which is one of its own steps
(`StepOfFocus`), and leaves the variables of the others alone (`StepLeavesOthers`). The
bounds that the MC module adds only take steps away. `LoopsImplement` is the same
of the connector and the number, for the safety part of `LoopsSpec`, which is all that
is needed. From these follow `ServicesTypeCorrect` and `LoopsTypeCorrect`, and
`ServicesKeepPromises` and `LoopsKeepPromises`: every invariant that the runs
`services` and `loops` check is a theorem of the specification they check it of.

All these invariants were checked by TLC on the instances of the runs (those of
Outbound on `race`, `numbers` and `handlers`), and before they were proved. Two were
checked on larger instances as well: `InInv` with three processes, and `IvInv` with two
processes, two credits, two months, one call and a restart (1,247,572 states), and on
part of the graph of a longer instance with two calls.

The proofs rest on the assumptions named `...Assumption` of each module, which TLC
evaluates in every run. Every invariant and every refinement a passing run checks is
a theorem. Only model-checked: the liveness properties EveryCallSettles,
OutcomeActedOn, EndSettles and LoopsSettle, which are out of the prover's reach.

## 7. Not modelled

The components listed as not_modelled in PROJECT.json, with the reason for each.
The modules map the code whose correctness depends on order, which is a small
part of a platform of 47,000 lines: about half of it is the dashboard and the
marketing site; most of the API is records put back whole by one request, prompts
and wording, HTTP clients of thirty products, aggregation for reports, seed data
and schemas. Nearly all of that is written by one request at a time, and a model of
it would restate it; alerts, incidents and support tickets are the parts left out
that several actors write.

Within modelled components, left out: `sweep_expired` of payments, which nothing
calls; API keys and OAuth of connectors; bookings that a scheduling tool owns;
texts, chats and coupons in a bill, and refunds of an invoice; time zones and the choice of a person in
the calendar; whispers, and the fan-out of the live board to browsers;
recordings, tracks and the choice of destinations in a
transfer; web chat and the channels of the inbox. `on_changed` of the calendar
is never assigned, so a rescheduled booking keeps its reminders' old times.

Seen while modelling and outside every property: a message template with an
unknown placeholder raises and stops the reminder sweep each time it comes
round; a trial that `_roll_period`
ended gets no "expired" notice; a key pressed during a transfer's briefing is
missed, since the bridge listens only afterwards; a change whose new event could
not be made leaves a document that names a deleted one; an approval that
expires stays on the live board's entry.

Postgres, Redis, LiveKit, Stripe, the carrier, the calendars and the SMS provider
appear only by what the code relies on.
