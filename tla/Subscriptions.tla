---------------------------- MODULE Subscriptions ----------------------------
(* One tenant's subscription and the life of its trial                           *)
(* (apps/api/parlio_api/billing.py, BillingService and TrialLifecycleLoop).      *)
(*                                                                               *)
(* Every operation reads the whole document, works on the copy and writes the    *)
(* whole copy back; TrialLifecycleLoop does so from a listing, and after it has  *)
(* given a closed account's numbers back.  Time is counted in steps of the       *)
(* lifecycle: a reminder is due SbTrial - 1 after the start, the grace period    *)
(* and the time to the closing are one more each.  Plans, coupons, usage and     *)
(* invoices are left out.                                                        *)
EXTENDS Integers, FiniteSets

CONSTANTS
  SbLoop,     \* the task of TrialLifecycleLoop
  SbReqs,     \* requests and webhooks under way together
  SbTrial,    \* length of a trial
  SbClock,    \* bound on the clock
  SbMoves     \* bound: requests and webhooks begun, and restarts

ASSUME SubscriptionsAssumption ==
  SbTrial \in Nat \ {0} /\ SbClock \in Nat /\ SbMoves \in Nat /\ SbLoop \notin SbReqs

SbProcs == {SbLoop} \cup SbReqs

VARIABLES
  sbDoc,      \* the stored subscription
  sbNow,
  sbNumbers,  \* the tenant has its numbers
  sbSession,  \* Stripe's side: none, a page to pay on, a subscription, one deleted
  sbStripe,   \* Stripe is the provider, and not the simulation
  sbPc,
  sbOp,       \* what an operation goes on to do
  sbCopy,     \* and its copy
  sbMoves

\* History, for the properties only.
VARIABLES
  sbFresh,    \* processes since whose read nobody else has written
  sbTorn,     \* a copy was written over a newer document
  sbPaid,     \* the card on file was written down
  sbTaken,    \* numbers were taken from a tenant with a card on file
  sbSent      \* notices sent in this trial

sbLocal == <<sbPc, sbOp, sbCopy>>
sbGhost == <<sbFresh, sbTorn, sbPaid, sbTaken, sbSent>>
subscriptionsVars == <<sbDoc, sbNow, sbNumbers, sbSession, sbStripe, sbLocal, sbMoves, sbGhost>>

SbStatus == {"trialing", "active", "past_due", "paused", "suspended", "cancelled"}
SbStaff == {"trialing", "suspended", "cancelled"}  \* what staff may set: a bound
SbTrialReasons == {"grace", "calls paused", "closed"}
SbEvents == {"reminder", "expired", "paused", "closed"}
SbNoTrial == -1
SbSub == [status: SbStatus, reason: SbTrialReasons \cup {"none", "staff"}, ref: BOOLEAN,
          customer: BOOLEAN, ends: Int, notices: SUBSET SbEvents]
SbNew == [status |-> "trialing", reason |-> "none", ref |-> FALSE, customer |-> FALSE,
          ends |-> SbTrial, notices |-> {}]

SbHooks == {"completed", "paid", "failed", "deleted"}
SbOps == {"none", "look", "plan", "checkout", "session", "status", "extend", "convert"}
         \cup SbHooks \cup SbEvents
SbPC == {"idle", "roll", "save", "provider", "return", "notify"}

SubscriptionsInit ==
  /\ sbDoc = SbNew
  /\ sbNow = 0
  /\ sbNumbers = TRUE
  /\ sbSession = "none"
  /\ sbStripe \in BOOLEAN
  /\ sbPc = [p \in SbProcs |-> "idle"]
  /\ sbOp = [p \in SbProcs |-> "none"]
  /\ sbCopy = [p \in SbProcs |-> SbNew]
  /\ sbMoves = 0
  /\ sbFresh = {}
  /\ sbTorn = FALSE
  /\ sbPaid = FALSE
  /\ sbTaken = FALSE
  /\ sbSent = [e \in SbEvents |-> 0]

-------------------------------------------------------------------------------
(* The documents.                                                               *)

\* unpaid_trial: a trial, running or lapsed, with no payment details on file.
SbUnpaidTrial(d) ==
  /\ ~d.ref
  /\ d.ends # SbNoTrial
  /\ d.status = "trialing" \/ d.reason \in SbTrialReasons

\* _trial_days_remaining > 0
SbRunning(d) == d.status = "trialing" /\ d.ends > sbNow

\* Mutant: the reason a trial left behind is kept.
SbUntrialKept(d) == d

SbUntrial(d) == IF d.reason \in SbTrialReasons THEN [d EXCEPT !.reason = "none"] ELSE d

\* The period that is over ends a trial without a card (_roll_period).
SbRolled(d) ==
  IF d.status = "trialing" /\ ~d.ref THEN [d EXCEPT !.status = "past_due", !.reason = "grace"]
  ELSE d

\* change_plan: another plan has a trial of another length.
SbReplanned(d) ==
  {d} \cup
  IF d.status # "trialing" THEN {}
  ELSE {IF days <= sbNow THEN [d EXCEPT !.status = "active", !.ends = SbNoTrial]
        ELSE [d EXCEPT !.ends = days] : days \in 0 .. SbTrial}

\* What `op' makes of the copy it read; no document: nothing is written.
SbUpdated(op, d) ==
  CASE op \in {"plan", "checkout"} -> SbReplanned(d)
    [] op = "session" ->
         LET c == [d EXCEPT !.customer = TRUE] IN
         {IF sbStripe THEN c ELSE [SbUntrial(c) EXCEPT !.status = "active", !.ref = TRUE]}
    [] op = "completed" ->
         {[SbUntrial(d) EXCEPT !.status = IF SbRunning(d) THEN "trialing" ELSE "active",
                               !.ref = TRUE]}
    [] op = "paid" ->
         {[d EXCEPT !.status = "active"]} \cup (IF SbRunning(d) THEN {d} ELSE {})
    [] op = "failed" -> {[d EXCEPT !.status = "past_due"]}
    [] op = "deleted" -> {[d EXCEPT !.status = "cancelled"]}
    [] op = "status" -> {[d EXCEPT !.status = s, !.reason = "staff"] : s \in SbStaff}
    [] op = "extend" ->
         LET longer == [d EXCEPT !.ends = SbTrial + IF @ < sbNow THEN sbNow ELSE @] IN
         {IF d.status = "trialing" \/ SbUnpaidTrial(d)
          THEN [longer EXCEPT !.status = "trialing", !.reason = "none", !.notices = {}]
          ELSE longer}
    [] op = "convert" -> {[d EXCEPT !.status = "active", !.ends = SbNoTrial, !.reason = "none"]}

\* sweep_trials: what is due for a trial, and what it does to the document.
SbDue(d) ==
  CASE d.status = "trialing" /\ sbNow >= d.ends         -> "expired"
    [] d.status = "trialing" /\ sbNow = d.ends - 1      -> "reminder"
    [] d.status = "past_due" /\ sbNow >= d.ends + 1     -> "paused"
    [] d.status = "suspended" /\ sbNow >= d.ends + 2    -> "closed"
    [] OTHER                                            -> "none"

SbSwept(d, event) ==
  LET told == [d EXCEPT !.notices = @ \cup {event} \cup
                          (IF event = "expired" THEN {"reminder"} ELSE {})] IN
  CASE event = "reminder" -> told
    [] event = "expired"  -> [told EXCEPT !.status = "past_due", !.reason = "grace"]
    [] event = "paused"   -> [told EXCEPT !.status = "suspended", !.reason = "calls paused"]
    [] event = "closed"   -> [told EXCEPT !.status = "cancelled", !.reason = "closed"]

-------------------------------------------------------------------------------
(* Steps.                                                                       *)

SbGoto(p, next) == sbPc' = [sbPc EXCEPT ![p] = next]

SbIdle(p) ==
  /\ SbGoto(p, "idle")
  /\ sbOp' = [sbOp EXCEPT ![p] = "none"]
  /\ sbCopy' = [sbCopy EXCEPT ![p] = SbNew]

\* p begins with the document it reads: an update of it, or a roll of its period first.
SbRead(p, op, next, copy) ==
  /\ SbGoto(p, next)
  /\ sbOp' = [sbOp EXCEPT ![p] = op]
  /\ sbCopy' = [sbCopy EXCEPT ![p] = copy]
  /\ sbFresh' = sbFresh \cup {p}

\* _save of p's copy.
SbSave(p) ==
  /\ sbDoc' = sbCopy[p]
  /\ sbFresh' = sbFresh \cap {p}
  /\ sbTorn' = (sbTorn \/ p \notin sbFresh)

SbStart(p) ==
  /\ p \in SbReqs
  /\ sbPc[p] = "idle"
  /\ sbMoves < SbMoves
  /\ sbMoves' = sbMoves + 1
  /\ UNCHANGED <<sbDoc, sbNow, sbNumbers, sbSession, sbStripe, sbTorn, sbPaid, sbTaken, sbSent>>

\* A request of the tenant or of the staff; the period it reads may be over, which
\* it is not before the trial is.
SbRequest(p, op) ==
  /\ SbStart(p)
  /\ \/ op # "look" /\ \E d \in SbUpdated(op, sbDoc) : SbRead(p, op, "save", d)
     \/ sbNow >= sbDoc.ends /\ SbRead(p, op, "roll", SbRolled(sbDoc))

\* _roll_period has written, and the request goes on with what it wrote.
SbRoll(p) ==
  /\ sbPc[p] = "roll"
  /\ SbSave(p)
  /\ IF sbOp[p] = "look" THEN SbIdle(p)
     ELSE \E d \in SbUpdated(sbOp[p], sbCopy[p]) :
            sbCopy' = [sbCopy EXCEPT ![p] = d] /\ SbGoto(p, "save") /\ UNCHANGED sbOp
  /\ UNCHANGED <<sbNow, sbNumbers, sbSession, sbStripe, sbMoves, sbPaid, sbTaken, sbSent>>

\* handle_webhook: Stripe sends what has happened, again and in any order; a
\* customer that no subscription knows is ignored.
SbHook(p, op) ==
  /\ sbStripe
  /\ op \in SbHooks
  /\ sbSession \in IF op = "deleted" THEN {"deleted"} ELSE {"paid", "deleted"}
  /\ sbDoc.customer
  /\ SbStart(p)
  /\ \E d \in SbUpdated(op, sbDoc) : SbRead(p, op, "save", d)

\* The last write of a request; checkout goes on with the provider.
SbSaved(p) ==
  /\ p \in SbReqs
  /\ sbPc[p] = "save"
  /\ SbSave(p)
  /\ IF sbOp[p] = "checkout"
     THEN SbGoto(p, "provider") /\ UNCHANGED <<sbOp, sbCopy>>
     ELSE SbIdle(p)
  /\ sbPaid' = (sbPaid \/ sbOp[p] = "completed" \/ (sbOp[p] = "session" /\ ~sbStripe))
  /\ sbSent' = IF sbOp[p] = "extend" /\ sbCopy[p].notices = {}
               THEN [e \in SbEvents |-> 0] ELSE sbSent
  /\ UNCHANGED <<sbNow, sbNumbers, sbSession, sbStripe, sbMoves, sbTaken>>

\* checkout: the provider has made the page to pay on.
SbCheckout(p) ==
  /\ sbPc[p] = "provider"
  /\ sbSession' = IF sbSession = "none" THEN "open" ELSE sbSession
  /\ \E d \in SbUpdated("session", sbCopy[p]) : sbCopy' = [sbCopy EXCEPT ![p] = d]
  /\ sbOp' = [sbOp EXCEPT ![p] = "session"]
  /\ SbGoto(p, "save")
  /\ UNCHANGED <<sbDoc, sbNow, sbNumbers, sbStripe, sbMoves, sbGhost>>

\* The owner pays, or Stripe deletes the subscription.
SbPays ==
  /\ sbStripe
  /\ \/ sbSession = "open" /\ sbSession' = "paid"
     \/ sbSession = "paid" /\ sbSession' = "deleted"
  /\ UNCHANGED <<sbDoc, sbNow, sbNumbers, sbStripe, sbLocal, sbMoves, sbGhost>>

-------------------------------------------------------------------------------
(* sweep_trials and the clock.                                                  *)

SbSweep ==
  /\ sbPc[SbLoop] = "idle"
  /\ SbUnpaidTrial(sbDoc)
  /\ LET event == SbDue(sbDoc) IN
       /\ event \notin {"none"} \cup sbDoc.notices
       /\ SbRead(SbLoop, event, IF event = "closed" THEN "return" ELSE "save",
                 SbSwept(sbDoc, event))
  /\ UNCHANGED <<sbDoc, sbNow, sbNumbers, sbSession, sbStripe, sbMoves, sbTorn, sbPaid, sbTaken,
                 sbSent>>

\* A closed account's numbers go back to the pool; one that fails is only logged.
SbReturn ==
  /\ sbPc[SbLoop] = "return"
  /\ sbNumbers' \in {sbNumbers, FALSE}
  /\ sbTaken' = (sbTaken \/ (sbPaid /\ SbLoop \in sbFresh))
  /\ SbGoto(SbLoop, "save")
  /\ UNCHANGED <<sbDoc, sbNow, sbSession, sbStripe, sbOp, sbCopy, sbMoves, sbFresh, sbTorn, sbPaid,
                 sbSent>>

SbSweepSaved ==
  /\ sbPc[SbLoop] = "save"
  /\ SbSave(SbLoop)
  /\ SbGoto(SbLoop, "notify")
  /\ UNCHANGED <<sbNow, sbNumbers, sbSession, sbStripe, sbOp, sbCopy, sbMoves, sbPaid, sbTaken,
                 sbSent>>

\* on_trial_event; one of an earlier state of the document is not counted.
SbNotify ==
  /\ sbPc[SbLoop] = "notify"
  /\ sbSent' = IF SbLoop \in sbFresh THEN [sbSent EXCEPT ![sbOp[SbLoop]] = @ + 1] ELSE sbSent
  /\ SbIdle(SbLoop)
  /\ UNCHANGED <<sbDoc, sbNow, sbNumbers, sbSession, sbStripe, sbMoves, sbFresh, sbTorn, sbPaid,
                 sbTaken>>

SbTick ==
  /\ sbNow < SbClock
  /\ sbNow' = sbNow + 1
  /\ UNCHANGED <<sbDoc, sbNumbers, sbSession, sbStripe, sbLocal, sbMoves, sbGhost>>

\* The API process stops: what was under way is gone.
SbRestart ==
  /\ sbMoves < SbMoves
  /\ \E p \in SbProcs : sbPc[p] # "idle"
  /\ sbMoves' = sbMoves + 1
  /\ sbPc' = [p \in SbProcs |-> "idle"]
  /\ sbOp' = [p \in SbProcs |-> "none"]
  /\ sbCopy' = [p \in SbProcs |-> SbNew]
  /\ sbFresh' = {}
  /\ UNCHANGED <<sbDoc, sbNow, sbNumbers, sbSession, sbStripe, sbTorn, sbPaid, sbTaken, sbSent>>

SbSweeping == SbSweep \/ SbReturn \/ SbSweepSaved \/ SbNotify

SubscriptionsNext ==
  \/ \E p \in SbReqs : SbRoll(p) \/ SbSaved(p) \/ SbCheckout(p)
  \/ \E p \in SbReqs, op \in {"look", "plan", "checkout", "status", "extend", "convert"} :
       SbRequest(p, op)
  \/ \E p \in SbReqs, op \in SbHooks : SbHook(p, op)
  \/ SbSweeping
  \/ SbPays
  \/ SbTick
  \/ SbRestart

SubscriptionsSpec == SubscriptionsInit /\ [][SubscriptionsNext]_subscriptionsVars

-------------------------------------------------------------------------------
(* Properties.                                                                  *)

SubscriptionsTypeOK ==
  /\ sbDoc \in SbSub
  /\ sbNow \in Nat
  /\ sbNumbers \in BOOLEAN
  /\ sbSession \in {"none", "open", "paid", "deleted"}
  /\ sbStripe \in BOOLEAN
  /\ sbPc \in [SbProcs -> SbPC]
  /\ sbOp \in [SbProcs -> SbOps]
  /\ sbCopy \in [SbProcs -> SbSub]
  /\ sbMoves \in Nat
  /\ sbFresh \subseteq SbProcs
  /\ sbTorn \in BOOLEAN /\ sbPaid \in BOOLEAN /\ sbTaken \in BOOLEAN
  /\ sbSent \in [SbEvents -> Nat]

\* A trial ends one way, and says so in order.  Once the card is on file the document
\* says so, no lapsed trial's reason is left on it, and the closing of a trial has
\* not taken the numbers (listed before the payment).  And an owner gets each notice
\* once at most, and hears that calls are paused before hearing that the account is
\* closed, restarts and extensions included.  Out of this: a copy written over a newer
\* document and, for the order, a notice that a restart has lost (handle_webhook,
\* checkout, sweep_trials, _roll_period, extend_trial).
TrialEndsInOrder ==
  ~sbTorn =>
    /\ sbPaid => ~SbUnpaidTrial(sbDoc) /\ sbDoc.reason \notin SbTrialReasons /\ ~sbTaken
    /\ \A e \in SbEvents : sbSent[e] <= 1
    /\ sbSent["closed"] = 1 => "paused" \in sbDoc.notices
===============================================================================
