-------------------------------- MODULE Invoices --------------------------------
(* The close of a tenant's billing period (apps/api/parlio_api/billing.py):        *)
(* subscription, which whoever reads it runs, _roll_period, _usage_for,            *)
(* _consume_credits, _record_invoice, report_usage and grant_credit.               *)
(*                                                                                 *)
(* Nothing holds the period while it is closed: the document changes in the last   *)
(* write, after the provider, the credits and the invoice.  Time is counted in     *)
(* half months.  A call and the plan cost one unit each; a plan has no minutes     *)
(* included.  Texts, chats, numbers, coupons and limits are further terms of the   *)
(* same sum and are left out; how a status changes is in Subscriptions.            *)
EXTENDS Integers, FiniteSets, Functions

CONSTANTS
  IvProcs,    \* requests and loops that read the subscription
  IvClock,    \* bound on the clock
  IvCredits,  \* credits, numbered in the order in which they are granted
  IvPence,    \* what a credit is worth
  IvCalls,    \* bound: calls
  IvMoves     \* bound: restarts

ASSUME InvoicesAssumption ==
  /\ IvClock \in Nat /\ IvCalls \in Nat /\ IvMoves \in Nat /\ IvPence \in Nat \ {0}
  /\ IvCredits \subseteq Nat /\ IsFiniteSet(IvCredits)

IvTimes == 0 .. IvClock

VARIABLES
  ivSub,      \* the stored subscription: period, status, subscription_ref
  ivNow,
  ivCall,     \* the call that began at a time: none, up, done
  ivLeft,     \* remaining_pence of each credit; none granted: IvNone
  ivInvoice,  \* total_pence of the invoice of each month, or IvNone
  ivReported  \* overage the provider was told of

\* The processes: where each is, and what it holds - the subscription it read, the
\* calls that count, the credit still to be taken, the total, the credits listed.
VARIABLES ivPc, ivHeld

\* Counters of the bounds, and history for the properties.
VARIABLES
  ivMoves,
  ivFirst,    \* end of the first period
  ivBilled,   \* how often each call was counted in a period that was closed
  ivClosed,   \* periods closed, served and not
  ivMissed,   \* calls still up when their period was closed
  ivRaced,    \* two closed a period together
  ivCut,      \* a restart cut a closing
  ivLost      \* the provider did not hear of an overage, or was not heard

ivLocal == <<ivPc, ivHeld>>
ivGhost == <<ivFirst, ivBilled, ivClosed, ivMissed, ivRaced, ivCut, ivLost>>
ivStore == <<ivSub, ivNow, ivCall, ivLeft, ivInvoice, ivReported>>
invoicesVars == <<ivStore, ivLocal, ivMoves, ivGhost>>

IvNone == -1
IvServing == {"trialing", "active"}
IvPC == {"idle", "usage", "report", "credits", "consume", "invoice", "save"}
IvSub == [from: IvTimes, to: Nat, status: IvServing \cup {"past_due", "suspended"}, ref: BOOLEAN]

IvNothing == [sub |-> [from |-> 0, to |-> 0, status |-> "active", ref |-> FALSE], used |-> {},
              take |-> 0, due |-> 0, seen |-> [c \in IvCredits |-> IvNone]]

\* _period: the month of a time.
IvMonth(t) == 2 * (t \div 2)
IvMonths == {IvMonth(t) : t \in IvTimes}

InvoicesInit ==
  /\ ivFirst \in {2, 3}
  /\ ivSub \in {[from |-> 0, to |-> ivFirst, status |-> s, ref |-> r] :
                  s \in {"trialing", "active", "suspended"}, r \in BOOLEAN}
  /\ ivFirst = 3 => ivSub.status = "trialing"
  /\ ivSub.ref \/ ivSub.status # "active"
  /\ ivNow = 0
  /\ ivCall = [t \in IvTimes |-> "none"]
  /\ ivLeft = [c \in IvCredits |-> IvNone]
  /\ ivInvoice = [m \in IvMonths |-> IvNone]
  /\ ivReported = 0
  /\ ivPc = [p \in IvProcs |-> "idle"]
  /\ ivHeld = [p \in IvProcs |-> IvNothing]
  /\ ivMoves = 0
  /\ ivBilled = [t \in IvTimes |-> 0]
  /\ ivClosed = [served |-> 0, other |-> 0]
  /\ ivMissed = {}
  /\ ivRaced = FALSE /\ ivCut = FALSE /\ ivLost = FALSE

-------------------------------------------------------------------------------
(* Closing a period.                                                            *)

IvGoto(p, next) == ivPc' = [ivPc EXCEPT ![p] = next]

\* The calls of a period that billable_minutes counts.
IvCounted(sub) == {t \in IvTimes : sub.from <= t /\ t < sub.to /\ ivCall[t] = "done"}

\* credit_balance
IvBalance == SumFunction([c \in IvCredits |-> IF ivLeft[c] = IvNone THEN 0 ELSE ivLeft[c]])

\* Mutant: the credit is taken, and the invoice is for the whole amount.
IvTotalGross(gross, credit) == gross

\* estimated_total_pence
IvTotal(gross, credit) == gross - credit

\* subscription: the period it finds is over.
IvRead(p) ==
  /\ ivPc[p] = "idle"
  /\ ivNow >= ivSub.to
  /\ IvGoto(p, "usage")
  /\ ivHeld' = [ivHeld EXCEPT ![p].sub = ivSub]
  /\ ivRaced' = (ivRaced \/ \E q \in IvProcs : ivPc[q] # "idle")
  /\ UNCHANGED <<ivStore, ivMoves, ivFirst, ivBilled, ivClosed, ivMissed, ivCut, ivLost>>

\* _usage_for: the calls, and the credit there is for them and the plan.
IvUsage(p) ==
  /\ ivPc[p] = "usage"
  /\ LET sub == ivHeld[p].sub
         counted == IvCounted(sub)
         gross == 1 + Cardinality(counted)
         credit == IF IvBalance < gross THEN IvBalance ELSE gross
     IN /\ ivHeld' = [ivHeld EXCEPT ![p].used = counted, ![p].take = credit,
                                    ![p].due = IvTotal(gross, credit)]
        /\ IvGoto(p, IF sub.ref /\ counted # {} THEN "report" ELSE "credits")
        /\ ivMissed' = ivMissed \cup {t \in sub.from .. sub.to - 1 : ivCall[t] = "up"}
  /\ UNCHANGED <<ivStore, ivMoves, ivFirst, ivBilled, ivClosed, ivRaced, ivCut, ivLost>>

\* report_usage; what it raises is only logged.
IvReport(p) ==
  /\ ivPc[p] = "report"
  /\ \/ ivReported' = ivReported + Cardinality(ivHeld[p].used) /\ ivLost' \in {ivLost, TRUE}
     \/ ivReported' = ivReported /\ ivLost' = TRUE
  /\ IvGoto(p, "credits")
  /\ UNCHANGED <<ivSub, ivNow, ivCall, ivLeft, ivInvoice, ivHeld, ivMoves, ivFirst,
                 ivBilled, ivClosed, ivMissed, ivRaced, ivCut>>

\* An invoice is recorded only of an account that is served.
IvAfterCredits(p) == IF ivHeld[p].sub.status \in IvServing THEN "invoice" ELSE "save"

\* Credits listed that have something left, and the oldest of them.
IvFull(seen) == {c \in IvCredits : seen[c] > 0}
IvOldest(seen) == CHOOSE c \in IvFull(seen) : \A d \in IvFull(seen) : c <= d

\* _consume_credits lists the credits,
IvList(p) ==
  /\ ivPc[p] = "credits"
  /\ ivHeld' = [ivHeld EXCEPT ![p].seen = ivLeft]
  /\ IvGoto(p, IF ivHeld[p].take > 0 /\ IvFull(ivLeft) # {} THEN "consume" ELSE IvAfterCredits(p))
  /\ UNCHANGED <<ivStore, ivMoves, ivGhost>>

\* and takes from one after the other, the oldest first, until there is enough.
IvConsume(p) ==
  /\ ivPc[p] = "consume"
  /\ LET held == ivHeld[p]
         c == IvOldest(held.seen)
         take == IF held.seen[c] < held.take THEN held.seen[c] ELSE held.take
         seen == [held.seen EXCEPT ![c] = 0]
     IN /\ ivLeft' = [ivLeft EXCEPT ![c] = held.seen[c] - take]
        /\ ivHeld' = [ivHeld EXCEPT ![p].take = @ - take, ![p].seen = seen]
        /\ IvGoto(p, IF held.take > take /\ IvFull(seen) # {} THEN "consume" ELSE IvAfterCredits(p))
  /\ UNCHANGED <<ivSub, ivNow, ivCall, ivInvoice, ivReported, ivMoves, ivGhost>>

\* _record_invoice, under the month in which the period began.
IvInvoice(p) ==
  /\ ivPc[p] = "invoice"
  /\ ivInvoice' = [ivInvoice EXCEPT ![IvMonth(ivHeld[p].sub.from)] = ivHeld[p].due]
  /\ IvGoto(p, "save")
  /\ UNCHANGED <<ivSub, ivNow, ivCall, ivLeft, ivReported, ivHeld, ivMoves, ivGhost>>

\* The month of today is the next period; a trial without a card has lapsed.
IvNext(sub) ==
  [sub EXCEPT !.from = IvMonth(ivNow), !.to = IvMonth(ivNow) + 2,
              !.status = IF @ = "trialing" /\ ~sub.ref THEN "past_due" ELSE @]

IvSave(p) ==
  /\ ivPc[p] = "save"
  /\ ivSub' = IvNext(ivHeld[p].sub)
  /\ IvGoto(p, "idle")
  /\ ivHeld' = [ivHeld EXCEPT ![p] = IvNothing]
  /\ ivBilled' = [t \in IvTimes |-> ivBilled[t] + IF t \in ivHeld[p].used THEN 1 ELSE 0]
  /\ ivClosed' = IF ivHeld[p].sub.status \in IvServing THEN [ivClosed EXCEPT !.served = @ + 1]
                 ELSE [ivClosed EXCEPT !.other = @ + 1]
  /\ UNCHANGED <<ivNow, ivCall, ivLeft, ivInvoice, ivReported, ivMoves, ivFirst, ivMissed,
                 ivRaced, ivCut, ivLost>>

-------------------------------------------------------------------------------
(* Around it.                                                                   *)

\* grant_credit
IvGrant(c) ==
  /\ ivLeft[c] = IvNone
  /\ \A d \in IvCredits : d < c => ivLeft[d] # IvNone
  /\ ivLeft' = [ivLeft EXCEPT ![c] = IvPence]
  /\ UNCHANGED <<ivSub, ivNow, ivCall, ivInvoice, ivReported, ivLocal, ivMoves, ivGhost>>

IvCallBegins ==
  /\ Cardinality({t \in IvTimes : ivCall[t] # "none"}) < IvCalls
  /\ ivCall[ivNow] = "none"
  /\ ivCall' = [ivCall EXCEPT ![ivNow] = "up"]
  /\ UNCHANGED <<ivSub, ivNow, ivLeft, ivInvoice, ivReported, ivLocal, ivMoves, ivGhost>>

IvCallEnds(t) ==
  /\ ivCall[t] = "up"
  /\ ivCall' = [ivCall EXCEPT ![t] = "done"]
  /\ UNCHANGED <<ivSub, ivNow, ivLeft, ivInvoice, ivReported, ivLocal, ivMoves, ivGhost>>

\* Half a month goes by.  OpsLoop reads every subscription every five minutes: a
\* period that is over is closed within that time.  Nothing is followed further
\* than the end of a closing that two did, or that was cut.
IvTick ==
  /\ ~ivRaced /\ ~ivCut
  /\ ivNow < IvClock
  /\ ivNow < ivSub.to
  /\ \A p \in IvProcs : ivPc[p] = "idle"
  /\ ivNow' = ivNow + 1
  /\ UNCHANGED <<ivSub, ivCall, ivLeft, ivInvoice, ivReported, ivLocal, ivMoves, ivGhost>>

\* The API process stops in the middle.
IvRestart ==
  /\ ivMoves < IvMoves
  /\ \E p \in IvProcs : ivPc[p] # "idle"
  /\ ivMoves' = ivMoves + 1
  /\ ivPc' = [p \in IvProcs |-> "idle"]
  /\ ivHeld' = [p \in IvProcs |-> IvNothing]
  /\ ivCut' = TRUE
  /\ UNCHANGED <<ivStore, ivFirst, ivBilled, ivClosed, ivMissed, ivRaced, ivLost>>

InvoicesNext ==
  \/ \E p \in IvProcs : \/ IvRead(p) \/ IvUsage(p) \/ IvReport(p) \/ IvList(p) \/ IvConsume(p)
                        \/ IvInvoice(p) \/ IvSave(p)
  \/ \E c \in IvCredits : IvGrant(c)
  \/ IvCallBegins
  \/ \E t \in IvTimes : IvCallEnds(t)
  \/ IvTick
  \/ IvRestart

InvoicesSpec == InvoicesInit /\ [][InvoicesNext]_invoicesVars

-------------------------------------------------------------------------------
(* Properties.                                                                  *)

InvoicesTypeOK ==
  /\ ivSub \in IvSub
  /\ ivNow \in IvTimes
  /\ ivCall \in [IvTimes -> {"none", "up", "done"}]
  /\ ivLeft \in [IvCredits -> Nat \cup {IvNone}]
  /\ ivInvoice \in [IvMonths -> Nat \cup {IvNone}]
  /\ ivReported \in Nat
  /\ ivPc \in [IvProcs -> IvPC]
  /\ ivHeld \in [IvProcs -> [sub : IvSub, used : SUBSET IvTimes, take : Nat, due : Nat,
                             seen : [IvCredits -> Nat \cup {IvNone}]]]
  /\ ivMoves \in Nat
  /\ ivFirst \in Nat
  /\ ivBilled \in [IvTimes -> Nat]
  /\ ivClosed \in [served : Nat, other : Nat]
  /\ ivMissed \subseteq IvTimes
  /\ ivRaced \in BOOLEAN /\ ivCut \in BOOLEAN /\ ivLost \in BOOLEAN

IvInvoiced == SumFunction([m \in IvMonths |-> IF ivInvoice[m] = IvNone THEN 0 ELSE ivInvoice[m]])
IvSpent == SumFunction([c \in IvCredits |-> IF ivLeft[c] = IvNone THEN 0 ELSE IvPence - ivLeft[c]])
IvCharged == SumFunction(ivBilled)

\* A trial that ran past its month: what came after that month began is counted again.
IvTwice(t) == IvMonth(ivFirst) <= t /\ t < ivFirst

\* Every call is paid for, once.  Whoever finds a period over closes it: each call that
\* has ended is counted in one period, the invoices and the credits taken add up to the
\* plan and the calls counted, and the provider has been told of the same calls.  Out of
\* this: a call that went on while its period was closed, which is never counted, and the
\* days after a trial's month, which are counted twice (_roll_period); and the sums alone,
\* not the counting, where two closed a period together or a restart cut it, where the
\* account was not served, whose credits are taken without an invoice, and where a
\* report failed.
CallsBilledOnce ==
  (\A p \in IvProcs : ivPc[p] = "idle") =>
    /\ \A t \in IvTimes :
         t < ivSub.from /\ ivCall[t] = "done" =>
           \/ ivBilled[t] = 1
           \/ t \in ivMissed
           \/ ivBilled[t] > 1 /\ (IvTwice(t) \/ ivRaced)
    /\ ~ivRaced /\ ~ivCut =>
         /\ ivClosed.other = 0 => IvInvoiced + IvSpent = ivClosed.served + IvCharged
         /\ ivSub.ref /\ ~ivLost => ivReported = IvCharged
===============================================================================
