------------------------------- MODULE MCServices -------------------------------
(* One instance for TLC of thirteen services of the platform.  They share no       *)
(* state, so a behaviour follows one of them, which `focus' names, and leaves the  *)
(* others where they start.                                                        *)
EXTENDS Payments, Verification, Inbox, Subscriptions, Invoices, Bookings, Reminders, Transfer, Admission,
        Supervision, Approvals, Slots, Studio

CONSTANTS a1, a2, b1, b2, c1, c2, k1, k2, k3, p1, p2, u1, u2

VARIABLE focus

ServicesInit ==
  /\ focus \in {"payments", "verification", "inbox", "subscriptions", "invoices", "bookings", "reminders",
                "transfer", "admission", "supervision", "approvals", "slots", "studio"}
  /\ IF focus = "subscriptions" THEN TRUE ELSE sbStripe = TRUE
  /\ IF focus = "transfer" THEN TRUE
     ELSE trMode = "warm" /\ trKey = TRUE /\ trRecord = TRUE /\ trPlan = 1
  /\ IF focus = "slots" THEN slAsk \in {<<0, SlDay>>, <<SlOpen + 1, SlClose - 1>>}
     ELSE /\ slAsk = <<0, SlDay>>
          /\ slRules = [length |-> 1, slot |-> 1, align |-> 0, pad |-> 0, notice |-> 0,
                        ahead |-> SlDay, service |-> FALSE, any |-> FALSE]
  /\ PaymentsInit /\ VerificationInit /\ InboxInit /\ SubscriptionsInit /\ InvoicesInit
  /\ focus # "invoices" => ivFirst = 2 /\ ivSub.status = "active"
  /\ BookingsInit /\ RemindersInit /\ TransferInit /\ AdmissionInit
  /\ SupervisionInit /\ ApprovalsInit /\ SlotsInit /\ StudioInit

Others ==
  /\ UNCHANGED focus
  /\ IF focus = "payments" THEN TRUE ELSE UNCHANGED paymentsVars
  /\ IF focus = "verification" THEN TRUE ELSE UNCHANGED verificationVars
  /\ IF focus = "inbox" THEN TRUE ELSE UNCHANGED inboxVars
  /\ IF focus = "subscriptions" THEN TRUE ELSE UNCHANGED subscriptionsVars
  /\ IF focus = "invoices" THEN TRUE ELSE UNCHANGED invoicesVars
  /\ IF focus = "bookings" THEN TRUE ELSE UNCHANGED bookingsVars
  /\ IF focus = "reminders" THEN TRUE ELSE UNCHANGED remindersVars
  /\ IF focus = "transfer" THEN TRUE ELSE UNCHANGED transferVars
  /\ IF focus = "admission" THEN TRUE ELSE UNCHANGED admissionVars
  /\ IF focus = "supervision" THEN TRUE ELSE UNCHANGED supervisionVars
  /\ IF focus = "approvals" THEN TRUE ELSE UNCHANGED approvalsVars
  /\ IF focus = "slots" THEN TRUE ELSE UNCHANGED slotsVars
  /\ IF focus = "studio" THEN TRUE ELSE UNCHANGED studioVars

\* The links of a charge and the calls of a trunk are interchangeable: they are named
\* in the order in which they come up; so are the readers of a subscription.
NamedInOrder ==
  /\ ivPc'[2] # "idle" => (ivPc'[1] # "idle" \/ ivPc[2] # "idle")
  /\ payDoc'[a2] # PayAbsent => payDoc'[a1] # PayAbsent
  /\ adPc'[k2] # "ringing" => adPc'[k1] # "ringing"

\* A period is either closed twice or cut short, and no credit is granted while two
\* close it (a bound).
OneAtATime ==
  /\ ~(ivRaced' /\ ivCut')
  /\ ivRaced => ivLeft' = ivLeft \/ ivPc' # ivPc

\* Workers ask for the configuration, and time passes, while only block_caller and the
\* Studio change it (a bound): the cache knows no difference between its writers.
StudioApart ==
  stFetch' # StNone \/ stCache' # StNoCache \/ stNow' # 0 =>
    \A p \in StReqs : stOp'[p] \in {"none", "block", "studio"}

\* Bounds: payments and subscriptions are followed until a write is lost, the
\* assistant's configuration until one is or decisions cross, supervision until
\* both the board and the audio were left behind.  Their properties say nothing after.
ServicesNext ==
  \/ focus = "payments" /\ payTorn = {} /\ ~payRaced /\ Others /\ PaymentsNext /\ NamedInOrder
  \/ focus = "verification" /\ Others /\ VerificationNext
  \/ focus = "inbox" /\ Others /\ InboxNext
  \/ focus = "subscriptions" /\ ~sbTorn /\ Others /\ SubscriptionsNext
  \/ focus = "invoices" /\ Others /\ InvoicesNext /\ NamedInOrder /\ OneAtATime
  \/ focus = "bookings" /\ Others /\ BookingsNext
  \/ focus = "reminders" /\ Others /\ RemindersNext
  \/ focus = "transfer" /\ Others /\ TransferNext
  \/ focus = "admission" /\ Others /\ AdmissionNext /\ NamedInOrder
  \/ focus = "supervision" /\ ~(suLoose /\ suCrossed) /\ Others /\ SupervisionNext
  \/ focus = "approvals" /\ Others /\ ApprovalsNext
  \/ focus = "slots" /\ Others /\ SlotsNext
  \/ focus = "studio" /\ ~stTorn /\ ~stCrossed /\ Others /\ StudioNext /\ StudioApart

ServicesSpec == ServicesInit /\ [][ServicesNext]_<<focus, paymentsVars, verificationVars, inboxVars,
  subscriptionsVars, invoicesVars, bookingsVars, remindersVars, transferVars, admissionVars, supervisionVars,
  approvalsVars, slotsVars, studioVars>>

\* What tells two states apart: the service that is followed.
ServicesView ==
  <<focus,
    CASE focus = "payments" -> paymentsVars         [] focus = "verification" -> verificationVars
      [] focus = "inbox" -> inboxVars               [] focus = "subscriptions" -> subscriptionsVars
      [] focus = "invoices" -> invoicesVars
      [] focus = "bookings" -> bookingsVars         [] focus = "reminders" -> remindersVars
      [] focus = "transfer" -> transferVars         [] focus = "admission" -> admissionVars
      [] focus = "supervision" -> supervisionVars   [] focus = "approvals" -> approvalsVars
      [] focus = "slots" -> slotsVars               [] focus = "studio" -> studioVars>>

\* The service that is followed has the types it declares; the others stay where
\* they start.
ServicesTypeOK ==
  /\ focus = "payments" => PaymentsTypeOK
  /\ focus = "verification" => VerificationTypeOK
  /\ focus = "inbox" => InboxTypeOK
  /\ focus = "subscriptions" => SubscriptionsTypeOK
  /\ focus = "invoices" => InvoicesTypeOK
  /\ focus = "bookings" => BookingsTypeOK
  /\ focus = "reminders" => RemindersTypeOK
  /\ focus = "transfer" => TransferTypeOK
  /\ focus = "admission" => AdmissionTypeOK
  /\ focus = "supervision" => SupervisionTypeOK
  /\ focus = "approvals" => ApprovalsTypeOK
  /\ focus = "slots" => SlotsTypeOK
  /\ focus = "studio" => StudioTypeOK
===============================================================================
