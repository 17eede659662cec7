---------------------------- MODULE ServicesProofs ----------------------------
(* The thirteen services side by side, as MCServices has them.  A step of the whole *)
(* is a step of the service that is followed, and the others' variables stay: the   *)
(* whole implements each service, so that what was proved of a service alone, for   *)
(* every value of its constants, holds of it there.                                 *)
EXTENDS MCServices, AppointmentsProofs, LiveProofs, DeskProofs, BillingProofs

servicesVars ==
  <<focus, paymentsVars, verificationVars, inboxVars, subscriptionsVars, invoicesVars, bookingsVars,
    remindersVars, transferVars, admissionVars, supervisionVars, approvalsVars, slotsVars, studioVars>>

-------------------------------------------------------------------------------
(* What a step is for each of the services. *)

LEMMA StepLeavesOthers ==
  ASSUME Others
  PROVE  /\ focus # "payments" => UNCHANGED paymentsVars
         /\ focus # "verification" => UNCHANGED verificationVars
         /\ focus # "inbox" => UNCHANGED inboxVars
         /\ focus # "subscriptions" => UNCHANGED subscriptionsVars
         /\ focus # "invoices" => UNCHANGED invoicesVars
         /\ focus # "bookings" => UNCHANGED bookingsVars
         /\ focus # "reminders" => UNCHANGED remindersVars
         /\ focus # "transfer" => UNCHANGED transferVars
         /\ focus # "admission" => UNCHANGED admissionVars
         /\ focus # "supervision" => UNCHANGED supervisionVars
         /\ focus # "approvals" => UNCHANGED approvalsVars
         /\ focus # "slots" => UNCHANGED slotsVars
         /\ focus # "studio" => UNCHANGED studioVars
  BY Zenon DEF Others

LEMMA StepOfFocus ==
  ASSUME ServicesNext
  PROVE  /\ Others
         /\ focus = "payments" => PaymentsNext
         /\ focus = "verification" => VerificationNext
         /\ focus = "inbox" => InboxNext
         /\ focus = "subscriptions" => SubscriptionsNext
         /\ focus = "invoices" => InvoicesNext
         /\ focus = "bookings" => BookingsNext
         /\ focus = "reminders" => RemindersNext
         /\ focus = "transfer" => TransferNext
         /\ focus = "admission" => AdmissionNext
         /\ focus = "supervision" => SupervisionNext
         /\ focus = "approvals" => ApprovalsNext
         /\ focus = "slots" => SlotsNext
         /\ focus = "studio" => StudioNext
  BY DEF ServicesNext

LEMMA StepOfEach ==
  ASSUME [ServicesNext]_servicesVars
  PROVE  /\ [PaymentsNext]_paymentsVars
         /\ [VerificationNext]_verificationVars
         /\ [InboxNext]_inboxVars
         /\ [SubscriptionsNext]_subscriptionsVars
         /\ [InvoicesNext]_invoicesVars
         /\ [BookingsNext]_bookingsVars
         /\ [RemindersNext]_remindersVars
         /\ [TransferNext]_transferVars
         /\ [AdmissionNext]_admissionVars
         /\ [SupervisionNext]_supervisionVars
         /\ [ApprovalsNext]_approvalsVars
         /\ [SlotsNext]_slotsVars
         /\ [StudioNext]_studioVars
<1>1. CASE ServicesNext
  <2> USE <1>1, StepOfFocus, StepLeavesOthers
  <2>1. [PaymentsNext]_paymentsVars
    OBVIOUS
  <2>2. [VerificationNext]_verificationVars
    OBVIOUS
  <2>3. [InboxNext]_inboxVars
    OBVIOUS
  <2>4. [SubscriptionsNext]_subscriptionsVars
    OBVIOUS
  <2>5. [InvoicesNext]_invoicesVars
    OBVIOUS
  <2>6. [BookingsNext]_bookingsVars
    OBVIOUS
  <2>7. [RemindersNext]_remindersVars
    OBVIOUS
  <2>8. [TransferNext]_transferVars
    OBVIOUS
  <2>9. [AdmissionNext]_admissionVars
    OBVIOUS
  <2>10. [SupervisionNext]_supervisionVars
    OBVIOUS
  <2>11. [ApprovalsNext]_approvalsVars
    OBVIOUS
  <2>12. [SlotsNext]_slotsVars
    OBVIOUS
  <2>13. [StudioNext]_studioVars
    OBVIOUS
  <2> QED
    BY ONLY <2>1, <2>2, <2>3, <2>4, <2>5, <2>6, <2>7, <2>8, <2>9, <2>10, <2>11, <2>12, <2>13
<1>2. CASE UNCHANGED servicesVars
  BY <1>2 DEF servicesVars
<1> QED
  BY <1>1, <1>2

LEMMA InitOfEach ==
  ASSUME ServicesInit
  PROVE  /\ PaymentsInit /\ VerificationInit /\ InboxInit /\ SubscriptionsInit /\ InvoicesInit
         /\ BookingsInit /\ RemindersInit /\ TransferInit /\ AdmissionInit
         /\ SupervisionInit /\ ApprovalsInit /\ SlotsInit /\ StudioInit
  BY DEF ServicesInit

-------------------------------------------------------------------------------
(* The whole implements each. *)

\* A behaviour of the services side by side is a behaviour of each of them: the API
\* process serves them from one event loop and they share no document.
THEOREM ServicesImplement ==
  ServicesSpec => /\ PaymentsSpec /\ VerificationSpec /\ InboxSpec /\ SubscriptionsSpec /\ InvoicesSpec
                  /\ BookingsSpec /\ RemindersSpec /\ TransferSpec /\ AdmissionSpec
                  /\ SupervisionSpec /\ ApprovalsSpec /\ SlotsSpec /\ StudioSpec
<1>1. ServicesSpec => ServicesInit /\ [][ServicesNext]_servicesVars
  BY DEF ServicesSpec, servicesVars
<1> QED
  BY <1>1, InitOfEach, StepOfEach, PTL
     DEF PaymentsSpec, VerificationSpec, InboxSpec, SubscriptionsSpec, InvoicesSpec, BookingsSpec,
         RemindersSpec, TransferSpec, AdmissionSpec, SupervisionSpec, ApprovalsSpec, SlotsSpec, StudioSpec

\* Whichever service is followed, its state has the types it declares.
THEOREM ServicesTypeCorrect == ServicesSpec => []ServicesTypeOK
<1>1. ServicesSpec =>
        /\ []PaymentsTypeOK /\ []VerificationTypeOK /\ []InboxTypeOK /\ []SubscriptionsTypeOK
        /\ []InvoicesTypeOK /\ []BookingsTypeOK /\ []RemindersTypeOK /\ []TransferTypeOK
        /\ []AdmissionTypeOK /\ []SupervisionTypeOK /\ []ApprovalsTypeOK /\ []SlotsTypeOK /\ []StudioTypeOK
  BY ServicesImplement, PaymentsTypeCorrect, VerificationTypeCorrect, InboxTypeCorrect,
     SubscriptionsTypeCorrect, InvoicesTypeCorrect, BookingsTypeCorrect, RemindersTypeCorrect,
     TransferTypeCorrect, AdmissionTypeCorrect, SupervisionTypeCorrect, ApprovalsTypeCorrect,
     SlotsTypeCorrect, StudioTypeCorrect, PTL
<1>2. /\ PaymentsTypeOK /\ VerificationTypeOK /\ InboxTypeOK /\ SubscriptionsTypeOK
      /\ InvoicesTypeOK /\ BookingsTypeOK /\ RemindersTypeOK /\ TransferTypeOK
      /\ AdmissionTypeOK /\ SupervisionTypeOK /\ ApprovalsTypeOK /\ SlotsTypeOK /\ StudioTypeOK
      => ServicesTypeOK
  BY DEF ServicesTypeOK
<1> QED
  BY <1>1, <1>2, PTL

\* And every promise a service makes alone it keeps in the whole: what the run of
\* MCServices checks on one instance holds for every value of the constants.
THEOREM ServicesKeepPromises ==
  ServicesSpec => [](/\ PaymentAgrees /\ RefundsAgree /\ OneOpenLink /\ AnswersBounded
                     /\ HumanKeepsThread /\ TicketsAgree /\ TrialEndsInOrder /\ DecisionsStand
                     /\ CallsGetRecentConfig /\ CallsBilledOnce /\ BookingsAgree /\ RemindersHeed
                     /\ CallerNotStranded /\ TrunkWithinLimit /\ SupervisorAgrees /\ ApprovalStands
                     /\ SlotsAgree)
  BY ServicesImplement, PaymentsAlwaysAgree, RefundsAlwaysAgree, OneLinkOpen, AnswersAreBounded,
     HumanAlwaysKeepsThread, TicketsAlwaysAgree, TrialAlwaysEndsInOrder, DecisionsAlwaysStand,
     CallsAlwaysGetRecentConfig, CallsAlwaysBilledOnce, BookingsAlwaysAgree, RemindersAlwaysHeed,
     CallerNeverStranded, TrunkStaysWithinLimit, SupervisorAlwaysAgrees, ApprovalAlwaysStands,
     SlotsAlwaysAgree, PTL
===============================================================================
