------------------------------- MODULE Payments -------------------------------
(* Payment links (apps/api/parlio_api/payments.py, PaymentService and its        *)
(* routes): requesting a link, texting it, cancelling, refunding, and the        *)
(* provider's webhooks.                                                          *)
(*                                                                               *)
(* A request is one document, read and put back whole with awaits in between:    *)
(* `payHeld' is the copy an operation works on.  All requests of the model are   *)
(* for the same call, customer, amount and description, so they share the key    *)
(* _by_key looks for.  Outside: the provider's session of every link, the        *)
(* refunds it has made and the events it has still to deliver, in any order and  *)
(* possibly again.  The provider accepts every refund it is asked for, as the    *)
(* simulated one does: what stops a refund is the code's own check.              *)
(* sweep_expired has no caller and is left out.                                  *)
EXTENDS Integers, FiniteSets

CONSTANTS
  PayIds,     \* requests that can be created: a bound
  PayProcs,   \* requests to the API that can be in flight together
  PayNoId,
  PayAmount,  \* amount_pence
  PayMoves    \* bound: cancels, refunds, restarts and events delivered again

ASSUME PaymentsAssumption ==
  /\ PayAmount \in Nat \ {0}
  /\ PayMoves \in Nat
  /\ PayNoId \notin PayIds

VARIABLES
  payDoc,       \* the stored requests
  paySession,   \* the provider's session of each request
  payRefunded,  \* what the provider has refunded of each
  payEvents,    \* events the provider has to deliver
  payPc, payCur, payHeld,
  payEvent,     \* the event a webhook handler works on
  payBack,      \* refund under way: the amount
  payMoves

\* History, for the properties only.
VARIABLES
  payFresh,    \* processes whose copy, or whose search, nobody has overtaken
  payTorn,     \* requests that have lost an update
  payRaced,    \* a link was created on a search that was overtaken
  payFailed,   \* requests whose `failed' has been handled
  payRepaid    \* requests refunded in full and then marked by a further event

payLocal == <<payPc, payCur, payHeld, payEvent, payBack>>
payGhost == <<payFresh, payTorn, payRaced, payFailed, payRepaid>>
paymentsVars == <<payDoc, paySession, payRefunded, payEvents, payLocal,
                  payMoves, payGhost>>

PayOpen   == {"pending", "sent"}
PayClosed == {"cancelled", "expired", "failed"}
PayTaken  == {"paid", "refunded"}
PayStatus == {"absent"} \cup PayOpen \cup PayClosed \cup PayTaken

PaymentRequest == [status: PayStatus, refunded: Int]
PayAbsent == [status |-> "absent", refunded |-> 0]

PayKinds == {"completed", "succeeded", "failed", "expired"}
PayNoEvent == "none"
PayPC == {"idle", "create", "text", "cancel", "refund", "refunded", "hook"}
PaySessions == {"none", "open", "processing", "charged", "failed", "expired"}

PaymentsInit ==
  /\ payDoc = [i \in PayIds |-> PayAbsent]
  /\ paySession = [i \in PayIds |-> "none"]
  /\ payRefunded = [i \in PayIds |-> 0]
  /\ payEvents = {}
  /\ payPc = [p \in PayProcs |-> "idle"]
  /\ payCur = [p \in PayProcs |-> PayNoId]
  /\ payHeld = [p \in PayProcs |-> PayAbsent]
  /\ payEvent = [p \in PayProcs |-> PayNoEvent]
  /\ payBack = [p \in PayProcs |-> 0]
  /\ payMoves = 0
  /\ payFresh = {}
  /\ payTorn = {}
  /\ payRaced = FALSE
  /\ payFailed = {}
  /\ payRepaid = {}

-------------------------------------------------------------------------------
(* Documents.                                                                   *)

\* put_doc: p's copy replaces the request, whatever is stored now.
PayPut(p, i, doc) ==
  /\ payDoc' = [payDoc EXCEPT ![i] = doc]
  /\ payTorn' = IF p \in payFresh THEN payTorn ELSE payTorn \cup {i}
  /\ payFresh' = payFresh \ {q \in PayProcs : payCur[q] = i}

\* get: p takes a copy of a request of its tenant.
PayGet(p, i, doc, next) ==
  /\ payPc' = [payPc EXCEPT ![p] = next]
  /\ payCur' = [payCur EXCEPT ![p] = i]
  /\ payHeld' = [payHeld EXCEPT ![p] = doc]
  /\ payFresh' = payFresh \cup {p}

PayDone(p) ==
  /\ payPc' = [payPc EXCEPT ![p] = "idle"]
  /\ payCur' = [payCur EXCEPT ![p] = PayNoId]
  /\ payHeld' = [payHeld EXCEPT ![p] = PayAbsent]
  /\ payEvent' = [payEvent EXCEPT ![p] = PayNoEvent]
  /\ payBack' = [payBack EXCEPT ![p] = 0]

\* Mutant: what was refunded before is not taken off.
PayRemainingAll(doc) == PayAmount

PayRemaining(doc) == PayAmount - doc.refunded

\* refund: the copy once the provider has accepted `amt'.
PayAfterRefund(doc, amt) ==
  [status |-> IF doc.refunded + amt >= PayAmount THEN "refunded" ELSE doc.status,
   refunded |-> doc.refunded + amt]

\* Mutant: an event for a link that is closed is taken no notice of.
PayAfterEventIfOpen(doc, kind) ==
  IF doc.status \in PayClosed THEN doc
  ELSE [doc EXCEPT !.status =
          CASE kind \in {"completed", "succeeded"} -> "paid"
            [] kind = "expired" -> IF @ \in PayOpen THEN "expired" ELSE @
            [] OTHER -> "failed"]

\* handle_webhook: the copy after an event.
PayAfterEvent(doc, kind) ==
  [doc EXCEPT !.status =
     CASE kind \in {"completed", "succeeded"} -> "paid"
       [] kind = "expired" -> IF @ \in PayOpen THEN "expired" ELSE @
       [] OTHER -> "failed"]

-------------------------------------------------------------------------------
(* request_link and send_link.                                                  *)

\* Mutant: no search for a request with the same key.
PayFindNothing(p) ==
  /\ payPc[p] = "idle"
  /\ payPc' = [payPc EXCEPT ![p] = "create"]
  /\ payFresh' = payFresh \cup {p}
  /\ UNCHANGED <<payDoc, paySession, payRefunded, payEvents, payCur, payHeld, payEvent,
                 payBack, payMoves, payTorn, payRaced, payFailed, payRepaid>>

\* No usable request has the key: a new one will be made.  (One that is found
\* is returned and nothing changes.)
PayFind(p) ==
  /\ payPc[p] = "idle"
  /\ \A i \in PayIds : payDoc[i].status \in PayClosed \cup {"absent"}
  /\ payPc' = [payPc EXCEPT ![p] = "create"]
  /\ payFresh' = payFresh \cup {p}
  /\ UNCHANGED <<payDoc, paySession, payRefunded, payEvents, payCur, payHeld, payEvent,
                 payBack, payMoves, payTorn, payRaced, payFailed, payRepaid>>

\* The provider makes a page and the request is saved, its link not yet texted.
PayCreate(p) ==
  /\ payPc[p] = "create"
  /\ \E i \in PayIds :
       /\ payDoc[i].status = "absent"
       /\ LET doc == [status |-> "pending", refunded |-> 0] IN
          /\ payDoc' = [payDoc EXCEPT ![i] = doc]
          /\ paySession' = [paySession EXCEPT ![i] = "open"]
          /\ payPc' = [payPc EXCEPT ![p] = "text"]
          /\ payCur' = [payCur EXCEPT ![p] = i]
          /\ payHeld' = [payHeld EXCEPT ![p] = doc]
  /\ payRaced' = (payRaced \/ p \notin payFresh)
  /\ payFresh' = {q \in payFresh : payPc[q] # "create"} \cup {p}
  /\ UNCHANGED <<payRefunded, payEvents, payEvent, payBack, payMoves, payTorn,
                 payFailed, payRepaid>>

\* create_link raises: nothing was saved.
PayRefused(p) ==
  /\ payPc[p] = "create"
  /\ PayDone(p)
  /\ payFresh' = payFresh \ {p}
  /\ UNCHANGED <<payDoc, paySession, payRefunded, payEvents, payMoves, payTorn,
                 payRaced, payFailed, payRepaid>>

\* send_link: the text went out, or was skipped or failed, and the copy is saved.
PayText(p) ==
  /\ payPc[p] = "text"
  /\ \E sent \in BOOLEAN :
       PayPut(p, payCur[p], IF sent THEN [payHeld[p] EXCEPT !.status = "sent"] ELSE payHeld[p])
  /\ PayDone(p)
  /\ UNCHANGED <<paySession, payRefunded, payEvents, payMoves, payRaced, payFailed, payRepaid>>

-------------------------------------------------------------------------------
(* The dashboard: cancel and refund.                                            *)

PayCancel(p, i) ==
  /\ payPc[p] = "idle"
  /\ payDoc[i].status \in PayOpen
  /\ payMoves < PayMoves /\ payMoves' = payMoves + 1
  /\ PayGet(p, i, [payDoc[i] EXCEPT !.status = "cancelled"], "cancel")
  /\ UNCHANGED <<payDoc, paySession, payRefunded, payEvents, payEvent, payBack,
                 payTorn, payRaced, payFailed, payRepaid>>

\* The checks of refund, and what is left to do by the provider.
PayRefund(p, i, amt) ==
  /\ payPc[p] = "idle"
  /\ payDoc[i].status \in PayTaken
  /\ amt > 0 /\ amt <= PayRemaining(payDoc[i])
  /\ PayGet(p, i, payDoc[i], "refund")
  /\ payMoves < PayMoves /\ payMoves' = payMoves + 1
  /\ payBack' = [payBack EXCEPT ![p] = amt]
  /\ UNCHANGED <<payDoc, paySession, payRefunded, payEvents, payEvent, payTorn, payRaced,
                 payFailed, payRepaid>>

PayProviderRefunds(p) ==
  /\ payPc[p] = "refund"
  /\ payRefunded' = [payRefunded EXCEPT ![payCur[p]] = @ + payBack[p]]
  /\ payPc' = [payPc EXCEPT ![p] = "refunded"]
  /\ payHeld' = [payHeld EXCEPT ![p] = PayAfterRefund(@, payBack[p])]
  /\ UNCHANGED <<payDoc, paySession, payEvents, payCur, payEvent, payBack, payMoves,
                 payGhost>>

\* provider.refund raises: the refund was refused, or it was made and the answer is
\* lost, and the record never hears of it (a further refund is made on top).
PayRefundFails(p) ==
  /\ payPc[p] = "refund"
  /\ \/ UNCHANGED <<payRefunded, payTorn>>
     \/ /\ payRefunded' = [payRefunded EXCEPT ![payCur[p]] = @ + payBack[p]]
        /\ payTorn' = payTorn \cup {payCur[p]}
  /\ PayDone(p)
  /\ payFresh' = payFresh \ {p}
  /\ UNCHANGED <<payDoc, paySession, payEvents, payMoves, payRaced, payFailed, payRepaid>>

\* cancel and refund save their copy.
PaySave(p) ==
  /\ payPc[p] \in {"cancel", "refunded"}
  /\ PayPut(p, payCur[p], payHeld[p])
  /\ PayDone(p)
  /\ UNCHANGED <<paySession, payRefunded, payEvents, payMoves, payRaced, payFailed, payRepaid>>

-------------------------------------------------------------------------------
(* handle_webhook: the request is read, the paid hook awaited, the copy saved.  *)

PayHook(p) ==
  /\ payPc[p] = "idle"
  /\ \E e \in payEvents :
       /\ PayGet(p, e[1], PayAfterEvent(payDoc[e[1]], e[2]), "hook")
       /\ payEvent' = [payEvent EXCEPT ![p] = e[2]]
  /\ UNCHANGED <<payDoc, paySession, payRefunded, payEvents, payBack, payMoves,
                 payTorn, payRaced, payFailed, payRepaid>>

\* The answer may be lost on the way: then the event is delivered again.
PayHookSave(p) ==
  LET e == <<payCur[p], payEvent[p]>> IN
  /\ payPc[p] = "hook"
  /\ PayPut(p, payCur[p], payHeld[p])
  /\ PayDone(p)
  /\ payFailed' = IF e[2] = "failed" THEN payFailed \cup {e[1]} ELSE payFailed
  /\ \/ payEvents' = payEvents \ {e} /\ payMoves' = payMoves
     \/ payMoves < PayMoves /\ payMoves' = payMoves + 1 /\ payEvents' = payEvents \cup {e}
  /\ payRepaid' = IF payHeld[p].refunded >= PayAmount /\ payHeld[p].status # "refunded"
                  THEN payRepaid \cup {e[1]} ELSE payRepaid
  /\ UNCHANGED <<paySession, payRefunded, payRaced>>

-------------------------------------------------------------------------------
(* The provider.                                                                *)

PaySessionTo(i, from, to, kinds) ==
  /\ paySession[i] = from
  /\ paySession' = [paySession EXCEPT ![i] = to]
  /\ payEvents' = payEvents \cup ({i} \X kinds)
  /\ UNCHANGED <<payDoc, payRefunded, payLocal, payMoves, payGhost>>

\* The customer pays by card, or by a method whose money comes, or not, later.
PayProvider(i) ==
  \/ PaySessionTo(i, "open", "charged", {"completed"})
  \/ PaySessionTo(i, "open", "processing", {"completed"})
  \/ PaySessionTo(i, "open", "expired", {"expired"})
  \/ PaySessionTo(i, "processing", "charged", {"succeeded"})
  \/ PaySessionTo(i, "processing", "failed", {"failed"})

\* The API process stops: every request in flight is lost.
PayRestart ==
  /\ payMoves < PayMoves
  /\ \E p \in PayProcs : payPc[p] # "idle"
  /\ payMoves' = payMoves + 1
  /\ payTorn' = payTorn \cup {payCur[p] : p \in {q \in PayProcs : payPc[q] = "refunded"}}
  /\ payPc' = [p \in PayProcs |-> "idle"]
  /\ payCur' = [p \in PayProcs |-> PayNoId]
  /\ payHeld' = [p \in PayProcs |-> PayAbsent]
  /\ payEvent' = [p \in PayProcs |-> PayNoEvent]
  /\ payBack' = [p \in PayProcs |-> 0]
  /\ payFresh' = {}
  /\ UNCHANGED <<payDoc, paySession, payRefunded, payEvents, payRaced, payFailed, payRepaid>>

PaymentsNext ==
  \/ \E p \in PayProcs : PayFind(p) \/ PayCreate(p) \/ PayRefused(p) \/ PayText(p)
  \/ \E p \in PayProcs, i \in PayIds : PayCancel(p, i)
  \/ \E p \in PayProcs, i \in PayIds, amt \in 1..PayAmount : PayRefund(p, i, amt)
  \/ \E p \in PayProcs : PayProviderRefunds(p) \/ PayRefundFails(p) \/ PaySave(p)
  \/ \E p \in PayProcs : PayHook(p) \/ PayHookSave(p)
  \/ \E i \in PayIds : PayProvider(i)
  \/ PayRestart

PaymentsSpec == PaymentsInit /\ [][PaymentsNext]_paymentsVars

-------------------------------------------------------------------------------
(* Properties.                                                                  *)

PaymentsTypeOK ==
  /\ payDoc \in [PayIds -> PaymentRequest]
  /\ paySession \in [PayIds -> PaySessions]
  /\ payRefunded \in [PayIds -> Int]
  /\ payEvents \subseteq PayIds \X PayKinds
  /\ payPc \in [PayProcs -> PayPC]
  /\ payCur \in [PayProcs -> PayIds \cup {PayNoId}]
  /\ payHeld \in [PayProcs -> PaymentRequest]
  /\ payEvent \in [PayProcs -> PayKinds \cup {PayNoEvent}]
  /\ payBack \in [PayProcs -> Int]
  /\ payMoves \in Nat
  /\ payFresh \subseteq PayProcs
  /\ payTorn \subseteq PayIds
  /\ payRaced \in BOOLEAN
  /\ payFailed \subseteq PayIds
  /\ payRepaid \subseteq PayIds

\* The provider's money and the record agree once every event has been handled:
\* a request reads paid (or refunded) exactly when its session was charged or is
\* still processing, whatever was texted, cancelled, refunded or delivered again
\* in between.  Out of this: a request one of whose writes was lost, and one
\* whose `completed' was handled after its `failed' (handle_webhook).
PaymentAgrees ==
  \A i \in PayIds \ payTorn :
    \/ \E e \in payEvents : e[1] = i
    \/ i \in payFailed
    \/ payDoc[i].status \in PayTaken <=> paySession[i] \in {"charged", "processing"}

\* Refunds: the record never says that more was given back than the provider gave
\* back, whatever is lost.  And while no refund is between the provider and its save,
\* what the provider has given back is what the record says and no more than was
\* paid, unless a write of the request was lost, or the provider's answer was.  Two
\* refunds at once, a webhook across a refund and a restart before the save are the
\* ways to lose a write (refund).  What was given back in full reads refunded, until
\* an event of the payment that comes again, or late, marks it paid (handle_webhook).
RefundsAgree ==
  /\ \A i \in PayIds : payDoc[i].refunded <= payRefunded[i]
  /\ \A i \in PayIds \ payTorn :
       \/ \E p \in PayProcs : payPc[p] = "refunded" /\ payCur[p] = i
       \/ /\ payRefunded[i] = payDoc[i].refunded
          /\ payRefunded[i] \in 0..PayAmount
          /\ payRefunded[i] = PayAmount => payDoc[i].status = "refunded" \/ i \in payRepaid

\* A retried tool call or a second turn of the model does not put two links in
\* the customer's hands: two open requests for one thing exist only if a link was
\* created on a search another request had overtaken, or a save brought a
\* cancelled one back (request_link).
OneOpenLink ==
  \A i, j \in PayIds :
    payDoc[i].status \in PayOpen /\ payDoc[j].status \in PayOpen /\ i # j
      => payRaced \/ {i, j} \cap payTorn # {}
===============================================================================
