---------------------------- MODULE BillingProofs -----------------------------
(* Proofs about billing: Subscriptions, for any plans, requests, hooks and restarts; *)
(* sums over finite sets; and Invoices, for any processes, calls, credits and        *)
(* restarts.                                                                         *)
EXTENDS Subscriptions, Invoices, FiniteSetTheorems, WellFoundedInduction, TLAPS

-------------------------------------------------------------------------------
(* Subscriptions: the invariant. *)

SbWrites == {"plan", "checkout", "status", "extend", "convert", "session"} \cup SbHooks

\* A document with a card on file has no trial's reason on it; and the calls are paused
\* for the sake of a trial only with a notice.
SbSound(d) ==
  /\ d.ref => d.reason \notin SbTrialReasons
  /\ d.status = "suspended" /\ d.reason \in SbTrialReasons => "paused" \in d.notices

\* Where an operation can be, and what it does there.
SbPlaced ==
  /\ \A p \in SbReqs :
       /\ sbPc[p] \in {"idle", "roll", "save", "provider"}
       /\ sbPc[p] = "roll" => sbOp[p] \in {"look"} \cup SbWrites
       /\ sbPc[p] = "save" => sbOp[p] \in SbWrites
       /\ sbPc[p] = "provider" => sbOp[p] = "checkout"
  /\ sbPc[SbLoop] \in {"idle", "return", "save", "notify"}
  /\ sbPc[SbLoop] # "idle" => sbOp[SbLoop] \in SbEvents

SbSounds == SbSound(sbDoc) /\ \A p \in SbProcs : SbSound(sbCopy[p])

\* A write that puts the card on file, on its way.
SbWithCard(op) == op = "completed" \/ (op = "session" /\ ~sbStripe)

\* What an operation holds that nobody has overtaken: a card is never lost, nor is a
\* notice, unless the trial is extended.
SbCurrent ==
  \A p \in SbReqs :
    /\ sbPc[p] = "save" /\ SbWithCard(sbOp[p]) => sbCopy[p].ref
    /\ p \in sbFresh /\ sbPc[p] # "idle" =>
         /\ sbDoc.ref => sbCopy[p].ref
         /\ \/ sbCopy[p].notices = sbDoc.notices
            \/ sbPc[p] = "save" /\ sbOp[p] = "extend" /\ sbCopy[p].notices = {}

\* The same of the sweep: the trial has no card, and its notice is a new one.
SbSweeps ==
  SbLoop \in sbFresh =>
    /\ sbPc[SbLoop] \in {"return", "save"} =>
         /\ ~sbDoc.ref
         /\ sbOp[SbLoop] \notin sbDoc.notices
         /\ sbOp[SbLoop] \in sbCopy[SbLoop].notices
         /\ sbDoc.notices \subseteq sbCopy[SbLoop].notices
         /\ sbOp[SbLoop] = "closed" => "paused" \in sbCopy[SbLoop].notices
    /\ sbPc[SbLoop] = "notify" =>
         /\ sbOp[SbLoop] \in sbDoc.notices
         /\ ~sbTorn => sbSent[sbOp[SbLoop]] = 0
         /\ sbOp[SbLoop] = "closed" => "paused" \in sbDoc.notices

\* What was sent is in the document, once.
SbTold ==
  ~sbTorn =>
    /\ sbPaid => sbDoc.ref
    /\ ~sbTaken
    /\ \A e \in SbEvents : sbSent[e] <= 1 /\ (sbSent[e] = 1 => e \in sbDoc.notices)
    /\ sbSent["closed"] = 1 => "paused" \in sbDoc.notices

SbInv == SubscriptionsTypeOK /\ SbPlaced /\ SbSounds /\ SbCurrent /\ SbSweeps /\ SbTold

USE SubscriptionsAssumption

\* What an operation makes of a document.
SbAfter(op, d, c) ==
  /\ c \in SbSub /\ (SbSound(d) => SbSound(c)) /\ (d.ref => c.ref)
  /\ c.notices = d.notices \/ (op = "extend" /\ c.notices = {})
  /\ SbWithCard(op) => c.ref

LEMMA SbNewSound == SbNew \in SbSub /\ SbSound(SbNew)
BY DEF SbNew, SbSub, SbSound, SbStatus

LEMMA SbUntrialIs ==
  ASSUME NEW d \in SbSub
  PROVE  /\ SbUntrial(d) \in SbSub /\ SbUntrial(d).notices = d.notices
         /\ SbUntrial(d).ref = d.ref /\ SbUntrial(d).reason \notin SbTrialReasons
BY DEF SbUntrial, SbSub, SbTrialReasons

LEMMA SbRolledIs ==
  ASSUME NEW d \in SbSub
  PROVE  /\ SbRolled(d) \in SbSub /\ (SbSound(d) => SbSound(SbRolled(d)))
         /\ SbRolled(d).ref = d.ref /\ SbRolled(d).notices = d.notices
BY DEF SbRolled, SbSub, SbSound, SbStatus, SbTrialReasons

LEMMA SbUpdatedIs ==
  ASSUME SbInv, NEW op \in SbWrites, NEW d \in SbSub, NEW c \in SbUpdated(op, d)
  PROVE  SbAfter(op, d, c)
<1>1. sbNow \in Nat
  BY DEF SbInv, SubscriptionsTypeOK
<1>2. CASE op \in {"plan", "checkout"}
  <2>1. c \in SbReplanned(d)
    BY <1>2 DEF SbUpdated
  <2>2. CASE c = d
    BY <1>2, <2>2 DEF SbAfter, SbWithCard
  <2>3. CASE c # d
    <3>1. PICK days \in 0 .. SbTrial :
            c = IF days <= sbNow THEN [d EXCEPT !.status = "active", !.ends = SbNoTrial]
                ELSE [d EXCEPT !.ends = days]
      BY <2>1, <2>3 DEF SbReplanned
    <3>2. days \in Int /\ SbNoTrial \in Int
      BY DEF SbNoTrial
    <3> QED
      BY <1>2, <3>1, <3>2 DEF SbAfter, SbWithCard, SbSub, SbSound, SbStatus
  <2> QED
    BY <2>2, <2>3
<1>3. CASE op = "session"
  <2> DEFINE e == [d EXCEPT !.customer = TRUE]
  <2>1. e \in SbSub /\ e.ref = d.ref /\ e.notices = d.notices /\ (SbSound(d) => SbSound(e))
    BY DEF SbSub, SbSound
  <2>2. c = IF sbStripe THEN e ELSE [SbUntrial(e) EXCEPT !.status = "active", !.ref = TRUE]
    BY <1>3 DEF SbUpdated
  <2> HIDE DEF e
  <2>3. CASE sbStripe
    BY <1>3, <2>1, <2>2, <2>3 DEF SbAfter, SbWithCard
  <2>4. CASE ~sbStripe
    BY <1>3, <2>1, <2>2, <2>4, SbUntrialIs DEF SbAfter, SbWithCard, SbSub, SbSound, SbStatus
  <2> QED
    BY <2>3, <2>4
<1>4. CASE op = "completed"
  <2>1. c = [SbUntrial(d) EXCEPT !.status = IF SbRunning(d) THEN "trialing" ELSE "active",
                                 !.ref = TRUE]
    BY <1>4 DEF SbUpdated, SbHooks
  <2>2. PICK s \in SbStatus : c = [SbUntrial(d) EXCEPT !.status = s, !.ref = TRUE]
    BY <2>1 DEF SbStatus
  <2>3. /\ c \in SbSub /\ c.ref /\ c.notices = d.notices /\ c.reason \notin SbTrialReasons
    <3> DEFINE u == SbUntrial(d)
    <3>1. /\ u \in SbSub /\ u.notices = d.notices /\ u.reason \notin SbTrialReasons
      BY SbUntrialIs
    <3>2. c = [u EXCEPT !.status = s, !.ref = TRUE]
      BY <2>2
    <3> HIDE DEF u
    <3> QED
      BY <3>1, <3>2 DEF SbSub
  <2> QED
    BY <1>4, <2>3 DEF SbAfter, SbSound
<1>5. CASE op \in {"paid", "failed", "deleted"}
  <2>1. \/ c = d \/ c = [d EXCEPT !.status = "active"]
        \/ c = [d EXCEPT !.status = "past_due"] \/ c = [d EXCEPT !.status = "cancelled"]
    BY <1>5 DEF SbUpdated, SbHooks
  <2> QED
    BY <1>5, <2>1 DEF SbAfter, SbWithCard, SbSub, SbSound, SbStatus
<1>6. CASE op = "status"
  <2>1. PICK s \in SbStaff : c = [d EXCEPT !.status = s, !.reason = "staff"]
    BY <1>6 DEF SbUpdated, SbHooks
  <2> QED
    BY <1>6, <2>1 DEF SbAfter, SbWithCard, SbSub, SbSound, SbStatus, SbStaff, SbTrialReasons
<1>7. CASE op = "extend"
  <2> DEFINE longer == [d EXCEPT !.ends = SbTrial + IF @ < sbNow THEN sbNow ELSE @]
  <2>1. longer \in SbSub /\ longer.ref = d.ref /\ longer.notices = d.notices
        /\ (SbSound(d) => SbSound(longer))
    BY <1>1 DEF SbSub, SbSound
  <2>2. \/ c = longer
        \/ c = [longer EXCEPT !.status = "trialing", !.reason = "none", !.notices = {}]
    BY <1>7 DEF SbUpdated, SbHooks
  <2> HIDE DEF longer
  <2> QED
    BY <1>7, <2>1, <2>2 DEF SbAfter, SbWithCard, SbSub, SbSound, SbStatus, SbTrialReasons
<1>8. CASE op = "convert"
  <2>1. c = [d EXCEPT !.status = "active", !.ends = SbNoTrial, !.reason = "none"]
    BY <1>8 DEF SbUpdated, SbHooks
  <2>2. SbNoTrial \in Int
    BY DEF SbNoTrial
  <2> QED
    BY <1>8, <2>1, <2>2 DEF SbAfter, SbWithCard, SbSub, SbSound, SbStatus, SbTrialReasons
<1> QED
  BY <1>2, <1>3, <1>4, <1>5, <1>6, <1>7, <1>8 DEF SbWrites, SbHooks

\* What the sweep makes of a document that is due for a notice.
LEMMA SbSweptIs ==
  ASSUME SbInv, SbUnpaidTrial(sbDoc), NEW event, event = SbDue(sbDoc),
         event \notin {"none"} \cup sbDoc.notices
  PROVE  LET c == SbSwept(sbDoc, event)
         IN  /\ event \in SbEvents /\ c \in SbSub /\ SbSound(c) /\ event \in c.notices
             /\ sbDoc.notices \subseteq c.notices
             /\ event = "closed" => "paused" \in c.notices
<1>1. event \in SbEvents
  BY DEF SbDue, SbEvents
<1> DEFINE told == [sbDoc EXCEPT !.notices = @ \cup {event} \cup
                                   (IF event = "expired" THEN {"reminder"} ELSE {})]
<1>2. /\ told \in SbSub /\ event \in told.notices /\ sbDoc.notices \subseteq told.notices
      /\ told.ref = sbDoc.ref /\ told.status = sbDoc.status /\ told.reason = sbDoc.reason
  BY <1>1 DEF SbInv, SubscriptionsTypeOK, SbSub, SbEvents
<1>3. ~sbDoc.ref /\ SbSound(sbDoc)
  BY DEF SbUnpaidTrial, SbInv, SbSounds
<1>4. event = "closed" => "paused" \in sbDoc.notices
  BY <1>3 DEF SbDue, SbUnpaidTrial, SbSound
<1>5. SbSound(told)
  BY <1>2, <1>3 DEF SbSound
<1>6. SbSwept(sbDoc, event) =
        CASE event = "reminder" -> told
          [] event = "expired" -> [told EXCEPT !.status = "past_due", !.reason = "grace"]
          [] event = "paused" -> [told EXCEPT !.status = "suspended", !.reason = "calls paused"]
          [] event = "closed" -> [told EXCEPT !.status = "cancelled", !.reason = "closed"]
  BY DEF SbSwept
<1> HIDE DEF told
<1>7. CASE event = "reminder"
  BY <1>1, <1>2, <1>5, <1>6, <1>7
<1>8. CASE event = "expired"
  BY <1>1, <1>2, <1>3, <1>6, <1>8 DEF SbSound, SbSub, SbStatus, SbTrialReasons
<1>9. CASE event = "paused"
  BY <1>1, <1>2, <1>3, <1>6, <1>9 DEF SbSound, SbSub, SbStatus, SbTrialReasons
<1>10. CASE event = "closed"
  BY <1>1, <1>2, <1>3, <1>4, <1>6, <1>10 DEF SbSound, SbSub, SbStatus, SbTrialReasons
<1> QED
  BY <1>1, <1>7, <1>8, <1>9, <1>10 DEF SbEvents

LEMMA SbRequestInv ==
  ASSUME SbInv, NEW p \in SbReqs, NEW op \in {"look"} \cup SbWrites, SbRequest(p, op)
  PROVE  SbInv'
<1>0. PICK next \in {"save", "roll"}, copy \in SbSub :
        /\ SbRead(p, op, next, copy)
        /\ SbSound(copy) /\ (sbDoc.ref => copy.ref)
        /\ \/ copy.notices = sbDoc.notices
           \/ next = "save" /\ op = "extend" /\ copy.notices = {}
        /\ next = "save" => op \in SbWrites /\ (SbWithCard(op) => copy.ref)
  <2>1. sbDoc \in SbSub /\ SbSound(sbDoc)
    BY DEF SbInv, SubscriptionsTypeOK, SbSounds
  <2>2. CASE op # "look" /\ \E d \in SbUpdated(op, sbDoc) : SbRead(p, op, "save", d)
    BY <2>1, <2>2, SbUpdatedIs DEF SbAfter
  <2>3. CASE SbRead(p, op, "roll", SbRolled(sbDoc))
    BY <2>1, <2>3, SbRolledIs
  <2> QED
    BY <2>2, <2>3 DEF SbRequest
<1>1. SubscriptionsTypeOK'
  BY <1>0 DEF SbInv, SubscriptionsTypeOK, SbPC, SbProcs, SbOps, SbWrites, SbHooks,
         SbEvents, SbRequest, SbStart, SbRead, SbGoto
<1>2. SbPlaced'
  BY <1>0 DEF SbInv, SubscriptionsTypeOK, SbPlaced, SbWrites, SbHooks, SbEvents, SbProcs,
         SbRequest, SbStart, SbRead, SbGoto
<1>3. SbSounds'
  BY <1>0 DEF SbInv, SubscriptionsTypeOK, SbSounds, SbProcs, SbRequest, SbStart, SbRead,
         SbGoto
<1>4. SbCurrent'
  BY <1>0 DEF SbInv, SubscriptionsTypeOK, SbCurrent, SbPlaced, SbWithCard, SbProcs,
         SbRequest, SbStart, SbRead, SbGoto
<1>5. SbSweeps'
  BY <1>0 DEF SbInv, SubscriptionsTypeOK, SbSweeps, SbPlaced, SbProcs, SbTold, SbRequest,
         SbStart, SbRead, SbGoto
<1>6. SbTold'
  BY <1>0 DEF SbInv, SubscriptionsTypeOK, SbTold, SbCurrent, SbPlaced, SbSweeps,
         SbWithCard, SbProcs, SbRequest, SbStart, SbRead, SbGoto
<1> QED
  BY <1>1, <1>2, <1>3, <1>4, <1>5, <1>6 DEF SbInv

LEMMA SbRollInv == ASSUME SbInv, NEW p \in SbReqs, SbRoll(p) PROVE SbInv'
<1>0. /\ sbPc[p] = "roll" /\ SbSave(p)
      /\ \/ SbIdle(p)
         \/ \E d \in SbSub : /\ sbCopy' = [sbCopy EXCEPT ![p] = d]
                             /\ SbGoto(p, "save") /\ UNCHANGED sbOp
                             /\ SbAfter(sbOp[p], sbCopy[p], d) /\ sbOp[p] \in SbWrites
      /\ sbDoc \in SbSub /\ sbCopy[p] \in SbSub
  <2>1. sbOp[p] \in {"look"} \cup SbWrites /\ sbCopy[p] \in SbSub
    BY DEF SbRoll, SbInv, SbPlaced, SubscriptionsTypeOK, SbProcs
  <2> QED
    BY <2>1, SbUpdatedIs DEF SbRoll, SbInv, SubscriptionsTypeOK, SbAfter
<1> USE DEF SbAfter
<1>1. SubscriptionsTypeOK'
  BY <1>0, SbNewSound DEF SbInv, SubscriptionsTypeOK, SbPC, SbProcs, SbOps, SbWrites,
         SbHooks, SbEvents, SbRoll, SbSave, SbIdle, SbGoto
<1>2. SbPlaced'
  BY <1>0, SbNewSound DEF SbInv, SubscriptionsTypeOK, SbPlaced, SbWrites, SbHooks, SbEvents,
         SbProcs, SbRoll, SbSave, SbIdle, SbGoto
<1>3. SbSounds'
  BY <1>0, SbNewSound DEF SbInv, SubscriptionsTypeOK, SbSounds, SbProcs, SbRoll, SbSave,
         SbIdle, SbGoto
<1>4. SbCurrent'
  BY <1>0, SbNewSound DEF SbInv, SubscriptionsTypeOK, SbCurrent, SbPlaced, SbWithCard,
         SbProcs, SbRoll, SbSave, SbIdle, SbGoto
<1>5. SbSweeps'
  BY <1>0, SbNewSound DEF SbInv, SubscriptionsTypeOK, SbSweeps, SbPlaced, SbProcs, SbTold,
         SbRoll, SbSave, SbIdle, SbGoto
<1>6. SbTold'
  BY <1>0, SbNewSound DEF SbInv, SubscriptionsTypeOK, SbTold, SbCurrent, SbPlaced, SbSweeps,
         SbWithCard, SbProcs, SbRoll, SbSave, SbIdle, SbGoto
<1> QED
  BY <1>1, <1>2, <1>3, <1>4, <1>5, <1>6 DEF SbInv

LEMMA SbHookInv ==
  ASSUME SbInv, NEW p \in SbReqs, NEW op \in SbHooks, SbHook(p, op)
  PROVE  SbInv'
<1>0. PICK copy \in SbSub :
        /\ SbRead(p, op, "save", copy)
        /\ SbSound(copy) /\ (sbDoc.ref => copy.ref) /\ copy.notices = sbDoc.notices
        /\ op \in SbWrites /\ op # "extend" /\ (SbWithCard(op) => copy.ref)
  <2>1. sbDoc \in SbSub /\ SbSound(sbDoc)
    BY DEF SbInv, SubscriptionsTypeOK, SbSounds
  <2> QED
    BY <2>1, SbUpdatedIs DEF SbHook, SbAfter, SbWrites, SbHooks
<1>1. SubscriptionsTypeOK'
  BY <1>0 DEF SbInv, SubscriptionsTypeOK, SbPC, SbProcs, SbOps, SbWrites, SbHooks,
         SbEvents, SbHook, SbStart, SbRead, SbGoto
<1>2. SbPlaced'
  BY <1>0 DEF SbInv, SubscriptionsTypeOK, SbPlaced, SbWrites, SbHooks, SbEvents, SbProcs,
         SbHook, SbStart, SbRead, SbGoto
<1>3. SbSounds'
  BY <1>0 DEF SbInv, SubscriptionsTypeOK, SbSounds, SbProcs, SbHook, SbStart, SbRead,
         SbGoto
<1>4. SbCurrent'
  BY <1>0 DEF SbInv, SubscriptionsTypeOK, SbCurrent, SbPlaced, SbWithCard, SbProcs, SbHook,
         SbStart, SbRead, SbGoto
<1>5. SbSweeps'
  BY <1>0 DEF SbInv, SubscriptionsTypeOK, SbSweeps, SbPlaced, SbProcs, SbTold, SbHook,
         SbStart, SbRead, SbGoto
<1>6. SbTold'
  BY <1>0 DEF SbInv, SubscriptionsTypeOK, SbTold, SbCurrent, SbPlaced, SbSweeps,
         SbWithCard, SbProcs, SbHook, SbStart, SbRead, SbGoto
<1> QED
  BY <1>1, <1>2, <1>3, <1>4, <1>5, <1>6 DEF SbInv

LEMMA SbSavedInv == ASSUME SbInv, NEW p \in SbReqs, SbSaved(p) PROVE SbInv'
<1>1. SubscriptionsTypeOK'
  BY SbNewSound DEF SbInv, SubscriptionsTypeOK, SbPC, SbProcs, SbOps, SbWrites, SbHooks,
         SbEvents, SbSaved, SbSave, SbIdle, SbGoto
<1>2. SbPlaced'
  BY SbNewSound DEF SbInv, SubscriptionsTypeOK, SbPlaced, SbWrites, SbHooks, SbEvents,
         SbProcs, SbSaved, SbSave, SbIdle, SbGoto
<1>3. SbSounds'
  BY SbNewSound DEF SbInv, SubscriptionsTypeOK, SbSounds, SbProcs, SbSaved, SbSave, SbIdle,
         SbGoto
<1>4. SbCurrent'
  BY SbNewSound DEF SbInv, SubscriptionsTypeOK, SbCurrent, SbPlaced, SbWithCard, SbProcs,
         SbSaved, SbSave, SbIdle, SbGoto
<1>5. SbSweeps'
  BY SbNewSound DEF SbInv, SubscriptionsTypeOK, SbSweeps, SbPlaced, SbProcs, SbTold, SbSaved,
         SbSave, SbIdle, SbGoto
<1>6. SbTold'
  <2> SUFFICES ASSUME ~sbTorn' PROVE SbTold'
    BY DEF SbTold
  <2>1. /\ sbDoc' = sbCopy[p] /\ p \in sbFresh /\ ~sbTorn /\ sbPc[p] = "save"
        /\ sbPaid' => sbPaid \/ SbWithCard(sbOp[p])
        /\ sbTaken' = sbTaken
    BY DEF SbSaved, SbSave, SbInv, SubscriptionsTypeOK, SbWithCard
  <2>2. sbPaid' => sbDoc'.ref
    BY <2>1 DEF SbInv, SbTold, SbCurrent
  <2>3. CASE sbOp[p] = "extend" /\ sbCopy[p].notices = {}
    <3>1. sbSent' = [e \in SbEvents |-> 0]
      BY <2>3 DEF SbSaved
    <3>2. sbSent'["closed"] = 0
      BY <3>1 DEF SbEvents
    <3> QED
      BY <2>1, <2>2, <3>1, <3>2 DEF SbInv, SbTold
  <2>4. CASE ~(sbOp[p] = "extend" /\ sbCopy[p].notices = {})
    <3>1. sbSent' = sbSent /\ sbDoc'.notices = sbDoc.notices
      BY <2>1, <2>4 DEF SbSaved, SbInv, SbCurrent
    <3> QED
      BY <2>1, <2>2, <3>1 DEF SbInv, SbTold
  <2> QED
    BY <2>3, <2>4
<1> QED
  BY <1>1, <1>2, <1>3, <1>4, <1>5, <1>6 DEF SbInv

LEMMA SbCheckoutInv == ASSUME SbInv, NEW p \in SbReqs, SbCheckout(p) PROVE SbInv'
<1>0. PICK d \in SbSub : /\ sbCopy' = [sbCopy EXCEPT ![p] = d]
                         /\ SbAfter("session", sbCopy[p], d)
  <2>1. "session" \in SbWrites /\ sbCopy[p] \in SbSub
    BY DEF SbWrites, SbInv, SubscriptionsTypeOK, SbProcs
  <2>2. PICK d \in SbUpdated("session", sbCopy[p]) : sbCopy' = [sbCopy EXCEPT ![p] = d]
    BY DEF SbCheckout
  <2>3. SbAfter("session", sbCopy[p], d)
    BY <2>1, <2>2, SbUpdatedIs
  <2> QED
    BY <2>2, <2>3 DEF SbAfter
<1> USE DEF SbAfter
<1>1. SubscriptionsTypeOK'
  BY <1>0 DEF SbInv, SubscriptionsTypeOK, SbPC, SbProcs, SbOps, SbWrites, SbHooks,
         SbEvents, SbCheckout, SbGoto, sbGhost
<1>2. SbPlaced'
  BY <1>0 DEF SbInv, SubscriptionsTypeOK, SbPlaced, SbWrites, SbHooks, SbEvents, SbProcs,
         SbCheckout, SbGoto, sbGhost
<1>3. SbSounds'
  <2>1. SbSound(d)
    BY <1>0 DEF SbInv, SbSounds, SbProcs
  <2>2. UNCHANGED sbDoc
    BY DEF SbCheckout
  <2>3. SbSound(sbDoc)'
    BY <2>2 DEF SbInv, SbSounds, SbSound
  <2>4. ASSUME NEW q \in SbProcs PROVE SbSound(sbCopy[q])'
    <3>1. sbCopy'[q] = sbCopy[q] \/ sbCopy'[q] = d
      BY <1>0 DEF SbInv, SubscriptionsTypeOK
    <3> QED
      BY <2>1, <3>1 DEF SbInv, SbSounds, SbSound
  <2> QED
    BY <2>3, <2>4 DEF SbSounds
<1>4. SbCurrent'
  <2>1. /\ sbPc[p] = "provider" /\ sbPc'[p] = "save" /\ sbOp'[p] = "session" /\ sbCopy'[p] = d
        /\ \A q \in SbReqs \ {p} :
             sbPc'[q] = sbPc[q] /\ sbOp'[q] = sbOp[q] /\ sbCopy'[q] = sbCopy[q]
        /\ UNCHANGED <<sbDoc, sbFresh, sbStripe>>
    BY <1>0 DEF SbCheckout, SbGoto, sbGhost, SbInv, SubscriptionsTypeOK, SbProcs
  <2>2. /\ SbWithCard("session") => d.ref
        /\ sbCopy[p].ref => d.ref
        /\ d.notices = sbCopy[p].notices
    BY <1>0
  <2>3. SbWithCard("session")' <=> SbWithCard("session")
    BY <2>1 DEF SbWithCard
  <2> QED
    BY <2>1, <2>2, <2>3 DEF SbInv, SbCurrent, SbWithCard
<1>5. SbSweeps'
  BY <1>0 DEF SbInv, SubscriptionsTypeOK, SbSweeps, SbPlaced, SbProcs, SbTold, SbCheckout,
         SbGoto, sbGhost
<1>6. SbTold'
  BY <1>0 DEF SbInv, SubscriptionsTypeOK, SbTold, SbCurrent, SbPlaced, SbSweeps,
         SbWithCard, SbProcs, SbCheckout, SbGoto, sbGhost
<1> QED
  BY <1>1, <1>2, <1>3, <1>4, <1>5, <1>6 DEF SbInv

LEMMA SbPaysInv == ASSUME SbInv, SbPays PROVE SbInv'
<1>1. SubscriptionsTypeOK'
  BY DEF SbInv, SubscriptionsTypeOK, SbPC, SbProcs, SbOps, SbWrites, SbHooks, SbEvents,
         SbPays, sbLocal, sbGhost
<1>2. SbPlaced'
  BY DEF SbInv, SubscriptionsTypeOK, SbPlaced, SbWrites, SbHooks, SbEvents, SbProcs,
         SbPays, sbLocal, sbGhost
<1>3. SbSounds'
  BY DEF SbInv, SubscriptionsTypeOK, SbSounds, SbProcs, SbPays, sbLocal, sbGhost
<1>4. SbCurrent'
  BY DEF SbInv, SubscriptionsTypeOK, SbCurrent, SbPlaced, SbWithCard, SbProcs, SbPays,
         sbLocal, sbGhost
<1>5. SbSweeps'
  BY DEF SbInv, SubscriptionsTypeOK, SbSweeps, SbPlaced, SbProcs, SbTold, SbPays, sbLocal,
         sbGhost
<1>6. SbTold'
  BY DEF SbInv, SubscriptionsTypeOK, SbTold, SbCurrent, SbPlaced, SbSweeps, SbWithCard,
         SbProcs, SbPays, sbLocal, sbGhost
<1> QED
  BY <1>1, <1>2, <1>3, <1>4, <1>5, <1>6 DEF SbInv

LEMMA SbSweepInv == ASSUME SbInv, SbSweep PROVE SbInv'
<1>0. PICK event \in SbEvents, copy \in SbSub :
        /\ SbRead(SbLoop, event, IF event = "closed" THEN "return" ELSE "save", copy)
        /\ SbSound(copy) /\ event \in copy.notices /\ event \notin sbDoc.notices
        /\ sbDoc.notices \subseteq copy.notices
        /\ event = "closed" => "paused" \in copy.notices
        /\ ~sbDoc.ref
  BY SbSweptIs DEF SbSweep, SbUnpaidTrial
<1>1. SubscriptionsTypeOK'
  BY <1>0 DEF SbInv, SubscriptionsTypeOK, SbPC, SbProcs, SbOps, SbWrites, SbHooks,
         SbEvents, SbSweep, SbRead, SbGoto
<1>2. SbPlaced'
  BY <1>0 DEF SbInv, SubscriptionsTypeOK, SbPlaced, SbWrites, SbHooks, SbEvents, SbProcs,
         SbSweep, SbRead, SbGoto
<1>3. SbSounds'
  BY <1>0 DEF SbInv, SubscriptionsTypeOK, SbSounds, SbProcs, SbSweep, SbRead, SbGoto
<1>4. SbCurrent'
  BY <1>0 DEF SbInv, SubscriptionsTypeOK, SbCurrent, SbPlaced, SbWithCard, SbProcs,
         SbSweep, SbRead, SbGoto
<1>5. SbSweeps'
  BY <1>0 DEF SbInv, SubscriptionsTypeOK, SbSweeps, SbPlaced, SbProcs, SbTold, SbSweep,
         SbRead, SbGoto
<1>6. SbTold'
  BY <1>0 DEF SbInv, SubscriptionsTypeOK, SbTold, SbCurrent, SbPlaced, SbSweeps,
         SbWithCard, SbProcs, SbSweep, SbRead, SbGoto
<1> QED
  BY <1>1, <1>2, <1>3, <1>4, <1>5, <1>6 DEF SbInv

LEMMA SbReturnInv == ASSUME SbInv, SbReturn PROVE SbInv'
<1>1. SubscriptionsTypeOK'
  BY DEF SbInv, SubscriptionsTypeOK, SbPC, SbProcs, SbOps, SbWrites, SbHooks, SbEvents,
         SbReturn, SbGoto
<1>2. SbPlaced'
  BY DEF SbInv, SubscriptionsTypeOK, SbPlaced, SbWrites, SbHooks, SbEvents, SbProcs,
         SbReturn, SbGoto
<1>3. SbSounds'
  BY DEF SbInv, SubscriptionsTypeOK, SbSounds, SbProcs, SbReturn, SbGoto
<1>4. SbCurrent'
  BY DEF SbInv, SubscriptionsTypeOK, SbCurrent, SbPlaced, SbWithCard, SbProcs, SbReturn,
         SbGoto
<1>5. SbSweeps'
  BY DEF SbInv, SubscriptionsTypeOK, SbSweeps, SbPlaced, SbProcs, SbTold, SbReturn, SbGoto
<1>6. SbTold'
  BY DEF SbInv, SubscriptionsTypeOK, SbTold, SbCurrent, SbPlaced, SbSweeps, SbWithCard,
         SbProcs, SbReturn, SbGoto
<1> QED
  BY <1>1, <1>2, <1>3, <1>4, <1>5, <1>6 DEF SbInv

LEMMA SbSweepSavedInv == ASSUME SbInv, SbSweepSaved PROVE SbInv'
<1>1. SubscriptionsTypeOK'
  BY DEF SbInv, SubscriptionsTypeOK, SbPC, SbProcs, SbOps, SbWrites, SbHooks, SbEvents,
         SbSweepSaved, SbSave, SbGoto
<1>2. SbPlaced'
  BY DEF SbInv, SubscriptionsTypeOK, SbPlaced, SbWrites, SbHooks, SbEvents, SbProcs,
         SbSweepSaved, SbSave, SbGoto
<1>3. SbSounds'
  BY DEF SbInv, SubscriptionsTypeOK, SbSounds, SbProcs, SbSweepSaved, SbSave, SbGoto
<1>4. SbCurrent'
  BY DEF SbInv, SubscriptionsTypeOK, SbCurrent, SbPlaced, SbWithCard, SbProcs,
         SbSweepSaved, SbSave, SbGoto
<1>5. SbSweeps'
  BY DEF SbInv, SubscriptionsTypeOK, SbSweeps, SbPlaced, SbProcs, SbTold, SbSweepSaved,
         SbSave, SbGoto
<1>6. SbTold'
  BY DEF SbInv, SubscriptionsTypeOK, SbTold, SbCurrent, SbPlaced, SbSweeps, SbWithCard,
         SbProcs, SbSweepSaved, SbSave, SbGoto
<1> QED
  BY <1>1, <1>2, <1>3, <1>4, <1>5, <1>6 DEF SbInv

LEMMA SbNotifyInv == ASSUME SbInv, SbNotify PROVE SbInv'
<1>1. SubscriptionsTypeOK'
  <2>1. sbSent' \in [SbEvents -> Nat]
    <3>1. sbOp[SbLoop] \in SbEvents /\ sbSent \in [SbEvents -> Nat]
      BY DEF SbNotify, SbInv, SbPlaced, SubscriptionsTypeOK
    <3>2. sbSent[sbOp[SbLoop]] + 1 \in Nat
      BY <3>1
    <3> QED
      BY <3>1, <3>2 DEF SbNotify
  <2>2. /\ sbPc' \in [SbProcs -> SbPC] /\ sbOp' \in [SbProcs -> SbOps]
        /\ sbCopy' \in [SbProcs -> SbSub]
    BY SbNewSound DEF SbNotify, SbIdle, SbGoto, SbInv, SubscriptionsTypeOK, SbPC, SbOps
  <2> QED
    BY <2>1, <2>2 DEF SbNotify, SbInv, SubscriptionsTypeOK
<1>2. SbPlaced'
  BY SbNewSound DEF SbInv, SubscriptionsTypeOK, SbPlaced, SbWrites, SbHooks, SbEvents,
         SbProcs, SbNotify, SbIdle, SbGoto
<1>3. SbSounds'
  BY SbNewSound DEF SbInv, SubscriptionsTypeOK, SbSounds, SbProcs, SbNotify, SbIdle, SbGoto
<1>4. SbCurrent'
  BY SbNewSound DEF SbInv, SubscriptionsTypeOK, SbCurrent, SbPlaced, SbWithCard, SbProcs,
         SbNotify, SbIdle, SbGoto
<1>5. SbSweeps'
  BY SbNewSound DEF SbInv, SubscriptionsTypeOK, SbSweeps, SbPlaced, SbProcs, SbTold,
         SbNotify, SbIdle, SbGoto
<1>6. SbTold'
  BY SbNewSound DEF SbInv, SubscriptionsTypeOK, SbTold, SbCurrent, SbPlaced, SbSweeps,
         SbWithCard, SbProcs, SbNotify, SbIdle, SbGoto
<1> QED
  BY <1>1, <1>2, <1>3, <1>4, <1>5, <1>6 DEF SbInv

LEMMA SbTickInv == ASSUME SbInv, SbTick PROVE SbInv'
<1>1. SubscriptionsTypeOK'
  BY DEF SbInv, SubscriptionsTypeOK, SbPC, SbProcs, SbOps, SbWrites, SbHooks, SbEvents,
         SbTick, sbLocal, sbGhost
<1>2. SbPlaced'
  BY DEF SbInv, SubscriptionsTypeOK, SbPlaced, SbWrites, SbHooks, SbEvents, SbProcs,
         SbTick, sbLocal, sbGhost
<1>3. SbSounds'
  BY DEF SbInv, SubscriptionsTypeOK, SbSounds, SbProcs, SbTick, sbLocal, sbGhost
<1>4. SbCurrent'
  BY DEF SbInv, SubscriptionsTypeOK, SbCurrent, SbPlaced, SbWithCard, SbProcs, SbTick,
         sbLocal, sbGhost
<1>5. SbSweeps'
  BY DEF SbInv, SubscriptionsTypeOK, SbSweeps, SbPlaced, SbProcs, SbTold, SbTick, sbLocal,
         sbGhost
<1>6. SbTold'
  BY DEF SbInv, SubscriptionsTypeOK, SbTold, SbCurrent, SbPlaced, SbSweeps, SbWithCard,
         SbProcs, SbTick, sbLocal, sbGhost
<1> QED
  BY <1>1, <1>2, <1>3, <1>4, <1>5, <1>6 DEF SbInv

LEMMA SbRestartInv == ASSUME SbInv, SbRestart PROVE SbInv'
<1>1. SubscriptionsTypeOK'
  BY SbNewSound DEF SbInv, SubscriptionsTypeOK, SbPC, SbProcs, SbOps, SbWrites, SbHooks,
         SbEvents, SbRestart
<1>2. SbPlaced'
  BY SbNewSound DEF SbInv, SubscriptionsTypeOK, SbPlaced, SbWrites, SbHooks, SbEvents,
         SbProcs, SbRestart
<1>3. SbSounds'
  BY SbNewSound DEF SbInv, SubscriptionsTypeOK, SbSounds, SbProcs, SbRestart
<1>4. SbCurrent'
  BY SbNewSound DEF SbInv, SubscriptionsTypeOK, SbCurrent, SbPlaced, SbWithCard, SbProcs,
         SbRestart
<1>5. SbSweeps'
  BY SbNewSound DEF SbInv, SubscriptionsTypeOK, SbSweeps, SbPlaced, SbProcs, SbTold,
         SbRestart
<1>6. SbTold'
  BY SbNewSound DEF SbInv, SubscriptionsTypeOK, SbTold, SbCurrent, SbPlaced, SbSweeps,
         SbWithCard, SbProcs, SbRestart
<1> QED
  BY <1>1, <1>2, <1>3, <1>4, <1>5, <1>6 DEF SbInv

LEMMA SbStutterInv == ASSUME SbInv, UNCHANGED subscriptionsVars PROVE SbInv'
<1>1. SubscriptionsTypeOK'
  BY DEF SbInv, SubscriptionsTypeOK, SbPC, SbProcs, SbOps, SbWrites, SbHooks, SbEvents,
         subscriptionsVars, sbLocal, sbGhost
<1>2. SbPlaced'
  BY DEF SbInv, SubscriptionsTypeOK, SbPlaced, SbWrites, SbHooks, SbEvents, SbProcs,
         subscriptionsVars, sbLocal, sbGhost
<1>3. SbSounds'
  BY DEF SbInv, SubscriptionsTypeOK, SbSounds, SbProcs, subscriptionsVars, sbLocal, sbGhost
<1>4. SbCurrent'
  BY DEF SbInv, SubscriptionsTypeOK, SbCurrent, SbPlaced, SbWithCard, SbProcs,
         subscriptionsVars, sbLocal, sbGhost
<1>5. SbSweeps'
  BY DEF SbInv, SubscriptionsTypeOK, SbSweeps, SbPlaced, SbProcs, SbTold,
         subscriptionsVars, sbLocal, sbGhost
<1>6. SbTold'
  BY DEF SbInv, SubscriptionsTypeOK, SbTold, SbCurrent, SbPlaced, SbSweeps, SbWithCard,
         SbProcs, subscriptionsVars, sbLocal, sbGhost
<1> QED
  BY <1>1, <1>2, <1>3, <1>4, <1>5, <1>6 DEF SbInv

LEMMA SbInitInv == SubscriptionsInit => SbInv
<1> SUFFICES ASSUME SubscriptionsInit PROVE SbInv
  OBVIOUS
<1>1. SubscriptionsTypeOK
  <2>1. sbDoc \in SbSub /\ sbCopy \in [SbProcs -> SbSub]
    BY SbNewSound DEF SubscriptionsInit
  <2>2. /\ sbPc \in [SbProcs -> SbPC] /\ sbOp \in [SbProcs -> SbOps] /\ sbNow \in Nat
        /\ sbMoves \in Nat /\ sbSent \in [SbEvents -> Nat]
    BY DEF SubscriptionsInit, SbPC, SbOps
  <2>3. /\ sbNumbers \in BOOLEAN /\ sbStripe \in BOOLEAN /\ sbTorn \in BOOLEAN
        /\ sbPaid \in BOOLEAN /\ sbTaken \in BOOLEAN /\ sbFresh \subseteq SbProcs
        /\ sbSession \in {"none", "open", "paid", "deleted"}
    BY DEF SubscriptionsInit
  <2> QED
    BY <2>1, <2>2, <2>3 DEF SubscriptionsTypeOK
<1>2. SbPlaced /\ SbCurrent /\ SbSweeps
  BY DEF SubscriptionsInit, SbPlaced, SbCurrent, SbSweeps, SbProcs
<1>3. SbSounds
  BY SbNewSound DEF SubscriptionsInit, SbSounds
<1>4. SbTold
  BY DEF SubscriptionsInit, SbTold, SbEvents
<1> QED
  BY <1>1, <1>2, <1>3, <1>4 DEF SbInv

LEMMA SbNextInv == ASSUME SbInv, [SubscriptionsNext]_subscriptionsVars PROVE SbInv'
<1>1. {"plan", "checkout", "status", "extend", "convert"} \subseteq SbWrites
  BY DEF SbWrites
<1> QED
  BY <1>1, SbRequestInv, SbRollInv, SbHookInv, SbSavedInv, SbCheckoutInv, SbPaysInv, SbSweepInv,
     SbReturnInv, SbSweepSavedInv, SbNotifyInv, SbTickInv, SbRestartInv, SbStutterInv
  DEF SubscriptionsNext, SbSweeping

LEMMA SbSpecInv == SubscriptionsSpec => []SbInv
BY SbInitInv, SbNextInv, PTL DEF SubscriptionsSpec

\* The subscription, the operations on it and what was sent about it.
THEOREM SubscriptionsTypeCorrect == SubscriptionsSpec => []SubscriptionsTypeOK
<1>1. SbInv => SubscriptionsTypeOK
  BY DEF SbInv
<1> QED
  BY <1>1, SbSpecInv, PTL

\* Once the card is on file no trial's reason is left and no numbers are taken, and the
\* owner gets each notice once at most and in order, unless an older copy was written
\* over a newer document (handle_webhook, checkout, sweep_trials, extend_trial).
THEOREM TrialAlwaysEndsInOrder == SubscriptionsSpec => []TrialEndsInOrder
<1>1. SbInv => TrialEndsInOrder
  BY DEF SbInv, SbTold, SbSounds, SbSound, SbUnpaidTrial, TrialEndsInOrder
<1> QED
  BY <1>1, SbSpecInv, PTL
-------------------------------------------------------------------------------
(* Sums.  What a fold over a finite set comes to, by induction over its subsets: the *)
(* least counterexample in size (WFMin) has an element to take away.                  *)

HIDE SubscriptionsAssumption

\* Induction over the subsets of a finite set, for a set of them.
LEMMA SubsetInduction ==
  ASSUME NEW S, IsFiniteSet(S), NEW T, {} \in T,
         \A s \in SUBSET S : s # {} /\ (\A x \in s : s \ {x} \in T) => s \in T
  PROVE  S \in T
<1> DEFINE B == {n \in Nat : \E s \in SUBSET S : s \notin T /\ Cardinality(s) = n}
           R == OpToRel(<, Nat)
<1>0. \A m, k \in Nat : m < k => <<m, k>> \in R
  BY DEF OpToRel
<1>9. IsWellFoundedOn(R, Nat)
  BY NatLessThanWellFounded
<1> HIDE DEF R
<1> SUFFICES ASSUME S \notin T PROVE FALSE
  OBVIOUS
<1>1. Cardinality(S) \in B
  BY FS_CardinalityType
<1>2. PICK n \in B : \A m \in B : ~(<<m, n>> \in R)
  <2> HIDE DEF B
  <2>2. B \subseteq Nat /\ B # {}
    BY <1>1 DEF B
  <2> QED
    BY <1>9, <2>2, WFMin
<1>3. PICK s \in SUBSET S : s \notin T /\ Cardinality(s) = n
  BY <1>2
<1>4. IsFiniteSet(s)
  BY <1>3, FS_Subset
<1>5. ASSUME NEW x \in s PROVE s \ {x} \in T
  <2>1. Cardinality(s \ {x}) = n - 1 /\ IsFiniteSet(s \ {x})
    BY <1>3, <1>4, FS_RemoveElement
  <2>2. n - 1 \in Nat
    BY <2>1, FS_CardinalityType
  <2>3. s \ {x} \in SUBSET S
    BY <1>3
  <2>4. n - 1 \notin B
    <3>1. n \in Nat /\ n - 1 < n
      OBVIOUS
    <3>2. <<n - 1, n>> \in R
      BY <1>0, <2>2, <3>1
    <3> HIDE DEF B
    <3> QED
      BY <1>2, <3>2
  <2> QED
    BY <2>1, <2>2, <2>3, <2>4
<1> QED
  BY <1>3, <1>5

\* The element of a set that a fold takes first.
Pick(s) == CHOOSE x \in s : TRUE

\* The recursion of the fold.
Walk(f, S, g) ==
  g = [s \in SUBSET S |-> IF s = {} THEN 0 ELSE f[Pick(s)] + g[s \ {Pick(s)}]]

LEMMA SumWalk ==
  ASSUME NEW f, NEW S
  PROVE  SumFunctionOnSet(f, S) = (CHOOSE g : Walk(f, S, g))[S]
  BY DEF SumFunctionOnSet, FoldFunctionOnSet, MapThenFoldSet, Walk, Pick

\* The subsets of at most n elements.
Small(S, n) == {s \in SUBSET S : Cardinality(s) <= n}

WalkTo(f, S, n, g) ==
  g = [s \in Small(S, n) |-> IF s = {} THEN 0 ELSE f[Pick(s)] + g[s \ {Pick(s)}]]

LEMMA NatLeast ==
  ASSUME NEW T, 0 \in T, \A n \in Nat : n \in T => n + 1 \in T
  PROVE  Nat \subseteq T
<1> DEFINE B == Nat \ T
           R == OpToRel(<, Nat)
<1>0. \A m, k \in Nat : m < k => <<m, k>> \in R
  BY DEF OpToRel
<1>1. IsWellFoundedOn(R, Nat)
  BY NatLessThanWellFounded
<1> HIDE DEF R
<1> SUFFICES ASSUME B # {} PROVE FALSE
  OBVIOUS
<1>2. PICK n \in B : \A m \in B : ~(<<m, n>> \in R)
  <2>1. B \subseteq Nat
    OBVIOUS
  <2> HIDE DEF B
  <2> QED
    BY <1>1, <2>1, WFMin
<1>3. n \in Nat /\ n # 0
  BY <1>2
<1>4. n - 1 \in Nat /\ n - 1 < n /\ (n - 1) + 1 = n
  BY <1>3
<1>5. n - 1 \notin B
  BY <1>0, <1>2, <1>3, <1>4
<1>6. n \in T
  BY <1>4, <1>5
<1> QED
  BY <1>2, <1>6

LEMMA WalksExist ==
  ASSUME NEW f, NEW S, IsFiniteSet(S)
  PROVE  \E g : Walk(f, S, g)
<1> DEFINE T == {n \in Nat : \E g : WalkTo(f, S, n, g)}
<1>0. \A s \in SUBSET S : IsFiniteSet(s) /\ Cardinality(s) \in Nat /\ (s # {} => Pick(s) \in s)
  BY FS_Subset, FS_CardinalityType DEF Pick
<1>1. \A s \in SUBSET S : s # {} =>
        s \ {Pick(s)} \in SUBSET S /\ Cardinality(s \ {Pick(s)}) = Cardinality(s) - 1
  BY <1>0, FS_RemoveElement
<1>2. 0 \in T
  <2> DEFINE g == [s \in Small(S, 0) |-> 0]
  <2>1. \A s \in Small(S, 0) : s = {}
    BY <1>0, FS_EmptySet DEF Small
  <2>2. g = [s \in Small(S, 0) |-> IF s = {} THEN 0 ELSE f[Pick(s)] + g[s \ {Pick(s)}]]
    BY <2>1
  <2>3. WalkTo(f, S, 0, g)
    BY <2>2 DEF WalkTo
  <2> QED
    BY <2>3
<1>3. ASSUME NEW n \in Nat, n \in T PROVE n + 1 \in T
  <2>1. PICK g : WalkTo(f, S, n, g)
    BY <1>3
  <2> DEFINE h == [s \in Small(S, n + 1) |->
                    IF s = {} THEN 0 ELSE f[Pick(s)] + g[s \ {Pick(s)}]]
  <2>2. \A s \in Small(S, n + 1) : s # {} => s \ {Pick(s)} \in Small(S, n)
    BY <1>0, <1>1 DEF Small
  <2>3. \A s \in Small(S, n) : s \in Small(S, n + 1)
    BY <1>0 DEF Small
  <2>4. \A s \in Small(S, n) : g[s] = h[s]
    <3>1. \A s \in Small(S, n) : g[s] = IF s = {} THEN 0 ELSE f[Pick(s)] + g[s \ {Pick(s)}]
      BY <2>1 DEF WalkTo
    <3> QED
      BY <2>3, <3>1
  <2>5. h = [s \in Small(S, n + 1) |-> IF s = {} THEN 0 ELSE f[Pick(s)] + h[s \ {Pick(s)}]]
    BY <2>2, <2>4
  <2>6. WalkTo(f, S, n + 1, h)
    BY <2>5 DEF WalkTo
  <2> QED
    BY <2>6
<1>4. Nat \subseteq T
  <2> HIDE DEF T
  <2> QED
    BY <1>2, <1>3, NatLeast
<1>5. PICK g : WalkTo(f, S, Cardinality(S), g)
  BY <1>0, <1>4
<1>6. Small(S, Cardinality(S)) = SUBSET S
  BY FS_Subset, <1>0 DEF Small
<1> QED
  BY <1>5, <1>6 DEF WalkTo, Walk

\* A sum by its steps: of nothing it is nothing, and one element is taken after another.
Steps(f, S, g) ==
  /\ g[{}] = 0
  /\ \A s \in SUBSET S : s # {} => Pick(s) \in s /\ g[s] = f[Pick(s)] + g[s \ {Pick(s)}]

LEMMA SumWalks ==
  ASSUME NEW f, NEW S, IsFiniteSet(S)
  PROVE  \E g : SumFunctionOnSet(f, S) = g[S] /\ Steps(f, S, g)
<1>1. PICK g : Walk(f, S, g)
  BY WalksExist
<1> DEFINE w == CHOOSE h : Walk(f, S, h)
<1>2. Walk(f, S, w)
  BY <1>1
<1>3. SumFunctionOnSet(f, S) = w[S]
  BY SumWalk
<1> HIDE DEF w
<1>4. Steps(f, S, w)
  BY <1>2 DEF Walk, Steps, Pick
<1> QED
  BY <1>3, <1>4

LEMMA SumIsNat ==
  ASSUME NEW S, IsFiniteSet(S), NEW f, \A x \in S : f[x] \in Nat
  PROVE  SumFunctionOnSet(f, S) \in Nat
<1>1. PICK g : SumFunctionOnSet(f, S) = g[S] /\ Steps(f, S, g)
  BY SumWalks
<1> DEFINE T == {s \in SUBSET S : g[s] \in Nat}
<1>2. {} \in T
  BY <1>1 DEF Steps
<1>3. \A s \in SUBSET S : s # {} /\ (\A x \in s : s \ {x} \in T) => s \in T
  <2> SUFFICES ASSUME NEW s \in SUBSET S, s # {}, \A x \in s : s \ {x} \in T
               PROVE  s \in T
    OBVIOUS
  <2>1. Pick(s) \in s /\ g[s] = f[Pick(s)] + g[s \ {Pick(s)}]
    BY <1>1 DEF Steps
  <2>2. s \ {Pick(s)} \in T
    BY <2>1
  <2> QED
    BY <2>1, <2>2
<1>4. S \in T
  <2> HIDE DEF T
  <2> QED
    BY <1>2, <1>3, SubsetInduction
<1> QED
  BY <1>1, <1>4

\* One of the terms changes.
LEMMA SumMoves ==
  ASSUME NEW S, IsFiniteSet(S), NEW f, NEW h, NEW c \in S, NEW d \in Int,
         \A x \in S : f[x] \in Int /\ h[x] = f[x] + (IF x = c THEN d ELSE 0)
  PROVE  /\ SumFunctionOnSet(f, S) \in Int
         /\ SumFunctionOnSet(h, S) = SumFunctionOnSet(f, S) + d
<1>1. PICK g : SumFunctionOnSet(f, S) = g[S] /\ Steps(f, S, g)
  BY SumWalks
<1>2. PICK k : SumFunctionOnSet(h, S) = k[S] /\ Steps(h, S, k)
  BY SumWalks
<1>g. \A s \in SUBSET S : s # {} => Pick(s) \in s /\ g[s] = f[Pick(s)] + g[s \ {Pick(s)}]
  BY <1>1 DEF Steps
<1>k. \A s \in SUBSET S : s # {} => k[s] = h[Pick(s)] + k[s \ {Pick(s)}]
  BY <1>2 DEF Steps
<1> DEFINE T == {s \in SUBSET S : g[s] \in Int /\ k[s] = g[s] + (IF c \in s THEN d ELSE 0)}
<1>3. {} \in T
  BY <1>1, <1>2 DEF Steps
<1>4. \A s \in SUBSET S : s # {} /\ (\A x \in s : s \ {x} \in T) => s \in T
  <2> SUFFICES ASSUME NEW s \in SUBSET S, s # {}, \A x \in s : s \ {x} \in T
               PROVE  s \in T
    OBVIOUS
  <2> DEFINE x == Pick(s)
  <2>1. x \in s /\ g[s] = f[x] + g[s \ {x}] /\ k[s] = h[x] + k[s \ {x}]
    BY <1>g, <1>k
  <2> HIDE DEF x
  <2>2. s \ {x} \in T
    BY <2>1
  <2>3. c \in s \ {x} <=> c \in s /\ c # x
    OBVIOUS
  <2>4. f[x] \in Int /\ h[x] = f[x] + (IF x = c THEN d ELSE 0)
    BY <2>1
  <2> QED
    BY <2>1, <2>2, <2>3, <2>4
<1>5. S \in T
  <2> HIDE DEF T
  <2> QED
    BY <1>3, <1>4, SubsetInduction
<1> QED
  BY <1>1, <1>2, <1>5

\* The terms of some grow by one.
LEMMA SumCounts ==
  ASSUME NEW S, IsFiniteSet(S), NEW f, NEW h, NEW U \in SUBSET S,
         \A x \in S : f[x] \in Int /\ h[x] = f[x] + (IF x \in U THEN 1 ELSE 0)
  PROVE  /\ SumFunctionOnSet(f, S) \in Int
         /\ SumFunctionOnSet(h, S) = SumFunctionOnSet(f, S) + Cardinality(U)
<1>1. PICK g : SumFunctionOnSet(f, S) = g[S] /\ Steps(f, S, g)
  BY SumWalks
<1>2. PICK k : SumFunctionOnSet(h, S) = k[S] /\ Steps(h, S, k)
  BY SumWalks
<1>g. \A s \in SUBSET S : s # {} => Pick(s) \in s /\ g[s] = f[Pick(s)] + g[s \ {Pick(s)}]
  BY <1>1 DEF Steps
<1>k. \A s \in SUBSET S : s # {} => k[s] = h[Pick(s)] + k[s \ {Pick(s)}]
  BY <1>2 DEF Steps
<1> DEFINE n == [s \in SUBSET S |-> Cardinality(U \cap s)]
           T == {s \in SUBSET S : g[s] \in Int /\ k[s] = g[s] + n[s]}
<1>3. {} \in T
  <2>1. n[{}] = 0
    BY FS_EmptySet
  <2> HIDE DEF n
  <2> QED
    BY <1>1, <1>2, <2>1 DEF Steps
<1>4. \A s \in SUBSET S : \A x \in s :
         n[s] = n[s \ {x}] + (IF x \in U THEN 1 ELSE 0) /\ n[s \ {x}] \in Nat
  <2> SUFFICES ASSUME NEW s \in SUBSET S, NEW x \in s
               PROVE  n[s] = n[s \ {x}] + (IF x \in U THEN 1 ELSE 0) /\ n[s \ {x}] \in Nat
    OBVIOUS
  <2>1. IsFiniteSet(U \cap s) /\ IsFiniteSet(U \cap (s \ {x}))
    BY FS_Subset
  <2>2. n[s] = Cardinality(U \cap s) /\ n[s \ {x}] = Cardinality(U \cap (s \ {x}))
    OBVIOUS
  <2>3. U \cap (s \ {x}) = (U \cap s) \ {x}
    OBVIOUS
  <2> HIDE DEF n
  <2>4. Cardinality(U \cap s) \in Nat /\ Cardinality(U \cap (s \ {x})) \in Nat
    BY <2>1, FS_CardinalityType
  <2>5. Cardinality((U \cap s) \ {x}) = IF x \in U
                                        THEN Cardinality(U \cap s) - 1 ELSE Cardinality(U \cap s)
    BY <2>1, FS_RemoveElement
  <2> QED
    BY <2>2, <2>3, <2>4, <2>5
<1>5. \A s \in SUBSET S : s # {} /\ (\A x \in s : s \ {x} \in T) => s \in T
  <2> SUFFICES ASSUME NEW s \in SUBSET S, s # {}, \A x \in s : s \ {x} \in T
               PROVE  s \in T
    OBVIOUS
  <2> DEFINE x == Pick(s)
  <2>1. x \in s /\ g[s] = f[x] + g[s \ {x}] /\ k[s] = h[x] + k[s \ {x}]
    BY <1>g, <1>k
  <2> HIDE DEF x, n
  <2>2. s \ {x} \in T
    BY <2>1
  <2>3. n[s] = n[s \ {x}] + (IF x \in U THEN 1 ELSE 0) /\ n[s \ {x}] \in Nat
    BY <1>4, <2>1
  <2>4. f[x] \in Int /\ h[x] = f[x] + (IF x \in U THEN 1 ELSE 0)
    BY <2>1
  <2> QED
    BY <2>1, <2>2, <2>3, <2>4
<1>6. S \in T
  <2> HIDE DEF T
  <2> QED
    BY <1>3, <1>5, SubsetInduction
<1>7. n[S] = Cardinality(U)
  <2>1. U \cap S = U
    OBVIOUS
  <2> QED
    BY <2>1
<1> HIDE DEF n
<1> QED
  BY <1>1, <1>2, <1>6, <1>7

LEMMA SumOfNothing ==
  ASSUME NEW S, IsFiniteSet(S), NEW f, \A x \in S : f[x] = 0
  PROVE  SumFunctionOnSet(f, S) = 0
<1>1. PICK g : SumFunctionOnSet(f, S) = g[S] /\ Steps(f, S, g)
  BY SumWalks
<1> DEFINE T == {s \in SUBSET S : g[s] = 0}
<1>2. {} \in T
  BY <1>1 DEF Steps
<1>3. \A s \in SUBSET S : s # {} /\ (\A x \in s : s \ {x} \in T) => s \in T
  <2> SUFFICES ASSUME NEW s \in SUBSET S, s # {}, \A x \in s : s \ {x} \in T
               PROVE  s \in T
    OBVIOUS
  <2>1. Pick(s) \in s /\ g[s] = f[Pick(s)] + g[s \ {Pick(s)}]
    BY <1>1 DEF Steps
  <2>2. s \ {Pick(s)} \in T
    BY <2>1
  <2> QED
    BY <2>1, <2>2
<1>4. S \in T
  <2> HIDE DEF T
  <2> QED
    BY <1>2, <1>3, SubsetInduction
<1> QED
  BY <1>1, <1>4

-------------------------------------------------------------------------------
(* Invoices: the invariant. *)

\* Where a closing has counted the calls, and where it has told the provider of them.
IvTold == {"credits", "consume", "invoice", "save"}
IvKnown == {"report"} \cup IvTold

IvEven(t) == t % 2 = 0

\* A period is the first one or a month; it is over when it is closed, and not before.
\* Whoever closes it has it as it is stored, or finds that another has closed it.
IvPeriods ==
  /\ ivFirst \in {2, 3}
  /\ ivSub.from <= ivNow /\ ivNow <= ivSub.to
  /\ IvEven(ivSub.from)
  /\ \/ ivSub.from = 0 /\ ivSub.to = ivFirst
     \/ ivSub.to = ivSub.from + 2
  /\ \A p \in IvProcs : ivPc[p] # "idle" =>
       LET sub == ivHeld[p].sub IN
       /\ sub.to = ivNow /\ IvEven(sub.from) /\ sub.from + 2 <= ivNow
       /\ \/ sub = ivSub
          \/ ivRaced /\ ivSub.from = IvMonth(ivNow) /\ ivSub.to = IvMonth(ivNow) + 2

IvAlone == ~ivRaced => \A p, q \in IvProcs : ivPc[p] # "idle" /\ ivPc[q] # "idle" => p = q

\* A closing counts every call of its period that has ended, and knows of the others.
IvCounts ==
  \A p \in IvProcs : ivPc[p] \in IvKnown =>
    /\ \A t \in ivHeld[p].used :
         ivHeld[p].sub.from <= t /\ t < ivHeld[p].sub.to /\ ivCall[t] = "done"
    /\ \A t \in IvTimes : ivHeld[p].sub.from <= t /\ t < ivHeld[p].sub.to =>
         t \in ivHeld[p].used \/ t \in ivMissed \/ ivCall[t] = "none"

\* The calls of closed periods were billed or missed; those to come were not billed yet.
IvBills ==
  \A t \in IvTimes :
    /\ t < ivSub.from =>
         /\ ivCall[t] = "up" => t \in ivMissed
         /\ ivCall[t] = "done" => ivBilled[t] >= 1 \/ t \in ivMissed
    /\ ~ivRaced => ivBilled[t] <= 1 \/ IvTwice(t)
    /\ ~ivRaced /\ t >= ivSub.from => ivBilled[t] = 0 \/ IvTwice(t)

IvSmooth == ~ivRaced /\ ~ivCut

\* What the provider was told of is what was charged and is being charged.
IvReports ==
  IvSmooth /\ ivSub.ref /\ ~ivLost =>
    /\ (\A p \in IvProcs : ivPc[p] \notin IvTold) => ivReported = IvCharged
    /\ \A p \in IvProcs : ivPc[p] \in IvTold =>
         ivReported = IvCharged + Cardinality(ivHeld[p].used)

\* What the credits of a list come to.
IvWorth(left) == SumFunction([c \in IvCredits |-> IF left[c] = IvNone THEN 0 ELSE left[c]])

\* The credit that a process has still to take is there,
IvCoverOf(p) ==
  /\ ivPc[p] \in {"report", "credits"} => ivHeld[p].take <= IvWorth(ivLeft)
  /\ ivPc[p] = "consume" =>
       /\ ivHeld[p].take <= IvWorth(ivHeld[p].seen)
       /\ \A c \in IvFull(ivHeld[p].seen) : ivLeft[c] = ivHeld[p].seen[c]
  /\ ivPc[p] = "invoice" => ivHeld[p].take = 0

\* if it is the only one.
IvCovered ==
  /\ \A p \in IvProcs :
       /\ ivPc[p] = "consume" => ivHeld[p].take > 0 /\ IvFull(ivHeld[p].seen) # {}
       /\ ivPc[p] = "invoice" => ivHeld[p].sub.status \in IvServing
  /\ IvSmooth => \A p \in IvProcs : IvCoverOf(p)

\* A month has its invoice when it is closed, and not before.
IvInvoices ==
  IvSmooth =>
    \A m \in IvMonths : ivInvoice[m] # IvNone =>
      \/ m < ivSub.from
      \/ m = ivSub.from /\ \E p \in IvProcs : ivPc[p] = "save"

\* The sums of a closing under way: its plan and its calls are covered by what is still
\* to be taken and to be invoiced,
IvSumOf(p) ==
  /\ ivPc[p] \in {"report", "credits", "consume", "invoice"} =>
       IvInvoiced + IvSpent + ivHeld[p].take + ivHeld[p].due
         = ivClosed.served + IvCharged + 1 + Cardinality(ivHeld[p].used)
  /\ ivPc[p] = "save" /\ ivHeld[p].sub.status \in IvServing =>
       IvInvoiced + IvSpent
         = ivClosed.served + IvCharged + 1 + Cardinality(ivHeld[p].used)

\* and where none is under way, they are even.
IvAdds ==
  IvSmooth /\ ivClosed.other = 0 =>
    /\ (\A p \in IvProcs : ivPc[p] \in {"idle", "usage"}) =>
         IvInvoiced + IvSpent = ivClosed.served + IvCharged
    /\ \A p \in IvProcs : IvSumOf(p)

IvInv ==
  InvoicesTypeOK /\ IvPeriods /\ IvAlone /\ IvCounts /\ IvBills /\ IvReports /\ IvCovered
    /\ IvInvoices /\ IvAdds

-------------------------------------------------------------------------------
(* Invoices: the credits, and what a step of a process leaves alone. *)

USE InvoicesAssumption

IvHeld == [sub : IvSub, used : SUBSET IvTimes, take : Nat, due : Nat,
           seen : [IvCredits -> Nat \cup {IvNone}]]

LEMMA MonthFacts ==
  ASSUME NEW t \in Nat
  PROVE  /\ IvMonth(t) \in Nat /\ IvMonth(t) <= t /\ t <= IvMonth(t) + 1 /\ IvEven(IvMonth(t))
         /\ IvEven(t) <=> IvMonth(t) = t
  BY DEF IvMonth, IvEven

LEMMA TimesFacts ==
  /\ IsFiniteSet(IvTimes) /\ IvMonths \subseteq IvTimes /\ IsFiniteSet(IvMonths)
  /\ IvTimes \subseteq Nat /\ \A t \in IvTimes : IvMonth(t) \in IvMonths
<1>1. IsFiniteSet(IvTimes) /\ IvTimes \subseteq Nat
  BY FS_Interval DEF IvTimes
<1>2. \A t \in IvTimes : IvMonth(t) \in IvTimes
  BY MonthFacts DEF IvTimes
<1>3. IvMonths \subseteq IvTimes
  BY <1>2 DEF IvMonths
<1> QED
  BY <1>1, <1>3, FS_Subset DEF IvMonths

LEMMA NothingType == IvNothing \in IvHeld /\ IvNothing.used = {}
<1>1. IvNothing.sub \in IvSub
  BY DEF IvNothing, IvSub, IvTimes, IvServing
<1>2. IvNothing.seen \in [IvCredits -> Nat \cup {IvNone}]
  BY DEF IvNothing
<1> QED
  BY <1>1, <1>2 DEF IvNothing, IvHeld

\* The worth of a list of credits.
LEMMA WorthIsNat ==
  ASSUME NEW left \in [IvCredits -> Nat \cup {IvNone}]
  PROVE  IvWorth(left) \in Nat
<1> DEFINE f == [c \in IvCredits |-> IF left[c] = IvNone THEN 0 ELSE left[c]]
<1>1. \A c \in IvCredits : f[c] \in Nat
  OBVIOUS
<1>2. DOMAIN f = IvCredits
  OBVIOUS
<1> HIDE DEF f
<1>3. SumFunctionOnSet(f, IvCredits) \in Nat
  BY <1>1, SumIsNat
<1> QED
  BY <1>2, <1>3 DEF IvWorth, SumFunction, f

LEMMA BalanceIsWorth == IvBalance = IvWorth(ivLeft)
  BY DEF IvBalance, IvWorth

LEMMA WorthOfNothing ==
  ASSUME NEW left \in [IvCredits -> Nat \cup {IvNone}], IvFull(left) = {}
  PROVE  IvWorth(left) = 0
<1> DEFINE f == [c \in IvCredits |-> IF left[c] = IvNone THEN 0 ELSE left[c]]
<1>1. \A c \in IvCredits : f[c] = 0
  BY DEF IvFull
<1>2. DOMAIN f = IvCredits
  OBVIOUS
<1> HIDE DEF f
<1>3. SumFunctionOnSet(f, IvCredits) = 0
  BY <1>1, SumOfNothing
<1> QED
  BY <1>2, <1>3 DEF IvWorth, SumFunction, f

\* Of a list one credit changes.
LEMMA WorthMoves ==
  ASSUME NEW left \in [IvCredits -> Nat \cup {IvNone}], NEW c \in IvCredits, NEW n \in Nat
  PROVE  IvWorth([left EXCEPT ![c] = n])
           = IvWorth(left) + n - (IF left[c] = IvNone THEN 0 ELSE left[c])
<1> DEFINE f == [x \in IvCredits |-> IF left[x] = IvNone THEN 0 ELSE left[x]]
           new == [left EXCEPT ![c] = n]
           h == [x \in IvCredits |-> IF new[x] = IvNone THEN 0 ELSE new[x]]
           d == n - f[c]
<1>1. f[c] \in Int /\ d \in Int
  OBVIOUS
<1>2. \A x \in IvCredits : f[x] \in Int /\ h[x] = f[x] + (IF x = c THEN d ELSE 0)
  BY DEF IvNone
<1>3. DOMAIN f = IvCredits /\ DOMAIN h = IvCredits
  OBVIOUS
<1>4. f[c] = IF left[c] = IvNone THEN 0 ELSE left[c]
  OBVIOUS
<1>5. IvWorth(left) = SumFunctionOnSet(f, IvCredits)
  BY <1>3 DEF IvWorth, SumFunction
<1>6. IvWorth(new) = SumFunctionOnSet(h, IvCredits)
  BY <1>3 DEF IvWorth, SumFunction
<1>7. d = n - f[c]
  OBVIOUS
<1> HIDE DEF f, h, d, new
<1>8. /\ SumFunctionOnSet(f, IvCredits) \in Int
      /\ SumFunctionOnSet(h, IvCredits) = SumFunctionOnSet(f, IvCredits) + d
  <2>1. IsFiniteSet(IvCredits)
    OBVIOUS
  <2>2. \A x \in IvCredits : f[x] \in Int /\ h[x] = f[x] + (IF x = c THEN d ELSE 0)
    BY <1>2
  <2> HIDE InvoicesAssumption
  <2> QED
    BY <1>1, <2>1, <2>2, SumMoves
<1>9. IvWorth(new) = IvWorth(left) + n - f[c]
  BY <1>1, <1>5, <1>6, <1>7, <1>8
<1> QED
  BY <1>4, <1>9 DEF new

\* There is an oldest among credits.
LEMMA OldestIsFull ==
  ASSUME NEW seen, IvFull(seen) # {}
  PROVE  IvOldest(seen) \in IvFull(seen)
<1> DEFINE R == OpToRel(<, Nat)
<1>0. \A m, k \in Nat : m < k => <<m, k>> \in R
  BY DEF OpToRel
<1>1. IsWellFoundedOn(R, Nat)
  BY NatLessThanWellFounded
<1> HIDE DEF R
<1>2. IvFull(seen) \subseteq Nat
  BY DEF IvFull
<1>3. PICK c \in IvFull(seen) : \A d \in IvFull(seen) : ~(<<d, c>> \in R)
  BY <1>1, <1>2, WFMin
<1>4. ASSUME NEW d \in IvFull(seen) PROVE c <= d
  <2>1. c \in Nat /\ d \in Nat /\ ~(<<d, c>> \in R)
    BY <1>2, <1>3
  <2>2. ~(d < c)
    BY <1>0, <2>1
  <2> QED
    BY <2>1, <2>2
<1> QED
  BY <1>3, <1>4 DEF IvOldest

\* Only p moves.
IvOnly(p) == \A q \in IvProcs : q # p => ivPc'[q] = ivPc[q] /\ ivHeld'[q] = ivHeld[q]

\* What is typed of a process.
IvHolds == ivPc \in [IvProcs -> IvPC] /\ ivHeld \in [IvProcs -> IvHeld]

LEMMA TypedHolds == InvoicesTypeOK => IvHolds
  BY DEF InvoicesTypeOK, IvHolds, IvHeld

LEMMA ReadFrame ==
  ASSUME InvoicesTypeOK, NEW p \in IvProcs, IvRead(p)
  PROVE  /\ IvHolds' /\ IvOnly(p) /\ ivPc[p] = "idle" /\ ivPc'[p] = "usage" /\ ivNow >= ivSub.to
         /\ ivHeld'[p].sub = ivSub
         /\ UNCHANGED <<ivStore, ivMoves, ivFirst, ivBilled, ivClosed, ivMissed, ivCut, ivLost>>
         /\ ivRaced' \in BOOLEAN /\ (ivRaced => ivRaced')
         /\ (\E q \in IvProcs : ivPc[q] # "idle") => ivRaced'
         /\ ivHeld'[p].used = ivHeld[p].used
<1>1. IvHolds
  BY TypedHolds
<1>2. ivHeld[p] \in IvHeld /\ ivSub \in IvSub
  BY <1>1 DEF IvHolds, InvoicesTypeOK
<1>3. ivHeld' = [ivHeld EXCEPT ![p] = [ivHeld[p] EXCEPT !.sub = ivSub]]
  BY DEF IvRead
<1>4. [ivHeld[p] EXCEPT !.sub = ivSub] \in IvHeld /\ [ivHeld[p] EXCEPT !.sub = ivSub].sub = ivSub
      /\ [ivHeld[p] EXCEPT !.sub = ivSub].used = ivHeld[p].used
  BY <1>2 DEF IvHeld
<1>5. ivPc' = [ivPc EXCEPT ![p] = "usage"]
  BY DEF IvRead, IvGoto
<1>6. IvHolds' /\ IvOnly(p) /\ ivPc'[p] = "usage" /\ ivHeld'[p].sub = ivSub /\ ivHeld'[p].used = ivHeld[p].used
  BY <1>1, <1>3, <1>4, <1>5 DEF IvHolds, IvOnly, IvPC
<1> QED
  BY <1>6 DEF IvRead, InvoicesTypeOK

LEMMA UsageFrame ==
  ASSUME InvoicesTypeOK, NEW p \in IvProcs, IvUsage(p)
  PROVE  LET sub == ivHeld[p].sub
             counted == IvCounted(sub)
             gross == 1 + Cardinality(counted)
             held == ivHeld'[p]
         IN /\ IvHolds' /\ IvOnly(p) /\ ivPc[p] = "usage"
            /\ ivPc'[p] = IF sub.ref /\ counted # {} THEN "report" ELSE "credits"
            /\ held.sub = sub /\ held.used = counted
            /\ held.take \in Nat /\ held.take <= IvWorth(ivLeft) /\ held.due + held.take = gross
            /\ ivMissed' = ivMissed \cup {t \in sub.from .. sub.to - 1 : ivCall[t] = "up"}
            /\ UNCHANGED <<ivStore, ivMoves, ivFirst, ivBilled, ivClosed, ivRaced, ivCut, ivLost>>
<1> DEFINE sub == ivHeld[p].sub
           counted == IvCounted(sub)
           gross == 1 + Cardinality(counted)
           credit == IF IvBalance < gross THEN IvBalance ELSE gross
           due == IvTotal(gross, credit)
           new == [ivHeld[p] EXCEPT !.used = counted, !.take = credit, !.due = due]
           next == IF sub.ref /\ counted # {} THEN "report" ELSE "credits"
<1>1. IvHolds
  BY TypedHolds
<1>2. ivHeld[p] \in IvHeld /\ sub \in IvSub
  BY <1>1 DEF IvHolds, IvHeld
<1>3. counted \in SUBSET IvTimes
  BY DEF IvCounted
<1>4. gross \in Nat
  <2> HIDE DEF counted
  <2>1. Cardinality(counted) \in Nat
    BY <1>3, TimesFacts, FS_Subset, FS_CardinalityType
  <2> QED
    BY <2>1
<1>5. IvBalance \in Nat /\ IvBalance = IvWorth(ivLeft)
  BY WorthIsNat, BalanceIsWorth DEF InvoicesTypeOK
<1>6. /\ credit \in Nat /\ due \in Nat /\ due + credit = gross /\ credit <= IvWorth(ivLeft)
  <2> HIDE DEF gross
  <2> QED
    BY <1>4, <1>5 DEF IvTotal
<1>7. ivHeld' = [ivHeld EXCEPT ![p] = new] /\ ivPc' = [ivPc EXCEPT ![p] = next]
  BY <1>1, <1>2 DEF IvUsage, IvGoto, IvHolds
<1> HIDE DEF credit, due, gross
<1>8. new \in IvHeld /\ new.used = counted /\ new.take = credit /\ new.due = due /\ new.sub = sub
  BY <1>2, <1>3, <1>6 DEF IvHeld
<1> HIDE DEF new
<1>9. next \in IvPC
  BY DEF IvPC
<1> HIDE DEF next
<1>10. IvHolds' /\ IvOnly(p) /\ ivPc'[p] = next /\ ivHeld'[p] = new
  BY <1>1, <1>7, <1>8, <1>9 DEF IvHolds, IvOnly
<1>11. /\ ivMissed' = ivMissed \cup {t \in sub.from .. sub.to - 1 : ivCall[t] = "up"}
       /\ ivPc[p] = "usage"
       /\ UNCHANGED <<ivStore, ivMoves, ivFirst, ivBilled, ivClosed, ivRaced, ivCut, ivLost>>
  BY DEF IvUsage
<1> QED
  BY <1>6, <1>8, <1>10, <1>11 DEF next, gross

\* p goes on, with what it holds.
LEMMA GotoFrame ==
  ASSUME InvoicesTypeOK, NEW p \in IvProcs, NEW next \in IvPC, IvGoto(p, next), UNCHANGED ivHeld
  PROVE  IvHolds' /\ IvOnly(p) /\ ivPc'[p] = next /\ ivHeld'[p] = ivHeld[p]
  BY TypedHolds DEF IvGoto, IvHolds, IvOnly

LEMMA ListFrame ==
  ASSUME InvoicesTypeOK, NEW p \in IvProcs, IvList(p)
  PROVE  /\ IvHolds' /\ IvOnly(p) /\ ivPc[p] = "credits"
         /\ ivPc'[p] = IF ivHeld[p].take > 0 /\ IvFull(ivLeft) # {}
                       THEN "consume" ELSE IvAfterCredits(p)
         /\ ivHeld'[p] = [ivHeld[p] EXCEPT !.seen = ivLeft]
         /\ ivHeld'[p].seen = ivLeft /\ ivHeld'[p].sub = ivHeld[p].sub
         /\ ivHeld'[p].used = ivHeld[p].used
         /\ ivHeld'[p].take = ivHeld[p].take /\ ivHeld'[p].due = ivHeld[p].due
         /\ UNCHANGED <<ivStore, ivMoves, ivGhost>>
<1> DEFINE new == [ivHeld[p] EXCEPT !.seen = ivLeft]
           next == IF ivHeld[p].take > 0 /\ IvFull(ivLeft) # {}
                   THEN "consume" ELSE IvAfterCredits(p)
<1>1. IvHolds /\ ivHeld[p] \in IvHeld /\ ivLeft \in [IvCredits -> Nat \cup {IvNone}]
  BY TypedHolds DEF IvHolds, InvoicesTypeOK
<1>2. new \in IvHeld /\ new.seen = ivLeft /\ new.sub = ivHeld[p].sub /\ new.used = ivHeld[p].used
      /\ new.take = ivHeld[p].take /\ new.due = ivHeld[p].due
  BY <1>1 DEF IvHeld
<1>3. ivHeld' = [ivHeld EXCEPT ![p] = new] /\ ivPc' = [ivPc EXCEPT ![p] = next] /\ ivPc[p] = "credits"
      /\ UNCHANGED <<ivStore, ivMoves, ivGhost>>
  BY DEF IvList, IvGoto
<1>4. next \in IvPC
  BY DEF IvPC, IvAfterCredits
<1> HIDE DEF next
<1>5. IvHolds' /\ IvOnly(p) /\ ivPc'[p] = next /\ ivHeld'[p] = new
  BY <1>1, <1>2, <1>3, <1>4 DEF IvHolds, IvOnly
<1> QED
  BY <1>2, <1>3, <1>5 DEF next

LEMMA ConsumeFrame ==
  ASSUME InvoicesTypeOK, NEW p \in IvProcs, IvConsume(p), IvFull(ivHeld[p].seen) # {}
  PROVE  \E c \in IvFull(ivHeld[p].seen), take \in Nat :
         /\ IvHolds' /\ IvOnly(p) /\ ivPc[p] = "consume"
         /\ c \in IvCredits /\ ivHeld[p].seen[c] \in Nat
         /\ take = IF ivHeld[p].seen[c] < ivHeld[p].take THEN ivHeld[p].seen[c] ELSE ivHeld[p].take
         /\ ivHeld'[p].seen = [ivHeld[p].seen EXCEPT ![c] = 0]
         /\ ivPc'[p] = IF ivHeld[p].take > take /\ IvFull(ivHeld'[p].seen) # {}
                       THEN "consume" ELSE IvAfterCredits(p)
         /\ ivHeld'[p].sub = ivHeld[p].sub /\ ivHeld'[p].used = ivHeld[p].used
         /\ ivHeld'[p].take = ivHeld[p].take - take /\ ivHeld'[p].due = ivHeld[p].due
         /\ ivLeft' = [ivLeft EXCEPT ![c] = ivHeld[p].seen[c] - take]
         /\ ivHeld[p].seen[c] - take \in Nat
         /\ UNCHANGED <<ivSub, ivNow, ivCall, ivInvoice, ivReported, ivMoves, ivGhost>>
<1> DEFINE held == ivHeld[p]
           c == IvOldest(held.seen)
           take == IF held.seen[c] < held.take THEN held.seen[c] ELSE held.take
           seen == [held.seen EXCEPT ![c] = 0]
           rest == held.take - take
           new == [held EXCEPT !.take = rest, !.seen = seen]
           next == IF held.take > take /\ IvFull(seen) # {} THEN "consume" ELSE IvAfterCredits(p)
<1>1. IvHolds /\ held \in IvHeld
  BY TypedHolds DEF IvHolds
<1>2. c \in IvFull(held.seen) /\ c \in IvCredits /\ held.seen[c] > 0
  BY OldestIsFull DEF IvFull
<1>3. held.seen \in [IvCredits -> Nat \cup {IvNone}] /\ held.take \in Nat
  BY <1>1 DEF IvHeld
<1>4. held.seen[c] \in Nat
  <2>1. held.seen[c] \in Nat \cup {IvNone} /\ held.seen[c] > 0
    BY <1>2, <1>3
  <2> HIDE DEF held, c
  <2> QED
    BY <2>1 DEF IvNone
<1>5. take \in Nat /\ rest \in Nat /\ held.seen[c] - take \in Nat
  BY <1>3, <1>4
<1>6. seen \in [IvCredits -> Nat \cup {IvNone}]
  BY <1>3
<1>7. /\ ivHeld' = [ivHeld EXCEPT ![p] = new] /\ ivPc' = [ivPc EXCEPT ![p] = next]
      /\ ivLeft' = [ivLeft EXCEPT ![c] = held.seen[c] - take] /\ ivPc[p] = "consume"
      /\ UNCHANGED <<ivSub, ivNow, ivCall, ivInvoice, ivReported, ivMoves, ivGhost>>
  BY <1>1 DEF IvConsume, IvGoto, IvHolds
<1>8. next \in IvPC
  BY DEF IvPC, IvAfterCredits
<1>9. /\ next = IF held.take > take /\ IvFull(seen) # {} THEN "consume" ELSE IvAfterCredits(p)
      /\ take = IF held.seen[c] < held.take THEN held.seen[c] ELSE held.take
  OBVIOUS
<1> HIDE DEF next, take, seen, c
<1>10. new \in IvHeld /\ new.seen = seen /\ new.sub = held.sub /\ new.used = held.used
      /\ new.take = rest /\ new.due = held.due
  BY <1>1, <1>5, <1>6 DEF IvHeld
<1> HIDE DEF new
<1>11. IvHolds' /\ IvOnly(p) /\ ivPc'[p] = next /\ ivHeld'[p] = new
  BY <1>1, <1>7, <1>8, <1>10 DEF IvHolds, IvOnly
<1>12. seen = [held.seen EXCEPT ![c] = 0] /\ rest = held.take - take
  BY DEF seen
<1> HIDE DEF rest, held
<1>13. /\ IvHolds' /\ IvOnly(p) /\ ivPc[p] = "consume"
       /\ c \in IvCredits /\ held.seen[c] \in Nat
       /\ take = IF held.seen[c] < held.take THEN held.seen[c] ELSE held.take
       /\ ivHeld'[p].seen = [held.seen EXCEPT ![c] = 0]
       /\ ivPc'[p] = IF held.take > take /\ IvFull(ivHeld'[p].seen) # {}
                     THEN "consume" ELSE IvAfterCredits(p)
       /\ ivHeld'[p].sub = held.sub /\ ivHeld'[p].used = held.used
       /\ ivHeld'[p].take = held.take - take /\ ivHeld'[p].due = held.due
       /\ ivLeft' = [ivLeft EXCEPT ![c] = held.seen[c] - take]
       /\ held.seen[c] - take \in Nat
       /\ UNCHANGED <<ivSub, ivNow, ivCall, ivInvoice, ivReported, ivMoves, ivGhost>>
  BY <1>2, <1>4, <1>5, <1>7, <1>9, <1>10, <1>11, <1>12
<1> QED
  BY <1>2, <1>5, <1>13 DEF held

LEMMA SaveFrame ==
  ASSUME InvoicesTypeOK, NEW p \in IvProcs, IvSave(p)
  PROVE  /\ IvHolds' /\ IvOnly(p) /\ ivPc[p] = "save" /\ ivPc'[p] = "idle"
         /\ ivHeld'[p] = IvNothing
         /\ ivSub' \in IvSub /\ ivSub'.from = IvMonth(ivNow) /\ ivSub'.to = IvMonth(ivNow) + 2
         /\ ivSub'.ref = ivHeld[p].sub.ref
         /\ ivBilled' = [t \in IvTimes |-> ivBilled[t] + IF t \in ivHeld[p].used THEN 1 ELSE 0]
         /\ UNCHANGED <<ivNow, ivCall, ivLeft, ivInvoice, ivReported, ivMoves, ivFirst, ivMissed,
                        ivRaced, ivCut, ivLost>>
<1>1. IvHolds /\ ivHeld[p] \in IvHeld
  BY TypedHolds DEF IvHolds
<1>2. ivHeld[p].sub \in IvSub
  BY <1>1 DEF IvHeld
<1>3. ivNow \in IvTimes /\ IvMonth(ivNow) \in IvTimes /\ IvMonth(ivNow) + 2 \in Nat
  BY TimesFacts, MonthFacts DEF InvoicesTypeOK
<1>4. /\ IvNext(ivHeld[p].sub) \in IvSub
      /\ IvNext(ivHeld[p].sub).from = IvMonth(ivNow)
      /\ IvNext(ivHeld[p].sub).to = IvMonth(ivNow) + 2
      /\ IvNext(ivHeld[p].sub).ref = ivHeld[p].sub.ref
  BY <1>2, <1>3 DEF IvNext, IvSub, IvServing
<1>5. IvHolds' /\ IvOnly(p) /\ ivPc'[p] = "idle" /\ ivHeld'[p] = IvNothing
  BY <1>1, NothingType DEF IvSave, IvGoto, IvHolds, IvOnly, IvPC
<1> QED
  BY <1>4, <1>5 DEF IvSave

-------------------------------------------------------------------------------
(* Invoices: types. *)

\* The types.
LEMMA InvoicesStepTyped ==
  ASSUME InvoicesTypeOK, IvPeriods, IvAlone, IvCovered, IvCounts, [InvoicesNext]_invoicesVars
  PROVE  InvoicesTypeOK'
<1> USE DEF InvoicesTypeOK
<1>0. IvHolds' => /\ ivPc' \in [IvProcs -> IvPC]
                  /\ ivHeld' \in [IvProcs -> [sub : IvSub, used : SUBSET IvTimes, take : Nat, due : Nat,
                                              seen : [IvCredits -> Nat \cup {IvNone}]]]
  BY DEF IvHolds, IvHeld
<1>1. ASSUME NEW p \in IvProcs, IvRead(p) PROVE InvoicesTypeOK'
  BY <1>0, <1>1, ReadFrame DEF ivStore
<1>2. ASSUME NEW p \in IvProcs, IvUsage(p) PROVE InvoicesTypeOK'
  <2>1. ivHeld[p].sub.to = ivNow
    BY <1>2 DEF IvUsage, IvPeriods
  <2>2. {t \in ivHeld[p].sub.from .. ivHeld[p].sub.to - 1 : ivCall[t] = "up"} \subseteq IvTimes
    <3>1. ivHeld[p] \in IvHeld
      BY TypedHolds DEF IvHolds
    <3>2. ivHeld[p].sub.from \in IvTimes /\ ivNow \in IvTimes
      BY <3>1 DEF IvHeld, IvSub
    <3>3. ASSUME NEW t \in ivHeld[p].sub.from .. ivHeld[p].sub.to - 1 PROVE t \in IvTimes
      BY <2>1, <3>2 DEF IvTimes
    <3> QED
      BY <3>3
  <2> QED
    BY <1>0, <1>2, <2>2, UsageFrame DEF ivStore
<1>3. ASSUME NEW p \in IvProcs, IvReport(p) PROVE InvoicesTypeOK'
  <2>1. IvHolds'
    BY <1>3, GotoFrame DEF IvReport, IvPC
  <2>2. Cardinality(ivHeld[p].used) \in Nat
    BY TimesFacts, FS_Subset, FS_CardinalityType
  <2>3. ivReported' \in Nat
    <3>1. ivReported' = ivReported \/ ivReported' = ivReported + Cardinality(ivHeld[p].used)
      BY <1>3 DEF IvReport
    <3> QED
      BY <2>2, <3>1
  <2> QED
    BY <1>0, <1>3, <2>1, <2>3 DEF IvReport
<1>4. ASSUME NEW p \in IvProcs, IvList(p) PROVE InvoicesTypeOK'
  BY <1>0, <1>4, ListFrame DEF ivStore, ivGhost
<1>5. ASSUME NEW p \in IvProcs, IvConsume(p) PROVE InvoicesTypeOK'
  <2>1. IvFull(ivHeld[p].seen) # {}
    BY <1>5 DEF IvConsume, IvCovered
  <2>2. PICK c \in IvFull(ivHeld[p].seen), take \in Nat :
          /\ IvHolds' /\ c \in IvCredits /\ ivHeld[p].seen[c] - take \in Nat
          /\ ivLeft' = [ivLeft EXCEPT ![c] = ivHeld[p].seen[c] - take]
          /\ UNCHANGED <<ivSub, ivNow, ivCall, ivInvoice, ivReported, ivMoves, ivGhost>>
    BY <1>5, <2>1, ConsumeFrame
  <2> QED
    BY <1>0, <2>2 DEF ivGhost
<1>6. ASSUME NEW p \in IvProcs, IvInvoice(p) PROVE InvoicesTypeOK'
  <2>1. IvHolds'
    BY <1>6, GotoFrame DEF IvInvoice, IvPC
  <2> QED
    BY <1>0, <1>6, <2>1 DEF IvInvoice, ivGhost
<1>7. ASSUME NEW p \in IvProcs, IvSave(p) PROVE InvoicesTypeOK'
  <2>1. ivBilled' \in [IvTimes -> Nat]
    BY <1>7, SaveFrame
  <2>2. ivClosed' \in [served : Nat, other : Nat]
    <3>1. \/ ivClosed' = [ivClosed EXCEPT !.served = ivClosed.served + 1]
          \/ ivClosed' = [ivClosed EXCEPT !.other = ivClosed.other + 1]
      BY <1>7 DEF IvSave
    <3> QED
      BY <3>1
  <2> QED
    BY <1>0, <1>7, <2>1, <2>2, SaveFrame
<1>8. ASSUME NEW c \in IvCredits, IvGrant(c) PROVE InvoicesTypeOK'
  <2>1. IvPence \in Nat
    OBVIOUS
  <2> QED
    BY <1>8, <2>1 DEF IvGrant, ivLocal, ivGhost
<1>9. CASE IvCallBegins
  BY <1>9 DEF IvCallBegins, ivLocal, ivGhost
<1>10. ASSUME NEW t \in IvTimes, IvCallEnds(t) PROVE InvoicesTypeOK'
  BY <1>10 DEF IvCallEnds, ivLocal, ivGhost
<1>11. CASE IvTick
  <2>1. ivNow' \in IvTimes
    <3>1. ivNow \in Nat /\ ivNow <= IvClock /\ ivNow' = ivNow + 1 /\ ivNow < IvClock
      BY <1>11 DEF IvTick, IvTimes
    <3> QED
      BY <3>1 DEF IvTimes
  <2> QED
    BY <1>11, <2>1 DEF IvTick, ivLocal, ivGhost
<1>12. CASE IvRestart
  <2>1. IvHolds'
    BY <1>12, NothingType DEF IvRestart, IvHolds, IvPC
  <2> QED
    BY <1>0, <1>12, <2>1 DEF IvRestart, ivStore
<1>13. CASE UNCHANGED invoicesVars
  BY <1>13 DEF invoicesVars, ivStore, ivLocal, ivGhost
<1> QED
  BY <1>1, <1>2, <1>3, <1>4, <1>5, <1>6, <1>7, <1>8, <1>9, <1>10, <1>11, <1>12, <1>13
  DEF InvoicesNext

-------------------------------------------------------------------------------
(* Invoices: the period. *)

\* A process that has still to do with the period it read moves on with it.
LEMMA PeriodsMove ==
  ASSUME InvoicesTypeOK, IvPeriods, NEW p \in IvProcs, IvHolds', IvOnly(p), ivPc[p] # "idle",
         ivHeld'[p].sub = ivHeld[p].sub, UNCHANGED <<ivSub, ivNow, ivFirst, ivRaced>>
  PROVE  IvPeriods'
  BY DEF IvPeriods, IvOnly

LEMMA PeriodsStay ==
  ASSUME IvPeriods, UNCHANGED <<ivSub, ivNow, ivFirst, ivRaced, ivPc, ivHeld>>
  PROVE  IvPeriods'
  BY DEF IvPeriods

LEMMA PeriodsRead ==
  ASSUME InvoicesTypeOK, IvPeriods, NEW p \in IvProcs, IvRead(p)
  PROVE  IvPeriods'
<1>1. /\ IvOnly(p) /\ ivPc[p] = "idle" /\ ivNow >= ivSub.to /\ ivHeld'[p].sub = ivSub
      /\ UNCHANGED <<ivSub, ivNow, ivFirst>> /\ (ivRaced => ivRaced')
  BY ReadFrame DEF ivStore
<1>2. ivSub \in IvSub /\ ivNow \in Nat
  BY TimesFacts DEF InvoicesTypeOK
<1>3. ivSub.from \in Nat /\ ivSub.to \in Nat
  BY <1>2, TimesFacts DEF IvSub
<1>4. ivSub.to = ivNow /\ IvEven(ivSub.from) /\ ivSub.from + 2 <= ivNow
  BY <1>1, <1>2, <1>3 DEF IvPeriods
<1> QED
  BY <1>1, <1>4 DEF IvPeriods, IvOnly

LEMMA PeriodsSave ==
  ASSUME InvoicesTypeOK, IvPeriods, IvAlone, NEW p \in IvProcs, IvSave(p)
  PROVE  IvPeriods'
<1>1. /\ IvOnly(p) /\ ivPc[p] = "save" /\ ivPc'[p] = "idle"
      /\ ivSub'.from = IvMonth(ivNow) /\ ivSub'.to = IvMonth(ivNow) + 2
      /\ UNCHANGED <<ivNow, ivFirst, ivRaced>>
  BY SaveFrame
<1>2. ivNow \in Nat
  BY TimesFacts DEF InvoicesTypeOK
<1>3. IvMonth(ivNow) <= ivNow /\ ivNow <= IvMonth(ivNow) + 2 /\ IvEven(IvMonth(ivNow))
  BY <1>2, MonthFacts
<1>4. ASSUME NEW q \in IvProcs, ivPc'[q] # "idle"
      PROVE  q # p /\ ivPc[q] # "idle" /\ ivHeld'[q] = ivHeld[q] /\ ivRaced
  BY <1>1, <1>4 DEF IvOnly, IvAlone
<1>5. IvMonth(ivNow)' = IvMonth(ivNow)
  BY <1>1 DEF IvMonth
<1> QED
  BY <1>1, <1>3, <1>4, <1>5 DEF IvPeriods

LEMMA PeriodsTick ==
  ASSUME InvoicesTypeOK, IvPeriods, IvTick
  PROVE  IvPeriods'
<1>1. ivNow \in Nat /\ ivSub \in IvSub
  BY TimesFacts DEF InvoicesTypeOK
<1>2. ivSub.from \in Nat /\ ivSub.to \in Nat
  BY <1>1, TimesFacts DEF IvSub
<1>3. ivNow' = ivNow + 1 /\ ivNow < ivSub.to /\ UNCHANGED <<ivSub, ivFirst, ivPc>>
      /\ \A p \in IvProcs : ivPc[p] = "idle"
  BY DEF IvTick, ivLocal, ivGhost
<1>4. ivSub.from <= ivNow' /\ ivNow' <= ivSub.to
  BY <1>1, <1>2, <1>3 DEF IvPeriods
<1> QED
  BY <1>3, <1>4 DEF IvPeriods

LEMMA AloneMoves ==
  ASSUME IvAlone, NEW p \in IvProcs, IvOnly(p), ivPc[p] # "idle" \/ ivPc'[p] = "idle",
         UNCHANGED ivRaced
  PROVE  IvAlone'
  BY DEF IvAlone, IvOnly

LEMMA AloneRead ==
  ASSUME InvoicesTypeOK, IvAlone, NEW p \in IvProcs, IvRead(p)
  PROVE  IvAlone'
<1>1. IvOnly(p) /\ (ivRaced => ivRaced') /\ ((\E q \in IvProcs : ivPc[q] # "idle") => ivRaced')
  BY ReadFrame
<1> QED
  BY <1>1 DEF IvAlone, IvOnly

LEMMA StepPeriods ==
  ASSUME InvoicesTypeOK, IvPeriods, IvAlone, IvCovered, [InvoicesNext]_invoicesVars
  PROVE  IvPeriods' /\ IvAlone'
<1>1. ASSUME NEW p \in IvProcs, IvRead(p) PROVE IvPeriods' /\ IvAlone'
  BY <1>1, PeriodsRead, AloneRead
<1>2. ASSUME NEW p \in IvProcs, IvUsage(p) PROVE IvPeriods' /\ IvAlone'
  <2>1. /\ IvHolds' /\ IvOnly(p) /\ ivPc[p] = "usage" /\ ivHeld'[p].sub = ivHeld[p].sub
        /\ UNCHANGED <<ivSub, ivNow, ivFirst, ivRaced>>
    BY <1>2, UsageFrame DEF ivStore
  <2> QED
    BY <2>1, PeriodsMove, AloneMoves
<1>3. ASSUME NEW p \in IvProcs, IvReport(p) PROVE IvPeriods' /\ IvAlone'
  <2>1. IvHolds' /\ IvOnly(p) /\ ivHeld'[p].sub = ivHeld[p].sub
    BY <1>3, GotoFrame DEF IvReport, IvPC
  <2>2. ivPc[p] = "report" /\ UNCHANGED <<ivSub, ivNow, ivFirst, ivRaced>>
    BY <1>3 DEF IvReport
  <2> QED
    BY <2>1, <2>2, PeriodsMove, AloneMoves
<1>4. ASSUME NEW p \in IvProcs, IvList(p) PROVE IvPeriods' /\ IvAlone'
  <2>1. /\ IvHolds' /\ IvOnly(p) /\ ivPc[p] = "credits" /\ ivHeld'[p].sub = ivHeld[p].sub
        /\ UNCHANGED <<ivSub, ivNow, ivFirst, ivRaced>>
    BY <1>4, ListFrame DEF ivStore, ivGhost
  <2> QED
    BY <2>1, PeriodsMove, AloneMoves
<1>5. ASSUME NEW p \in IvProcs, IvConsume(p) PROVE IvPeriods' /\ IvAlone'
  <2>1. IvFull(ivHeld[p].seen) # {}
    BY <1>5 DEF IvConsume, IvCovered
  <2>2. /\ IvHolds' /\ IvOnly(p) /\ ivPc[p] = "consume" /\ ivHeld'[p].sub = ivHeld[p].sub
        /\ UNCHANGED <<ivSub, ivNow, ivFirst, ivRaced>>
    BY <1>5, <2>1, ConsumeFrame DEF ivGhost
  <2> QED
    BY <2>2, PeriodsMove, AloneMoves
<1>6. ASSUME NEW p \in IvProcs, IvInvoice(p) PROVE IvPeriods' /\ IvAlone'
  <2>1. IvHolds' /\ IvOnly(p) /\ ivHeld'[p].sub = ivHeld[p].sub
    BY <1>6, GotoFrame DEF IvInvoice, IvPC
  <2>2. ivPc[p] = "invoice" /\ UNCHANGED <<ivSub, ivNow, ivFirst, ivRaced>>
    BY <1>6 DEF IvInvoice, ivGhost
  <2> QED
    BY <2>1, <2>2, PeriodsMove, AloneMoves
<1>7. ASSUME NEW p \in IvProcs, IvSave(p) PROVE IvPeriods' /\ IvAlone'
  BY <1>7, PeriodsSave, AloneMoves, SaveFrame
<1>8. ASSUME \/ \E c \in IvCredits : IvGrant(c)
             \/ IvCallBegins
             \/ \E t \in IvTimes : IvCallEnds(t)
             \/ UNCHANGED invoicesVars
      PROVE  IvPeriods' /\ IvAlone'
  <2>1. UNCHANGED <<ivSub, ivNow, ivFirst, ivRaced, ivPc, ivHeld>>
    BY <1>8 DEF IvGrant, IvCallBegins, IvCallEnds, invoicesVars, ivStore, ivLocal, ivGhost
  <2> QED
    BY <2>1, PeriodsStay DEF IvAlone
<1>9. CASE IvTick
  BY <1>9, PeriodsTick DEF IvTick, IvAlone, ivLocal, ivGhost
<1>10. CASE IvRestart
  BY <1>10 DEF IvRestart, IvPeriods, IvAlone, ivStore
<1> QED
  BY <1>1, <1>2, <1>3, <1>4, <1>5, <1>6, <1>7, <1>8, <1>9, <1>10 DEF InvoicesNext

-------------------------------------------------------------------------------
(* Invoices: the calls counted. *)

\* What a closing counted stays counted.
LEMMA CountsMove ==
  ASSUME IvCounts, NEW p \in IvProcs, IvOnly(p),
         ivPc'[p] \in IvKnown => ivPc[p] \in IvKnown /\ ivHeld'[p].used = ivHeld[p].used
                                                   /\ ivHeld'[p].sub = ivHeld[p].sub,
         UNCHANGED <<ivCall, ivMissed>>
  PROVE  IvCounts'
<1>1. ASSUME NEW q \in IvProcs, ivPc'[q] \in IvKnown
      PROVE  ivPc[q] \in IvKnown /\ ivHeld'[q].used = ivHeld[q].used /\ ivHeld'[q].sub = ivHeld[q].sub
  BY <1>1 DEF IvOnly
<1> QED
  BY <1>1 DEF IvCounts

LEMMA CountsUsage ==
  ASSUME InvoicesTypeOK, IvCounts, NEW p \in IvProcs, IvUsage(p)
  PROVE  IvCounts'
<1> DEFINE sub == ivHeld[p].sub
<1>1. /\ IvOnly(p) /\ ivHeld'[p].sub = sub /\ ivHeld'[p].used = IvCounted(sub)
      /\ ivMissed' = ivMissed \cup {t \in sub.from .. sub.to - 1 : ivCall[t] = "up"}
      /\ UNCHANGED ivCall
  BY UsageFrame DEF ivStore
<1>2. ivHeld[p] \in IvHeld
  BY TypedHolds DEF IvHolds
<1>3. sub.from \in Nat /\ sub.to \in Nat
  <2>1. sub \in IvSub
    BY <1>2 DEF IvHeld
  <2> HIDE DEF sub
  <2> QED
    BY <2>1, TimesFacts DEF IvSub
<1>4. \A t \in IvTimes : ivCall[t] \in {"none", "up", "done"} /\ t \in Int
  BY TimesFacts DEF InvoicesTypeOK
<1>5. ASSUME NEW t \in IvTimes, sub.from <= t, t < sub.to
      PROVE  t \in IvCounted(sub) \/ t \in ivMissed' \/ ivCall[t] = "none"
  <2>1. t \in sub.from .. sub.to - 1
    BY <1>3, <1>4, <1>5
  <2> QED
    BY <1>1, <1>4, <1>5, <2>1 DEF IvCounted
<1>6. \A t \in IvCounted(sub) : sub.from <= t /\ t < sub.to /\ ivCall[t] = "done"
  BY DEF IvCounted
<1>7. ASSUME NEW q \in IvProcs, q # p
      PROVE  ivPc'[q] = ivPc[q] /\ ivHeld'[q] = ivHeld[q]
  BY <1>1, <1>7 DEF IvOnly
<1> QED
  BY <1>1, <1>5, <1>6, <1>7 DEF IvCounts

LEMMA CountsBegins ==
  ASSUME InvoicesTypeOK, IvPeriods, IvCounts, IvCallBegins
  PROVE  IvCounts'
<1>1. ivCall' = [ivCall EXCEPT ![ivNow] = "up"] /\ UNCHANGED <<ivNow, ivPc, ivHeld, ivMissed>>
  BY DEF IvCallBegins, ivLocal, ivGhost
<1>2. ivNow \in Int /\ \A p \in IvProcs : ivPc[p] \in IvKnown => ivHeld[p].sub.to = ivNow
  BY TimesFacts DEF IvPeriods, IvKnown, IvTold, InvoicesTypeOK
<1>3. \A t \in IvTimes : t < ivNow => ivCall'[t] = ivCall[t]
  BY <1>1, <1>2 DEF InvoicesTypeOK
<1>4. \A p \in IvProcs : ivHeld[p].used \subseteq IvTimes
  BY TypedHolds DEF IvHolds, IvHeld
<1> QED
  BY <1>1, <1>2, <1>3, <1>4 DEF IvCounts

LEMMA CountsEnds ==
  ASSUME InvoicesTypeOK, IvCounts, NEW t \in IvTimes, IvCallEnds(t)
  PROVE  IvCounts'
<1>1. ivCall' = [ivCall EXCEPT ![t] = "done"] /\ ivCall[t] = "up" /\ UNCHANGED <<ivPc, ivHeld, ivMissed>>
  BY DEF IvCallEnds, ivLocal, ivGhost
<1>2. \A u \in IvTimes : /\ ivCall[u] = "none" => ivCall'[u] = "none"
                         /\ ivCall[u] = "done" => ivCall'[u] = "done"
  BY <1>1 DEF InvoicesTypeOK
<1>3. \A p \in IvProcs : ivHeld[p].used \subseteq IvTimes
  BY TypedHolds DEF IvHolds, IvHeld
<1> QED
  BY <1>1, <1>2, <1>3 DEF IvCounts

LEMMA StepCounts ==
  ASSUME InvoicesTypeOK, IvPeriods, IvCounts, IvCovered, [InvoicesNext]_invoicesVars
  PROVE  IvCounts'
<1> USE DEF IvKnown, IvTold
<1>1. ASSUME NEW p \in IvProcs, IvRead(p) PROVE IvCounts'
  <2>1. IvOnly(p) /\ ivPc'[p] = "usage" /\ UNCHANGED <<ivCall, ivMissed>>
    BY <1>1, ReadFrame DEF ivStore
  <2> QED
    BY <2>1, CountsMove
<1>2. ASSUME NEW p \in IvProcs, IvUsage(p) PROVE IvCounts'
  BY <1>2, CountsUsage
<1>3. ASSUME NEW p \in IvProcs, IvReport(p) PROVE IvCounts'
  <2>1. IvOnly(p) /\ ivHeld'[p] = ivHeld[p]
    BY <1>3, GotoFrame DEF IvReport, IvPC
  <2>2. ivPc[p] = "report" /\ UNCHANGED <<ivCall, ivMissed>>
    BY <1>3 DEF IvReport
  <2> QED
    BY <2>1, <2>2, CountsMove
<1>4. ASSUME NEW p \in IvProcs, IvList(p) PROVE IvCounts'
  <2>1. /\ IvOnly(p) /\ ivPc[p] = "credits" /\ ivHeld'[p].sub = ivHeld[p].sub
        /\ ivHeld'[p].used = ivHeld[p].used /\ UNCHANGED <<ivCall, ivMissed>>
    BY <1>4, ListFrame DEF ivStore, ivGhost
  <2> QED
    BY <2>1, CountsMove
<1>5. ASSUME NEW p \in IvProcs, IvConsume(p) PROVE IvCounts'
  <2>1. IvFull(ivHeld[p].seen) # {}
    BY <1>5 DEF IvConsume, IvCovered
  <2>2. /\ IvOnly(p) /\ ivPc[p] = "consume" /\ ivHeld'[p].sub = ivHeld[p].sub
        /\ ivHeld'[p].used = ivHeld[p].used /\ UNCHANGED <<ivCall, ivMissed>>
    BY <1>5, <2>1, ConsumeFrame DEF ivGhost
  <2> QED
    BY <2>2, CountsMove
<1>6. ASSUME NEW p \in IvProcs, IvInvoice(p) PROVE IvCounts'
  <2>1. IvOnly(p) /\ ivHeld'[p] = ivHeld[p]
    BY <1>6, GotoFrame DEF IvInvoice, IvPC
  <2>2. ivPc[p] = "invoice" /\ UNCHANGED <<ivCall, ivMissed>>
    BY <1>6 DEF IvInvoice, ivGhost
  <2> QED
    BY <2>1, <2>2, CountsMove
<1>7. ASSUME NEW p \in IvProcs, IvSave(p) PROVE IvCounts'
  <2>1. IvOnly(p) /\ ivPc'[p] = "idle" /\ UNCHANGED <<ivCall, ivMissed>>
    BY <1>7, SaveFrame
  <2> QED
    BY <2>1, CountsMove
<1>8. ASSUME (\E c \in IvCredits : IvGrant(c)) \/ IvTick \/ UNCHANGED invoicesVars PROVE IvCounts'
  <2>1. UNCHANGED <<ivCall, ivMissed, ivPc, ivHeld>>
    BY <1>8 DEF IvGrant, IvTick, invoicesVars, ivStore, ivLocal, ivGhost
  <2> QED
    BY <2>1 DEF IvCounts
<1>9. CASE IvCallBegins
  BY <1>9, CountsBegins
<1>10. ASSUME NEW t \in IvTimes, IvCallEnds(t) PROVE IvCounts'
  BY <1>10, CountsEnds
<1>11. CASE IvRestart
  BY <1>11 DEF IvRestart, IvCounts
<1> QED
  BY <1>1, <1>2, <1>3, <1>4, <1>5, <1>6, <1>7, <1>8, <1>9, <1>10, <1>11 DEF InvoicesNext

-------------------------------------------------------------------------------
(* Invoices: the calls billed. *)

\* A process that closes a period has it between times.
LEMMA SubFacts ==
  ASSUME InvoicesTypeOK, NEW p \in IvProcs
  PROVE  /\ ivHeld[p] \in IvHeld /\ ivHeld[p].sub \in IvSub
         /\ ivHeld[p].sub.from \in Nat /\ ivHeld[p].sub.to \in Nat
         /\ ivSub.from \in Nat /\ ivSub.to \in Nat /\ ivNow \in Nat
<1>1. ivHeld[p] \in IvHeld
  BY TypedHolds DEF IvHolds
<1>2. ivHeld[p].sub \in IvSub /\ ivSub \in IvSub
  BY <1>1 DEF IvHeld, InvoicesTypeOK
<1>3. \A sub \in IvSub : sub.from \in Nat /\ sub.to \in Nat
  BY TimesFacts DEF IvSub
<1>4. ivNow \in Nat
  BY TimesFacts DEF InvoicesTypeOK
<1> QED
  BY <1>1, <1>2, <1>3, <1>4

\* What IvPeriods says of one of them.
LEMMA PeriodOf ==
  ASSUME IvPeriods, NEW p \in IvProcs, ivPc[p] # "idle"
  PROVE  /\ ivHeld[p].sub.to = ivNow /\ IvEven(ivHeld[p].sub.from) /\ ivHeld[p].sub.from + 2 <= ivNow
         /\ \/ ivHeld[p].sub = ivSub
            \/ ivRaced /\ ivSub.from = IvMonth(ivNow) /\ ivSub.to = IvMonth(ivNow) + 2
<1>1. \A q \in IvProcs : ivPc[q] # "idle" =>
       LET sub == ivHeld[q].sub IN
       /\ sub.to = ivNow /\ IvEven(sub.from) /\ sub.from + 2 <= ivNow
       /\ \/ sub = ivSub
          \/ ivRaced /\ ivSub.from = IvMonth(ivNow) /\ ivSub.to = IvMonth(ivNow) + 2
  BY DEF IvPeriods
<1> QED
  BY <1>1

LEMMA BillsMove ==
  ASSUME IvBills, UNCHANGED <<ivSub, ivCall, ivBilled, ivFirst>>,
         ivMissed \subseteq ivMissed', ivRaced => ivRaced'
  PROVE  IvBills'
<1>1. \A t \in IvTimes : IvTwice(t)' <=> IvTwice(t)
  BY DEF IvTwice
<1> QED
  BY <1>1 DEF IvBills

LEMMA BillsSave ==
  ASSUME InvoicesTypeOK, IvPeriods, IvCounts, IvBills, NEW p \in IvProcs, IvSave(p)
  PROVE  IvBills'
<1> DEFINE sub == ivHeld[p].sub
           used == ivHeld[p].used
<1>1. /\ ivPc[p] = "save" /\ ivSub'.from = IvMonth(ivNow)
      /\ ivBilled' = [t \in IvTimes |-> ivBilled[t] + IF t \in used THEN 1 ELSE 0]
      /\ UNCHANGED <<ivNow, ivCall, ivFirst, ivMissed, ivRaced>>
  BY SaveFrame
<1>2. /\ sub.from \in Nat /\ sub.to \in Nat /\ ivSub.from \in Nat /\ ivSub.to \in Nat
      /\ ivNow \in Nat
  BY SubFacts
<1>3. /\ sub.to = ivNow /\ IvEven(sub.from) /\ sub.from + 2 <= ivNow
      /\ \/ sub = ivSub
         \/ ivRaced /\ ivSub.from = IvMonth(ivNow)
  <2>1. ivPc[p] # "idle"
    BY <1>1
  <2> QED
    BY <2>1, PeriodOf
<1>4. /\ \A t \in used : sub.from <= t /\ t < ivNow /\ ivCall[t] = "done"
      /\ \A t \in IvTimes : sub.from <= t /\ t < ivNow =>
           t \in used \/ t \in ivMissed \/ ivCall[t] = "none"
  BY <1>1, <1>3 DEF IvCounts, IvKnown, IvTold
<1>5. \A t \in IvTimes : t \in Nat /\ ivBilled[t] \in Nat
                         /\ ivBilled'[t] = ivBilled[t] + IF t \in used THEN 1 ELSE 0
  BY <1>1, TimesFacts DEF InvoicesTypeOK
<1>6. IvMonth(ivNow) \in Nat /\ IvMonth(ivNow) <= ivNow /\ ivNow <= IvMonth(ivNow) + 1
      /\ IvEven(IvMonth(ivNow)) /\ (IvEven(ivNow) <=> IvMonth(ivNow) = ivNow)
  BY <1>2, MonthFacts
<1>7. \A t \in IvTimes : IvTwice(t)' <=> IvTwice(t)
  BY <1>1 DEF IvTwice
<1>8. \A t \in IvTimes :
        /\ t < ivSub.from =>
             /\ ivCall[t] = "up" => t \in ivMissed
             /\ ivCall[t] = "done" => ivBilled[t] >= 1 \/ t \in ivMissed
        /\ ~ivRaced => ivBilled[t] <= 1 \/ IvTwice(t)
        /\ ~ivRaced /\ t >= ivSub.from => ivBilled[t] = 0 \/ IvTwice(t)
  BY DEF IvBills
<1>9. sub = ivSub => sub.from = ivSub.from /\ sub.to = ivSub.to
  OBVIOUS
<1>10. sub = ivSub => \/ ivSub.from = 0 /\ ivSub.to = ivFirst
                      \/ IvEven(ivSub.to)
  BY <1>2, <1>3 DEF IvPeriods, IvEven
<1> HIDE DEF sub, used
<1>11. ASSUME NEW t \in IvTimes, t < IvMonth(ivNow)
       PROVE  /\ ivCall[t] = "up" => t \in ivMissed
              /\ ivCall[t] = "done" => ivBilled'[t] >= 1 \/ t \in ivMissed
  <2>1. CASE t < ivSub.from
    BY <1>5, <1>8, <2>1
  <2>2. CASE t >= ivSub.from
    <3>1. sub = ivSub /\ sub.from <= t /\ t < ivNow
      BY <1>2, <1>3, <1>5, <1>6, <1>9, <1>11, <2>2
    <3>2. t \in used => ivBilled'[t] >= 1
      BY <1>5
    <3>3. t \in used \/ t \in ivMissed \/ ivCall[t] = "none"
      BY <1>4, <3>1
    <3> QED
      BY <3>2, <3>3, <1>4, <3>1
  <2> QED
    BY <1>2, <1>5, <2>1, <2>2
<1>12. ASSUME NEW t \in IvTimes, ~ivRaced
       PROVE  ivBilled'[t] <= 1 \/ IvTwice(t)
  <2>1. t \in used => t >= ivSub.from
    BY <1>2, <1>3, <1>4, <1>5, <1>9, <1>12
  <2> QED
    BY <1>5, <1>8, <1>12, <2>1
<1>13. ASSUME NEW t \in IvTimes, ~ivRaced, t >= IvMonth(ivNow)
       PROVE  ivBilled'[t] = 0 \/ IvTwice(t)
  <2>1. sub = ivSub /\ sub.from = ivSub.from /\ ivSub.to = ivNow
    BY <1>3, <1>9, <1>13
  <2>2. t >= ivSub.from
    BY <1>2, <1>3, <1>5, <1>6, <1>13, <2>1 DEF IvEven
  <2>3. ASSUME t \in used PROVE IvTwice(t)
    <3>1. t < ivNow
      BY <1>4, <2>3
    <3>2. ~IvEven(ivNow)
      BY <1>2, <1>5, <1>6, <1>13, <3>1
    <3>3. ivNow = ivFirst
      BY <1>10, <2>1, <3>2
    <3> QED
      BY <1>13, <3>1, <3>3 DEF IvTwice
  <2> QED
    BY <1>5, <1>8, <1>13, <2>2, <2>3
<1> QED
  BY <1>1, <1>7, <1>11, <1>12, <1>13 DEF IvBills

LEMMA BillsBegins ==
  ASSUME InvoicesTypeOK, IvPeriods, IvBills, IvCallBegins
  PROVE  IvBills'
<1>1. ivCall' = [ivCall EXCEPT ![ivNow] = "up"]
      /\ UNCHANGED <<ivSub, ivBilled, ivFirst, ivMissed, ivRaced>>
  BY DEF IvCallBegins, ivGhost
<1>2. ivSub.from \in Int /\ ivNow \in Int /\ ivSub.from <= ivNow
  <2>1. ivSub \in IvSub /\ ivNow \in Nat /\ ivSub.from <= ivNow
    BY TimesFacts DEF IvPeriods, InvoicesTypeOK
  <2>2. ivSub.from \in Nat
    BY <2>1, TimesFacts DEF IvSub
  <2> QED
    BY <2>1, <2>2
<1>3. \A t \in IvTimes : t < ivSub.from => ivCall'[t] = ivCall[t]
  BY <1>1, <1>2 DEF InvoicesTypeOK
<1>4. \A t \in IvTimes : IvTwice(t)' <=> IvTwice(t)
  BY <1>1 DEF IvTwice
<1> QED
  BY <1>1, <1>3, <1>4 DEF IvBills

LEMMA BillsEnds ==
  ASSUME InvoicesTypeOK, IvBills, NEW t \in IvTimes, IvCallEnds(t)
  PROVE  IvBills'
<1>1. /\ ivCall' = [ivCall EXCEPT ![t] = "done"] /\ ivCall[t] = "up"
      /\ UNCHANGED <<ivSub, ivBilled, ivFirst, ivMissed, ivRaced>>
  BY DEF IvCallEnds, ivGhost
<1>2. \A u \in IvTimes : ivCall'[u] = IF u = t THEN "done" ELSE ivCall[u]
  BY <1>1 DEF InvoicesTypeOK
<1>3. \A u \in IvTimes : IvTwice(u)' <=> IvTwice(u)
  BY <1>1 DEF IvTwice
<1> QED
  BY <1>1, <1>2, <1>3 DEF IvBills

LEMMA StepBills ==
  ASSUME InvoicesTypeOK, IvPeriods, IvCounts, IvCovered, IvBills, [InvoicesNext]_invoicesVars
  PROVE  IvBills'
<1>1. ASSUME NEW p \in IvProcs, IvRead(p) PROVE IvBills'
  <2>1. UNCHANGED <<ivSub, ivCall, ivBilled, ivFirst, ivMissed>> /\ (ivRaced => ivRaced')
    BY <1>1, ReadFrame DEF ivStore
  <2> QED
    BY <2>1, BillsMove
<1>2. ASSUME NEW p \in IvProcs, IvUsage(p) PROVE IvBills'
  <2>1. UNCHANGED <<ivSub, ivCall, ivBilled, ivFirst, ivRaced>> /\ ivMissed \subseteq ivMissed'
    BY <1>2 DEF IvUsage, ivStore
  <2> QED
    BY <2>1, BillsMove
<1>3. ASSUME \/ \E p \in IvProcs : IvReport(p) \/ IvList(p) \/ IvConsume(p) \/ IvInvoice(p)
             \/ \E c \in IvCredits : IvGrant(c)
             \/ IvTick
             \/ IvRestart
             \/ UNCHANGED invoicesVars
      PROVE  IvBills'
  <2>1. UNCHANGED <<ivSub, ivCall, ivBilled, ivFirst, ivRaced, ivMissed>>
    BY <1>3 DEF IvReport, IvList, IvConsume, IvInvoice, IvGrant, IvTick, IvRestart, invoicesVars,
                ivStore, ivGhost
  <2> QED
    BY <2>1, BillsMove
<1>4. ASSUME NEW p \in IvProcs, IvSave(p) PROVE IvBills'
  BY <1>4, BillsSave
<1>5. CASE IvCallBegins
  BY <1>5, BillsBegins
<1>6. ASSUME NEW t \in IvTimes, IvCallEnds(t) PROVE IvBills'
  BY <1>6, BillsEnds
<1> QED
  BY <1>1, <1>2, <1>3, <1>4, <1>5, <1>6 DEF InvoicesNext

-------------------------------------------------------------------------------
(* Invoices: the overage reported. *)

\* Nobody else closes the period.
LEMMA OthersIdle ==
  ASSUME IvAlone, ~ivRaced, NEW p \in IvProcs, ivPc[p] # "idle"
  PROVE  \A q \in IvProcs : q # p => ivPc[q] = "idle"
  BY DEF IvAlone

\* and it is still the one that is stored.
LEMMA SmoothSub ==
  ASSUME IvPeriods, ~ivRaced, NEW p \in IvProcs, ivPc[p] # "idle"
  PROVE  ivHeld[p].sub = ivSub
  BY PeriodOf

LEMMA ChargedIsInt == InvoicesTypeOK => IvCharged \in Nat
<1> SUFFICES ASSUME InvoicesTypeOK PROVE IvCharged \in Nat
  OBVIOUS
<1>1. DOMAIN ivBilled = IvTimes /\ \A t \in IvTimes : ivBilled[t] \in Nat
  BY DEF InvoicesTypeOK
<1>2. SumFunctionOnSet(ivBilled, IvTimes) \in Nat
  BY <1>1, TimesFacts, SumIsNat
<1> QED
  BY <1>1, <1>2 DEF IvCharged, SumFunction

\* A period is closed with the calls in it.
LEMMA ChargedGrows ==
  ASSUME InvoicesTypeOK, NEW U \in SUBSET IvTimes,
         ivBilled' = [t \in IvTimes |-> ivBilled[t] + IF t \in U THEN 1 ELSE 0]
  PROVE  IvCharged' = IvCharged + Cardinality(U)
<1>1. DOMAIN ivBilled = IvTimes /\ DOMAIN ivBilled' = IvTimes
  BY DEF InvoicesTypeOK
<1>2. \A t \in IvTimes : ivBilled[t] \in Int /\ ivBilled'[t] = ivBilled[t] + IF t \in U THEN 1 ELSE 0
  BY DEF InvoicesTypeOK
<1>3. SumFunctionOnSet(ivBilled', IvTimes) = SumFunctionOnSet(ivBilled, IvTimes) + Cardinality(U)
  <2>1. IsFiniteSet(IvTimes)
    BY TimesFacts
  <2> HIDE InvoicesAssumption
  <2> QED
    BY <1>2, <2>1, SumCounts
<1> QED
  BY <1>1, <1>3 DEF IvCharged, SumFunction

LEMMA ReportsMove ==
  ASSUME IvReports, NEW p \in IvProcs, IvOnly(p), ivPc'[p] \in IvTold <=> ivPc[p] \in IvTold,
         ivPc[p] \in IvTold => ivHeld'[p].used = ivHeld[p].used,
         UNCHANGED <<ivSub, ivReported, ivBilled, ivRaced, ivCut, ivLost>>
  PROVE  IvReports'
<1>1. IvCharged' = IvCharged
  BY DEF IvCharged
<1>2. \A q \in IvProcs : /\ ivPc'[q] \in IvTold <=> ivPc[q] \in IvTold
                         /\ ivPc[q] \in IvTold => ivHeld'[q].used = ivHeld[q].used
  BY DEF IvOnly
<1> QED
  BY <1>1, <1>2 DEF IvReports, IvSmooth

LEMMA ReportsStay ==
  ASSUME IvReports, UNCHANGED <<ivSub, ivReported, ivBilled, ivRaced, ivCut, ivLost, ivPc, ivHeld>>
  PROVE  IvReports'
<1>1. IvCharged' = IvCharged
  BY DEF IvCharged
<1> QED
  BY <1>1 DEF IvReports, IvSmooth

LEMMA ReportsRead ==
  ASSUME InvoicesTypeOK, IvReports, NEW p \in IvProcs, IvRead(p)
  PROVE  IvReports'
<1>1. /\ IvOnly(p) /\ ivPc[p] = "idle" /\ ivPc'[p] = "usage"
      /\ UNCHANGED <<ivSub, ivReported, ivBilled, ivCut, ivLost>> /\ (ivRaced => ivRaced')
  BY ReadFrame DEF ivStore
<1>2. IvCharged' = IvCharged
  BY <1>1 DEF IvCharged
<1>3. IvSmooth' => IvSmooth
  BY <1>1 DEF IvSmooth
<1>4. \A q \in IvProcs : /\ ivPc'[q] \in IvTold <=> ivPc[q] \in IvTold
                         /\ ivPc[q] \in IvTold => ivHeld'[q] = ivHeld[q]
  BY <1>1 DEF IvOnly, IvTold
<1> QED
  BY <1>1, <1>2, <1>3, <1>4 DEF IvReports

LEMMA ReportsUsage ==
  ASSUME InvoicesTypeOK, IvPeriods, IvAlone, IvReports, NEW p \in IvProcs, IvUsage(p)
  PROVE  IvReports'
<1>1. /\ IvOnly(p) /\ ivPc[p] = "usage" /\ ivHeld'[p].used = IvCounted(ivHeld[p].sub)
      /\ ivPc'[p] = IF ivHeld[p].sub.ref /\ ivHeld'[p].used # {} THEN "report" ELSE "credits"
      /\ UNCHANGED <<ivSub, ivReported, ivBilled, ivRaced, ivCut, ivLost>>
  BY UsageFrame DEF ivStore
<1>2. IvCharged' = IvCharged /\ IvCharged \in Nat
  BY <1>1, ChargedIsInt DEF IvCharged
<1> SUFFICES ASSUME IvSmooth', ivSub.ref, ~ivLost
             PROVE  /\ (\A q \in IvProcs : ivPc'[q] \notin IvTold) => ivReported = IvCharged
                    /\ \A q \in IvProcs : ivPc'[q] \in IvTold =>
                         ivReported = IvCharged + Cardinality(ivHeld'[q].used)
  BY <1>1, <1>2 DEF IvReports
<1>3. IvSmooth /\ ~ivRaced
  BY <1>1 DEF IvSmooth
<1>4. ivHeld[p].sub = ivSub /\ \A q \in IvProcs : q # p => ivPc[q] = "idle"
  BY <1>1, <1>3, SmoothSub, OthersIdle
<1>5. ivReported = IvCharged
  BY <1>1, <1>3, <1>4 DEF IvReports, IvTold
<1>6. ASSUME NEW q \in IvProcs, ivPc'[q] \in IvTold
      PROVE  ivHeld'[q].used = {}
  BY <1>1, <1>4, <1>6 DEF IvOnly, IvTold
<1>7. Cardinality({}) = 0
  BY FS_EmptySet
<1>8. \A q \in IvProcs : ivPc'[q] \in IvTold => Cardinality(ivHeld'[q].used) = 0
  BY <1>6, <1>7
<1> QED
  BY <1>2, <1>5, <1>8

LEMMA ReportsReport ==
  ASSUME InvoicesTypeOK, IvPeriods, IvAlone, IvReports, NEW p \in IvProcs, IvReport(p)
  PROVE  IvReports'
<1>1. IvOnly(p) /\ ivHeld'[p] = ivHeld[p] /\ ivPc'[p] = "credits"
  BY GotoFrame DEF IvReport, IvPC
<1>2. /\ ivPc[p] = "report" /\ UNCHANGED <<ivSub, ivBilled, ivRaced, ivCut>>
      /\ \/ ivReported' = ivReported + Cardinality(ivHeld[p].used) /\ ivLost' \in {ivLost, TRUE}
         \/ ivReported' = ivReported /\ ivLost' = TRUE
  BY DEF IvReport
<1>3. IvCharged' = IvCharged
  BY <1>2 DEF IvCharged
<1> SUFFICES ASSUME IvSmooth', ivSub.ref, ~ivLost'
             PROVE  /\ (\A q \in IvProcs : ivPc'[q] \notin IvTold) => ivReported' = IvCharged
                    /\ \A q \in IvProcs : ivPc'[q] \in IvTold =>
                         ivReported' = IvCharged + Cardinality(ivHeld'[q].used)
  BY <1>2, <1>3 DEF IvReports
<1>4. IvSmooth /\ ~ivRaced
  BY <1>2 DEF IvSmooth
<1>5. \A q \in IvProcs : q # p => ivPc[q] = "idle"
  BY <1>2, <1>4, OthersIdle
<1>6. ~ivLost /\ ivReported' = ivReported + Cardinality(ivHeld[p].used)
  <2>1. ivLost' # TRUE
    OBVIOUS
  <2>2. ivReported' = ivReported + Cardinality(ivHeld[p].used) /\ ivLost' = ivLost
    BY <1>2, <2>1
  <2>3. ~ivLost
    BY <2>2, Zenon
  <2> QED
    BY <2>2, <2>3
<1>7. ivReported = IvCharged
  BY <1>2, <1>4, <1>5, <1>6 DEF IvReports, IvTold
<1>8. \A q \in IvProcs : ivPc'[q] \in IvTold <=> q = p
  BY <1>1, <1>5 DEF IvOnly, IvTold
<1> QED
  BY <1>1, <1>6, <1>7, <1>8

LEMMA ReportsSave ==
  ASSUME InvoicesTypeOK, IvPeriods, IvAlone, IvReports, NEW p \in IvProcs, IvSave(p)
  PROVE  IvReports'
<1>1. /\ IvOnly(p) /\ ivPc[p] = "save" /\ ivPc'[p] = "idle"
      /\ ivSub'.ref = ivHeld[p].sub.ref
      /\ ivBilled' = [t \in IvTimes |-> ivBilled[t] + IF t \in ivHeld[p].used THEN 1 ELSE 0]
      /\ UNCHANGED <<ivReported, ivRaced, ivCut, ivLost>>
  BY SaveFrame
<1>2. ivHeld[p].used \in SUBSET IvTimes
  BY SubFacts DEF IvHeld
<1>3. IvCharged' = IvCharged + Cardinality(ivHeld[p].used)
  BY <1>1, <1>2, ChargedGrows
<1> SUFFICES ASSUME IvSmooth', ivSub'.ref, ~ivLost
             PROVE  /\ (\A q \in IvProcs : ivPc'[q] \notin IvTold) => ivReported = IvCharged'
                    /\ \A q \in IvProcs : ivPc'[q] \notin IvTold
  BY <1>1 DEF IvReports
<1>4. IvSmooth /\ ~ivRaced
  BY <1>1 DEF IvSmooth
<1>5. ivHeld[p].sub = ivSub /\ \A q \in IvProcs : q # p => ivPc[q] = "idle"
  BY <1>1, <1>4, SmoothSub, OthersIdle
<1>6. ivReported = IvCharged + Cardinality(ivHeld[p].used)
  BY <1>1, <1>4, <1>5 DEF IvReports, IvTold
<1>7. \A q \in IvProcs : ivPc'[q] = "idle"
  BY <1>1, <1>5 DEF IvOnly
<1> QED
  BY <1>3, <1>6, <1>7 DEF IvTold

LEMMA AfterCreditsTold == \A p : IvAfterCredits(p) \in IvTold
  BY DEF IvAfterCredits, IvTold

LEMMA StepReports ==
  ASSUME InvoicesTypeOK, IvPeriods, IvAlone, IvCovered, IvReports, [InvoicesNext]_invoicesVars
  PROVE  IvReports'
<1>1. ASSUME NEW p \in IvProcs, IvRead(p) PROVE IvReports'
  BY <1>1, ReportsRead
<1>2. ASSUME NEW p \in IvProcs, IvUsage(p) PROVE IvReports'
  BY <1>2, ReportsUsage
<1>3. ASSUME NEW p \in IvProcs, IvReport(p) PROVE IvReports'
  BY <1>3, ReportsReport
<1>4. ASSUME NEW p \in IvProcs, IvList(p) PROVE IvReports'
  <2>1. /\ IvOnly(p) /\ ivPc[p] = "credits"
        /\ ivPc'[p] = IF ivHeld[p].take > 0 /\ IvFull(ivLeft) # {}
                      THEN "consume" ELSE IvAfterCredits(p)
        /\ ivHeld'[p].used = ivHeld[p].used
        /\ UNCHANGED <<ivSub, ivReported, ivBilled, ivRaced, ivCut, ivLost>>
    BY <1>4, ListFrame DEF ivStore, ivGhost
  <2>2. ivPc'[p] \in IvTold /\ ivPc[p] \in IvTold
    BY <2>1, AfterCreditsTold DEF IvTold
  <2> QED
    BY <2>1, <2>2, ReportsMove
<1>5. ASSUME NEW p \in IvProcs, IvConsume(p) PROVE IvReports'
  <2>1. IvFull(ivHeld[p].seen) # {}
    BY <1>5 DEF IvConsume, IvCovered
  <2>2. /\ IvOnly(p) /\ ivPc[p] = "consume" /\ ivPc'[p] \in {"consume", IvAfterCredits(p)}
        /\ ivHeld'[p].used = ivHeld[p].used
        /\ UNCHANGED <<ivSub, ivReported, ivBilled, ivRaced, ivCut, ivLost>>
    BY <1>5, <2>1, ConsumeFrame DEF ivGhost
  <2>3. ivPc'[p] \in IvTold /\ ivPc[p] \in IvTold
    BY <2>2, AfterCreditsTold DEF IvTold
  <2> QED
    BY <2>2, <2>3, ReportsMove
<1>6. ASSUME NEW p \in IvProcs, IvInvoice(p) PROVE IvReports'
  <2>1. IvOnly(p) /\ ivHeld'[p] = ivHeld[p] /\ ivPc'[p] = "save"
    BY <1>6, GotoFrame DEF IvInvoice, IvPC
  <2>2. ivPc[p] = "invoice" /\ UNCHANGED <<ivSub, ivReported, ivBilled, ivRaced, ivCut, ivLost>>
    BY <1>6 DEF IvInvoice, ivGhost
  <2>3. ivPc'[p] \in IvTold /\ ivPc[p] \in IvTold
    BY <2>1, <2>2 DEF IvTold
  <2> QED
    BY <2>1, <2>2, <2>3, ReportsMove
<1>7. ASSUME NEW p \in IvProcs, IvSave(p) PROVE IvReports'
  BY <1>7, ReportsSave
<1>8. ASSUME \/ \E c \in IvCredits : IvGrant(c)
             \/ IvCallBegins
             \/ \E t \in IvTimes : IvCallEnds(t)
             \/ IvTick
             \/ UNCHANGED invoicesVars
      PROVE  IvReports'
  <2>1. UNCHANGED <<ivSub, ivReported, ivBilled, ivRaced, ivCut, ivLost, ivPc, ivHeld>>
    BY <1>8 DEF IvGrant, IvCallBegins, IvCallEnds, IvTick, invoicesVars, ivStore, ivLocal, ivGhost
  <2> QED
    BY <2>1, ReportsStay
<1>9. CASE IvRestart
  BY <1>9 DEF IvRestart, IvReports, IvSmooth
<1> QED
  BY <1>1, <1>2, <1>3, <1>4, <1>5, <1>6, <1>7, <1>8, <1>9 DEF InvoicesNext

-------------------------------------------------------------------------------
(* Invoices: the credit to be taken. *)

LEMMA CoveredMoves ==
  ASSUME IvCovered, NEW p \in IvProcs, IvOnly(p),
         ivPc'[p] = "consume" => ivHeld'[p].take > 0 /\ IvFull(ivHeld'[p].seen) # {},
         ivPc'[p] = "invoice" => ivHeld'[p].sub.status \in IvServing,
         IvSmooth' => (\A q \in IvProcs : q # p => ivPc[q] = "idle") /\ IvCoverOf(p)'
  PROVE  IvCovered'
<1>1. /\ \A q \in IvProcs :
           /\ ivPc[q] = "consume" => ivHeld[q].take > 0 /\ IvFull(ivHeld[q].seen) # {}
           /\ ivPc[q] = "invoice" => ivHeld[q].sub.status \in IvServing
  BY DEF IvCovered
<1>2. ASSUME NEW q \in IvProcs
      PROVE  /\ ivPc'[q] = "consume" => ivHeld'[q].take > 0 /\ IvFull(ivHeld'[q].seen) # {}
             /\ ivPc'[q] = "invoice" => ivHeld'[q].sub.status \in IvServing
  BY <1>1 DEF IvOnly
<1>3. ASSUME IvSmooth', NEW q \in IvProcs
      PROVE  IvCoverOf(q)'
  <2>1. CASE q = p
    BY <1>3, <2>1
  <2>2. CASE q # p
    <3>1. ivPc'[q] = "idle"
      BY <1>3, <2>2 DEF IvOnly
    <3> QED
      BY <3>1 DEF IvCoverOf
  <2> QED
    BY <2>1, <2>2
<1> QED
  BY <1>2, <1>3 DEF IvCovered

LEMMA CoveredRead ==
  ASSUME InvoicesTypeOK, IvCovered, NEW p \in IvProcs, IvRead(p)
  PROVE  IvCovered'
<1>1. /\ IvOnly(p) /\ ivPc'[p] = "usage" /\ ((\E q \in IvProcs : ivPc[q] # "idle") => ivRaced')
  BY ReadFrame
<1>2. IvCoverOf(p)'
  BY <1>1 DEF IvCoverOf
<1>3. IvSmooth' => \A q \in IvProcs : ivPc[q] = "idle"
  BY <1>1 DEF IvSmooth
<1> QED
  BY <1>1, <1>2, <1>3, CoveredMoves

LEMMA CoveredUsage ==
  ASSUME InvoicesTypeOK, IvAlone, IvCovered, NEW p \in IvProcs, IvUsage(p)
  PROVE  IvCovered'
<1>1. /\ IvOnly(p) /\ ivPc[p] = "usage" /\ ivPc'[p] \in {"report", "credits"}
      /\ ivHeld'[p].take <= IvWorth(ivLeft) /\ UNCHANGED <<ivLeft, ivRaced>>
  BY UsageFrame DEF ivStore
<1>2. IvCoverOf(p)'
  BY <1>1 DEF IvCoverOf, IvWorth
<1>3. IvSmooth' => \A q \in IvProcs : q # p => ivPc[q] = "idle"
  BY <1>1, OthersIdle DEF IvSmooth
<1> QED
  BY <1>1, <1>2, <1>3, CoveredMoves

LEMMA CoveredReport ==
  ASSUME InvoicesTypeOK, IvAlone, IvCovered, NEW p \in IvProcs, IvReport(p)
  PROVE  IvCovered'
<1>1. IvOnly(p) /\ ivHeld'[p] = ivHeld[p] /\ ivPc'[p] = "credits"
  BY GotoFrame DEF IvReport, IvPC
<1>2. ivPc[p] = "report" /\ UNCHANGED <<ivLeft, ivRaced, ivCut>>
  BY DEF IvReport
<1>3. IvSmooth' => IvSmooth /\ \A q \in IvProcs : q # p => ivPc[q] = "idle"
  BY <1>2, OthersIdle DEF IvSmooth
<1>4. IvSmooth' => IvCoverOf(p)
  BY <1>3 DEF IvCovered
<1>5. IvCoverOf(p) => IvCoverOf(p)'
  BY <1>1, <1>2 DEF IvCoverOf, IvWorth
<1> QED
  BY <1>1, <1>3, <1>4, <1>5, CoveredMoves

LEMMA AfterCreditsFacts ==
  ASSUME NEW p \in IvProcs
  PROVE  /\ IvAfterCredits(p) \in {"invoice", "save"}
         /\ IvAfterCredits(p) = "invoice" <=> ivHeld[p].sub.status \in IvServing
  BY DEF IvAfterCredits

LEMMA CoveredList ==
  ASSUME InvoicesTypeOK, IvAlone, IvCovered, NEW p \in IvProcs, IvList(p)
  PROVE  IvCovered'
<1>1. /\ IvOnly(p) /\ ivPc[p] = "credits"
      /\ ivPc'[p] = IF ivHeld[p].take > 0 /\ IvFull(ivLeft) # {}
                    THEN "consume" ELSE IvAfterCredits(p)
      /\ ivHeld'[p].seen = ivLeft /\ ivHeld'[p].take = ivHeld[p].take
      /\ ivHeld'[p].sub = ivHeld[p].sub
      /\ UNCHANGED <<ivLeft, ivRaced, ivCut>>
  BY ListFrame DEF ivStore, ivGhost
<1>2. IvAfterCredits(p) \in {"invoice", "save"}
      /\ (IvAfterCredits(p) = "invoice" => ivHeld[p].sub.status \in IvServing)
  BY AfterCreditsFacts
<1>3. IvSmooth' => IvSmooth /\ \A q \in IvProcs : q # p => ivPc[q] = "idle"
  BY <1>1, OthersIdle DEF IvSmooth
<1>4. ivHeld[p].take \in Nat /\ ivLeft \in [IvCredits -> Nat \cup {IvNone}]
  BY SubFacts DEF IvHeld, InvoicesTypeOK
<1>5. ASSUME IvSmooth' PROVE IvCoverOf(p)'
  <2>1. ivHeld[p].take <= IvWorth(ivLeft)
    BY <1>1, <1>3, <1>5 DEF IvCovered, IvCoverOf
  <2>2. ivPc'[p] = "consume" => ivHeld'[p].take <= IvWorth(ivHeld'[p].seen)
                             /\ \A c \in IvFull(ivHeld'[p].seen) : ivLeft'[c] = ivHeld'[p].seen[c]
    BY <1>1, <2>1
  <2>3. ivPc'[p] = "invoice" => ivHeld'[p].take = 0
    <3>1. IvFull(ivLeft) = {} => IvWorth(ivLeft) = 0
      BY <1>4, WorthOfNothing
    <3>2. ivPc'[p] = "invoice" => ~(ivHeld[p].take > 0) \/ IvFull(ivLeft) = {}
      BY <1>1
    <3> QED
      BY <1>1, <1>4, <2>1, <3>1, <3>2
  <2>4. ivPc'[p] \notin {"report", "credits"}
    BY <1>1, <1>2
  <2> QED
    BY <2>2, <2>3, <2>4 DEF IvCoverOf, IvWorth
<1>6. ivPc'[p] = "consume" => ivHeld'[p].take > 0 /\ IvFull(ivHeld'[p].seen) # {}
  BY <1>1, <1>2
<1>7. ivPc'[p] = "invoice" => ivHeld'[p].sub.status \in IvServing
  BY <1>1, <1>2
<1> QED
  BY <1>1, <1>3, <1>5, <1>6, <1>7, CoveredMoves

\* What is left of a list when its oldest is used.
LEMMA FullMoves ==
  ASSUME NEW seen \in [IvCredits -> Nat \cup {IvNone}], NEW c \in IvCredits
  PROVE  IvFull([seen EXCEPT ![c] = 0]) = IvFull(seen) \ {c}
  BY DEF IvFull

LEMMA CoveredConsume ==
  ASSUME InvoicesTypeOK, IvAlone, IvCovered, NEW p \in IvProcs, IvConsume(p)
  PROVE  IvCovered'
<1>0. IvFull(ivHeld[p].seen) # {}
  BY DEF IvConsume, IvCovered
<1>1. PICK c \in IvFull(ivHeld[p].seen), take \in Nat :
        /\ IvHolds' /\ IvOnly(p) /\ ivPc[p] = "consume"
        /\ c \in IvCredits /\ ivHeld[p].seen[c] \in Nat
        /\ take = IF ivHeld[p].seen[c] < ivHeld[p].take THEN ivHeld[p].seen[c] ELSE ivHeld[p].take
        /\ ivHeld'[p].seen = [ivHeld[p].seen EXCEPT ![c] = 0]
        /\ ivPc'[p] = IF ivHeld[p].take > take /\ IvFull(ivHeld'[p].seen) # {}
                      THEN "consume" ELSE IvAfterCredits(p)
        /\ ivHeld'[p].sub = ivHeld[p].sub /\ ivHeld'[p].used = ivHeld[p].used
        /\ ivHeld'[p].take = ivHeld[p].take - take /\ ivHeld'[p].due = ivHeld[p].due
        /\ ivLeft' = [ivLeft EXCEPT ![c] = ivHeld[p].seen[c] - take]
        /\ ivHeld[p].seen[c] - take \in Nat
        /\ UNCHANGED <<ivSub, ivNow, ivCall, ivInvoice, ivReported, ivMoves, ivGhost>>
  BY <1>0, ConsumeFrame
<1>2. /\ IvAfterCredits(p) \in {"invoice", "save"}
      /\ IvAfterCredits(p) = "invoice" => ivHeld[p].sub.status \in IvServing
  BY AfterCreditsFacts
<1>3. UNCHANGED <<ivRaced, ivCut>>
  BY <1>1 DEF ivGhost
<1>4. IvSmooth' => IvSmooth /\ \A q \in IvProcs : q # p => ivPc[q] = "idle"
  BY <1>1, <1>3, OthersIdle DEF IvSmooth
<1>5. /\ ivHeld[p].take \in Nat /\ ivHeld[p].seen \in [IvCredits -> Nat \cup {IvNone}]
      /\ ivLeft \in [IvCredits -> Nat \cup {IvNone}]
  BY SubFacts DEF IvHeld, InvoicesTypeOK
<1> DEFINE rest == ivHeld'[p].take
           seen == ivHeld[p].seen
           new == ivHeld'[p].seen
<1>6. rest = ivHeld[p].take - take /\ rest \in Nat
  BY <1>1, <1>5
<1>7. new \in [IvCredits -> Nat \cup {IvNone}] /\ IvFull(new) = IvFull(seen) \ {c}
  <2>1. new = [seen EXCEPT ![c] = 0]
    BY <1>1
  <2> HIDE DEF new, seen
  <2>2. seen \in [IvCredits -> Nat \cup {IvNone}]
    BY <1>5 DEF seen
  <2> QED
    BY <1>1, <2>1, <2>2, FullMoves
<1>8. IvWorth(new) = IvWorth(seen) - seen[c] /\ IvWorth(seen) \in Nat /\ IvWorth(new) \in Nat
  <2>1. new = [seen EXCEPT ![c] = 0] /\ seen[c] # IvNone
    BY <1>1 DEF IvNone
  <2>2. seen \in [IvCredits -> Nat \cup {IvNone}] /\ seen[c] \in Nat /\ 0 \in Nat
    BY <1>1, <1>5
  <2> HIDE DEF new, seen
  <2>3. IvWorth(new) = IvWorth(seen) + 0 - seen[c]
    BY <1>1, <2>1, <2>2, WorthMoves
  <2>4. IvWorth(seen) \in Nat /\ IvWorth(new) \in Nat
    BY <1>7, <2>2, WorthIsNat
  <2> QED
    BY <2>2, <2>3, <2>4
<1>9. ASSUME IvSmooth' PROVE IvCoverOf(p)'
  <2>1. ivHeld[p].take <= IvWorth(seen) /\ \A d \in IvFull(seen) : ivLeft[d] = seen[d]
    BY <1>1, <1>4, <1>9 DEF IvCovered, IvCoverOf
  <2>2. rest <= IvWorth(new)
    <3> HIDE DEF rest, new
    <3>1. seen[c] \in Nat /\ take = IF seen[c] < ivHeld[p].take THEN seen[c] ELSE ivHeld[p].take
      BY <1>1
    <3> HIDE DEF seen
    <3> QED
      BY <1>5, <1>6, <1>8, <2>1, <3>1
  <2>3. \A d \in IvFull(new) : ivLeft'[d] = new[d]
    <3>1. ASSUME NEW d \in IvFull(new) PROVE ivLeft'[d] = new[d]
      <4>1. d \in IvFull(seen) /\ d # c /\ d \in IvCredits
        BY <1>7, <3>1 DEF IvFull
      <4>2. new[d] = seen[d]
        BY <1>1, <1>5, <4>1
      <4>3. ivLeft'[d] = ivLeft[d]
        BY <1>1, <1>5, <4>1
      <4> QED
        BY <2>1, <4>1, <4>2, <4>3
    <3> QED
      BY <3>1
  <2>4. ivPc'[p] = "invoice" => rest = 0
    <3>1. IvFull(new) = {} => IvWorth(new) = 0
      BY <1>7, WorthOfNothing
    <3>2. ivPc'[p] = "invoice" => ~(ivHeld[p].take > take) \/ IvFull(new) = {}
      BY <1>1
    <3> HIDE DEF new, rest
    <3> QED
      BY <1>5, <1>6, <2>2, <3>1, <3>2
  <2>5. ivPc'[p] \notin {"report", "credits"}
    BY <1>1, <1>2
  <2> QED
    BY <2>2, <2>3, <2>4, <2>5 DEF IvCoverOf, IvWorth
<1>10. ivPc'[p] = "consume" => rest > 0 /\ IvFull(new) # {}
  <2>1. ivPc'[p] = "consume" => ivHeld[p].take > take /\ IvFull(new) # {}
    BY <1>1, <1>2
  <2> HIDE DEF new, rest
  <2> QED
    BY <1>5, <1>6, <2>1
<1>11. ivPc'[p] = "invoice" => ivHeld'[p].sub.status \in IvServing
  BY <1>1, <1>2
<1> QED
  BY <1>1, <1>4, <1>9, <1>10, <1>11, CoveredMoves

LEMMA CoveredToSave ==
  ASSUME InvoicesTypeOK, IvAlone, IvCovered, NEW p \in IvProcs, IvInvoice(p) \/ IvSave(p)
  PROVE  IvCovered'
<1>1. IvOnly(p) /\ ivPc[p] # "idle" /\ ivPc'[p] \in {"save", "idle"} /\ UNCHANGED ivRaced
  <2>1. CASE IvInvoice(p)
    <3>1. IvOnly(p) /\ ivPc'[p] = "save"
      BY <2>1, GotoFrame DEF IvInvoice, IvPC
    <3> QED
      BY <2>1, <3>1 DEF IvInvoice, ivGhost
  <2>2. CASE IvSave(p)
    BY <2>2, SaveFrame
  <2> QED
    BY <2>1, <2>2
<1>2. IvCoverOf(p)'
  BY <1>1 DEF IvCoverOf
<1>3. IvSmooth' => \A q \in IvProcs : q # p => ivPc[q] = "idle"
  BY <1>1, OthersIdle DEF IvSmooth
<1> QED
  BY <1>1, <1>2, <1>3, CoveredMoves

LEMMA CoveredGrant ==
  ASSUME InvoicesTypeOK, IvCovered, NEW c \in IvCredits, IvGrant(c)
  PROVE  IvCovered'
<1>1. /\ ivLeft' = [ivLeft EXCEPT ![c] = IvPence] /\ ivLeft[c] = IvNone
      /\ UNCHANGED <<ivPc, ivHeld, ivRaced, ivCut>>
  BY DEF IvGrant, ivLocal, ivGhost
<1>2. ivLeft \in [IvCredits -> Nat \cup {IvNone}] /\ IvPence \in Nat
  BY DEF InvoicesTypeOK
<1>3. IvWorth(ivLeft') = IvWorth(ivLeft) + IvPence - 0 /\ IvWorth(ivLeft) \in Nat
  BY <1>1, <1>2, WorthMoves, WorthIsNat
<1>4. IvSmooth' => IvSmooth
  BY <1>1 DEF IvSmooth
<1>5. ASSUME NEW q \in IvProcs, IvCoverOf(q)
      PROVE  IvCoverOf(q)'
  <2>1. ivHeld[q].take \in Nat
    BY SubFacts DEF IvHeld
  <2>2. ivHeld[q].take <= IvWorth(ivLeft) => ivHeld[q].take <= IvWorth(ivLeft')
    BY <1>2, <1>3, <2>1
  <2>3. ASSUME NEW d \in IvFull(ivHeld[q].seen), ivLeft[d] = ivHeld[q].seen[d]
        PROVE  ivLeft'[d] = ivHeld[q].seen[d]
    <3>1. d # c
      BY <1>1, <2>3 DEF IvFull, IvNone
    <3> QED
      BY <1>1, <1>2, <2>3, <3>1 DEF IvFull
  <2> QED
    BY <1>1, <1>5, <2>2, <2>3 DEF IvCoverOf, IvWorth
<1> QED
  BY <1>1, <1>4, <1>5 DEF IvCovered

LEMMA StepCovered ==
  ASSUME InvoicesTypeOK, IvAlone, IvCovered, [InvoicesNext]_invoicesVars
  PROVE  IvCovered'
<1>1. ASSUME NEW p \in IvProcs,
             \/ IvRead(p) \/ IvUsage(p) \/ IvReport(p) \/ IvList(p) \/ IvConsume(p)
             \/ IvInvoice(p) \/ IvSave(p)
      PROVE  IvCovered'
  BY <1>1, CoveredRead, CoveredUsage, CoveredReport, CoveredList, CoveredConsume, CoveredToSave
<1>2. ASSUME NEW c \in IvCredits, IvGrant(c) PROVE IvCovered'
  BY <1>2, CoveredGrant
<1>3. ASSUME \/ IvCallBegins
             \/ \E t \in IvTimes : IvCallEnds(t)
             \/ IvTick
             \/ UNCHANGED invoicesVars
      PROVE  IvCovered'
  <2>1. UNCHANGED <<ivLeft, ivRaced, ivCut, ivPc, ivHeld>>
    BY <1>3 DEF IvCallBegins, IvCallEnds, IvTick, invoicesVars, ivStore, ivLocal, ivGhost
  <2> QED
    BY <2>1 DEF IvCovered, IvCoverOf, IvSmooth, IvWorth
<1>4. CASE IvRestart
  BY <1>4 DEF IvRestart, IvCovered, IvSmooth
<1> QED
  BY <1>1, <1>2, <1>3, <1>4 DEF InvoicesNext

-------------------------------------------------------------------------------
(* Invoices: the invoices, and the sums. *)

LEMMA InvoicesMove ==
  ASSUME IvInvoices, UNCHANGED <<ivInvoice, ivSub>>, IvSmooth' => IvSmooth,
         (\E p \in IvProcs : ivPc[p] = "save") => \E p \in IvProcs : ivPc'[p] = "save"
  PROVE  IvInvoices'
  BY DEF IvInvoices

LEMMA InvoicesInvoice ==
  ASSUME InvoicesTypeOK, IvPeriods, IvAlone, IvInvoices, NEW p \in IvProcs, IvInvoice(p)
  PROVE  IvInvoices'
<1>1. ivPc'[p] = "save"
  BY GotoFrame DEF IvInvoice, IvPC
<1>2. /\ ivPc[p] = "invoice" /\ UNCHANGED <<ivSub, ivRaced, ivCut>>
      /\ ivInvoice' = [ivInvoice EXCEPT ![IvMonth(ivHeld[p].sub.from)] = ivHeld[p].due]
  BY DEF IvInvoice, ivGhost
<1> SUFFICES ASSUME IvSmooth', NEW m \in IvMonths, ivInvoice'[m] # IvNone
             PROVE  m < ivSub.from \/ m = ivSub.from
  BY <1>1, <1>2 DEF IvInvoices
<1>3. IvSmooth /\ ~ivRaced
  BY <1>2 DEF IvSmooth
<1>4. ivHeld[p].sub = ivSub /\ IvEven(ivHeld[p].sub.from) /\ ivSub.from \in Nat
  BY <1>2, <1>3, SmoothSub, PeriodOf, SubFacts
<1>5. IvMonth(ivHeld[p].sub.from) = ivSub.from
  BY <1>4, MonthFacts
<1>6. CASE m = ivSub.from
  BY <1>6
<1>7. CASE m # ivSub.from
  <2>1. ivInvoice'[m] = ivInvoice[m]
    BY <1>2, <1>5, <1>7 DEF InvoicesTypeOK
  <2> QED
    BY <1>3, <2>1 DEF IvInvoices
<1> QED
  BY <1>6, <1>7

LEMMA InvoicesSave ==
  ASSUME InvoicesTypeOK, IvPeriods, IvAlone, IvInvoices, NEW p \in IvProcs, IvSave(p)
  PROVE  IvInvoices'
<1>1. /\ ivPc[p] = "save" /\ ivSub'.from = IvMonth(ivNow)
      /\ UNCHANGED <<ivInvoice, ivRaced, ivCut>>
  BY SaveFrame
<1> SUFFICES ASSUME IvSmooth', NEW m \in IvMonths, ivInvoice'[m] # IvNone
             PROVE  m < IvMonth(ivNow)
  BY <1>1 DEF IvInvoices
<1>2. IvSmooth /\ ~ivRaced
  BY <1>1 DEF IvSmooth
<1>3. /\ ivHeld[p].sub = ivSub /\ ivHeld[p].sub.from + 2 <= ivNow
      /\ ivSub.from \in Nat /\ ivNow \in Nat /\ m \in Nat
  BY <1>1, <1>2, SmoothSub, PeriodOf, SubFacts, TimesFacts
<1>4. IvMonth(ivNow) \in Nat /\ ivNow <= IvMonth(ivNow) + 1
  BY <1>3, MonthFacts
<1>5. m < ivSub.from \/ m = ivSub.from
  BY <1>1, <1>2 DEF IvInvoices
<1>6. ivSub.from + 2 <= ivNow
  BY <1>3
<1> QED
  BY <1>3, <1>4, <1>5, <1>6

LEMMA StepInvoices ==
  ASSUME InvoicesTypeOK, IvPeriods, IvAlone, IvCovered, IvInvoices, [InvoicesNext]_invoicesVars
  PROVE  IvInvoices'
<1>1. ASSUME NEW p \in IvProcs, IvRead(p) PROVE IvInvoices'
  <2>1. IvOnly(p) /\ ivPc[p] = "idle" /\ UNCHANGED <<ivInvoice, ivSub, ivCut>> /\ (ivRaced => ivRaced')
    BY <1>1, ReadFrame DEF ivStore
  <2> QED
    BY <2>1, InvoicesMove DEF IvOnly, IvSmooth
<1>2. ASSUME NEW p \in IvProcs, IvUsage(p) PROVE IvInvoices'
  <2>1. IvOnly(p) /\ ivPc[p] = "usage" /\ UNCHANGED <<ivInvoice, ivSub, ivCut, ivRaced>>
    BY <1>2, UsageFrame DEF ivStore
  <2> QED
    BY <2>1, InvoicesMove DEF IvOnly, IvSmooth
<1>3. ASSUME NEW p \in IvProcs, IvReport(p) PROVE IvInvoices'
  <2>1. IvOnly(p)
    BY <1>3, GotoFrame DEF IvReport, IvPC
  <2>2. ivPc[p] = "report" /\ UNCHANGED <<ivInvoice, ivSub, ivCut, ivRaced>>
    BY <1>3 DEF IvReport
  <2> QED
    BY <2>1, <2>2, InvoicesMove DEF IvOnly, IvSmooth
<1>4. ASSUME NEW p \in IvProcs, IvList(p) PROVE IvInvoices'
  <2>1. IvOnly(p) /\ ivPc[p] = "credits" /\ UNCHANGED <<ivInvoice, ivSub, ivCut, ivRaced>>
    BY <1>4, ListFrame DEF ivStore, ivGhost
  <2> QED
    BY <2>1, InvoicesMove DEF IvOnly, IvSmooth
<1>5. ASSUME NEW p \in IvProcs, IvConsume(p) PROVE IvInvoices'
  <2>1. IvFull(ivHeld[p].seen) # {}
    BY <1>5 DEF IvConsume, IvCovered
  <2>2. IvOnly(p) /\ ivPc[p] = "consume" /\ UNCHANGED <<ivInvoice, ivSub, ivCut, ivRaced>>
    BY <1>5, <2>1, ConsumeFrame DEF ivGhost
  <2> QED
    BY <2>2, InvoicesMove DEF IvOnly, IvSmooth
<1>6. ASSUME NEW p \in IvProcs, IvInvoice(p) PROVE IvInvoices'
  BY <1>6, InvoicesInvoice
<1>7. ASSUME NEW p \in IvProcs, IvSave(p) PROVE IvInvoices'
  BY <1>7, InvoicesSave
<1>8. ASSUME \/ \E c \in IvCredits : IvGrant(c)
             \/ IvCallBegins
             \/ \E t \in IvTimes : IvCallEnds(t)
             \/ IvTick
             \/ UNCHANGED invoicesVars
      PROVE  IvInvoices'
  <2>1. UNCHANGED <<ivInvoice, ivSub, ivRaced, ivCut, ivPc>>
    BY <1>8 DEF IvGrant, IvCallBegins, IvCallEnds, IvTick, invoicesVars, ivStore, ivLocal, ivGhost
  <2> QED
    BY <2>1, InvoicesMove DEF IvSmooth
<1>9. CASE IvRestart
  BY <1>9 DEF IvRestart, IvInvoices, IvSmooth
<1> QED
  BY <1>1, <1>2, <1>3, <1>4, <1>5, <1>6, <1>7, <1>8, <1>9 DEF InvoicesNext

\* The sums are numbers.
LEMMA SumsTyped ==
  InvoicesTypeOK => IvInvoiced \in Int /\ IvSpent \in Int
<1> SUFFICES ASSUME InvoicesTypeOK PROVE IvInvoiced \in Int /\ IvSpent \in Int
  OBVIOUS
<1> DEFINE f == [m \in IvMonths |-> IF ivInvoice[m] = IvNone THEN 0 ELSE ivInvoice[m]]
           g == [c \in IvCredits |-> IF ivLeft[c] = IvNone THEN 0 ELSE IvPence - ivLeft[c]]
<1>1. \A m \in IvMonths : f[m] \in Int /\ f[m] = f[m] + IF m \in {} THEN 1 ELSE 0
  BY DEF InvoicesTypeOK, IvNone
<1>2. \A c \in IvCredits : g[c] \in Int /\ g[c] = g[c] + IF c \in {} THEN 1 ELSE 0
  BY DEF InvoicesTypeOK, IvNone
<1>3. DOMAIN f = IvMonths /\ DOMAIN g = IvCredits
  OBVIOUS
<1> HIDE DEF f, g
<1>4. SumFunctionOnSet(f, IvMonths) \in Int
  <2>1. IsFiniteSet(IvMonths) /\ {} \in SUBSET IvMonths
    BY TimesFacts
  <2> HIDE InvoicesAssumption
  <2> QED
    BY <1>1, <2>1, SumCounts
<1>5. SumFunctionOnSet(g, IvCredits) \in Int
  <2>1. IsFiniteSet(IvCredits) /\ {} \in SUBSET IvCredits
    OBVIOUS
  <2> HIDE InvoicesAssumption
  <2> QED
    BY <1>2, <2>1, SumCounts
<1>6. IvInvoiced \in Int
  BY <1>3, <1>4 DEF IvInvoiced, SumFunction, f
<1>7. IvSpent \in Int
  BY <1>3, <1>5 DEF IvSpent, SumFunction, g
<1> QED
  BY <1>6, <1>7

\* A month gets its invoice.
LEMMA InvoicedMoves ==
  ASSUME InvoicesTypeOK, NEW m \in IvMonths, NEW n \in Nat, ivInvoice[m] = IvNone,
         ivInvoice' = [ivInvoice EXCEPT ![m] = n]
  PROVE  IvInvoiced' = IvInvoiced + n
<1> DEFINE f == [x \in IvMonths |-> IF ivInvoice[x] = IvNone THEN 0 ELSE ivInvoice[x]]
           h == [x \in IvMonths |-> IF ivInvoice'[x] = IvNone THEN 0 ELSE ivInvoice'[x]]
<1>1. \A x \in IvMonths : f[x] \in Int /\ h[x] = f[x] + (IF x = m THEN n ELSE 0)
  BY DEF InvoicesTypeOK, IvNone
<1>2. DOMAIN f = IvMonths /\ DOMAIN h = IvMonths
  OBVIOUS
<1>3. IvInvoiced = SumFunctionOnSet(f, IvMonths) /\ IvInvoiced' = SumFunctionOnSet(h, IvMonths)
  BY <1>2 DEF IvInvoiced, SumFunction
<1> HIDE DEF f, h
<1>4. SumFunctionOnSet(h, IvMonths) = SumFunctionOnSet(f, IvMonths) + n
  <2>1. IsFiniteSet(IvMonths) /\ n \in Int
    BY TimesFacts
  <2> HIDE InvoicesAssumption
  <2> QED
    BY <1>1, <2>1, SumMoves
<1> QED
  BY <1>3, <1>4

\* A credit changes.
LEMMA SpentMoves ==
  ASSUME InvoicesTypeOK, NEW c \in IvCredits, NEW n \in Nat,
         ivLeft' = [ivLeft EXCEPT ![c] = n]
  PROVE  IvSpent' = IvSpent + (IF ivLeft[c] = IvNone THEN IvPence ELSE ivLeft[c]) - n
<1> DEFINE f == [x \in IvCredits |-> IF ivLeft[x] = IvNone THEN 0 ELSE IvPence - ivLeft[x]]
           h == [x \in IvCredits |-> IF ivLeft'[x] = IvNone THEN 0 ELSE IvPence - ivLeft'[x]]
           was == IF ivLeft[c] = IvNone THEN IvPence ELSE ivLeft[c]
           d == was - n
<1>1. was \in Int /\ d \in Int
  BY DEF InvoicesTypeOK, IvNone
<1>2. \A x \in IvCredits : f[x] \in Int /\ h[x] = f[x] + (IF x = c THEN d ELSE 0)
  BY DEF InvoicesTypeOK, IvNone
<1>3. DOMAIN f = IvCredits /\ DOMAIN h = IvCredits
  OBVIOUS
<1>4. IvSpent = SumFunctionOnSet(f, IvCredits) /\ IvSpent' = SumFunctionOnSet(h, IvCredits)
  BY <1>3 DEF IvSpent, SumFunction
<1>5. d = was - n
  OBVIOUS
<1> HIDE DEF f, h, d
<1>6. /\ SumFunctionOnSet(f, IvCredits) \in Int
      /\ SumFunctionOnSet(h, IvCredits) = SumFunctionOnSet(f, IvCredits) + d
  <2>1. IsFiniteSet(IvCredits)
    OBVIOUS
  <2> HIDE InvoicesAssumption
  <2> QED
    BY <1>1, <1>2, <2>1, SumMoves
<1> HIDE DEF was
<1>7. IvSpent' = IvSpent + was - n
  BY <1>1, <1>4, <1>5, <1>6
<1> QED
  BY <1>7 DEF was

-------------------------------------------------------------------------------
(* Invoices: what adds up. *)

LEMMA AddsMove ==
  ASSUME NEW p \in IvProcs, IvOnly(p), ivPc'[p] \notin {"idle", "usage"},
         IvSmooth' /\ ivClosed'.other = 0 =>
           (\A q \in IvProcs : q # p => ivPc[q] = "idle") /\ IvSumOf(p)'
  PROVE  IvAdds'
<1>1. ASSUME IvSmooth', ivClosed'.other = 0, NEW q \in IvProcs
      PROVE  IvSumOf(q)'
  <2>1. CASE q = p
    BY <1>1, <2>1
  <2>2. CASE q # p
    <3>1. ivPc'[q] = "idle"
      BY <1>1, <2>2 DEF IvOnly
    <3> QED
      BY <3>1 DEF IvSumOf
  <2> QED
    BY <2>1, <2>2
<1> QED
  BY <1>1 DEF IvAdds

LEMMA AddsRead ==
  ASSUME InvoicesTypeOK, IvAdds, NEW p \in IvProcs, IvRead(p)
  PROVE  IvAdds'
<1>1. /\ IvOnly(p) /\ ivPc'[p] = "usage" /\ ((\E q \in IvProcs : ivPc[q] # "idle") => ivRaced')
      /\ (ivRaced => ivRaced')
      /\ UNCHANGED <<ivInvoice, ivLeft, ivBilled, ivClosed, ivCut>>
  BY ReadFrame DEF ivStore
<1>2. UNCHANGED <<IvInvoiced, IvSpent, IvCharged>>
  BY <1>1 DEF IvInvoiced, IvSpent, IvCharged
<1>3. IvSmooth' => IvSmooth /\ \A q \in IvProcs : ivPc[q] = "idle"
  BY <1>1 DEF IvSmooth
<1>4. ASSUME IvSmooth', NEW q \in IvProcs PROVE IvSumOf(q)'
  <2>1. ivPc'[q] \in {"idle", "usage"}
    BY <1>1, <1>3, <1>4 DEF IvOnly
  <2> QED
    BY <2>1 DEF IvSumOf
<1>5. ASSUME IvSmooth', ivClosed.other = 0
      PROVE  IvInvoiced + IvSpent = ivClosed.served + IvCharged
  BY <1>3, <1>5 DEF IvAdds
<1> QED
  BY <1>1, <1>2, <1>4, <1>5 DEF IvAdds

\* The sums that a step leaves alone.
LEMMA SumsStay ==
  UNCHANGED <<ivInvoice, ivLeft, ivBilled>> => UNCHANGED <<IvInvoiced, IvSpent, IvCharged>>
  BY DEF IvInvoiced, IvSpent, IvCharged

LEMMA SumFacts ==
  InvoicesTypeOK => /\ IvInvoiced \in Int /\ IvSpent \in Int /\ IvCharged \in Nat
                    /\ ivClosed.served \in Nat /\ ivClosed.other \in Nat
                    /\ \A p \in IvProcs : ivHeld[p].take \in Nat /\ ivHeld[p].due \in Nat
                                          /\ ivHeld[p].used \in SUBSET IvTimes
                                          /\ Cardinality(ivHeld[p].used) \in Nat
<1> SUFFICES ASSUME InvoicesTypeOK
             PROVE  /\ IvInvoiced \in Int /\ IvSpent \in Int /\ IvCharged \in Nat
                    /\ ivClosed.served \in Nat /\ ivClosed.other \in Nat
                    /\ \A p \in IvProcs : ivHeld[p].take \in Nat /\ ivHeld[p].due \in Nat
                                          /\ ivHeld[p].used \in SUBSET IvTimes
                                          /\ Cardinality(ivHeld[p].used) \in Nat
  OBVIOUS
<1>1. IvInvoiced \in Int /\ IvSpent \in Int /\ IvCharged \in Nat
  BY SumsTyped, ChargedIsInt
<1>2. ivClosed.served \in Nat /\ ivClosed.other \in Nat
  BY DEF InvoicesTypeOK
<1>3. ASSUME NEW p \in IvProcs
      PROVE  /\ ivHeld[p].take \in Nat /\ ivHeld[p].due \in Nat
             /\ ivHeld[p].used \in SUBSET IvTimes /\ Cardinality(ivHeld[p].used) \in Nat
  <2>1. ivHeld[p] \in IvHeld
    BY SubFacts
  <2>2. ivHeld[p].take \in Nat /\ ivHeld[p].due \in Nat /\ ivHeld[p].used \in SUBSET IvTimes
    BY <2>1 DEF IvHeld
  <2> QED
    BY <2>2, TimesFacts, FS_Subset, FS_CardinalityType
<1> QED
  BY <1>1, <1>2, <1>3

LEMMA AddsUsage ==
  ASSUME InvoicesTypeOK, IvAlone, IvAdds, InvoicesTypeOK', NEW p \in IvProcs, IvUsage(p)
  PROVE  IvAdds'
<1> DEFINE counted == IvCounted(ivHeld[p].sub)
<1>1. /\ IvOnly(p) /\ ivPc[p] = "usage" /\ ivPc'[p] \in {"report", "credits"}
      /\ ivHeld'[p].used = counted /\ ivHeld'[p].take \in Nat
      /\ ivHeld'[p].due + ivHeld'[p].take = 1 + Cardinality(counted)
      /\ UNCHANGED <<ivInvoice, ivLeft, ivBilled, ivClosed, ivRaced, ivCut>>
  BY UsageFrame DEF ivStore
<1>2. UNCHANGED <<IvInvoiced, IvSpent, IvCharged>>
  BY <1>1, SumsStay
<1>3. IvSmooth' => IvSmooth /\ \A q \in IvProcs : q # p => ivPc[q] = "idle"
  BY <1>1, OthersIdle DEF IvSmooth
<1>4. ASSUME IvSmooth', ivClosed'.other = 0 PROVE IvSumOf(p)'
  <2>1. IvInvoiced + IvSpent = ivClosed.served + IvCharged
    BY <1>1, <1>3, <1>4 DEF IvAdds
  <2>2. ivHeld'[p].due \in Nat /\ Cardinality(counted) \in Nat
    <3>1. ivHeld'[p].due \in Nat /\ ivHeld'[p].used \in SUBSET IvTimes
      BY <1>1 DEF InvoicesTypeOK
    <3> QED
      BY <1>1, <3>1, TimesFacts, FS_Subset, FS_CardinalityType
  <2> HIDE DEF counted
  <2>3. IvInvoiced + IvSpent + ivHeld'[p].take + ivHeld'[p].due
          = ivClosed.served + IvCharged + 1 + Cardinality(counted)
    BY <1>1, <2>1, <2>2, SumFacts
  <2>4. ivPc'[p] # "save"
    BY <1>1
  <2> QED
    BY <1>1, <1>2, <2>3, <2>4 DEF IvSumOf
<1>5. ivPc'[p] \notin {"idle", "usage"}
  BY <1>1
<1> QED
  BY <1>1, <1>3, <1>4, <1>5, AddsMove

\* Nothing is taken and nothing invoiced.
LEMMA AddsGoto ==
  ASSUME InvoicesTypeOK, IvAlone, IvAdds, NEW p \in IvProcs, IvOnly(p),
         ivPc[p] \in {"report", "credits"},
         \/ ivPc'[p] \in {"credits", "consume", "invoice"}
         \/ ivPc'[p] = "save" /\ ivHeld[p].sub.status \notin IvServing,
         ivHeld'[p].sub = ivHeld[p].sub, ivHeld'[p].used = ivHeld[p].used,
         ivHeld'[p].take = ivHeld[p].take, ivHeld'[p].due = ivHeld[p].due,
         UNCHANGED <<ivInvoice, ivLeft, ivBilled, ivClosed, ivRaced, ivCut>>
  PROVE  IvAdds'
<1>1. UNCHANGED <<IvInvoiced, IvSpent, IvCharged>>
  BY SumsStay
<1>2. IvSmooth' => IvSmooth /\ \A q \in IvProcs : q # p => ivPc[q] = "idle"
  BY OthersIdle DEF IvSmooth
<1>3. ASSUME IvSmooth', ivClosed'.other = 0 PROVE IvSumOf(p)'
  <2>1. IvSumOf(p)
    BY <1>2, <1>3 DEF IvAdds
  <2> QED
    BY <1>1, <2>1 DEF IvSumOf
<1>4. ivPc'[p] \notin {"idle", "usage"}
  OBVIOUS
<1> QED
  BY <1>2, <1>3, <1>4, AddsMove

LEMMA AddsConsume ==
  ASSUME InvoicesTypeOK, IvAlone, IvCovered, IvAdds, NEW p \in IvProcs, IvConsume(p)
  PROVE  IvAdds'
<1>0. IvFull(ivHeld[p].seen) # {}
  BY DEF IvConsume, IvCovered
<1>1. PICK c \in IvFull(ivHeld[p].seen), take \in Nat :
        /\ IvHolds' /\ IvOnly(p) /\ ivPc[p] = "consume"
        /\ c \in IvCredits /\ ivHeld[p].seen[c] \in Nat
        /\ take = IF ivHeld[p].seen[c] < ivHeld[p].take THEN ivHeld[p].seen[c] ELSE ivHeld[p].take
        /\ ivHeld'[p].seen = [ivHeld[p].seen EXCEPT ![c] = 0]
        /\ ivPc'[p] = IF ivHeld[p].take > take /\ IvFull(ivHeld'[p].seen) # {}
                      THEN "consume" ELSE IvAfterCredits(p)
        /\ ivHeld'[p].sub = ivHeld[p].sub /\ ivHeld'[p].used = ivHeld[p].used
        /\ ivHeld'[p].take = ivHeld[p].take - take /\ ivHeld'[p].due = ivHeld[p].due
        /\ ivLeft' = [ivLeft EXCEPT ![c] = ivHeld[p].seen[c] - take]
        /\ ivHeld[p].seen[c] - take \in Nat
        /\ UNCHANGED <<ivSub, ivNow, ivCall, ivInvoice, ivReported, ivMoves, ivGhost>>
  BY <1>0, ConsumeFrame
<1>2. /\ IvAfterCredits(p) \in {"invoice", "save"}
      /\ IvAfterCredits(p) = "invoice" <=> ivHeld[p].sub.status \in IvServing
  BY AfterCreditsFacts
<1>3. UNCHANGED <<ivInvoice, ivBilled, ivClosed, ivRaced, ivCut>>
  BY <1>1 DEF ivGhost
<1>4. UNCHANGED <<IvInvoiced, IvCharged>>
  BY <1>3 DEF IvInvoiced, IvCharged
<1>5. IvSmooth' => IvSmooth /\ \A q \in IvProcs : q # p => ivPc[q] = "idle"
  BY <1>1, <1>3, OthersIdle DEF IvSmooth
<1>6. ASSUME IvSmooth', ivClosed'.other = 0 PROVE IvSumOf(p)'
  <2>1. IvSumOf(p) /\ ivLeft[c] = ivHeld[p].seen[c]
    BY <1>1, <1>3, <1>5, <1>6 DEF IvAdds, IvCovered, IvCoverOf
  <2>2. IvInvoiced + IvSpent + ivHeld[p].take + ivHeld[p].due
          = ivClosed.served + IvCharged + 1 + Cardinality(ivHeld[p].used)
    BY <1>1, <2>1 DEF IvSumOf
  <2>3. IvSpent' = IvSpent + ivHeld[p].seen[c] - (ivHeld[p].seen[c] - take)
    <3> DEFINE n == ivHeld[p].seen[c] - take
    <3>1. n \in Nat /\ c \in IvCredits /\ ivLeft' = [ivLeft EXCEPT ![c] = n]
      BY <1>1
    <3>2. ivLeft[c] # IvNone
      BY <1>1, <2>1 DEF IvNone
    <3> HIDE DEF n
    <3>3. IvSpent' = IvSpent + (IF ivLeft[c] = IvNone THEN IvPence ELSE ivLeft[c]) - n
      BY <3>1, SpentMoves
    <3>4. IvSpent' = IvSpent + ivLeft[c] - n
      BY <3>2, <3>3
    <3> QED
      BY <2>1, <3>4 DEF n
  <2>4. IvSpent' = IvSpent + take
    BY <1>1, <2>3, SumFacts
  <2>5. IvInvoiced + IvSpent' + ivHeld'[p].take + ivHeld'[p].due
          = ivClosed.served + IvCharged + 1 + Cardinality(ivHeld'[p].used)
    BY <1>1, <2>2, <2>4, SumFacts
  <2>6. ivPc'[p] = "save" => ivHeld'[p].sub.status \notin IvServing
    BY <1>1, <1>2
  <2> QED
    BY <1>3, <1>4, <2>5, <2>6 DEF IvSumOf
<1>7. ivPc'[p] \notin {"idle", "usage"}
  BY <1>1, <1>2
<1> QED
  BY <1>1, <1>5, <1>6, <1>7, AddsMove

LEMMA AddsInvoice ==
  ASSUME InvoicesTypeOK, IvPeriods, IvAlone, IvCovered, IvInvoices, IvAdds, NEW p \in IvProcs,
         IvInvoice(p)
  PROVE  IvAdds'
<1>1. IvOnly(p) /\ ivHeld'[p] = ivHeld[p] /\ ivPc'[p] = "save"
  BY GotoFrame DEF IvInvoice, IvPC
<1>2. /\ ivPc[p] = "invoice" /\ UNCHANGED <<ivLeft, ivBilled, ivClosed, ivRaced, ivCut>>
      /\ ivInvoice' = [ivInvoice EXCEPT ![IvMonth(ivHeld[p].sub.from)] = ivHeld[p].due]
  BY DEF IvInvoice, ivGhost
<1>3. UNCHANGED <<IvSpent, IvCharged>>
  BY <1>2 DEF IvSpent, IvCharged
<1>4. IvSmooth' => IvSmooth /\ ~ivRaced /\ \A q \in IvProcs : q # p => ivPc[q] = "idle"
  BY <1>2, OthersIdle DEF IvSmooth
<1>5. ASSUME IvSmooth', ivClosed'.other = 0 PROVE IvSumOf(p)'
  <2>1. IvSumOf(p) /\ ivHeld[p].take = 0
    BY <1>2, <1>4, <1>5 DEF IvAdds, IvCovered, IvCoverOf
  <2>2. IvInvoiced + IvSpent + ivHeld[p].take + ivHeld[p].due
          = ivClosed.served + IvCharged + 1 + Cardinality(ivHeld[p].used)
    BY <1>2, <2>1 DEF IvSumOf
  <2>3. /\ ivHeld[p].sub = ivSub /\ IvEven(ivHeld[p].sub.from) /\ ivSub.from \in Nat
        /\ ivHeld[p].sub.from \in IvTimes
    <3>1. ivHeld[p].sub.from \in IvTimes
      BY SubFacts DEF IvSub
    <3> QED
      BY <1>2, <1>4, <1>5, <3>1, SmoothSub, PeriodOf, SubFacts
  <2> DEFINE m == IvMonth(ivHeld[p].sub.from)
  <2>4. m = ivSub.from /\ m \in IvMonths
    BY <2>3, MonthFacts, TimesFacts
  <2>5. ivInvoice[m] = IvNone
    <3>1. \A q \in IvProcs : ivPc[q] # "save"
      BY <1>2, <1>4, <1>5
    <3>2. ~(m < ivSub.from)
      BY <2>3, <2>4
    <3> HIDE DEF m
    <3> QED
      BY <1>4, <1>5, <2>4, <3>1, <3>2 DEF IvInvoices
  <2>6. IvInvoiced' = IvInvoiced + ivHeld[p].due
    <3>1. ivInvoice' = [ivInvoice EXCEPT ![m] = ivHeld[p].due]
      BY <1>2
    <3> HIDE DEF m
    <3> QED
      BY <2>4, <2>5, <3>1, InvoicedMoves, SumFacts
  <2>7. IvInvoiced' + IvSpent = ivClosed.served + IvCharged + 1 + Cardinality(ivHeld[p].used)
    BY <2>1, <2>2, <2>6, SumFacts
  <2> QED
    BY <1>1, <1>2, <1>3, <2>7 DEF IvSumOf
<1>6. ivPc'[p] \notin {"idle", "usage"}
  BY <1>1
<1> QED
  BY <1>1, <1>4, <1>5, <1>6, AddsMove

LEMMA AddsSave ==
  ASSUME InvoicesTypeOK, IvAlone, IvAdds, NEW p \in IvProcs, IvSave(p)
  PROVE  IvAdds'
<1>1. /\ IvOnly(p) /\ ivPc[p] = "save" /\ ivPc'[p] = "idle"
      /\ ivBilled' = [t \in IvTimes |-> ivBilled[t] + IF t \in ivHeld[p].used THEN 1 ELSE 0]
      /\ UNCHANGED <<ivLeft, ivInvoice, ivRaced, ivCut>>
  BY SaveFrame
<1>2. UNCHANGED <<IvSpent, IvInvoiced>>
  BY <1>1 DEF IvSpent, IvInvoiced
<1>3. IvCharged' = IvCharged + Cardinality(ivHeld[p].used)
  BY <1>1, SumFacts, ChargedGrows
<1>4. IvSmooth' => IvSmooth /\ \A q \in IvProcs : q # p => ivPc[q] = "idle"
  BY <1>1, OthersIdle DEF IvSmooth
<1>5. ASSUME ivClosed'.other = 0
      PROVE  /\ ivHeld[p].sub.status \in IvServing /\ ivClosed.other = 0
             /\ ivClosed'.served = ivClosed.served + 1
  <2>1. ivClosed' = IF ivHeld[p].sub.status \in IvServing THEN [ivClosed EXCEPT !.served = @ + 1]
                    ELSE [ivClosed EXCEPT !.other = @ + 1]
    BY DEF IvSave
  <2>2. ivClosed \in [served : Nat, other : Nat]
    BY DEF InvoicesTypeOK
  <2> QED
    BY <1>5, <2>1, <2>2
<1>6. ASSUME IvSmooth', ivClosed'.other = 0
      PROVE  IvInvoiced + IvSpent = ivClosed'.served + IvCharged'
  <2>1. IvSumOf(p)
    BY <1>4, <1>5, <1>6 DEF IvAdds
  <2>2. IvInvoiced + IvSpent = ivClosed.served + IvCharged + 1 + Cardinality(ivHeld[p].used)
    BY <1>1, <1>5, <1>6, <2>1 DEF IvSumOf
  <2> QED
    BY <1>3, <1>5, <1>6, <2>2, SumFacts
<1>7. ASSUME IvSmooth', NEW q \in IvProcs PROVE IvSumOf(q)'
  <2>1. ivPc'[q] = "idle"
    BY <1>1, <1>4, <1>7 DEF IvOnly
  <2> QED
    BY <2>1 DEF IvSumOf
<1> QED
  BY <1>2, <1>6, <1>7 DEF IvAdds

LEMMA AddsGrant ==
  ASSUME InvoicesTypeOK, IvAdds, NEW c \in IvCredits, IvGrant(c)
  PROVE  IvAdds'
<1>1. /\ ivLeft' = [ivLeft EXCEPT ![c] = IvPence] /\ ivLeft[c] = IvNone
      /\ UNCHANGED <<ivInvoice, ivBilled, ivClosed, ivPc, ivHeld, ivRaced, ivCut>>
  BY DEF IvGrant, ivLocal, ivGhost
<1>2. IvSpent' = IvSpent + IvPence - IvPence
  BY <1>1, SpentMoves
<1>3. UNCHANGED <<IvSpent, IvInvoiced, IvCharged>>
  <2>1. IvSpent' = IvSpent
    BY <1>2, SumFacts
  <2> QED
    BY <1>1, <2>1 DEF IvInvoiced, IvCharged
<1>4. IvSmooth' => IvSmooth
  BY <1>1 DEF IvSmooth
<1>5. \A q \in IvProcs : IvSumOf(q) => IvSumOf(q)'
  BY <1>1, <1>3 DEF IvSumOf
<1> QED
  BY <1>1, <1>3, <1>4, <1>5 DEF IvAdds

LEMMA StepAdds ==
  ASSUME InvoicesTypeOK, IvPeriods, IvAlone, IvCovered, IvInvoices, IvAdds, InvoicesTypeOK',
         [InvoicesNext]_invoicesVars
  PROVE  IvAdds'
<1>1. ASSUME NEW p \in IvProcs, IvRead(p) \/ IvUsage(p) \/ IvConsume(p) \/ IvInvoice(p) \/ IvSave(p)
      PROVE  IvAdds'
  BY <1>1, AddsRead, AddsUsage, AddsConsume, AddsInvoice, AddsSave
<1>2. ASSUME NEW p \in IvProcs, IvReport(p) PROVE IvAdds'
  <2>1. IvOnly(p) /\ ivHeld'[p] = ivHeld[p] /\ ivPc'[p] = "credits"
    BY <1>2, GotoFrame DEF IvReport, IvPC
  <2>2. ivPc[p] = "report" /\ UNCHANGED <<ivInvoice, ivLeft, ivBilled, ivClosed, ivRaced, ivCut>>
    BY <1>2 DEF IvReport
  <2> QED
    BY <2>1, <2>2, AddsGoto
<1>3. ASSUME NEW p \in IvProcs, IvList(p) PROVE IvAdds'
  <2>1. /\ IvOnly(p) /\ ivPc[p] = "credits"
        /\ ivPc'[p] = IF ivHeld[p].take > 0 /\ IvFull(ivLeft) # {}
                      THEN "consume" ELSE IvAfterCredits(p)
        /\ ivHeld'[p].sub = ivHeld[p].sub /\ ivHeld'[p].used = ivHeld[p].used
        /\ ivHeld'[p].take = ivHeld[p].take /\ ivHeld'[p].due = ivHeld[p].due
        /\ UNCHANGED <<ivInvoice, ivLeft, ivBilled, ivClosed, ivRaced, ivCut>>
    BY <1>3, ListFrame DEF ivStore, ivGhost
  <2>2. \/ ivPc'[p] \in {"credits", "consume", "invoice"}
        \/ ivPc'[p] = "save" /\ ivHeld[p].sub.status \notin IvServing
    BY <2>1, AfterCreditsFacts
  <2> QED
    BY <2>1, <2>2, AddsGoto
<1>4. ASSUME NEW c \in IvCredits, IvGrant(c) PROVE IvAdds'
  BY <1>4, AddsGrant
<1>5. ASSUME \/ IvCallBegins
             \/ \E t \in IvTimes : IvCallEnds(t)
             \/ IvTick
             \/ UNCHANGED invoicesVars
      PROVE  IvAdds'
  <2>1. UNCHANGED <<ivInvoice, ivLeft, ivBilled, ivClosed, ivPc, ivHeld, ivRaced, ivCut>>
    BY <1>5 DEF IvCallBegins, IvCallEnds, IvTick, invoicesVars, ivStore, ivLocal, ivGhost
  <2>2. UNCHANGED <<IvInvoiced, IvSpent, IvCharged>>
    BY <2>1, SumsStay
  <2> QED
    BY <2>1, <2>2 DEF IvAdds, IvSumOf, IvSmooth
<1>6. CASE IvRestart
  BY <1>6 DEF IvRestart, IvAdds, IvSmooth
<1> QED
  BY <1>1, <1>2, <1>3, <1>4, <1>5, <1>6 DEF InvoicesNext

-------------------------------------------------------------------------------
(* Invoices: the invariant holds. *)

LEMMA InvoicesInitTyped == InvoicesInit => InvoicesTypeOK
<1> SUFFICES ASSUME InvoicesInit PROVE InvoicesTypeOK
  OBVIOUS
<1>1. 0 \in IvTimes
  BY DEF IvTimes
<1>2. ivSub \in IvSub
  BY <1>1 DEF InvoicesInit, IvSub, IvServing
<1>3. ivHeld \in [IvProcs -> [sub : IvSub, used : SUBSET IvTimes, take : Nat, due : Nat,
                              seen : [IvCredits -> Nat \cup {IvNone}]]]
  BY NothingType DEF InvoicesInit, IvHeld
<1>4. /\ ivCall \in [IvTimes -> {"none", "up", "done"}]
      /\ ivLeft \in [IvCredits -> Nat \cup {IvNone}]
      /\ ivInvoice \in [IvMonths -> Nat \cup {IvNone}]
      /\ ivPc \in [IvProcs -> IvPC]
      /\ ivBilled \in [IvTimes -> Nat]
  BY DEF InvoicesInit, IvPC
<1>5. /\ ivNow \in IvTimes /\ ivReported \in Nat /\ ivMoves \in Nat /\ ivFirst \in Nat
      /\ ivClosed \in [served : Nat, other : Nat] /\ ivMissed \subseteq IvTimes
  BY <1>1 DEF InvoicesInit
<1>6. ivRaced \in BOOLEAN /\ ivCut \in BOOLEAN /\ ivLost \in BOOLEAN
  BY DEF InvoicesInit
<1> QED
  BY <1>2, <1>3, <1>4, <1>5, <1>6 DEF InvoicesTypeOK

LEMMA InvoicesInitSums ==
  ASSUME InvoicesInit
  PROVE  IvInvoiced = 0 /\ IvSpent = 0 /\ IvCharged = 0
<1> DEFINE f == [m \in IvMonths |-> IF ivInvoice[m] = IvNone THEN 0 ELSE ivInvoice[m]]
           g == [c \in IvCredits |-> IF ivLeft[c] = IvNone THEN 0 ELSE IvPence - ivLeft[c]]
<1>1. /\ \A m \in IvMonths : f[m] = 0
      /\ \A c \in IvCredits : g[c] = 0
      /\ \A t \in IvTimes : ivBilled[t] = 0
  BY DEF InvoicesInit
<1>2. DOMAIN f = IvMonths /\ DOMAIN g = IvCredits /\ DOMAIN ivBilled = IvTimes
  BY DEF InvoicesInit
<1> HIDE DEF f, g
<1>3. SumFunctionOnSet(f, IvMonths) = 0 /\ SumFunctionOnSet(ivBilled, IvTimes) = 0
  BY <1>1, TimesFacts, SumOfNothing
<1>4. SumFunctionOnSet(g, IvCredits) = 0
  BY <1>1, SumOfNothing
<1>5. IvInvoiced = 0
  BY <1>2, <1>3 DEF IvInvoiced, SumFunction, f
<1>6. IvSpent = 0
  BY <1>2, <1>4 DEF IvSpent, SumFunction, g
<1>7. IvCharged = 0
  BY <1>2, <1>3 DEF IvCharged, SumFunction
<1> QED
  BY <1>5, <1>6, <1>7

LEMMA InvoicesInitInv == InvoicesInit => IvInv
<1> SUFFICES ASSUME InvoicesInit PROVE IvInv
  OBVIOUS
<1>1. InvoicesTypeOK
  BY InvoicesInitTyped
<1>2. /\ ivPc = [p \in IvProcs |-> "idle"] /\ ivBilled = [t \in IvTimes |-> 0]
      /\ ivSub.from = 0 /\ ivSub.to = ivFirst /\ ivFirst \in {2, 3} /\ ivNow = 0
      /\ ivCall = [t \in IvTimes |-> "none"] /\ ivReported = 0
      /\ ivInvoice = [m \in IvMonths |-> IvNone]
      /\ ivClosed = [served |-> 0, other |-> 0]
  BY DEF InvoicesInit
<1>3. \A p \in IvProcs : ivPc[p] = "idle"
  BY <1>2
<1>4. IvPeriods /\ IvAlone
  BY <1>2, <1>3 DEF IvPeriods, IvAlone, IvEven
<1>5. IvCounts /\ IvCovered
  BY <1>3 DEF IvCounts, IvKnown, IvTold, IvCovered, IvCoverOf
<1>6. IvBills
  BY <1>2, TimesFacts DEF IvBills
<1>7. IvReports
  BY <1>2, <1>3, InvoicesInitSums DEF IvReports, IvTold
<1>8. IvInvoices
  BY <1>2 DEF IvInvoices
<1>9. IvAdds
  BY <1>2, <1>3, InvoicesInitSums DEF IvAdds, IvSumOf
<1> QED
  BY <1>1, <1>4, <1>5, <1>6, <1>7, <1>8, <1>9 DEF IvInv

LEMMA InvoicesStepInv ==
  IvInv /\ [InvoicesNext]_invoicesVars => IvInv'
<1> SUFFICES ASSUME IvInv, [InvoicesNext]_invoicesVars PROVE IvInv'
  OBVIOUS
<1>1. /\ InvoicesTypeOK /\ IvPeriods /\ IvAlone /\ IvCounts /\ IvBills /\ IvReports /\ IvCovered
      /\ IvInvoices /\ IvAdds
  BY DEF IvInv
<1>2. InvoicesTypeOK'
  BY <1>1, InvoicesStepTyped
<1>3. IvPeriods' /\ IvAlone' /\ IvCounts'
  BY <1>1, StepPeriods, StepCounts
<1>4. IvBills' /\ IvReports' /\ IvCovered'
  BY <1>1, StepBills, StepReports, StepCovered
<1>5. IvInvoices' /\ IvAdds'
  BY <1>1, <1>2, StepInvoices, StepAdds
<1> QED
  BY <1>2, <1>3, <1>4, <1>5 DEF IvInv

LEMMA BilledOnceHolds == IvInv => CallsBilledOnce
<1> SUFFICES ASSUME IvInv, \A p \in IvProcs : ivPc[p] = "idle" PROVE CallsBilledOnce
  BY DEF CallsBilledOnce
<1>0. InvoicesTypeOK /\ IvBills /\ IvReports /\ IvAdds
  BY DEF IvInv
<1>1. ASSUME NEW t \in IvTimes, t < ivSub.from, ivCall[t] = "done"
      PROVE  \/ ivBilled[t] = 1
             \/ t \in ivMissed
             \/ ivBilled[t] > 1 /\ (IvTwice(t) \/ ivRaced)
  <2>1. ivBilled[t] \in Nat
    BY <1>0 DEF InvoicesTypeOK
  <2>2. ivBilled[t] >= 1 \/ t \in ivMissed
    BY <1>0, <1>1 DEF IvBills
  <2>3. ivRaced \/ ivBilled[t] <= 1 \/ IvTwice(t)
    BY <1>0 DEF IvBills
  <2> QED
    BY <2>1, <2>2, <2>3
<1>2. ASSUME ~ivRaced, ~ivCut, ivClosed.other = 0
      PROVE  IvInvoiced + IvSpent = ivClosed.served + IvCharged
  BY <1>0, <1>2 DEF IvAdds, IvSmooth
<1>3. ASSUME ~ivRaced, ~ivCut, ivSub.ref, ~ivLost
      PROVE  ivReported = IvCharged
  BY <1>0, <1>3 DEF IvReports, IvSmooth, IvTold
<1> QED
  BY <1>1, <1>2, <1>3 DEF CallsBilledOnce

LEMMA InvoicesInductive == InvoicesSpec => []IvInv
  BY InvoicesInitInv, InvoicesStepInv, PTL DEF InvoicesSpec

\* The types of the close of a period.
THEOREM InvoicesTypeCorrect == InvoicesSpec => []InvoicesTypeOK
<1>1. IvInv => InvoicesTypeOK
  BY DEF IvInv
<1> QED
  BY <1>1, InvoicesInductive, PTL

\* billing._roll_period: every call that has ended is paid for once.
THEOREM CallsAlwaysBilledOnce == InvoicesSpec => []CallsBilledOnce
  BY BilledOnceHolds, InvoicesInductive, PTL
===============================================================================
