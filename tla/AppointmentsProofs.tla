-------------------------- MODULE AppointmentsProofs ---------------------------
(* Proofs about appointments: Bookings, for any bookings, calendars, slots and       *)
(* operations; Reminders, for any number of reminders, requests and moves; and      *)
(* Slots, for any day, hours, limit and clock.                                       *)
EXTENDS Bookings, Reminders, Slots, TLAPS

--------------------------------------------------------------------------------
(* Bookings. *)

\* An operation that has begun to change a calendar and has still to write.
Mid(p) == bkPc[p] \in {"file", "recreate", "save"}

Halfway(b) == \E p \in BkReqs : bkFor[p] = b /\ Mid(p)

\* One that was overtaken half way: it ends in bkRaced or in bkFailed.
Stale(b) == \E p \in BkReqs \ bkFresh : bkFor[p] = b /\ Mid(p)

Other(p) == \E q \in BkReqs \ {p} : bkFor[q] = bkFor[p] /\ Mid(q)

Good == ~bkRaced /\ ~bkFailed /\ ~bkRevived

At(b, place) == <<b, place>> \in bkEvents

\* What an operation works on, whatever happens around it.
WorkOK ==
  /\ \A b \in BkBookings : bkDoc[b] = BkNoDoc \/ bkDoc[b].place \in BkPlaces
  /\ \A p \in BkReqs :
       /\ bkPc[p] = "idle" \/ (bkFor[p] \in BkBookings /\ bkCopy[p].place \in BkPlaces)
       /\ bkPc[p] = "idle" => bkFor[p] = BkNone
       /\ bkPc[p] \in {"create", "file"} =>
            /\ bkDoc[bkFor[p]] = BkNoDoc
            /\ \A q \in BkReqs \ {p} : bkFor[q] # bkFor[p]
       /\ bkPc[p] \in {"delete", "recreate", "save", "answer"} => BkFiled(bkFor[p])
       /\ bkPc[p] \in {"create", "file", "recreate", "answer"} => bkCopy[p].status # "cancelled"

\* The copy of an operation nobody has overtaken.
CopyOK(p) ==
  /\ bkPc[p] = "delete" => BkLive(bkFor[p]) /\ bkOld[p] = bkDoc[bkFor[p]].ref
  /\ bkPc[p] = "answer" => /\ bkCopy[p].place = bkDoc[bkFor[p]].place
                           /\ bkCopy[p].ref = bkDoc[bkFor[p]].ref
  /\ bkPc[p] \in {"file", "save"} /\ bkCopy[p].status # "cancelled" =>
       bkCopy[p].ref = bkCopy[p].place

Copies == Good => \A p \in bkFresh : CopyOK(p)

OneHalfway ==
  Good => \A p, q \in bkFresh : Mid(p) /\ Mid(q) /\ bkFor[p] = bkFor[q] => p = q

\* The events of a booking are its document's, or those its one operation has left.
SettledOK(b) ==
  /\ \A place \in BkPlaces : At(b, place) <=> BkLive(b) /\ place = bkDoc[b].place
  /\ BkLive(b) => bkDoc[b].ref = bkDoc[b].place

HalfwayOK(p) ==
  \A place \in BkPlaces :
    At(bkFor[p], place) <=> /\ bkPc[p] # "recreate" /\ bkCopy[p].status # "cancelled"
                            /\ place = bkCopy[p].place

Events ==
  Good => /\ \A b \in BkBookings : ~Halfway(b) => SettledOK(b)
          /\ \A p \in bkFresh : Mid(p) /\ ~Stale(bkFor[p]) => HalfwayOK(p)

Disjoint ==
  Good => \A a, b \in BkBookings : a # b /\ ~Stale(a) /\ ~Stale(b) =>
            \A place \in BkPlaces : ~(At(a, place) /\ At(b, place))

\* The place an operation wants is free, as long as nobody has overtaken it.
FreeOK(p) ==
  bkPc[p] \in {"create", "delete", "recreate"} /\ bkCopy[p].status # "cancelled" =>
    \A c \in BkBookings \ {bkFor[p]} : At(c, bkCopy[p].place) => Stale(c) \/ Other(p)

Wanted == Good => \A p \in bkFresh : FreeOK(p)

BkInv ==
  /\ BookingsTypeOK /\ WorkOK /\ Copies /\ OneHalfway /\ Events /\ Disjoint /\ Wanted

USE BookingsAssumption

-------------------------------------------------------------------------------
(* Documents. *)

LEMMA NowhereIsNoPlace == BkNowhere \notin BkPlaces
  BY DEF BkNowhere, BkPlaces

LEMMA NoDocTyped ==
  /\ BkNoDoc \in BkDoc /\ BkNoDoc.status = "cancelled" /\ BkNoDoc.place \notin BkPlaces
  BY NowhereIsNoPlace DEF BkNoDoc, BkDoc, BkStatus

LEMMA StatusTyped ==
  ASSUME NEW d \in BkDoc, NEW s \in BkStatus
  PROVE  /\ [d EXCEPT !.status = s] \in BkDoc /\ [d EXCEPT !.status = s].status = s
         /\ [d EXCEPT !.status = s].place = d.place /\ [d EXCEPT !.status = s].ref = d.ref
  BY DEF BkDoc

LEMMA PlaceTyped ==
  ASSUME NEW d \in BkDoc, NEW place \in BkPlaces
  PROVE  /\ [d EXCEPT !.place = place] \in BkDoc /\ [d EXCEPT !.place = place].place = place
         /\ [d EXCEPT !.place = place].status = d.status
         /\ [d EXCEPT !.place = place, !.status = "confirmed"] \in BkDoc
         /\ [d EXCEPT !.place = place, !.status = "confirmed"].place = place
         /\ [d EXCEPT !.ref = place] \in BkDoc /\ [d EXCEPT !.ref = place].status = d.status
         /\ [d EXCEPT !.ref = place].place = d.place /\ [d EXCEPT !.ref = place].ref = place
  BY DEF BkDoc, BkStatus

LEMMA FiledHasPlace ==
  ASSUME WorkOK, BookingsTypeOK, NEW b \in BkBookings
  PROVE  /\ BkFiled(b) <=> bkDoc[b].place \in BkPlaces
         /\ BkLive(b) => BkFiled(b)
  BY NoDocTyped DEF WorkOK, BookingsTypeOK, BkFiled, BkLive

-------------------------------------------------------------------------------
(* Steps that begin, and steps that give up, before anything is changed. *)

\* What BkStart leaves, for an operation that has been given its copy.
Begun(p, b, next, copy, old) ==
  /\ bkPc[p] = "idle" /\ bkFor[p] = BkNone
  /\ bkPc'[p] = next /\ bkFor'[p] = b /\ bkCopy'[p] = copy /\ bkOld'[p] = old
  /\ \A q \in BkReqs \ {p} : /\ bkPc'[q] = bkPc[q] /\ bkFor'[q] = bkFor[q]
                             /\ bkCopy'[q] = bkCopy[q] /\ bkOld'[q] = bkOld[q]
  /\ bkFresh' = bkFresh \cup {p}
  /\ bkDoc' = bkDoc /\ bkEvents' = bkEvents

LEMMA GoodFrame ==
  ASSUME UNCHANGED <<bkRaced, bkFailed, bkRevived>>
  PROVE  Good' <=> Good
  BY Zenon DEF Good

LEMMA StartIs ==
  ASSUME BkInv, NEW p \in BkReqs, NEW b \in BkBookings, NEW next \in BkPC,
         NEW copy \in BkDoc, NEW old \in BkPlaces \cup {BkNowhere},
         BkStart(p, b, next, copy, old)
  PROVE  Begun(p, b, next, copy, old) /\ BookingsTypeOK' /\ (Good' <=> Good)
<1>1. Good' <=> Good
  BY GoodFrame DEF BkStart
<1>2. Begun(p, b, next, copy, old)
  BY DEF BkInv, BookingsTypeOK, WorkOK, BkStart, BkGoto, Begun
<1>3. /\ bkDoc' \in [BkBookings -> BkDoc] /\ bkEvents' \subseteq BkBookings \X BkPlaces
      /\ bkPc' \in [BkReqs -> BkPC] /\ bkFor' \in [BkReqs -> BkBookings \cup {BkNone}]
      /\ bkCopy' \in [BkReqs -> BkDoc] /\ bkOld' \in [BkReqs -> BkPlaces \cup {BkNowhere}]
      /\ bkMoves' \in Nat /\ bkFresh' \subseteq BkReqs
  BY DEF BkInv, BookingsTypeOK, BkStart, BkGoto
<1>4. bkRaced' \in BOOLEAN /\ bkFailed' \in BOOLEAN /\ bkRevived' \in BOOLEAN
  BY Zenon DEF BkInv, BookingsTypeOK, BkStart
<1> QED
  BY <1>1, <1>2, <1>3, <1>4 DEF BookingsTypeOK

LEMMA BkBegunInv ==
  ASSUME BkInv, NEW p \in BkReqs, NEW b \in BkBookings,
         NEW next \in {"create", "delete", "answer"}, NEW copy \in BkDoc,
         NEW old \in BkPlaces \cup {BkNowhere}, BkStart(p, b, next, copy, old),
         copy.place \in BkPlaces,
         next = "create" => /\ ~BkFiled(b) /\ copy.status # "cancelled"
                            /\ \A q \in BkReqs : bkFor[q] # b,
         next # "create" => BkFiled(b),
         next = "delete" => BkLive(b) /\ old = bkDoc[b].ref,
         next = "answer" => /\ copy.place = bkDoc[b].place /\ copy.ref = bkDoc[b].ref
                            /\ copy.status # "cancelled",
         next # "answer" /\ copy.status # "cancelled" =>
           (next = "delete" /\ copy.place = bkDoc[b].place) \/ BkFree(copy.place)
  PROVE  BkInv'
<1>1. Begun(p, b, next, copy, old) /\ BookingsTypeOK' /\ (Good' <=> Good)
  BY StartIs DEF BkPC
<1>2. WorkOK'
  BY <1>1 DEF Begun, BkInv, BookingsTypeOK, WorkOK, BkFiled
\* Nobody is half way who was not.
<1>3. /\ \A q \in BkReqs : Mid(q)' <=> Mid(q)
      /\ \A q \in BkReqs, c \in BkBookings : Mid(q) => (bkFor'[q] = c <=> bkFor[q] = c)
      /\ ~Mid(p)
  BY <1>1 DEF Begun, Mid
<1>4. \A c \in BkBookings : (Halfway(c)' <=> Halfway(c)) /\ (Stale(c)' <=> Stale(c))
  BY <1>1, <1>3 DEF Begun, Halfway, Stale
<1>5. \A c \in BkBookings, place \in BkPlaces : At(c, place)' <=> At(c, place)
  BY <1>1 DEF Begun, At
<1>6. Copies'
  <2> SUFFICES ASSUME Good', NEW q \in bkFresh' PROVE CopyOK(q)'
    BY DEF Copies
  <2>1. CASE q = p
    BY <1>1, <2>1 DEF Begun, CopyOK, BkLive
  <2>2. CASE q # p
    <3>1. CopyOK(q) /\ q \in BkReqs
      BY <1>1, <2>2 DEF Begun, BkInv, BookingsTypeOK, Copies
    <3> QED
      BY <3>1, <1>1, <2>2 DEF Begun, CopyOK, BkLive
  <2> QED
    BY <2>1, <2>2
<1>7. OneHalfway'
  <2> SUFFICES ASSUME Good', NEW q \in bkFresh', NEW r \in bkFresh', Mid(q)', Mid(r)',
                      bkFor'[q] = bkFor'[r]
               PROVE  q = r
    BY DEF OneHalfway
  <2>1. q # p /\ r # p /\ q \in bkFresh /\ r \in bkFresh /\ q \in BkReqs /\ r \in BkReqs
    BY <1>1, <1>3 DEF Begun, BkInv, BookingsTypeOK
  <2> QED
    BY <2>1, <1>1, <1>3 DEF Begun, BkInv, OneHalfway
<1>8. Events'
  <2> SUFFICES ASSUME Good' PROVE Events'
    BY DEF Events
  <2>1. ASSUME NEW c \in BkBookings, ~Halfway(c)' PROVE SettledOK(c)'
    <3>1. SettledOK(c)
      BY <1>1, <1>4, <2>1 DEF BkInv, Events
    <3> QED
      BY <3>1, <1>1, <1>5 DEF SettledOK, BkLive, Begun
  <2>2. ASSUME NEW q \in bkFresh', Mid(q)', ~Stale(bkFor[q])' PROVE HalfwayOK(q)'
    <3>1. q # p /\ q \in bkFresh /\ q \in BkReqs /\ Mid(q) /\ bkFor'[q] = bkFor[q]
          /\ bkFor[q] \in BkBookings
      BY <1>1, <1>3, <2>2 DEF Begun, BkInv, BookingsTypeOK, WorkOK, Mid
    <3>2. HalfwayOK(q)
      <4>1. PICK c \in BkBookings : c = bkFor[q]
        BY <3>1
      <4>2. ~Stale(c)
        BY <4>1, <3>1, <2>2, <1>4
      <4> QED
        BY <4>1, <4>2, <3>1, <1>1 DEF BkInv, Events
    <3> QED
      BY <3>1, <3>2, <1>1, <1>5 DEF HalfwayOK, Begun
  <2> QED
    BY <2>1, <2>2 DEF Events
<1>9. Disjoint'
  BY <1>1, <1>4, <1>5 DEF BkInv, Disjoint
<1>10. Wanted'
  <2> SUFFICES ASSUME Good', NEW q \in bkFresh', bkPc'[q] \in {"create", "delete", "recreate"},
                      bkCopy'[q].status # "cancelled",
                      NEW c \in BkBookings, c # bkFor'[q], At(c, bkCopy[q].place)'
               PROVE  Stale(c)' \/ Other(q)'
    BY DEF Wanted, FreeOK
  <2>1. CASE q = p
    <3>1. At(c, copy.place) /\ c # b /\ next # "answer" /\ copy.status # "cancelled"
      BY <2>1, <1>1 DEF Begun, At
    <3>2. ~BkFree(copy.place)
      BY <3>1 DEF BkFree, At
    <3>3. next = "delete" /\ copy.place = bkDoc[b].place /\ BkLive(b)
      BY <3>1, <3>2
    <3>4. CASE Halfway(b)
      <4>1. PICK r \in BkReqs : bkFor[r] = b /\ Mid(r)
        BY <3>4 DEF Halfway
      <4>2. r # p /\ bkFor'[r] = b /\ bkFor'[p] = b /\ Mid(r)'
        BY <4>1, <1>1, <1>3 DEF Begun
      <4> QED
        BY <4>2, <2>1 DEF Other
    <3>5. CASE ~Halfway(b)
      <4>1. At(b, copy.place) /\ ~Stale(b)
        BY <3>3, <3>5, <1>1 DEF BkInv, Events, SettledOK, Stale, Halfway
      <4>2. Stale(c)
        BY <4>1, <3>1, <1>1 DEF BkInv, Disjoint
      <4> QED
        BY <4>2, <1>4
    <3> QED
      BY <3>4, <3>5
  <2>2. CASE q # p
    <3>1. /\ q \in bkFresh /\ q \in BkReqs /\ bkPc[q] \in {"create", "delete", "recreate"}
          /\ bkCopy[q].status # "cancelled" /\ c # bkFor[q] /\ At(c, bkCopy[q].place)
          /\ bkFor'[q] = bkFor[q] /\ bkFor[q] \in BkBookings
      BY <2>2, <1>1 DEF Begun, BkInv, BookingsTypeOK, WorkOK, At
    <3>2. Stale(c) \/ Other(q)
      BY <3>1, <1>1 DEF BkInv, Wanted, FreeOK
    <3>3. Other(q) => Other(q)'
      BY <3>1, <1>1, <1>3 DEF Other, Begun
    <3> QED
      BY <3>2, <3>3, <1>4
  <2> QED
    BY <2>1, <2>2
<1> QED
  BY <1>1, <1>2, <1>6, <1>7, <1>8, <1>9, <1>10 DEF BkInv

LEMMA BkBookInv ==
  ASSUME BkInv, NEW p \in BkReqs, NEW b \in BkBookings, NEW place \in BkPlaces, BkBook(p, b, place)
  PROVE  BkInv'
<1> DEFINE copy == [status |-> "confirmed", place |-> place, ref |-> BkNowhere]
<1>1. copy \in BkDoc /\ copy.status = "confirmed" /\ copy.place = place
  BY DEF BkDoc, BkStatus
<1>2. /\ BkStart(p, b, "create", copy, BkNowhere) /\ ~BkFiled(b) /\ BkFree(place)
      /\ \A q \in BkReqs : bkFor[q] # b
  BY DEF BkBook
<1> HIDE DEF copy
<1> QED
  BY <1>1, <1>2, BkBegunInv

\* A change of a booking that is live: what is read of it.
LEMMA LiveDoc ==
  ASSUME BkInv, NEW b \in BkBookings, BkFiled(b)
  PROVE  /\ bkDoc[b] \in BkDoc /\ bkDoc[b].place \in BkPlaces
         /\ bkDoc[b].ref \in BkPlaces \cup {BkNowhere}
         /\ bkDoc[b].place[1] \in BkCalendars /\ bkDoc[b].place[2] \in BkSlots
<1>1. bkDoc[b] \in BkDoc /\ bkDoc[b].place \in BkPlaces
  BY FiledHasPlace DEF BkInv, BookingsTypeOK
<1>2. bkDoc[b].ref \in BkPlaces \cup {BkNowhere}
  BY <1>1 DEF BkDoc
<1>3. \A place \in BkPlaces : place[1] \in BkCalendars /\ place[2] \in BkSlots
  BY DEF BkPlaces
<1> QED
  BY <1>1, <1>2, <1>3

LEMMA BkReassignInv ==
  ASSUME BkInv, NEW p \in BkReqs, NEW b \in BkBookings, NEW cal \in BkCalendars,
         BkReassign(p, b, cal)
  PROVE  BkInv'
<1>1. PICK place \in BkPlaces : place = <<cal, bkDoc[b].place[2]>>
  BY LiveDoc DEF BkReassign, BkPlaces
<1>2. PICK copy : copy = [bkDoc[b] EXCEPT !.place = place]
  OBVIOUS
<1>3. copy \in BkDoc /\ copy.place = place
  BY <1>2, LiveDoc, PlaceTyped DEF BkReassign
<1>4. /\ BkStart(p, b, "delete", copy, bkDoc[b].ref) /\ BkFiled(b) /\ BkLive(b)
      /\ BkFree(place)
  BY <1>1, <1>2 DEF BkReassign, BkLive
<1>5. bkDoc[b].ref \in BkPlaces \cup {BkNowhere}
  BY <1>4, LiveDoc
<1> QED
  BY <1>3, <1>4, <1>5, BkBegunInv

LEMMA BkRescheduleInv ==
  ASSUME BkInv, NEW p \in BkReqs, NEW b \in BkBookings, NEW slot \in BkSlots,
         BkReschedule(p, b, slot)
  PROVE  BkInv'
<1>1. PICK place \in BkPlaces : place = <<bkDoc[b].place[1], slot>>
  BY LiveDoc DEF BkReschedule, BkPlaces
<1>2. PICK copy : copy = [bkDoc[b] EXCEPT !.place = place, !.status = "confirmed"]
  OBVIOUS
<1>3. copy \in BkDoc /\ copy.place = place
  BY <1>2, LiveDoc, PlaceTyped DEF BkReschedule
<1>4. /\ BkStart(p, b, "delete", copy, bkDoc[b].ref) /\ BkFiled(b) /\ BkLive(b)
      /\ place = bkDoc[b].place \/ BkFree(place)
  BY <1>1, <1>2 DEF BkReschedule, BkLive
<1>5. bkDoc[b].ref \in BkPlaces \cup {BkNowhere}
  BY <1>4, LiveDoc
<1> QED
  BY <1>3, <1>4, <1>5, BkBegunInv

LEMMA BkCancelInv ==
  ASSUME BkInv, NEW p \in BkReqs, NEW b \in BkBookings, BkCancel(p, b)
  PROVE  BkInv'
<1>1. PICK copy : copy = [bkDoc[b] EXCEPT !.status = "cancelled"]
  OBVIOUS
<1>2. /\ BkStart(p, b, "delete", copy, bkDoc[b].ref) /\ BkFiled(b) /\ BkLive(b)
  BY <1>1 DEF BkCancel, BkLive
<1>3. /\ bkDoc[b] \in BkDoc /\ bkDoc[b].place \in BkPlaces
      /\ bkDoc[b].ref \in BkPlaces \cup {BkNowhere}
  BY <1>2, LiveDoc
<1>4. copy \in BkDoc /\ copy.place \in BkPlaces /\ copy.status = "cancelled"
  <2>1. "cancelled" \in BkStatus
    BY DEF BkStatus
  <2> QED
    BY <2>1, <1>1, <1>3, StatusTyped
<1> QED
  BY <1>2, <1>3, <1>4, BkBegunInv

LEMMA BkReplyInv ==
  ASSUME BkInv, NEW p \in BkReqs, NEW b \in BkBookings,
         NEW status \in {"confirmed", "reschedule_requested"}, BkReply(p, b, status)
  PROVE  BkInv'
<1>1. PICK copy : copy = [bkDoc[b] EXCEPT !.status = status]
  OBVIOUS
<1>2. BkStart(p, b, "answer", copy, BkNowhere) /\ BkFiled(b)
  BY <1>1 DEF BkReply
<1>3. /\ bkDoc[b] \in BkDoc /\ bkDoc[b].place \in BkPlaces
      /\ bkDoc[b].ref \in BkPlaces \cup {BkNowhere}
  BY <1>2, LiveDoc
<1>4. /\ copy \in BkDoc /\ copy.place = bkDoc[b].place /\ copy.ref = bkDoc[b].ref
      /\ copy.status # "cancelled"
  <2>1. status \in BkStatus /\ status # "cancelled"
    BY DEF BkStatus
  <2> QED
    BY <2>1, <1>1, <1>3, StatusTyped
<1> QED
  BY <1>2, <1>3, <1>4, BkBegunInv

-------------------------------------------------------------------------------
(* Steps that change the booking they work on. *)

\* p, which nobody has overtaken, changes b: the others that work on b are overtaken.
\* Of the events, at most one is added, at `place'.
Touched(p, b, place) ==
  /\ Good /\ p \in bkFresh /\ bkFor[p] = b
  /\ p \in bkFresh' /\ bkFresh' \subseteq bkFresh
  /\ \A q \in bkFresh' \ {p} : bkFor[q] # b
  /\ \A q \in BkReqs \ {p} : /\ bkPc'[q] = bkPc[q] /\ bkFor'[q] = bkFor[q]
                             /\ bkCopy'[q] = bkCopy[q] /\ bkOld'[q] = bkOld[q]
  /\ bkFor'[p] \in {b, BkNone}
  /\ Mid(p)' => bkFor'[p] = b
  /\ \A c \in BkBookings \ {b} : bkDoc'[c] = bkDoc[c]
  /\ \A c \in BkBookings \ {b}, at \in BkPlaces : At(c, at)' <=> At(c, at)
  /\ \A at \in BkPlaces : At(b, at)' => At(b, at) \/ at = place
  /\ At(b, place) \/ (~At(b, place)') \/
       /\ bkPc[p] \in {"create", "recreate"} /\ bkCopy[p].status # "cancelled"
       /\ bkCopy[p].place = place
       /\ \A q \in bkFresh' \ {p} : bkCopy[q].place # place

LEMMA TouchedStale ==
  ASSUME BkInv, NEW p \in BkReqs, NEW b \in BkBookings, NEW place, Touched(p, b, place)
  PROVE  /\ \A c \in BkBookings : Stale(c) => Stale(c)'
         /\ \A c \in BkBookings \ {b} : Halfway(c)' <=> Halfway(c)
         /\ Other(p) => Stale(b)'
         /\ \A q \in BkReqs \ {p} : Mid(q)' <=> Mid(q)
         /\ ~Stale(b)' /\ ~Mid(p) => ~Halfway(b)
         /\ ~Stale(b)' /\ ~Mid(p)' => ~Halfway(b)'
         /\ ~Stale(b)' => ~Stale(b)
<1>1. \A q \in BkReqs \ {p} : Mid(q)' <=> Mid(q)
  BY DEF Touched, Mid
<1>2. ASSUME NEW c \in BkBookings, Stale(c) PROVE Stale(c)'
  <2>1. PICK q \in BkReqs \ bkFresh : bkFor[q] = c /\ Mid(q)
    BY <1>2 DEF Stale
  <2>2. q # p /\ q \notin bkFresh' /\ bkFor'[q] = c /\ Mid(q)'
    BY <2>1, <1>1 DEF Touched
  <2> QED
    BY <2>2 DEF Stale
<1>3. ASSUME NEW c \in BkBookings \ {b} PROVE Halfway(c)' <=> Halfway(c)
  <2>1. \A q \in BkReqs : (bkFor[q] = c <=> bkFor'[q] = c) /\ (bkFor[q] = c => q # p)
    BY DEF Touched
  <2> QED
    BY <2>1, <1>1 DEF Halfway
<1>4. ASSUME Other(p) PROVE Stale(b)'
  <2>1. PICK q \in BkReqs \ {p} : bkFor[q] = b /\ Mid(q)
    BY <1>4 DEF Other, Touched
  <2>2. q \notin bkFresh' /\ bkFor'[q] = b /\ Mid(q)'
    BY <2>1, <1>1 DEF Touched
  <2> QED
    BY <2>2 DEF Stale
<1>5. ASSUME Halfway(b), ~Mid(p) PROVE Stale(b)'
  <2>1. Other(p)
    BY <1>5 DEF Halfway, Other, Touched
  <2> QED
    BY <2>1, <1>4
<1>6. ASSUME Halfway(b)', ~Mid(p)' PROVE Stale(b)'
  <2>1. PICK q \in BkReqs : bkFor'[q] = b /\ Mid(q)'
    BY <1>6 DEF Halfway
  <2>2. q # p /\ bkFor[q] = b /\ q \notin bkFresh'
    BY <2>1, <1>6 DEF Touched
  <2> QED
    BY <2>1, <2>2 DEF Stale
<1> QED
  BY <1>1, <1>2, <1>3, <1>4, <1>5, <1>6

\* What such a step keeps: all but what concerns b and p themselves.
LEMMA BkTouchedInv ==
  ASSUME BkInv, NEW p \in BkReqs, NEW b \in BkBookings, NEW place, Touched(p, b, place),
         BookingsTypeOK', WorkOK', CopyOK(p)',
         ~Stale(b)' => /\ ~Halfway(b)' => SettledOK(b)'
                       /\ Mid(p)' => HalfwayOK(p)',
         FreeOK(p)'
  PROVE  BkInv'
<1> USE TouchedStale
<1>1. bkFresh \subseteq BkReqs /\ Good /\ b # BkNone
  BY DEF BkInv, BookingsTypeOK, Touched
<1>2. Copies'
  <2>1. ASSUME NEW q \in bkFresh', q # p PROVE CopyOK(q)'
    <3>1. q \in bkFresh /\ CopyOK(q) /\ bkFor[q] # b /\ q \in BkReqs
      BY <1>1, <2>1 DEF BkInv, Copies, Touched
    <3>2. bkPc[q] # "idle" => bkFor[q] \in BkBookings
      BY <3>1 DEF BkInv, WorkOK
    <3> QED
      BY <3>1, <3>2, <2>1 DEF CopyOK, Touched, BkLive
  <2> QED
    BY <2>1 DEF Copies
<1>3. OneHalfway'
  <2> SUFFICES ASSUME NEW q \in bkFresh', NEW r \in bkFresh', Mid(q)', Mid(r)',
                      bkFor'[q] = bkFor'[r]
               PROVE  q = r
    BY DEF OneHalfway
  <2>1. CASE q = p \/ r = p
    BY <2>1, <1>1 DEF Touched
  <2>2. CASE q # p /\ r # p
    BY <2>2, <1>1 DEF Touched, BkInv, OneHalfway
  <2> QED
    BY <2>1, <2>2
<1>4. Events'
  <2>1. ASSUME NEW c \in BkBookings, c # b, ~Halfway(c)' PROVE SettledOK(c)'
    <3>1. SettledOK(c)
      BY <1>1, <2>1 DEF BkInv, Events
    <3> QED
      BY <3>1, <2>1 DEF SettledOK, Touched, BkLive
  <2>2. ~Halfway(b)' => SettledOK(b)'
    BY DEF Halfway, Stale
  <2>3. ASSUME NEW q \in bkFresh', q # p, Mid(q)', ~Stale(bkFor[q])' PROVE HalfwayOK(q)'
    <3>1. q \in bkFresh /\ q \in BkReqs /\ Mid(q) /\ bkFor'[q] = bkFor[q] /\ bkFor[q] # b
      BY <1>1, <2>3 DEF Touched
    <3>2. PICK c \in BkBookings \ {b} : c = bkFor[q]
      BY <3>1 DEF BkInv, WorkOK, Mid
    <3>3. ~Stale(c)
      BY <3>1, <3>2, <2>3
    <3>4. HalfwayOK(q)
      BY <3>1, <3>2, <3>3, <1>1 DEF BkInv, Events
    <3> QED
      BY <3>1, <3>2, <3>4, <2>3 DEF HalfwayOK, Touched
  <2>4. ASSUME Mid(p)', ~Stale(bkFor[p])' PROVE HalfwayOK(p)'
    BY <2>4 DEF Touched
  <2> QED
    BY <2>1, <2>2, <2>3, <2>4 DEF Events
<1>5. Disjoint'
  <2> SUFFICES ASSUME NEW a \in BkBookings, NEW c \in BkBookings, a # c, ~Stale(a)', ~Stale(c)',
                      NEW at \in BkPlaces, At(a, at)', At(c, at)'
               PROVE  FALSE
    BY DEF Disjoint
  <2>1. ~Stale(a) /\ ~Stale(c)
    OBVIOUS
  <2>2. ASSUME NEW d \in BkBookings \ {b}, ~Stale(b)', ~Stale(d)', At(b, at)', At(d, at)'
        PROVE  FALSE
    <3>1. At(d, at) /\ ~Stale(d) /\ ~Stale(b)
      BY <2>2 DEF Touched
    <3>2. CASE At(b, at)
      BY <3>1, <3>2, <1>1 DEF BkInv, Disjoint
    <3>3. CASE ~At(b, at)
      <4>1. /\ at = bkCopy[p].place /\ bkPc[p] \in {"create", "recreate"}
            /\ bkCopy[p].status # "cancelled" /\ p \in bkFresh /\ bkFor[p] = b
        BY <2>2, <3>3 DEF Touched
      <4>2. Stale(d) \/ Other(p)
        BY <4>1, <3>1, <1>1 DEF BkInv, Wanted, FreeOK
      <4> QED
        BY <4>2, <2>2
    <3> QED
      BY <3>2, <3>3
  <2>3. CASE a = b
    BY <2>2, <2>3
  <2>4. CASE c = b
    BY <2>2, <2>4
  <2>5. CASE a # b /\ c # b
    BY <2>1, <2>5, <1>1 DEF Touched, BkInv, Disjoint
  <2> QED
    BY <2>3, <2>4, <2>5
<1>6. Wanted'
  <2>1. ASSUME NEW q \in bkFresh', q # p, bkPc'[q] \in {"create", "delete", "recreate"},
               bkCopy'[q].status # "cancelled",
               NEW c \in BkBookings, c # bkFor'[q], At(c, bkCopy[q].place)'
        PROVE  Stale(c)' \/ Other(q)'
    <3>1. /\ q \in bkFresh /\ q \in BkReqs /\ bkPc[q] \in {"create", "delete", "recreate"}
          /\ bkCopy[q].status # "cancelled" /\ c # bkFor[q] /\ bkFor[q] # b
          /\ bkCopy'[q] = bkCopy[q] /\ bkCopy[q].place \in BkPlaces /\ bkFor'[q] = bkFor[q]
      BY <1>1, <2>1 DEF Touched, BkInv, WorkOK
    <3>2. At(c, bkCopy[q].place)
      BY <3>1, <2>1 DEF Touched, At
    <3>3. Stale(c) \/ Other(q)
      BY <3>1, <3>2, <1>1 DEF BkInv, Wanted, FreeOK
    <3>4. Other(q) => Other(q)'
      <4>1. ASSUME NEW r \in BkReqs \ {q}, bkFor[r] = bkFor[q], Mid(r) PROVE Other(q)'
        <5>1. r # p /\ bkFor'[r] = bkFor'[q] /\ Mid(r)'
          BY <3>1, <4>1 DEF Touched
        <5> QED
          BY <5>1 DEF Other
      <4> QED
        BY <4>1 DEF Other
    <3> QED
      BY <3>3, <3>4
  <2> QED
    BY <2>1 DEF Wanted, FreeOK
<1> QED
  BY <1>2, <1>3, <1>4, <1>5, <1>6 DEF BkInv

\* The same, and p's own part, from the booking as it was.
LEMMA Unovertaken ==
  ASSUME BkInv, NEW p \in BkReqs, NEW b \in BkBookings, NEW place, Touched(p, b, place),
         ~Stale(b)'
  PROVE  /\ CopyOK(p) /\ FreeOK(p) /\ ~Stale(b)
         /\ ~Mid(p) => SettledOK(b)
         /\ Mid(p) => HalfwayOK(p)
<1>1. Good /\ p \in bkFresh /\ bkFor[p] = b
  BY DEF Touched
<1>2. ~Stale(b) /\ (~Mid(p) => ~Halfway(b))
  BY TouchedStale
<1> QED
  BY <1>1, <1>2 DEF BkInv, Copies, Wanted, Events

\* A step that spoils nothing if it is good is one that nobody has overtaken.
LEMMA NotGood ==
  ASSUME BookingsTypeOK', WorkOK', ~Good'
  PROVE  BkInv'
  BY DEF BkInv, Copies, OneHalfway, Events, Disjoint, Wanted

LEMMA DoneIs ==
  ASSUME BkInv, NEW p \in BkReqs, BkDone(p)
  PROVE  /\ bkPc'[p] = "idle" /\ bkFor'[p] = BkNone /\ bkCopy'[p] = BkNoDoc
         /\ bkOld'[p] = BkNowhere /\ ~Mid(p)'
         /\ \A q \in BkReqs \ {p} : /\ bkPc'[q] = bkPc[q] /\ bkFor'[q] = bkFor[q]
                                    /\ bkCopy'[q] = bkCopy[q] /\ bkOld'[q] = bkOld[q]
         /\ bkPc' \in [BkReqs -> BkPC] /\ bkFor' \in [BkReqs -> BkBookings \cup {BkNone}]
         /\ bkCopy' \in [BkReqs -> BkDoc] /\ bkOld' \in [BkReqs -> BkPlaces \cup {BkNowhere}]
  BY NoDocTyped DEF BkInv, BookingsTypeOK, BkDone, BkGoto, Mid, BkPC

\* What BkTouch leaves of the history.
LEMMA TouchIs ==
  ASSUME BkInv, NEW p \in BkReqs, NEW b, NEW place, BkTouch(p, b, place)
  PROVE  /\ bkFresh' \subseteq bkFresh /\ bkFresh' \subseteq BkReqs /\ bkRaced' \in BOOLEAN
         /\ \A q \in bkFresh' \ {p} : bkFor[q] # b /\ bkCopy[q].place # place
         /\ ~bkRaced' => ~bkRaced /\ p \in bkFresh /\ p \in bkFresh'
<1>1. /\ bkFresh' \subseteq bkFresh /\ bkFresh' \subseteq BkReqs
      /\ \A q \in bkFresh' \ {p} : bkFor[q] # b /\ bkCopy[q].place # place
      /\ p \in bkFresh => p \in bkFresh'
  BY DEF BkInv, BookingsTypeOK, BkTouch
<1>2. bkRaced' \in BOOLEAN
  BY Zenon DEF BkInv, BookingsTypeOK, BkTouch
<1>3. ~bkRaced' => ~bkRaced /\ p \in bkFresh
  BY Zenon DEF BkTouch
<1> QED
  BY <1>1, <1>2, <1>3

LEMMA BooleansOK ==
  ASSUME BkInv, UNCHANGED <<bkFailed, bkRevived>>
  PROVE  /\ bkFailed' \in BOOLEAN /\ bkRevived' \in BOOLEAN
         /\ bkFailed' = bkFailed /\ bkRevived' = bkRevived
  BY Zenon DEF BkInv, BookingsTypeOK

\* File: the booking, or its change, is written down.
LEMMA BkFileInv ==
  ASSUME BkInv, NEW p \in BkReqs, BkFile(p)
  PROVE  BkInv'
<1>0. PICK b \in BkBookings : b = bkFor[p]
  BY DEF BkInv, WorkOK, BkFile
<1>1. /\ bkPc[p] \in {"file", "save"} /\ Mid(p) /\ bkFor[p] = b
      /\ bkDoc' = [bkDoc EXCEPT ![b] = bkCopy[p]] /\ BkTouch(p, b, BkNone) /\ BkDone(p)
      /\ bkEvents' = bkEvents /\ bkMoves' = bkMoves
      /\ bkCopy[p] \in BkDoc /\ bkCopy[p].place \in BkPlaces
  BY <1>0 DEF BkFile, Mid, BkInv, BookingsTypeOK, WorkOK
<1>2. BookingsTypeOK'
  <2>1. bkDoc' \in [BkBookings -> BkDoc]
    BY <1>1 DEF BkInv, BookingsTypeOK
  <2>2. bkFailed' \in BOOLEAN /\ bkRevived' \in BOOLEAN
    BY BooleansOK DEF BkFile
  <2> QED
    BY <1>1, <2>1, <2>2, TouchIs, DoneIs DEF BkInv, BookingsTypeOK
<1>3. /\ bkDoc'[b] = bkCopy[p] /\ \A c \in BkBookings \ {b} : bkDoc'[c] = bkDoc[c]
      /\ bkCopy[p] # BkNoDoc
  BY <1>1, NoDocTyped DEF BkInv, BookingsTypeOK
<1>4. WorkOK'
  <2>1. \A q \in BkReqs \ {p} : bkPc[q] \in {"create", "file"} => bkFor[q] # b
    BY <1>1 DEF BkInv, WorkOK
  <2> QED
    BY <1>1, <1>3, <2>1, DoneIs DEF BkInv, WorkOK, BkFiled
<1>5. ASSUME Good' PROVE BkInv'
  <2>1. Good /\ p \in bkFresh /\ p \in bkFresh'
    BY <1>1, <1>5, TouchIs, BooleansOK, Zenon DEF Good, BkFile
  <2>2. Touched(p, b, BkNone)
    <3>1. \A c \in BkBookings, at \in BkPlaces : At(c, at)' <=> At(c, at)
      BY <1>1 DEF At
    <3>2. At(b, BkNone) \/ ~At(b, BkNone)'
      BY <1>1 DEF At
    <3> QED
      BY <1>1, <1>3, <2>1, <3>1, <3>2, TouchIs, DoneIs DEF Touched
  <2>3. CopyOK(p)' /\ FreeOK(p)'
    BY <1>1, DoneIs DEF CopyOK, FreeOK
  <2>4. ASSUME ~Stale(b)' PROVE SettledOK(b)'
    <3>1. HalfwayOK(p) /\ CopyOK(p)
      BY <1>1, <2>2, <2>4, Unovertaken
    <3>2. \A at \in BkPlaces : At(b, at)' <=> bkCopy[p].status # "cancelled" /\ at = bkCopy[p].place
      BY <1>1, <3>1 DEF HalfwayOK, At
    <3> QED
      BY <1>1, <1>3, <3>1, <3>2 DEF SettledOK, CopyOK, BkLive
  <2> QED
    BY <1>1, <1>2, <1>4, <2>2, <2>3, <2>4, BkTouchedInv, DoneIs
<1> QED
  BY <1>2, <1>4, <1>5, NotGood

\* Answer: the customer's answer is written over the status.
LEMMA BkAnswerInv ==
  ASSUME BkInv, NEW p \in BkReqs, BkAnswer(p)
  PROVE  BkInv'
<1>0. PICK b \in BkBookings : b = bkFor[p]
  BY DEF BkInv, WorkOK, BkAnswer
<1>1. /\ bkPc[p] = "answer" /\ ~Mid(p) /\ bkFor[p] = b
      /\ bkDoc' = [bkDoc EXCEPT ![b] = bkCopy[p]] /\ BkTouch(p, b, BkNone) /\ BkDone(p)
      /\ bkEvents' = bkEvents /\ bkMoves' = bkMoves
      /\ bkCopy[p] \in BkDoc /\ bkCopy[p].place \in BkPlaces /\ bkCopy[p].status # "cancelled"
  BY <1>0 DEF BkAnswer, Mid, BkInv, BookingsTypeOK, WorkOK
<1>20. bkFailed' = bkFailed /\ bkFailed' \in BOOLEAN /\ bkRevived' \in BOOLEAN
  BY Zenon DEF BkAnswer, BkInv, BookingsTypeOK
<1>2. BookingsTypeOK'
  <2>1. bkDoc' \in [BkBookings -> BkDoc]
    BY <1>1 DEF BkInv, BookingsTypeOK
  <2> QED
    BY <1>1, <1>20, <2>1, TouchIs, DoneIs DEF BkInv, BookingsTypeOK
<1>3. /\ bkDoc'[b] = bkCopy[p] /\ \A c \in BkBookings \ {b} : bkDoc'[c] = bkDoc[c]
      /\ bkCopy[p] # BkNoDoc
  BY <1>1, NoDocTyped DEF BkInv, BookingsTypeOK
<1>4. WorkOK'
  <2>1. \A q \in BkReqs \ {p} : bkPc[q] \in {"create", "file"} => bkFor[q] # b
    BY <1>1 DEF BkInv, WorkOK
  <2> QED
    BY <1>1, <1>3, <2>1, DoneIs DEF BkInv, WorkOK, BkFiled
<1>5. ASSUME Good' PROVE BkInv'
  <2>1. Good /\ p \in bkFresh /\ p \in bkFresh' /\ BkLive(b)
    <3>1. ~bkRaced' /\ ~bkFailed' /\ ~bkRevived'
      BY <1>5, Zenon DEF Good
    <3>2. ~bkRevived /\ bkDoc[b].status # "cancelled"
      BY <1>0, <3>1, Zenon DEF BkAnswer
    <3>3. ~bkFailed
      BY <1>20, <3>1, Zenon
    <3> QED
      BY <1>1, <3>1, <3>2, <3>3, TouchIs DEF Good, BkLive
  <2>2. Touched(p, b, BkNone)
    <3>1. \A c \in BkBookings, at \in BkPlaces : At(c, at)' <=> At(c, at)
      BY <1>1 DEF At
    <3>2. At(b, BkNone) \/ ~At(b, BkNone)'
      BY <1>1 DEF At
    <3> QED
      BY <1>1, <1>3, <2>1, <3>1, <3>2, TouchIs, DoneIs DEF Touched
  <2>3. CopyOK(p)' /\ FreeOK(p)'
    BY <1>1, DoneIs DEF CopyOK, FreeOK
  <2>4. ASSUME ~Stale(b)' PROVE SettledOK(b)'
    <3>1. SettledOK(b) /\ CopyOK(p)
      BY <1>1, <2>2, <2>4, Unovertaken
    <3>2. \A at \in BkPlaces : At(b, at)' <=> At(b, at)
      BY <1>1 DEF At
    <3> QED
      BY <1>1, <1>3, <2>1, <3>1, <3>2 DEF SettledOK, CopyOK, BkLive
  <2> QED
    BY <1>1, <1>2, <1>4, <2>2, <2>3, <2>4, BkTouchedInv, DoneIs
<1> QED
  BY <1>2, <1>4, <1>5, NotGood

\* Make and Remake: an event is made at the place of the copy, and answered.
LEMMA BkCreatedInv ==
  ASSUME BkInv, NEW p \in BkReqs, NEW b \in BkBookings, NEW place \in BkPlaces,
         NEW next \in {"file", "save"},
         bkPc[p] = IF next = "file" THEN "create" ELSE "recreate",
         bkFor[p] = b, bkCopy[p].place = place,
         bkEvents' = bkEvents \cup {<<b, place>>},
         bkCopy' = [bkCopy EXCEPT ![p].ref = place],
         BkGoto(p, next), BkTouch(p, b, place),
         UNCHANGED <<bkFor, bkOld, bkFailed, bkDoc, bkMoves, bkRevived>>
  PROVE  BkInv'
<1>1. /\ bkCopy[p] \in BkDoc /\ bkCopy[p].status # "cancelled" /\ bkFresh \subseteq BkReqs
      /\ bkPc[p] \in {"create", "recreate"}
  BY DEF BkInv, BookingsTypeOK, WorkOK
<1>2. /\ bkCopy' = [bkCopy EXCEPT ![p] = [bkCopy[p] EXCEPT !.ref = place]]
      /\ [bkCopy[p] EXCEPT !.ref = place] \in BkDoc
      /\ [bkCopy[p] EXCEPT !.ref = place].status = bkCopy[p].status
      /\ [bkCopy[p] EXCEPT !.ref = place].place = place
      /\ [bkCopy[p] EXCEPT !.ref = place].ref = place
  BY <1>1, PlaceTyped
<1>3. /\ bkCopy' \in [BkReqs -> BkDoc] /\ bkPc' \in [BkReqs -> BkPC]
      /\ bkPc'[p] = next /\ Mid(p)' /\ bkFor' = bkFor /\ bkDoc' = bkDoc
      /\ bkCopy'[p].status # "cancelled" /\ bkCopy'[p].place = place /\ bkCopy'[p].ref = place
      /\ \A q \in BkReqs \ {p} : bkPc'[q] = bkPc[q] /\ bkCopy'[q] = bkCopy[q]
                                 /\ bkOld'[q] = bkOld[q]
  BY <1>1, <1>2 DEF BkInv, BookingsTypeOK, BkGoto, BkPC, Mid
<1>4. bkFailed' \in BOOLEAN /\ bkRevived' \in BOOLEAN
  BY BooleansOK
<1>5. BookingsTypeOK'
  BY <1>3, <1>4, TouchIs DEF BkInv, BookingsTypeOK
<1>6. WorkOK'
  BY <1>1, <1>3 DEF BkInv, WorkOK, BkFiled
<1>7. ASSUME Good' PROVE BkInv'
  <2>1. Good /\ p \in bkFresh /\ p \in bkFresh'
    BY <1>7, TouchIs, BooleansOK, Zenon DEF Good
  <2>2. /\ \A c \in BkBookings \ {b}, at \in BkPlaces : At(c, at)' <=> At(c, at)
        /\ \A at \in BkPlaces : At(b, at)' <=> At(b, at) \/ at = place
    BY DEF At
  <2>3. Touched(p, b, place)
    BY <1>1, <1>3, <2>1, <2>2, TouchIs DEF Touched
  <2>4. CopyOK(p)' /\ FreeOK(p)'
    BY <1>3 DEF CopyOK, FreeOK
  <2>5. ASSUME ~Stale(b)' PROVE HalfwayOK(p)' /\ Halfway(b)'
    <3>1. \A at \in BkPlaces : ~At(b, at)
      <4>1. CASE next = "file"
        <5>1. SettledOK(b) /\ bkDoc[b] = BkNoDoc
          BY <1>1, <2>3, <2>5, <4>1, Unovertaken DEF BkInv, WorkOK, Mid
        <5> QED
          BY <5>1, NoDocTyped DEF SettledOK, BkLive
      <4>2. CASE next = "save"
        <5>1. HalfwayOK(p)
          BY <2>3, <2>5, <4>2, Unovertaken DEF Mid
        <5> QED
          BY <5>1, <4>2 DEF HalfwayOK
      <4> QED
        BY <4>1, <4>2
    <3>2. HalfwayOK(p)'
      BY <1>3, <2>2, <3>1 DEF HalfwayOK
    <3>3. Halfway(b)'
      BY <1>3 DEF Halfway
    <3> QED
      BY <3>2, <3>3
  <2> QED
    BY <1>5, <1>6, <2>3, <2>4, <2>5, BkTouchedInv
<1> QED
  BY <1>5, <1>6, <1>7, NotGood

\* The calendar refuses, or makes the event and its answer is lost.
LEMMA BkCreateFailsInv ==
  ASSUME BkInv, NEW p \in BkReqs, NEW b \in BkBookings, NEW place \in BkPlaces,
         NEW next \in {"file", "save"},
         bkPc[p] = IF next = "file" THEN "create" ELSE "recreate",
         bkFor[p] = b, bkEvents' \in {bkEvents, bkEvents \cup {<<b, place>>}},
         bkFailed' = (bkFailed \/ next = "save" \/ bkEvents' # bkEvents), BkDone(p),
         BkTouch(p, b, IF bkEvents' = bkEvents THEN BkNone ELSE place),
         UNCHANGED <<bkDoc, bkMoves, bkRevived>>
  PROVE  BkInv'
<1>1. PICK at : at = IF bkEvents' = bkEvents THEN BkNone ELSE place
  OBVIOUS
<1>2. BkTouch(p, b, at)
  BY <1>1
<1>3. bkFailed' \in BOOLEAN /\ bkRevived' \in BOOLEAN
  BY Zenon DEF BkInv, BookingsTypeOK
<1>4. BookingsTypeOK'
  BY <1>2, <1>3, TouchIs, DoneIs DEF BkInv, BookingsTypeOK
<1>5. WorkOK'
  BY DoneIs DEF BkInv, WorkOK, BkFiled
<1>6. ASSUME Good' PROVE BkInv'
  <2>1. ~bkFailed /\ next # "save" /\ bkEvents' = bkEvents /\ ~bkRevived /\ ~bkRaced'
    BY <1>6, Zenon DEF Good
  <2>2. /\ Good /\ p \in bkFresh /\ p \in bkFresh'
    BY <1>2, <2>1, TouchIs DEF Good
  <2>3. /\ bkPc[p] = "create" /\ ~Mid(p) /\ at = BkNone
    BY <1>1, <2>1 DEF Mid
  <2>4. \A c \in BkBookings, e \in BkPlaces : At(c, e)' <=> At(c, e)
    BY <2>1 DEF At
  <2>5. Touched(p, b, at)
    <3>1. At(b, at) \/ ~At(b, at)'
      BY <2>1 DEF At
    <3> QED
      BY <1>2, <2>2, <2>3, <2>4, <3>1, TouchIs, DoneIs DEF Touched
  <2>6. CopyOK(p)' /\ FreeOK(p)'
    BY DoneIs DEF CopyOK, FreeOK
  <2>7. ASSUME ~Stale(b)' PROVE SettledOK(b)'
    <3>1. SettledOK(b)
      BY <2>3, <2>5, <2>7, Unovertaken
    <3> QED
      BY <2>4, <3>1 DEF SettledOK, BkLive
  <2> QED
    BY <1>4, <1>5, <2>5, <2>6, <2>7, BkTouchedInv, DoneIs
<1> QED
  BY <1>4, <1>5, <1>6, NotGood

LEMMA BkMakeInv ==
  ASSUME BkInv, NEW p \in BkReqs, BkMake(p) \/ BkRemake(p)
  PROVE  BkInv'
<1>1. PICK next \in {"file", "save"} :
        /\ bkPc[p] = IF next = "file" THEN "create" ELSE "recreate"
        /\ BkCreate(p, next) /\ UNCHANGED <<bkDoc, bkMoves, bkRevived>>
  BY DEF BkMake, BkRemake
<1>2. PICK b \in BkBookings, place \in BkPlaces : b = bkFor[p] /\ place = bkCopy[p].place
  BY <1>1 DEF BkInv, WorkOK
<1>3. CASE /\ bkEvents' = bkEvents \cup {<<b, place>>}
           /\ bkCopy' = [bkCopy EXCEPT ![p].ref = place]
           /\ BkGoto(p, next) /\ BkTouch(p, b, place)
           /\ UNCHANGED <<bkFor, bkOld, bkFailed>>
  BY <1>1, <1>2, <1>3, BkCreatedInv
<1>4. CASE /\ bkEvents' \in {bkEvents, bkEvents \cup {<<b, place>>}}
           /\ bkFailed' = (bkFailed \/ next = "save" \/ bkEvents' # bkEvents)
           /\ BkDone(p)
           /\ BkTouch(p, b, IF bkEvents' = bkEvents THEN BkNone ELSE place)
  BY <1>1, <1>2, <1>4, BkCreateFailsInv
<1> QED
  BY <1>1, <1>2, <1>3, <1>4, Zenon DEF BkCreate

\* Delete: the old event goes.
LEMMA BkDeletedInv ==
  ASSUME BkInv, NEW p \in BkReqs, NEW b \in BkBookings, bkPc[p] = "delete", b = bkFor[p],
         bkEvents' = bkEvents \ {<<b, bkOld[p]>>},
         BkGoto(p, IF bkCopy[p].status = "cancelled" THEN "save" ELSE "recreate"),
         BkTouch(p, b, BkNone),
         UNCHANGED <<bkFor, bkCopy, bkOld, bkDoc, bkMoves, bkFailed, bkRevived>>
  PROVE  BkInv'
<1>1. /\ bkPc' \in [BkReqs -> BkPC] /\ Mid(p)' /\ ~Mid(p) /\ bkDoc' = bkDoc
      /\ bkPc'[p] = IF bkCopy[p].status = "cancelled" THEN "save" ELSE "recreate"
      /\ bkFor' = bkFor /\ bkCopy' = bkCopy
      /\ \A q \in BkReqs \ {p} : bkPc'[q] = bkPc[q] /\ bkOld'[q] = bkOld[q]
  BY DEF BkInv, BookingsTypeOK, BkGoto, BkPC, Mid
<1>2. bkFailed' \in BOOLEAN /\ bkRevived' \in BOOLEAN
  BY BooleansOK
<1>3. BookingsTypeOK'
  BY <1>1, <1>2, TouchIs DEF BkInv, BookingsTypeOK
<1>4. WorkOK'
  BY <1>1 DEF BkInv, WorkOK, BkFiled
<1>5. ASSUME Good' PROVE BkInv'
  <2>1. Good /\ p \in bkFresh /\ p \in bkFresh'
    BY <1>5, TouchIs, BooleansOK, Zenon DEF Good
  <2>2. /\ \A c \in BkBookings \ {b}, at \in BkPlaces : At(c, at)' <=> At(c, at)
        /\ \A at \in BkPlaces : At(b, at)' <=> At(b, at) /\ at # bkOld[p]
    BY DEF At
  <2>3. Touched(p, b, BkNone)
    <3>1. At(b, BkNone) \/ ~At(b, BkNone)'
      BY DEF At
    <3> QED
      BY <1>1, <2>1, <2>2, <3>1, TouchIs DEF Touched
  <2>4. CopyOK(p)'
    BY <1>1 DEF CopyOK
  <2>5. FreeOK(p)'
    <3> SUFFICES ASSUME bkCopy[p].status # "cancelled", NEW c \in BkBookings \ {b},
                        At(c, bkCopy[p].place)'
                 PROVE  Stale(c)' \/ Other(p)'
      BY <1>1 DEF FreeOK
    <3>1. Stale(c) \/ Other(p)
      BY <2>1, <2>2 DEF BkInv, WorkOK, Wanted, FreeOK
    <3>2. Other(p) => Other(p)'
      <4>1. ASSUME NEW q \in BkReqs \ {p}, bkFor[q] = bkFor[p], Mid(q)
            PROVE  bkFor'[q] = bkFor'[p] /\ Mid(q)'
        BY <1>1, <4>1 DEF Mid
      <4> QED
        BY <4>1 DEF Other
    <3> QED
      BY <3>1, <3>2, <2>3, TouchedStale
  <2>6. ASSUME ~Stale(b)' PROVE HalfwayOK(p)' /\ Halfway(b)'
    <3>1. SettledOK(b) /\ CopyOK(p)
      BY <1>1, <2>3, <2>6, Unovertaken
    <3>2. \A at \in BkPlaces : ~At(b, at)'
      BY <3>1, <2>2 DEF SettledOK, CopyOK
    <3>3. HalfwayOK(p)' /\ Halfway(b)'
      BY <1>1, <3>2 DEF HalfwayOK, Halfway
    <3> QED
      BY <3>3
  <2> QED
    BY <1>3, <1>4, <2>3, <2>4, <2>5, <2>6, BkTouchedInv
<1> QED
  BY <1>3, <1>4, <1>5, NotGood

\* The calendar cannot be reached: nothing is changed.
LEMMA BkDeleteFailsInv ==
  ASSUME BkInv, NEW p \in BkReqs, bkPc[p] = "delete", BkDone(p), bkFresh' = bkFresh \ {p},
         UNCHANGED <<bkEvents, bkRaced, bkDoc, bkMoves, bkFailed, bkRevived>>
  PROVE  BkInv'
<1>1. Good' <=> Good
  BY GoodFrame
<1>2. bkRaced' \in BOOLEAN /\ bkFailed' \in BOOLEAN /\ bkRevived' \in BOOLEAN
  BY Zenon DEF BkInv, BookingsTypeOK
<1>3. BookingsTypeOK'
  BY <1>2, DoneIs DEF BkInv, BookingsTypeOK
<1>4. WorkOK'
  BY DoneIs DEF BkInv, WorkOK, BkFiled
<1>5. /\ \A q \in BkReqs : Mid(q)' <=> Mid(q)
      /\ ~Mid(p) /\ bkDoc' = bkDoc
      /\ \A q \in BkReqs \ {p} : /\ bkPc'[q] = bkPc[q] /\ bkFor'[q] = bkFor[q]
                                 /\ bkCopy'[q] = bkCopy[q] /\ bkOld'[q] = bkOld[q]
  BY DoneIs DEF Mid
<1>6. \A q \in bkFresh' : q # p /\ q \in bkFresh /\ q \in BkReqs
  BY DEF BkInv, BookingsTypeOK
<1>7. \A c \in BkBookings : (Halfway(c)' <=> Halfway(c)) /\ (Stale(c)' <=> Stale(c))
  BY <1>5 DEF Halfway, Stale
<1>8. \A c, at : At(c, at)' <=> At(c, at)
  BY DEF At
<1>9. Copies' /\ OneHalfway'
  BY <1>1, <1>5, <1>6 DEF BkInv, Copies, OneHalfway, CopyOK, BkLive
<1>10. Events'
  <2>1. ASSUME Good, NEW c \in BkBookings, ~Halfway(c)' PROVE SettledOK(c)'
    <3>1. SettledOK(c)
      BY <1>7, <2>1 DEF BkInv, Events
    <3> QED
      BY <3>1, <1>5, <1>8 DEF SettledOK, BkLive
  <2>2. ASSUME Good, NEW q \in bkFresh', Mid(q)', ~Stale(bkFor[q])' PROVE HalfwayOK(q)'
    <3>1. PICK c \in BkBookings : c = bkFor[q] /\ c = bkFor'[q]
      BY <1>5, <1>6, <2>2 DEF BkInv, WorkOK, Mid
    <3>2. HalfwayOK(q)
      BY <1>5, <1>6, <1>7, <2>2, <3>1 DEF BkInv, Events
    <3> QED
      BY <3>2, <1>5, <1>6, <1>8 DEF HalfwayOK
  <2> QED
    BY <1>1, <2>1, <2>2 DEF Events
<1>11. Disjoint'
  BY <1>1, <1>7, <1>8 DEF BkInv, Disjoint
<1>12. Wanted'
  <2>1. ASSUME Good, NEW q \in bkFresh', bkPc'[q] \in {"create", "delete", "recreate"},
               bkCopy'[q].status # "cancelled",
               NEW c \in BkBookings, c # bkFor'[q], At(c, bkCopy[q].place)'
        PROVE  Stale(c)' \/ Other(q)'
    <3>1. Stale(c) \/ Other(q)
      BY <1>5, <1>6, <1>8, <2>1 DEF BkInv, Wanted, FreeOK, At
    <3>2. ASSUME NEW r \in BkReqs \ {q}, bkFor[r] = bkFor[q], Mid(r) PROVE Other(q)'
      <4>1. r # p /\ Mid(r)' /\ bkFor'[r] = bkFor'[q]
        BY <1>5, <1>6, <3>2
      <4> QED
        BY <4>1 DEF Other
    <3> QED
      BY <3>1, <3>2, <1>7 DEF Other
  <2> QED
    BY <1>1, <2>1 DEF Wanted, FreeOK
<1> QED
  BY <1>3, <1>4, <1>9, <1>10, <1>11, <1>12 DEF BkInv

\* The event is gone and the answer is lost: nothing is promised any more.
LEMMA BkDeleteLostInv ==
  ASSUME BkInv, NEW p \in BkReqs, bkPc[p] = "delete", BkDone(p), bkFresh' = bkFresh \ {p},
         bkEvents' = bkEvents \ {<<bkFor[p], bkOld[p]>>},
         bkFailed' = (bkFailed \/ bkEvents' # bkEvents), bkEvents' # bkEvents,
         UNCHANGED <<bkRaced, bkDoc, bkMoves, bkRevived>>
  PROVE  BkInv'
<1>1. bkRaced' \in BOOLEAN /\ bkFailed' \in BOOLEAN /\ bkRevived' \in BOOLEAN
  BY Zenon DEF BkInv, BookingsTypeOK
<1>2. BookingsTypeOK'
  BY <1>1, DoneIs DEF BkInv, BookingsTypeOK
<1>3. WorkOK'
  BY DoneIs DEF BkInv, WorkOK, BkFiled
<1>4. ~Good'
  BY Zenon DEF Good
<1> QED
  BY <1>2, <1>3, <1>4, NotGood

LEMMA BkDeleteInv ==
  ASSUME BkInv, NEW p \in BkReqs, BkDelete(p)
  PROVE  BkInv'
<1> DEFINE b == bkFor[p]
           gone == bkEvents \ {<<bkFor[p], bkOld[p]>>}
<1>1. b \in BkBookings /\ bkPc[p] = "delete" /\ UNCHANGED <<bkDoc, bkMoves, bkRevived>>
  BY DEF BkInv, WorkOK, BkDelete
<1>2. CASE /\ bkEvents' = gone
           /\ BkGoto(p, IF bkCopy[p].status = "cancelled" THEN "save" ELSE "recreate")
           /\ BkTouch(p, bkFor[p], BkNone)
           /\ UNCHANGED <<bkFor, bkCopy, bkOld, bkFailed>>
  BY <1>1, <1>2, BkDeletedInv
<1>3. CASE /\ bkEvents' \in {bkEvents, gone}
           /\ bkFailed' = (bkFailed \/ bkEvents' # bkEvents)
           /\ BkDone(p) /\ bkFresh' = bkFresh \ {p} /\ UNCHANGED bkRaced
  <2>1. CASE bkEvents' = bkEvents
    <3>1. bkFailed' = bkFailed
      BY <1>3, <2>1, Zenon DEF BkInv, BookingsTypeOK
    <3> QED
      BY <1>1, <1>3, <2>1, <3>1, BkDeleteFailsInv
  <2>2. CASE bkEvents' # bkEvents
    BY <1>1, <1>3, <2>2, BkDeleteLostInv
  <2> QED
    BY <2>1, <2>2
<1> QED
  BY <1>2, <1>3, Zenon DEF BkDelete

\* The process stops: good if nobody was half way.
LEMMA BkRestartInv == ASSUME BkInv, BkRestart PROVE BkInv'
<1>1. /\ \A p \in BkReqs : bkPc'[p] = "idle" /\ bkFor'[p] = BkNone /\ ~Mid(p)'
      /\ bkFresh' = {} /\ bkDoc' = bkDoc /\ bkEvents' = bkEvents
  BY DEF BkRestart, Mid
<1>2. bkRaced' \in BOOLEAN /\ bkFailed' \in BOOLEAN /\ bkRevived' \in BOOLEAN
  BY Zenon DEF BkInv, BookingsTypeOK, BkRestart
<1>3. BookingsTypeOK'
  BY <1>1, <1>2, NoDocTyped DEF BkInv, BookingsTypeOK, BkRestart, BkPC
<1>4. WorkOK'
  BY <1>1 DEF BkInv, WorkOK, BkFiled
<1>5. ASSUME Good' PROVE BkInv'
  <2>1. Good /\ \A p \in BkReqs : bkPc[p] \notin {"file", "recreate", "save"}
    BY <1>5, Zenon DEF Good, BkRestart
  <2>2. \A b \in BkBookings : ~Halfway(b) /\ ~Stale(b)
    BY <2>1 DEF Halfway, Stale, Mid
  <2>3. Copies' /\ OneHalfway' /\ Wanted'
    BY <1>1 DEF Copies, OneHalfway, Wanted
  <2>4. \A b \in BkBookings, at \in BkPlaces : At(b, at)' <=> At(b, at)
    BY <1>1 DEF At
  <2>5. Events'
    <3>1. \A b \in BkBookings : SettledOK(b)
      BY <2>1, <2>2 DEF BkInv, Events
    <3>2. \A b \in BkBookings : SettledOK(b)'
      BY <3>1, <2>4, <1>1 DEF SettledOK, BkLive
    <3> QED
      BY <1>1, <3>2 DEF Events
  <2>6. Disjoint'
    BY <2>1, <2>2, <2>4 DEF BkInv, Disjoint
  <2> QED
    BY <1>3, <1>4, <2>3, <2>5, <2>6 DEF BkInv
<1> QED
  BY <1>3, <1>4, <1>5, NotGood

-------------------------------------------------------------------------------
(* The invariant, and the theorems. *)

LEMMA BkInitInv == BookingsInit => BkInv
<1> SUFFICES ASSUME BookingsInit PROVE BkInv
  OBVIOUS
<1>1. bkRaced \in BOOLEAN /\ bkFailed \in BOOLEAN /\ bkRevived \in BOOLEAN
  BY Zenon DEF BookingsInit
<1>2. BookingsTypeOK
  BY <1>1, NoDocTyped DEF BookingsInit, BookingsTypeOK, BkPC
<1>3. WorkOK
  BY DEF BookingsInit, WorkOK
<1>4. Copies /\ OneHalfway /\ Wanted
  BY DEF BookingsInit, Copies, OneHalfway, Wanted
<1>5. Events /\ Disjoint
  BY NoDocTyped DEF BookingsInit, Events, Disjoint, SettledOK, At, BkLive
<1> QED
  BY <1>2, <1>3, <1>4, <1>5 DEF BkInv

LEMMA BkStutterInv ==
  ASSUME BkInv, UNCHANGED bookingsVars
  PROVE  BkInv'
<1>1. bkRaced' \in BOOLEAN /\ bkFailed' \in BOOLEAN /\ bkRevived' \in BOOLEAN
      /\ (Good' <=> Good)
  BY Zenon DEF bookingsVars, bkGhost, BkInv, BookingsTypeOK, Good
<1>2. /\ bkDoc' = bkDoc /\ bkEvents' = bkEvents /\ bkPc' = bkPc /\ bkFor' = bkFor
      /\ bkCopy' = bkCopy /\ bkOld' = bkOld /\ bkMoves' = bkMoves /\ bkFresh' = bkFresh
  BY DEF bookingsVars, bkLocal, bkGhost
<1>3. BookingsTypeOK' /\ WorkOK'
  BY <1>1, <1>2 DEF BkInv, BookingsTypeOK, WorkOK, BkFiled
<1>4. Copies' /\ OneHalfway'
  BY <1>1, <1>2 DEF BkInv, Copies, CopyOK, BkLive, OneHalfway, Mid
<1>5. Events' /\ Disjoint'
  BY <1>1, <1>2 DEF BkInv, Events, SettledOK, HalfwayOK, Disjoint, Halfway, Stale, Mid, At, BkLive
<1>6. Wanted'
  BY <1>1, <1>2 DEF BkInv, Wanted, FreeOK, Stale, Other, Mid, At
<1> QED
  BY <1>3, <1>4, <1>5, <1>6 DEF BkInv

LEMMA BkNextInv == BkInv /\ [BookingsNext]_bookingsVars => BkInv'
<1> SUFFICES ASSUME BkInv, [BookingsNext]_bookingsVars PROVE BkInv'
  OBVIOUS
<1>1. ASSUME NEW p \in BkReqs,
             BkMake(p) \/ BkFile(p) \/ BkDelete(p) \/ BkRemake(p) \/ BkAnswer(p)
      PROVE  BkInv'
  BY <1>1, BkMakeInv, BkFileInv, BkDeleteInv, BkAnswerInv
<1>2. ASSUME NEW p \in BkReqs, NEW b \in BkBookings, NEW place \in BkPlaces, BkBook(p, b, place)
      PROVE  BkInv'
  BY <1>2, BkBookInv
<1>3. ASSUME NEW p \in BkReqs, NEW b \in BkBookings, NEW cal \in BkCalendars, BkReassign(p, b, cal)
      PROVE  BkInv'
  BY <1>3, BkReassignInv
<1>4. ASSUME NEW p \in BkReqs, NEW b \in BkBookings, NEW slot \in BkSlots, BkReschedule(p, b, slot)
      PROVE  BkInv'
  BY <1>4, BkRescheduleInv
<1>5. ASSUME NEW p \in BkReqs, NEW b \in BkBookings, BkCancel(p, b) PROVE BkInv'
  BY <1>5, BkCancelInv
<1>6. ASSUME NEW p \in BkReqs, NEW b \in BkBookings,
             NEW status \in {"confirmed", "reschedule_requested"}, BkReply(p, b, status)
      PROVE  BkInv'
  BY <1>6, BkReplyInv
<1>7. CASE BkRestart
  BY <1>7, BkRestartInv
<1>8. CASE UNCHANGED bookingsVars
  BY <1>8, BkStutterInv
<1> QED
  BY <1>1, <1>2, <1>3, <1>4, <1>5, <1>6, <1>7, <1>8 DEF BookingsNext

LEMMA BkSpecInv == BookingsSpec => []BkInv
  BY BkInitInv, BkNextInv, PTL DEF BookingsSpec

\* Documents, events and the copies at work have their types, for any number of
\* bookings, calendars and operations (CalendarService).
THEOREM BookingsTypeCorrect == BookingsSpec => []BookingsTypeOK
<1>1. BkInv => BookingsTypeOK
  BY DEF BkInv
<1> QED
  BY <1>1, BkSpecInv, PTL

\* For any number of bookings, calendars and operations at once, no slot has two
\* bookings and every booking has its one event, unless an operation went on after
\* it was overtaken, failed half way, or revived a cancelled booking (book,
\* reassign, reschedule, cancel).
THEOREM BookingsAlwaysAgree == BookingsSpec => []BookingsAgree
<1>1. ASSUME BkInv PROVE BookingsAgree
  <2> SUFFICES ASSUME Good PROVE BookingsAgree
    BY Zenon DEF BookingsAgree, Good
  <2>1. ASSUME NEW b \in BkBookings, \A p \in BkReqs : bkFor[p] # b
        PROVE  ~Stale(b) /\ SettledOK(b)
    BY <1>1, <2>1 DEF Halfway, Stale, BkInv, Events
  <2>2. ASSUME NEW a \in BkBookings, NEW b \in BkBookings, a # b, BkStill(a), BkStill(b)
        PROVE  bkDoc[a].place # bkDoc[b].place
    <3>1. SettledOK(a) /\ SettledOK(b) /\ ~Stale(a) /\ ~Stale(b) /\ BkLive(a) /\ BkLive(b)
      BY <2>1, <2>2 DEF BkStill
    <3>2. bkDoc[a].place \in BkPlaces
      BY <1>1, <3>1, FiledHasPlace DEF BkInv
    <3> QED
      BY <1>1, <2>2, <3>1, <3>2 DEF BkInv, Disjoint, SettledOK
  <2>3. ASSUME NEW b \in BkBookings, \A p \in BkReqs : bkFor[p] # b
        PROVE  /\ {event \in bkEvents : event[1] = b} =
                    IF BkLive(b) THEN {<<b, bkDoc[b].place>>} ELSE {}
               /\ BkLive(b) => bkDoc[b].ref = bkDoc[b].place
    <3>1. SettledOK(b)
      BY <2>1, <2>3
    <3>2. BkLive(b) => bkDoc[b].place \in BkPlaces
      BY <1>1, FiledHasPlace DEF BkInv
    <3>3. \A event \in bkEvents : event = <<event[1], event[2]>> /\ event[2] \in BkPlaces
      BY <1>1 DEF BkInv, BookingsTypeOK
    <3>4. CASE BkLive(b)
      BY <3>1, <3>2, <3>3, <3>4 DEF SettledOK, At
    <3>5. CASE ~BkLive(b)
      BY <3>1, <3>3, <3>5 DEF SettledOK, At
    <3> QED
      BY <3>4, <3>5
  <2> QED
    BY <2>2, <2>3 DEF BookingsAgree
<1> QED
  BY <1>1, BkSpecInv, PTL

--------------------------------------------------------------------------------
(* Reminders. *)

\* Until it is booked nothing happens to a booking; whoever writes it has a status
\* to write, and an answer is to a reminder.
RmBegun ==
  /\ rmBooking = "none" => \A p \in RmReqs : rmPc[p] = "idle"
  /\ \A p \in RmReqs : rmPc[p] \in {"change", "answer"} => rmCopy[p] # "none"

\* Another time is asked for, or is going to be.
RmAsked == \/ rmBooking = "reschedule_requested"
         \/ \E p \in RmReqs : rmPc[p] = "change" /\ rmCopy[p] = "reschedule_requested"

RmWaiting == \E n \in RmReminders : rmStatus[n] = "scheduled"

RmAskedCleared ==
  RmAsked /\ ~rmLost /\ (\A p \in RmReqs : rmPc[p] # "others") => ~RmWaiting

\* An office's change whose read is current was begun on a booking that stood.
RmChangeStands ==
  \A p \in rmFresh : rmPc[p] = "change" => rmBooking # "cancelled"

RmOffStays == rmOff /\ ~rmRevived /\ ~rmStale => rmBooking = "cancelled"

\* A text whose booking was looked at before it ended is still to be counted.
RmLateBound ==
  /\ rmLate <= rmEnds
  /\ rmAt # 0 /\ rmSaid = "none" /\ rmBooking \in RmDeadStatus => rmLate < rmEnds

RmInv ==
  /\ RemindersTypeOK /\ RmBegun /\ RmAskedCleared
  /\ RmChangeStands /\ RmOffStays /\ RmLateBound

USE RemindersAssumption

LEMMA RmInitInv == RemindersInit => RmInv
<1> SUFFICES ASSUME RemindersInit PROVE RmInv
  OBVIOUS
<1>1. RemindersTypeOK
  <2>1. 0 \in 0 .. RmOffsets
    OBVIOUS
  <2>2. /\ rmStatus \in [RmReminders -> RmStatus] /\ rmPc \in [RmReqs -> RmPC]
        /\ rmCopy \in [RmReqs -> RmBookingStatus] /\ rmAnswers \in [RmReqs -> 0 .. RmOffsets]
    BY <2>1 DEF RemindersInit, RmBookingStatus, RmStatus, RmPC
  <2> QED
    BY <2>1, <2>2 DEF RemindersInit, RemindersTypeOK, RmBookingStatus
<1>2. RmBegun /\ RmAskedCleared
  BY DEF RemindersInit, RmBegun, RmAskedCleared, RmAsked, RmWaiting
<1>3. RmChangeStands /\ RmOffStays /\ RmLateBound
  BY DEF RemindersInit, RmChangeStands, RmOffStays, RmLateBound
<1> QED
  BY <1>1, <1>2, <1>3 DEF RmInv

-------------------------------------------------------------------------------
(* The steps. *)

LEMMA RmBookInv == ASSUME RmInv, RmBook PROVE RmInv'
<1>1. RemindersTypeOK'
  BY DEF RmInv, RemindersTypeOK, RmBookingStatus, RmStatus, RmPC, RmReminders,
         RmBook, rmLocal, rmGhost
<1>2. RmBegun'
  BY DEF RmInv, RemindersTypeOK, RmBegun, RmBook, rmLocal, rmGhost
<1>3. RmAskedCleared'
  BY DEF RmInv, RemindersTypeOK, RmBegun, RmAskedCleared, RmAsked, RmWaiting,
         RmBook, rmLocal, rmGhost
<1>4. RmChangeStands' /\ RmOffStays'
  BY DEF RmInv, RemindersTypeOK, RmChangeStands, RmOffStays,
         RmBook, rmLocal, rmGhost
<1>5. RmLateBound'
  BY DEF RmInv, RemindersTypeOK, RmLateBound, RmDeadStatus,
         RmBook, rmLocal, rmGhost
<1> QED
  BY <1>1, <1>2, <1>3, <1>4, <1>5 DEF RmInv

LEMMA RmTickInv == ASSUME RmInv, RmTick PROVE RmInv'
<1>1. RemindersTypeOK'
  BY DEF RmInv, RemindersTypeOK, RmBookingStatus, RmStatus, RmPC, RmReminders,
         RmTick, rmLocal, rmGhost
<1>2. RmBegun'
  BY DEF RmInv, RemindersTypeOK, RmBegun, RmTick, rmLocal, rmGhost
<1>3. RmAskedCleared'
  BY DEF RmInv, RemindersTypeOK, RmBegun, RmAskedCleared, RmAsked, RmWaiting,
         RmTick, rmLocal, rmGhost
<1>4. RmChangeStands' /\ RmOffStays'
  BY DEF RmInv, RemindersTypeOK, RmChangeStands, RmOffStays,
         RmTick, rmLocal, rmGhost
<1>5. RmLateBound'
  BY DEF RmInv, RemindersTypeOK, RmLateBound, RmDeadStatus,
         RmTick, rmLocal, rmGhost
<1> QED
  BY <1>1, <1>2, <1>3, <1>4, <1>5 DEF RmInv

LEMMA RmListInv == ASSUME RmInv, RmList PROVE RmInv'
<1>1. RemindersTypeOK'
  BY DEF RmInv, RemindersTypeOK, RmBookingStatus, RmStatus, RmPC, RmReminders,
         RmList, rmLocal, rmGhost
<1>2. RmBegun'
  BY DEF RmInv, RemindersTypeOK, RmBegun, RmList, rmLocal, rmGhost
<1>3. RmAskedCleared'
  BY DEF RmInv, RemindersTypeOK, RmBegun, RmAskedCleared, RmAsked, RmWaiting,
         RmList, rmLocal, rmGhost
<1>4. RmChangeStands' /\ RmOffStays'
  BY DEF RmInv, RemindersTypeOK, RmChangeStands, RmOffStays,
         RmList, rmLocal, rmGhost
<1>5. RmLateBound'
  BY DEF RmInv, RemindersTypeOK, RmLateBound, RmDeadStatus,
         RmList, rmLocal, rmGhost
<1> QED
  BY <1>1, <1>2, <1>3, <1>4, <1>5 DEF RmInv

LEMMA RmDropInv ==
  ASSUME RmInv, NEW n \in RmReminders, RmDrop(n)
  PROVE  RmInv'
<1>1. RemindersTypeOK'
  BY DEF RmInv, RemindersTypeOK, RmBookingStatus, RmStatus, RmPC, RmReminders,
         RmDrop, rmLocal, rmGhost
<1>2. RmBegun'
  BY DEF RmInv, RemindersTypeOK, RmBegun, RmDrop, rmLocal, rmGhost
<1>3. RmAskedCleared'
  BY DEF RmInv, RemindersTypeOK, RmBegun, RmAskedCleared, RmAsked, RmWaiting,
         RmDrop, rmLocal, rmGhost
<1>4. RmChangeStands' /\ RmOffStays'
  BY DEF RmInv, RemindersTypeOK, RmChangeStands, RmOffStays,
         RmDrop, rmLocal, rmGhost
<1>5. RmLateBound'
  BY DEF RmInv, RemindersTypeOK, RmLateBound, RmDeadStatus,
         RmDrop, rmLocal, rmGhost
<1> QED
  BY <1>1, <1>2, <1>3, <1>4, <1>5 DEF RmInv

LEMMA RmLookInv ==
  ASSUME RmInv, NEW n \in RmReminders, RmLook(n)
  PROVE  RmInv'
<1>1. RemindersTypeOK'
  BY DEF RmInv, RemindersTypeOK, RmBookingStatus, RmStatus, RmPC, RmReminders,
         RmLook, RmDead, rmLocal, rmGhost
<1>2. RmBegun'
  BY DEF RmInv, RemindersTypeOK, RmBegun, RmLook, RmDead, rmLocal, rmGhost
<1>3. RmAskedCleared'
  BY DEF RmInv, RemindersTypeOK, RmBegun, RmAskedCleared, RmAsked, RmWaiting,
         RmLook, RmDead, rmLocal, rmGhost
<1>4. RmChangeStands' /\ RmOffStays'
  BY DEF RmInv, RemindersTypeOK, RmChangeStands, RmOffStays,
         RmLook, RmDead, rmLocal, rmGhost
<1>5. RmLateBound'
  BY DEF RmInv, RemindersTypeOK, RmLateBound, RmDeadStatus,
         RmLook, RmDead, rmLocal, rmGhost
<1> QED
  BY <1>1, <1>2, <1>3, <1>4, <1>5 DEF RmInv

LEMMA RmSendInv == ASSUME RmInv, RmSend PROVE RmInv'
<1>1. RemindersTypeOK'
  BY DEF RmInv, RemindersTypeOK, RmBookingStatus, RmStatus, RmPC, RmReminders,
         RmSend, rmLocal, rmGhost
<1>2. RmBegun'
  BY DEF RmInv, RemindersTypeOK, RmBegun, RmSend, rmLocal, rmGhost
<1>3. RmAskedCleared'
  BY DEF RmInv, RemindersTypeOK, RmBegun, RmAskedCleared, RmAsked, RmWaiting,
         RmSend, rmLocal, rmGhost
<1>4. RmChangeStands' /\ RmOffStays'
  BY DEF RmInv, RemindersTypeOK, RmChangeStands, RmOffStays,
         RmSend, rmLocal, rmGhost
<1>5. RmLateBound'
  BY DEF RmInv, RemindersTypeOK, RmLateBound, RmDeadStatus,
         RmSend, rmLocal, rmGhost
<1> QED
  BY <1>1, <1>2, <1>3, <1>4, <1>5 DEF RmInv

LEMMA RmSentInv == ASSUME RmInv, RmSent PROVE RmInv'
<1>1. RemindersTypeOK'
  <2>1. rmSaid \in {"sent", "failed"} /\ 0 \in 0 .. RmOffsets
    BY DEF RmInv, RemindersTypeOK, RmSent
  <2>2. rmStatus' \in [RmReminders -> RmStatus]
    BY <2>1 DEF RmInv, RemindersTypeOK, RmStatus, RmSent
  <2> QED
    BY <2>1, <2>2 DEF RmInv, RemindersTypeOK, RmSent, rmGhost
<1>2. RmBegun'
  BY DEF RmInv, RemindersTypeOK, RmBegun, RmSent, rmLocal, rmGhost
<1>3. RmAskedCleared'
  BY DEF RmInv, RemindersTypeOK, RmBegun, RmAskedCleared, RmAsked, RmWaiting,
         RmSent, rmLocal, rmGhost
<1>4. RmChangeStands' /\ RmOffStays'
  BY DEF RmInv, RemindersTypeOK, RmChangeStands, RmOffStays,
         RmSent, rmLocal, rmGhost
<1>5. RmLateBound'
  BY DEF RmInv, RemindersTypeOK, RmLateBound, RmDeadStatus,
         RmSent, rmLocal, rmGhost
<1> QED
  BY <1>1, <1>2, <1>3, <1>4, <1>5 DEF RmInv

LEMMA RmSweepFailsInv == ASSUME RmInv, RmSweepFails PROVE RmInv'
<1>1. RemindersTypeOK'
  BY DEF RmInv, RemindersTypeOK, RmBookingStatus, RmStatus, RmPC, RmReminders,
         RmSweepFails, rmLocal, rmGhost
<1>2. RmBegun'
  BY DEF RmInv, RemindersTypeOK, RmBegun, RmSweepFails, rmLocal, rmGhost
<1>3. RmAskedCleared'
  BY DEF RmInv, RemindersTypeOK, RmBegun, RmAskedCleared, RmAsked, RmWaiting,
         RmSweepFails, rmLocal, rmGhost
<1>4. RmChangeStands' /\ RmOffStays'
  BY DEF RmInv, RemindersTypeOK, RmChangeStands, RmOffStays,
         RmSweepFails, rmLocal, rmGhost
<1>5. RmLateBound'
  BY DEF RmInv, RemindersTypeOK, RmLateBound, RmDeadStatus,
         RmSweepFails, rmLocal, rmGhost
<1> QED
  BY <1>1, <1>2, <1>3, <1>4, <1>5 DEF RmInv

LEMMA RmReplyInv ==
  ASSUME RmInv, NEW p \in RmReqs, NEW action \in {"confirmed", "reschedule_requested"}, RmReply(p, action)
  PROVE  RmInv'
<1>1. RemindersTypeOK'
  BY DEF RmInv, RemindersTypeOK, RmBookingStatus, RmStatus, RmPC, RmReminders,
         RmReply, RmStart, RmGoto, RmOpen, rmLocal, rmGhost
<1>2. RmBegun'
  BY DEF RmInv, RemindersTypeOK, RmBegun, RmReply, RmStart, RmGoto, RmOpen, rmLocal, rmGhost
<1>3. RmAskedCleared'
  BY DEF RmInv, RemindersTypeOK, RmBegun, RmAskedCleared, RmAsked, RmWaiting,
         RmReply, RmStart, RmGoto, RmOpen, rmLocal, rmGhost
<1>4. RmChangeStands' /\ RmOffStays'
  BY DEF RmInv, RemindersTypeOK, RmChangeStands, RmOffStays,
         RmReply, RmStart, RmGoto, RmOpen, rmLocal, rmGhost
<1>5. RmLateBound'
  BY DEF RmInv, RemindersTypeOK, RmLateBound, RmDeadStatus,
         RmReply, RmStart, RmGoto, RmOpen, rmLocal, rmGhost
<1> QED
  BY <1>1, <1>2, <1>3, <1>4, <1>5 DEF RmInv

LEMMA RmAnswerInv ==
  ASSUME RmInv, NEW p \in RmReqs, RmAnswer(p)
  PROVE  RmInv'
<1>1. RemindersTypeOK'
  BY DEF RmInv, RemindersTypeOK, RmBookingStatus, RmStatus, RmPC, RmReminders,
         RmAnswer, RmWrite, RmGoto, rmLocal, rmGhost
<1>2. RmBegun'
  BY DEF RmInv, RemindersTypeOK, RmBegun, RmAnswer, RmWrite, RmGoto, rmLocal, rmGhost
<1>3. RmAskedCleared'
  BY DEF RmInv, RemindersTypeOK, RmBegun, RmAskedCleared, RmAsked, RmWaiting,
         RmAnswer, RmWrite, RmGoto, rmLocal, rmGhost
<1>4. RmChangeStands' /\ RmOffStays'
  BY DEF RmInv, RemindersTypeOK, RmChangeStands, RmOffStays,
         RmAnswer, RmWrite, RmGoto, rmLocal, rmGhost
<1>5. RmLateBound'
  BY DEF RmInv, RemindersTypeOK, RmLateBound, RmDeadStatus,
         RmAnswer, RmWrite, RmGoto, rmLocal, rmGhost
<1> QED
  BY <1>1, <1>2, <1>3, <1>4, <1>5 DEF RmInv

LEMMA RmOthersInv ==
  ASSUME RmInv, NEW p \in RmReqs, RmOthers(p)
  PROVE  RmInv'
<1>1. RemindersTypeOK'
  BY DEF RmInv, RemindersTypeOK, RmBookingStatus, RmStatus, RmPC, RmReminders,
         RmOthers, RmGoto, rmLocal, rmGhost
<1>2. RmBegun'
  BY DEF RmInv, RemindersTypeOK, RmBegun, RmOthers, RmGoto, rmLocal, rmGhost
<1>3. RmAskedCleared'
  BY DEF RmInv, RemindersTypeOK, RmBegun, RmAskedCleared, RmAsked, RmWaiting,
         RmOthers, RmGoto, rmLocal, rmGhost
<1>4. RmChangeStands' /\ RmOffStays'
  BY DEF RmInv, RemindersTypeOK, RmChangeStands, RmOffStays,
         RmOthers, RmGoto, rmLocal, rmGhost
<1>5. RmLateBound'
  BY DEF RmInv, RemindersTypeOK, RmLateBound, RmDeadStatus,
         RmOthers, RmGoto, rmLocal, rmGhost
<1> QED
  BY <1>1, <1>2, <1>3, <1>4, <1>5 DEF RmInv

LEMMA RmMarkInv ==
  ASSUME RmInv, NEW p \in RmReqs, RmMark(p)
  PROVE  RmInv'
<1>0. rmCopy[p] \in RmStatus /\ rmCopy[p] # "scheduled"
  BY DEF RmInv, RemindersTypeOK, RmBookingStatus, RmStatus
<1>1. RemindersTypeOK'
  <2>1. rmStatus' \in [RmReminders -> RmStatus]
    BY <1>0 DEF RmInv, RemindersTypeOK, RmMark
  <2>2. /\ rmPc' \in [RmReqs -> RmPC] /\ rmCopy' \in [RmReqs -> RmBookingStatus]
        /\ rmAnswers' \in [RmReqs -> 0 .. RmOffsets]
    BY DEF RmInv, RemindersTypeOK, RmBookingStatus, RmPC, RmMark, RmDone, RmGoto
  <2> QED
    BY <2>1, <2>2 DEF RmInv, RemindersTypeOK, RmMark, rmGhost
<1>2. RmBegun'
  BY DEF RmInv, RemindersTypeOK, RmBegun, RmMark, RmDone, RmGoto, rmLocal, rmGhost
<1>3. RmAskedCleared'
  <2>1. RmWaiting' => RmWaiting
    BY <1>0 DEF RmInv, RemindersTypeOK, RmWaiting, RmMark
  <2>2. RmAsked' => RmAsked
    BY DEF RmInv, RemindersTypeOK, RmAsked, RmMark, RmDone, RmGoto
  <2>3. (\A q \in RmReqs : rmPc'[q] # "others") => \A q \in RmReqs : rmPc[q] # "others"
    BY DEF RmInv, RemindersTypeOK, RmMark, RmDone, RmGoto
  <2> QED
    BY <2>1, <2>2, <2>3 DEF RmInv, RmAskedCleared, RmMark, rmGhost
<1>4. RmChangeStands' /\ RmOffStays'
  BY DEF RmInv, RemindersTypeOK, RmChangeStands, RmOffStays,
         RmMark, RmDone, RmGoto, rmLocal, rmGhost
<1>5. RmLateBound'
  BY DEF RmInv, RemindersTypeOK, RmLateBound, RmDeadStatus,
         RmMark, RmDone, RmGoto, rmLocal, rmGhost
<1> QED
  BY <1>1, <1>2, <1>3, <1>4, <1>5 DEF RmInv

LEMMA RmOfficeInv ==
  ASSUME RmInv, NEW p \in RmReqs, RmOffice(p)
  PROVE  RmInv'
<1>1. RemindersTypeOK'
  BY DEF RmInv, RemindersTypeOK, RmBookingStatus, RmStatus, RmPC, RmReminders,
         RmOffice, RmStart, RmGoto, rmLocal, rmGhost
<1>2. RmBegun'
  BY DEF RmInv, RemindersTypeOK, RmBegun, RmOffice, RmStart, RmGoto, rmLocal, rmGhost
<1>3. RmAskedCleared'
  BY DEF RmInv, RemindersTypeOK, RmBegun, RmAskedCleared, RmAsked, RmWaiting,
         RmOffice, RmStart, RmGoto, rmLocal, rmGhost
<1>4. RmChangeStands' /\ RmOffStays'
  BY DEF RmInv, RemindersTypeOK, RmChangeStands, RmOffStays,
         RmOffice, RmStart, RmGoto, rmLocal, rmGhost
<1>5. RmLateBound'
  BY DEF RmInv, RemindersTypeOK, RmLateBound, RmDeadStatus,
         RmOffice, RmStart, RmGoto, rmLocal, rmGhost
<1> QED
  BY <1>1, <1>2, <1>3, <1>4, <1>5 DEF RmInv

LEMMA RmChangeInv ==
  ASSUME RmInv, NEW p \in RmReqs, RmChange(p)
  PROVE  RmInv'
<1>1. RemindersTypeOK'
  BY DEF RmInv, RemindersTypeOK, RmBookingStatus, RmStatus, RmPC, RmReminders,
         RmChange, RmWrite, RmDone, RmGoto, rmLocal, rmGhost
<1>2. RmBegun'
  BY DEF RmInv, RemindersTypeOK, RmBegun, RmChange, RmWrite, RmDone, RmGoto, rmLocal, rmGhost
<1>3. RmAskedCleared'
  BY DEF RmInv, RemindersTypeOK, RmBegun, RmAskedCleared, RmAsked, RmWaiting,
         RmChange, RmWrite, RmDone, RmGoto, rmLocal, rmGhost
<1>4. RmChangeStands' /\ RmOffStays'
  BY DEF RmInv, RemindersTypeOK, RmChangeStands, RmOffStays,
         RmChange, RmWrite, RmDone, RmGoto, rmLocal, rmGhost
<1>5. RmLateBound'
  BY DEF RmInv, RemindersTypeOK, RmLateBound, RmDeadStatus,
         RmChange, RmWrite, RmDone, RmGoto, rmLocal, rmGhost
<1> QED
  BY <1>1, <1>2, <1>3, <1>4, <1>5 DEF RmInv

LEMMA RmRestartInv == ASSUME RmInv, RmRestart PROVE RmInv'
<1>1. RemindersTypeOK'
  BY DEF RmInv, RemindersTypeOK, RmBookingStatus, RmStatus, RmPC, RmReminders,
         RmRestart, rmLocal, rmGhost
<1>2. RmBegun'
  BY DEF RmInv, RemindersTypeOK, RmBegun, RmRestart, rmLocal, rmGhost
<1>3. RmAskedCleared'
  BY DEF RmInv, RemindersTypeOK, RmBegun, RmAskedCleared, RmAsked, RmWaiting,
         RmRestart, rmLocal, rmGhost
<1>4. RmChangeStands' /\ RmOffStays'
  BY DEF RmInv, RemindersTypeOK, RmChangeStands, RmOffStays,
         RmRestart, rmLocal, rmGhost
<1>5. RmLateBound'
  BY DEF RmInv, RemindersTypeOK, RmLateBound, RmDeadStatus,
         RmRestart, rmLocal, rmGhost
<1> QED
  BY <1>1, <1>2, <1>3, <1>4, <1>5 DEF RmInv

LEMMA RmNextInv == RmInv /\ [RemindersNext]_remindersVars => RmInv'
<1> SUFFICES ASSUME RmInv, [RemindersNext]_remindersVars PROVE RmInv'
  OBVIOUS
<1>1. CASE RmBook \/ RmTick \/ RmList \/ RmSend \/ RmSent \/ RmSweepFails \/ RmRestart
  BY <1>1, RmBookInv, RmTickInv, RmListInv, RmSendInv, RmSentInv, RmSweepFailsInv, RmRestartInv
<1>2. ASSUME NEW n \in RmReminders, RmDrop(n) \/ RmLook(n)
      PROVE  RmInv'
  BY <1>2, RmDropInv, RmLookInv
<1>3. ASSUME NEW p \in RmReqs, NEW action \in {"confirmed", "reschedule_requested"},
             RmReply(p, action)
      PROVE  RmInv'
  BY <1>3, RmReplyInv
<1>4. ASSUME NEW p \in RmReqs,
             RmAnswer(p) \/ RmOthers(p) \/ RmMark(p) \/ RmOffice(p) \/ RmChange(p)
      PROVE  RmInv'
  BY <1>4, RmAnswerInv, RmOthersInv, RmMarkInv, RmOfficeInv, RmChangeInv
<1>5. CASE UNCHANGED remindersVars
  BY <1>5 DEF remindersVars, rmLocal, rmGhost, RmInv, RemindersTypeOK, RmBegun, RmAskedCleared, RmAsked,
              RmWaiting, RmChangeStands, RmOffStays, RmLateBound
<1> QED
  BY <1>1, <1>2, <1>3, <1>4, <1>5 DEF RemindersNext

-------------------------------------------------------------------------------
(* The theorems. *)

LEMMA RmSpecInv == RemindersSpec => []RmInv
  BY RmInitInv, RmNextInv, PTL DEF RemindersSpec

\* The booking, its reminders and the operations on them have their types, for any
\* number of reminders and requests (ReminderService).
THEOREM RemindersTypeCorrect == RemindersSpec => []RemindersTypeOK
<1>1. RmInv => RemindersTypeOK
  BY DEF RmInv
<1> QED
  BY <1>1, RmSpecInv, PTL

\* However answers, changes and sweeps overlap, no reminder waits of an appointment
\* that the customer asked to move, no more than one text leaves after an
\* appointment was called off or asked to be moved, and what the office called off
\* stays so, but for the overwritten and the cut short (handle_reply, send).
THEOREM RemindersAlwaysHeed == RemindersSpec => []RemindersHeed
<1>1. RmInv => RemindersHeed
  BY DEF RmInv, RmAskedCleared, RmAsked, RmWaiting, RmOffStays, RmLateBound,
          RemindersHeed
<1> QED
  BY <1>1, RmSpecInv, PTL

HIDE RemindersAssumption
HIDE BookingsAssumption

--------------------------------------------------------------------------------
(* Slots. *)

\* What was offered is what the walk finds among the events of then, and an appointment
\* was allowed when it was made.
SlInv ==
  /\ SlotsTypeOK
  /\ slAt = SlNone => slOffered = {}
  /\ slAt # SlNone => SlFreeSlots(slSeen, slAt, slOffered) /\ slAt <= slNow
  /\ ~SlUnbooked /\ ~slRules.any =>
       \/ slBooking.start >= SlOpen /\ slBooking.start + slRules.length <= SlClose
       \/ slBooking.moved /\ ~slRules.service

USE SlotsAssumption

LEMMA SlotsInitInv == SlotsInit => SlInv
<1> SUFFICES ASSUME SlotsInit PROVE SlInv
  OBVIOUS
<1>1. slRules \in SlRules
  BY DEF SlotsInit
<1>2. slAsk \in SlTimes \X SlTimes
  BY DEF SlotsInit, SlTimes
<1>3. slBooking \in [start: SlTimes \cup {SlNone}, moved: BOOLEAN]
  BY DEF SlotsInit
<1> QED
  BY <1>1, <1>2, <1>3 DEF SlotsInit, SlInv, SlotsTypeOK, SlUnbooked, SlTimes, SlNone

LEMMA FittingAreTimes ==
  ASSUME NEW events, NEW now
  PROVE  SlFitting(events, now) \subseteq SlTimes
  BY DEF SlFitting, SlWalk

\* The offers depend on what was asked, and on what they were.
LEMMA OffersStand ==
  ASSUME SlFreeSlots(slSeen, slAt, slOffered), UNCHANGED <<slRules, slAsk, slSeen, slAt, slOffered>>
  PROVE  SlFreeSlots(slSeen, slAt, slOffered)'
<1>1. SlFitting(slSeen, slAt)' = SlFitting(slSeen, slAt)
  BY DEF SlFitting, SlWalk, SlWindow, SlGrid, SlStep, SlEarliest, SlEnd, SlPadded
<1> QED
  BY <1>1 DEF SlFreeSlots

LEMMA SlotsStepInv == SlInv /\ [SlotsNext]_slotsVars => SlInv'
<1> SUFFICES ASSUME SlInv, [SlotsNext]_slotsVars PROVE SlInv'
  OBVIOUS
<1> USE DEF SlInv, SlotsTypeOK
<1>1. CASE SlAvailability
  <2>1. SlFreeSlots(slBusy, slNow, slOffered') /\ slAt' = slNow /\ slSeen' = slBusy
        /\ UNCHANGED <<slRules, slAsk>>
    BY <1>1 DEF SlAvailability
  <2>2. SlFitting(slSeen, slAt)' = SlFitting(slBusy, slNow)
    BY <2>1 DEF SlFitting, SlWalk, SlWindow, SlGrid, SlStep, SlEarliest, SlEnd, SlPadded
  <2>3. SlFreeSlots(slSeen, slAt, slOffered)'
    BY <2>1, <2>2 DEF SlFreeSlots
  <2>4. slOffered' \subseteq SlTimes
    BY <2>1, FittingAreTimes DEF SlFreeSlots
  <2> QED
    BY <1>1, <2>1, <2>3, <2>4 DEF SlAvailability, SlUnbooked, SlNone
<1>2. ASSUME NEW s \in SlTimes, SlBook(s) \/ SlReschedule(s) PROVE SlInv'
  <2>1. slAt # SlNone => SlFreeSlots(slSeen, slAt, slOffered)'
    BY <1>2, OffersStand DEF SlBook, SlReschedule
  <2>2. /\ slBooking' \in [start: SlTimes \cup {SlNone}, moved: BOOLEAN]
        /\ slBooking'.start = s
        /\ SlBook(s) \/ slBooking'.moved = TRUE
    <3>1. \/ slBooking' = [start |-> s, moved |-> FALSE] /\ SlBook(s)
          \/ slBooking' = [start |-> s, moved |-> TRUE]
      BY <1>2 DEF SlBook, SlReschedule
    <3>2. ASSUME NEW m \in BOOLEAN, slBooking' = [start |-> s, moved |-> m]
          PROVE  /\ slBooking' \in [start: SlTimes \cup {SlNone}, moved: BOOLEAN]
                 /\ slBooking'.start = s /\ slBooking'.moved = m
      BY <3>2
    <3> QED
      BY <3>1, <3>2
  <2>3. ~slRules.any => \/ s >= SlOpen /\ s + slRules.length <= SlClose
                        \/ slBooking'.moved = TRUE /\ ~slRules.service
    BY <1>2, <2>2 DEF SlBook, SlReschedule, SlAllowed
  <2> QED
    BY <1>2, <2>1, <2>2, <2>3 DEF SlBook, SlReschedule, SlUnbooked
<1>3. ASSUME NEW b \in SlEvents, SlEvent(b) PROVE SlInv'
  <2>1. slAt # SlNone => SlFreeSlots(slSeen, slAt, slOffered)'
    BY <1>3, OffersStand DEF SlEvent
  <2> QED
    BY <1>3, <2>1 DEF SlEvent, SlUnbooked
<1>4. CASE SlTick
  <2>1. slAt # SlNone => SlFreeSlots(slSeen, slAt, slOffered)'
    BY <1>4, OffersStand DEF SlTick
  <2>2. slNow' \in Nat /\ slNow' >= slNow
    BY <1>4 DEF SlTick
  <2> QED
    BY <1>4, <2>1, <2>2 DEF SlTick, SlUnbooked, SlNone
<1>5. CASE UNCHANGED slotsVars
  <2>1. slAt # SlNone => SlFreeSlots(slSeen, slAt, slOffered)'
    BY <1>5, OffersStand DEF slotsVars
  <2> QED
    BY <1>5, <2>1 DEF slotsVars, SlUnbooked
<1> QED
  BY <1>1, <1>2, <1>3, <1>4, <1>5 DEF SlotsNext

\* The rules, one by one.
LEMMA RulesType ==
  ASSUME SlInv
  PROVE  /\ slRules.length \in {1, 2} /\ slRules.slot \in {1, 2} /\ slRules.align \in {0, 2}
         /\ slRules.pad \in {0, 1} /\ slRules.notice \in {0, 1} /\ slRules.ahead \in Int
         /\ slRules.any \in BOOLEAN /\ slAsk[1] \in Int /\ slAsk[2] \in Int
  BY DEF SlInv, SlotsTypeOK, SlRules, SlTimes

\* _align finds the first point of the grid that is not before a time.
LEMMA AlignIsNext ==
  ASSUME NEW t \in Int
  PROVE  /\ SlAlign(t, 0) = t
         /\ SlAlign(t, 2) \in Int /\ SlAlign(t, 2) >= t /\ SlAlign(t, 2) % 2 = 0
         /\ \A s \in Int : SlAlign(s, 2) = s <=> s % 2 = 0
         /\ \A s \in Int : s >= t /\ s % 2 = 0 => s >= SlAlign(t, 2)
  BY DEF SlAlign

LEMMA EvenSteps ==
  ASSUME NEW s \in Int, NEW t \in Int, t % 2 = 0
  PROVE  (s - t) % 2 = 0 <=> s % 2 = 0
  OBVIOUS

\* Every start that is offered is allowed while its notice runs, and lies clear of the
\* events of then that show in the period asked for.
LEMMA OfferedIsAllowed ==
  ASSUME SlInv, NEW s \in slOffered, slNow + (IF slRules.any THEN 0 ELSE slRules.notice) <= s
  PROVE  SlAllowed(s, slRules.length, slNow)
<1>1. /\ slAt # SlNone /\ slAt \in Nat /\ slAt <= slNow /\ slNow \in Nat
      /\ s \in SlFitting(slSeen, slAt) /\ s \in Int
  BY DEF SlInv, SlotsTypeOK, SlTimes, SlFreeSlots
<1> DEFINE t == SlLater(SlWindow[1], SlEarliest(slAt))
           first == SlAlign(t, SlGrid)
<1>2. /\ s >= first /\ (s - first) % SlStep = 0
      /\ s + slRules.length <= SlSooner(SlWindow[2], SlEnd(slAt))
  BY <1>1 DEF SlFitting, SlWalk
<1>3. CASE slRules.any
  BY <1>1, <1>3, RulesType DEF SlAllowed
<1>4. CASE ~slRules.any
  <2>1. t \in Int /\ t >= SlOpen
    BY <1>1, <1>4, RulesType DEF SlLater, SlWindow, SlEarliest
  <2>2. SlGrid = slRules.align /\ SlGrid \in {0, 2}
    BY <1>4, RulesType DEF SlGrid
  <2>3. s >= SlOpen /\ SlAlign(s, SlGrid) = s
    <3> HIDE DEF t
    <3>1. CASE SlGrid = 0
      BY <1>1, <1>2, <2>1, <3>1, AlignIsNext
    <3>2. CASE SlGrid = 2
      <4>1. SlStep = 2
        BY <3>2 DEF SlStep
      <4>2. first \in Int /\ first >= t /\ first % 2 = 0
        BY <2>1, <3>2, AlignIsNext
      <4>3. s % 2 = 0
        BY <1>1, <1>2, <4>1, <4>2, EvenSteps
      <4> HIDE DEF first
      <4> QED
        BY <1>1, <1>2, <2>1, <3>2, <4>2, <4>3, AlignIsNext
    <3> QED
      BY <2>2, <3>1, <3>2
  <2>4. s + slRules.length <= SlClose /\ s + slRules.length <= slAt + slRules.ahead
    BY <1>1, <1>2, <1>4, RulesType DEF SlSooner, SlWindow, SlEnd
  <2> QED
    BY <1>1, <1>4, <2>2, <2>3, <2>4, RulesType DEF SlAllowed
<1> QED
  BY <1>3, <1>4, RulesType

LEMMA OfferedIsFree ==
  ASSUME SlInv, NEW s \in slOffered, slBusy = slSeen, \A b \in slBusy : SlOverlaps(b, slAsk)
  PROVE  SlFree(slBusy, s, slRules.length)
<1>1. s \in SlFitting(slSeen, slAt)
  BY DEF SlInv, SlFreeSlots
<1>2. slAsk = <<slAsk[1], slAsk[2]>>
  BY DEF SlInv, SlotsTypeOK
<1> QED
  BY <1>1, <1>2 DEF SlFitting, SlFree, SlBusyIn

LEMMA TakenIsOffered ==
  ASSUME SlInv, slAt = slNow, slBusy = slSeen,
         NEW s \in SlTimes, SlTaken(s), SlConsidered(s)
  PROVE  \/ s \in slOffered
         \/ Cardinality(slOffered) = SlLimit /\ \A t \in slOffered : t < s
<1>1. /\ slNow \in Nat /\ s \in Int
      /\ SlFreeSlots(slBusy, slNow, slOffered)
  BY DEF SlInv, SlotsTypeOK, SlTimes, SlNone
<1> DEFINE t == SlLater(SlWindow[1], SlEarliest(slNow))
<1>2. s \in SlWalk(slNow)
  <2>1. CASE SlGrid = 0
    BY <2>1 DEF SlConsidered
  <2>2. CASE SlGrid # 0
    <3>1. ~slRules.any /\ slRules.align = 2 /\ SlGrid = 2 /\ SlStep = 2
      BY <2>2, RulesType DEF SlGrid, SlStep
    <3>2. t \in Int /\ s >= t
      BY <1>1, <3>1, RulesType DEF SlLater, SlWindow, SlEarliest, SlTaken, SlAllowed, SlConsidered
    <3>3. SlAlign(s, 2) = s
      BY <3>1 DEF SlTaken, SlAllowed
    <3> HIDE DEF t
    <3>4. s % 2 = 0
      BY <1>1, <3>3, AlignIsNext
    <3>5. s >= SlAlign(t, 2) /\ SlAlign(t, 2) \in Int /\ SlAlign(t, 2) % 2 = 0
      BY <1>1, <3>2, <3>4, AlignIsNext
    <3>6. (s - SlAlign(t, 2)) % 2 = 0
      BY <1>1, <3>4, <3>5, EvenSteps
    <3> QED
      BY <3>1, <3>5, <3>6 DEF SlWalk, t
  <2> QED
    BY <2>1, <2>2
<1>3. s + slRules.length <= SlSooner(SlWindow[2], SlEnd(slNow))
  BY <1>1, RulesType DEF SlSooner, SlWindow, SlEnd, SlTaken, SlAllowed, SlConsidered
<1>4. \A b \in SlBusyIn(slBusy, slAsk[1], slAsk[2]) : ~SlOverlaps(SlPadded(s, slRules.length), b)
  <2> SUFFICES ASSUME NEW b \in slBusy, SlOverlaps(SlPadded(s, slRules.length), b) PROVE FALSE
    BY DEF SlBusyIn
  <2> DEFINE p == SlPadded(s, slRules.length)
  <2>1. p = <<p[1], p[2]>>
    BY DEF SlPadded
  <2>2. SlOverlaps(b, p)
    BY DEF SlOverlaps
  <2>3. b \in SlBusyIn(slBusy, p[1], p[2])
    BY <2>1, <2>2 DEF SlBusyIn
  <2> QED
    BY <2>3 DEF SlTaken, SlFree
<1>5. s \in SlFitting(slBusy, slNow)
  BY <1>2, <1>3, <1>4 DEF SlFitting
<1> QED
  BY <1>1, <1>5 DEF SlFreeSlots

LEMMA SlotsInvAgree == SlInv => SlotsAgree
<1> SUFFICES ASSUME SlInv PROVE SlotsAgree
  OBVIOUS
<1>1. ASSUME NEW s \in slOffered,
             ~(s < slNow + (IF slRules.any THEN 0 ELSE slRules.notice)),
             ~(slBusy # slSeen \/ \E b \in slBusy : ~SlOverlaps(b, slAsk))
      PROVE  SlTaken(s)
  <2>1. slNow + (IF slRules.any THEN 0 ELSE slRules.notice) <= s
    BY <1>1, RulesType DEF SlInv, SlotsTypeOK, SlTimes
  <2> QED
    BY <1>1, <2>1, OfferedIsAllowed, OfferedIsFree DEF SlTaken
<1> QED
  BY <1>1, TakenIsOffered DEF SlotsAgree, SlInv

LEMMA SlotsAlwaysInv == SlotsSpec => []SlInv
  BY SlotsInitInv, SlotsStepInv, PTL DEF SlotsSpec

\* Types, for any day, hours and clock.
THEOREM SlotsTypeCorrect == SlotsSpec => []SlotsTypeOK
<1>1. SlInv => SlotsTypeOK
  BY DEF SlInv
<1> QED
  BY <1>1, SlotsAlwaysInv, PTL

\* availability and book agree, for any day, hours, limit and clock: free_slots walks
\* over the day as slot_allowed and _free look at one start.
THEOREM SlotsAlwaysAgree == SlotsSpec => []SlotsAgree
  BY SlotsInvAgree, SlotsAlwaysInv, PTL

================================================================================
