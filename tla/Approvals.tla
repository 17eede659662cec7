------------------------------- MODULE Approvals -------------------------------
(* An approval of the owner that a call waits for: ApprovalService and its routes  *)
(* (apps/api/parlio_api/live.py, routes/live.py) and the tool of the voice worker   *)
(* that asks and polls (tools.py, request_owner_approval).                         *)
(*                                                                                *)
(* The approval is a document, read by _load, which writes `expired' when its time *)
(* is over, and by decide from the copy its route loaded.  A poll subscribes to the *)
(* hub, reads the document, then listens.  Who is asked, and how, is left out, and  *)
(* so is the mark on the live board, which only shows.                             *)
EXTENDS Integers, Sequences

CONSTANTS
  ApOwners,   \* people, or taps on the link, that open it at the same time
  ApMoves     \* bound: times it is opened, and restarts

ASSUME ApprovalsAssumption == ApMoves \in Nat

VARIABLES
  apDoc,      \* status of the stored approval
  apOver,     \* expires_at has passed
  apDue,      \* the worker's own deadline has passed
  apPc,       \* the worker and its poll
  apTold,     \* what the tool returned
  apHeard,    \* decisions published to the poll's queue
  apOwner,    \* each owner's request
  apWants,    \* and what it decides
  apMoves

\* History, for the properties only.
VARIABLES
  apFresh,    \* processes whose copy nobody has written past
  apTorn,     \* an older copy was written over a newer one
  apUnseen,   \* a decision was saved since the worker last read the document
  apFailed    \* the request or a poll failed

apGhost == <<apFresh, apTorn, apUnseen, apFailed>>
approvalsVars ==
  <<apDoc, apOver, apDue, apPc, apTold, apHeard, apOwner, apWants, apMoves, apGhost>>

ApWorker == "worker"
ApDecisions == {"approved", "rejected"}
ApStatus == {"absent", "pending", "expired"} \cup ApDecisions

ApprovalsInit ==
  /\ apDoc = "absent" /\ apOver = FALSE /\ apDue = FALSE
  /\ apPc = "idle" /\ apTold = "nothing" /\ apHeard = <<>>
  /\ apOwner = [o \in ApOwners |-> "idle"]
  /\ apWants = [o \in ApOwners |-> "pending"]
  /\ apMoves = 0
  /\ apFresh = {} /\ apTorn = FALSE /\ apUnseen = FALSE /\ apFailed = FALSE

-------------------------------------------------------------------------------
(* Helpers.                                                                     *)

\* put_doc by p.
ApPut(p, status) ==
  /\ apDoc' = status
  /\ apTorn' = (apTorn \/ p \notin apFresh)
  /\ apFresh' = {}

\* The tool returns; a status that is still pending has timed out.
ApTell(status) ==
  /\ apPc' = "done"
  /\ apTold' = IF status = "pending" THEN "timed_out" ELSE status
  /\ apHeard' = <<>>

ApOwnerAt(o, next, wants) ==
  /\ apOwner' = [apOwner EXCEPT ![o] = next]
  /\ apWants' = [apWants EXCEPT ![o] = wants]

apWorking == <<apDue, apPc, apTold, apHeard>>
apDeciding == <<apOwner, apWants, apMoves>>

-------------------------------------------------------------------------------
(* request_owner_approval and wait.                                              *)

\* The approval is stored.  The request may fail, stored or not, and then nobody polls.
ApAsk ==
  /\ apPc = "idle"
  /\ \/ apDoc' = "pending" /\ apPc' = "asked" /\ UNCHANGED <<apTold, apFailed>>
     \/ apDoc' \in {"absent", "pending"}
        /\ apPc' = "done" /\ apTold' = "unavailable" /\ apFailed' = TRUE
  /\ UNCHANGED <<apOver, apDue, apHeard, apDeciding, apFresh, apTorn, apUnseen>>

\* A poll begins, with a subscription to the hub, as long as there is time.
ApPoll ==
  /\ apPc = "asked"
  /\ IF apDue THEN ApTell("pending") ELSE apPc' = "look" /\ UNCHANGED <<apTold, apHeard>>
  /\ UNCHANGED <<apDoc, apOver, apDue, apDeciding, apGhost>>

\* get, through _load.
ApLook ==
  /\ apPc = "look"
  /\ apUnseen' = FALSE
  /\ IF apDoc # "pending" THEN ApTell(apDoc) /\ UNCHANGED apFresh
     ELSE /\ apPc' = IF apOver THEN "expire" ELSE "listen"
          /\ apFresh' = apFresh \cup {ApWorker}
          /\ UNCHANGED <<apTold, apHeard>>
  /\ UNCHANGED <<apDoc, apOver, apDue, apDeciding, apTorn, apFailed>>

\* _load saves that it is over.
ApExpire ==
  /\ apPc = "expire"
  /\ ApPut(ApWorker, "expired")
  /\ ApTell("expired")
  /\ UNCHANGED <<apOver, apDue, apDeciding, apUnseen, apFailed>>

\* A decision was published.
ApHear ==
  /\ apPc = "listen" /\ apHeard # <<>>
  /\ ApTell(Head(apHeard))
  /\ UNCHANGED <<apDoc, apOver, apDue, apDeciding, apGhost>>

\* Nothing heard for five seconds: it reads again.  Or the wait of this poll is over,
\* and the next one begins.
ApListenOn ==
  /\ apPc = "listen"
  /\ \/ apPc' = "look" /\ apHeard = <<>>
     \/ apPc' = "asked"
  /\ apHeard' = <<>>
  /\ UNCHANGED <<apDoc, apOver, apDue, apTold, apDeciding, apGhost>>

\* A poll fails: the tool gives up.
ApPollFails ==
  /\ apPc \in {"look", "expire", "listen"}
  /\ ApTell("pending")
  /\ apFailed' = TRUE
  /\ UNCHANGED <<apDoc, apOver, apDue, apDeciding, apFresh, apTorn, apUnseen>>

-------------------------------------------------------------------------------
(* The owner: the route loads the approval, decide checks it and saves.          *)

\* Mutant: decide takes an approval that is decided, too.
ApOpenDecided(o) ==
  /\ apOwner[o] = "idle" /\ apDoc \in {"pending"} \cup ApDecisions
  /\ apMoves < ApMoves /\ apMoves' = apMoves + 1
  /\ IF apOver THEN ApOwnerAt(o, "expire", "pending")
     ELSE \E wants \in ApDecisions : ApOwnerAt(o, "decide", wants)
  /\ apFresh' = apFresh \cup {o}
  /\ UNCHANGED <<apDoc, apOver, apWorking, apTorn, apUnseen, apFailed>>

\* Of one that is decided or expired nothing is written.
ApOpen(o) ==
  /\ apOwner[o] = "idle" /\ apDoc = "pending"
  /\ apMoves < ApMoves /\ apMoves' = apMoves + 1
  /\ IF apOver THEN ApOwnerAt(o, "expire", "pending")
     ELSE \E wants \in ApDecisions : ApOwnerAt(o, "decide", wants)
  /\ apFresh' = apFresh \cup {o}
  /\ UNCHANGED <<apDoc, apOver, apWorking, apTorn, apUnseen, apFailed>>

ApDecide(o) ==
  /\ apOwner[o] = "decide"
  /\ ApPut(o, apWants[o])
  /\ apUnseen' = TRUE
  /\ ApOwnerAt(o, "publish", apWants[o])
  /\ UNCHANGED <<apOver, apWorking, apMoves, apFailed>>

\* Whoever listens hears of it.
ApPublish(o) ==
  /\ apOwner[o] = "publish"
  /\ apHeard' = IF apPc \in {"look", "expire", "listen"} THEN Append(apHeard, apWants[o]) ELSE apHeard
  /\ ApOwnerAt(o, "idle", "pending")
  /\ UNCHANGED <<apDoc, apOver, apDue, apPc, apTold, apMoves, apGhost>>

ApOwnerExpires(o) ==
  /\ apOwner[o] = "expire"
  /\ ApPut(o, "expired")
  /\ ApOwnerAt(o, "idle", "pending")
  /\ UNCHANGED <<apOver, apWorking, apMoves, apUnseen, apFailed>>

-------------------------------------------------------------------------------
(* Time, and restarts.  The assistant finishes a sentence between asking and its   *)
(* own deadline, so either of the two may come first.                             *)

ApTime ==
  /\ apDoc # "absent"
  /\ \/ ~apOver /\ apOver' = TRUE /\ UNCHANGED apDue
     \/ ~apDue /\ apDue' = TRUE /\ UNCHANGED apOver
  /\ UNCHANGED <<apDoc, apPc, apTold, apHeard, apDeciding, apGhost>>

\* The API process stops: requests and polls are gone.
ApRestart ==
  /\ apMoves < ApMoves /\ apMoves' = apMoves + 1
  /\ IF apPc \in {"look", "expire", "listen"}
     THEN ApTell("pending") /\ apFailed' = TRUE
     ELSE UNCHANGED <<apPc, apTold, apHeard, apFailed>>
  /\ apOwner' = [o \in ApOwners |-> "idle"]
  /\ apWants' = [o \in ApOwners |-> "pending"]
  /\ apFresh' = {}
  /\ UNCHANGED <<apDoc, apOver, apDue, apTorn, apUnseen>>

ApprovalsNext ==
  \/ ApAsk \/ ApPoll \/ ApLook \/ ApExpire \/ ApHear \/ ApListenOn \/ ApPollFails
  \/ \E o \in ApOwners : ApOpen(o) \/ ApDecide(o) \/ ApPublish(o) \/ ApOwnerExpires(o)
  \/ ApTime \/ ApRestart

ApprovalsSpec == ApprovalsInit /\ [][ApprovalsNext]_approvalsVars

-------------------------------------------------------------------------------
(* Properties.                                                                  *)

ApprovalsTypeOK ==
  /\ apDoc \in ApStatus
  /\ apOver \in BOOLEAN /\ apDue \in BOOLEAN
  /\ apPc \in {"idle", "asked", "look", "expire", "listen", "done"}
  /\ apTold \in {"nothing", "timed_out", "unavailable", "expired"} \cup ApDecisions
  /\ apHeard \in Seq(ApDecisions)
  /\ apOwner \in [ApOwners -> {"idle", "decide", "publish", "expire"}]
  /\ apWants \in [ApOwners -> {"pending"} \cup ApDecisions]
  /\ apMoves \in Nat
  /\ apFresh \subseteq ApOwners \cup {ApWorker}
  /\ apTorn \in BOOLEAN /\ apUnseen \in BOOLEAN /\ apFailed \in BOOLEAN

\* What the caller is told of the owner's answer is what the record says, and goes
\* on saying, whatever else is tapped later; and a caller is told that nobody
\* answered although somebody has only when the answer was saved after the last
\* time the tool read the approval, or a request of the tool failed.  Out of this:
\* two answers, or an answer and the expiry, that were loaded side by side (decide,
\* _load, wait).
ApprovalStands ==
  ~apTorn =>
    /\ apTold \in ApDecisions \cup {"expired"} => apDoc = apTold
    /\ apTold = "timed_out" /\ apDoc \in ApDecisions => apUnseen \/ apFailed
===============================================================================
