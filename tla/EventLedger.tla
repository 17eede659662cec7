----------------------------- MODULE EventLedger -----------------------------
(* What the event path promises of a call's events ("idempotent on event_id"):  *)
(* an event is folded once however often and on whichever way it is delivered,  *)
(* and the work it causes - the analysis of an ended call, the ticket rebuilt   *)
(* from an intake - is done at most once, and only after the fold.  Nothing is  *)
(* promised of order, and nothing of completeness: work may be lost.            *)
EXTENDS Integers

CONSTANTS
  Calls,
  Event    \* records with at least a call and a kind

VARIABLES folded, analysed, rebuilt
ledger == <<folded, analysed, rebuilt>>

LedgerInit ==
  /\ folded = {}
  /\ analysed = [c \in Calls |-> 0]
  /\ rebuilt = [c \in Calls |-> 0]

Folded(c, kind) == \E e \in folded : e.call = c /\ e.kind = kind

LedgerFold ==
  /\ \E e \in Event \ folded : folded' = folded \cup {e}
  /\ UNCHANGED <<analysed, rebuilt>>

LedgerAnalyse(c) ==
  /\ Folded(c, "ended") /\ analysed[c] = 0
  /\ analysed' = [analysed EXCEPT ![c] = 1]
  /\ UNCHANGED <<folded, rebuilt>>

LedgerRebuild(c) ==
  /\ Folded(c, "intake") /\ rebuilt[c] = 0
  /\ rebuilt' = [rebuilt EXCEPT ![c] = 1]
  /\ UNCHANGED <<folded, analysed>>

LedgerNext ==
  \/ LedgerFold
  \/ \E c \in Calls : LedgerAnalyse(c) \/ LedgerRebuild(c)

LedgerSpec == LedgerInit /\ [][LedgerNext]_ledger
===============================================================================
