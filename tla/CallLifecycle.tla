----------------------------- MODULE CallLifecycle -----------------------------
(* What the dialler promises of an outbound call, whoever works on it: it goes    *)
(* from the queue to the line and back, one attempt at a time and at most         *)
(* MaxAttempts of them, until it is finished, and then nothing moves it.  The one *)
(* thing that breaks a call's course is a save of an outdated copy of it, and     *)
(* even that leaves no call in the queue without an attempt to spend, and none on *)
(* the line without one.                                                          *)
EXTENDS Integers

CONSTANTS
  Jobs,
  Deadlined,
  MaxAttempts

VARIABLES
  status,
  tries,     \* attempts recorded
  outdated   \* jobs somebody may still save an outdated copy of

lifecycle == <<status, tries, outdated>>

InQueue == {"scheduled", "retry"}
OnLine  == {"dialing", "in_progress"}
Over    == {"completed", "exhausted", "suppressed", "cancelled", "failed"}

LifecycleInit ==
  /\ status \in [Jobs -> {"absent", "scheduled"}]
  /\ tries = [j \in Jobs |-> 0]
  /\ outdated = {}

Becomes(j, s, n) ==
  /\ status' = [status EXCEPT ![j] = s]
  /\ tries' = [tries EXCEPT ![j] = n]

\* After an attempt that reached nobody: again, or given up, which is early only
\* for a job whose next window lies beyond its deadline.
Unanswered(j, n) ==
  \E s \in {"retry", "exhausted"} :
    /\ s = "retry" => n < MaxAttempts
    /\ s = "exhausted" => n >= MaxAttempts \/ j \in Deadlined
    /\ Becomes(j, s, n)

Entered(j) ==
  /\ status[j] = "absent"
  /\ \E s \in {"scheduled", "cancelled", "suppressed"} : Becomes(j, s, 0)

Withdrawn(j) ==
  /\ status[j] \in InQueue
  /\ \E s \in {"cancelled", "suppressed", "failed"} : Becomes(j, s, tries[j])

Dialled(j) ==
  /\ status[j] \in InQueue /\ tries[j] < MaxAttempts
  /\ \/ Becomes(j, "dialing", tries[j] + 1)
     \/ Unanswered(j, tries[j] + 1)  \* the dialer raised

Answered(j) ==
  /\ status[j] = "dialing"
  /\ Becomes(j, "in_progress", tries[j])

Ended(j) ==
  /\ status[j] \in OnLine
  /\ Becomes(j, "completed", tries[j]) \/ Unanswered(j, tries[j])

\* An outdated copy is saved, and an earlier course taken up again.
Overwritten(j) ==
  /\ j \in outdated /\ status[j] # "absent"
  /\ \E s \in InQueue \cup OnLine \cup Over, n \in 0..MaxAttempts :
       /\ s \in InQueue => n < MaxAttempts
       /\ s \in OnLine => n > 0
       /\ Becomes(j, s, n)

\* Copies are taken, overtaken and dropped.
Overtaken == UNCHANGED <<status, tries>>

LifecycleNext ==
  \/ Overtaken
  \/ \E j \in Jobs : Entered(j) \/ Withdrawn(j) \/ Dialled(j) \/ Answered(j) \/ Ended(j) \/ Overwritten(j)

LifecycleSpec == LifecycleInit /\ [][LifecycleNext /\ outdated' \subseteq Jobs]_lifecycle
===============================================================================
