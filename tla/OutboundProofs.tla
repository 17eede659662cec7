---------------------------- MODULE OutboundProofs ----------------------------
(* Proofs about Outbound, for any jobs, numbers, processes and bounds. *)
EXTENDS Outbound, FiniteSetTheorems, TLAPS

Working == {"gate", "count", "dial", "save", "save_after", "save_opt_out",
            "after", "opt_out", "list", "suppress"}

\* A process that works on a job knows which.
CurOK == \A p \in Proc : pc[p] \in Working => cur[p] \in Jobs

Typed == TypeOK /\ CurOK

-------------------------------------------------------------------------------
(* Faults. *)

LEMMA Stops ==
  Restart \/ (\E p \in Fallible : Raise(p)) => \E ps \in SUBSET Proc : Stop(ps)
<1>1. Restart => Stop(Proc) /\ Proc \in SUBSET Proc
  BY DEF Restart
<1>2. ASSUME NEW p \in Fallible, Raise(p) PROVE Stop({p}) /\ {p} \in SUBSET Proc
  BY <1>2, OutboundAssumption DEF Raise, Proc
<1> QED
  BY <1>1, <1>2

LEMMA FailsTyped ==
  ASSUME Typed, NEW cut \in SUBSET (Jobs \X FollowUps), Fails(cut)
  PROVE  faults' \in Seq(SUBSET (Jobs \X FollowUps)) /\ Len(faults') <= MaxFaults
<1>1. faults \in Seq(SUBSET (Jobs \X FollowUps)) /\ MaxFaults \in Nat
  BY OutboundAssumption DEF Typed, TypeOK
<1>2. faults' \in Seq(SUBSET (Jobs \X FollowUps)) /\ Len(faults') = Len(faults) + 1
  BY <1>1 DEF Fails
<1> QED
  BY <1>1, <1>2 DEF Fails

LEMMA OwedType ==
  ASSUME Typed, NEW p \in Proc
  PROVE  Owed(p) \subseteq Jobs \X FollowUps
<1>1. CASE pc[p] \in {"save_opt_out", "opt_out", "save_after", "after"}
  <2>1. cur[p] \in Jobs
    BY <1>1 DEF Typed, CurOK, Working
  <2> QED
    BY <2>1 DEF Owed, FollowUps
<1>2. CASE pc[p] \notin {"save_opt_out", "opt_out", "save_after", "after"}
  BY <1>2 DEF Owed, FollowUps
<1> QED
  BY <1>1, <1>2

\* Those that stop have nothing in hand, the others go on.
LEMMA StopFrame ==
  ASSUME Typed, NEW ps \in SUBSET Proc, Stop(ps)
  PROVE  /\ UNCHANGED <<doc, dials, raised>> /\ torn \subseteq torn'
         /\ \A p \in ps : /\ pc'[p] = "idle"
                        /\ \A j \in Jobs : held'[p][j] = Absent /\ <<p, j>> \notin fresh'
         /\ \A p \in Proc \ ps :
              /\ pc'[p] = pc[p] /\ cur'[p] = cur[p] /\ held'[p] = held[p]
              /\ \A j \in Jobs : <<p, j>> \in fresh' <=> <<p, j>> \in fresh
<1>1. UNCHANGED <<doc, dials, raised>> /\ torn \subseteq torn'
  BY DEF Stop, store, world
<1>2. \A p \in ps : pc'[p] = "idle" /\ \A j \in Jobs : held'[p][j] = Absent
  BY DEF Stop
<1>3. \A p \in Proc \ ps : pc'[p] = pc[p] /\ cur'[p] = cur[p] /\ held'[p] = held[p]
  BY DEF Stop
<1>4. \A p \in Proc, j \in Jobs : <<p, j>> \in fresh' <=> <<p, j>> \in fresh /\ p \notin ps
  BY DEF Stop
<1> QED
  BY <1>1, <1>2, <1>3, <1>4

-------------------------------------------------------------------------------
(* What the helpers on documents return. *)

LEMMA AbsentType == Absent \in Job /\ Queued \in Job
<1>1. <<>> \in Seq(Attempt)
  OBVIOUS
<1>2. Absent \in Job
  BY <1>1 DEF Absent, Job, Status
<1>3. Queued \in Job
  BY <1>2 DEF Queued, Job, Status, Waiting
<1> QED
  BY <1>2, <1>3

LEMMA EditType ==
  ASSUME NEW job \in Job, NEW s \in Status, NEW d \in BOOLEAN
  PROVE  [job EXCEPT !.status = s, !.due = d] \in Job
  BY DEF Job

LEMMA EditDueType ==
  ASSUME NEW job \in Job, NEW d \in BOOLEAN
  PROVE  [job EXCEPT !.due = d] \in Job
  BY DEF Job

\* Recording an outcome on the last attempt changes neither the number of
\* attempts, nor the status, nor whether the last one was called.
LEMMA WithLastType ==
  ASSUME NEW job \in Job, NEW o \in Outcome
  PROVE  /\ WithLast(job, o) \in Job
         /\ WithLast(job, o).status = job.status
         /\ Len(WithLast(job, o).attempts) = Len(job.attempts)
         /\ job.attempts # <<>> =>
              /\ WithLast(job, o).attempts # <<>>
              /\ WithLast(job, o).attempts[Len(job.attempts)].called
                   = job.attempts[Len(job.attempts)].called
<1>1. CASE job.attempts = <<>>
  BY <1>1 DEF WithLast
<1>2. CASE job.attempts # <<>>
  <2> DEFINE n == Len(job.attempts)
             new == [job.attempts EXCEPT ![n].outcome = o]
  <2>1. n \in Nat /\ n \in 1..n /\ job.attempts \in Seq(Attempt) /\ job.attempts[n] \in Attempt
    BY <1>2 DEF Job
  <2>2. new \in Seq(Attempt) /\ Len(new) = n /\ new # <<>> /\ new[n].called = job.attempts[n].called
    BY <2>1 DEF Attempt
  <2>3. WithLast(job, o) = [job EXCEPT !.attempts = new]
    BY <1>2 DEF WithLast
  <2> QED
    BY <2>2, <2>3 DEF Job
<1> QED
  BY <1>1, <1>2

\* A new attempt is the last one and keeps the status.
LEMMA WithAttemptType ==
  ASSUME NEW job \in Job, NEW o \in Outcome, NEW called \in BOOLEAN
  PROVE  /\ WithAttempt(job, o, called) \in Job
         /\ WithAttempt(job, o, called).status = job.status
         /\ Len(WithAttempt(job, o, called).attempts) = Len(job.attempts) + 1
         /\ WithAttempt(job, o, called).attempts[Len(job.attempts) + 1].called = called
<1> DEFINE a == [outcome |-> o, called |-> called]
           new == Append(job.attempts, a)
<1>1. a \in Attempt /\ job.attempts \in Seq(Attempt)
  BY DEF Attempt, Job
<1>2. new \in Seq(Attempt) /\ Len(new) = Len(job.attempts) + 1 /\ new[Len(job.attempts) + 1] = a
  BY <1>1
<1>3. WithAttempt(job, o, called) = [job EXCEPT !.attempts = new, !.due = FALSE]
  BY DEF WithAttempt
<1>4. /\ WithAttempt(job, o, called).status = job.status
      /\ WithAttempt(job, o, called).attempts = new
      /\ WithAttempt(job, o, called) \in Job
  BY <1>2, <1>3 DEF Job
<1> QED
  BY <1>2, <1>4

\* After an attempt a job waits only if it has an attempt left.
LEMMA AfterAttemptType ==
  ASSUME NEW j \in Jobs, NEW call \in Job, NEW o \in Outcome,
         NEW job \in AfterAttempt(j, call, o)
  PROVE  /\ job \in Job
         /\ job.attempts = call.attempts
         /\ job.status \in {"retry", "exhausted", "completed"}
         /\ job.status = "retry" => Len(job.attempts) < MaxAttempts
  BY DEF AfterAttempt, AfterStatus, Job, Status, Waiting, Live, Final

-------------------------------------------------------------------------------
(* What the helpers on a process's local state and on the store leave behind.   *)

LocalOK ==
  /\ pc \in [Proc -> PC]
  /\ cur \in [Proc -> Jobs \cup {NoJob}]
  /\ held \in [Proc -> [Jobs -> Job]]
  /\ CurOK

LEMMA MineType ==
  ASSUME Typed, NEW p \in Proc, cur[p] \in Jobs
  PROVE  Mine(p) \in Job
  BY DEF Mine, Typed, TypeOK

LEMMA TakeTyped ==
  ASSUME Typed, NEW p \in Proc, NEW j \in Jobs, NEW job \in Job, NEW next \in PC,
         Take(p, j, job, next)
  PROVE  LocalOK' /\ fresh' \subseteq Proc \X Jobs
  BY DEF Take, Typed, TypeOK, LocalOK, CurOK

LEMMA ListTyped ==
  ASSUME Typed, NEW p \in Proc, NEW js \in SUBSET Jobs, NEW next \in PC, List(p, js, next)
  PROVE  /\ pc' \in [Proc -> PC]
         /\ held' \in [Proc -> [Jobs -> Job]]
         /\ fresh' \subseteq Proc \X Jobs
         /\ \A q \in Proc : q # p => pc'[q] = pc[q]
         /\ pc'[p] = next
  BY AbsentType DEF List, Typed, TypeOK

LEMMA ChangeTyped ==
  ASSUME Typed, NEW p \in Proc, cur[p] \in Jobs, NEW job \in Job, NEW next \in PC,
         Change(p, job, next), UNCHANGED cur
  PROVE  LocalOK'
  BY DEF Change, Typed, TypeOK, LocalOK, CurOK

LEMMA LeaveTyped ==
  ASSUME Typed, NEW p \in Proc, cur[p] \in Jobs, Leave(p)
  PROVE  LocalOK'
  BY AbsentType DEF Leave, Typed, TypeOK, LocalOK, CurOK, Working, PC

LEMMA WriteTyped ==
  ASSUME Typed, NEW p \in Proc, NEW j \in Jobs, NEW job \in Job, Write(p, j, job)
  PROVE  /\ doc' \in [Jobs -> Job]
         /\ torn' \subseteq Jobs
         /\ fresh' \subseteq Proc \X Jobs
  BY DEF Write, Typed, TypeOK

LEMMA InflightFinite ==
  ASSUME NEW ph
  PROVE  Cardinality(Inflight(ph)) \in Nat
<1>1. IsFiniteSet(Dispatchers)
  BY OutboundAssumption, FS_EmptySet, FS_AddElement, FS_Union, FS_Singleton DEF Dispatchers
<1> QED
  BY <1>1, FS_Subset, FS_CardinalityType DEF Inflight

LEMMA ListNumberTyped ==
  ASSUME Typed, NEW p \in Proc, NEW ph \in Phones, ListNumber(p, ph)
  PROVE  dnc' \subseteq Phones /\ grace' \in [Phones -> Int]
  BY InflightFinite DEF ListNumber, Typed, TypeOK

LEMMA PlaceCallTyped ==
  ASSUME Typed, NEW p \in Dispatchers, cur[p] \in Jobs, PlaceCall(p)
  PROVE  /\ dials' \in Seq(Dial)
         /\ DOMAIN dials \subseteq DOMAIN dials'
         /\ grace' \in [Phones -> Int]
<1>1. [job |-> cur[p], by |-> p, state |-> "placed"] \in Dial
  BY DEF Dial, CallStates
<1>2. PhoneOf[cur[p]] \in Phones
  BY OutboundAssumption
<1>3. dials \in Seq(Dial) /\ grace \in [Phones -> Int]
  BY DEF Typed, TypeOK
<1> QED
  BY <1>1, <1>2, <1>3 DEF PlaceCall

-------------------------------------------------------------------------------
LEMMA InitTyped == Init => Typed
  BY AbsentType, OutboundAssumption DEF Init, Typed, TypeOK, CurOK, Working, PC, Dial, Message
LEMMA LastOutcomeType ==
  ASSUME NEW job \in Job
  PROVE  LastOutcome(job) \in Outcome
<1>1. CASE job.attempts = <<>>
  BY <1>1 DEF LastOutcome, Outcome
<1>2. CASE job.attempts # <<>>
  <2>1. job.attempts \in Seq(Attempt) /\ Len(job.attempts) \in 1..Len(job.attempts)
    BY <1>2 DEF Job
  <2>2. job.attempts[Len(job.attempts)] \in Attempt
    BY <2>1
  <2> QED
    BY <1>2, <2>2 DEF LastOutcome, Attempt
<1> QED
  BY <1>1, <1>2

LEMMA DialType ==
  ASSUME Typed, NEW k \in DOMAIN dials
  PROVE  dials[k].job \in Jobs
<1>1. dials \in Seq(Dial)
  BY DEF Typed, TypeOK
<1>2. dials[k] \in Dial
  BY <1>1
<1> QED
  BY <1>2 DEF Dial

\* A message is about a call that was placed, and so about a job.
LEMMA MessageType ==
  ASSUME Typed, NEW m \in inbox
  PROVE  /\ m \in Message /\ m.call \in DOMAIN dials
         /\ dials[m.call].job \in Jobs /\ doc[dials[m.call].job] \in Job
<1>1. m \in Message /\ m.call \in DOMAIN dials
  BY DEF Typed, TypeOK
<1>2. dials[m.call].job \in Jobs
  BY <1>1, DialType
<1> QED
  BY <1>1, <1>2 DEF Typed, TypeOK

LEMMA ProgressTyped ==
  ASSUME Typed, NEW k \in DOMAIN dials, NEW from, NEW to \in CallStates,
         NEW ms \in SUBSET Message, \A m \in ms : m.call = k, Progress(k, from, to, ms)
  PROVE  Typed'
<1>1. dials' \in Seq(Dial) /\ DOMAIN dials' = DOMAIN dials
  <2>1. dials[k] \in Dial /\ dials \in Seq(Dial)
    BY DEF Typed, TypeOK
  <2>2. [dials[k] EXCEPT !.state = to] \in Dial
    BY <2>1 DEF Dial
  <2>3. dials' = [dials EXCEPT ![k] = [dials[k] EXCEPT !.state = to]]
    BY DEF Progress
  <2> QED
    BY <2>1, <2>2, <2>3
<1> QED
  BY <1>1 DEF Progress, Typed, TypeOK, CurOK, store, world, local, ghost

LEMMA StepTyped == Typed /\ [Next]_vars => Typed'
<1> SUFFICES ASSUME Typed, [Next]_vars PROVE Typed'
  OBVIOUS
<1>1. ASSUME NEW r \in Requests, NEW j \in Jobs, Schedule(r, j)
     PROVE  Typed'
  <2>1. r \in Proc
    BY DEF Proc
  <2>2. PICK s \in {"scheduled", "cancelled", "suppressed"}, due \in BOOLEAN :
          Take(r, j, [Absent EXCEPT !.status = s, !.due = due], "save")
    BY <1>1 DEF Schedule
  <2>3. [Absent EXCEPT !.status = s, !.due = due] \in Job
    BY AbsentType DEF Job, Status, Waiting, Final
  <2>4. LocalOK' /\ fresh' \subseteq Proc \X Jobs
    BY <2>1, <2>2, <2>3, TakeTyped DEF PC
  <2> QED
    BY <1>1, <2>1, <2>2, <2>3, <2>4 DEF Schedule, Typed, TypeOK, LocalOK, CurOK, store, world, local, ghost
<1>2. ASSUME NEW r \in Requests, NEW j \in Jobs, Cancel(r, j)
     PROVE  Typed'
  <2>1. r \in Proc
    BY DEF Proc
  <2>2. [doc[j] EXCEPT !.status = "cancelled", !.due = FALSE] \in Job
    BY EditType DEF Typed, TypeOK, Status, Final
  <2>3. LocalOK' /\ fresh' \subseteq Proc \X Jobs
    BY <1>2, <2>1, <2>2, TakeTyped DEF Cancel, PC
  <2> QED
    BY <1>2, <2>1, <2>2, <2>3 DEF Cancel, Typed, TypeOK, LocalOK, CurOK, store, world, local, ghost
<1>3. ASSUME NEW r \in Requests, NEW j \in Jobs, DialNow(r, j)
     PROVE  Typed'
  <2>1. r \in Proc /\ doc[j] \in Job
    BY DEF Proc, Typed, TypeOK
  <2>2. LocalOK' /\ fresh' \subseteq Proc \X Jobs
    BY <1>3, <2>1, TakeTyped DEF DialNow, PC
  <2> QED
    BY <1>3, <2>1, <2>2 DEF DialNow, Typed, TypeOK, LocalOK, CurOK, store, world, local, ghost
<1>4. ASSUME NEW r \in Requests, NEW j \in Jobs, Suppress(r, j)
     PROVE  Typed'
  <2>1. r \in Proc /\ PhoneOf[j] \in Phones
    BY OutboundAssumption DEF Proc
  <2>2. dnc' \subseteq Phones /\ grace' \in [Phones -> Int]
    BY <1>4, <2>1, ListNumberTyped DEF Suppress
  <2> QED
    BY <1>4, <2>1, <2>2 DEF Suppress, PC, Working, Typed, TypeOK, LocalOK, CurOK, store, world, local, ghost
<1>5. ASSUME NEW ph \in Phones, Unsuppress(ph)
     PROVE  Typed'
  <2> QED
    BY <1>5 DEF Unsuppress, Typed, TypeOK, LocalOK, CurOK, store, world, local, ghost
<1>6. ASSUME NEW p \in Proc, ListWaiting(p)
     PROVE  Typed'
  <2>1. cur[p] \in Jobs
    BY <1>6 DEF ListWaiting, Typed, CurOK, Working
  <2>2. PICK js \in SUBSET Jobs : List(p, js, IF js = {} THEN "idle" ELSE "suppress")
    BY <1>6 DEF ListWaiting
  <2>3. /\ pc' \in [Proc -> PC]
        /\ held' \in [Proc -> [Jobs -> Job]]
        /\ fresh' \subseteq Proc \X Jobs
        /\ \A q \in Proc : q # p => pc'[q] = pc[q]
        /\ pc'[p] \in {"idle", "suppress"}
    BY <2>2, ListTyped DEF PC
  <2>4. \/ cur' = cur
        \/ pc'[p] = "idle" /\ cur' = [cur EXCEPT ![p] = NoJob]
    BY <1>6 DEF ListWaiting, List, Typed, TypeOK
  <2>5. cur' \in [Proc -> Jobs \cup {NoJob}] /\ CurOK'
    BY <2>1, <2>3, <2>4 DEF Typed, TypeOK, CurOK, Working
  <2> QED
    BY <1>6, <2>1, <2>2, <2>3, <2>4, <2>5 DEF ListWaiting, Typed, TypeOK, LocalOK, CurOK, store, world, local, ghost
<1>7. ASSUME NEW p \in Proc, NEW j \in Jobs, SuppressJob(p, j)
     PROVE  Typed'
  <2>0. held[p][j] \in Job
    BY DEF Typed, TypeOK
  <2>1. [held[p][j] EXCEPT !.status = "suppressed", !.due = FALSE] \in Job
    BY <2>0, EditType DEF Status, Final
  <2>2. /\ doc' \in [Jobs -> Job]
        /\ torn' \subseteq Jobs
        /\ fresh' \subseteq Proc \X Jobs
    BY <1>7, <2>1, WriteTyped DEF SuppressJob
  <2>3. LocalOK'
    BY <1>7, AbsentType DEF SuppressJob, PC, Working, Typed, TypeOK, LocalOK, CurOK
  <2> QED
    BY <1>7, <2>1, <2>2, <2>3 DEF SuppressJob, Typed, TypeOK, LocalOK, CurOK, store, world, local, ghost
<1>8. ASSUME ListStale
     PROVE  Typed'
  <2>1. PICK js \in SUBSET Jobs : List(Loop, js, "tick")
    BY <1>8 DEF ListStale
  <2>2. /\ pc' \in [Proc -> PC]
        /\ held' \in [Proc -> [Jobs -> Job]]
        /\ fresh' \subseteq Proc \X Jobs
        /\ \A q \in Proc : q # Loop => pc'[q] = pc[q]
        /\ pc'[Loop] = "tick"
    BY <2>1, ListTyped DEF PC, Proc
  <2> QED
    BY <1>8, <2>1, <2>2 DEF ListStale, Working, Typed, TypeOK, LocalOK, CurOK, store, world, local, ghost
<1>9. ASSUME NEW j \in Jobs, ExpireStale(j)
     PROVE  Typed'
  <2>1. Loop \in Proc
    BY DEF Proc
  <2>2. WithLast(held[Loop][j], "no_contact") \in Job
    BY <2>1, WithLastType DEF Outcome, Typed, TypeOK
  <2>3. PICK job \in AfterAttempt(j, WithLast(held[Loop][j], "no_contact"), "no_contact") :
          /\ Write(Loop, j, job)
          /\ held' = [held EXCEPT ![Loop] = [@ EXCEPT ![j] = job]]
    BY <1>9 DEF ExpireStale
  <2>4. job \in Job
    BY <2>2, AfterAttemptType DEF Outcome
  <2>5. /\ doc' \in [Jobs -> Job]
        /\ torn' \subseteq Jobs
        /\ fresh' \subseteq Proc \X Jobs
    BY <2>1, <2>3, <2>4, WriteTyped
  <2> QED
    BY <1>9, <2>1, <2>2, <2>3, <2>4, <2>5 DEF ExpireStale, PC, Typed, TypeOK, LocalOK, CurOK, store, world, local, ghost
<1>10. ASSUME ListDue
     PROVE  Typed'
  <2>1. PICK js \in SUBSET Jobs : List(Loop, js, "tick")
    BY <1>10 DEF ListDue
  <2>2. /\ pc' \in [Proc -> PC]
        /\ held' \in [Proc -> [Jobs -> Job]]
        /\ fresh' \subseteq Proc \X Jobs
        /\ \A q \in Proc : q # Loop => pc'[q] = pc[q]
        /\ pc'[Loop] = "tick"
    BY <2>1, ListTyped DEF PC, Proc
  <2> QED
    BY <1>10, <2>1, <2>2 DEF ListDue, Working, Typed, TypeOK, LocalOK, CurOK, store, world, local, ghost
<1>11. ASSUME NEW p \in Dispatchers, NEW j \in Jobs, Gate(p, j)
     PROVE  Typed'
  <2>1. p \in Proc
    BY DEF Proc, Dispatchers
  <2>2. /\ [held[p][j] EXCEPT !.status = "cancelled", !.due = FALSE] \in Job
        /\ [held[p][j] EXCEPT !.status = "suppressed", !.due = FALSE] \in Job
        /\ [held[p][j] EXCEPT !.due = FALSE] \in Job
    BY <2>1, EditType, EditDueType, ZenonT(40) DEF Typed, TypeOK, Status, Final
  <2>3. cur' = [cur EXCEPT ![p] = j]
    BY <1>11 DEF Gate
  <2>4. PICK next \in {"save", "count", "dial"} : pc' = [pc EXCEPT ![p] = next]
    BY <1>11 DEF Gate
  <2>5. \/ held' = held
        \/ \E job \in Job : held' = [held EXCEPT ![p] = [@ EXCEPT ![j] = job]]
    BY <1>11, <2>2 DEF Gate
  <2>6. held' \in [Proc -> [Jobs -> Job]]
    <3>1. held \in [Proc -> [Jobs -> Job]]
      BY DEF Typed, TypeOK
    <3>2. CASE \E job \in Job : held' = [held EXCEPT ![p] = [@ EXCEPT ![j] = job]]
      BY <2>1, <3>1, <3>2
    <3> QED
      BY <2>5, <3>1, <3>2
  <2>7. pc' \in [Proc -> PC] /\ cur' \in [Proc -> Jobs \cup {NoJob}] /\ CurOK'
    BY <2>1, <2>3, <2>4 DEF PC, Typed, TypeOK, CurOK
  <2> QED
    BY <1>11, <2>1, <2>2, <2>3, <2>4, <2>5, <2>6, <2>7 DEF Gate, Typed, TypeOK, LocalOK, CurOK, store, world, local, ghost
<1>12. ASSUME NEW p \in Dispatchers, Count(p)
     PROVE  Typed'
  <2>1. p \in Proc /\ cur[p] \in Jobs
    BY <1>12 DEF Count, Proc, Dispatchers, Typed, CurOK, Working
  <2>2. [Mine(p) EXCEPT !.due = FALSE] \in Job
    BY <2>1, MineType, EditDueType
  <2>3. LocalOK'
    BY <1>12, <2>1, <2>2, ChangeTyped DEF Count, PC, Typed, TypeOK, LocalOK, CurOK
  <2> QED
    BY <1>12, <2>1, <2>2, <2>3 DEF Count, Typed, TypeOK, LocalOK, CurOK, store, world, local, ghost
<1>13. ASSUME NEW p \in Dispatchers, DialCallee(p)
     PROVE  Typed'
  <2>1. p \in Proc /\ cur[p] \in Jobs
    BY <1>13 DEF DialCallee, Proc, Dispatchers, Typed, CurOK, Working
  <2>2. WithAttempt(Mine(p), "unknown", TRUE) \in Job
    BY <2>1, WithAttemptType DEF Mine, Outcome, Typed, TypeOK
  <2>3. [WithAttempt(Mine(p), "unknown", TRUE) EXCEPT !.status = "dialing"] \in Job
    BY <2>2 DEF Job, Status, Live
  <2>4. LocalOK'
    BY <1>13, <2>1, <2>3, ChangeTyped DEF DialCallee, PC
  <2>5. /\ dials' \in Seq(Dial)
        /\ DOMAIN dials \subseteq DOMAIN dials'
        /\ grace' \in [Phones -> Int]
    BY <1>13, <2>1, PlaceCallTyped DEF DialCallee
  <2> QED
    BY <1>13, <2>1, <2>2, <2>3, <2>4, <2>5 DEF DialCallee, Typed, TypeOK, LocalOK, CurOK, store, world, local, ghost
<1>14. ASSUME NEW p \in Dispatchers, DialFails(p)
     PROVE  Typed'
  <2>1. p \in Proc /\ cur[p] \in Jobs
    BY <1>14 DEF DialFails, Proc, Dispatchers, Typed, CurOK, Working
  <2>2. WithAttempt(Mine(p), "no_contact", FALSE) \in Job
    BY <2>1, WithAttemptType DEF Mine, Outcome, Typed, TypeOK
  <2>3. \A job \in AfterAttempt(cur[p], WithAttempt(Mine(p), "no_contact", FALSE), "no_contact") : job \in Job
    BY <2>1, <2>2, AfterAttemptType DEF Outcome
  <2>4. LocalOK'
    BY <1>14, <2>1, <2>3, ChangeTyped DEF DialFails, PC
  <2>5. /\ dials' \in Seq(Dial)
        /\ DOMAIN dials \subseteq DOMAIN dials'
        /\ grace' \in [Phones -> Int]
        /\ torn' \subseteq Jobs
    BY <1>14, <2>1, PlaceCallTyped DEF DialFails, Typed, TypeOK
  <2> QED
    BY <1>14, <2>1, <2>2, <2>3, <2>4, <2>5 DEF DialFails, Typed, TypeOK, LocalOK, CurOK, store, world, local, ghost
<1>15. ASSUME NEW p \in Dispatchers, AssistantMissing(p)
     PROVE  Typed'
  <2>1. p \in Proc /\ cur[p] \in Jobs
    BY <1>15 DEF AssistantMissing, Proc, Dispatchers, Typed, CurOK, Working
  <2>2. [Mine(p) EXCEPT !.status = "failed", !.due = FALSE] \in Job
    BY <2>1, MineType, EditType DEF Status, Final
  <2>3. LocalOK'
    BY <1>15, <2>1, <2>2, ChangeTyped DEF AssistantMissing, PC
  <2> QED
    BY <1>15, <2>1, <2>2, <2>3 DEF AssistantMissing, Typed, TypeOK, LocalOK, CurOK, store, world, local, ghost
<1>16. ASSUME NEW p \in Proc, Save(p)
     PROVE  Typed'
  <2>1. cur[p] \in Jobs /\ Mine(p) \in Job
    BY <1>16 DEF Save, Mine, Typed, TypeOK, CurOK, Working
  <2>2. /\ doc' \in [Jobs -> Job]
        /\ torn' \subseteq Jobs
        /\ fresh' \subseteq Proc \X Jobs
    BY <1>16, <2>1, WriteTyped DEF Save
  <2>3. LocalOK'
    BY <1>16, <2>1, LeaveTyped DEF Save
  <2> QED
    BY <1>16, <2>1, <2>2, <2>3 DEF Save, Typed, TypeOK, LocalOK, CurOK, store, world, local, ghost
<1>17. ASSUME NEW p \in Proc, SaveThen(p)
     PROVE  Typed'
  <2>1. cur[p] \in Jobs /\ Mine(p) \in Job
    BY <1>17 DEF SaveThen, Mine, Typed, TypeOK, CurOK, Working
  <2>2. /\ doc' \in [Jobs -> Job]
        /\ torn' \subseteq Jobs
        /\ fresh' \subseteq Proc \X Jobs
    BY <1>17, <2>1, WriteTyped DEF SaveThen
  <2>3. LocalOK'
    BY <1>17, <2>1 DEF SaveThen, PC, Typed, TypeOK, LocalOK, CurOK
  <2> QED
    BY <1>17, <2>1, <2>2, <2>3 DEF SaveThen, Typed, TypeOK, LocalOK, CurOK, store, world, local, ghost
<1>18. ASSUME NEW p \in Proc, AfterSave(p)
     PROVE  Typed'
  <2>1. cur[p] \in Jobs
    BY <1>18 DEF AfterSave, Typed, CurOK, Working
  <2>2. LocalOK'
    BY <1>18, <2>1, LeaveTyped DEF AfterSave
  <2>3. raised' \in [Jobs -> 0..2]
    <3>1. raised[cur[p]] \in 0..2
      BY <2>1 DEF Typed, TypeOK
    <3>2. raised[cur[p]] < 2 => raised[cur[p]] + 1 \in 0..2
      BY <3>1
    <3> QED
      BY <1>18, <3>2 DEF AfterSave, Typed, TypeOK
  <2>4. faults' \in Seq(SUBSET (Jobs \X FollowUps)) /\ Len(faults') <= MaxFaults
    BY <1>18, OwedType, FailsTyped DEF AfterSave, Typed, TypeOK
  <2> QED
    BY <1>18, <2>1, <2>2, <2>3, <2>4 DEF AfterSave, Typed, TypeOK, LocalOK, CurOK, store, world, local, ghost
<1>19. ASSUME NEW p \in Proc, OptOut(p)
     PROVE  Typed'
  <2>1. cur[p] \in Jobs /\ PhoneOf[cur[p]] \in Phones
    BY <1>19, OutboundAssumption DEF OptOut, Typed, CurOK, Working
  <2>2. dnc' \subseteq Phones /\ grace' \in [Phones -> Int]
    BY <1>19, <2>1, ListNumberTyped DEF OptOut
  <2> QED
    BY <1>19, <2>1, <2>2 DEF OptOut, PC, Typed, TypeOK, LocalOK, CurOK, store, world, local, ghost
<1>20. ASSUME NEW h \in Handlers, NEW m \in inbox, OnCallStarted(h, m)
     PROVE  Typed'
  <2>1. /\ m \in Message /\ m.call \in DOMAIN dials
        /\ dials[m.call].job \in Jobs /\ doc[dials[m.call].job] \in Job /\ h \in Proc
    BY MessageType DEF Proc
  <2>2. [doc[dials[m.call].job] EXCEPT !.status = "in_progress"] \in Job
    BY <2>1 DEF Job, Status, Live
  <2>3. LocalOK' /\ fresh' \subseteq Proc \X Jobs
    BY <1>20, <2>1, <2>2, TakeTyped DEF OnCallStarted, PC, Typed, TypeOK, LocalOK, CurOK
  <2> QED
    BY <1>20, <2>1, <2>2, <2>3 DEF OnCallStarted, Typed, TypeOK, LocalOK, CurOK, store, world, local, ghost
<1>21. ASSUME NEW h \in Handlers, NEW m \in inbox, OnCallEnded(h, m)
     PROVE  Typed'
  <2>1. /\ m \in Message /\ m.call \in DOMAIN dials
        /\ dials[m.call].job \in Jobs /\ doc[dials[m.call].job] \in Job /\ h \in Proc
    BY MessageType DEF Proc
  <2>2. \A o \in Outcome : WithLast(doc[dials[m.call].job], o) \in Job
    BY <2>1, WithLastType
  <2>3. LastOutcome(doc[dials[m.call].job]) \in Outcome
    BY <2>1, LastOutcomeType
  <2>4. m.outcome \in Outcome
    BY <2>1 DEF Message
  <2>5. \A o \in Outcome, r \in Outcome :
          \A job \in AfterAttempt(dials[m.call].job, WithLast(doc[dials[m.call].job], o), r) : job \in Job
    BY <2>1, <2>2, AfterAttemptType
  <2>6. \/ UNCHANGED <<pc, cur, held, fresh>>
        \/ \E job \in Job : Take(h, dials[m.call].job, job, "save_after")
    BY <1>21, <2>3, <2>4, <2>5 DEF OnCallEnded, Outcome
  <2>7. LocalOK' /\ fresh' \subseteq Proc \X Jobs
    BY <2>1, <2>6, TakeTyped DEF PC, Typed, TypeOK, LocalOK, CurOK
  <2> QED
    BY <1>21, <2>1, <2>2, <2>3, <2>4, <2>5, <2>6, <2>7 DEF OnCallEnded, Typed, TypeOK, LocalOK, CurOK, store, world, local, ghost
<1>22. ASSUME NEW h \in Handlers, NEW m \in inbox, WorkerOutcome(h, m)
     PROVE  Typed'
  <2>1. /\ m \in Message /\ m.call \in DOMAIN dials
        /\ dials[m.call].job \in Jobs /\ doc[dials[m.call].job] \in Job /\ h \in Proc
    BY MessageType DEF Proc
  <2>2. WithLast(doc[dials[m.call].job], m.outcome) \in Job
    BY <2>1, WithLastType DEF Message
  <2>3. LocalOK' /\ fresh' \subseteq Proc \X Jobs
    BY <1>22, <2>1, <2>2, TakeTyped DEF WorkerOutcome, PC
  <2> QED
    BY <1>22, <2>1, <2>2, <2>3 DEF WorkerOutcome, Typed, TypeOK, LocalOK, CurOK, store, world, local, ghost
<1>23. ASSUME NEW k \in DOMAIN dials, StartCall(k)
     PROVE  Typed'
  <2> DEFINE ms == {[kind |-> "started", call |-> k, outcome |-> "unknown"]}
  <2>1. k \in Nat \ {0} /\ ms \in SUBSET Message
    BY DEF Typed, TypeOK, Message, Outcome
  <2> QED
    BY <1>23, <2>1, ProgressTyped DEF StartCall, CallStates
<1>24. ASSUME NEW k \in DOMAIN dials, ReportOutcome(k)
     PROVE  Typed'
  <2>1. PICK o \in Spoken :
          Progress(k, {"up"}, "reported", {[kind |-> "outcome", call |-> k, outcome |-> o]})
    BY <1>24 DEF ReportOutcome
  <2> DEFINE ms == {[kind |-> "outcome", call |-> k, outcome |-> o]}
  <2>2. k \in Nat \ {0} /\ ms \in SUBSET Message
    BY OutboundAssumption DEF Typed, TypeOK, Message, Outcome
  <2> QED
    BY <2>1, <2>2, ProgressTyped DEF CallStates
<1>25. ASSUME NEW k \in DOMAIN dials, EndCall(k)
     PROVE  Typed'
  <2>1. PICK o \in {"no_contact", "unknown"} :
          Progress(k, {"up", "reported"}, "over", {[kind |-> "ended", call |-> k, outcome |-> o]})
    BY <1>25 DEF EndCall
  <2> DEFINE ms == {[kind |-> "ended", call |-> k, outcome |-> o]}
  <2>2. k \in Nat \ {0} /\ ms \in SUBSET Message
    BY DEF Typed, TypeOK, Message, Outcome
  <2> QED
    BY <2>1, <2>2, ProgressTyped DEF CallStates
<1>26. ASSUME NEW j \in Jobs, BecomeDue(j)
     PROVE  Typed'
  <2>1. doc' \in [Jobs -> Job]
    BY <1>26 DEF BecomeDue, Typed, TypeOK, Job
  <2> QED
    BY <1>26, <2>1 DEF BecomeDue, Typed, TypeOK, LocalOK, CurOK, store, world, local, ghost
<1>27. ASSUME NEW j \in Jobs, BecomeStale(j)
     PROVE  Typed'
  <2>1. doc' \in [Jobs -> Job]
    BY <1>27 DEF BecomeStale, Typed, TypeOK, Job
  <2> QED
    BY <1>27, <2>1 DEF BecomeStale, Typed, TypeOK, LocalOK, CurOK, store, world, local, ghost
<1>28. ASSUME NEW j \in Jobs, DeadlinePasses(j)
     PROVE  Typed'
  <2> QED
    BY <1>28 DEF DeadlinePasses, Typed, TypeOK, LocalOK, CurOK, store, world, local, ghost
<1>29. ASSUME NEW ps \in SUBSET Proc, Stop(ps)
     PROVE  Typed'
  <2>1. \A p \in Dispatchers : pc[p] = "save" => cur[p] \in Jobs
    BY DEF Proc, Dispatchers, Typed, CurOK, Working
  <2>2. torn' \subseteq Jobs
    BY <1>29, <2>1 DEF Stop, Typed, TypeOK
  <2>3. faults' \in Seq(SUBSET (Jobs \X FollowUps)) /\ Len(faults') <= MaxFaults
    <3>1. \A p \in ps : Owed(p) \subseteq Jobs \X FollowUps
      BY OwedType
    <3>2. UNION {Owed(p) : p \in ps} \subseteq Jobs \X FollowUps
      BY <3>1
    <3> QED
      BY <1>29, <3>2, FailsTyped DEF Stop
  <2> QED
    BY <1>29, <2>1, <2>2, <2>3, AbsentType DEF Stop, Working, PC, Typed, TypeOK, LocalOK, CurOK, store, world, local, ghost
<1>30. ASSUME UNCHANGED vars
     PROVE  Typed'
  <2> QED
    BY <1>30 DEF vars, Typed, TypeOK, LocalOK, CurOK, store, world, local, ghost
<1> QED
  BY <1>1, <1>2, <1>3, <1>4, <1>5, <1>6, <1>7, <1>8, <1>9, <1>10, <1>11, <1>12, <1>13, <1>14, <1>15, <1>16, <1>17, <1>18, <1>19, <1>20, <1>21, <1>22, <1>23, <1>24, <1>25, <1>26, <1>27, <1>28, <1>29, <1>30, Stops
  DEF Next, Dispatch, Persist, Request, Handle, Worker

\* Every reachable state is well typed, and a process at work has a job.
THEOREM TypedAlways == Spec => []Typed
  BY InitTyped, StepTyped, PTL DEF Spec

THEOREM TypeCorrect == Spec => []TypeOK
  BY TypedAlways, PTL DEF Typed

-------------------------------------------------------------------------------
(* The attempts of a job.  AttemptsWithinLimit and LiveJobHasCall speak of what *)
(* is stored; what keeps them true is that every copy a process holds satisfies *)
(* them as well, and that a process about to dial holds a job that waits.       *)

JobOK(job) ==
  /\ Len(job.attempts) <= MaxAttempts
  /\ job.status \in Waiting => Len(job.attempts) < MaxAttempts
  /\ job.status \in Live =>
       /\ job.attempts # <<>>
       /\ job.attempts[Len(job.attempts)].called

AboutToDial == {"gate", "count", "dial"}

StoredOK   == \A j \in Jobs : JobOK(doc[j])
CopiesOK   == \A p \in Proc, j \in Jobs : JobOK(held[p][j])
DispatchOK == \A p \in Proc : pc[p] \in AboutToDial => held[p][cur[p]].status \in Waiting

AttemptsInv == StoredOK /\ CopiesOK /\ DispatchOK

LEMMA AbsentOK == JobOK(Absent) /\ JobOK(Queued)
<1>1. Len(<<>>) = 0
  OBVIOUS
<1>2. Absent.attempts = <<>> /\ Queued.attempts = <<>> /\ Absent.status = "absent"
  BY DEF Absent, Queued
<1>3. Queued.status = "scheduled"
  BY DEF Absent, Queued
<1> QED
  BY <1>1, <1>2, <1>3, OutboundAssumption DEF JobOK, Waiting, Live

\* An operation that takes a job off the queue, or leaves it there, keeps JobOK.
LEMMA EditOK ==
  ASSUME NEW job \in Job, JobOK(job), NEW s \in Final, NEW d \in BOOLEAN
  PROVE  JobOK([job EXCEPT !.status = s, !.due = d]) /\ JobOK([job EXCEPT !.due = d])
<1>1. /\ [job EXCEPT !.status = s, !.due = d].attempts = job.attempts
      /\ [job EXCEPT !.status = s, !.due = d].status = s
      /\ [job EXCEPT !.due = d].attempts = job.attempts
      /\ [job EXCEPT !.due = d].status = job.status
  BY DEF Job
<1> QED
  BY <1>1 DEF JobOK, Waiting, Live, Final

LEMMA WithLastOK ==
  ASSUME NEW job \in Job, JobOK(job), NEW o \in Outcome
  PROVE  JobOK(WithLast(job, o))
  BY WithLastType DEF JobOK

LEMMA AfterAttemptOK ==
  ASSUME NEW j \in Jobs, NEW call \in Job, Len(call.attempts) <= MaxAttempts, NEW o \in Outcome,
         NEW job \in AfterAttempt(j, call, o)
  PROVE  JobOK(job)
  BY AfterAttemptType DEF JobOK, Waiting, Live

LEMMA TakeOK ==
  ASSUME Typed, AttemptsInv, NEW p \in Proc, NEW j \in Jobs, NEW job \in Job, NEW next \in PC,
         Take(p, j, job, next), UNCHANGED doc, JobOK(job),
         next \in AboutToDial => job.status \in Waiting
  PROVE  AttemptsInv'
  BY DEF Take, Typed, TypeOK, AttemptsInv, StoredOK, CopiesOK, DispatchOK

LEMMA ChangeOK ==
  ASSUME Typed, AttemptsInv, NEW p \in Proc, cur[p] \in Jobs, NEW job \in Job, NEW next \in PC,
         Change(p, job, next), UNCHANGED <<doc, cur>>, JobOK(job), next \notin AboutToDial
  PROVE  AttemptsInv'
  BY DEF Change, Typed, TypeOK, AttemptsInv, StoredOK, CopiesOK, DispatchOK

LEMMA ListOK ==
  ASSUME Typed, AttemptsInv, NEW p \in Proc, NEW js \in SUBSET Jobs, NEW next \in PC,
         List(p, js, next), next \notin AboutToDial, UNCHANGED doc,
         \A q \in Proc : q # p => cur'[q] = cur[q]
  PROVE  AttemptsInv'
  BY AbsentOK DEF List, Typed, TypeOK, AttemptsInv, StoredOK, CopiesOK, DispatchOK

LEMMA LeaveOK ==
  ASSUME Typed, AttemptsInv, NEW p \in Proc, cur[p] \in Jobs, Leave(p)
  PROVE  CopiesOK' /\ DispatchOK'
  BY AbsentOK DEF Leave, Typed, TypeOK, AttemptsInv, CopiesOK, DispatchOK, AboutToDial

LEMMA InitAttempts == Init => AttemptsInv
  BY AbsentOK DEF Init, AttemptsInv, StoredOK, CopiesOK, DispatchOK, AboutToDial

\* Actions that touch neither the documents nor a process's local state.
LEMMA StutterOK ==
  ASSUME AttemptsInv, UNCHANGED doc, UNCHANGED local
  PROVE  AttemptsInv'
  BY DEF AttemptsInv, StoredOK, CopiesOK, DispatchOK, local

LEMMA StepAttempts == Typed /\ AttemptsInv /\ [Next]_vars => AttemptsInv'
<1> SUFFICES ASSUME Typed, AttemptsInv, [Next]_vars PROVE AttemptsInv'
  OBVIOUS
<1> USE DEF Proc, Dispatchers
<1>1. ASSUME NEW r \in Requests, NEW j \in Jobs, Schedule(r, j)
     PROVE  AttemptsInv'
  <2>1. PICK s \in {"scheduled", "cancelled", "suppressed"}, due \in BOOLEAN :
          Take(r, j, [Absent EXCEPT !.status = s, !.due = due], "save")
    BY <1>1 DEF Schedule
  <2> DEFINE job == [Absent EXCEPT !.status = s, !.due = due]
  <2>2. job \in Job /\ job.attempts = <<>> /\ job.status = s
    BY AbsentType DEF Absent, Job, Status, Waiting, Final
  <2>3. JobOK(job)
    <3>1. Len(<<>>) = 0
      OBVIOUS
    <3> QED
      BY <2>2, <3>1, OutboundAssumption DEF JobOK, Live
  <2>4. UNCHANGED doc
    BY <1>1 DEF Schedule, store
  <2> QED
    BY <2>1, <2>2, <2>3, <2>4, TakeOK DEF AboutToDial, PC
<1>2. ASSUME NEW r \in Requests, NEW j \in Jobs, Cancel(r, j)
     PROVE  AttemptsInv'
  <2> DEFINE job == [doc[j] EXCEPT !.status = "cancelled", !.due = FALSE]
  <2>1. doc[j] \in Job /\ JobOK(doc[j])
    BY DEF Typed, TypeOK, AttemptsInv, StoredOK
  <2>2. job \in Job /\ JobOK(job)
    BY <2>1, EditType, EditOK DEF Status, Final
  <2> QED
    BY <1>2, <2>2, TakeOK DEF Cancel, AboutToDial, PC, store
<1>3. ASSUME NEW r \in Requests, NEW j \in Jobs, DialNow(r, j)
     PROVE  AttemptsInv'
  <2>1. doc[j] \in Job /\ JobOK(doc[j])
    BY DEF Typed, TypeOK, AttemptsInv, StoredOK
  <2> QED
    BY <1>3, <2>1, TakeOK DEF DialNow, PC, store
<1>4. ASSUME NEW r \in Requests, NEW j \in Jobs, Suppress(r, j)
     PROVE  AttemptsInv'
  BY <1>4 DEF Suppress, Typed, TypeOK, AttemptsInv, StoredOK, CopiesOK, DispatchOK, AboutToDial
<1>5. ASSUME NEW ph \in Phones, Unsuppress(ph)
     PROVE  AttemptsInv'
  BY <1>5, StutterOK DEF Unsuppress
<1>6. ASSUME NEW p \in Proc, ListWaiting(p)
     PROVE  AttemptsInv'
  <2>1. PICK js \in SUBSET Jobs, next \in {"idle", "suppress"} : List(p, js, next)
    BY <1>6 DEF ListWaiting
  <2>2. \A q \in Proc : q # p => cur'[q] = cur[q]
    BY <1>6 DEF ListWaiting, Typed, TypeOK
  <2> QED
    BY <1>6, <2>1, <2>2, ListOK DEF ListWaiting, AboutToDial, PC, store
<1>7. ASSUME NEW p \in Proc, NEW j \in Jobs, SuppressJob(p, j)
     PROVE  AttemptsInv'
  <2> DEFINE job == [held[p][j] EXCEPT !.status = "suppressed", !.due = FALSE]
  <2>1. held[p][j] \in Job /\ JobOK(held[p][j])
    BY DEF Typed, TypeOK, AttemptsInv, CopiesOK
  <2>2. JobOK(job)
    BY <2>1, EditOK DEF Final
  <2>3. StoredOK'
    BY <1>7, <2>2 DEF SuppressJob, Write, Typed, TypeOK, AttemptsInv, StoredOK
  <2>4. CopiesOK' /\ DispatchOK'
    BY <1>7, AbsentOK DEF SuppressJob, Typed, TypeOK, AttemptsInv, StoredOK, CopiesOK, DispatchOK, AboutToDial
  <2> QED
    BY <2>3, <2>4 DEF AttemptsInv
<1>8. ASSUME ListStale
     PROVE  AttemptsInv'
  <2>1. PICK js \in SUBSET Jobs : List(Loop, js, "tick")
    BY <1>8 DEF ListStale
  <2> QED
    BY <1>8, <2>1, ListOK DEF ListStale, AboutToDial, PC, store
<1>9. ASSUME NEW j \in Jobs, ExpireStale(j)
     PROVE  AttemptsInv'
  <2> DEFINE lost == WithLast(held[Loop][j], "no_contact")
  <2>1. held[Loop][j] \in Job /\ JobOK(held[Loop][j])
    BY DEF Typed, TypeOK, AttemptsInv, CopiesOK
  <2>2. lost \in Job /\ JobOK(lost)
    BY <2>1, WithLastType, WithLastOK DEF Outcome
  <2>3. PICK job \in AfterAttempt(j, lost, "no_contact") :
          /\ Write(Loop, j, job)
          /\ held' = [held EXCEPT ![Loop] = [@ EXCEPT ![j] = job]]
    BY <1>9 DEF ExpireStale
  <2>4. JobOK(job)
    BY <2>2, AfterAttemptOK DEF JobOK, Outcome
  <2>5. StoredOK'
    BY <2>3, <2>4 DEF Write, Typed, TypeOK, AttemptsInv, StoredOK
  <2>6. CopiesOK'
    BY <2>3, <2>4 DEF Typed, TypeOK, AttemptsInv, CopiesOK
  <2>7. DispatchOK'
    BY <1>9, <2>3 DEF ExpireStale, Typed, TypeOK, AttemptsInv, DispatchOK, AboutToDial
  <2> QED
    BY <2>5, <2>6, <2>7 DEF AttemptsInv
<1>10. ASSUME ListDue
     PROVE  AttemptsInv'
  <2>1. PICK js \in SUBSET Jobs : List(Loop, js, "tick")
    BY <1>10 DEF ListDue
  <2> QED
    BY <1>10, <2>1, ListOK DEF ListDue, AboutToDial, PC, store
<1>11. ASSUME NEW p \in Dispatchers, NEW j \in Jobs, Gate(p, j)
     PROVE  AttemptsInv'
  <2>1. held[p][j] \in Job /\ JobOK(held[p][j])
    BY DEF Typed, TypeOK, AttemptsInv, CopiesOK
  <2>2. held[p][j].status \in Waiting
    BY <1>11 DEF Gate, AttemptsInv, DispatchOK, AboutToDial
  <2>3. /\ JobOK([held[p][j] EXCEPT !.status = "cancelled", !.due = FALSE])
        /\ JobOK([held[p][j] EXCEPT !.status = "suppressed", !.due = FALSE])
        /\ JobOK([held[p][j] EXCEPT !.due = FALSE])
    BY <2>1, EditOK DEF Final
  <2>4. CASE UNCHANGED held
    BY <1>11, <2>2, <2>4 DEF Gate, Typed, TypeOK, AttemptsInv, StoredOK, CopiesOK, DispatchOK, store
  <2>5. CASE \E job : /\ JobOK(job)
                      /\ held' = [held EXCEPT ![p] = [@ EXCEPT ![j] = job]]
                      /\ pc' = [pc EXCEPT ![p] = "save"]
    BY <1>11, <2>5 DEF Gate, Typed, TypeOK, AttemptsInv, StoredOK, CopiesOK, DispatchOK, store, AboutToDial
  <2> QED
    BY <1>11, <2>3, <2>4, <2>5 DEF Gate
<1>12. ASSUME NEW p \in Dispatchers, Count(p)
     PROVE  AttemptsInv'
  <2>1. cur[p] \in Jobs /\ UNCHANGED <<doc, cur>>
    BY <1>12 DEF Count, store, Typed, CurOK, Working
  <2>2. Mine(p) \in Job /\ JobOK(Mine(p))
    BY <2>1 DEF Mine, Typed, TypeOK, AttemptsInv, CopiesOK
  <2>3. CASE pc' = [pc EXCEPT ![p] = "dial"] /\ UNCHANGED held
    BY <1>12, <2>1, <2>3 DEF Count, Typed, TypeOK, AttemptsInv, StoredOK, CopiesOK, DispatchOK, AboutToDial
  <2>4. CASE Change(p, [Mine(p) EXCEPT !.due = FALSE], "save")
    BY <2>1, <2>2, <2>4, EditDueType, EditOK, ChangeOK DEF AboutToDial, PC, Final
  <2> QED
    BY <1>12, <2>3, <2>4 DEF Count
<1>13. ASSUME NEW p \in Dispatchers, DialCallee(p)
     PROVE  AttemptsInv'
  <2> DEFINE job == [WithAttempt(Mine(p), "unknown", TRUE) EXCEPT !.status = "dialing"]
  <2>1. cur[p] \in Jobs /\ UNCHANGED <<doc, cur>>
    BY <1>13 DEF DialCallee, store, Typed, CurOK, Working
  <2>2. Mine(p) \in Job /\ JobOK(Mine(p)) /\ Mine(p).status \in Waiting
    BY <1>13, <2>1 DEF DialCallee, Mine, Typed, TypeOK, AttemptsInv, StoredOK, CopiesOK, DispatchOK, AboutToDial
  <2>3. job \in Job /\ JobOK(job)
    <3> DEFINE dialled == WithAttempt(Mine(p), "unknown", TRUE)
               n == Len(Mine(p).attempts)
    <3>1. /\ dialled \in Job
          /\ Len(dialled.attempts) = n + 1
          /\ dialled.attempts[n + 1].called
      BY <2>2, WithAttemptType DEF Outcome
    <3>2. n \in Nat /\ n < MaxAttempts
      BY <2>2 DEF Job, JobOK
    <3> HIDE DEF dialled, n
    <3>3. /\ job \in Job
          /\ job.attempts = dialled.attempts
          /\ job.status = "dialing"
      BY <3>1 DEF Job, Status, Live, dialled
    <3>4. dialled.attempts # <<>> /\ n + 1 <= MaxAttempts
      BY <3>1, <3>2, OutboundAssumption
    <3> HIDE DEF job
    <3> QED
      BY <3>1, <3>2, <3>3, <3>4, OutboundAssumption DEF JobOK, Waiting
  <2> QED
    BY <1>13, <2>1, <2>3, ChangeOK DEF DialCallee, AboutToDial, PC
<1>14. ASSUME NEW p \in Dispatchers, DialFails(p)
     PROVE  AttemptsInv'
  <2> DEFINE tried == WithAttempt(Mine(p), "no_contact", FALSE)
  <2>1. cur[p] \in Jobs /\ UNCHANGED <<doc, cur>>
    BY <1>14 DEF DialFails, store, Typed, CurOK, Working
  <2>2. Mine(p) \in Job /\ JobOK(Mine(p)) /\ Mine(p).status \in Waiting
    BY <1>14, <2>1 DEF DialFails, Mine, Typed, TypeOK, AttemptsInv, StoredOK, CopiesOK, DispatchOK, AboutToDial
  <2>3. tried \in Job /\ Len(tried.attempts) = Len(Mine(p).attempts) + 1
    BY <2>2, WithAttemptType DEF Outcome
  <2>4. Len(Mine(p).attempts) \in Nat /\ Len(Mine(p).attempts) < MaxAttempts
    BY <2>2 DEF JobOK, Job
  <2>5. PICK job \in AfterAttempt(cur[p], tried, "no_contact") : Change(p, job, "save_after")
    BY <1>14 DEF DialFails
  <2> HIDE DEF tried
  <2>6. job \in Job /\ JobOK(job)
    <3>1. Len(tried.attempts) <= MaxAttempts
      BY <2>3, <2>4, OutboundAssumption
    <3> QED
      BY <2>1, <2>3, <3>1, AfterAttemptType, AfterAttemptOK DEF Outcome
  <2> QED
    BY <2>1, <2>5, <2>6, ChangeOK DEF AboutToDial, PC
<1>15. ASSUME NEW p \in Dispatchers, AssistantMissing(p)
     PROVE  AttemptsInv'
  <2> DEFINE job == [Mine(p) EXCEPT !.status = "failed", !.due = FALSE]
  <2>1. cur[p] \in Jobs /\ UNCHANGED <<doc, cur>>
    BY <1>15 DEF AssistantMissing, store, Typed, CurOK, Working
  <2>2. Mine(p) \in Job /\ JobOK(Mine(p))
    BY <2>1 DEF Mine, Typed, TypeOK, AttemptsInv, CopiesOK
  <2>3. job \in Job /\ JobOK(job)
    BY <2>2, EditType, EditOK DEF Status, Final
  <2> QED
    BY <1>15, <2>1, <2>3, ChangeOK DEF AssistantMissing, AboutToDial, PC
<1>16. ASSUME NEW p \in Proc, Save(p)
     PROVE  AttemptsInv'
  <2>1. cur[p] \in Jobs
    BY <1>16 DEF Save, Typed, CurOK, Working
  <2>2. StoredOK'
    BY <1>16, <2>1 DEF Save, Write, Mine, Typed, TypeOK, AttemptsInv, StoredOK, CopiesOK
  <2> QED
    BY <1>16, <2>1, <2>2, LeaveOK DEF Save, AttemptsInv
<1>17. ASSUME NEW p \in Proc, SaveThen(p)
     PROVE  AttemptsInv'
  <2>1. cur[p] \in Jobs
    BY <1>17 DEF SaveThen, Typed, CurOK, Working
  <2>2. StoredOK'
    BY <1>17, <2>1 DEF SaveThen, Write, Mine, Typed, TypeOK, AttemptsInv, StoredOK, CopiesOK
  <2> QED
    BY <1>17, <2>2 DEF SaveThen, Typed, TypeOK, AttemptsInv, CopiesOK, DispatchOK, AboutToDial
<1>18. ASSUME NEW p \in Proc, AfterSave(p)
     PROVE  AttemptsInv'
  <2>1. cur[p] \in Jobs
    BY <1>18 DEF AfterSave, Typed, CurOK, Working
  <2> QED
    BY <1>18, <2>1, LeaveOK DEF AfterSave, AttemptsInv, StoredOK
<1>19. ASSUME NEW p \in Proc, OptOut(p)
     PROVE  AttemptsInv'
  BY <1>19 DEF OptOut, Typed, TypeOK, AttemptsInv, StoredOK, CopiesOK, DispatchOK, AboutToDial
<1>20. ASSUME NEW h \in Handlers, NEW m \in inbox, OnCallStarted(h, m)
     PROVE  AttemptsInv'
  <2> DEFINE j == dials[m.call].job
             job == [doc[j] EXCEPT !.status = "in_progress"]
  <2>1. j \in Jobs /\ doc[j] \in Job /\ JobOK(doc[j])
    BY MessageType DEF AttemptsInv, StoredOK
  <2>2. CASE doc[j].status = "dialing" /\ Take(h, j, job, "save")
    <3>1. job \in Job /\ job.attempts = doc[j].attempts /\ job.status = "in_progress"
      BY <2>1 DEF Job, Status, Live
    <3>2. JobOK(job)
      BY <2>1, <2>2, <3>1 DEF JobOK, Live, Waiting
    <3> HIDE DEF job, j
    <3> QED
      BY <1>20, <2>1, <2>2, <3>1, <3>2, TakeOK DEF OnCallStarted, store, AboutToDial, PC
  <2>3. CASE UNCHANGED <<pc, cur, held, fresh>>
    BY <1>20, <2>3, StutterOK DEF OnCallStarted, store, local
  <2> QED
    BY <1>20, <2>2, <2>3 DEF OnCallStarted
<1>21. ASSUME NEW h \in Handlers, NEW m \in inbox, OnCallEnded(h, m)
     PROVE  AttemptsInv'
  <2> DEFINE j == dials[m.call].job
  <2>1. m \in Message /\ j \in Jobs /\ doc[j] \in Job /\ JobOK(doc[j])
    BY MessageType DEF AttemptsInv, StoredOK
  <2>2. LastOutcome(doc[j]) \in Outcome /\ m.outcome \in Outcome
    BY <2>1, LastOutcomeType DEF Message
  <2>3. ASSUME NEW o \in Outcome, NEW result \in Outcome,
               NEW job \in AfterAttempt(j, WithLast(doc[j], o), result)
        PROVE  job \in Job /\ JobOK(job)
    <3>1. WithLast(doc[j], o) \in Job /\ Len(WithLast(doc[j], o).attempts) <= MaxAttempts
      BY <2>1, WithLastType, WithLastOK DEF JobOK
    <3> HIDE DEF j
    <3> QED
      BY <2>1, <2>3, <3>1, AfterAttemptType, AfterAttemptOK
  <2>4. \/ UNCHANGED <<pc, cur, held, fresh>>
        \/ \E job \in Job : JobOK(job) /\ Take(h, j, job, "save_after")
    BY <1>21, <2>2, <2>3 DEF OnCallEnded, Outcome
  <2>5. CASE UNCHANGED <<pc, cur, held, fresh>>
    BY <1>21, <2>5, StutterOK DEF OnCallEnded, store, local
  <2> HIDE DEF j
  <2>6. CASE \E job \in Job : JobOK(job) /\ Take(h, j, job, "save_after")
    BY <1>21, <2>1, <2>6, TakeOK DEF OnCallEnded, store, AboutToDial, PC
  <2> QED
    BY <2>4, <2>5, <2>6
<1>22. ASSUME NEW h \in Handlers, NEW m \in inbox, WorkerOutcome(h, m)
     PROVE  AttemptsInv'
  <2> DEFINE j == dials[m.call].job
             job == WithLast(doc[j], m.outcome)
  <2>1. m.outcome \in Outcome /\ j \in Jobs /\ doc[j] \in Job /\ JobOK(doc[j])
    BY MessageType DEF AttemptsInv, StoredOK, Message
  <2>2. job \in Job /\ JobOK(job)
    BY <2>1, WithLastType, WithLastOK
  <2>3. PICK next \in {"save", "save_opt_out"} : Take(h, j, job, next)
    BY <1>22 DEF WorkerOutcome
  <2>4. UNCHANGED doc
    BY <1>22 DEF WorkerOutcome, store
  <2> HIDE DEF j, job
  <2> QED
    BY <2>1, <2>2, <2>3, <2>4, TakeOK DEF AboutToDial, PC
<1>23. ASSUME NEW k \in DOMAIN dials, Worker(k)
     PROVE  AttemptsInv'
  BY <1>23, StutterOK DEF Worker, StartCall, ReportOutcome, EndCall, Progress, store
<1>24. ASSUME NEW j \in Jobs, BecomeDue(j) \/ BecomeStale(j)
     PROVE  AttemptsInv'
  <2>1. doc[j] \in Job /\ JobOK(doc[j])
    BY DEF Typed, TypeOK, AttemptsInv, StoredOK
  <2>2. /\ JobOK([doc[j] EXCEPT !.due = TRUE])
        /\ JobOK([doc[j] EXCEPT !.aged = TRUE])
    BY <2>1 DEF JobOK, Job
  <2>3. StoredOK'
    BY <1>24, <2>2 DEF BecomeDue, BecomeStale, Typed, TypeOK, AttemptsInv, StoredOK
  <2> QED
    BY <1>24, <2>3 DEF BecomeDue, BecomeStale, local, AttemptsInv, CopiesOK, DispatchOK
<1>25. ASSUME NEW j \in Jobs, DeadlinePasses(j)
     PROVE  AttemptsInv'
  BY <1>25, StutterOK DEF DeadlinePasses, store
<1>26. ASSUME NEW ps \in SUBSET Proc, Stop(ps)
     PROVE  AttemptsInv'
  BY <1>26, AbsentOK DEF Stop, store, AttemptsInv, StoredOK, CopiesOK, DispatchOK, AboutToDial
<1>27. ASSUME UNCHANGED vars
     PROVE  AttemptsInv'
  BY <1>27, StutterOK DEF vars, store
<1> QED
  BY <1>1, <1>2, <1>3, <1>4, <1>5, <1>6, <1>7, <1>8, <1>9, <1>10, <1>11, <1>12, <1>13, <1>14, <1>15, <1>16, <1>17, <1>18, <1>19, <1>20, <1>21, <1>22, <1>23, <1>24, <1>25, <1>26, <1>27, Stops
  DEF Next, Dispatch, Persist, Request, Handle

THEOREM AttemptsAlways == Spec => [](Typed /\ AttemptsInv)
<1>1. Init => Typed /\ AttemptsInv
  BY InitTyped, InitAttempts
<1>2. (Typed /\ AttemptsInv) /\ [Next]_vars => (Typed /\ AttemptsInv)'
  BY StepTyped, StepAttempts
<1> QED
  BY <1>1, <1>2, PTL DEF Spec

\* No document exceeds max_attempts, however the operations on it overlap.
THEOREM WithinLimit == Spec => []AttemptsWithinLimit
<1>1. AttemptsInv => AttemptsWithinLimit
  BY DEF AttemptsInv, StoredOK, JobOK, AttemptsWithinLimit
<1> QED
  BY <1>1, AttemptsAlways, PTL

\* A job on the line has a call behind it, so expire_stale can always see it.
THEOREM LiveHasCall == Spec => []LiveJobHasCall
<1>1. AttemptsInv => LiveJobHasCall
  BY DEF AttemptsInv, StoredOK, JobOK, LiveJobHasCall
<1> QED
  BY <1>1, AttemptsAlways, PTL

-------------------------------------------------------------------------------
(* Finished jobs.  FinalIsFinal needs to know which processes hold an up-to-date *)
(* copy of a finished job: only worker_outcome ever takes one, and it writes the *)
(* status back as it read it.                                                    *)

WithJob == {"gate", "count", "dial", "save", "save_after", "save_opt_out"}

\* A process that will save a job has read it, or made it.
SavedOK == \A p \in Proc : pc[p] \in WithJob => held[p][cur[p]].status # "absent"

\* A copy of a job that is not stored is a new one, on its way to its first save.
StoredHeld ==
  \A p \in Proc, j \in Jobs :
    held[p][j].status # "absent" /\ doc[j].status = "absent" => pc[p] = "save" /\ cur[p] = j

DialledStored == \A k \in DOMAIN dials : doc[dials[k].job].status # "absent"

FreshOK ==
  \A p \in Proc, j \in Jobs :
    <<p, j>> \in fresh /\ doc[j].status \in Final =>
      /\ held[p][j].status = doc[j].status
      /\ pc[p] \in {"save", "save_opt_out"}
      /\ cur[p] = j

FinalInv == SavedOK /\ StoredHeld /\ DialledStored /\ FreshOK

LEMMA StatusOf ==
  ASSUME NEW job \in Job, NEW s \in Status, NEW d \in BOOLEAN
  PROVE  /\ [job EXCEPT !.status = s, !.due = d].status = s
         /\ [job EXCEPT !.due = d].status = job.status
         /\ [job EXCEPT !.status = s].status = s
         /\ [job EXCEPT !.due = d, !.aged = d].status = job.status
         /\ [job EXCEPT !.aged = d].status = job.status
  BY DEF Job

LEMMA TakeFinal ==
  ASSUME Typed, FinalInv, NEW p \in Proc, NEW j \in Jobs, NEW job \in Job, NEW next \in PC,
         pc[p] = "idle", Take(p, j, job, next), UNCHANGED <<doc, dials>>,
         job.status # "absent",
         doc[j].status = "absent" => next = "save",
         doc[j].status \in Final =>
           job.status = doc[j].status /\ next \in {"save", "save_opt_out"}
  PROVE  FinalInv'
<1>1. SavedOK'
  BY DEF Take, Typed, TypeOK, FinalInv, SavedOK
<1>2. StoredHeld'
  BY DEF Take, Typed, TypeOK, FinalInv, StoredHeld
<1>3. DialledStored'
  BY DEF FinalInv, DialledStored
<1>4. FreshOK'
  BY DEF Take, Typed, TypeOK, FinalInv, FreshOK
<1> QED
  BY <1>1, <1>2, <1>3, <1>4 DEF FinalInv

LEMMA ChangeFinal ==
  ASSUME Typed, FinalInv, NEW p \in Proc, cur[p] \in Jobs, NEW job \in Job, NEW next \in PC,
         pc[p] \in {"gate", "count", "dial"}, Change(p, job, next),
         UNCHANGED <<doc, cur, fresh>>, job.status # "absent"
  PROVE  SavedOK' /\ StoredHeld' /\ FreshOK' /\ doc[cur[p]].status # "absent"
<1>1. SavedOK'
  BY DEF Change, Typed, TypeOK, FinalInv, SavedOK
<1>2. doc[cur[p]].status # "absent"
  BY DEF FinalInv, SavedOK, StoredHeld, WithJob
<1>3. StoredHeld'
  BY <1>2 DEF Change, Typed, TypeOK, FinalInv, StoredHeld
<1>4. FreshOK'
  BY DEF Change, Typed, TypeOK, FinalInv, FreshOK
<1> QED
  BY <1>1, <1>2, <1>3, <1>4

LEMMA ListFinal ==
  ASSUME Typed, FinalInv, NEW p \in Proc, NEW js \in SUBSET Jobs, NEW next \in PC,
         List(p, js, next), next \notin WithJob, UNCHANGED <<doc, dials>>,
         \A q \in Proc : q # p => cur'[q] = cur[q],
         \A j \in js : doc[j].status \in Waiting \cup Live
  PROVE  FinalInv'
<1>1. SavedOK'
  BY DEF List, Typed, TypeOK, FinalInv, SavedOK
<1>2. StoredHeld'
  <2>1. Absent.status = "absent"
    BY DEF Absent
  <2> QED
    BY <2>1 DEF List, Typed, TypeOK, FinalInv, StoredHeld, Waiting, Live
<1>3. DialledStored'
  BY DEF FinalInv, DialledStored
<1>4. FreshOK'
  <2>1. \A j \in js : doc[j].status \notin Final
    BY DEF Waiting, Live, Final
  <2>2. SUFFICES ASSUME NEW q \in Proc, NEW j \in Jobs, <<q, j>> \in fresh', doc[j].status \in Final
                 PROVE  /\ held'[q][j].status = doc[j].status
                        /\ pc'[q] \in {"save", "save_opt_out"}
                        /\ cur'[q] = j
    BY DEF FreshOK
  <2>3. q # p /\ <<q, j>> \in fresh
    BY <2>1, <2>2 DEF List
  <2> QED
    BY <2>2, <2>3 DEF List, Typed, TypeOK, FinalInv, FreshOK
<1> QED
  BY <1>1, <1>2, <1>3, <1>4 DEF FinalInv

\* A save: afterwards nobody holds an up-to-date copy of that job.
LEMMA WriteFinal ==
  ASSUME Typed, FinalInv, NEW p \in Proc, NEW j \in Jobs, NEW job \in Job,
         job.status # "absent", Write(p, j, job)
  PROVE  /\ doc'[j] = job
         /\ \A i \in Jobs : doc[i].status # "absent" => doc'[i].status # "absent"
         /\ \A i \in Jobs : i # j => doc'[i] = doc[i]
         /\ \A q \in Proc : <<q, j>> \notin fresh'
         /\ fresh' \subseteq fresh
  BY DEF Write, Typed, TypeOK

\* Where p leaves its job after the save: at a label where a copy is not saved.
LEMMA WriteOthers ==
  ASSUME Typed, FinalInv, NEW p \in Proc, NEW j \in Jobs, NEW job \in Job,
         job.status # "absent", Write(p, j, job), UNCHANGED dials,
         \A q \in Proc : q # p => pc'[q] = pc[q] /\ cur'[q] = cur[q] /\ held'[q] = held[q],
         \A i \in Jobs : i # j =>
           \/ held'[p][i] = held[p][i]
           \/ held'[p][i].status = "absent",
         pc'[p] \in WithJob => held'[p][cur'[p]].status # "absent",
         pc[p] \in {"save", "save_opt_out"} => cur[p] = j
  PROVE  FinalInv'
<1>1. /\ doc'[j] = job
      /\ \A i \in Jobs : doc[i].status # "absent" => doc'[i].status # "absent"
      /\ \A i \in Jobs : i # j => doc'[i] = doc[i]
      /\ \A q \in Proc : <<q, j>> \notin fresh'
      /\ fresh' \subseteq fresh
  BY WriteFinal
<1>2. SavedOK'
  BY DEF FinalInv, SavedOK
<1>3. StoredHeld'
  BY <1>1 DEF FinalInv, StoredHeld
<1>4. DialledStored'
  <2>1. \A k \in DOMAIN dials : dials[k].job \in Jobs
    BY DialType
  <2> QED
    BY <1>1, <2>1 DEF FinalInv, DialledStored
<1>5. FreshOK'
  BY <1>1 DEF FinalInv, FreshOK
<1> QED
  BY <1>2, <1>3, <1>4, <1>5 DEF FinalInv

LEMMA AppendDialled ==
  ASSUME Typed, FinalInv, NEW j \in Jobs, doc[j].status # "absent", UNCHANGED doc,
         NEW p \in Dispatchers, dials' = Append(dials, [job |-> j, by |-> p, state |-> "placed"])
  PROVE  DialledStored'
<1>1. dials \in Seq(Dial) /\ [job |-> j, by |-> p, state |-> "placed"] \in Dial
  BY DEF Typed, TypeOK, Dial, CallStates
<1>2. \A k \in DOMAIN dials' :
        (k \in DOMAIN dials /\ dials'[k] = dials[k]) \/ dials'[k].job = j
  BY <1>1
<1> QED
  BY <1>2 DEF FinalInv, DialledStored

LEMMA StutterFinal ==
  ASSUME FinalInv, UNCHANGED doc, UNCHANGED dials, UNCHANGED local, UNCHANGED fresh
  PROVE  FinalInv'
  BY DEF FinalInv, SavedOK, StoredHeld, DialledStored, FreshOK, local

LEMMA InitFinal == Init => FinalInv
  BY DEF Init, FinalInv, SavedOK, StoredHeld, DialledStored, FreshOK, WithJob, Absent

LEMMA StepFinal == Typed /\ FinalInv /\ [Next]_vars => FinalInv'
<1> SUFFICES ASSUME Typed, FinalInv, [Next]_vars PROVE FinalInv'
  OBVIOUS
<1> USE DEF Proc, Dispatchers
<1>1. ASSUME NEW r \in Requests, NEW j \in Jobs, Schedule(r, j)
     PROVE  FinalInv'
  <2>1. PICK s \in {"scheduled", "cancelled", "suppressed"}, due \in BOOLEAN :
          Take(r, j, [Absent EXCEPT !.status = s, !.due = due], "save")
    BY <1>1 DEF Schedule
  <2>2. /\ [Absent EXCEPT !.status = s, !.due = due] \in Job
        /\ [Absent EXCEPT !.status = s, !.due = due].status = s
    <3>1. Absent \in Job /\ s \in Status /\ due \in BOOLEAN
      BY <2>1, AbsentType DEF Status, Waiting, Final
    <3>2. [Absent EXCEPT !.status = s, !.due = due] \in Job
      BY <3>1, EditType
    <3>3. [Absent EXCEPT !.status = s, !.due = due].status = s
      BY <3>1 DEF Job
    <3> QED
      BY <3>2, <3>3
  <2>3. doc[j].status = "absent"
    BY <1>1 DEF Schedule, Absent
  <2> QED
    BY <1>1, <2>1, <2>2, <2>3, TakeFinal DEF Schedule, PC, Final, store, world
<1>2. ASSUME NEW r \in Requests, NEW j \in Jobs, Cancel(r, j)
     PROVE  FinalInv'
  <2> DEFINE job == [doc[j] EXCEPT !.status = "cancelled", !.due = FALSE]
  <2>1. doc[j] \in Job
    BY DEF Typed, TypeOK
  <2>2. job \in Job /\ job.status = "cancelled"
    BY <2>1, EditType, StatusOf DEF Status, Final
  <2> HIDE DEF job
  <2> QED
    BY <1>2, <2>1, <2>2, TakeFinal DEF Cancel, job, PC, Final, Waiting, store, world
<1>3. ASSUME NEW r \in Requests, NEW j \in Jobs, DialNow(r, j)
     PROVE  FinalInv'
  <2>1. doc[j] \in Job
    BY DEF Typed, TypeOK
  <2> QED
    BY <1>3, <2>1, TakeFinal DEF DialNow, PC, Final, Waiting, store, world
<1>4. ASSUME NEW r \in Requests, NEW j \in Jobs, Suppress(r, j)
     PROVE  FinalInv'
  BY <1>4 DEF Suppress, Typed, TypeOK, FinalInv, SavedOK, StoredHeld, DialledStored, FreshOK, WithJob, world
<1>5. ASSUME NEW ph \in Phones, Unsuppress(ph)
     PROVE  FinalInv'
  BY <1>5, StutterFinal DEF Unsuppress, world
<1>6. ASSUME NEW p \in Proc, ListWaiting(p)
     PROVE  FinalInv'
  <2>1. PICK js \in SUBSET Jobs, next \in {"idle", "suppress"} :
          List(p, js, next) /\ \A j \in js : doc[j].status \in Waiting
    BY <1>6 DEF ListWaiting
  <2>2. \A q \in Proc : q # p => cur'[q] = cur[q]
    BY <1>6 DEF ListWaiting, Typed, TypeOK
  <2> QED
    BY <1>6, <2>1, <2>2, ListFinal DEF ListWaiting, WithJob, PC, store, world
<1>7. ASSUME NEW p \in Proc, NEW j \in Jobs, SuppressJob(p, j)
     PROVE  FinalInv'
  <2> DEFINE job == [held[p][j] EXCEPT !.status = "suppressed", !.due = FALSE]
  <2>1. held[p][j] \in Job
    BY DEF Typed, TypeOK
  <2>2. job \in Job /\ job.status = "suppressed"
    BY <2>1, EditType, StatusOf DEF Status, Final
  <2>3. Write(p, j, job) /\ UNCHANGED dials /\ pc[p] = "suppress"
    BY <1>7 DEF SuppressJob, world
  <2>4. \A q \in Proc : q # p => pc'[q] = pc[q] /\ cur'[q] = cur[q] /\ held'[q] = held[q]
    BY <1>7 DEF SuppressJob, Typed, TypeOK
  <2>5. \A i \in Jobs : i # j => held'[p][i] = held[p][i]
    BY <1>7 DEF SuppressJob, Typed, TypeOK
  <2>6. pc'[p] \in {"idle", "suppress"}
    BY <1>7 DEF SuppressJob, Typed, TypeOK
  <2> HIDE DEF job
  <2> QED
    BY <2>2, <2>3, <2>4, <2>5, <2>6, WriteOthers DEF WithJob
<1>8. ASSUME ListStale
     PROVE  FinalInv'
  <2>1. PICK js \in SUBSET Jobs :
          List(Loop, js, "tick") /\ \A j \in js : doc[j].status \in Live
    BY <1>8 DEF ListStale, Stale
  <2> QED
    BY <1>8, <2>1, ListFinal DEF ListStale, WithJob, PC, store, world
<1>9. ASSUME NEW j \in Jobs, ExpireStale(j)
     PROVE  FinalInv'
  <2>1. WithLast(held[Loop][j], "no_contact") \in Job
    BY WithLastType DEF Outcome, Typed, TypeOK
  <2>2. PICK job \in AfterAttempt(j, WithLast(held[Loop][j], "no_contact"), "no_contact") :
          /\ Write(Loop, j, job)
          /\ held' = [held EXCEPT ![Loop] = [@ EXCEPT ![j] = job]]
    BY <1>9 DEF ExpireStale
  <2>3. job \in Job /\ job.status # "absent"
    BY <2>1, <2>2, AfterAttemptType DEF Outcome
  <2>4. pc' = [pc EXCEPT ![Loop] = "after"] /\ cur' = [cur EXCEPT ![Loop] = j]
        /\ UNCHANGED dials /\ pc[Loop] = "tick"
    BY <1>9 DEF ExpireStale, world
  <2>5. /\ \A q \in Proc : q # Loop => pc'[q] = pc[q] /\ cur'[q] = cur[q] /\ held'[q] = held[q]
        /\ \A i \in Jobs : i # j => held'[Loop][i] = held[Loop][i]
        /\ pc'[Loop] = "after"
    BY <2>2, <2>4 DEF Typed, TypeOK
  <2> QED
    BY <2>2, <2>3, <2>4, <2>5, WriteOthers DEF WithJob
<1>10. ASSUME ListDue
     PROVE  FinalInv'
  <2>1. PICK js \in SUBSET Jobs :
          List(Loop, js, "tick") /\ \A j \in js : doc[j].status \in Waiting
    BY <1>10 DEF ListDue
  <2> QED
    BY <1>10, <2>1, ListFinal DEF ListDue, WithJob, PC, store, world
<1>11. ASSUME NEW p \in Dispatchers, NEW j \in Jobs, Gate(p, j)
     PROVE  FinalInv'
  <2>1. held[p][j] \in Job /\ held[p][j].status # "absent"
    BY <1>11 DEF Gate, Typed, TypeOK, FinalInv, SavedOK, WithJob, Waiting
  <2>2. pc[p] \in {"gate", "tick"} /\ doc[j].status # "absent"
    BY <1>11, <2>1 DEF Gate, FinalInv, StoredHeld
  <2>3. /\ cur' = [cur EXCEPT ![p] = j]
        /\ UNCHANGED <<doc, dials, fresh>>
        /\ \E next \in {"save", "count", "dial"} : pc' = [pc EXCEPT ![p] = next]
    BY <1>11 DEF Gate, store, world, ghost
  <2>4. \/ UNCHANGED held
        \/ \E job : job.status # "absent" /\ held' = [held EXCEPT ![p] = [@ EXCEPT ![j] = job]]
    <3>1. /\ [held[p][j] EXCEPT !.status = "cancelled", !.due = FALSE].status # "absent"
          /\ [held[p][j] EXCEPT !.status = "suppressed", !.due = FALSE].status # "absent"
          /\ [held[p][j] EXCEPT !.due = FALSE].status # "absent"
      BY <2>1, StatusOf DEF Status, Final
    <3> QED
      BY <1>11, <3>1 DEF Gate
  <2>5. held'[p][j].status # "absent" /\ \A q \in Proc, i \in Jobs : q # p \/ i # j => held'[q][i] = held[q][i]
    BY <2>1, <2>4 DEF Typed, TypeOK
  <2>6. SavedOK'
    <3>1. \A q \in Proc : pc[q] \in WithJob => cur[q] \in Jobs
      BY DEF Typed, CurOK, WithJob, Working
    <3> QED
      BY <2>3, <2>5, <3>1 DEF Typed, TypeOK, FinalInv, SavedOK
  <2>7. StoredHeld'
    BY <2>2, <2>3, <2>5 DEF Typed, TypeOK, FinalInv, StoredHeld
  <2>8. FreshOK'
    BY <2>2, <2>3, <2>5 DEF Typed, TypeOK, FinalInv, FreshOK
  <2> QED
    BY <2>3, <2>6, <2>7, <2>8 DEF FinalInv, DialledStored
<1>12. ASSUME NEW p \in Dispatchers, Count(p)
     PROVE  FinalInv'
  <2>1. cur[p] \in Jobs /\ UNCHANGED <<doc, cur, fresh, dials>>
    BY <1>12 DEF Count, store, world, ghost, Typed, CurOK, Working
  <2>2. Mine(p) \in Job /\ Mine(p).status # "absent"
    BY <1>12, <2>1 DEF Count, Mine, Typed, TypeOK, FinalInv, SavedOK, WithJob
  <2>3. CASE pc' = [pc EXCEPT ![p] = "dial"] /\ UNCHANGED held
    BY <1>12, <2>1, <2>3 DEF Count, Typed, TypeOK, FinalInv, SavedOK, StoredHeld, DialledStored, FreshOK, WithJob
  <2>4. CASE Change(p, [Mine(p) EXCEPT !.due = FALSE], "save")
    <3> DEFINE job == [Mine(p) EXCEPT !.due = FALSE]
    <3>1. job \in Job /\ job.status # "absent"
      <4>1. Mine(p).status \in Status
        BY <2>2 DEF Job
      <4> QED
        BY <2>2, <4>1, EditDueType, StatusOf
    <3> HIDE DEF job
    <3>2. Change(p, job, "save")
      BY <2>4 DEF job
    <3> QED
      BY <1>12, <2>1, <3>1, <3>2, ChangeFinal DEF Count, PC, FinalInv, DialledStored
  <2> QED
    BY <1>12, <2>3, <2>4 DEF Count
<1>13. ASSUME NEW p \in Dispatchers, DialCallee(p)
     PROVE  FinalInv'
  <2> DEFINE job == [WithAttempt(Mine(p), "unknown", TRUE) EXCEPT !.status = "dialing"]
  <2>1. cur[p] \in Jobs /\ UNCHANGED <<doc, cur, fresh>>
    BY <1>13 DEF DialCallee, store, Typed, CurOK, Working
  <2>2. WithAttempt(Mine(p), "unknown", TRUE) \in Job
    BY <2>1, MineType, WithAttemptType DEF Outcome
  <2>3. job \in Job /\ job.status = "dialing"
    BY <2>2 DEF Job, Status, Live
  <2> HIDE DEF job
  <2>4. pc[p] = "dial" /\ Change(p, job, "save") /\ dials' = Append(dials, [job |-> cur[p], by |-> p, state |-> "placed"])
    BY <1>13 DEF DialCallee, PlaceCall, job
  <2>5. SavedOK' /\ StoredHeld' /\ FreshOK' /\ doc[cur[p]].status # "absent"
    BY <2>1, <2>3, <2>4, ChangeFinal DEF PC
  <2>6. DialledStored'
    BY <2>1, <2>4, <2>5, AppendDialled
  <2> QED
    BY <2>5, <2>6 DEF FinalInv
<1>14. ASSUME NEW p \in Dispatchers, DialFails(p)
     PROVE  FinalInv'
  <2>1. cur[p] \in Jobs /\ UNCHANGED <<doc, cur, fresh>> /\ pc[p] = "dial"
    BY <1>14 DEF DialFails, store, Typed, CurOK, Working
  <2>2. WithAttempt(Mine(p), "no_contact", FALSE) \in Job
    BY <2>1, MineType, WithAttemptType DEF Outcome
  <2>3. PICK job \in AfterAttempt(cur[p], WithAttempt(Mine(p), "no_contact", FALSE), "no_contact") :
          Change(p, job, "save_after")
    BY <1>14 DEF DialFails
  <2>4. job \in Job /\ job.status # "absent"
    BY <2>1, <2>2, AfterAttemptType DEF Outcome
  <2>5. SavedOK' /\ StoredHeld' /\ FreshOK' /\ doc[cur[p]].status # "absent"
    BY <2>1, <2>3, <2>4, ChangeFinal DEF PC
  <2>6. \/ UNCHANGED dials
        \/ dials' = Append(dials, [job |-> cur[p], by |-> p, state |-> "placed"])
    BY <1>14 DEF DialFails, PlaceCall
  <2>7. DialledStored'
    BY <2>1, <2>5, <2>6, AppendDialled DEF FinalInv, DialledStored
  <2> QED
    BY <2>5, <2>7 DEF FinalInv
<1>15. ASSUME NEW p \in Dispatchers, AssistantMissing(p)
     PROVE  FinalInv'
  <2> DEFINE job == [Mine(p) EXCEPT !.status = "failed", !.due = FALSE]
  <2>1. cur[p] \in Jobs /\ UNCHANGED <<doc, cur, fresh, dials>>
    BY <1>15 DEF AssistantMissing, store, world, ghost, Typed, CurOK, Working
  <2>2. job \in Job /\ job.status = "failed"
    BY <2>1, MineType, EditType, StatusOf, ZenonT(40) DEF Status, Final
  <2> HIDE DEF job
  <2>3. pc[p] = "dial" /\ Change(p, job, "save")
    BY <1>15 DEF AssistantMissing, job
  <2> QED
    BY <2>1, <2>2, <2>3, ChangeFinal DEF PC, FinalInv, DialledStored
<1>16. ASSUME NEW p \in Proc, Save(p)
     PROVE  FinalInv'
  <2>1. /\ cur[p] \in Jobs /\ Mine(p) \in Job /\ Mine(p).status # "absent"
        /\ Write(p, cur[p], Mine(p)) /\ Leave(p) /\ UNCHANGED dials
    BY <1>16 DEF Save, world, Mine, Typed, TypeOK, CurOK, Working, FinalInv, SavedOK, WithJob
  <2>2. /\ \A q \in Proc : q # p => pc'[q] = pc[q] /\ cur'[q] = cur[q] /\ held'[q] = held[q]
        /\ \A i \in Jobs : i # cur[p] => held'[p][i] = held[p][i]
        /\ pc'[p] \in {"idle", "tick"}
    BY <2>1 DEF Leave, Typed, TypeOK
  <2> QED
    BY <2>1, <2>2, WriteOthers DEF WithJob
<1>17. ASSUME NEW p \in Proc, SaveThen(p)
     PROVE  FinalInv'
  <2>1. /\ cur[p] \in Jobs /\ Mine(p) \in Job /\ Mine(p).status # "absent"
        /\ Write(p, cur[p], Mine(p)) /\ UNCHANGED <<dials, cur, held>>
    BY <1>17 DEF SaveThen, world, Mine, Typed, TypeOK, CurOK, Working, FinalInv, SavedOK, WithJob
  <2>2. /\ \A q \in Proc : q # p => pc'[q] = pc[q]
        /\ pc'[p] \in {"after", "opt_out"}
    BY <1>17 DEF SaveThen, Typed, TypeOK
  <2> QED
    BY <2>1, <2>2, WriteOthers DEF WithJob
<1>18. ASSUME NEW p \in Proc, AfterSave(p)
     PROVE  FinalInv'
  <2>1. /\ cur[p] \in Jobs /\ pc[p] = "after" /\ Leave(p) /\ UNCHANGED <<doc, dials, fresh>>
    BY <1>18 DEF AfterSave, world, ghost, Typed, CurOK, Working
  <2>2. /\ \A q \in Proc : q # p => pc'[q] = pc[q] /\ cur'[q] = cur[q] /\ held'[q] = held[q]
        /\ \A i \in Jobs : held'[p][i] = held[p][i] \/ held'[p][i].status = "absent"
        /\ pc'[p] \in {"idle", "tick"}
    BY <2>1 DEF Leave, Absent, Typed, TypeOK
  <2> QED
    BY <2>1, <2>2 DEF FinalInv, SavedOK, StoredHeld, DialledStored, FreshOK, WithJob
<1>19. ASSUME NEW p \in Proc, OptOut(p)
     PROVE  FinalInv'
  BY <1>19 DEF OptOut, Typed, TypeOK, FinalInv, SavedOK, StoredHeld, DialledStored, FreshOK, WithJob, world
<1>20. ASSUME NEW h \in Handlers, NEW m \in inbox, OnCallStarted(h, m)
     PROVE  FinalInv'
  <2> DEFINE j == dials[m.call].job
             job == [doc[j] EXCEPT !.status = "in_progress"]
  <2>1. j \in Jobs /\ doc[j] \in Job
    BY MessageType
  <2>2. CASE doc[j].status = "dialing" /\ Take(h, j, job, "save")
    <3>1. job \in Job /\ job.status = "in_progress"
      BY <2>1 DEF Job, Status, Live
    <3> HIDE DEF job, j
    <3> QED
      BY <1>20, <2>1, <2>2, <3>1, TakeFinal DEF OnCallStarted, store, Final, PC
  <2>3. CASE UNCHANGED <<pc, cur, held, fresh>>
    BY <1>20, <2>3, StutterFinal DEF OnCallStarted, store, local
  <2> QED
    BY <1>20, <2>2, <2>3 DEF OnCallStarted
<1>21. ASSUME NEW h \in Handlers, NEW m \in inbox, OnCallEnded(h, m)
     PROVE  FinalInv'
  <2> DEFINE j == dials[m.call].job
  <2>1. m \in Message /\ j \in Jobs /\ doc[j] \in Job
    BY MessageType
  <2>2. LastOutcome(doc[j]) \in Outcome /\ m.outcome \in Outcome
    BY <2>1, LastOutcomeType DEF Message
  <2>3. ASSUME NEW o \in Outcome, NEW result \in Outcome,
               NEW job \in AfterAttempt(j, WithLast(doc[j], o), result)
        PROVE  job \in Job /\ job.status # "absent"
    <3>1. WithLast(doc[j], o) \in Job
      BY <2>1, WithLastType
    <3> HIDE DEF j
    <3> QED
      BY <2>1, <2>3, <3>1, AfterAttemptType
  <2>4. \/ UNCHANGED <<pc, cur, held, fresh>>
        \/ /\ doc[j].status \in Live
           /\ \E job \in Job : job.status # "absent" /\ Take(h, j, job, "save_after")
    BY <1>21, <2>2, <2>3 DEF OnCallEnded, Outcome
  <2>5. CASE UNCHANGED <<pc, cur, held, fresh>>
    BY <1>21, <2>5, StutterFinal DEF OnCallEnded, store, local
  <2> HIDE DEF j
  <2>6. CASE /\ doc[j].status \in Live
             /\ \E job \in Job : job.status # "absent" /\ Take(h, j, job, "save_after")
    BY <1>21, <2>1, <2>6, TakeFinal DEF OnCallEnded, store, Live, Final, PC
  <2> QED
    BY <2>4, <2>5, <2>6
<1>22. ASSUME NEW h \in Handlers, NEW m \in inbox, WorkerOutcome(h, m)
     PROVE  FinalInv'
  <2> DEFINE j == dials[m.call].job
             job == WithLast(doc[j], m.outcome)
  <2>1. m.call \in DOMAIN dials /\ m.outcome \in Outcome /\ j \in Jobs /\ doc[j] \in Job
    BY MessageType DEF Message
  <2>2. job \in Job /\ job.status = doc[j].status /\ doc[j].status # "absent"
    BY <2>1, WithLastType DEF FinalInv, DialledStored
  <2>3. PICK next \in {"save", "save_opt_out"} : Take(h, j, job, next)
    BY <1>22 DEF WorkerOutcome
  <2>4. UNCHANGED <<doc, dials>> /\ pc[h] = "idle"
    BY <1>22 DEF WorkerOutcome, store
  <2> HIDE DEF j, job
  <2> QED
    BY <2>1, <2>2, <2>3, <2>4, TakeFinal DEF PC
<1>23. ASSUME NEW k \in DOMAIN dials, Worker(k)
     PROVE  FinalInv'
  <2>1. UNCHANGED <<doc, pc, cur, held, fresh>>
    BY <1>23 DEF Worker, StartCall, ReportOutcome, EndCall, Progress, store, local, ghost
  <2>2. PICK to : dials' = [dials EXCEPT ![k].state = to]
    BY <1>23 DEF Worker, StartCall, ReportOutcome, EndCall, Progress
  <2>3. dials \in Seq(Dial) /\ dials[k] \in Dial
    <3>1. dials \in Seq(Dial)
      BY DEF Typed, TypeOK
    <3> QED
      BY <3>1
  <2>4. DOMAIN dials' = DOMAIN dials /\ \A i \in DOMAIN dials : dials'[i].job = dials[i].job
    <3>1. [dials[k] EXCEPT !.state = to].job = dials[k].job
      BY <2>3 DEF Dial
    <3>2. dials' = [dials EXCEPT ![k] = [dials[k] EXCEPT !.state = to]]
      BY <2>2
    <3> QED
      BY <2>3, <3>1, <3>2
  <2> QED
    BY <2>1, <2>4 DEF FinalInv, SavedOK, StoredHeld, DialledStored, FreshOK
<1>24. ASSUME NEW j \in Jobs, BecomeDue(j) \/ BecomeStale(j)
     PROVE  FinalInv'
  <2>1. doc[j] \in Job
    BY DEF Typed, TypeOK
  <2>2. /\ [doc[j] EXCEPT !.due = TRUE].status = doc[j].status
        /\ [doc[j] EXCEPT !.aged = TRUE].status = doc[j].status
    BY <2>1 DEF Job
  <2>3. \A i \in Jobs : doc'[i].status = doc[i].status
    BY <1>24, <2>2 DEF BecomeDue, BecomeStale, Typed, TypeOK
  <2>4. UNCHANGED <<pc, cur, held, fresh, dials>>
    BY <1>24 DEF BecomeDue, BecomeStale, local, world, ghost
  <2>5. \A k \in DOMAIN dials : dials[k].job \in Jobs
    BY DialType
  <2> QED
    BY <2>3, <2>4, <2>5 DEF FinalInv, SavedOK, StoredHeld, DialledStored, FreshOK
<1>25. ASSUME NEW j \in Jobs, DeadlinePasses(j)
     PROVE  FinalInv'
  BY <1>25, StutterFinal DEF DeadlinePasses, store, ghost
<1>26. ASSUME NEW ps \in SUBSET Proc, Stop(ps)
     PROVE  FinalInv'
  BY <1>26 DEF Stop, store, world, FinalInv, SavedOK, StoredHeld, DialledStored, FreshOK, WithJob, Absent
<1>27. ASSUME UNCHANGED vars
     PROVE  FinalInv'
  BY <1>27, StutterFinal DEF vars, store, world, ghost
<1> QED
  BY <1>1, <1>2, <1>3, <1>4, <1>5, <1>6, <1>7, <1>8, <1>9, <1>10, <1>11, <1>12, <1>13, <1>14, <1>15, <1>16, <1>17, <1>18, <1>19, <1>20, <1>21, <1>22, <1>23, <1>24, <1>25, <1>26, <1>27, Stops
  DEF Next, Dispatch, Persist, Request, Handle

\* What a step that changes the status of a finished job must be.
LEMMA StepKeepsFinal ==
  ASSUME Typed, FinalInv, [Next]_vars, NEW j \in Jobs,
         doc[j].status \in Final, doc'[j].status # doc[j].status
  PROVE  \E p \in Proc : held[p][j] # Absent /\ <<p, j>> \notin fresh
<1> USE DEF Proc, Dispatchers
<1>1. Absent.status = "absent"
  BY DEF Absent
<1>2. ASSUME NEW p \in Proc, NEW i \in Jobs, SuppressJob(p, i)
      PROVE  \E q \in Proc : held[q][j] # Absent /\ <<q, j>> \notin fresh
  <2>1. i = j /\ held[p][j] # Absent /\ pc[p] = "suppress"
    BY <1>2 DEF SuppressJob, Write, Typed, TypeOK
  <2> QED
    BY <2>1 DEF FinalInv, FreshOK
<1>3. ASSUME NEW i \in Jobs, ExpireStale(i)
      PROVE  \E q \in Proc : held[q][j] # Absent /\ <<q, j>> \notin fresh
  <2>1. i = j /\ held[Loop][j].status \in Live /\ pc[Loop] = "tick"
    BY <1>3 DEF ExpireStale, Write, Typed, TypeOK
  <2>2. held[Loop][j] # Absent
    BY <1>1, <2>1 DEF Live
  <2> QED
    BY <2>1, <2>2 DEF FinalInv, FreshOK
<1>4. ASSUME NEW p \in Proc, Save(p) \/ SaveThen(p)
      PROVE  \E q \in Proc : held[q][j] # Absent /\ <<q, j>> \notin fresh
  <2>1. cur[p] = j /\ doc'[j] = held[p][j]
    BY <1>4 DEF Save, SaveThen, Write, Mine, Typed, TypeOK
  <2>2. held[p][j] # Absent
    BY <1>1, <1>4, <2>1 DEF Save, SaveThen, FinalInv, SavedOK, WithJob
  <2> QED
    BY <2>1, <2>2 DEF FinalInv, FreshOK
<1>5. ASSUME NEW i \in Jobs, BecomeDue(i) \/ BecomeStale(i)
      PROVE  FALSE
  <2>1. i = j
    BY <1>5 DEF BecomeDue, BecomeStale, Typed, TypeOK
  <2>2. doc[j].status \in Waiting \cup Live
    BY <1>5, <2>1 DEF BecomeDue, BecomeStale
  <2> QED
    BY <2>2 DEF Waiting, Live, Final
<1>6. ~UNCHANGED doc
  OBVIOUS
<1>7. \/ \E p \in Proc, i \in Jobs : SuppressJob(p, i)
      \/ \E i \in Jobs : ExpireStale(i)
      \/ \E p \in Proc : Save(p) \/ SaveThen(p)
      \/ \E i \in Jobs : BecomeDue(i) \/ BecomeStale(i)
  BY <1>6, ZenonT(40)
  DEF Next, Dispatch, Persist, Request, Handle, Worker, vars, store,
      Schedule, Cancel, DialNow, Suppress, Unsuppress, ListWaiting, ListStale, ListDue,
      Gate, Count, DialCallee, DialFails, AssistantMissing, AfterSave, OptOut,
      OnCallStarted, OnCallEnded, WorkerOutcome, StartCall, ReportOutcome, EndCall, Progress,
      DeadlinePasses, Restart, Raise, Stop
<1> QED
  BY <1>2, <1>3, <1>4, <1>5, <1>7

\* A finished job changes status only by a write of an out-of-date copy.
THEOREM FinalStays == Spec => FinalIsFinal
<1>1. Init => Typed /\ FinalInv
  BY InitTyped, InitFinal
<1>2. (Typed /\ FinalInv) /\ [Next]_vars => (Typed /\ FinalInv)'
  BY StepTyped, StepFinal
<1>3. (Typed /\ FinalInv) /\ [Next]_vars
      => [\A j \in Jobs :
            doc[j].status \in Final /\ doc'[j].status # doc[j].status =>
              \E p \in Proc : held[p][j] # Absent /\ <<p, j>> \notin fresh]_vars
  BY StepKeepsFinal
<1> QED
  BY <1>1, <1>2, <1>3, PTL DEF Spec, FinalIsFinal

-------------------------------------------------------------------------------
\* Only p moves.
Moves(p) ==
  \A q \in Proc : q # p => pc'[q] = pc[q] /\ cur'[q] = cur[q] /\ held'[q] = held[q]

LEMMA TakeFrame ==
  ASSUME Typed, NEW p \in Proc, NEW j \in Jobs, NEW job \in Job, NEW next \in PC,
         Take(p, j, job, next)
  PROVE  /\ Moves(p)
         /\ pc'[p] = next /\ cur'[p] = j /\ held'[p][j] = job
         /\ \A i \in Jobs : i # j => held'[p][i] = held[p][i]
         /\ fresh' = fresh \cup {<<p, j>>}
  BY DEF Take, Typed, TypeOK, Moves

LEMMA ListFrame ==
  ASSUME Typed, NEW p \in Proc, NEW js \in SUBSET Jobs, NEW next \in PC, List(p, js, next),
         \A q \in Proc : q # p => cur'[q] = cur[q]
  PROVE  /\ Moves(p)
         /\ pc'[p] = next
         /\ \A j \in Jobs : held'[p][j] = IF j \in js THEN doc[j] ELSE Absent
         /\ fresh' = (fresh \ ({p} \X Jobs)) \cup ({p} \X js)
  BY DEF List, Typed, TypeOK, Moves

LEMMA ChangeFrame ==
  ASSUME Typed, NEW p \in Proc, cur[p] \in Jobs, NEW job \in Job, NEW next \in PC,
         Change(p, job, next), UNCHANGED cur
  PROVE  /\ Moves(p)
         /\ pc'[p] = next /\ held'[p][cur[p]] = job
         /\ \A i \in Jobs : i # cur[p] => held'[p][i] = held[p][i]
  BY DEF Change, Typed, TypeOK, Moves

LEMMA LeaveFrame ==
  ASSUME Typed, NEW p \in Proc, cur[p] \in Jobs, Leave(p)
  PROVE  /\ Moves(p)
         /\ pc'[p] \in {"idle", "tick"} /\ held'[p][cur[p]] = Absent
         /\ \A i \in Jobs : i # cur[p] => held'[p][i] = held[p][i]
  BY DEF Leave, Typed, TypeOK, Moves

LEMMA WriteFrame ==
  ASSUME Typed, NEW p \in Proc, NEW j \in Jobs, NEW job \in Job, Write(p, j, job)
  PROVE  /\ doc'[j] = job
         /\ \A i \in Jobs : i # j => doc'[i] = doc[i]
  BY DEF Write, Typed, TypeOK

LEMMA WriteFresh ==
  ASSUME Typed, NEW p \in Proc, NEW j \in Jobs, NEW job \in Job, Write(p, j, job)
  PROVE  /\ torn \subseteq torn'
         /\ j \notin torn' => <<p, j>> \in fresh
         /\ \A q \in Proc, i \in Jobs : <<q, i>> \in fresh' => <<q, i>> \in fresh /\ i # j
  BY DEF Write, Typed, TypeOK

LEMMA SuppressFrame ==
  ASSUME Typed, NEW p \in Proc, NEW j \in Jobs, SuppressJob(p, j)
  PROVE  /\ Moves(p)
         /\ Write(p, j, [held[p][j] EXCEPT !.status = "suppressed", !.due = FALSE])
         /\ [held[p][j] EXCEPT !.status = "suppressed", !.due = FALSE] \in Job
         /\ pc[p] = "suppress" /\ pc'[p] \in {"idle", "suppress"}
         /\ held[p][j] # Absent /\ held'[p][j] = Absent
         /\ \A i \in Jobs : i # j => held'[p][i] = held[p][i]
<1>1. held[p][j] \in Job
  BY DEF Typed, TypeOK
<1>2. [held[p][j] EXCEPT !.status = "suppressed", !.due = FALSE] \in Job
  BY <1>1, EditType DEF Status, Final
<1> QED
  BY <1>2 DEF SuppressJob, Typed, TypeOK, Moves

LEMMA ExpireFrame ==
  ASSUME Typed, NEW j \in Jobs, ExpireStale(j)
  PROVE  \E job \in AfterAttempt(j, WithLast(held[Loop][j], "no_contact"), "no_contact") :
           /\ job \in Job
           /\ Moves(Loop)
           /\ Write(Loop, j, job)
           /\ pc[Loop] = "tick" /\ held[Loop][j].status \in Live
           /\ pc'[Loop] = "after" /\ cur'[Loop] = j /\ held'[Loop][j] = job
           /\ \A i \in Jobs : i # j => held'[Loop][i] = held[Loop][i]
<1>0. Loop \in Proc
  BY DEF Proc
<1>1. WithLast(held[Loop][j], "no_contact") \in Job
  BY <1>0, WithLastType DEF Outcome, Typed, TypeOK
<1>2. PICK job \in AfterAttempt(j, WithLast(held[Loop][j], "no_contact"), "no_contact") :
        /\ Write(Loop, j, job)
        /\ held' = [held EXCEPT ![Loop] = [@ EXCEPT ![j] = job]]
  BY DEF ExpireStale
<1>3. job \in Job
  BY <1>1, <1>2, AfterAttemptType DEF Outcome
<1>4. /\ pc[Loop] = "tick" /\ held[Loop][j].status \in Live
      /\ pc' = [pc EXCEPT ![Loop] = "after"] /\ cur' = [cur EXCEPT ![Loop] = j]
  BY DEF ExpireStale
<1>5. Moves(Loop)
  BY <1>0, <1>2, <1>4 DEF Typed, TypeOK, Moves
<1>6. /\ pc'[Loop] = "after" /\ cur'[Loop] = j /\ held'[Loop][j] = job
      /\ \A i \in Jobs : i # j => held'[Loop][i] = held[Loop][i]
  BY <1>0, <1>2, <1>4 DEF Typed, TypeOK
<1> QED
  BY <1>2, <1>3, <1>4, <1>5, <1>6

-------------------------------------------------------------------------------
(* Tickets.  A job whose document is not exhausted has no ticket, and nobody is   *)
(* about to raise one; at most one process is about to, and then there is none    *)
(* yet.  A torn job is left out: a process that saves over an exhausted job may   *)
(* exhaust it again.                                                              *)

\* p saved j as exhausted, and has not raised the ticket yet.
AfterExhausted(p, j) == pc[p] = "after" /\ cur[p] = j /\ held[p][j].status = "exhausted"

TicketInv ==
  \A j \in Jobs \ torn :
    /\ raised[j] <= 1
    /\ doc[j].status # "exhausted" => raised[j] = 0 /\ \A p \in Proc : ~AfterExhausted(p, j)
    /\ \A p \in Proc : AfterExhausted(p, j) =>
         /\ raised[j] = 0
         /\ \A q \in Proc : AfterExhausted(q, j) => q = p

LEMMA MoveTicket ==
  ASSUME Typed, TicketInv, NEW p \in Proc, Moves(p), pc'[p] # "after", UNCHANGED raised,
         \A j \in Jobs \ torn' :
           j \notin torn /\ (doc[j].status = "exhausted" => doc'[j].status = "exhausted")
  PROVE  TicketInv'
<1>1. \A q \in Proc, j \in Jobs : AfterExhausted(q, j)' => AfterExhausted(q, j)
  BY DEF Moves, AfterExhausted
<1>2. TicketInv'
  BY <1>1 DEF TicketInv
<1> QED
  BY <1>2

LEMMA StillTicket ==
  ASSUME TicketInv, UNCHANGED local, UNCHANGED raised,
         \A j \in Jobs \ torn' :
           j \notin torn /\ (doc[j].status = "exhausted" => doc'[j].status = "exhausted")
  PROVE  TicketInv'
<1>1. \A q \in Proc, j \in Jobs : AfterExhausted(q, j)' => AfterExhausted(q, j)
  BY DEF local, AfterExhausted
<1> QED
  BY <1>1 DEF TicketInv

\* A save of a finished job keeps its status, unless it tears the job.
LEMMA WriteKeeps ==
  ASSUME Typed, FinalInv, NEW p \in Proc, NEW j \in Jobs, NEW job \in Job, Write(p, j, job),
         \/ pc[p] \notin {"save", "save_opt_out"}
         \/ job = held[p][j]
  PROVE  \A i \in Jobs \ torn' :
           i \notin torn /\ (doc[i].status = "exhausted" => doc'[i].status = "exhausted")
<1>1. "exhausted" \in Final
  BY DEF Final
<1>2. torn \subseteq torn' /\ (j \notin torn' => <<p, j>> \in fresh)
  BY WriteFresh
<1>3. doc'[j] = job /\ \A i \in Jobs : i # j => doc'[i] = doc[i]
  BY WriteFrame
<1>4. ASSUME doc[j].status = "exhausted", j \notin torn' PROVE doc'[j].status = "exhausted"
  BY <1>1, <1>2, <1>3, <1>4 DEF FinalInv, FreshOK
<1> QED
  BY <1>2, <1>3, <1>4

\* The save after an attempt, which may leave a job exhausted.
LEMMA WriteTicket ==
  ASSUME Typed, FinalInv, TicketInv, NEW p \in Proc, NEW j \in Jobs, NEW job \in Job,
         Write(p, j, job), Moves(p), UNCHANGED raised,
         pc[p] \notin {"save", "save_opt_out"},
         pc'[p] = "after", cur'[p] = j, held'[p][j] = job
  PROVE  TicketInv'
<1>1. torn \subseteq torn' /\ (j \notin torn' => <<p, j>> \in fresh)
  BY WriteFresh
<1>2. doc'[j] = job /\ \A i \in Jobs : i # j => doc'[i] = doc[i]
  BY WriteFrame
<1>3. j \notin torn' => doc[j].status # "exhausted"
  BY <1>1 DEF FinalInv, FreshOK, Final
<1>4. \A q \in Proc, i \in Jobs : AfterExhausted(q, i)' =>
        AfterExhausted(q, i) \/ (q = p /\ i = j /\ job.status = "exhausted")
  BY DEF Moves, AfterExhausted
<1>5. ASSUME NEW i \in Jobs \ torn', i # j
      PROVE  /\ raised'[i] <= 1
             /\ doc'[i].status # "exhausted" => raised'[i] = 0 /\ \A q \in Proc : ~AfterExhausted(q, i)'
             /\ \A q \in Proc : AfterExhausted(q, i)' =>
                  /\ raised'[i] = 0
                  /\ \A r \in Proc : AfterExhausted(r, i)' => r = q
  BY <1>1, <1>2, <1>4, <1>5 DEF TicketInv
<1>6. ASSUME j \notin torn'
      PROVE  /\ raised'[j] <= 1
             /\ doc'[j].status # "exhausted" => raised'[j] = 0 /\ \A q \in Proc : ~AfterExhausted(q, j)'
             /\ \A q \in Proc : AfterExhausted(q, j)' =>
                  /\ raised'[j] = 0
                  /\ \A r \in Proc : AfterExhausted(r, j)' => r = q
  BY <1>1, <1>2, <1>3, <1>4, <1>6 DEF TicketInv
<1> QED
  BY <1>5, <1>6 DEF TicketInv

LEMMA InitTicket == Init => TicketInv
  BY DEF Init, TicketInv, AfterExhausted, Absent

LEMMA StepTicket == Typed /\ FinalInv /\ TicketInv /\ [Next]_vars => TicketInv'
<1> SUFFICES ASSUME Typed, FinalInv, TicketInv, [Next]_vars PROVE TicketInv'
  OBVIOUS
<1> USE DEF Proc, Dispatchers
<1>1. ASSUME NEW r \in Requests, NEW j \in Jobs,
             Schedule(r, j) \/ Cancel(r, j) \/ DialNow(r, j) \/ Suppress(r, j)
     PROVE  TicketInv'
  <2>1. pc'[r] # "after" /\ Moves(r) /\ UNCHANGED <<doc, raised, torn>>
    BY <1>1 DEF Schedule, Cancel, DialNow, Suppress, Take, Typed, TypeOK, Moves, store
  <2> QED
    BY <2>1, MoveTicket
<1>2. ASSUME NEW ph \in Phones, Unsuppress(ph)
     PROVE  TicketInv'
  BY <1>2, StillTicket DEF Unsuppress, store
<1>3. ASSUME NEW p \in Proc, ListWaiting(p)
     PROVE  TicketInv'
  <2>1. pc'[p] # "after" /\ Moves(p) /\ UNCHANGED <<doc, raised, torn>>
    BY <1>3 DEF ListWaiting, List, Typed, TypeOK, Moves, store
  <2> QED
    BY <2>1, MoveTicket
<1>4. ASSUME NEW p \in Proc, NEW j \in Jobs, SuppressJob(p, j)
     PROVE  TicketInv'
  <2> DEFINE job == [held[p][j] EXCEPT !.status = "suppressed", !.due = FALSE]
  <2>1. Moves(p) /\ Write(p, j, job) /\ job \in Job /\ pc[p] = "suppress" /\ pc'[p] # "after"
    BY <1>4, SuppressFrame
  <2>2. UNCHANGED raised
    BY <1>4 DEF SuppressJob
  <2> HIDE DEF job
  <2>3. \A i \in Jobs \ torn' :
           i \notin torn /\ (doc[i].status = "exhausted" => doc'[i].status = "exhausted")
    BY <2>1, WriteKeeps
  <2> QED
    BY <2>1, <2>2, <2>3, MoveTicket
<1>5. ASSUME ListStale \/ ListDue
     PROVE  TicketInv'
  <2>1. pc'[Loop] # "after" /\ Moves(Loop) /\ UNCHANGED <<doc, raised, torn>>
    BY <1>5 DEF ListStale, ListDue, List, Typed, TypeOK, Moves, store
  <2> QED
    BY <2>1, MoveTicket
<1>6. ASSUME NEW j \in Jobs, ExpireStale(j)
     PROVE  TicketInv'
  <2>1. UNCHANGED raised
    BY <1>6 DEF ExpireStale
  <2> QED
    BY <1>6, <2>1, ExpireFrame, WriteTicket
<1>7. ASSUME NEW p \in Dispatchers, NEW j \in Jobs, Gate(p, j)
     PROVE  TicketInv'
  <2>1. pc'[p] # "after" /\ Moves(p) /\ UNCHANGED <<doc, raised, torn>>
    BY <1>7 DEF Gate, Typed, TypeOK, Moves, store, ghost
  <2> QED
    BY <2>1, MoveTicket
<1>8. ASSUME NEW p \in Dispatchers,
             Count(p) \/ DialCallee(p) \/ DialFails(p) \/ AssistantMissing(p)
     PROVE  TicketInv'
  <2>1. pc'[p] # "after" /\ Moves(p) /\ UNCHANGED <<doc, raised>> /\ torn \subseteq torn'
    BY <1>8 DEF Count, DialCallee, DialFails, AssistantMissing, Change, Typed, TypeOK, Moves, store, ghost
  <2>2. \A i \in Jobs \ torn' :
           i \notin torn /\ (doc[i].status = "exhausted" => doc'[i].status = "exhausted")
    BY <2>1
  <2> QED
    BY <2>1, <2>2, MoveTicket
<1>9. ASSUME NEW p \in Proc, Save(p)
     PROVE  TicketInv'
  <2>1. cur[p] \in Jobs
    BY <1>9 DEF Save, Typed, CurOK, Working
  <2>2. Mine(p) \in Job /\ Write(p, cur[p], Mine(p)) /\ Mine(p) = held[p][cur[p]]
    BY <1>9, <2>1, MineType DEF Save, Mine
  <2>3. Moves(p) /\ pc'[p] # "after"
    BY <1>9, <2>1, LeaveFrame DEF Save
  <2>4. UNCHANGED raised
    BY <1>9 DEF Save
  <2>5. \A i \in Jobs \ torn' :
           i \notin torn /\ (doc[i].status = "exhausted" => doc'[i].status = "exhausted")
    BY <2>1, <2>2, WriteKeeps
  <2> QED
    BY <2>3, <2>4, <2>5, MoveTicket
<1>10. ASSUME NEW p \in Proc, SaveThen(p)
     PROVE  TicketInv'
  <2>1. cur[p] \in Jobs
    BY <1>10 DEF SaveThen, Typed, CurOK, Working
  <2>2. Mine(p) \in Job /\ Write(p, cur[p], Mine(p)) /\ Mine(p) = held[p][cur[p]]
    BY <1>10, <2>1, MineType DEF SaveThen, Mine
  <2>3. Moves(p) /\ UNCHANGED <<raised, cur, held>>
    BY <1>10 DEF SaveThen, Typed, TypeOK, Moves
  <2>4. CASE pc[p] = "save_after"
    <3>1. pc'[p] = "after"
      BY <1>10, <2>4 DEF SaveThen, Typed, TypeOK
    <3> QED
      BY <2>1, <2>2, <2>3, <2>4, <3>1, WriteTicket
  <2>5. CASE pc[p] = "save_opt_out"
    <3>1. pc'[p] # "after"
      BY <1>10, <2>5 DEF SaveThen, Typed, TypeOK
    <3>2. \A i \in Jobs \ torn' :
             i \notin torn /\ (doc[i].status = "exhausted" => doc'[i].status = "exhausted")
      BY <2>1, <2>2, WriteKeeps
    <3> QED
      BY <2>3, <3>1, <3>2, MoveTicket
  <2> QED
    BY <1>10, <2>4, <2>5 DEF SaveThen
<1>11. ASSUME NEW p \in Proc, AfterSave(p)
     PROVE  TicketInv'
  <2>1. cur[p] \in Jobs /\ pc[p] = "after"
    BY <1>11 DEF AfterSave, Typed, CurOK, Working
  <2>2. Moves(p) /\ pc'[p] # "after"
    BY <1>11, <2>1, LeaveFrame DEF AfterSave
  <2>3. UNCHANGED <<doc, torn>>
    BY <1>11 DEF AfterSave, ghost
  <2>4. \A i \in Jobs : i # cur[p] => raised'[i] = raised[i]
    BY <1>11, <2>1 DEF AfterSave, Typed, TypeOK
  <2>5. \/ UNCHANGED raised
        \/ raised'[cur[p]] = raised[cur[p]] + 1 /\ AfterExhausted(p, cur[p])
    BY <1>11, <2>1 DEF AfterSave, AfterExhausted, Unreachable, Mine, Typed, TypeOK
  <2>6. CASE UNCHANGED raised
    BY <2>2, <2>3, <2>6, MoveTicket
  <2>7. CASE raised'[cur[p]] = raised[cur[p]] + 1 /\ AfterExhausted(p, cur[p])
    <3>1. \A q \in Proc, i \in Jobs : AfterExhausted(q, i)' => AfterExhausted(q, i) /\ q # p
      BY <2>2 DEF Moves, AfterExhausted
    <3> QED
      BY <2>1, <2>3, <2>4, <2>7, <3>1 DEF TicketInv
  <2> QED
    BY <2>5, <2>6, <2>7
<1>12. ASSUME NEW p \in Proc, OptOut(p)
     PROVE  TicketInv'
  <2>1. pc'[p] # "after" /\ Moves(p) /\ UNCHANGED <<doc, raised, torn>>
    BY <1>12 DEF OptOut, Typed, TypeOK, Moves
  <2> QED
    BY <2>1, MoveTicket
<1>13. ASSUME NEW h \in Handlers, NEW m \in inbox,
              OnCallStarted(h, m) \/ OnCallEnded(h, m) \/ WorkerOutcome(h, m)
     PROVE  TicketInv'
  <2>1. UNCHANGED <<doc, raised, torn>> /\ pc[h] = "idle"
    BY <1>13 DEF OnCallStarted, OnCallEnded, WorkerOutcome, store
  <2>2. \/ UNCHANGED <<pc, cur, held>>
        \/ \E j, job, next : next # "after" /\ Take(h, j, job, next)
    BY <1>13 DEF OnCallStarted, OnCallEnded, WorkerOutcome
  <2>3. pc'[h] # "after" /\ Moves(h)
    BY <2>1, <2>2 DEF Take, Typed, TypeOK, Moves
  <2> QED
    BY <2>1, <2>3, MoveTicket
<1>14. ASSUME NEW k \in DOMAIN dials, Worker(k)
     PROVE  TicketInv'
  BY <1>14, StillTicket DEF Worker, StartCall, ReportOutcome, EndCall, Progress, store, ghost
<1>15. ASSUME NEW j \in Jobs, BecomeDue(j) \/ BecomeStale(j)
     PROVE  TicketInv'
  <2>0. doc \in [Jobs -> Job] /\ doc[j] \in Job
    BY DEF Typed, TypeOK
  <2>1. \A i \in Jobs : doc'[i].status = doc[i].status
    <3>1. \/ doc' = [doc EXCEPT ![j] = [doc[j] EXCEPT !.due = TRUE]]
          \/ doc' = [doc EXCEPT ![j] = [doc[j] EXCEPT !.aged = TRUE]]
      BY <1>15 DEF BecomeDue, BecomeStale
    <3>2. /\ [doc[j] EXCEPT !.due = TRUE].status = doc[j].status
          /\ [doc[j] EXCEPT !.aged = TRUE].status = doc[j].status
      BY <2>0 DEF Job
    <3> QED
      BY <2>0, <3>1, <3>2
  <2>2. UNCHANGED <<pc, cur, held>> /\ UNCHANGED raised /\ UNCHANGED torn
    BY <1>15 DEF BecomeDue, BecomeStale, local, ghost
  <2> QED
    BY <2>1, <2>2, StillTicket DEF local
<1>16. ASSUME NEW j \in Jobs, DeadlinePasses(j)
     PROVE  TicketInv'
  BY <1>16, StillTicket DEF DeadlinePasses, store, ghost
<1>17. ASSUME NEW ps \in SUBSET Proc, Stop(ps)
     PROVE  TicketInv'
  <2>1. UNCHANGED <<doc, raised>> /\ torn \subseteq torn'
    BY <1>17, StopFrame
  <2>2. \A q \in Proc, j \in Jobs : AfterExhausted(q, j)' => AfterExhausted(q, j)
    <3> SUFFICES ASSUME NEW q \in Proc, NEW j \in Jobs, AfterExhausted(q, j)'
                 PROVE  AfterExhausted(q, j)
      OBVIOUS
    <3>1. q \notin ps
      BY <1>17, StopFrame DEF AfterExhausted
    <3> QED
      BY <1>17, <3>1, StopFrame DEF AfterExhausted
  <2> QED
    BY <2>1, <2>2 DEF TicketInv
<1>18. ASSUME UNCHANGED vars
     PROVE  TicketInv'
  BY <1>18, StillTicket DEF vars, store, ghost
<1> QED
  BY <1>1, <1>2, <1>3, <1>4, <1>5, <1>6, <1>7, <1>8, <1>9, <1>10, <1>11, <1>12, <1>13, <1>14, <1>15, <1>16, <1>17, <1>18, Stops
  DEF Next, Dispatch, Persist, Request, Handle

\* An unreachable lead gets one ticket, however the handlers and the loop overlap.
THEOREM OneTicketEach == Spec => []OneTicket
<1>1. Init => Typed /\ FinalInv /\ TicketInv
  BY InitTyped, InitFinal, InitTicket
<1>2. (Typed /\ FinalInv /\ TicketInv) /\ [Next]_vars => (Typed /\ FinalInv /\ TicketInv)'
  BY StepTyped, StepFinal, StepTicket
<1>3. TicketInv => OneTicket
  BY DEF TicketInv, OneTicket
<1> QED
  BY <1>1, <1>2, <1>3, PTL DEF Spec

-------------------------------------------------------------------------------
(* Grace: the calls a listed number may still get.                              *)

\* A listed number is granted no fewer calls than dispatches are past its gate.
GraceInv == \A ph \in Phones : ph \in dnc => grace[ph] >= Cardinality(Inflight(ph))

LEMMA InflightIsFinite ==
  ASSUME NEW ph
  PROVE  IsFiniteSet(Inflight(ph))
<1>1. IsFiniteSet(Dispatchers)
  BY OutboundAssumption, FS_EmptySet, FS_AddElement, FS_Union, FS_Singleton DEF Dispatchers
<1> QED
  BY <1>1, FS_Subset DEF Inflight

\* Fewer dispatches are under way, for every number that was and stays listed.
LEMMA FewerGrace ==
  ASSUME Typed, GraceInv,
         \A ph \in Phones : ph \in dnc' =>
           ph \in dnc /\ grace'[ph] = grace[ph] /\ Inflight(ph)' \subseteq Inflight(ph)
  PROVE  GraceInv'
<1> SUFFICES ASSUME NEW ph \in Phones, ph \in dnc'
             PROVE  grace'[ph] >= Cardinality(Inflight(ph)')
  BY DEF GraceInv
<1>1. ph \in dnc /\ grace'[ph] = grace[ph] /\ Inflight(ph)' \subseteq Inflight(ph)
  OBVIOUS
<1> DEFINE S == Inflight(ph)
           T == Inflight(ph)'
<1>2. IsFiniteSet(S)
  BY InflightIsFinite
<1>3. grace[ph] >= Cardinality(S) /\ grace[ph] \in Int
  BY <1>1 DEF GraceInv, Typed, TypeOK
<1>4. T \subseteq S
  BY <1>1
<1> HIDE DEF S, T
<1>5. Cardinality(T) <= Cardinality(S) /\ IsFiniteSet(T)
  BY <1>2, <1>4, FS_Subset
<1>6. Cardinality(T) \in Nat /\ Cardinality(S) \in Nat
  BY <1>2, <1>5, FS_CardinalityType
<1>7. grace'[ph] >= Cardinality(T)
  BY <1>1, <1>3, <1>5, <1>6
<1> QED
  BY <1>7 DEF T

LEMMA MoveGrace ==
  ASSUME Typed, GraceInv, NEW p \in Proc, Moves(p), UNCHANGED <<dnc, grace>>,
         pc'[p] \notin {"count", "dial"}
  PROVE  GraceInv'
<1>1. \A ph \in Phones : Inflight(ph)' \subseteq Inflight(ph)
  BY DEF Moves, Inflight, Dispatchers, Proc
<1> QED
  BY <1>1, FewerGrace

LEMMA StillGrace ==
  ASSUME Typed, GraceInv, UNCHANGED local, UNCHANGED <<dnc, grace>>
  PROVE  GraceInv'
<1>1. \A ph \in Phones : Inflight(ph)' \subseteq Inflight(ph)
  BY DEF local, Inflight
<1> QED
  BY <1>1, FewerGrace

\* Listing a number gives it the dispatches under way, and no more.
LEMMA ListGrace ==
  ASSUME Typed, GraceInv, NEW p \in Proc, NEW ph \in Phones, Moves(p), ListNumber(p, ph),
         pc'[p] = "list"
  PROVE  GraceInv'
<1>1. \A x \in Phones : Inflight(x)' \subseteq Inflight(x)
  BY DEF Moves, Inflight, Dispatchers, Proc
<1>2. CASE ph \in dnc
  <2>1. dnc' = dnc /\ grace' = grace
    BY <1>2 DEF ListNumber
  <2> QED
    BY <1>1, <2>1, FewerGrace
<1>3. CASE ph \notin dnc
  <2>1. /\ dnc' = dnc \cup {ph}
        /\ grace' = [grace EXCEPT ![ph] = Cardinality(Inflight(ph))]
    BY <1>3 DEF ListNumber
  <2>2. SUFFICES ASSUME NEW x \in Phones, x \in dnc'
                 PROVE  grace'[x] >= Cardinality(Inflight(x)')
    BY DEF GraceInv
  <2>3. grace'[x] >= Cardinality(Inflight(x)) /\ grace'[x] \in Int
    <3>1. grace \in [Phones -> Int] /\ Cardinality(Inflight(ph)) \in Int
      BY InflightFinite DEF Typed, TypeOK
    <3>2. CASE x = ph
      BY <2>1, <3>1, <3>2
    <3>3. CASE x # ph
      BY <2>1, <2>2, <3>1, <3>3 DEF GraceInv
    <3> QED
      BY <3>2, <3>3
  <2> DEFINE S == Inflight(x)
             T == Inflight(x)'
  <2>4. IsFiniteSet(S) /\ T \subseteq S
    BY <1>1, InflightIsFinite
  <2> HIDE DEF S, T
  <2>5. Cardinality(T) <= Cardinality(S) /\ IsFiniteSet(T)
    BY <2>4, FS_Subset
  <2>6. Cardinality(T) \in Nat /\ Cardinality(S) \in Nat
    BY <2>4, <2>5, FS_CardinalityType
  <2>7. grace'[x] >= Cardinality(S)
    BY <2>3 DEF S
  <2>8. grace'[x] >= Cardinality(T)
    BY <2>3, <2>5, <2>6, <2>7
  <2> QED
    BY <2>8 DEF T
<1> QED
  BY <1>2, <1>3

\* A dispatch that calls uses up its share.
LEMMA CallGrace ==
  ASSUME Typed, GraceInv, NEW p \in Dispatchers, cur[p] \in Jobs, pc[p] = "dial",
         Moves(p), PlaceCall(p), pc'[p] \notin {"count", "dial"}, UNCHANGED dnc
  PROVE  GraceInv'
<1>0. p \in Proc /\ PhoneOf[cur[p]] \in Phones /\ grace \in [Phones -> Int]
  BY OutboundAssumption DEF Proc, Dispatchers, Typed, TypeOK
<1> DEFINE ph == PhoneOf[cur[p]]
<1>1. \A x \in Phones : Inflight(x)' \subseteq Inflight(x)
  BY DEF Moves, Inflight, Dispatchers, Proc
<1>2. CASE ph \notin dnc
  <2>1. grace' = grace
    BY <1>2 DEF PlaceCall
  <2> QED
    BY <1>1, <2>1, FewerGrace
<1>3. CASE ph \in dnc
  <2>1. grace' = [grace EXCEPT ![ph] = grace[ph] - 1]
    BY <1>3 DEF PlaceCall
  <2>2. \A x \in Phones : x = ph => p \in Inflight(x) /\ p \notin Inflight(x)'
    BY DEF Inflight
  <2> HIDE DEF ph
  <2>3. SUFFICES ASSUME NEW x \in Phones, x \in dnc'
                 PROVE  grace'[x] >= Cardinality(Inflight(x)')
    BY DEF GraceInv
  <2> DEFINE S == Inflight(x)
             T == Inflight(x)'
  <2>4. IsFiniteSet(S) /\ T \subseteq S /\ (x = ph => p \in S /\ p \notin T)
    BY <1>1, <2>2, InflightIsFinite
  <2>5. grace[x] >= Cardinality(S)
    BY <2>3 DEF GraceInv
  <2>6. grace[x] \in Int /\ grace'[x] = IF x = ph THEN grace[x] - 1 ELSE grace[x]
    BY <1>0, <2>1
  <2> HIDE DEF S, T
  <2>7. /\ IsFiniteSet(S \ {p})
        /\ Cardinality(S \ {p}) = IF p \in S THEN Cardinality(S) - 1 ELSE Cardinality(S)
    BY <2>4, FS_RemoveElement
  <2>8. Cardinality(S) \in Nat /\ Cardinality(S \ {p}) \in Nat
    BY <2>4, <2>7, FS_CardinalityType
  <2>9. CASE x = ph
    <3>1. T \subseteq S \ {p}
      BY <2>4, <2>9
    <3>2. IsFiniteSet(T) /\ Cardinality(T) <= Cardinality(S \ {p})
      BY <2>7, <3>1, FS_Subset
    <3>3. Cardinality(T) \in Nat
      BY <3>2, FS_CardinalityType
    <3>4. grace'[x] >= Cardinality(T)
      BY <2>4, <2>5, <2>6, <2>7, <2>8, <2>9, <3>2, <3>3
    <3> QED
      BY <3>4 DEF T
  <2>10. CASE x # ph
    <3>1. IsFiniteSet(T) /\ Cardinality(T) <= Cardinality(S)
      BY <2>4, FS_Subset
    <3>2. Cardinality(T) \in Nat
      BY <3>1, FS_CardinalityType
    <3>3. grace'[x] >= Cardinality(T)
      BY <2>5, <2>6, <2>8, <2>10, <3>1, <3>2
    <3> QED
      BY <3>3 DEF T
  <2> QED
    BY <2>9, <2>10
<1> QED
  BY <1>2, <1>3

LEMMA InitGrace == Init => GraceInv
  BY DEF Init, GraceInv

LEMMA StepGrace == Typed /\ GraceInv /\ [Next]_vars => GraceInv'
<1> SUFFICES ASSUME Typed, GraceInv, [Next]_vars PROVE GraceInv'
  OBVIOUS
<1> USE DEF Proc, Dispatchers
<1>1. ASSUME NEW r \in Requests, NEW j \in Jobs,
             Schedule(r, j) \/ Cancel(r, j) \/ DialNow(r, j)
     PROVE  GraceInv'
  <2>1. pc'[r] \notin {"count", "dial"} /\ Moves(r) /\ UNCHANGED <<dnc, grace>>
    BY <1>1 DEF Schedule, Cancel, DialNow, Take, Typed, TypeOK, Moves, store
  <2> QED
    BY <2>1, MoveGrace
<1>2. ASSUME NEW r \in Requests, NEW j \in Jobs, Suppress(r, j)
     PROVE  GraceInv'
  <2>1. pc'[r] = "list" /\ Moves(r) /\ PhoneOf[j] \in Phones
    BY <1>2, OutboundAssumption DEF Suppress, Typed, TypeOK, Moves
  <2> QED
    BY <1>2, <2>1, ListGrace DEF Suppress
<1>3. ASSUME NEW ph \in Phones, Unsuppress(ph)
     PROVE  GraceInv'
  <2>1. \A x \in Phones : Inflight(x)' \subseteq Inflight(x)
    BY <1>3 DEF Unsuppress, local, Inflight
  <2>2. \A x \in Phones : x \in dnc' => x \in dnc /\ grace'[x] = grace[x]
    BY <1>3 DEF Unsuppress, Typed, TypeOK
  <2> QED
    BY <2>1, <2>2, FewerGrace
<1>4. ASSUME NEW p \in Proc, ListWaiting(p)
     PROVE  GraceInv'
  <2>1. pc'[p] \notin {"count", "dial"} /\ Moves(p) /\ UNCHANGED <<dnc, grace>>
    BY <1>4 DEF ListWaiting, List, Typed, TypeOK, Moves, store
  <2> QED
    BY <2>1, MoveGrace
<1>5. ASSUME NEW p \in Proc, NEW j \in Jobs, SuppressJob(p, j)
     PROVE  GraceInv'
  <2>1. pc'[p] \notin {"count", "dial"} /\ Moves(p)
    BY <1>5, SuppressFrame
  <2>2. UNCHANGED <<dnc, grace>>
    BY <1>5 DEF SuppressJob
  <2> QED
    BY <2>1, <2>2, MoveGrace
<1>6. ASSUME ListStale \/ ListDue
     PROVE  GraceInv'
  <2>1. pc'[Loop] \notin {"count", "dial"} /\ Moves(Loop) /\ UNCHANGED <<dnc, grace>>
    BY <1>6 DEF ListStale, ListDue, List, Typed, TypeOK, Moves, store
  <2> QED
    BY <2>1, MoveGrace
<1>7. ASSUME NEW j \in Jobs, ExpireStale(j)
     PROVE  GraceInv'
  <2>1. UNCHANGED <<dnc, grace>>
    BY <1>7 DEF ExpireStale
  <2>2. pc'[Loop] = "after" /\ Moves(Loop)
    BY <1>7, ExpireFrame
  <2> QED
    BY <2>1, <2>2, MoveGrace
<1>8. ASSUME NEW p \in Dispatchers, NEW j \in Jobs, Gate(p, j)
     PROVE  GraceInv'
  <2>1. Moves(p) /\ UNCHANGED <<dnc, grace>>
    BY <1>8 DEF Gate, Typed, TypeOK, Moves, store, ghost
  <2>2. \/ pc'[p] = "save"
        \/ PhoneOf[j] \notin dnc /\ cur'[p] = j
    BY <1>8 DEF Gate, Listed, Typed, TypeOK
  <2>3. CASE pc'[p] = "save"
    BY <2>1, <2>3, MoveGrace
  <2>4. CASE PhoneOf[j] \notin dnc /\ cur'[p] = j
    <3>1. \A x \in Phones : x \in dnc' => Inflight(x)' \subseteq Inflight(x)
      BY <2>1, <2>4 DEF Moves, Inflight
    <3> QED
      BY <2>1, <3>1, FewerGrace
  <2> QED
    BY <2>2, <2>3, <2>4
<1>9. ASSUME NEW p \in Dispatchers, Count(p)
     PROVE  GraceInv'
  <2>1. Moves(p) /\ UNCHANGED <<dnc, grace, cur>> /\ pc[p] = "count"
    BY <1>9 DEF Count, Change, Typed, TypeOK, Moves, store, ghost
  <2>2. \A x \in Phones : Inflight(x)' \subseteq Inflight(x)
    BY <2>1 DEF Moves, Inflight
  <2> QED
    BY <2>1, <2>2, FewerGrace
<1>10. ASSUME NEW p \in Dispatchers, DialCallee(p) \/ DialFails(p)
     PROVE  GraceInv'
  <2>1. cur[p] \in Jobs /\ pc[p] = "dial"
    BY <1>10 DEF DialCallee, DialFails, Typed, CurOK, Working
  <2>2. Moves(p) /\ pc'[p] \notin {"count", "dial"} /\ UNCHANGED dnc
    BY <1>10 DEF DialCallee, DialFails, Change, Typed, TypeOK, Moves, store
  <2>3. PlaceCall(p) \/ UNCHANGED grace
    BY <1>10 DEF DialCallee, DialFails
  <2> QED
    BY <2>1, <2>2, <2>3, CallGrace, MoveGrace
<1>11. ASSUME NEW p \in Dispatchers, AssistantMissing(p)
     PROVE  GraceInv'
  <2>1. Moves(p) /\ pc'[p] \notin {"count", "dial"} /\ UNCHANGED <<dnc, grace>>
    BY <1>11 DEF AssistantMissing, Change, Typed, TypeOK, Moves, store, ghost
  <2> QED
    BY <2>1, MoveGrace
<1>12. ASSUME NEW p \in Proc, Save(p) \/ SaveThen(p) \/ AfterSave(p)
     PROVE  GraceInv'
  <2>1. Moves(p) /\ pc'[p] \notin {"count", "dial"} /\ UNCHANGED <<dnc, grace>>
    BY <1>12 DEF Save, SaveThen, AfterSave, Leave, Typed, TypeOK, Moves, ghost
  <2> QED
    BY <2>1, MoveGrace
<1>13. ASSUME NEW p \in Proc, OptOut(p)
     PROVE  GraceInv'
  <2>1. cur[p] \in Jobs
    BY <1>13 DEF OptOut, Typed, CurOK, Working
  <2>2. pc'[p] = "list" /\ Moves(p) /\ PhoneOf[cur[p]] \in Phones
    BY <1>13, <2>1, OutboundAssumption DEF OptOut, Typed, TypeOK, Moves
  <2> QED
    BY <1>13, <2>2, ListGrace DEF OptOut
<1>14. ASSUME NEW h \in Handlers, NEW m \in inbox,
              OnCallStarted(h, m) \/ OnCallEnded(h, m) \/ WorkerOutcome(h, m)
     PROVE  GraceInv'
  <2>1. UNCHANGED <<dnc, grace>> /\ pc[h] = "idle"
    BY <1>14 DEF OnCallStarted, OnCallEnded, WorkerOutcome, store
  <2>2. \/ UNCHANGED <<pc, cur, held>>
        \/ \E j, job, next : next \notin {"count", "dial"} /\ Take(h, j, job, next)
    BY <1>14 DEF OnCallStarted, OnCallEnded, WorkerOutcome
  <2>3. pc'[h] \notin {"count", "dial"} /\ Moves(h)
    BY <2>1, <2>2 DEF Take, Typed, TypeOK, Moves
  <2> QED
    BY <2>1, <2>3, MoveGrace
<1>15. ASSUME NEW k \in DOMAIN dials, Worker(k)
     PROVE  GraceInv'
  BY <1>15, StillGrace DEF Worker, StartCall, ReportOutcome, EndCall, Progress, store, ghost
<1>16. ASSUME NEW j \in Jobs, BecomeDue(j) \/ BecomeStale(j) \/ DeadlinePasses(j)
     PROVE  GraceInv'
  BY <1>16, StillGrace DEF BecomeDue, BecomeStale, DeadlinePasses, store, ghost
<1>17. ASSUME NEW ps \in SUBSET Proc, Stop(ps)
     PROVE  GraceInv'
  <2>1. \A x \in Phones : Inflight(x)' \subseteq Inflight(x)
    BY <1>17 DEF Stop, Inflight
  <2> QED
    BY <1>17, <2>1, FewerGrace DEF Stop, store
<1>18. ASSUME UNCHANGED vars
     PROVE  GraceInv'
  BY <1>18, StillGrace DEF vars, store, ghost
<1> QED
  BY <1>1, <1>2, <1>3, <1>4, <1>5, <1>6, <1>7, <1>8, <1>9, <1>10, <1>11, <1>12, <1>13, <1>14, <1>15, <1>16, <1>17, <1>18, Stops
  DEF Next, Dispatch, Persist, Request, Handle

-------------------------------------------------------------------------------
(* The ledger: calls placed and calls recorded.                                 *)

\* The processes that placed a call for j and have not saved it.
Unsaving(j) ==
  {p \in Dispatchers : pc[p] = "save" /\ cur[p] = j /\ held[p][j].status = "dialing"}

\* Every call is recorded by its attempt, or is still to be saved.
Tally ==
  \A j \in Jobs \ torn : Called(doc[j]) + Cardinality(Unsaving(j)) = Cardinality(CallsTo({j}))

\* A fresh copy has the calls of the document, and the one it has to save.
FreshTally ==
  \A p \in Proc, j \in Jobs :
    <<p, j>> \in fresh /\ held[p][j] # Absent =>
      LET n == IF p \in Unsaving(j) THEN 1 ELSE 0
      IN /\ Called(held[p][j]) = Called(doc[j]) + n
         /\ Len(held[p][j].attempts) >= Len(doc[j].attempts) + n

TallyInv == Tally /\ FreshTally

\* Copy a records the calls that b does.
SameCalls(a, b) == Called(a) = Called(b) /\ Len(a.attempts) >= Len(b.attempts)

LEMMA CalledType ==
  ASSUME NEW job \in Job
  PROVE  Called(job) \in Nat /\ Len(job.attempts) \in Nat
<1> DEFINE n == Len(job.attempts)
           S == {i \in DOMAIN job.attempts : job.attempts[i].called}
<1>1. n \in Nat /\ DOMAIN job.attempts = 1..n
  BY DEF Job
<1>2. IsFiniteSet(1..n) /\ S \subseteq 1..n
  BY <1>1, FS_Interval
<1> HIDE DEF n, S
<1>3. IsFiniteSet(S)
  BY <1>2, FS_Subset
<1>4. Cardinality(S) \in Nat
  BY <1>3, FS_CardinalityType
<1> QED
  BY <1>1, <1>4 DEF n, S, Called

LEMMA SameAttempts ==
  ASSUME NEW a \in Job, NEW b \in Job, a.attempts = b.attempts
  PROVE  SameCalls(a, b)
<1>1. Len(a.attempts) \in Nat
  BY CalledType
<1> QED
  BY <1>1 DEF SameCalls, Called

LEMMA WithLastCalls ==
  ASSUME NEW job \in Job, NEW o \in Outcome
  PROVE  SameCalls(WithLast(job, o), job)
<1>1. CASE job.attempts = <<>>
  BY <1>1, SameAttempts DEF WithLast
<1>2. CASE job.attempts # <<>>
  <2> DEFINE n == Len(job.attempts)
             new == [job.attempts EXCEPT ![n].outcome = o]
  <2>1. n \in Nat /\ n \in 1..n /\ job.attempts \in Seq(Attempt)
    BY <1>2 DEF Job
  <2>2. /\ DOMAIN new = DOMAIN job.attempts /\ Len(new) = n
        /\ \A i \in DOMAIN job.attempts : new[i].called = job.attempts[i].called
    BY <2>1 DEF Attempt
  <2>3. WithLast(job, o).attempts = new
    BY <1>2 DEF WithLast, Job
  <2> HIDE DEF new
  <2>4. {i \in DOMAIN new : new[i].called} = {i \in DOMAIN job.attempts : job.attempts[i].called}
    BY <2>2
  <2>5. Called(WithLast(job, o)) = Cardinality({i \in DOMAIN new : new[i].called})
    BY <2>3 DEF Called
  <2>6. Called(job) = Cardinality({i \in DOMAIN job.attempts : job.attempts[i].called})
    BY DEF Called
  <2>7. Called(WithLast(job, o)) = Called(job)
    BY <2>4, <2>5, <2>6
  <2>8. Len(WithLast(job, o).attempts) >= Len(job.attempts)
    BY <2>1, <2>2, <2>3
  <2> QED
    BY <2>7, <2>8 DEF SameCalls
<1> QED
  BY <1>1, <1>2

\* A new attempt is one more, and one more call if it has one.
LEMMA WithAttemptCalls ==
  ASSUME NEW job \in Job, NEW o \in Outcome, NEW called \in BOOLEAN
  PROVE  /\ Called(WithAttempt(job, o, called)) = Called(job) + (IF called THEN 1 ELSE 0)
         /\ Len(WithAttempt(job, o, called).attempts) = Len(job.attempts) + 1
<1> DEFINE a == [outcome |-> o, called |-> called]
           old == job.attempts
           new == Append(old, a)
           n == Len(old)
           S == {i \in DOMAIN old : old[i].called}
           T == {i \in DOMAIN new : new[i].called}
<1>1. WithAttempt(job, o, called).attempts = new
  BY DEF WithAttempt, Job
<1>2. old \in Seq(Attempt) /\ n \in Nat /\ DOMAIN old = 1..n /\ a \in Attempt /\ a.called = called
  BY DEF Job, Attempt
<1>3. /\ Len(new) = n + 1 /\ DOMAIN new = 1..(n + 1)
      /\ \A i \in 1..n : new[i] = old[i]
      /\ new[n + 1] = a
  BY <1>2
<1>4. IsFiniteSet(S) /\ n + 1 \notin S
  <2>1. IsFiniteSet(1..n) /\ S \subseteq 1..n
    BY <1>2, FS_Interval
  <2>2. n + 1 \notin 1..n
    BY <1>2
  <2> HIDE DEF S, n
  <2> QED
    BY <2>1, <2>2, FS_Subset
<1>5. T = IF called THEN S \cup {n + 1} ELSE S
  <2>1. \A i \in 1..(n + 1) : i \in 1..n \/ i = n + 1
    BY <1>2
  <2>2. n + 1 \in 1..(n + 1) /\ 1..n \subseteq 1..(n + 1)
    BY <1>2
  <2> QED
    BY <1>2, <1>3, <2>1, <2>2
<1>6. /\ Cardinality(S \cup {n + 1}) = Cardinality(S) + 1
      /\ Cardinality(S) \in Nat
  BY <1>4, FS_AddElement, FS_CardinalityType
<1>7. Cardinality(T) = Cardinality(S) + (IF called THEN 1 ELSE 0)
  <2> HIDE DEF T, S, n
  <2>1. CASE called
    <3>1. T = S \cup {n + 1}
      BY <1>5, <2>1
    <3>2. Cardinality(T) = Cardinality(S) + 1
      BY <1>6, <3>1
    <3> QED
      BY <2>1, <3>2
  <2>2. CASE ~called
    <3>1. T = S
      BY <1>5, <2>2
    <3>2. Cardinality(T) = Cardinality(S) + 0
      BY <1>6, <3>1
    <3> QED
      BY <2>2, <3>2
  <2> QED
    BY <2>1, <2>2
<1>8. Called(WithAttempt(job, o, called)) = Cardinality(T) /\ Called(job) = Cardinality(S)
  BY <1>1 DEF Called
<1> QED
  BY <1>1, <1>3, <1>7, <1>8

LEMMA UnsavingFinite ==
  ASSUME NEW j
  PROVE  IsFiniteSet(Unsaving(j)) /\ Cardinality(Unsaving(j)) \in Nat
<1>1. IsFiniteSet(Dispatchers)
  BY OutboundAssumption, FS_EmptySet, FS_AddElement, FS_Union, FS_Singleton DEF Dispatchers
<1> QED
  BY <1>1, FS_Subset, FS_CardinalityType DEF Unsaving

LEMMA CallsFinite ==
  ASSUME Typed, NEW js
  PROVE  IsFiniteSet(CallsTo(js)) /\ Cardinality(CallsTo(js)) \in Nat
<1> DEFINE n == Len(dials)
           S == CallsTo(js)
<1>1. n \in Nat /\ DOMAIN dials = 1..n
  BY DEF Typed, TypeOK
<1>2. IsFiniteSet(1..n) /\ S \subseteq 1..n
  BY <1>1, FS_Interval DEF CallsTo
<1> HIDE DEF n, S
<1> QED
  BY <1>2, FS_Subset, FS_CardinalityType DEF S

-------------------------------------------------------------------------------

LEMMA UnsavingStays ==
  ASSUME NEW p \in Proc, Moves(p), NEW j \in Jobs, p \notin Unsaving(j), p \notin Unsaving(j)'
  PROVE  Unsaving(j)' = Unsaving(j)
  BY DEF Moves, Unsaving, Proc, Dispatchers

\* p moves, and places and saves nothing.
LEMMA MoveTally ==
  ASSUME Typed, Typed', TallyInv, NEW p \in Proc, Moves(p), UNCHANGED doc, torn \subseteq torn',
         \A j \in Jobs \ torn' : CallsTo({j})' = CallsTo({j}),
         \A j \in Jobs : p \notin Unsaving(j) /\ p \notin Unsaving(j)',
         \A q \in Proc, j \in Jobs : <<q, j>> \in fresh' => <<q, j>> \in fresh \/ q = p,
         \A j \in Jobs : <<p, j>> \in fresh' /\ held'[p][j] # Absent =>
           \/ SameCalls(held'[p][j], doc[j])
           \/ <<p, j>> \in fresh /\ held[p][j] # Absent /\ SameCalls(held'[p][j], held[p][j])
  PROVE  TallyInv'
<1>1. \A j \in Jobs : Unsaving(j)' = Unsaving(j)
  BY UnsavingStays
<1>2. Tally'
  BY <1>1 DEF TallyInv, Tally
<1>3. ASSUME NEW q \in Proc, NEW j \in Jobs, <<q, j>> \in fresh', held'[q][j] # Absent, q # p
      PROVE  /\ <<q, j>> \in fresh /\ held'[q][j] = held[q][j]
             /\ Called(held[q][j]) = Called(doc[j]) + (IF q \in Unsaving(j) THEN 1 ELSE 0)
             /\ Len(held[q][j].attempts) >= Len(doc[j].attempts) + (IF q \in Unsaving(j) THEN 1 ELSE 0)
  <2>1. <<q, j>> \in fresh /\ held'[q][j] = held[q][j]
    BY <1>3 DEF Moves
  <2> QED
    BY <1>3, <2>1 DEF TallyInv, FreshTally
<1>4. ASSUME NEW j \in Jobs, <<p, j>> \in fresh', held'[p][j] # Absent
      PROVE  SameCalls(held'[p][j], doc[j])
  <2>1. CASE SameCalls(held'[p][j], doc[j])
    BY <2>1
  <2>2. CASE <<p, j>> \in fresh /\ held[p][j] # Absent /\ SameCalls(held'[p][j], held[p][j])
    <3>1. Called(held[p][j]) = Called(doc[j]) + 0 /\ Len(held[p][j].attempts) >= Len(doc[j].attempts) + 0
      BY <2>2 DEF TallyInv, FreshTally
    <3>2. held[p][j] \in Job /\ doc[j] \in Job /\ held'[p][j] \in Job
      BY DEF Typed, TypeOK
    <3>3. /\ Called(doc[j]) \in Nat /\ Len(doc[j].attempts) \in Nat
          /\ Len(held[p][j].attempts) \in Nat /\ Len(held'[p][j].attempts) \in Nat
      BY <3>2, CalledType
    <3>4. Called(held[p][j]) = Called(doc[j]) /\ Len(held[p][j].attempts) >= Len(doc[j].attempts)
      BY <3>1, <3>3
    <3>5. Called(held'[p][j]) = Called(held[p][j]) /\ Len(held'[p][j].attempts) >= Len(held[p][j].attempts)
      BY <2>2 DEF SameCalls
    <3>6. Len(held'[p][j].attempts) >= Len(doc[j].attempts)
      <4> DEFINE a == Len(held'[p][j].attempts)
                 b == Len(held[p][j].attempts)
                 c == Len(doc[j].attempts)
      <4>1. a \in Nat /\ b \in Nat /\ c \in Nat /\ a >= b /\ b >= c
        BY <3>3, <3>4, <3>5
      <4> HIDE DEF a, b, c
      <4>2. a >= c
        BY <4>1
      <4> QED
        BY <4>2 DEF a, c
    <3> QED
      BY <3>4, <3>5, <3>6 DEF SameCalls
  <2> QED
    BY <1>4, <2>1, <2>2
<1>5. FreshTally'
  <2> SUFFICES ASSUME NEW q \in Proc, NEW j \in Jobs, <<q, j>> \in fresh', held'[q][j] # Absent
               PROVE  LET n == IF q \in Unsaving(j)' THEN 1 ELSE 0
                      IN /\ Called(held'[q][j]) = Called(doc'[j]) + n
                         /\ Len(held'[q][j].attempts) >= Len(doc'[j].attempts) + n
    BY DEF FreshTally, Called
  <2>1. Called(doc[j]) \in Nat /\ Len(doc[j].attempts) \in Nat
    BY CalledType DEF Typed, TypeOK
  <2>2. CASE q = p
    <3>1. Called(held'[p][j]) = Called(doc[j]) /\ Len(held'[p][j].attempts) >= Len(doc[j].attempts)
      BY <1>4, <2>2 DEF SameCalls
    <3>2. p \notin Unsaving(j)' /\ doc'[j] = doc[j]
      OBVIOUS
    <3> QED
      BY <2>1, <2>2, <3>1, <3>2
  <2>3. CASE q # p
    BY <1>1, <1>3, <2>3
  <2> QED
    BY <2>2, <2>3
<1> QED
  BY <1>2, <1>5 DEF TallyInv

\* p writes a copy with the calls it holds.
LEMMA WriteTally ==
  ASSUME Typed, TallyInv, NEW p \in Proc, NEW j \in Jobs, NEW job \in Job,
         Moves(p), Write(p, j, job), UNCHANGED dials,
         held[p][j] # Absent, SameCalls(job, held[p][j]),
         \A i \in Jobs : i # j => p \notin Unsaving(i),
         \A i \in Jobs : p \notin Unsaving(i)',
         \A i \in Jobs : i # j => held'[p][i] = held[p][i]
  PROVE  TallyInv'
<1>1. doc'[j] = job /\ \A i \in Jobs : i # j => doc'[i] = doc[i]
  BY WriteFrame
<1>2. /\ torn \subseteq torn'
      /\ j \notin torn' => <<p, j>> \in fresh
      /\ \A q \in Proc, i \in Jobs : <<q, i>> \in fresh' => <<q, i>> \in fresh /\ i # j
  BY WriteFresh
<1>3. \A i \in Jobs : i # j => Unsaving(i)' = Unsaving(i)
  BY UnsavingStays
<1>4. Unsaving(j)' = Unsaving(j) \ {p}
  BY DEF Moves, Unsaving, Proc, Dispatchers
<1>5. \A i \in Jobs : CallsTo({i})' = CallsTo({i})
  BY DEF CallsTo
<1>6. ASSUME NEW i \in Jobs, i \notin torn', i # j
      PROVE  Called(doc'[i]) + Cardinality(Unsaving(i)') = Cardinality(CallsTo({i})')
  BY <1>1, <1>2, <1>3, <1>5, <1>6 DEF TallyInv, Tally
<1>7. ASSUME j \notin torn'
      PROVE  Called(doc'[j]) + Cardinality(Unsaving(j)') = Cardinality(CallsTo({j})')
  <2> DEFINE U == Unsaving(j)
  <2>1. Called(doc[j]) + Cardinality(U) = Cardinality(CallsTo({j}))
    BY <1>2, <1>7 DEF TallyInv, Tally
  <2>2. Called(job) = Called(doc[j]) + (IF p \in U THEN 1 ELSE 0)
    BY <1>2, <1>7 DEF TallyInv, FreshTally, SameCalls
  <2>3. IsFiniteSet(U) /\ Cardinality(U) \in Nat
    BY UnsavingFinite
  <2>4. Called(doc[j]) \in Nat
    BY CalledType DEF Typed, TypeOK
  <2> HIDE DEF U
  <2>5. Cardinality(U \ {p}) = IF p \in U THEN Cardinality(U) - 1 ELSE Cardinality(U)
    BY <2>3, FS_RemoveElement
  <2>6. Called(job) + Cardinality(U \ {p}) = Cardinality(CallsTo({j}))
    BY <2>1, <2>2, <2>3, <2>4, <2>5
  <2> QED
    BY <1>1, <1>4, <1>5, <2>6 DEF U
<1>8. Tally'
  BY <1>6, <1>7 DEF Tally, Called
<1>9. FreshTally'
  <2> SUFFICES ASSUME NEW q \in Proc, NEW i \in Jobs, <<q, i>> \in fresh', held'[q][i] # Absent
               PROVE  LET n == IF q \in Unsaving(i)' THEN 1 ELSE 0
                      IN /\ Called(held'[q][i]) = Called(doc'[i]) + n
                         /\ Len(held'[q][i].attempts) >= Len(doc'[i].attempts) + n
    BY DEF FreshTally, Called
  <2>1. <<q, i>> \in fresh /\ i # j
    BY <1>2
  <2>2. held'[q][i] = held[q][i] /\ doc'[i] = doc[i] /\ Unsaving(i)' = Unsaving(i)
    BY <1>1, <1>3, <2>1 DEF Moves
  <2> QED
    BY <2>1, <2>2 DEF TallyInv, FreshTally
<1> QED
  BY <1>8, <1>9 DEF TallyInv

\* Nothing moves, and what the documents and the dials record stays as it was.
LEMMA StillTally ==
  ASSUME TallyInv, UNCHANGED local, UNCHANGED <<fresh, torn>>,
         \A j \in Jobs : doc'[j].attempts = doc[j].attempts,
         \A j \in Jobs : CallsTo({j})' = CallsTo({j})
  PROVE  TallyInv'
<1>1. \A j \in Jobs : Called(doc'[j]) = Called(doc[j]) /\ Unsaving(j)' = Unsaving(j)
  BY DEF Called, local, Unsaving
<1>2. Tally'
  BY <1>1 DEF TallyInv, Tally, Called
<1>3. FreshTally'
  <2> SUFFICES ASSUME NEW q \in Proc, NEW i \in Jobs, <<q, i>> \in fresh', held'[q][i] # Absent
               PROVE  LET n == IF q \in Unsaving(i)' THEN 1 ELSE 0
                      IN /\ Called(held'[q][i]) = Called(doc'[i]) + n
                         /\ Len(held'[q][i].attempts) >= Len(doc'[i].attempts) + n
    BY DEF FreshTally, Called
  <2> QED
    BY <1>1 DEF local, TallyInv, FreshTally
<1> QED
  BY <1>2, <1>3 DEF TallyInv

LEMMA InitTally == Init => TallyInv
<1> SUFFICES ASSUME Init PROVE TallyInv
  OBVIOUS
<1>1. FreshTally
  BY DEF Init, FreshTally
<1>2. ASSUME NEW j \in Jobs
      PROVE  Called(doc[j]) + Cardinality(Unsaving(j)) = Cardinality(CallsTo({j}))
  <2>1. doc[j].attempts = <<>>
    <3>1. Absent.attempts = <<>> /\ Queued.attempts = <<>>
      BY DEF Absent, Queued
    <3>2. doc[j] = Absent \/ doc[j] = Queued
      BY DEF Init
    <3> QED
      BY <3>1, <3>2
  <2>2. {i \in DOMAIN doc[j].attempts : doc[j].attempts[i].called} = {}
    BY <2>1
  <2>3. Unsaving(j) = {} /\ CallsTo({j}) = {}
    BY DEF Init, Unsaving, CallsTo, Proc, Dispatchers
  <2> QED
    BY <2>2, <2>3, FS_EmptySet DEF Called
<1> QED
  BY <1>1, <1>2 DEF TallyInv, Tally

-------------------------------------------------------------------------------
(* The daily cap.  The loop checks it against the attempts recorded for the      *)
(* number, so it bounds the calls only while every call reaches the record.      *)

\* The calls the loop placed to ph.
LoopCalls(ph) == {k \in DOMAIN dials : PhoneOf[dials[k].job] = ph /\ dials[k].by = Loop}
\* The attempts recorded for ph, as pairs of a job and a position: the loop
\* adds up attempts over the jobs of a number, and a set of pairs needs no sum.
Recorded(ph) == UNION {{j} \X DOMAIN doc[j].attempts : j \in {k \in Jobs : PhoneOf[k] = ph}}
\* The loop has called ph and not saved it.
LoopUnsaved(ph) == \E j \in Jobs : PhoneOf[j] = ph /\ Loop \in Unsaving(j)
\* No job of ph was overwritten.
Untorn(ph) == \A j \in torn : PhoneOf[j] # ph

\* The loop keeps to the cap, has a call to spare when it is about to dial, and
\* has recorded every call it placed but the one it is saving.
CapInv ==
  \A ph \in Phones :
    /\ IsFiniteSet(Recorded(ph))
    /\ Untorn(ph) =>
         /\ Cardinality(LoopCalls(ph)) <= DailyCap
         /\ pc[Loop] = "dial" /\ PhoneOf[cur[Loop]] = ph => Cardinality(LoopCalls(ph)) < DailyCap
         /\ Cardinality(LoopCalls(ph)) <=
              Cardinality(Recorded(ph)) + (IF LoopUnsaved(ph) THEN 1 ELSE 0)

LEMMA LoopCallsFinite ==
  ASSUME Typed, NEW ph
  PROVE  IsFiniteSet(LoopCalls(ph)) /\ Cardinality(LoopCalls(ph)) \in Nat
<1> DEFINE n == Len(dials)
           S == LoopCalls(ph)
<1>1. n \in Nat /\ DOMAIN dials = 1..n
  BY DEF Typed, TypeOK
<1>2. IsFiniteSet(1..n) /\ S \subseteq 1..n
  BY <1>1, FS_Interval DEF LoopCalls
<1> HIDE DEF n, S
<1> QED
  BY <1>2, FS_Subset, FS_CardinalityType DEF S

\* What is recorded, attempt by attempt.
LEMMA RecordedAt ==
  ASSUME doc \in [Jobs -> Job], NEW ph
  PROVE  \A a : a \in Recorded(ph) <=>
           \E j \in Jobs, i \in Nat : PhoneOf[j] = ph /\ i \in 1..Len(doc[j].attempts) /\ a = <<j, i>>
<1>1. \A j \in Jobs : Len(doc[j].attempts) \in Nat /\ DOMAIN doc[j].attempts = 1..Len(doc[j].attempts)
  BY DEF Job
<1> QED
  BY <1>1 DEF Recorded

LEMMA RecordedNext ==
  ASSUME doc' \in [Jobs -> Job], NEW ph
  PROVE  \A a : a \in Recorded(ph)' <=>
           \E j \in Jobs, i \in Nat : PhoneOf[j] = ph /\ i \in 1..Len(doc'[j].attempts) /\ a = <<j, i>>
<1>1. \A j \in Jobs : Len(doc'[j].attempts) \in Nat /\ DOMAIN doc'[j].attempts = 1..Len(doc'[j].attempts)
  BY DEF Job
<1> QED
  BY <1>1 DEF Recorded

LEMMA MoveCap ==
  ASSUME Typed, CapInv, NEW p \in Proc, Moves(p), UNCHANGED doc, torn \subseteq torn',
         \A ph \in Phones : Untorn(ph)' => LoopCalls(ph)' = LoopCalls(ph),
         \A j \in Jobs : p \notin Unsaving(j) /\ p \notin Unsaving(j)',
         p = Loop /\ pc'[p] = "dial" =>
           \A ph \in Phones : Untorn(ph) /\ PhoneOf[cur'[p]] = ph => Cardinality(LoopCalls(ph)) < DailyCap
  PROVE  CapInv'
<1>1. \A ph \in Phones : Recorded(ph)' = Recorded(ph)
  BY DEF Recorded
<1>2. \A ph \in Phones : LoopUnsaved(ph)' = LoopUnsaved(ph)
  BY UnsavingStays DEF LoopUnsaved
<1>3. \A ph \in Phones : Untorn(ph)' => Untorn(ph)
  BY DEF Untorn
<1>4. \/ p = Loop
      \/ pc'[Loop] = pc[Loop] /\ cur'[Loop] = cur[Loop]
  BY DEF Moves, Proc
<1> SUFFICES ASSUME NEW ph \in Phones
             PROVE  /\ IsFiniteSet(Recorded(ph)')
                    /\ Untorn(ph)' =>
                         /\ Cardinality(LoopCalls(ph)') <= DailyCap
                         /\ pc'[Loop] = "dial" /\ PhoneOf[cur'[Loop]] = ph =>
                              Cardinality(LoopCalls(ph)') < DailyCap
                         /\ Cardinality(LoopCalls(ph)') <=
                              Cardinality(Recorded(ph)') + (IF LoopUnsaved(ph)' THEN 1 ELSE 0)
  BY DEF CapInv
<1>5. IsFiniteSet(Recorded(ph)')
  BY <1>1 DEF CapInv
<1>6. ASSUME Untorn(ph)'
      PROVE  /\ Cardinality(LoopCalls(ph)') <= DailyCap
             /\ Cardinality(LoopCalls(ph)') <=
                  Cardinality(Recorded(ph)') + (IF LoopUnsaved(ph)' THEN 1 ELSE 0)
  BY <1>1, <1>2, <1>3, <1>6 DEF CapInv
<1>7. ASSUME Untorn(ph)', pc'[Loop] = "dial", PhoneOf[cur'[Loop]] = ph
      PROVE  Cardinality(LoopCalls(ph)') < DailyCap
  BY <1>3, <1>4, <1>7 DEF CapInv
<1> QED
  BY <1>5, <1>6, <1>7

LEMMA StillCap ==
  ASSUME CapInv, UNCHANGED local, UNCHANGED torn,
         \A j \in Jobs : doc'[j].attempts = doc[j].attempts,
         \A ph \in Phones : LoopCalls(ph)' = LoopCalls(ph)
  PROVE  CapInv'
<1>1. \A ph \in Phones : Recorded(ph)' = Recorded(ph)
  BY DEF Recorded
<1>2. \A ph \in Phones : LoopUnsaved(ph)' = LoopUnsaved(ph)
  BY DEF LoopUnsaved, Unsaving, local
<1>3. \A ph \in Phones : Untorn(ph)' = Untorn(ph)
  BY DEF Untorn
<1> QED
  BY <1>1, <1>2, <1>3 DEF CapInv, local

\* What is recorded stays finite.
LEMMA WriteFinite ==
  ASSUME Typed, CapInv, NEW p \in Proc, NEW j \in Jobs, NEW job \in Job, Write(p, j, job),
         NEW ph \in Phones
  PROVE  IsFiniteSet(Recorded(ph)')
<1> DEFINE R == Recorded(ph)
           Q == Recorded(ph)'
           new == Len(job.attempts)
           new1 == {j} \X (1..new)
<1>1. doc'[j] = job /\ \A i \in Jobs : i # j => doc'[i] = doc[i]
  BY WriteFrame
<1>2. doc \in [Jobs -> Job] /\ doc' \in [Jobs -> Job]
  BY WriteTyped DEF Typed, TypeOK
<1>3. new \in Nat
  BY CalledType
<1>4. \A a : a \in R <=>
        \E k \in Jobs, i \in Nat : PhoneOf[k] = ph /\ i \in 1..Len(doc[k].attempts) /\ a = <<k, i>>
  BY <1>2, RecordedAt
<1>5. \A a : a \in Q <=>
        \E k \in Jobs, i \in Nat : PhoneOf[k] = ph /\ i \in 1..Len(doc'[k].attempts) /\ a = <<k, i>>
  BY <1>2, RecordedNext
<1>6. IsFiniteSet(R)
  BY DEF CapInv
<1>7. IsFiniteSet(new1)
  <2> HIDE DEF new
  <2>1. IsFiniteSet({j})
    BY FS_Singleton
  <2>2. IsFiniteSet(1..new)
    BY <1>3, FS_Interval
  <2> QED
    BY <2>1, <2>2, FS_Product
<1>8. Q \subseteq R \cup new1
  <2> SUFFICES ASSUME NEW a \in Q PROVE a \in R \cup new1
    OBVIOUS
  <2>1. PICK k \in Jobs, i \in Nat : PhoneOf[k] = ph /\ i \in 1..Len(doc'[k].attempts) /\ a = <<k, i>>
    BY <1>5
  <2>2. CASE k = j
    BY <1>1, <2>1, <2>2
  <2>3. CASE k # j
    BY <1>1, <1>4, <2>1, <2>3
  <2> QED
    BY <2>2, <2>3
<1> HIDE DEF R, new1
<1>9. IsFiniteSet(R \cup new1)
  BY <1>6, <1>7, FS_Union
<1> HIDE DEF Q
<1>10. IsFiniteSet(Q)
  BY <1>8, <1>9, FS_Subset
<1> QED
  BY <1>10 DEF Q

\* A write of a fresh copy leaves no fewer attempts recorded, and one more when
\* the copy had a call to save.
LEMMA WriteRecords ==
  ASSUME Typed, CapInv, NEW p \in Proc, NEW j \in Jobs, NEW job \in Job, Write(p, j, job),
         NEW ph \in Phones, NEW n \in {0, 1},
         PhoneOf[j] = ph => Len(job.attempts) >= Len(doc[j].attempts) + n,
         PhoneOf[j] # ph => n = 0
  PROVE  Cardinality(Recorded(ph)') >= Cardinality(Recorded(ph)) + n
<1> DEFINE R == Recorded(ph)
           Q == Recorded(ph)'
           old == Len(doc[j].attempts)
           new == Len(job.attempts)
<1>1. doc'[j] = job /\ \A i \in Jobs : i # j => doc'[i] = doc[i]
  BY WriteFrame
<1>2. doc \in [Jobs -> Job] /\ doc' \in [Jobs -> Job]
  BY WriteTyped DEF Typed, TypeOK
<1>3. old \in Nat /\ new \in Nat
  BY CalledType DEF Typed, TypeOK
<1>4. \A a : a \in R <=>
        \E k \in Jobs, i \in Nat : PhoneOf[k] = ph /\ i \in 1..Len(doc[k].attempts) /\ a = <<k, i>>
  BY <1>2, RecordedAt
<1>5. \A a : a \in Q <=>
        \E k \in Jobs, i \in Nat : PhoneOf[k] = ph /\ i \in 1..Len(doc'[k].attempts) /\ a = <<k, i>>
  BY <1>2, RecordedNext
<1>6. IsFiniteSet(R)
  BY DEF CapInv
<1>9. IsFiniteSet(Q)
  BY WriteFinite
<1>11. R \subseteq Q
  <2> SUFFICES ASSUME NEW a \in R PROVE a \in Q
    OBVIOUS
  <2>1. PICK k \in Jobs, i \in Nat : PhoneOf[k] = ph /\ i \in 1..Len(doc[k].attempts) /\ a = <<k, i>>
    BY <1>4
  <2>2. CASE k = j
    <3>1. i \in 1..new
      BY <1>3, <2>1, <2>2
    <3> QED
      BY <1>1, <1>5, <2>1, <2>2, <3>1
  <2>3. CASE k # j
    BY <1>1, <1>5, <2>1, <2>3
  <2> QED
    BY <2>2, <2>3
<1>12. CASE n = 0
  <2> HIDE DEF Q, R
  <2>1. Cardinality(R) <= Cardinality(Q) /\ Cardinality(R) \in Nat /\ Cardinality(Q) \in Nat
    BY <1>6, <1>9, <1>11, FS_Subset, FS_CardinalityType
  <2>2. Cardinality(Q) >= Cardinality(R) + n
    BY <1>12, <2>1
  <2> QED
    BY <2>2 DEF Q, R
<1>13. CASE n = 1
  <2> DEFINE a == <<j, old + 1>>
  <2>1. a \notin R
    <3>1. ASSUME NEW k \in Jobs, NEW i \in Nat, i \in 1..Len(doc[k].attempts), a = <<k, i>> PROVE FALSE
      BY <1>3, <3>1
    <3> QED
      BY <1>4, <3>1
  <2>2. a \in Q
    <3>1. old + 1 \in Nat /\ old + 1 \in 1..new /\ PhoneOf[j] = ph
      BY <1>3, <1>13
    <3> QED
      BY <1>1, <1>5, <3>1
  <2> HIDE DEF Q, R, a
  <2>3. R \cup {a} \subseteq Q
    BY <1>11, <2>2
  <2>4. IsFiniteSet(R \cup {a}) /\ Cardinality(R \cup {a}) = Cardinality(R) + 1
    BY <1>6, <2>1, FS_AddElement
  <2>5. Cardinality(R \cup {a}) <= Cardinality(Q)
    BY <1>9, <2>3, FS_Subset
  <2>6. Cardinality(R) \in Nat /\ Cardinality(Q) \in Nat
    BY <1>6, <1>9, FS_CardinalityType
  <2>7. Cardinality(Q) >= Cardinality(R) + n
    BY <1>13, <2>4, <2>5, <2>6
  <2> QED
    BY <2>7 DEF Q, R
<1> QED
  BY <1>12, <1>13

LEMMA WriteCap ==
  ASSUME Typed, TallyInv, CapInv, NEW p \in Proc, NEW j \in Jobs, NEW job \in Job,
         Moves(p), Write(p, j, job), UNCHANGED dials,
         held[p][j] # Absent, SameCalls(job, held[p][j]),
         \A i \in Jobs : i # j => p \notin Unsaving(i),
         \A i \in Jobs : p \notin Unsaving(i)',
         pc'[p] # "dial"
  PROVE  CapInv'
<1>1. torn \subseteq torn' /\ (j \notin torn' => <<p, j>> \in fresh)
  BY WriteFresh
<1> SUFFICES ASSUME NEW ph \in Phones
             PROVE  /\ IsFiniteSet(Recorded(ph)')
                    /\ Untorn(ph)' =>
                         /\ Cardinality(LoopCalls(ph)') <= DailyCap
                         /\ pc'[Loop] = "dial" /\ PhoneOf[cur'[Loop]] = ph =>
                              Cardinality(LoopCalls(ph)') < DailyCap
                         /\ Cardinality(LoopCalls(ph)') <=
                              Cardinality(Recorded(ph)') + (IF LoopUnsaved(ph)' THEN 1 ELSE 0)
  BY DEF CapInv
<1>2. IsFiniteSet(Recorded(ph)')
  BY WriteFinite
<1>3. LoopCalls(ph)' = LoopCalls(ph)
  BY DEF LoopCalls
<1> SUFFICES ASSUME Untorn(ph)'
             PROVE  /\ Cardinality(LoopCalls(ph)) <= DailyCap
                    /\ pc'[Loop] = "dial" /\ PhoneOf[cur'[Loop]] = ph =>
                         Cardinality(LoopCalls(ph)) < DailyCap
                    /\ Cardinality(LoopCalls(ph)) <=
                         Cardinality(Recorded(ph)') + (IF LoopUnsaved(ph)' THEN 1 ELSE 0)
  BY <1>2, <1>3
<1>4. Untorn(ph)
  BY <1>1 DEF Untorn
<1>5. Cardinality(LoopCalls(ph)) <= DailyCap
  BY <1>4 DEF CapInv
<1>6. pc'[Loop] = "dial" /\ PhoneOf[cur'[Loop]] = ph => Cardinality(LoopCalls(ph)) < DailyCap
  <2>1. p = Loop \/ (pc'[Loop] = pc[Loop] /\ cur'[Loop] = cur[Loop])
    BY DEF Moves, Proc
  <2> QED
    BY <1>4, <2>1 DEF CapInv
<1> DEFINE n == IF PhoneOf[j] = ph /\ p \in Unsaving(j) THEN 1 ELSE 0
           u == IF LoopUnsaved(ph) THEN 1 ELSE 0
           v == IF LoopUnsaved(ph)' THEN 1 ELSE 0
<1>7. PhoneOf[j] = ph => Len(job.attempts) >= Len(doc[j].attempts) + n
  <2> SUFFICES ASSUME PhoneOf[j] = ph PROVE Len(job.attempts) >= Len(doc[j].attempts) + n
    OBVIOUS
  <2>1. <<p, j>> \in fresh
    BY <1>1 DEF Untorn
  <2>2. Len(held[p][j].attempts) >= Len(doc[j].attempts) + n
    BY <2>1 DEF TallyInv, FreshTally
  <2>3. Len(job.attempts) >= Len(held[p][j].attempts)
    BY DEF SameCalls
  <2> DEFINE a == Len(job.attempts)
             b == Len(held[p][j].attempts)
             c == Len(doc[j].attempts)
  <2>4. a \in Nat /\ b \in Nat /\ c \in Nat /\ n \in {0, 1} /\ a >= b /\ b >= c + n
    BY <2>2, <2>3, CalledType DEF Typed, TypeOK
  <2> HIDE DEF a, b, c, n
  <2>5. a >= c + n
    BY <2>4
  <2> QED
    BY <2>5 DEF a, c
<1>8. Cardinality(Recorded(ph)') >= Cardinality(Recorded(ph)) + n
  <2>1. n \in {0, 1} /\ (PhoneOf[j] # ph => n = 0)
    OBVIOUS
  <2> HIDE DEF n
  <2> QED
    BY <1>7, <2>1, WriteRecords
<1>9. u <= n + v
  <2>1. ASSUME LoopUnsaved(ph), ~LoopUnsaved(ph)' PROVE PhoneOf[j] = ph /\ p \in Unsaving(j)
    <3>1. PICK i \in Jobs : PhoneOf[i] = ph /\ Loop \in Unsaving(i) /\ Loop \notin Unsaving(i)'
      BY <2>1 DEF LoopUnsaved
    <3>2. p = Loop
      BY <3>1 DEF Moves, Unsaving, Proc
    <3> QED
      BY <3>1, <3>2
  <2> QED
    BY <2>1
<1>10. Cardinality(LoopCalls(ph)) <= Cardinality(Recorded(ph)) + u
  BY <1>4 DEF CapInv
<1>11. /\ Cardinality(LoopCalls(ph)) \in Nat
       /\ Cardinality(Recorded(ph)) \in Nat
       /\ Cardinality(Recorded(ph)') \in Nat
       /\ n \in {0, 1} /\ u \in {0, 1} /\ v \in {0, 1}
  <2>1. IsFiniteSet(Recorded(ph))
    BY DEF CapInv
  <2> QED
    BY <1>2, <2>1, LoopCallsFinite, FS_CardinalityType
<1>12. Cardinality(LoopCalls(ph)) <= Cardinality(Recorded(ph)') + v
  <2> HIDE DEF n, u, v
  <2> DEFINE a == Cardinality(LoopCalls(ph))
             b == Cardinality(Recorded(ph))
             c == Cardinality(Recorded(ph)')
  <2>1. a \in Nat /\ b \in Nat /\ c \in Nat /\ a <= b + u /\ c >= b + n
    BY <1>8, <1>10, <1>11
  <2> HIDE DEF a, b, c
  <2>2. a <= c + v
    BY <1>9, <1>11, <2>1
  <2> QED
    BY <2>2 DEF a, c
<1> QED
  BY <1>5, <1>6, <1>12

LEMMA PlaceCalls ==
  ASSUME Typed, NEW p \in Dispatchers, NEW c \in Jobs, c = cur[p], PlaceCall(p)
  PROVE  LET n == Len(dials) + 1
         IN /\ n \notin DOMAIN dials
            /\ CallsTo({c})' = CallsTo({c}) \cup {n}
            /\ \A j \in Jobs : j # c => CallsTo({j})' = CallsTo({j})
            /\ \A ph \in Phones : LoopCalls(ph)' =
                 IF p = Loop /\ PhoneOf[c] = ph THEN LoopCalls(ph) \cup {n} ELSE LoopCalls(ph)
<1> DEFINE n == Len(dials) + 1
<1>1. dials \in Seq(Dial) /\ [job |-> c, by |-> p, state |-> "placed"] \in Dial
  BY DEF Typed, TypeOK, Dial, CallStates
<1>2. /\ n \notin DOMAIN dials /\ DOMAIN dials' = DOMAIN dials \cup {n}
      /\ \A k \in DOMAIN dials : dials'[k] = dials[k]
      /\ dials'[n] = [job |-> c, by |-> p, state |-> "placed"]
  BY <1>1 DEF PlaceCall
<1>3. dials'[n].job = c /\ dials'[n].by = p
  BY <1>2
<1> HIDE DEF n
<1>4. CallsTo({c})' = CallsTo({c}) \cup {n}
  BY <1>2, <1>3 DEF CallsTo
<1>5. \A j \in Jobs : j # c => CallsTo({j})' = CallsTo({j})
  BY <1>2, <1>3 DEF CallsTo
<1>6. ASSUME NEW ph \in Phones, p = Loop, PhoneOf[c] = ph
      PROVE  LoopCalls(ph)' = LoopCalls(ph) \cup {n}
  BY <1>2, <1>3, <1>6 DEF LoopCalls
<1>7. ASSUME NEW ph \in Phones, ~(p = Loop /\ PhoneOf[c] = ph)
      PROVE  LoopCalls(ph)' = LoopCalls(ph)
  BY <1>2, <1>3, <1>7 DEF LoopCalls
<1> QED
  BY <1>2, <1>4, <1>5, <1>6, <1>7 DEF n

LEMMA DialFrame ==
  ASSUME Typed, FinalInv, NEW p \in Dispatchers, DialCallee(p)
  PROVE  /\ cur[p] \in Jobs /\ pc[p] = "dial" /\ pc'[p] = "save"
         /\ Moves(p) /\ UNCHANGED <<doc, cur, fresh, torn>>
         /\ held[p][cur[p]] # Absent
         /\ held'[p][cur[p]] \in Job
         /\ held'[p][cur[p]].status = "dialing"
         /\ Called(held'[p][cur[p]]) = Called(held[p][cur[p]]) + 1
         /\ Len(held'[p][cur[p]].attempts) = Len(held[p][cur[p]].attempts) + 1
         /\ \A i \in Jobs : i # cur[p] => held'[p][i] = held[p][i]
<1> DEFINE tried == WithAttempt(Mine(p), "unknown", TRUE)
           job == [tried EXCEPT !.status = "dialing"]
<1>0. p \in Proc
  BY DEF Proc, Dispatchers
<1>1. cur[p] \in Jobs /\ pc[p] = "dial" /\ UNCHANGED <<doc, cur, fresh, torn>>
  BY DEF DialCallee, Typed, CurOK, Working, Dispatchers, Proc, store
<1>2. Mine(p) \in Job /\ Mine(p) = held[p][cur[p]]
  BY <1>0, <1>1, MineType DEF Mine
<1>3. tried \in Job
  BY <1>2, WithAttemptType DEF Outcome
<1>4. Called(tried) = Called(Mine(p)) + 1 /\ Len(tried.attempts) = Len(Mine(p).attempts) + 1
  BY <1>2, WithAttemptCalls DEF Outcome
<1>5. held[p][cur[p]] # Absent
  BY <1>0, <1>1 DEF FinalInv, SavedOK, WithJob, Absent
<1> HIDE DEF tried
<1>6. job \in Job /\ job.status = "dialing" /\ job.attempts = tried.attempts
  BY <1>3 DEF Job, Status, Live
<1>7. Called(job) = Called(tried)
  BY <1>6 DEF Called
<1>8. Change(p, job, "save")
  BY DEF DialCallee, tried
<1> HIDE DEF job
<1>9. Moves(p) /\ pc'[p] = "save" /\ held'[p][cur[p]] = job
      /\ \A i \in Jobs : i # cur[p] => held'[p][i] = held[p][i]
  BY <1>0, <1>1, <1>6, <1>8, ChangeFrame DEF PC
<1> QED
  BY <1>1, <1>2, <1>4, <1>5, <1>6, <1>7, <1>9

LEMMA CallTally ==
  ASSUME Typed, FinalInv, TallyInv, NEW p \in Dispatchers, NEW c \in Jobs, c = cur[p],
         DialCallee(p)
  PROVE  TallyInv'
<1> DEFINE n == Len(dials) + 1
<1>0. p \in Proc /\ PlaceCall(p)
  BY DEF Proc, Dispatchers, DialCallee
<1>1. /\ c \in Jobs /\ pc[p] = "dial" /\ pc'[p] = "save"
      /\ Moves(p) /\ UNCHANGED <<doc, cur, fresh, torn>>
      /\ held[p][c] # Absent
      /\ held'[p][c] \in Job
      /\ held'[p][c].status = "dialing"
      /\ Called(held'[p][c]) = Called(held[p][c]) + 1
      /\ Len(held'[p][c].attempts) = Len(held[p][c].attempts) + 1
      /\ \A i \in Jobs : i # c => held'[p][i] = held[p][i]
  BY DialFrame
<1>2. \A j \in Jobs : j # c => Unsaving(j)' = Unsaving(j)
  BY <1>0, <1>1, UnsavingStays DEF Unsaving
<1>3. p \notin Unsaving(c) /\ Unsaving(c)' = Unsaving(c) \cup {p}
  BY <1>0, <1>1 DEF Moves, Unsaving, Proc, Dispatchers
<1>4. /\ n \notin DOMAIN dials
      /\ CallsTo({c})' = CallsTo({c}) \cup {n}
      /\ \A j \in Jobs : j # c => CallsTo({j})' = CallsTo({j})
  BY <1>0, <1>1, PlaceCalls
<1>5. ASSUME NEW j \in Jobs, j \notin torn', j # c
      PROVE  Called(doc'[j]) + Cardinality(Unsaving(j)') = Cardinality(CallsTo({j})')
  BY <1>1, <1>2, <1>4, <1>5 DEF TallyInv, Tally
<1>6. ASSUME c \notin torn'
      PROVE  Called(doc'[c]) + Cardinality(Unsaving(c)') = Cardinality(CallsTo({c})')
  <2> DEFINE U == Unsaving(c)
             C == CallsTo({c})
  <2>1. Called(doc[c]) + Cardinality(U) = Cardinality(C)
    BY <1>1, <1>6 DEF TallyInv, Tally
  <2>2. IsFiniteSet(U) /\ Cardinality(U) \in Nat
    BY UnsavingFinite
  <2>3. IsFiniteSet(C) /\ Cardinality(C) \in Nat /\ n \notin C
    BY <1>4, CallsFinite DEF CallsTo
  <2>4. Called(doc[c]) \in Nat
    BY <1>1, CalledType DEF Typed, TypeOK
  <2>5. p \notin U
    BY <1>3
  <2> HIDE DEF U, C, n
  <2>6. Cardinality(U \cup {p}) = Cardinality(U) + 1
    BY <2>2, <2>5, FS_AddElement
  <2>7. Cardinality(C \cup {n}) = Cardinality(C) + 1
    BY <2>3, FS_AddElement
  <2>8. Called(doc[c]) + Cardinality(U \cup {p}) = Cardinality(C \cup {n})
    BY <2>1, <2>2, <2>3, <2>4, <2>6, <2>7
  <2>9. doc'[c] = doc[c]
    BY <1>1
  <2> QED
    BY <1>3, <1>4, <2>8, <2>9 DEF U, C
<1>7. Tally'
  BY <1>5, <1>6 DEF Tally, Called
<1>8. FreshTally'
  <2> SUFFICES ASSUME NEW q \in Proc, NEW i \in Jobs, <<q, i>> \in fresh', held'[q][i] # Absent
               PROVE  LET k == IF q \in Unsaving(i)' THEN 1 ELSE 0
                      IN /\ Called(held'[q][i]) = Called(doc'[i]) + k
                         /\ Len(held'[q][i].attempts) >= Len(doc'[i].attempts) + k
    BY DEF FreshTally, Called
  <2>1. <<q, i>> \in fresh /\ doc'[i] = doc[i]
    BY <1>1
  <2>2. CASE q = p /\ i = c
    <3>1. /\ Called(held[p][c]) = Called(doc[c]) + 0
          /\ Len(held[p][c].attempts) >= Len(doc[c].attempts) + 0
      BY <1>1, <1>3, <2>1, <2>2, <1>0 DEF TallyInv, FreshTally
    <3> DEFINE a == Len(held[p][c].attempts)
               b == Len(doc[c].attempts)
               d == Called(doc[c])
    <3>2. d \in Nat /\ a \in Nat /\ b \in Nat /\ a >= b + 0
      BY <1>0, <1>1, <3>1, CalledType DEF Typed, TypeOK
    <3>3. Called(held'[p][c]) = d + 0 + 1 /\ Len(held'[p][c].attempts) = a + 1
      BY <1>1, <3>1
    <3> HIDE DEF a, b, d
    <3>4. d + 0 + 1 = d + 1 /\ a + 1 >= b + 1
      BY <3>2
    <3>5. p \in Unsaving(c)'
      BY <1>3
    <3>6. Called(held'[p][c]) = Called(doc'[c]) + 1 /\ Len(held'[p][c].attempts) >= Len(doc'[c].attempts) + 1
      BY <2>1, <2>2, <3>3, <3>4 DEF b, d
    <3> QED
      BY <2>2, <3>5, <3>6
  <2>3. CASE ~(q = p /\ i = c)
    <3>1. held'[q][i] = held[q][i]
      BY <1>1, <2>3 DEF Moves
    <3>2. q \in Unsaving(i)' <=> q \in Unsaving(i)
      BY <1>2, <1>3, <2>3
    <3> QED
      BY <2>1, <3>1, <3>2 DEF TallyInv, FreshTally
  <2> QED
    BY <2>2, <2>3
<1> QED
  BY <1>7, <1>8 DEF TallyInv

LEMMA CallCap ==
  ASSUME Typed, FinalInv, TallyInv, CapInv, NEW p \in Dispatchers, NEW c \in Jobs, c = cur[p],
         DialCallee(p)
  PROVE  CapInv'
<1> DEFINE n == Len(dials) + 1
<1>0. p \in Proc /\ PlaceCall(p)
  BY DEF Proc, Dispatchers, DialCallee
<1>1. /\ c \in Jobs /\ pc[p] = "dial" /\ pc'[p] = "save"
      /\ Moves(p) /\ UNCHANGED <<doc, cur, fresh, torn>>
      /\ held'[p][c].status = "dialing"
  BY DialFrame
<1>2. \A j \in Jobs : j # c => Unsaving(j)' = Unsaving(j)
  BY <1>0, <1>1, UnsavingStays DEF Unsaving
<1>3. p \notin Unsaving(c) /\ Unsaving(c)' = Unsaving(c) \cup {p}
  BY <1>0, <1>1 DEF Moves, Unsaving, Proc, Dispatchers
<1>4. /\ n \notin DOMAIN dials
      /\ \A ph \in Phones : LoopCalls(ph)' =
           IF p = Loop /\ PhoneOf[c] = ph THEN LoopCalls(ph) \cup {n} ELSE LoopCalls(ph)
  BY <1>0, <1>1, PlaceCalls
<1> HIDE DEF n
<1> SUFFICES ASSUME NEW ph \in Phones
             PROVE  /\ IsFiniteSet(Recorded(ph)')
                    /\ Untorn(ph)' =>
                         /\ Cardinality(LoopCalls(ph)') <= DailyCap
                         /\ pc'[Loop] = "dial" /\ PhoneOf[cur'[Loop]] = ph =>
                              Cardinality(LoopCalls(ph)') < DailyCap
                         /\ Cardinality(LoopCalls(ph)') <=
                              Cardinality(Recorded(ph)') + (IF LoopUnsaved(ph)' THEN 1 ELSE 0)
  BY DEF CapInv
<1>5. Recorded(ph)' = Recorded(ph)
  BY <1>1 DEF Recorded
<1>6. Untorn(ph)' => Untorn(ph)
  BY <1>1 DEF Untorn
<1>7. IsFiniteSet(Recorded(ph)') /\ Cardinality(Recorded(ph)) \in Nat
  BY <1>5, FS_CardinalityType DEF CapInv
<1>8. CASE p = Loop /\ PhoneOf[c] = ph
  <2>1. ~LoopUnsaved(ph)
    BY <1>1, <1>8 DEF LoopUnsaved, Unsaving
  <2>2. LoopUnsaved(ph)'
    BY <1>1, <1>3, <1>8 DEF LoopUnsaved
  <2> DEFINE L == LoopCalls(ph)
  <2>3. IsFiniteSet(L) /\ Cardinality(L) \in Nat /\ n \notin L
    BY <1>4, LoopCallsFinite DEF LoopCalls
  <2>4. LoopCalls(ph)' = L \cup {n}
    BY <1>4, <1>8
  <2>5. Untorn(ph) => Cardinality(L) < DailyCap /\ Cardinality(L) <= Cardinality(Recorded(ph)) + 0
    BY <1>1, <1>8, <2>1 DEF CapInv
  <2> HIDE DEF L
  <2>6. Cardinality(L \cup {n}) = Cardinality(L) + 1
    BY <2>3, FS_AddElement
  <2>7. Untorn(ph)' => Cardinality(L \cup {n}) <= DailyCap /\ Cardinality(L \cup {n}) <= Cardinality(Recorded(ph)) + 1
    BY <1>6, <1>7, <2>3, <2>5, <2>6, OutboundAssumption
  <2> QED
    BY <1>1, <1>5, <1>7, <1>8, <2>2, <2>4, <2>7
<1>9. CASE ~(p = Loop /\ PhoneOf[c] = ph)
  <2>1. LoopCalls(ph)' = LoopCalls(ph)
    BY <1>4, <1>9
  <2>2. LoopUnsaved(ph)' = LoopUnsaved(ph)
    BY <1>1, <1>2, <1>3, <1>9 DEF LoopUnsaved
  <2>3. pc'[Loop] = "dial" => pc[Loop] = "dial" /\ cur'[Loop] = cur[Loop]
    BY <1>1 DEF Moves, Proc
  <2> QED
    BY <1>5, <1>6, <1>7, <2>1, <2>2, <2>3 DEF CapInv
<1> QED
  BY <1>8, <1>9

\* A job that lost nothing to the fault had no call to be saved by those it stopped.
LEMMA StopUnsaving ==
  ASSUME Typed, NEW ps \in SUBSET Proc, Stop(ps), NEW j \in Jobs, j \notin torn'
  PROVE  j \notin torn /\ Unsaving(j)' = Unsaving(j)
<1>1. \A p \in ps : p \notin Unsaving(j)
  BY DEF Stop, Unsaving, Mine
<1>2. \A p \in ps : pc'[p] # "save"
  BY StopFrame
<1>3. \A p \in Dispatchers : p \in Proc
  BY DEF Proc, Dispatchers
<1>4. \A p \in Proc \ ps : pc'[p] = pc[p] /\ cur'[p] = cur[p] /\ held'[p] = held[p]
  BY StopFrame
<1>5. \A p \in Dispatchers : p \in Unsaving(j)' <=> p \in Unsaving(j)
  BY <1>1, <1>2, <1>3, <1>4 DEF Unsaving
<1>6. Unsaving(j) \subseteq Dispatchers /\ Unsaving(j)' \subseteq Dispatchers
  BY DEF Unsaving
<1> QED
  BY <1>5, <1>6, StopFrame

LEMMA StopTally ==
  ASSUME Typed, TallyInv, NEW ps \in SUBSET Proc, Stop(ps)
  PROVE  TallyInv'
<1>1. UNCHANGED <<doc, dials>>
  BY StopFrame
<1>2. Tally'
  BY <1>1, StopUnsaving DEF TallyInv, Tally, Called, CallsTo
<1>3. FreshTally'
  <2> SUFFICES ASSUME NEW p \in Proc, NEW j \in Jobs, <<p, j>> \in fresh', held'[p][j] # Absent
               PROVE  LET n == IF p \in Unsaving(j)' THEN 1 ELSE 0
                      IN /\ Called(held'[p][j]) = Called(doc'[j]) + n
                         /\ Len(held'[p][j].attempts) >= Len(doc'[j].attempts) + n
    BY DEF FreshTally, Called
  <2>1. p \notin ps
    BY StopFrame
  <2>2. held'[p] = held[p] /\ <<p, j>> \in fresh /\ pc'[p] = pc[p] /\ cur'[p] = cur[p]
    BY <2>1, StopFrame
  <2>3. p \in Unsaving(j)' <=> p \in Unsaving(j)
    BY <2>2 DEF Unsaving
  <2> QED
    BY <1>1, <2>2, <2>3 DEF TallyInv, FreshTally
<1> QED
  BY <1>2, <1>3 DEF TallyInv

LEMMA StopCap ==
  ASSUME Typed, CapInv, NEW ps \in SUBSET Proc, Stop(ps)
  PROVE  CapInv'
<1>1. UNCHANGED <<doc, dials>> /\ torn \subseteq torn'
  BY StopFrame
<1>2. pc'[Loop] = "dial" => pc[Loop] = "dial" /\ cur'[Loop] = cur[Loop]
  BY StopFrame DEF Proc
<1>3. \A ph \in Phones : Untorn(ph)' => Untorn(ph)
  BY <1>1 DEF Untorn
<1>4. \A ph \in Phones : Untorn(ph)' => (LoopUnsaved(ph)' <=> LoopUnsaved(ph))
  <2> SUFFICES ASSUME NEW ph \in Phones, Untorn(ph)'
               PROVE  LoopUnsaved(ph)' <=> LoopUnsaved(ph)
    OBVIOUS
  <2>1. \A j \in Jobs : PhoneOf[j] = ph => j \notin torn'
    BY DEF Untorn
  <2>2. \A j \in Jobs : PhoneOf[j] = ph => Unsaving(j)' = Unsaving(j)
    BY <2>1, StopUnsaving
  <2> QED
    BY <2>2 DEF LoopUnsaved
<1>5. \A ph \in Phones : Recorded(ph)' = Recorded(ph) /\ LoopCalls(ph)' = LoopCalls(ph)
  BY <1>1 DEF Recorded, LoopCalls
<1> HIDE DEF LoopUnsaved
<1> QED
  BY <1>2, <1>3, <1>4, <1>5 DEF CapInv

LEMMA InitCap == Init => CapInv
<1> SUFFICES ASSUME Init, NEW ph \in Phones
             PROVE  /\ IsFiniteSet(Recorded(ph))
                    /\ Cardinality(LoopCalls(ph)) <= DailyCap
                    /\ pc[Loop] # "dial"
                    /\ Cardinality(LoopCalls(ph)) <=
                         Cardinality(Recorded(ph)) + (IF LoopUnsaved(ph) THEN 1 ELSE 0)
  BY DEF CapInv
<1>1. \A j \in Jobs : doc[j].attempts = <<>>
  <2>1. Absent.attempts = <<>> /\ Queued.attempts = <<>>
    BY DEF Absent, Queued
  <2> QED
    BY <2>1 DEF Init
<1>2. Recorded(ph) = {}
  BY <1>1 DEF Recorded
<1>3. LoopCalls(ph) = {}
  BY DEF Init, LoopCalls
<1>4. pc[Loop] = "idle"
  BY DEF Init, Proc
<1> QED
  BY <1>2, <1>3, <1>4, FS_EmptySet, OutboundAssumption

-------------------------------------------------------------------------------
(* Calls and cap together, step by step.                                        *)

CountInv == TallyInv /\ CapInv

LEMMA SameSelf ==
  ASSUME Typed, NEW j \in Jobs
  PROVE  SameCalls(doc[j], doc[j]) /\ \A p \in Proc : SameCalls(held[p][j], held[p][j])
BY SameAttempts DEF Typed, TypeOK

\* p moves from where it has nothing to save, places no call that counts, and
\* what it holds afterwards has the calls of what it held or of the document.
LEMMA MoveCount ==
  ASSUME Typed, Typed', CountInv, NEW p \in Proc, Moves(p), UNCHANGED <<doc, dials>>,
         torn \subseteq torn', pc[p] # "save", pc'[p] # "dial",
         pc'[p] = "save" /\ p \in Dispatchers => held'[p][cur'[p]].status # "dialing",
         \A q \in Proc, j \in Jobs : <<q, j>> \in fresh' => <<q, j>> \in fresh \/ q = p,
         \A j \in Jobs : <<p, j>> \in fresh' /\ held'[p][j] # Absent =>
           \/ SameCalls(held'[p][j], doc[j])
           \/ <<p, j>> \in fresh /\ held[p][j] # Absent /\ SameCalls(held'[p][j], held[p][j])
  PROVE  CountInv'
<1>1. \A j \in Jobs : p \notin Unsaving(j) /\ p \notin Unsaving(j)'
  BY DEF Unsaving
<1>2. \A j \in Jobs : CallsTo({j})' = CallsTo({j})
  BY DEF CallsTo
<1>3. \A ph \in Phones : LoopCalls(ph)' = LoopCalls(ph)
  BY DEF LoopCalls
<1>4. TallyInv'
  BY <1>1, <1>2, MoveTally DEF CountInv
<1>5. CapInv'
  BY <1>1, <1>3, MoveCap DEF CountInv
<1> QED
  BY <1>4, <1>5 DEF CountInv

LEMMA StillCount ==
  ASSUME CountInv, UNCHANGED local, UNCHANGED <<fresh, torn>>, UNCHANGED dials,
         \A j \in Jobs : doc'[j].attempts = doc[j].attempts
  PROVE  CountInv'
<1>1. \A j \in Jobs : CallsTo({j})' = CallsTo({j})
  BY DEF CallsTo
<1>2. \A ph \in Phones : LoopCalls(ph)' = LoopCalls(ph)
  BY DEF LoopCalls
<1>3. TallyInv'
  BY <1>1, StillTally DEF CountInv
<1>4. CapInv'
  BY <1>2, StillCap DEF CountInv
<1> QED
  BY <1>3, <1>4 DEF CountInv

LEMMA TakeCount ==
  ASSUME Typed, Typed', CountInv, NEW p \in Proc, NEW j \in Jobs, NEW job \in Job, NEW next \in PC,
         Take(p, j, job, next), pc[p] = "idle", UNCHANGED <<doc, dials, torn>>,
         SameCalls(job, doc[j]), next # "dial",
         next = "save" /\ p \in Dispatchers => job.status # "dialing"
  PROVE  CountInv'
<1>1. /\ Moves(p)
      /\ pc'[p] = next /\ cur'[p] = j /\ held'[p][j] = job
      /\ \A i \in Jobs : i # j => held'[p][i] = held[p][i]
      /\ fresh' = fresh \cup {<<p, j>>}
  BY TakeFrame
<1>2. \A i \in Jobs : <<p, i>> \in fresh' /\ held'[p][i] # Absent =>
        \/ SameCalls(held'[p][i], doc[i])
        \/ <<p, i>> \in fresh /\ held[p][i] # Absent /\ SameCalls(held'[p][i], held[p][i])
  BY <1>1, SameSelf
<1>3. \A q \in Proc, i \in Jobs : <<q, i>> \in fresh' => <<q, i>> \in fresh \/ q = p
  BY <1>1
<1> QED
  BY <1>1, <1>2, <1>3, MoveCount

LEMMA ListCount ==
  ASSUME Typed, Typed', CountInv, NEW p \in Proc, NEW js \in SUBSET Jobs, NEW next \in PC,
         List(p, js, next), pc[p] # "save", next \notin {"save", "dial"},
         UNCHANGED <<doc, dials, torn>>, \A q \in Proc : q # p => cur'[q] = cur[q]
  PROVE  CountInv'
<1>1. /\ Moves(p)
      /\ pc'[p] = next
      /\ \A j \in Jobs : held'[p][j] = IF j \in js THEN doc[j] ELSE Absent
      /\ fresh' = (fresh \ ({p} \X Jobs)) \cup ({p} \X js)
  BY ListFrame
<1>2. \A i \in Jobs : held'[p][i] # Absent => SameCalls(held'[p][i], doc[i])
  BY <1>1, SameSelf
<1>3. \A q \in Proc, i \in Jobs : <<q, i>> \in fresh' => <<q, i>> \in fresh \/ q = p
  BY <1>1
<1> QED
  BY <1>1, <1>2, <1>3, MoveCount

\* p keeps its copies, or gives some of them up.
LEMMA KeepCount ==
  ASSUME Typed, Typed', CountInv, NEW p \in Proc, Moves(p), UNCHANGED <<doc, dials, torn, fresh>>,
         pc[p] # "save", pc'[p] \notin {"save", "dial"},
         \A j \in Jobs : held'[p][j] = held[p][j] \/ held'[p][j] = Absent
  PROVE  CountInv'
<1>1. \A i \in Jobs : <<p, i>> \in fresh' /\ held'[p][i] # Absent =>
        <<p, i>> \in fresh /\ held[p][i] # Absent /\ SameCalls(held'[p][i], held[p][i])
  BY SameSelf
<1> QED
  BY <1>1, MoveCount

\* p changes its copy of its job.
LEMMA ChangeCount ==
  ASSUME Typed, Typed', CountInv, NEW p \in Proc, NEW j \in Jobs, NEW job \in Job, Moves(p),
         UNCHANGED <<doc, dials, torn, fresh>>,
         pc[p] # "save", pc'[p] # "dial", cur'[p] = j,
         held[p][j] # Absent, held'[p][j] = job, SameCalls(job, held[p][j]),
         pc'[p] = "save" => job.status # "dialing",
         \A i \in Jobs : i # j => held'[p][i] = held[p][i]
  PROVE  CountInv'
<1>1. \A i \in Jobs : <<p, i>> \in fresh' /\ held'[p][i] # Absent =>
        <<p, i>> \in fresh /\ held[p][i] # Absent /\ SameCalls(held'[p][i], held[p][i])
  BY SameSelf
<1> QED
  BY <1>1, MoveCount

LEMMA WriteCount ==
  ASSUME Typed, CountInv, NEW p \in Proc, NEW j \in Jobs, NEW job \in Job,
         Moves(p), Write(p, j, job), UNCHANGED dials,
         held[p][j] # Absent, SameCalls(job, held[p][j]),
         pc[p] = "save" => cur[p] = j,
         pc'[p] \notin {"save", "dial"},
         \A i \in Jobs : i # j => held'[p][i] = held[p][i]
  PROVE  CountInv'
<1>1. /\ \A i \in Jobs : i # j => p \notin Unsaving(i)
      /\ \A i \in Jobs : p \notin Unsaving(i)'
  BY DEF Unsaving
<1> QED
  BY <1>1, WriteTally, WriteCap DEF CountInv

\* What _after_attempt makes of a copy has its calls.
LEMMA AfterCalls ==
  ASSUME NEW j \in Jobs, NEW call \in Job, NEW o \in Outcome, NEW job \in AfterAttempt(j, call, o)
  PROVE  job \in Job /\ SameCalls(job, call)
BY AfterAttemptType, SameAttempts

LEMMA CallsTrans ==
  ASSUME NEW a \in Job, NEW b \in Job, NEW c \in Job, SameCalls(a, b), SameCalls(b, c)
  PROVE  SameCalls(a, c)
<1> DEFINE x == Len(a.attempts)
           y == Len(b.attempts)
           z == Len(c.attempts)
<1>1. x \in Nat /\ y \in Nat /\ z \in Nat
  BY CalledType
<1>2. x >= y /\ y >= z /\ Called(a) = Called(c)
  BY DEF SameCalls
<1> HIDE DEF x, y, z
<1>3. x >= z
  BY <1>1, <1>2
<1> QED
  BY <1>2, <1>3 DEF x, z, SameCalls

\* The dialer raises: one attempt more, and no call that it records.
LEMMA FailCount ==
  ASSUME Typed, Typed', FinalInv, CountInv, NEW p \in Dispatchers, DialFails(p)
  PROVE  CountInv'
<1> DEFINE tried == WithAttempt(Mine(p), "no_contact", FALSE)
<1>0. p \in Proc
  BY DEF Proc, Dispatchers
<1>1. cur[p] \in Jobs /\ pc[p] = "dial" /\ UNCHANGED <<doc, cur, fresh>>
  BY <1>0 DEF DialFails, Typed, CurOK, Working, store
<1>2. Mine(p) \in Job /\ Mine(p) = held[p][cur[p]]
  BY <1>0, <1>1, MineType DEF Mine
<1>3. tried \in Job
  BY <1>2, WithAttemptType DEF Outcome
<1>4. SameCalls(tried, Mine(p))
  <2>1. Called(tried) = Called(Mine(p)) + 0 /\ Len(tried.attempts) = Len(Mine(p).attempts) + 1
    BY <1>2, WithAttemptCalls DEF Outcome
  <2> DEFINE a == Called(Mine(p))
             b == Len(Mine(p).attempts)
  <2>2. a \in Nat /\ b \in Nat
    BY <1>2, CalledType
  <2>3. Called(tried) = a + 0 /\ Len(tried.attempts) = b + 1
    BY <2>1
  <2> HIDE DEF a, b, tried
  <2>4. Called(tried) = a /\ Len(tried.attempts) >= b
    BY <2>2, <2>3
  <2> QED
    BY <2>4 DEF SameCalls, a, b
<1>5. held[p][cur[p]] # Absent
  BY <1>0, <1>1 DEF FinalInv, SavedOK, WithJob, Absent
<1>6. PICK job \in AfterAttempt(cur[p], tried, "no_contact") : Change(p, job, "save_after")
  BY DEF DialFails
<1> HIDE DEF tried
<1>7. job \in Job /\ SameCalls(job, tried)
  BY <1>1, <1>3, <1>6, AfterCalls DEF Outcome
<1>8. SameCalls(job, held[p][cur[p]])
  BY <1>2, <1>3, <1>4, <1>7, CallsTrans
<1>9. Moves(p) /\ pc'[p] = "save_after" /\ held'[p][cur[p]] = job
      /\ \A i \in Jobs : i # cur[p] => held'[p][i] = held[p][i]
  BY <1>0, <1>1, <1>6, <1>7, ChangeFrame DEF PC
<1>10. CASE UNCHANGED <<dials, grace, torn>>
  BY <1>0, <1>1, <1>5, <1>7, <1>8, <1>9, <1>10, ChangeCount
<1>11. CASE PlaceCall(p) /\ torn' = torn \cup {cur[p]}
  <2>1. PICK c \in Jobs : c = cur[p]
    BY <1>1
  <2>2. \A j \in Jobs \ torn' : CallsTo({j})' = CallsTo({j})
    BY <1>11, <2>1, PlaceCalls
  <2>3. \A ph \in Phones : Untorn(ph)' => LoopCalls(ph)' = LoopCalls(ph)
    BY <1>11, <2>1, PlaceCalls DEF Untorn
  <2>4. \A j \in Jobs : p \notin Unsaving(j) /\ p \notin Unsaving(j)'
    BY <1>1, <1>9 DEF Unsaving
  <2>5. \A i \in Jobs : <<p, i>> \in fresh' /\ held'[p][i] # Absent =>
          <<p, i>> \in fresh /\ held[p][i] # Absent /\ SameCalls(held'[p][i], held[p][i])
    BY <1>0, <1>1, <1>5, <1>8, <1>9, SameSelf
  <2>6. TallyInv'
    BY <1>0, <1>1, <1>9, <1>11, <2>2, <2>4, <2>5, MoveTally DEF CountInv
  <2>7. CapInv'
    BY <1>0, <1>1, <1>9, <1>11, <2>3, <2>4, MoveCap DEF CountInv
  <2> QED
    BY <2>6, <2>7 DEF CountInv
<1> QED
  BY <1>10, <1>11 DEF DialFails

\* The loop is let past the daily cap only with a call to spare.
LEMMA LetPast ==
  ASSUME Typed, Typed', CountInv, NEW p \in Dispatchers, pc[p] = "count", cur[p] \in Jobs,
         DailyCount(PhoneOf[cur[p]]) < DailyCap, pc' = [pc EXCEPT ![p] = "dial"],
         UNCHANGED <<doc, dials, torn, fresh, cur, held>>
  PROVE  CountInv'
<1>0. p \in Proc
  BY DEF Proc, Dispatchers
<1>1. Moves(p) /\ pc'[p] = "dial"
  BY <1>0 DEF Moves, Typed, TypeOK
<1>2. \A j \in Jobs : p \notin Unsaving(j) /\ p \notin Unsaving(j)'
  BY <1>1 DEF Unsaving
<1>3. \A j \in Jobs : CallsTo({j})' = CallsTo({j})
  BY DEF CallsTo
<1>4. \A ph \in Phones : LoopCalls(ph)' = LoopCalls(ph)
  BY DEF LoopCalls
<1>5. \A i \in Jobs : <<p, i>> \in fresh' /\ held'[p][i] # Absent =>
        <<p, i>> \in fresh /\ held[p][i] # Absent /\ SameCalls(held'[p][i], held[p][i])
  BY <1>0, SameSelf
<1>6. ASSUME p = Loop, NEW ph \in Phones, Untorn(ph), PhoneOf[cur'[p]] = ph
      PROVE  Cardinality(LoopCalls(ph)) < DailyCap
  <2>1. ~LoopUnsaved(ph)
    BY <1>2, <1>6 DEF LoopUnsaved
  <2>2. Cardinality(LoopCalls(ph)) <= Cardinality(Recorded(ph)) + 0 /\ IsFiniteSet(Recorded(ph))
    BY <1>6, <2>1 DEF CountInv, CapInv
  <2>3. Cardinality(Recorded(ph)) < DailyCap
    BY <1>6 DEF DailyCount, Recorded
  <2>4. Cardinality(Recorded(ph)) \in Nat /\ Cardinality(LoopCalls(ph)) \in Nat /\ DailyCap \in Nat
    BY <2>2, FS_CardinalityType, LoopCallsFinite, OutboundAssumption
  <2> QED
    BY <2>2, <2>3, <2>4
<1>7. TallyInv'
  BY <1>0, <1>1, <1>2, <1>3, <1>5, MoveTally DEF CountInv
<1>8. CapInv'
  BY <1>0, <1>1, <1>2, <1>4, <1>6, MoveCap DEF CountInv
<1> QED
  BY <1>7, <1>8 DEF CountInv

LEMMA StepCount ==
  Typed /\ Typed' /\ AttemptsInv /\ FinalInv /\ CountInv /\ [Next]_vars => CountInv'
<1> SUFFICES ASSUME Typed, Typed', AttemptsInv, FinalInv, CountInv, [Next]_vars PROVE CountInv'
  OBVIOUS
<1> USE DEF Proc, Dispatchers
<1>1. ASSUME NEW r \in Requests, NEW j \in Jobs, Schedule(r, j)
     PROVE  CountInv'
  <2>1. PICK s \in {"scheduled", "cancelled", "suppressed"}, due \in BOOLEAN :
          Take(r, j, [Absent EXCEPT !.status = s, !.due = due], "save")
    BY <1>1 DEF Schedule
  <2> DEFINE job == [Absent EXCEPT !.status = s, !.due = due]
  <2>2. job \in Job /\ job.status = s /\ job.attempts = Absent.attempts
    <3>1. Absent \in Job /\ s \in Status
      BY AbsentType DEF Status, Waiting, Final
    <3> QED
      BY <3>1 DEF Job
  <2>3. doc[j] = Absent /\ pc[r] = "idle" /\ UNCHANGED <<doc, dials, torn>>
    BY <1>1 DEF Schedule, store, world
  <2> HIDE DEF job
  <2>4. SameCalls(job, doc[j])
    BY <2>2, <2>3, AbsentType, SameAttempts
  <2>5. job.status # "dialing" /\ Take(r, j, job, "save") /\ "save" \in PC
    BY <2>1, <2>2 DEF job, PC
  <2> QED
    BY <2>2, <2>3, <2>4, <2>5, TakeCount
<1>2. ASSUME NEW r \in Requests, NEW j \in Jobs, Cancel(r, j)
     PROVE  CountInv'
  <2> DEFINE job == [doc[j] EXCEPT !.status = "cancelled", !.due = FALSE]
  <2>1. doc[j] \in Job
    BY DEF Typed, TypeOK
  <2>2. job \in Job /\ job.status = "cancelled" /\ job.attempts = doc[j].attempts
    BY <2>1 DEF Job, Status, Final
  <2>3. pc[r] = "idle" /\ UNCHANGED <<doc, dials, torn>> /\ Take(r, j, job, "save")
    BY <1>2 DEF Cancel, store, world
  <2> HIDE DEF job
  <2>4. SameCalls(job, doc[j]) /\ "save" \in PC
    BY <2>1, <2>2, SameAttempts DEF PC
  <2> QED
    BY <2>2, <2>3, <2>4, TakeCount
<1>3. ASSUME NEW r \in Requests, NEW j \in Jobs, DialNow(r, j)
     PROVE  CountInv'
  <2>1. doc[j] \in Job /\ "gate" \in PC
    BY DEF Typed, TypeOK, PC
  <2>2. pc[r] = "idle" /\ UNCHANGED <<doc, dials, torn>> /\ Take(r, j, doc[j], "gate")
    BY <1>3 DEF DialNow, store, world
  <2> QED
    BY <2>1, <2>2, SameSelf, TakeCount
<1>4. ASSUME NEW r \in Requests, NEW j \in Jobs, Suppress(r, j)
     PROVE  CountInv'
  <2>1. /\ Moves(r) /\ UNCHANGED <<doc, dials, torn, fresh>> /\ UNCHANGED held
        /\ pc[r] = "idle" /\ pc'[r] = "list"
    BY <1>4 DEF Suppress, Typed, TypeOK, Moves, world
  <2> QED
    BY <2>1, KeepCount
<1>5. ASSUME NEW ph \in Phones, Unsuppress(ph)
     PROVE  CountInv'
  BY <1>5, StillCount DEF Unsuppress, world
<1>6. ASSUME NEW p \in Proc, ListWaiting(p)
     PROVE  CountInv'
  <2>1. PICK js \in SUBSET Jobs, next \in {"idle", "suppress"} : List(p, js, next)
    BY <1>6 DEF ListWaiting
  <2>2. \A q \in Proc : q # p => cur'[q] = cur[q]
    BY <1>6 DEF ListWaiting, Typed, TypeOK
  <2>3. pc[p] = "list" /\ UNCHANGED <<doc, dials, torn>> /\ next \in PC
    BY <1>6 DEF ListWaiting, store, world, PC
  <2> QED
    BY <2>1, <2>2, <2>3, ListCount
<1>7. ASSUME NEW p \in Proc, NEW j \in Jobs, SuppressJob(p, j)
     PROVE  CountInv'
  <2> DEFINE job == [held[p][j] EXCEPT !.status = "suppressed", !.due = FALSE]
  <2>1. /\ Moves(p) /\ Write(p, j, job) /\ job \in Job
        /\ pc[p] = "suppress" /\ pc'[p] \in {"idle", "suppress"}
        /\ held[p][j] # Absent
        /\ \A i \in Jobs : i # j => held'[p][i] = held[p][i]
    BY <1>7, SuppressFrame
  <2>2. held[p][j] \in Job /\ job.attempts = held[p][j].attempts
    BY DEF Typed, TypeOK, Job
  <2>3. UNCHANGED dials
    BY <1>7 DEF SuppressJob, world
  <2> HIDE DEF job
  <2>4. SameCalls(job, held[p][j])
    BY <2>1, <2>2, SameAttempts
  <2> QED
    BY <2>1, <2>3, <2>4, WriteCount
<1>8. ASSUME ListStale \/ ListDue
     PROVE  CountInv'
  <2>1. PICK js \in SUBSET Jobs : List(Loop, js, "tick")
    BY <1>8 DEF ListStale, ListDue
  <2>2. pc[Loop] = "idle" /\ UNCHANGED <<doc, dials, torn, cur>> /\ "tick" \in PC
    BY <1>8 DEF ListStale, ListDue, store, world, PC
  <2> QED
    BY <2>1, <2>2, ListCount
<1>9. ASSUME NEW j \in Jobs, ExpireStale(j)
     PROVE  CountInv'
  <2> DEFINE lost == WithLast(held[Loop][j], "no_contact")
  <2>1. PICK job \in AfterAttempt(j, lost, "no_contact") :
           /\ job \in Job
           /\ Moves(Loop)
           /\ Write(Loop, j, job)
           /\ pc[Loop] = "tick" /\ held[Loop][j].status \in Live
           /\ pc'[Loop] = "after" /\ cur'[Loop] = j /\ held'[Loop][j] = job
           /\ \A i \in Jobs : i # j => held'[Loop][i] = held[Loop][i]
    BY <1>9, ExpireFrame
  <2>2. held[Loop][j] \in Job /\ held[Loop][j] # Absent
    BY <2>1 DEF Typed, TypeOK, Absent, Live
  <2>3. lost \in Job /\ SameCalls(lost, held[Loop][j])
    BY <2>2, WithLastType, WithLastCalls DEF Outcome
  <2> HIDE DEF lost
  <2>4. SameCalls(job, lost)
    BY <2>1, <2>3, AfterCalls DEF Outcome
  <2>5. SameCalls(job, held[Loop][j])
    BY <2>1, <2>2, <2>3, <2>4, CallsTrans
  <2>6. UNCHANGED dials
    BY <1>9 DEF ExpireStale, world
  <2> QED
    BY <2>1, <2>2, <2>5, <2>6, WriteCount
<1>10. ASSUME NEW p \in Dispatchers, NEW j \in Jobs, Gate(p, j)
     PROVE  CountInv'
  <2>1. held[p][j] \in Job /\ held[p][j].status \in Waiting
    BY <1>10 DEF Gate, AttemptsInv, DispatchOK, AboutToDial, Typed, TypeOK
  <2>2. held[p][j] # Absent
    BY <2>1 DEF Waiting, Absent
  <2>3. /\ Moves(p) /\ cur'[p] = j /\ pc[p] # "save"
        /\ UNCHANGED <<doc, dials, torn, fresh>>
    BY <1>10 DEF Gate, Typed, TypeOK, Moves, store, world, ghost
  <2>4. /\ [held[p][j] EXCEPT !.status = "cancelled", !.due = FALSE].attempts = held[p][j].attempts
        /\ [held[p][j] EXCEPT !.status = "suppressed", !.due = FALSE].attempts = held[p][j].attempts
        /\ [held[p][j] EXCEPT !.due = FALSE].attempts = held[p][j].attempts
        /\ [held[p][j] EXCEPT !.status = "cancelled", !.due = FALSE].status = "cancelled"
        /\ [held[p][j] EXCEPT !.status = "suppressed", !.due = FALSE].status = "suppressed"
        /\ [held[p][j] EXCEPT !.due = FALSE].status = held[p][j].status
        /\ [held[p][j] EXCEPT !.status = "cancelled", !.due = FALSE] \in Job
        /\ [held[p][j] EXCEPT !.status = "suppressed", !.due = FALSE] \in Job
        /\ [held[p][j] EXCEPT !.due = FALSE] \in Job
    BY <2>1 DEF Job, Status, Final
  <2>5. CASE \E job \in Job :
               /\ job.attempts = held[p][j].attempts /\ job.status # "dialing"
               /\ held' = [held EXCEPT ![p] = [@ EXCEPT ![j] = job]]
               /\ pc' = [pc EXCEPT ![p] = "save"]
    <3>1. PICK job \in Job :
               /\ job.attempts = held[p][j].attempts /\ job.status # "dialing"
               /\ held' = [held EXCEPT ![p] = [@ EXCEPT ![j] = job]]
               /\ pc' = [pc EXCEPT ![p] = "save"]
      BY <2>5
    <3>2. /\ pc'[p] = "save" /\ held'[p][j] = job
          /\ \A i \in Jobs : i # j => held'[p][i] = held[p][i]
      BY <3>1 DEF Typed, TypeOK
    <3>3. SameCalls(job, held[p][j])
      BY <2>1, <3>1, SameAttempts
    <3> QED
      BY <2>2, <2>3, <3>1, <3>2, <3>3, ChangeCount
  <2>6. CASE pc' = [pc EXCEPT ![p] = "count"] /\ UNCHANGED held
    <3>1. pc'[p] = "count"
      BY <2>6 DEF Typed, TypeOK
    <3> QED
      BY <2>3, <2>6, <3>1, KeepCount
  <2>7. CASE p # Loop /\ pc' = [pc EXCEPT ![p] = "dial"] /\ UNCHANGED held
    <3>1. pc'[p] = "dial"
      BY <2>7 DEF Typed, TypeOK
    <3>2. \A i \in Jobs : p \notin Unsaving(i) /\ p \notin Unsaving(i)'
      BY <2>3, <3>1 DEF Unsaving
    <3>3. \A i \in Jobs : CallsTo({i})' = CallsTo({i})
      BY <2>3 DEF CallsTo
    <3>4. \A ph \in Phones : LoopCalls(ph)' = LoopCalls(ph)
      BY <2>3 DEF LoopCalls
    <3>5. \A i \in Jobs : <<p, i>> \in fresh' /\ held'[p][i] # Absent =>
            <<p, i>> \in fresh /\ held[p][i] # Absent /\ SameCalls(held'[p][i], held[p][i])
      BY <2>3, <2>7, SameSelf
    <3>6. TallyInv'
      BY <2>3, <3>2, <3>3, <3>5, MoveTally DEF CountInv
    <3>7. CapInv'
      BY <2>3, <2>7, <3>2, <3>4, MoveCap DEF CountInv
    <3> QED
      BY <3>6, <3>7 DEF CountInv
  <2>8. \/ \E job \in Job :
               /\ job.attempts = held[p][j].attempts /\ job.status # "dialing"
               /\ held' = [held EXCEPT ![p] = [@ EXCEPT ![j] = job]]
               /\ pc' = [pc EXCEPT ![p] = "save"]
        \/ pc' = [pc EXCEPT ![p] = "count"] /\ UNCHANGED held
        \/ p # Loop /\ pc' = [pc EXCEPT ![p] = "dial"] /\ UNCHANGED held
    <3>1. held[p][j].status # "dialing"
      BY <2>1 DEF Waiting
    <3> QED
      BY <1>10, <2>4, <3>1 DEF Gate
  <2> QED
    BY <2>5, <2>6, <2>7, <2>8
<1>11. ASSUME NEW p \in Dispatchers, Count(p)
     PROVE  CountInv'
  <2>1. /\ cur[p] \in Jobs /\ pc[p] = "count"
        /\ UNCHANGED <<doc, dials, torn, fresh, cur>>
    BY <1>11 DEF Count, Typed, CurOK, Working, store, world, ghost
  <2>2. Mine(p) \in Job /\ Mine(p) = held[p][cur[p]] /\ Mine(p).status \in Waiting
    BY <2>1, MineType DEF Mine, AttemptsInv, DispatchOK, AboutToDial
  <2>3. CASE DailyCount(PhoneOf[cur[p]]) >= DailyCap /\ Change(p, [Mine(p) EXCEPT !.due = FALSE], "save")
    <3> DEFINE job == [Mine(p) EXCEPT !.due = FALSE]
    <3>1. job \in Job /\ job.attempts = Mine(p).attempts /\ job.status = Mine(p).status
      BY <2>2 DEF Job
    <3> HIDE DEF job
    <3>2. /\ Moves(p) /\ pc'[p] = "save" /\ held'[p][cur[p]] = job
          /\ \A i \in Jobs : i # cur[p] => held'[p][i] = held[p][i]
      BY <2>1, <2>3, <3>1, ChangeFrame DEF PC, job
    <3>3. SameCalls(job, held[p][cur[p]])
      BY <2>2, <3>1, SameAttempts
    <3>4. job.status # "dialing" /\ held[p][cur[p]] # Absent
      BY <2>2, <3>1 DEF Waiting, Absent
    <3> QED
      BY <2>1, <3>1, <3>2, <3>3, <3>4, ChangeCount
  <2>4. CASE ~(DailyCount(PhoneOf[cur[p]]) >= DailyCap) /\ pc' = [pc EXCEPT ![p] = "dial"] /\ UNCHANGED held
    <3>1. DailyCount(PhoneOf[cur[p]]) \in Nat
      <4>1. PhoneOf[cur[p]] \in Phones
        BY <2>1, OutboundAssumption
      <4>2. IsFiniteSet(Recorded(PhoneOf[cur[p]]))
        BY <4>1 DEF CountInv, CapInv
      <4> QED
        BY <4>2, FS_CardinalityType DEF DailyCount, Recorded
    <3>2. DailyCount(PhoneOf[cur[p]]) < DailyCap
      BY <2>4, <3>1, OutboundAssumption
    <3> QED
      BY <2>1, <2>4, <3>2, LetPast
  <2> QED
    BY <1>11, <2>3, <2>4 DEF Count
<1>12. ASSUME NEW p \in Dispatchers, DialCallee(p)
     PROVE  CountInv'
  <2>1. PICK c \in Jobs : c = cur[p]
    BY <1>12 DEF DialCallee, Typed, CurOK, Working
  <2> QED
    BY <1>12, <2>1, CallTally, CallCap DEF CountInv
<1>13. ASSUME NEW p \in Dispatchers, DialFails(p)
     PROVE  CountInv'
  BY <1>13, FailCount
<1>14. ASSUME NEW p \in Dispatchers, AssistantMissing(p)
     PROVE  CountInv'
  <2> DEFINE job == [Mine(p) EXCEPT !.status = "failed", !.due = FALSE]
  <2>1. /\ cur[p] \in Jobs /\ pc[p] = "dial"
        /\ UNCHANGED <<doc, dials, torn, fresh, cur>> /\ Change(p, job, "save")
    BY <1>14 DEF AssistantMissing, Typed, CurOK, Working, store, world, ghost
  <2>2. Mine(p) \in Job /\ Mine(p) = held[p][cur[p]] /\ Mine(p).status \in Waiting
    BY <2>1, MineType DEF Mine, AttemptsInv, DispatchOK, AboutToDial
  <2>3. job \in Job /\ job.attempts = Mine(p).attempts /\ job.status = "failed"
    BY <2>2 DEF Job, Status, Final
  <2> HIDE DEF job
  <2>4. /\ Moves(p) /\ pc'[p] = "save" /\ held'[p][cur[p]] = job
        /\ \A i \in Jobs : i # cur[p] => held'[p][i] = held[p][i]
    BY <2>1, <2>3, ChangeFrame DEF PC
  <2>5. SameCalls(job, held[p][cur[p]]) /\ held[p][cur[p]] # Absent
    BY <2>2, <2>3, SameAttempts DEF Waiting, Absent
  <2> QED
    BY <2>1, <2>3, <2>4, <2>5, ChangeCount
<1>15. ASSUME NEW p \in Proc, Save(p)
     PROVE  CountInv'
  <2>1. cur[p] \in Jobs /\ pc[p] = "save" /\ UNCHANGED dials
    BY <1>15 DEF Save, Typed, CurOK, Working, world
  <2>2. Mine(p) \in Job /\ Write(p, cur[p], Mine(p)) /\ Mine(p) = held[p][cur[p]]
    BY <1>15, <2>1, MineType DEF Save, Mine
  <2>3. /\ Moves(p) /\ pc'[p] \in {"idle", "tick"}
        /\ \A i \in Jobs : i # cur[p] => held'[p][i] = held[p][i]
    BY <1>15, <2>1, LeaveFrame DEF Save
  <2>4. held[p][cur[p]] # Absent /\ SameCalls(Mine(p), held[p][cur[p]])
    BY <2>1, <2>2, SameSelf DEF FinalInv, SavedOK, WithJob, Absent
  <2> QED
    BY <2>1, <2>2, <2>3, <2>4, WriteCount
<1>16. ASSUME NEW p \in Proc, SaveThen(p)
     PROVE  CountInv'
  <2>1. cur[p] \in Jobs /\ pc[p] \in {"save_after", "save_opt_out"} /\ UNCHANGED dials
    BY <1>16 DEF SaveThen, Typed, CurOK, Working, world
  <2>2. Mine(p) \in Job /\ Write(p, cur[p], Mine(p)) /\ Mine(p) = held[p][cur[p]]
    BY <1>16, <2>1, MineType DEF SaveThen, Mine
  <2>3. /\ Moves(p) /\ pc'[p] \in {"after", "opt_out"} /\ UNCHANGED held
    BY <1>16 DEF SaveThen, Typed, TypeOK, Moves
  <2>4. held[p][cur[p]] # Absent /\ SameCalls(Mine(p), held[p][cur[p]])
    BY <2>1, <2>2, SameSelf DEF FinalInv, SavedOK, WithJob, Absent
  <2> QED
    BY <2>1, <2>2, <2>3, <2>4, WriteCount
<1>17. ASSUME NEW p \in Proc, AfterSave(p)
     PROVE  CountInv'
  <2>1. cur[p] \in Jobs /\ pc[p] = "after" /\ UNCHANGED <<doc, dials, torn, fresh>>
    BY <1>17 DEF AfterSave, Typed, CurOK, Working, world, ghost
  <2>2. /\ Moves(p) /\ pc'[p] \in {"idle", "tick"} /\ held'[p][cur[p]] = Absent
        /\ \A i \in Jobs : i # cur[p] => held'[p][i] = held[p][i]
    BY <1>17, <2>1, LeaveFrame DEF AfterSave
  <2> QED
    BY <2>1, <2>2, KeepCount
<1>18. ASSUME NEW p \in Proc, OptOut(p)
     PROVE  CountInv'
  <2>1. /\ Moves(p) /\ UNCHANGED <<doc, dials, torn, fresh>> /\ UNCHANGED held
        /\ pc[p] # "save" /\ pc'[p] = "list"
    BY <1>18 DEF OptOut, Typed, TypeOK, Moves, world
  <2> QED
    BY <2>1, KeepCount
<1>19. ASSUME NEW h \in Handlers, NEW m \in inbox, OnCallStarted(h, m)
     PROVE  CountInv'
  <2> DEFINE j == dials[m.call].job
             job == [doc[j] EXCEPT !.status = "in_progress"]
  <2>1. j \in Jobs /\ doc[j] \in Job /\ pc[h] = "idle" /\ UNCHANGED <<doc, dials, torn>>
    BY <1>19, MessageType DEF OnCallStarted, store
  <2>2. job \in Job /\ job.attempts = doc[j].attempts /\ job.status = "in_progress"
    BY <2>1 DEF Job, Status, Live
  <2>3. \/ Take(h, j, job, "save")
        \/ UNCHANGED <<pc, cur, held, fresh>>
    BY <1>19 DEF OnCallStarted
  <2> HIDE DEF job, j
  <2>4. CASE Take(h, j, job, "save")
    BY <2>1, <2>2, <2>4, SameAttempts, TakeCount DEF PC
  <2>5. CASE UNCHANGED <<pc, cur, held, fresh>>
    BY <2>1, <2>5, StillCount DEF local
  <2> QED
    BY <2>3, <2>4, <2>5
<1>20. ASSUME NEW h \in Handlers, NEW m \in inbox, OnCallEnded(h, m)
     PROVE  CountInv'
  <2> DEFINE j == dials[m.call].job
  <2>1. /\ m \in Message /\ j \in Jobs /\ doc[j] \in Job /\ pc[h] = "idle"
        /\ UNCHANGED <<doc, dials, torn>>
    BY <1>20, MessageType DEF OnCallEnded, store
  <2>2. LastOutcome(doc[j]) \in Outcome /\ m.outcome \in Outcome
    BY <2>1, LastOutcomeType DEF Message
  <2>3. ASSUME NEW o \in Outcome, NEW result \in Outcome,
               NEW job \in AfterAttempt(j, WithLast(doc[j], o), result)
        PROVE  job \in Job /\ SameCalls(job, doc[j])
    <3>1. WithLast(doc[j], o) \in Job /\ SameCalls(WithLast(doc[j], o), doc[j])
      BY <2>1, WithLastType, WithLastCalls
    <3> HIDE DEF j
    <3>2. job \in Job /\ SameCalls(job, WithLast(doc[j], o))
      BY <2>1, <2>3, <3>1, AfterCalls
    <3> QED
      BY <2>1, <3>1, <3>2, CallsTrans
  <2>4. \/ UNCHANGED <<pc, cur, held, fresh>>
        \/ \E job \in Job : SameCalls(job, doc[j]) /\ Take(h, j, job, "save_after")
    BY <1>20, <2>2, <2>3 DEF OnCallEnded, Outcome
  <2> HIDE DEF j
  <2>5. CASE \E job \in Job : SameCalls(job, doc[j]) /\ Take(h, j, job, "save_after")
    BY <2>1, <2>5, TakeCount DEF PC
  <2>6. CASE UNCHANGED <<pc, cur, held, fresh>>
    BY <2>1, <2>6, StillCount DEF local
  <2> QED
    BY <2>4, <2>5, <2>6
<1>21. ASSUME NEW h \in Handlers, NEW m \in inbox, WorkerOutcome(h, m)
     PROVE  CountInv'
  <2> DEFINE j == dials[m.call].job
             job == WithLast(doc[j], m.outcome)
  <2>1. /\ m.outcome \in Outcome /\ j \in Jobs /\ doc[j] \in Job /\ pc[h] = "idle"
        /\ UNCHANGED <<doc, dials, torn>>
    BY <1>21, MessageType DEF WorkerOutcome, store, Message
  <2>2. job \in Job /\ SameCalls(job, doc[j])
    BY <2>1, WithLastType, WithLastCalls
  <2>3. PICK next \in {"save", "save_opt_out"} : Take(h, j, job, next)
    BY <1>21 DEF WorkerOutcome
  <2>4. h \notin Dispatchers /\ next \in PC /\ next # "dial"
    BY OutboundAssumption DEF PC
  <2> HIDE DEF j, job
  <2> QED
    BY <2>1, <2>2, <2>3, <2>4, TakeCount
<1>22. ASSUME NEW k \in DOMAIN dials, Worker(k)
     PROVE  CountInv'
  <2>1. PICK to \in CallStates : dials' = [dials EXCEPT ![k].state = to]
    BY <1>22 DEF Worker, StartCall, ReportOutcome, EndCall, Progress, CallStates
  <2>2. UNCHANGED local /\ UNCHANGED <<fresh, torn>> /\ UNCHANGED doc
    BY <1>22 DEF Worker, StartCall, ReportOutcome, EndCall, Progress, store, ghost
  <2>3. /\ DOMAIN dials' = DOMAIN dials
        /\ \A i \in DOMAIN dials : dials'[i].job = dials[i].job /\ dials'[i].by = dials[i].by
    BY <2>1 DEF Typed, TypeOK, Dial
  <2>4. \A j \in Jobs : CallsTo({j})' = CallsTo({j})
    BY <2>3 DEF CallsTo
  <2>5. \A ph \in Phones : LoopCalls(ph)' = LoopCalls(ph)
    BY <2>3 DEF LoopCalls
  <2> QED
    BY <2>2, <2>4, <2>5, StillTally, StillCap DEF CountInv
<1>23. ASSUME NEW j \in Jobs, BecomeDue(j) \/ BecomeStale(j)
     PROVE  CountInv'
  <2>0. doc \in [Jobs -> Job] /\ doc[j] \in Job
    BY DEF Typed, TypeOK
  <2>1. \A i \in Jobs : doc'[i].attempts = doc[i].attempts
    <3>1. \/ doc' = [doc EXCEPT ![j] = [doc[j] EXCEPT !.due = TRUE]]
          \/ doc' = [doc EXCEPT ![j] = [doc[j] EXCEPT !.aged = TRUE]]
      BY <1>23 DEF BecomeDue, BecomeStale
    <3>2. /\ [doc[j] EXCEPT !.due = TRUE].attempts = doc[j].attempts
          /\ [doc[j] EXCEPT !.aged = TRUE].attempts = doc[j].attempts
      BY <2>0 DEF Job
    <3> QED
      BY <2>0, <3>1, <3>2
  <2>2. UNCHANGED local /\ UNCHANGED <<fresh, torn>> /\ UNCHANGED dials
    BY <1>23 DEF BecomeDue, BecomeStale, world, ghost
  <2> QED
    BY <2>1, <2>2, StillCount
<1>24. ASSUME NEW j \in Jobs, DeadlinePasses(j)
     PROVE  CountInv'
  BY <1>24, StillCount DEF DeadlinePasses, store, ghost
<1>25. ASSUME NEW ps \in SUBSET Proc, Stop(ps)
     PROVE  CountInv'
  BY <1>25, StopTally, StopCap DEF CountInv
<1>26. ASSUME UNCHANGED vars
     PROVE  CountInv'
  BY <1>26, StillCount DEF vars, store, world, ghost
<1> QED
  BY <1>1, <1>2, <1>3, <1>4, <1>5, <1>6, <1>7, <1>8, <1>9, <1>10, <1>11, <1>12, <1>13, <1>14, <1>15, <1>16, <1>17, <1>18, <1>19, <1>20, <1>21, <1>22, <1>23, <1>24, <1>25, <1>26, Stops
  DEF Next, Dispatch, Persist, Request, Handle

\* Calls and what is recorded of them keep in step, however the loop, the requests
\* and the event handlers overlap.
THEOREM CountAlways == Spec => [](Typed /\ CountInv)
<1>1. Init => Typed /\ AttemptsInv /\ FinalInv /\ CountInv
  BY InitTyped, InitAttempts, InitFinal, InitTally, InitCap DEF CountInv
<1>2. (Typed /\ AttemptsInv /\ FinalInv /\ CountInv) /\ [Next]_vars
      => (Typed /\ AttemptsInv /\ FinalInv /\ CountInv)'
  BY StepTyped, StepAttempts, StepFinal, StepCount
<1> QED
  BY <1>1, <1>2, PTL DEF Spec

\* For a job no process has written past, the attempts that name a call are exactly
\* the calls that were placed, once none of them is still to be saved: dial_job places
\* the call before it saves the attempt, and neither loses nor invents one.
THEOREM LedgerAlwaysExact == Spec => []LedgerExact
<1>1. ASSUME Typed, CountInv PROVE LedgerExact
  <2> SUFFICES ASSUME NEW j \in Jobs \ torn, ~Unsaved(j)
               PROVE  Called(doc[j]) = Cardinality(CallsTo({j}))
    BY DEF LedgerExact
  <2>1. Unsaving(j) = {}
    BY DEF Unsaved, Unsaving
  <2>2. Called(doc[j]) + Cardinality(Unsaving(j)) = Cardinality(CallsTo({j}))
    BY <1>1 DEF CountInv, TallyInv, Tally
  <2>3. Cardinality(Unsaving(j)) = 0 /\ Called(doc[j]) \in Nat
    BY <1>1, <2>1, FS_EmptySet, CalledType DEF Typed, TypeOK
  <2> QED
    BY <2>2, <2>3
<1> QED
  BY <1>1, CountAlways, PTL

\* The loop never calls a number more often than the daily cap, counted over all the
\* jobs of that number, and a number on the do-not-call list is called at most once
\* for every dispatch that was past its gate when the number was listed.
THEOREM DialsAlwaysBounded == Spec => []DialsBounded
<1>1. ASSUME Typed, CapInv, GraceInv PROVE DialsBounded
  <2>1. ASSUME NEW ph \in Phones, {j \in Jobs : PhoneOf[j] = ph} \cap torn = {}
        PROVE  Cardinality({k \in CallsTo({j \in Jobs : PhoneOf[j] = ph}) : dials[k].by = Loop}) <= DailyCap
    <3>1. {k \in CallsTo({j \in Jobs : PhoneOf[j] = ph}) : dials[k].by = Loop} = LoopCalls(ph)
      <4>1. \A k \in DOMAIN dials : dials[k].job \in Jobs
        BY <1>1, DialType
      <4> QED
        BY <4>1 DEF CallsTo, LoopCalls
    <3>2. Untorn(ph)
      BY <1>1, <2>1 DEF Untorn, Typed, TypeOK
    <3> QED
      BY <1>1, <3>1, <3>2 DEF CapInv
  <2>2. ASSUME NEW ph \in Phones, ph \in dnc PROVE grace[ph] >= 0
    <3>1. Cardinality(Inflight(ph)) \in Nat
      BY InflightIsFinite, FS_CardinalityType
    <3>2. grace[ph] \in Int /\ grace[ph] >= Cardinality(Inflight(ph))
      BY <1>1, <2>2 DEF GraceInv, Typed, TypeOK
    <3> QED
      BY <3>1, <3>2
  <2> QED
    BY <2>1, <2>2 DEF DialsBounded
<1>2. Init => Typed /\ GraceInv
  BY InitTyped, InitGrace
<1>3. (Typed /\ GraceInv) /\ [Next]_vars => (Typed /\ GraceInv)'
  BY StepTyped, StepGrace
<1>4. Spec => []GraceInv
  BY <1>2, <1>3, PTL DEF Spec
<1>5. Typed /\ CountInv /\ GraceInv => DialsBounded
  BY <1>1 DEF CountInv
<1> QED
  BY <1>4, <1>5, CountAlways, PTL

-------------------------------------------------------------------------------
(* The course of a call (CallLifecycle).  What has to be known of every copy that *)
(* nobody has written past is that to save it is a step of that course, or none:  *)
(* a process changes its copy by several steps of its own, and only the last of   *)
(* them is seen in the document.                                                  *)

\* p is about to save its copy of j; at every other place its copies are as read.
Saving(p, j) == pc[p] \in {"save", "save_after", "save_opt_out"} /\ cur[p] = j

SameStage(a, b) == a.status = b.status /\ Len(a.attempts) = Len(b.attempts)

\* What an attempt that reached nobody, the n-th, makes of a job.
GivenUp(j, n, s) ==
  /\ s \in {"retry", "exhausted"}
  /\ s = "retry" => n < MaxAttempts
  /\ s = "exhausted" => n >= MaxAttempts \/ j \in Deadlined

\* From document a to document b is a step of the course of job j, or none.
OnCourse(j, a, b) ==
  \/ SameStage(a, b)
  \/ /\ a.status = "absent" /\ b.status \in {"scheduled", "cancelled", "suppressed"}
     /\ Len(b.attempts) = 0
  \/ /\ a.status \in Waiting /\ b.status \in {"cancelled", "suppressed", "failed"}
     /\ Len(b.attempts) = Len(a.attempts)
  \/ /\ a.status \in Waiting /\ Len(a.attempts) < MaxAttempts
     /\ Len(b.attempts) = Len(a.attempts) + 1
     /\ (b.status = "dialing" \/ GivenUp(j, Len(b.attempts), b.status))
  \/ /\ a.status = "dialing" /\ b.status = "in_progress"
     /\ Len(b.attempts) = Len(a.attempts)
  \/ /\ a.status \in Live /\ Len(b.attempts) = Len(a.attempts)
     /\ (b.status = "completed" \/ GivenUp(j, Len(b.attempts), b.status))

FreshCourse ==
  \A p \in Proc, j \in Jobs :
    <<p, j>> \in fresh =>
      /\ ~(pc[p] = "after" /\ cur[p] = j)
      /\ IF Saving(p, j) THEN OnCourse(j, doc[j], held[p][j])
                         ELSE SameStage(doc[j], held[p][j])

\* Nobody writes past the copy of a job that is not stored yet.
NewFresh ==
  \A p \in Proc, j \in Jobs :
    held[p][j].status # "absent" /\ doc[j].status = "absent" => <<p, j>> \in fresh

ToSuppress ==
  \A p \in Proc, j \in Jobs :
    pc[p] = "suppress" => held[p][j] = Absent \/ held[p][j].status \in Waiting

CourseInv == FreshCourse /\ NewFresh /\ ToSuppress

LEMMA InitCourse == Init => CourseInv
  BY DEF Init, CourseInv, FreshCourse, NewFresh, ToSuppress, Absent

\* An operation takes a job up, its copy changed or not.
LEMMA TakeCourse ==
  ASSUME Typed, CourseInv, NEW p \in Proc, NEW j \in Jobs, NEW job \in Job, NEW next \in PC,
         pc[p] = "idle", Take(p, j, job, next), UNCHANGED doc, next \notin {"after", "suppress"},
         IF next \in {"save", "save_after", "save_opt_out"}
         THEN OnCourse(j, doc[j], job) ELSE SameStage(doc[j], job)
  PROVE  CourseInv'
<1>1. /\ Moves(p)
      /\ pc'[p] = next /\ cur'[p] = j /\ held'[p][j] = job
      /\ \A i \in Jobs : i # j => held'[p][i] = held[p][i]
      /\ fresh' = fresh \cup {<<p, j>>}
  BY TakeFrame
<1>2. FreshCourse'
  <2> SUFFICES ASSUME NEW q \in Proc, NEW i \in Jobs, <<q, i>> \in fresh'
               PROVE  /\ ~(pc'[q] = "after" /\ cur'[q] = i)
                      /\ IF Saving(q, i)' THEN OnCourse(i, doc'[i], held'[q][i])
                                          ELSE SameStage(doc'[i], held'[q][i])
    BY DEF FreshCourse, OnCourse, SameStage
  <2>1. CASE q # p
    <3>1. /\ pc'[q] = pc[q] /\ cur'[q] = cur[q] /\ held'[q] = held[q] /\ doc' = doc
          /\ <<q, i>> \in fresh
      BY <1>1, <2>1 DEF Moves
    <3>2. Saving(q, i)' <=> Saving(q, i)
      BY <3>1 DEF Saving
    <3> QED
      BY <3>1, <3>2 DEF CourseInv, FreshCourse
  <2>2. CASE q = p /\ i # j
    <3>1. <<q, i>> \in fresh /\ ~Saving(q, i) /\ ~Saving(q, i)' /\ held'[q][i] = held[q][i] /\ doc' = doc
      BY <1>1, <2>2 DEF Saving
    <3> QED
      BY <1>1, <2>2, <3>1 DEF CourseInv, FreshCourse
  <2>3. CASE q = p /\ i = j
    <3>1. Saving(q, i)' <=> next \in {"save", "save_after", "save_opt_out"}
      BY <1>1, <2>3 DEF Saving
    <3> QED
      BY <1>1, <2>3, <3>1
  <2> QED
    BY <2>1, <2>2, <2>3
<1>3. NewFresh'
  BY <1>1 DEF Moves, CourseInv, NewFresh
<1>4. ToSuppress'
  BY <1>1 DEF Moves, CourseInv, ToSuppress
<1> QED
  BY <1>2, <1>3, <1>4 DEF CourseInv

\* An operation reads a listing.
LEMMA ListCourse ==
  ASSUME Typed, CourseInv, NEW p \in Proc, NEW js \in SUBSET Jobs,
         NEW next \in {"idle", "tick", "suppress"}, List(p, js, next), UNCHANGED doc,
         \A q \in Proc : q # p => cur'[q] = cur[q],
         \A j \in js : doc[j].status # "absent",
         next = "suppress" => \A j \in js : doc[j].status \in Waiting
  PROVE  CourseInv'
<1>1. /\ Moves(p)
      /\ pc'[p] = next
      /\ \A j \in Jobs : held'[p][j] = IF j \in js THEN doc[j] ELSE Absent
      /\ fresh' = (fresh \ ({p} \X Jobs)) \cup ({p} \X js)
  BY ListFrame DEF PC
<1>2. Absent.status = "absent"
  BY DEF Absent
<1>3. FreshCourse'
  <2> SUFFICES ASSUME NEW q \in Proc, NEW i \in Jobs, <<q, i>> \in fresh'
               PROVE  /\ ~(pc'[q] = "after" /\ cur'[q] = i)
                      /\ IF Saving(q, i)' THEN OnCourse(i, doc'[i], held'[q][i])
                                          ELSE SameStage(doc'[i], held'[q][i])
    BY DEF FreshCourse, OnCourse, SameStage
  <2>1. CASE q # p
    <3>1. /\ pc'[q] = pc[q] /\ cur'[q] = cur[q] /\ held'[q] = held[q] /\ doc' = doc
          /\ <<q, i>> \in fresh
      BY <1>1, <2>1 DEF Moves
    <3>2. Saving(q, i)' <=> Saving(q, i)
      BY <3>1 DEF Saving
    <3> QED
      BY <3>1, <3>2 DEF CourseInv, FreshCourse
  <2>2. CASE q = p
    <3>1. i \in js /\ held'[q][i] = doc[i] /\ doc' = doc /\ ~Saving(q, i)'
      BY <1>1, <2>2 DEF Saving
    <3> QED
      BY <1>1, <2>2, <3>1 DEF SameStage
  <2> QED
    BY <2>1, <2>2
<1>4. NewFresh'
  BY <1>1, <1>2 DEF Moves, CourseInv, NewFresh
<1>5. ToSuppress'
  BY <1>1, <1>2 DEF Moves, CourseInv, ToSuppress
<1> QED
  BY <1>3, <1>4, <1>5 DEF CourseInv

\* A process goes on with job j: from a place where its copies are as read, to one
\* where it saves its copy, or leaves it alone.
LEMMA MoveCourse ==
  ASSUME Typed, CourseInv, NEW p \in Proc, NEW j \in Jobs, Moves(p), UNCHANGED <<doc, fresh>>,
         pc[p] \in {"gate", "count", "dial", "tick"}, held[p][j].status # "absent",
         cur'[p] = j, pc'[p] \in {"count", "dial", "save", "save_after"},
         \A i \in Jobs : i # j => held'[p][i] = held[p][i],
         IF pc'[p] \in {"save", "save_after"}
         THEN SameStage(doc[j], held[p][j]) => OnCourse(j, doc[j], held'[p][j])
         ELSE held'[p][j] = held[p][j]
  PROVE  CourseInv'
<1>1. FreshCourse'
  <2> SUFFICES ASSUME NEW q \in Proc, NEW i \in Jobs, <<q, i>> \in fresh
               PROVE  /\ ~(pc'[q] = "after" /\ cur'[q] = i)
                      /\ IF Saving(q, i)' THEN OnCourse(i, doc'[i], held'[q][i])
                                          ELSE SameStage(doc'[i], held'[q][i])
    BY DEF FreshCourse, OnCourse, SameStage
  <2>1. CASE q # p
    <3>1. pc'[q] = pc[q] /\ cur'[q] = cur[q] /\ held'[q] = held[q] /\ doc' = doc
      BY <2>1 DEF Moves
    <3>2. Saving(q, i)' <=> Saving(q, i)
      BY <3>1 DEF Saving
    <3> QED
      BY <3>1, <3>2 DEF CourseInv, FreshCourse
  <2>2. CASE q = p /\ i # j
    <3>1. ~Saving(q, i) /\ ~Saving(q, i)' /\ held'[q][i] = held[q][i] /\ doc' = doc
      BY <2>2 DEF Saving
    <3> QED
      BY <2>2, <3>1 DEF CourseInv, FreshCourse
  <2>3. CASE q = p /\ i = j
    <3>1. ~Saving(q, i) /\ (Saving(q, i)' <=> pc'[p] \in {"save", "save_after"})
      BY <2>3 DEF Saving
    <3>2. SameStage(doc[j], held[p][j])
      BY <2>3, <3>1 DEF CourseInv, FreshCourse
    <3> QED
      BY <2>3, <3>1, <3>2
  <2> QED
    BY <2>1, <2>2, <2>3
<1>2. NewFresh'
  BY DEF Moves, CourseInv, NewFresh
<1>3. ToSuppress'
  BY DEF Moves, CourseInv, ToSuppress
<1> QED
  BY <1>1, <1>2, <1>3 DEF CourseInv

\* A save: afterwards nobody has a copy of j that is up to date.
LEMMA WriteCourse ==
  ASSUME Typed, CourseInv, NEW p \in Proc, NEW j \in Jobs, NEW job \in Job, Write(p, j, job),
         job.status # "absent", Moves(p),
         pc[p] \in {"save", "save_after", "save_opt_out"} => cur[p] = j,
         pc'[p] \in {"idle", "tick", "after", "opt_out", "suppress"},
         pc'[p] = "after" => cur'[p] = j,
         pc'[p] = "suppress" => pc[p] = "suppress" /\ held'[p][j] = Absent,
         \A i \in Jobs : i # j => held'[p][i] = held[p][i]
  PROVE  CourseInv'
<1>1. doc'[j] = job /\ \A i \in Jobs : i # j => doc'[i] = doc[i]
  BY WriteFrame
<1>2. \A q \in Proc, i \in Jobs : <<q, i>> \in fresh' <=> <<q, i>> \in fresh /\ i # j
  BY DEF Write
<1>3. FreshCourse'
  <2> SUFFICES ASSUME NEW q \in Proc, NEW i \in Jobs, <<q, i>> \in fresh'
               PROVE  /\ ~(pc'[q] = "after" /\ cur'[q] = i)
                      /\ IF Saving(q, i)' THEN OnCourse(i, doc'[i], held'[q][i])
                                          ELSE SameStage(doc'[i], held'[q][i])
    BY DEF FreshCourse, OnCourse, SameStage
  <2>0. i # j /\ <<q, i>> \in fresh /\ doc'[i] = doc[i]
    BY <1>1, <1>2
  <2>1. CASE q # p
    <3>1. pc'[q] = pc[q] /\ cur'[q] = cur[q] /\ held'[q] = held[q]
      BY <2>1 DEF Moves
    <3>2. Saving(q, i)' <=> Saving(q, i)
      BY <3>1 DEF Saving
    <3> QED
      BY <2>0, <3>1, <3>2 DEF CourseInv, FreshCourse
  <2>2. CASE q = p
    <3>1. ~Saving(q, i) /\ ~Saving(q, i)' /\ held'[q][i] = held[q][i]
      BY <2>0, <2>2 DEF Saving
    <3> QED
      BY <2>0, <2>2, <3>1 DEF CourseInv, FreshCourse
  <2> QED
    BY <2>1, <2>2
<1>4. NewFresh'
  BY <1>1, <1>2 DEF Moves, CourseInv, NewFresh
<1>5. ToSuppress'
  BY DEF Moves, CourseInv, ToSuppress
<1> QED
  BY <1>3, <1>4, <1>5 DEF CourseInv

\* Steps that change no stage and no copy, and take p, if anybody, to a place where it
\* saves nothing.
LEMMA StillCourse ==
  ASSUME Typed, CourseInv, UNCHANGED <<held, fresh>>, \A j \in Jobs : SameStage(doc'[j], doc[j]),
         \A q \in Proc : \/ pc'[q] = pc[q] /\ cur'[q] = cur[q]
                         \/ /\ pc[q] \notin {"save", "save_after", "save_opt_out"}
                            /\ pc'[q] = "list"
  PROVE  CourseInv'
<1>1. FreshCourse'
  <2> SUFFICES ASSUME NEW q \in Proc, NEW i \in Jobs, <<q, i>> \in fresh
               PROVE  /\ ~(pc'[q] = "after" /\ cur'[q] = i)
                      /\ IF Saving(q, i)' THEN OnCourse(i, doc'[i], held[q][i])
                                          ELSE SameStage(doc'[i], held[q][i])
    BY DEF FreshCourse, OnCourse, SameStage
  <2>1. Saving(q, i)' <=> Saving(q, i)
    BY DEF Saving
  <2>2. SameStage(doc'[i], doc[i])
    OBVIOUS
  <2> QED
    BY <2>1, <2>2 DEF CourseInv, FreshCourse, OnCourse, SameStage
<1>2. NewFresh'
  BY DEF CourseInv, NewFresh, SameStage
<1>3. ToSuppress'
  BY DEF CourseInv, ToSuppress
<1> QED
  BY <1>1, <1>2, <1>3 DEF CourseInv

\* What an attempt that ended so makes of a job is a step of its course.
LEMMA AfterCourse ==
  ASSUME NEW j \in Jobs, NEW call \in Job, NEW o \in Outcome, NEW job \in AfterAttempt(j, call, o)
  PROVE  /\ job \in Job
         /\ Len(job.attempts) = Len(call.attempts)
         /\ job.status = "completed" \/ GivenUp(j, Len(job.attempts), job.status)
         /\ o = "no_contact" => GivenUp(j, Len(job.attempts), job.status)
<1>1. PICK s \in AfterStatus(j, Len(call.attempts), o) :
        job = [call EXCEPT !.status = s, !.due = FALSE, !.aged = FALSE]
  BY DEF AfterAttempt
<1>2. s \in {"completed", "exhausted", "retry"} /\ job.status = s /\ job.attempts = call.attempts
  BY <1>1 DEF AfterStatus, Job
<1>3. o = "no_contact" => s # "completed"
  BY <1>1 DEF AfterStatus
<1>4. /\ s = "retry" => Len(call.attempts) < MaxAttempts
      /\ s = "exhausted" => Len(call.attempts) >= MaxAttempts \/ j \in Deadlined
  BY <1>1 DEF AfterStatus
<1> QED
  BY <1>2, <1>3, <1>4, AfterAttemptType DEF GivenUp

LEMMA ScheduleCourse ==
  ASSUME Typed, CourseInv, NEW r \in Requests, NEW j \in Jobs, Schedule(r, j)
  PROVE  CourseInv'
<1>1. PICK s \in {"scheduled", "cancelled", "suppressed"}, due \in BOOLEAN :
        Take(r, j, [Absent EXCEPT !.status = s, !.due = due], "save")
  BY DEF Schedule
<1> DEFINE job == [Absent EXCEPT !.status = s, !.due = due]
<1>2. job \in Job /\ job.status = s /\ job.attempts = <<>>
  BY AbsentType DEF Absent, Job, Status, Waiting, Final
<1>3. Len(<<>>) = 0
  OBVIOUS
<1>4. doc[j].status = "absent" /\ pc[r] = "idle" /\ UNCHANGED doc /\ r \in Proc
  BY DEF Schedule, Absent, store, Proc
<1> HIDE DEF job
<1>5. OnCourse(j, doc[j], job)
  BY <1>2, <1>3, <1>4 DEF OnCourse
<1>6. Take(r, j, job, "save")
  BY <1>1 DEF job
<1> QED
  BY <1>2, <1>4, <1>5, <1>6, TakeCourse DEF PC

LEMMA RequestCourse ==
  ASSUME Typed, CourseInv, NEW r \in Requests, NEW j \in Jobs, Cancel(r, j) \/ DialNow(r, j)
  PROVE  CourseInv'
<1>0. r \in Proc /\ doc[j] \in Job /\ pc[r] = "idle" /\ doc[j].status \in Waiting /\ UNCHANGED doc
  BY DEF Cancel, DialNow, Proc, Typed, TypeOK, store
<1>1. CASE Cancel(r, j)
  <2> DEFINE job == [doc[j] EXCEPT !.status = "cancelled", !.due = FALSE]
  <2>1. job \in Job /\ job.status = "cancelled" /\ job.attempts = doc[j].attempts
    BY <1>0, EditType DEF Job, Status, Final
  <2>2. Take(r, j, job, "save")
    BY <1>1 DEF Cancel
  <2> HIDE DEF job
  <2>3. OnCourse(j, doc[j], job)
    BY <1>0, <2>1 DEF OnCourse
  <2> QED
    BY <1>0, <2>1, <2>2, <2>3, TakeCourse DEF PC
<1>2. CASE DialNow(r, j)
  <2>1. Take(r, j, doc[j], "gate")
    BY <1>2 DEF DialNow
  <2> QED
    BY <1>0, <2>1, TakeCourse DEF PC, SameStage
<1> QED
  BY <1>1, <1>2

LEMMA ListingCourse ==
  ASSUME Typed, CourseInv, NEW p \in Proc,
         ListWaiting(p) \/ (p = Loop /\ (ListStale \/ ListDue))
  PROVE  CourseInv'
<1>1. CASE ListWaiting(p)
  <2> DEFINE js == {j \in Jobs : PhoneOf[j] = PhoneOf[cur[p]] /\ doc[j].status \in Waiting}
             next == IF js = {} THEN "idle" ELSE "suppress"
  <2>1. List(p, js, next) /\ UNCHANGED doc /\ \A q \in Proc : q # p => cur'[q] = cur[q]
    BY <1>1 DEF ListWaiting, Typed, TypeOK, store
  <2>2. js \in SUBSET Jobs /\ next \in {"idle", "tick", "suppress"}
    OBVIOUS
  <2>3. \A j \in js : doc[j].status \in Waiting /\ doc[j].status # "absent"
    BY DEF Waiting
  <2> HIDE DEF js, next
  <2> QED
    BY <2>1, <2>2, <2>3, ListCourse
<1>2. CASE p = Loop /\ (ListStale \/ ListDue)
  <2>1. PICK js \in SUBSET Jobs : /\ List(p, js, "tick")
                                  /\ \A j \in js : doc[j].status \in Waiting \cup Live
    BY <1>2 DEF ListStale, ListDue, Stale
  <2>2. UNCHANGED <<doc, cur>>
    BY <1>2 DEF ListStale, ListDue, store
  <2>3. \A j \in js : doc[j].status # "absent"
    BY <2>1 DEF Waiting, Live
  <2> QED
    BY <2>1, <2>2, <2>3, ListCourse
<1> QED
  BY <1>1, <1>2

LEMMA GateCourse ==
  ASSUME Typed, AttemptsInv, CourseInv, NEW p \in Dispatchers, NEW j \in Jobs, Gate(p, j)
  PROVE  CourseInv'
<1>0. p \in Proc /\ UNCHANGED <<doc, fresh>>
  BY DEF Proc, Dispatchers, Gate, store, ghost
<1>1. pc[p] \in {"gate", "tick"} /\ held[p][j].status \in Waiting /\ held[p][j] \in Job
  BY <1>0 DEF Gate, AttemptsInv, DispatchOK, AboutToDial, Typed, TypeOK
<1>2. cur'[p] = j /\ Moves(p) /\ \A i \in Jobs : i # j => held'[p][i] = held[p][i]
  BY <1>0 DEF Gate, Typed, TypeOK, Moves
<1>3. held[p][j].status # "absent"
  BY <1>1 DEF Waiting
<1>4. CASE pc'[p] \in {"count", "dial"} /\ held' = held
  BY <1>0, <1>1, <1>2, <1>3, <1>4, MoveCourse
<1>5. ASSUME NEW job \in Job, held' = [held EXCEPT ![p] = [@ EXCEPT ![j] = job]],
             pc' = [pc EXCEPT ![p] = "save"], Len(job.attempts) = Len(held[p][j].attempts),
             job.status \in {held[p][j].status, "cancelled", "suppressed"}
      PROVE  CourseInv'
  <2>1. pc'[p] = "save" /\ held'[p][j] = job
    BY <1>0, <1>5 DEF Typed, TypeOK
  <2>2. SameStage(doc[j], held[p][j]) => OnCourse(j, doc[j], job)
    BY <1>1, <1>5 DEF SameStage, OnCourse
  <2> QED
    BY <1>0, <1>1, <1>2, <1>3, <2>1, <2>2, MoveCourse
<1>6. /\ [held[p][j] EXCEPT !.status = "cancelled", !.due = FALSE] \in Job
      /\ [held[p][j] EXCEPT !.status = "suppressed", !.due = FALSE] \in Job
      /\ [held[p][j] EXCEPT !.due = FALSE] \in Job
      /\ [held[p][j] EXCEPT !.status = "cancelled", !.due = FALSE].attempts = held[p][j].attempts
      /\ [held[p][j] EXCEPT !.status = "suppressed", !.due = FALSE].attempts = held[p][j].attempts
      /\ [held[p][j] EXCEPT !.due = FALSE].attempts = held[p][j].attempts
      /\ [held[p][j] EXCEPT !.status = "cancelled", !.due = FALSE].status = "cancelled"
      /\ [held[p][j] EXCEPT !.status = "suppressed", !.due = FALSE].status = "suppressed"
      /\ [held[p][j] EXCEPT !.due = FALSE].status = held[p][j].status
  BY <1>1, EditType, EditDueType DEF Job, Status, Final
<1>7. \/ /\ pc'[p] \in {"count", "dial"} /\ held' = held
      \/ /\ pc' = [pc EXCEPT ![p] = "save"]
         /\ \E job \in {[held[p][j] EXCEPT !.status = "cancelled", !.due = FALSE],
                        [held[p][j] EXCEPT !.status = "suppressed", !.due = FALSE],
                        [held[p][j] EXCEPT !.due = FALSE]} :
              held' = [held EXCEPT ![p] = [@ EXCEPT ![j] = job]]
  BY <1>0 DEF Gate, Typed, TypeOK
<1> QED
  BY <1>4, <1>5, <1>6, <1>7

\* What dispatch makes of its copy before it saves it.
LEMMA DispatchCourse ==
  ASSUME Typed, AttemptsInv, CourseInv, NEW p \in Dispatchers,
         Count(p) \/ DialCallee(p) \/ DialFails(p) \/ AssistantMissing(p)
  PROVE  CourseInv'
<1>0. p \in Proc /\ UNCHANGED <<doc, cur, fresh>>
  BY DEF Proc, Dispatchers, Count, DialCallee, DialFails, AssistantMissing, store, ghost
<1>1. pc[p] \in {"count", "dial"}
  BY DEF Count, DialCallee, DialFails, AssistantMissing
<1>2. PICK j \in Jobs : j = cur[p]
  BY <1>0, <1>1 DEF Typed, CurOK, Working
<1>3. /\ Mine(p) = held[p][j] /\ Mine(p) \in Job
      /\ Mine(p).status \in Waiting /\ Len(Mine(p).attempts) < MaxAttempts
  BY <1>0, <1>1, <1>2 DEF Mine, Typed, TypeOK, AttemptsInv, DispatchOK, AboutToDial, CopiesOK, JobOK
<1>4. Mine(p).status # "absent"
  BY <1>3 DEF Waiting
<1>5. ASSUME NEW job \in Job, NEW next \in {"save", "save_after"}, Change(p, job, next),
             OnCourse(j, Mine(p), job)
      PROVE  CourseInv'
  <2>1. /\ Moves(p) /\ pc'[p] = next /\ held'[p][j] = job
        /\ \A i \in Jobs : i # j => held'[p][i] = held[p][i]
    BY <1>0, <1>2, <1>5, ChangeFrame DEF PC
  <2>2. SameStage(doc[j], held[p][j]) => OnCourse(j, doc[j], job)
    BY <1>3, <1>5 DEF SameStage, OnCourse
  <2> QED
    BY <1>0, <1>1, <1>2, <1>3, <1>4, <2>1, <2>2, MoveCourse
<1>6. CASE pc' = [pc EXCEPT ![p] = "dial"] /\ UNCHANGED held
  <2>1. Moves(p) /\ pc'[p] = "dial"
    BY <1>0, <1>6 DEF Typed, TypeOK, Moves
  <2> QED
    BY <1>0, <1>1, <1>2, <1>3, <1>4, <1>6, <2>1, MoveCourse
<1>7. CASE Count(p)
  <2> DEFINE job == [Mine(p) EXCEPT !.due = FALSE]
  <2>1. job \in Job /\ job.status = Mine(p).status /\ job.attempts = Mine(p).attempts
    BY <1>3, EditDueType DEF Job
  <2>2. \/ Change(p, job, "save")
        \/ pc' = [pc EXCEPT ![p] = "dial"] /\ UNCHANGED held
    BY <1>7 DEF Count
  <2> HIDE DEF job
  <2>3. OnCourse(j, Mine(p), job)
    BY <2>1 DEF OnCourse, SameStage
  <2> QED
    BY <1>5, <1>6, <2>1, <2>2, <2>3
<1>8. CASE DialCallee(p)
  <2> DEFINE tried == WithAttempt(Mine(p), "unknown", TRUE)
             job == [tried EXCEPT !.status = "dialing"]
  <2>1. tried \in Job /\ Len(tried.attempts) = Len(Mine(p).attempts) + 1
    BY <1>3, WithAttemptType DEF Outcome
  <2>2. Change(p, job, "save")
    BY <1>8 DEF DialCallee
  <2> HIDE DEF tried
  <2>3. job \in Job /\ job.status = "dialing" /\ job.attempts = tried.attempts
    BY <2>1 DEF Job, Status, Live
  <2> HIDE DEF job
  <2>4. OnCourse(j, Mine(p), job)
    BY <1>3, <2>1, <2>3 DEF OnCourse
  <2> QED
    BY <1>5, <2>2, <2>3, <2>4
<1>9. CASE DialFails(p)
  <2> DEFINE tried == WithAttempt(Mine(p), "no_contact", FALSE)
  <2>1. tried \in Job /\ Len(tried.attempts) = Len(Mine(p).attempts) + 1
    BY <1>3, WithAttemptType DEF Outcome
  <2>2. PICK job \in AfterAttempt(j, tried, "no_contact") : Change(p, job, "save_after")
    BY <1>2, <1>9 DEF DialFails
  <2> HIDE DEF tried
  <2>3. job \in Job /\ Len(job.attempts) = Len(tried.attempts) /\ GivenUp(j, Len(job.attempts), job.status)
    BY <2>1, <2>2, AfterCourse DEF Outcome
  <2>4. OnCourse(j, Mine(p), job)
    BY <1>3, <2>1, <2>3 DEF OnCourse
  <2> QED
    BY <1>5, <2>2, <2>3, <2>4
<1>10. CASE AssistantMissing(p)
  <2> DEFINE job == [Mine(p) EXCEPT !.status = "failed", !.due = FALSE]
  <2>1. job \in Job /\ job.status = "failed" /\ job.attempts = Mine(p).attempts
    BY <1>3, EditType DEF Job, Status, Final
  <2>2. Change(p, job, "save")
    BY <1>10 DEF AssistantMissing
  <2> HIDE DEF job
  <2>3. OnCourse(j, Mine(p), job)
    BY <1>3, <2>1 DEF OnCourse
  <2> QED
    BY <1>5, <2>1, <2>2, <2>3
<1> QED
  BY <1>7, <1>8, <1>9, <1>10

\* The steps that save a job, and what they save: nobody's up-to-date copy, or a step
\* of its course.
LEMMA Saves ==
  ASSUME Typed, FinalInv, CourseInv, NEW p \in Proc, NEW j \in Jobs,
         \/ SuppressJob(p, j)
         \/ p = Loop /\ ExpireStale(j)
         \/ cur[p] = j /\ (Save(p) \/ SaveThen(p))
  PROVE  \E job \in Job :
           /\ Write(p, j, job) /\ Moves(p)
           /\ job.status # "absent" /\ held[p][j].status # "absent" /\ StillSaves(p, j)
           /\ <<p, j>> \in fresh => OnCourse(j, doc[j], job)
           /\ pc[p] \in {"save", "save_after", "save_opt_out"} => cur[p] = j
           /\ pc'[p] \in {"idle", "tick", "after", "opt_out", "suppress"}
           /\ pc'[p] = "after" => cur'[p] = j
           /\ pc'[p] = "suppress" => pc[p] = "suppress" /\ held'[p][j] = Absent
           /\ \A i \in Jobs : i # j => held'[p][i] = held[p][i]
<1>0. Absent.status = "absent" /\ held[p][j] \in Job
  BY DEF Absent, Typed, TypeOK
<1>1. CASE SuppressJob(p, j)
  <2> DEFINE job == [held[p][j] EXCEPT !.status = "suppressed", !.due = FALSE]
  <2>1. /\ Moves(p) /\ Write(p, j, job) /\ job \in Job
        /\ pc[p] = "suppress" /\ pc'[p] \in {"idle", "suppress"}
        /\ held[p][j] # Absent /\ held'[p][j] = Absent
        /\ \A i \in Jobs : i # j => held'[p][i] = held[p][i]
    BY <1>1, SuppressFrame
  <2>2. job.status = "suppressed" /\ job.attempts = held[p][j].attempts
    BY <1>0 DEF Job
  <2> HIDE DEF job
  <2>3. held[p][j].status # "absent" /\ (<<p, j>> \in fresh => SameStage(doc[j], held[p][j]))
    <3>1. <<p, j>> \in fresh => SameStage(doc[j], held[p][j])
      BY <2>1 DEF CourseInv, FreshCourse, Saving
    <3>2. held[p][j].status # "absent"
      BY <2>1 DEF CourseInv, ToSuppress, Waiting
    <3> QED
      BY <3>1, <3>2
  <2>4. held[p][j].status \in Waiting
    BY <2>1, <2>3 DEF CourseInv, ToSuppress
  <2>5. <<p, j>> \in fresh => OnCourse(j, doc[j], job)
    BY <2>2, <2>3, <2>4 DEF SameStage, OnCourse
  <2>6. StillSaves(p, j)
    BY <2>1 DEF StillSaves
  <2> QED
    BY <1>0, <2>1, <2>2, <2>3, <2>5, <2>6
<1>2. CASE p = Loop /\ ExpireStale(j)
  <2> DEFINE lost == WithLast(held[p][j], "no_contact")
  <2>1. lost \in Job /\ Len(lost.attempts) = Len(held[p][j].attempts)
    BY <1>0, WithLastType DEF Outcome
  <2>2. PICK job \in AfterAttempt(j, lost, "no_contact") :
          /\ job \in Job
          /\ Moves(p)
          /\ Write(p, j, job)
          /\ pc[p] = "tick" /\ held[p][j].status \in Live
          /\ pc'[p] = "after" /\ cur'[p] = j /\ held'[p][j] = job
          /\ \A i \in Jobs : i # j => held'[p][i] = held[p][i]
    BY <1>2, ExpireFrame
  <2> HIDE DEF lost
  <2>3. Len(job.attempts) = Len(held[p][j].attempts) /\ GivenUp(j, Len(job.attempts), job.status)
    BY <2>1, <2>2, AfterCourse DEF Outcome
  <2>4. job.status # "absent" /\ held[p][j].status # "absent"
    BY <2>2, <2>3 DEF GivenUp, Live
  <2>5. <<p, j>> \in fresh => SameStage(doc[j], held[p][j])
    BY <2>2 DEF CourseInv, FreshCourse, Saving
  <2>6. <<p, j>> \in fresh => OnCourse(j, doc[j], job)
    BY <2>2, <2>3, <2>5 DEF SameStage, OnCourse
  <2>7. StillSaves(p, j)
    BY <1>0, <2>2, <2>4 DEF StillSaves
  <2> QED
    BY <2>2, <2>4, <2>6, <2>7
<1>3. CASE cur[p] = j /\ (Save(p) \/ SaveThen(p))
  <2>1. /\ pc[p] \in {"save", "save_after", "save_opt_out"} /\ Write(p, j, held[p][j])
    BY <1>3 DEF Save, SaveThen, Mine
  <2>2. held[p][j].status # "absent"
    BY <1>3, <2>1 DEF FinalInv, SavedOK, WithJob
  <2>3. <<p, j>> \in fresh => OnCourse(j, doc[j], held[p][j])
    BY <1>3, <2>1 DEF CourseInv, FreshCourse, Saving
  <2>4. StillSaves(p, j)
    BY <1>0, <2>1, <2>2 DEF StillSaves
  <2>5. /\ Moves(p) /\ pc'[p] \in {"idle", "tick", "after", "opt_out"}
        /\ pc'[p] = "after" => cur'[p] = j
        /\ \A i \in Jobs : i # j => held'[p][i] = held[p][i]
    <3>1. CASE Save(p)
      BY <1>3, <3>1, LeaveFrame DEF Save
    <3>2. CASE SaveThen(p)
      BY <1>3, <3>2 DEF SaveThen, Moves, Typed, TypeOK
    <3> QED
      BY <1>3, <3>1, <3>2
  <2> QED
    BY <1>0, <1>3, <2>1, <2>2, <2>3, <2>4, <2>5
<1> QED
  BY <1>1, <1>2, <1>3

LEMMA SaveCourse ==
  ASSUME Typed, FinalInv, CourseInv, NEW p \in Proc, NEW j \in Jobs,
         \/ SuppressJob(p, j)
         \/ p = Loop /\ ExpireStale(j)
         \/ cur[p] = j /\ (Save(p) \/ SaveThen(p))
  PROVE  CourseInv'
<1>1. PICK job \in Job :
           /\ Write(p, j, job) /\ Moves(p)
           /\ job.status # "absent"
           /\ pc[p] \in {"save", "save_after", "save_opt_out"} => cur[p] = j
           /\ pc'[p] \in {"idle", "tick", "after", "opt_out", "suppress"}
           /\ pc'[p] = "after" => cur'[p] = j
           /\ pc'[p] = "suppress" => pc[p] = "suppress" /\ held'[p][j] = Absent
           /\ \A i \in Jobs : i # j => held'[p][i] = held[p][i]
  BY Saves
<1> QED
  BY <1>1, WriteCourse

LEMMA AfterSaveCourse ==
  ASSUME Typed, CourseInv, NEW p \in Proc, AfterSave(p)
  PROVE  CourseInv'
<1>1. PICK j \in Jobs : j = cur[p]
  BY DEF AfterSave, Typed, CurOK, Working
<1>2. /\ pc[p] = "after" /\ UNCHANGED <<doc, fresh>>
      /\ Moves(p) /\ pc'[p] \in {"idle", "tick"} /\ held'[p][j] = Absent
      /\ \A i \in Jobs : i # j => held'[p][i] = held[p][i]
  BY <1>1, LeaveFrame DEF AfterSave, ghost
<1>3. Absent.status = "absent"
  BY DEF Absent
<1>4. FreshCourse'
  <2> SUFFICES ASSUME NEW q \in Proc, NEW i \in Jobs, <<q, i>> \in fresh
               PROVE  /\ ~(pc'[q] = "after" /\ cur'[q] = i)
                      /\ IF Saving(q, i)' THEN OnCourse(i, doc'[i], held'[q][i])
                                          ELSE SameStage(doc'[i], held'[q][i])
    BY <1>2 DEF FreshCourse, OnCourse, SameStage
  <2>1. CASE q # p
    <3>1. pc'[q] = pc[q] /\ cur'[q] = cur[q] /\ held'[q] = held[q] /\ doc' = doc
      BY <1>2, <2>1 DEF Moves
    <3>2. Saving(q, i)' <=> Saving(q, i)
      BY <3>1 DEF Saving
    <3> QED
      BY <3>1, <3>2 DEF CourseInv, FreshCourse
  <2>2. CASE q = p
    <3>1. i # j
      BY <1>1, <1>2, <2>2 DEF CourseInv, FreshCourse
    <3>2. ~Saving(q, i) /\ ~Saving(q, i)' /\ held'[q][i] = held[q][i] /\ doc' = doc
      BY <1>2, <2>2, <3>1 DEF Saving
    <3> QED
      BY <1>2, <2>2, <3>2 DEF CourseInv, FreshCourse
  <2> QED
    BY <2>1, <2>2
<1>5. NewFresh'
  BY <1>2, <1>3 DEF Moves, CourseInv, NewFresh
<1>6. ToSuppress'
  BY <1>2 DEF Moves, CourseInv, ToSuppress
<1> QED
  BY <1>4, <1>5, <1>6 DEF CourseInv

LEMMA HandlerCourse ==
  ASSUME Typed, FinalInv, CourseInv, NEW h \in Handlers, NEW m \in inbox,
         OnCallStarted(h, m) \/ OnCallEnded(h, m) \/ WorkerOutcome(h, m)
  PROVE  CourseInv'
<1> DEFINE j == dials[m.call].job
<1>0. h \in Proc /\ UNCHANGED doc /\ pc[h] = "idle"
  BY DEF Proc, OnCallStarted, OnCallEnded, WorkerOutcome, store
<1>1. j \in Jobs /\ doc[j] \in Job /\ m.outcome \in Outcome
  BY MessageType DEF Message
<1>2. \A o \in Outcome : /\ WithLast(doc[j], o) \in Job
                         /\ WithLast(doc[j], o).status = doc[j].status
                         /\ Len(WithLast(doc[j], o).attempts) = Len(doc[j].attempts)
  BY <1>1, WithLastType
<1>3. CASE UNCHANGED <<pc, cur, held, fresh>>
  BY <1>0, <1>3, StillCourse DEF SameStage
<1>4. ASSUME NEW job \in Job, NEW next \in {"save", "save_after", "save_opt_out"},
             Take(h, j, job, next), OnCourse(j, doc[j], job)
      PROVE  CourseInv'
  BY <1>0, <1>1, <1>4, TakeCourse DEF PC
<1>5. CASE OnCallStarted(h, m) /\ ~UNCHANGED <<pc, cur, held, fresh>>
  <2>1. doc[j].status = "dialing" /\ Take(h, j, [doc[j] EXCEPT !.status = "in_progress"], "save")
    BY <1>5 DEF OnCallStarted
  <2>2. /\ [doc[j] EXCEPT !.status = "in_progress"] \in Job
        /\ [doc[j] EXCEPT !.status = "in_progress"].status = "in_progress"
        /\ [doc[j] EXCEPT !.status = "in_progress"].attempts = doc[j].attempts
    BY <1>1 DEF Job, Status, Live
  <2>3. OnCourse(j, doc[j], [doc[j] EXCEPT !.status = "in_progress"])
    BY <2>1, <2>2 DEF OnCourse
  <2> QED
    BY <1>4, <2>1, <2>2, <2>3
<1>6. CASE OnCallEnded(h, m) /\ ~UNCHANGED <<pc, cur, held, fresh>>
  <2> DEFINE o == IF LastOutcome(doc[j]) # "unknown" THEN LastOutcome(doc[j]) ELSE m.outcome
  <2>1. o \in Outcome
    BY <1>1, LastOutcomeType
  <2>2. doc[j].status \in Live
    BY <1>6 DEF OnCallEnded
  <2>3. PICK result \in {o} \cup (IF o = "no_contact" THEN {"contact"} ELSE {}) :
          \E job \in AfterAttempt(j, WithLast(doc[j], o), result) : Take(h, j, job, "save_after")
    BY <1>6 DEF OnCallEnded
  <2>4. result \in Outcome
    BY <2>1, <2>3 DEF Outcome
  <2> HIDE DEF o, j
  <2>5. PICK job \in AfterAttempt(j, WithLast(doc[j], o), result) : Take(h, j, job, "save_after")
    BY <2>3
  <2>6. /\ job \in Job /\ Len(job.attempts) = Len(WithLast(doc[j], o).attempts)
        /\ (job.status = "completed" \/ GivenUp(j, Len(job.attempts), job.status))
    BY <1>1, <1>2, <2>1, <2>4, AfterCourse
  <2>7. OnCourse(j, doc[j], job)
    BY <1>2, <2>1, <2>2, <2>6 DEF OnCourse
  <2> QED
    BY <1>4, <2>5, <2>6, <2>7
<1>7. CASE WorkerOutcome(h, m)
  <2>1. \E next \in {"save", "save_opt_out"} : Take(h, j, WithLast(doc[j], m.outcome), next)
    BY <1>7 DEF WorkerOutcome
  <2>2. OnCourse(j, doc[j], WithLast(doc[j], m.outcome))
    BY <1>1, <1>2 DEF OnCourse, SameStage
  <2> HIDE DEF j
  <2> QED
    BY <1>1, <1>2, <1>4, <2>1, <2>2
<1> QED
  BY <1>3, <1>5, <1>6, <1>7

\* Time moves a document, and keeps its stage.
LEMMA TimeStage ==
  ASSUME Typed, NEW j \in Jobs, BecomeDue(j) \/ BecomeStale(j)
  PROVE  \A i \in Jobs : SameStage(doc'[i], doc[i])
<1>1. doc \in [Jobs -> Job] /\ doc[j] \in Job
  BY DEF Typed, TypeOK
<1>2. \/ doc' = [doc EXCEPT ![j] = [doc[j] EXCEPT !.due = TRUE]]
      \/ doc' = [doc EXCEPT ![j] = [doc[j] EXCEPT !.aged = TRUE]]
  BY DEF BecomeDue, BecomeStale
<1>3. /\ [doc[j] EXCEPT !.due = TRUE].status = doc[j].status
      /\ [doc[j] EXCEPT !.due = TRUE].attempts = doc[j].attempts
      /\ [doc[j] EXCEPT !.aged = TRUE].status = doc[j].status
      /\ [doc[j] EXCEPT !.aged = TRUE].attempts = doc[j].attempts
  BY <1>1 DEF Job
<1> QED
  BY <1>1, <1>2, <1>3 DEF SameStage

LEMMA StepCourse ==
  ASSUME Typed, AttemptsInv, FinalInv, CourseInv, [Next]_vars
  PROVE  CourseInv'
<1> USE DEF Proc, Dispatchers
<1>1. ASSUME NEW r \in Requests, NEW j \in Jobs, Request(r) PROVE CourseInv'
  <2>1. ASSUME NEW i \in Jobs, Suppress(r, i) PROVE CourseInv'
    <3>1. /\ UNCHANGED <<doc, held, fresh>> /\ pc[r] = "idle" /\ pc'[r] = "list"
          /\ \A q \in Proc : q # r => pc'[q] = pc[q] /\ cur'[q] = cur[q]
      BY <2>1 DEF Suppress, Typed, TypeOK
    <3> QED
      BY <3>1, StillCourse DEF SameStage
  <2> QED
    BY <1>1, <2>1, ScheduleCourse, RequestCourse DEF Request
<1>2. ASSUME NEW p \in Dispatchers, Dispatch(p) PROVE CourseInv'
  BY <1>2, GateCourse, DispatchCourse DEF Dispatch
<1>3. ASSUME NEW p \in Proc, Save(p) \/ SaveThen(p) PROVE CourseInv'
  <2>1. cur[p] \in Jobs
    BY <1>3 DEF Save, SaveThen, Typed, CurOK, Working
  <2> QED
    BY <1>3, <2>1, SaveCourse
<1>4. ASSUME NEW p \in Proc, OptOut(p) PROVE CourseInv'
  <2>1. /\ UNCHANGED <<doc, held, fresh, cur>> /\ pc[p] \in {"after", "opt_out"} /\ pc'[p] = "list"
        /\ \A q \in Proc : q # p => pc'[q] = pc[q]
    BY <1>4 DEF OptOut, Typed, TypeOK
  <2> QED
    BY <2>1, StillCourse DEF SameStage
<1>5. ASSUME NEW p \in Proc, Persist(p) PROVE CourseInv'
  BY <1>3, <1>4, <1>5, AfterSaveCourse, ListingCourse, SaveCourse DEF Persist
<1>6. ASSUME NEW j \in Jobs, ExpireStale(j) PROVE CourseInv'
  BY <1>6, SaveCourse
<1>7. ASSUME ListStale \/ ListDue PROVE CourseInv'
  BY <1>7, ListingCourse
<1>8. ASSUME NEW h \in Handlers, Handle(h) PROVE CourseInv'
  BY <1>8, HandlerCourse DEF Handle
<1>9. ASSUME NEW j \in Jobs, BecomeDue(j) \/ BecomeStale(j) PROVE CourseInv'
  <2>1. UNCHANGED <<pc, cur, held, fresh>>
    BY <1>9 DEF BecomeDue, BecomeStale, local, ghost
  <2>2. \A i \in Jobs : SameStage(doc'[i], doc[i])
    BY <1>9, TimeStage
  <2> QED
    BY <2>1, <2>2, StillCourse
<1>10. ASSUME NEW ps \in SUBSET Proc, Stop(ps) PROVE CourseInv'
  <2>1. UNCHANGED doc
    BY <1>10, StopFrame
  <2>2. FreshCourse'
    <3> SUFFICES ASSUME NEW q \in Proc, NEW i \in Jobs, <<q, i>> \in fresh'
                 PROVE  /\ ~(pc'[q] = "after" /\ cur'[q] = i)
                        /\ IF Saving(q, i)' THEN OnCourse(i, doc'[i], held'[q][i])
                                            ELSE SameStage(doc'[i], held'[q][i])
      BY DEF FreshCourse, OnCourse, SameStage
    <3>1. q \notin ps
      BY <1>10, StopFrame
    <3>2. held'[q] = held[q] /\ <<q, i>> \in fresh /\ pc'[q] = pc[q] /\ cur'[q] = cur[q]
      BY <1>10, <3>1, StopFrame
    <3>3. Saving(q, i)' <=> Saving(q, i)
      BY <3>2 DEF Saving
    <3> QED
      BY <2>1, <3>2, <3>3 DEF CourseInv, FreshCourse
  <2>3. NewFresh'
    <3> SUFFICES ASSUME NEW q \in Proc, NEW i \in Jobs,
                        held'[q][i].status # "absent", doc'[i].status = "absent"
                 PROVE  <<q, i>> \in fresh'
      BY DEF NewFresh
    <3>1. Absent.status = "absent"
      BY DEF Absent
    <3>2. q \in ps => held'[q][i] = Absent
      BY <1>10, StopFrame
    <3>3. q \notin ps
      BY <3>1, <3>2
    <3> QED
      BY <1>10, <2>1, <3>3, StopFrame DEF CourseInv, NewFresh
  <2>4. ToSuppress'
    <3> SUFFICES ASSUME NEW q \in Proc, NEW i \in Jobs, pc'[q] = "suppress"
                 PROVE  held'[q][i] = Absent \/ held'[q][i].status \in Waiting
      BY DEF ToSuppress
    <3> QED
      BY <1>10, StopFrame DEF CourseInv, ToSuppress
  <2> QED
    BY <2>2, <2>3, <2>4 DEF CourseInv
<1>11. ASSUME UNCHANGED <<doc, pc, cur, held, fresh>> PROVE CourseInv'
  BY <1>11, StillCourse DEF SameStage
<1>12. CASE \E ph \in Phones : Unsuppress(ph)
  BY <1>11, <1>12 DEF Unsuppress, local
<1>13. CASE \E k \in DOMAIN dials \cap (1..MaxWorkers) : Worker(k)
  BY <1>11, <1>13 DEF Worker, StartCall, ReportOutcome, EndCall, Progress, store, local, ghost
<1>14. CASE \E j \in Jobs : DeadlinePasses(j)
  BY <1>11, <1>14 DEF DeadlinePasses, store, local, ghost
<1>15. CASE UNCHANGED vars
  BY <1>11, <1>15 DEF vars, store, local, ghost
<1>16. CASE \E r \in Requests : Request(r)
  BY <1>1, <1>16 DEF Request
<1> HIDE DEF Proc, Dispatchers
<1> QED
  BY <1>2, <1>5, <1>6, <1>7, <1>8, <1>9, <1>10, <1>12, <1>13, <1>14, <1>15, <1>16, Stops, Zenon DEF Next

LEMMA CourseAlways == Spec => [](Typed /\ AttemptsInv /\ FinalInv /\ CourseInv)
<1>1. Init => Typed /\ AttemptsInv /\ FinalInv /\ CourseInv
  BY InitTyped, InitAttempts, InitFinal, InitCourse
<1>2. (Typed /\ AttemptsInv /\ FinalInv /\ CourseInv) /\ [Next]_vars
      => (Typed /\ AttemptsInv /\ FinalInv /\ CourseInv)'
  BY StepTyped, StepAttempts, StepFinal, StepCourse
<1> QED
  BY <1>1, <1>2, PTL DEF Spec

\* A save of job j is a step of its course, or the save of an outdated copy.
LEMMA SaveLifecycle ==
  ASSUME Typed, AttemptsInv, AttemptsInv', FinalInv, CourseInv,
         NEW p \in Proc, NEW j \in Jobs, NEW job \in Job, Write(p, j, job),
         job.status # "absent", held[p][j].status # "absent", StillSaves(p, j),
         <<p, j>> \in fresh => OnCourse(j, doc[j], job)
  PROVE  Lifecycle!LifecycleNext
<1> DEFINE s == job.status
           n == Len(job.attempts)
<1>1. doc'[j] = job /\ \A i \in Jobs : i # j => doc'[i] = doc[i]
  BY WriteFrame
<1>2. doc[j] \in Job /\ n \in Nat /\ Len(doc[j].attempts) \in Nat /\ MaxAttempts \in Nat \ {0}
      /\ s \in Status
  BY OutboundAssumption DEF Typed, TypeOK, Job
<1>3. Lifecycle!Becomes(j, s, n)
  BY <1>1 DEF Lifecycle!Becomes
<1>4. JobOK(job)
  BY <1>1 DEF AttemptsInv, StoredOK
<1> DEFINE a == doc[j].status
           k == Len(doc[j].attempts)
<1>5. CASE <<p, j>> \notin fresh
  <2>1. j \in Outdated
    BY <1>5 DEF Outdated
  <2>2. a # "absent"
    BY <1>5 DEF CourseInv, NewFresh
  <2>3. /\ s \in Waiting \cup Live \cup Final /\ n \in 0..MaxAttempts
        /\ s \in Waiting => n < MaxAttempts
        /\ s \in Live => n > 0
    BY <1>2, <1>4 DEF JobOK, Status, Job
  <2>4. Lifecycle!Overwritten(j)
    BY <1>3, <2>1, <2>2, <2>3
    DEF Lifecycle!Overwritten, Lifecycle!InQueue, Lifecycle!OnLine, Lifecycle!Over, Waiting, Live, Final
  <2> QED
    BY <2>4 DEF Lifecycle!LifecycleNext
<1>6. CASE SameStage(doc[j], job)
  <2>1. UNCHANGED <<[i \in Jobs |-> doc[i].status], [i \in Jobs |-> Len(doc[i].attempts)]>>
    BY <1>1, <1>6 DEF SameStage
  <2> QED
    BY <2>1 DEF Lifecycle!LifecycleNext, Lifecycle!Overtaken
<1>7. ASSUME GivenUp(j, n, s) PROVE Lifecycle!Unanswered(j, n)
  BY <1>3, <1>7 DEF GivenUp, Lifecycle!Unanswered
<1>8. CASE <<p, j>> \in fresh /\ ~SameStage(doc[j], job)
  <2>1. OnCourse(j, doc[j], job)
    BY <1>8
  <2> HIDE DEF s, n, a, k
  <2>2. \/ a = "absent" /\ s \in {"scheduled", "cancelled", "suppressed"} /\ n = 0
        \/ a \in Waiting /\ s \in {"cancelled", "suppressed", "failed"} /\ n = k
        \/ a \in Waiting /\ k < MaxAttempts /\ n = k + 1 /\ (s = "dialing" \/ GivenUp(j, n, s))
        \/ a = "dialing" /\ s = "in_progress" /\ n = k
        \/ a \in Live /\ n = k /\ (s = "completed" \/ GivenUp(j, n, s))
    BY <1>8, <2>1 DEF OnCourse, s, n, a, k
  <2>3. [i \in Jobs |-> doc[i].status][j] = a /\ [i \in Jobs |-> Len(doc[i].attempts)][j] = k
    BY DEF a, k
  <2>4. CASE a = "absent" /\ s \in {"scheduled", "cancelled", "suppressed"} /\ n = 0
    BY <1>3, <2>3, <2>4 DEF Lifecycle!LifecycleNext, Lifecycle!Entered
  <2>5. CASE a \in Waiting /\ s \in {"cancelled", "suppressed", "failed"} /\ n = k
    <3>1. Lifecycle!Becomes(j, s, [i \in Jobs |-> Len(doc[i].attempts)][j])
      BY <1>3, <2>3, <2>5 DEF Lifecycle!Becomes
    <3>2. Lifecycle!Withdrawn(j)
      BY <2>3, <2>5, <3>1 DEF Lifecycle!Withdrawn, Lifecycle!Becomes, Lifecycle!InQueue, Waiting
    <3> QED
      BY <3>2 DEF Lifecycle!LifecycleNext
  <2>6. CASE a \in Waiting /\ k < MaxAttempts /\ n = k + 1 /\ (s = "dialing" \/ GivenUp(j, n, s))
    <3>1. n = [i \in Jobs |-> Len(doc[i].attempts)][j] + 1
      BY <2>3, <2>6
    <3>2. s = "dialing" => Lifecycle!Becomes(j, "dialing", [i \in Jobs |-> Len(doc[i].attempts)][j] + 1)
      BY <1>3, <3>1 DEF Lifecycle!Becomes
    <3>3. GivenUp(j, n, s) => Lifecycle!Unanswered(j, [i \in Jobs |-> Len(doc[i].attempts)][j] + 1)
      BY <1>7, <3>1
    <3>4. Lifecycle!Dialled(j)
      BY <2>3, <2>6, <3>2, <3>3 DEF Lifecycle!Dialled, Lifecycle!Unanswered, Lifecycle!Becomes, Lifecycle!InQueue, Waiting
    <3> QED
      BY <3>4 DEF Lifecycle!LifecycleNext
  <2>7. CASE a = "dialing" /\ s = "in_progress" /\ n = k
    <3>1. Lifecycle!Becomes(j, "in_progress", [i \in Jobs |-> Len(doc[i].attempts)][j])
      BY <1>3, <2>3, <2>7 DEF Lifecycle!Becomes
    <3>2. Lifecycle!Answered(j)
      BY <2>3, <2>7, <3>1 DEF Lifecycle!Answered, Lifecycle!Becomes
    <3> QED
      BY <3>2 DEF Lifecycle!LifecycleNext
  <2>8. CASE a \in Live /\ n = k /\ (s = "completed" \/ GivenUp(j, n, s))
    <3>1. n = [i \in Jobs |-> Len(doc[i].attempts)][j]
      BY <2>3, <2>8
    <3>2. s = "completed" => Lifecycle!Becomes(j, "completed", [i \in Jobs |-> Len(doc[i].attempts)][j])
      BY <1>3, <3>1 DEF Lifecycle!Becomes
    <3>3. GivenUp(j, n, s) => Lifecycle!Unanswered(j, [i \in Jobs |-> Len(doc[i].attempts)][j])
      BY <1>7, <3>1
    <3>4. Lifecycle!Ended(j)
      BY <2>3, <2>8, <3>2, <3>3 DEF Lifecycle!Ended, Lifecycle!Unanswered, Lifecycle!Becomes, Lifecycle!OnLine, Live
    <3> QED
      BY <3>4 DEF Lifecycle!LifecycleNext
  <2> QED
    BY <2>2, <2>4, <2>5, <2>6, <2>7, <2>8
<1> QED
  BY <1>5, <1>6, <1>8

LEMMA StepLifecycle ==
  ASSUME Typed, AttemptsInv, FinalInv, CourseInv, [Next]_vars
  PROVE  [Lifecycle!LifecycleNext /\ Outdated' \subseteq Jobs]_(Lifecycle!lifecycle)
<1> USE DEF Proc, Dispatchers
<1>1. AttemptsInv'
  BY StepAttempts
<1>2. Outdated' \subseteq Jobs
  BY DEF Outdated
<1>3. ASSUME NEW p \in Proc, NEW j \in Jobs,
             \/ SuppressJob(p, j)
             \/ p = Loop /\ ExpireStale(j)
             \/ cur[p] = j /\ (Save(p) \/ SaveThen(p))
      PROVE  Lifecycle!LifecycleNext
  <2>1. PICK job \in Job :
           /\ Write(p, j, job) /\ job.status # "absent" /\ held[p][j].status # "absent"
           /\ StillSaves(p, j)
           /\ <<p, j>> \in fresh => OnCourse(j, doc[j], job)
    BY <1>3, Saves
  <2> QED
    BY <1>1, <2>1, SaveLifecycle
<1>4. ASSUME \A i \in Jobs : SameStage(doc'[i], doc[i]) PROVE Lifecycle!LifecycleNext
  BY <1>4 DEF SameStage, Lifecycle!LifecycleNext, Lifecycle!Overtaken
<1>5. ASSUME UNCHANGED doc PROVE Lifecycle!LifecycleNext
  <2>1. \A i \in Jobs : SameStage(doc'[i], doc[i])
    BY <1>5 DEF SameStage
  <2> QED
    BY <1>4, <2>1
<1>6. ASSUME NEW j \in Jobs, BecomeDue(j) \/ BecomeStale(j) PROVE Lifecycle!LifecycleNext
  BY <1>4, <1>6, TimeStage
<1>7. ASSUME NEW p \in Proc, Save(p) \/ SaveThen(p) PROVE Lifecycle!LifecycleNext
  <2>1. cur[p] \in Jobs
    BY <1>7 DEF Save, SaveThen, Typed, CurOK, Working
  <2> QED
    BY <1>3, <1>7, <2>1
<1>8. ASSUME ~UNCHANGED doc PROVE Lifecycle!LifecycleNext
  <2>1. \/ \E p \in Proc, i \in Jobs : SuppressJob(p, i)
        \/ \E i \in Jobs : ExpireStale(i)
        \/ \E p \in Proc : Save(p) \/ SaveThen(p)
        \/ \E i \in Jobs : BecomeDue(i) \/ BecomeStale(i)
    BY <1>8, ZenonT(40)
    DEF Next, Dispatch, Persist, Request, Handle, Worker, vars, store,
        Schedule, Cancel, DialNow, Suppress, Unsuppress, ListWaiting, ListStale, ListDue,
        Gate, Count, DialCallee, DialFails, AssistantMissing, AfterSave, OptOut,
        OnCallStarted, OnCallEnded, WorkerOutcome, StartCall, ReportOutcome, EndCall, Progress,
        DeadlinePasses, Restart, Raise, Stop
  <2> QED
    BY <1>3, <1>6, <1>7, <2>1
<1>9. Lifecycle!LifecycleNext
  BY <1>5, <1>8
<1> QED
  BY <1>2, <1>9

LEMMA InitLifecycle == Init => Lifecycle!LifecycleInit
<1> SUFFICES ASSUME Init PROVE Lifecycle!LifecycleInit
  OBVIOUS
<1>1. \A j \in Jobs : doc[j] = Absent \/ doc[j] = Queued
  BY DEF Init
<1>2. /\ Absent.status = "absent" /\ Queued.status = "scheduled"
      /\ Absent.attempts = <<>> /\ Queued.attempts = <<>>
  BY DEF Absent, Queued
<1>3. Len(<<>>) = 0
  OBVIOUS
<1>4. Outdated = {}
  BY DEF Init, Outdated, StillSaves
<1> QED
  BY <1>1, <1>2, <1>3, <1>4 DEF Lifecycle!LifecycleInit

\* Whatever the loop, the dashboard, the worker's events and its posts do at the same
\* time, every call follows the course of CallLifecycle, and leaves it only by the save
\* of a copy that another save has overtaken (_save, dispatch, _after_attempt).
THEOREM ImplementsLifecycle == Spec => LifecycleImplemented
  BY InitLifecycle, StepLifecycle, CourseAlways, PTL
  DEF Spec, LifecycleImplemented, Lifecycle!LifecycleSpec

===============================================================================
