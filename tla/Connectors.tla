------------------------------ MODULE Connectors ------------------------------
(* Pushing events to a customer's own systems (apps/api/parlio_api/              *)
(* connectors.py, ConnectorService and RetryLoop, and its routes).               *)
(*                                                                               *)
(* One connector and the sync jobs made for it.  Both are documents that are     *)
(* read, used across the push over HTTP, and put back whole; a new job is first  *)
(* saved after its first push.  The other system either takes a push or not, and *)
(* its answer can be lost on the way back.  Time is the flag `due' of a job that *)
(* waits for its next attempt.                                                   *)
EXTENDS Integers, FiniteSets

CONSTANTS
  CxJobs,        \* sync jobs that can be made: a bound
  CxLoop,        \* the task of RetryLoop
  CxReqs,        \* dispatches and dashboard requests under way together
  CxNoJob,
  CxMaxAttempts, \* MAX_ATTEMPTS
  CxLimit,       \* jobs that retry_due lists, the newest of all: 500 in the code
  CxMoves        \* bound: dashboard requests, lost answers and restarts

ASSUME ConnectorsAssumption ==
  /\ CxMaxAttempts \in Nat \ {0}
  /\ CxLimit \in Nat \ {0}
  /\ CxMoves \in Nat
  /\ IsFiniteSet(CxReqs)
  /\ CxLoop \notin CxReqs
  /\ CxNoJob \notin CxJobs

CxProcs == {CxLoop} \cup CxReqs

VARIABLES
  cxConn,          \* the stored connector
  cxJob,           \* the stored jobs
  cxNewer,         \* jobs made since each of them, counted up to the limit
  cxPc, cxCur,
  cxHeldConn,      \* the copy of the connector each process has
  cxHeld,          \* and its copies of jobs
  cxMoves

\* History, for the properties only.
VARIABLES
  cxFreshConn,  \* processes whose copy of the connector nobody has overtaken
  cxFresh,      \* <<p, j>>: nobody has written j since p read it
  cxTorn,       \* the connector has lost an update
  cxWanted,     \* what the team last made of the connector
  cxPushed      \* times each job was taken, less those there is an excuse for

cxLocal == <<cxPc, cxCur, cxHeldConn, cxHeld>>
cxGhost == <<cxFreshConn, cxFresh, cxTorn, cxWanted, cxPushed>>
connectorsVars == <<cxConn, cxJob, cxNewer, cxLocal, cxMoves, cxGhost>>

Connector == {"enabled", "disabled", "absent"}
JobStatus == {"absent", "queued", "sent", "retry", "failed", "skipped"}
SyncJob   == [status: JobStatus, attempts: Nat, due: BOOLEAN]
CxAbsent  == [status |-> "absent", attempts |-> 0, due |-> FALSE]
CxQueued  == [status |-> "queued", attempts |-> 0, due |-> FALSE]

CxPC == {"idle", "sweep", "push", "mark", "save", "test", "patch", "delete"}

ConnectorsInit ==
  /\ cxConn = "enabled"
  /\ cxJob = [j \in CxJobs |-> CxAbsent]
  /\ cxNewer = [j \in CxJobs |-> 0]
  /\ cxPc = [p \in CxProcs |-> "idle"]
  /\ cxCur = [p \in CxProcs |-> CxNoJob]
  /\ cxHeldConn = [p \in CxProcs |-> "absent"]
  /\ cxHeld = [p \in CxProcs |-> [j \in CxJobs |-> CxAbsent]]
  /\ cxMoves = 0
  /\ cxFreshConn = {}
  /\ cxFresh = {}
  /\ cxTorn = FALSE
  /\ cxWanted = "enabled"
  /\ cxPushed = [j \in CxJobs |-> 0]

-------------------------------------------------------------------------------
(* Helpers.                                                                     *)

CxMine(p) == cxHeld[p][cxCur[p]]

CxMove == cxMoves < CxMoves /\ cxMoves' = cxMoves + 1

\* p's copy of the connector replaces the stored one, deleted or not.
CxPutConn(p, conn) ==
  /\ cxConn' = conn
  /\ cxTorn' = (cxTorn \/ (p \notin cxFreshConn /\ conn # cxConn))
  /\ cxFreshConn' = {p}

CxGetConn(p) ==
  /\ cxHeldConn' = [cxHeldConn EXCEPT ![p] = cxConn]
  /\ cxFreshConn' = cxFreshConn \cup {p}

\* Another job is made: those there are have one more before them in a listing.
CxMade ==
  cxNewer' = [j \in CxJobs |->
    IF cxJob[j] = CxAbsent /\ (\A p \in CxProcs : cxCur[p] # j) THEN 0
    ELSE IF cxNewer[j] < CxLimit THEN cxNewer[j] + 1 ELSE CxLimit]

\* Where a process goes when it is through with a job.
CxThrough(p) == IF p = CxLoop THEN "sweep" ELSE "idle"

\* run_job: the copy after a push that failed.
CxAfterFailure(job) ==
  IF job.attempts >= CxMaxAttempts
  THEN [job EXCEPT !.status = "failed", !.due = FALSE]
  ELSE [job EXCEPT !.status = "retry", !.due = FALSE]

-------------------------------------------------------------------------------
(* dispatch, forced retry and the retry loop come to a job.                     *)

\* dispatch: an event the connector wants makes a new job.
CxDispatch(p) ==
  /\ p \in CxReqs
  /\ cxPc[p] = "idle"
  /\ cxConn = "enabled"
  /\ \E j \in CxJobs :
       /\ cxJob[j] = CxAbsent
       /\ \A q \in CxProcs : cxCur[q] # j
       /\ cxPushed[j] = 0
       /\ cxCur' = [cxCur EXCEPT ![p] = j]
       /\ cxHeld' = [cxHeld EXCEPT ![p][j] = CxQueued]
       /\ cxFresh' = cxFresh \cup {<<p, j>>}
  /\ cxPc' = [cxPc EXCEPT ![p] = "push"]
  /\ CxGetConn(p)
  /\ CxMade
  /\ UNCHANGED <<cxConn, cxJob, cxMoves, cxTorn, cxWanted, cxPushed>>

\* One is made for another connector, of this tenant or of any other.
CxOther ==
  /\ CxMade
  /\ UNCHANGED <<cxConn, cxJob, cxLocal, cxMoves, cxGhost>>

\* retry with force, from the dashboard: any job, with its attempts at 0.
CxRetry(p, j) ==
  /\ p \in CxReqs
  /\ cxPc[p] = "idle"
  /\ cxJob[j] # CxAbsent
  /\ CxMove
  /\ cxCur' = [cxCur EXCEPT ![p] = j]
  /\ cxHeld' = [cxHeld EXCEPT ![p][j] =
                  IF cxConn = "absent" THEN [cxJob[j] EXCEPT !.status = "skipped"]
                                       ELSE [cxJob[j] EXCEPT !.attempts = 0]]
  /\ cxPc' = [cxPc EXCEPT ![p] = IF cxConn = "absent" THEN "save" ELSE "push"]
  /\ CxGetConn(p)
  /\ cxFresh' = cxFresh \cup {<<p, j>>}
  /\ cxPushed' = IF cxConn = "absent" THEN cxPushed ELSE [cxPushed EXCEPT ![j] = @ - 1]
  /\ UNCHANGED <<cxConn, cxJob, cxNewer, cxTorn, cxWanted>>

\* retry_due takes those that wait from the newest jobs.
CxDue(j) == cxJob[j].status = "retry" /\ cxJob[j].due /\ cxNewer[j] < CxLimit

CxList ==
  /\ cxPc[CxLoop] = "idle"
  /\ \E j \in CxJobs : CxDue(j)
  /\ cxPc' = [cxPc EXCEPT ![CxLoop] = "sweep"]
  /\ cxHeld' = [cxHeld EXCEPT ![CxLoop] =
                  [j \in CxJobs |-> IF CxDue(j) THEN cxJob[j] ELSE CxAbsent]]
  /\ cxFresh' = cxFresh \cup ({CxLoop} \X CxJobs)
  /\ UNCHANGED <<cxConn, cxJob, cxNewer, cxCur, cxHeldConn, cxMoves, cxFreshConn, cxTorn, cxWanted,
                 cxPushed>>

\* Mutant: only a connector that was deleted stops the push.
CxSweepDisabled ==
  /\ cxPc[CxLoop] = "sweep"
  /\ \E j \in CxJobs :
       /\ cxHeld[CxLoop][j] # CxAbsent
       /\ cxConn # "absent"
       /\ cxCur' = [cxCur EXCEPT ![CxLoop] = j]
       /\ cxPc' = [cxPc EXCEPT ![CxLoop] = "push"]
  /\ CxGetConn(CxLoop)
  /\ UNCHANGED <<cxConn, cxJob, cxNewer, cxHeld, cxMoves, cxFresh, cxTorn, cxWanted, cxPushed>>

\* The next job of the listing; its connector is read now.
CxSweep ==
  /\ cxPc[CxLoop] = "sweep"
  /\ \E j \in CxJobs :
       /\ cxHeld[CxLoop][j] # CxAbsent
       /\ cxCur' = [cxCur EXCEPT ![CxLoop] = j]
       /\ IF cxConn = "enabled"
          THEN /\ cxPc' = [cxPc EXCEPT ![CxLoop] = "push"]
               /\ UNCHANGED cxHeld
          ELSE /\ cxPc' = [cxPc EXCEPT ![CxLoop] = "save"]
               /\ cxHeld' = [cxHeld EXCEPT ![CxLoop][j].status = "skipped"]
  /\ CxGetConn(CxLoop)
  /\ UNCHANGED <<cxConn, cxJob, cxNewer, cxMoves, cxFresh, cxTorn, cxWanted, cxPushed>>

CxSweepEnds ==
  /\ cxPc[CxLoop] = "sweep"
  /\ \A j \in CxJobs : cxHeld[CxLoop][j] = CxAbsent
  /\ cxPc' = [cxPc EXCEPT ![CxLoop] = "idle"]
  /\ UNCHANGED <<cxConn, cxJob, cxNewer, cxCur, cxHeldConn, cxHeld, cxMoves, cxGhost>>

\* The time of a job's next attempt comes.
CxTick(j) ==
  /\ cxJob[j].status = "retry" /\ ~cxJob[j].due
  /\ cxJob' = [cxJob EXCEPT ![j].due = TRUE]
  /\ UNCHANGED <<cxConn, cxNewer, cxLocal, cxMoves, cxGhost>>

-------------------------------------------------------------------------------
(* run_job.                                                                     *)

\* Mutant: the attempt is not counted.
CxPushUncounted(p) ==
  LET j == cxCur[p] IN
  /\ cxPc[p] = "push"
  /\ cxPc' = [cxPc EXCEPT ![p] = "mark"]
  /\ \E job \in {[CxMine(p) EXCEPT !.status = "sent", !.due = FALSE], CxAfterFailure(CxMine(p))} :
       cxHeld' = [cxHeld EXCEPT ![p][j] = job]
  /\ UNCHANGED <<cxConn, cxJob, cxNewer, cxCur, cxHeldConn, cxMoves, cxFreshConn, cxFresh, cxTorn,
                 cxWanted, cxPushed>>

\* The push: taken and answered, taken with the answer lost, or refused.
CxPush(p) ==
  LET job == [CxMine(p) EXCEPT !.attempts = @ + 1]
      j   == cxCur[p]
      \* a push of a copy that another process has overtaken is excused
      one == IF <<p, j>> \in cxFresh THEN 1 ELSE 0
  IN
  /\ cxPc[p] = "push"
  /\ cxPc' = [cxPc EXCEPT ![p] = "mark"]
  /\ \/ /\ cxHeld' = [cxHeld EXCEPT ![p][j] = [job EXCEPT !.status = "sent", !.due = FALSE]]
        /\ cxPushed' = [cxPushed EXCEPT ![j] = @ + one]
        /\ UNCHANGED cxMoves
     \/ /\ cxHeld' = [cxHeld EXCEPT ![p][j] = CxAfterFailure(job)]
        /\ CxMove \* lost: taken, and excused
        /\ UNCHANGED cxPushed
     \/ /\ cxHeld' = [cxHeld EXCEPT ![p][j] = CxAfterFailure(job)]
        /\ UNCHANGED <<cxPushed, cxMoves>>
  /\ UNCHANGED <<cxConn, cxJob, cxNewer, cxCur, cxHeldConn, cxFreshConn, cxFresh, cxTorn, cxWanted>>

\* _mark: the connector's copy is saved with the result, whatever became of it.
CxMark(p) ==
  /\ cxPc[p] = "mark"
  /\ CxPutConn(p, cxHeldConn[p])
  /\ cxPc' = [cxPc EXCEPT ![p] = "save"]
  /\ UNCHANGED <<cxJob, cxNewer, cxCur, cxHeldConn, cxHeld, cxMoves, cxFresh, cxWanted, cxPushed>>

\* The job is saved.
CxSave(p) ==
  /\ cxPc[p] = "save"
  /\ cxJob' = [cxJob EXCEPT ![cxCur[p]] = CxMine(p)]
  /\ cxFresh' = cxFresh \ (CxProcs \X {cxCur[p]})
  /\ cxPc' = [cxPc EXCEPT ![p] = CxThrough(p)]
  /\ cxCur' = [cxCur EXCEPT ![p] = CxNoJob]
  /\ cxHeldConn' = [cxHeldConn EXCEPT ![p] = "absent"]
  /\ cxHeld' = [cxHeld EXCEPT ![p][cxCur[p]] = CxAbsent]
  /\ cxFreshConn' = cxFreshConn \ {p}
  /\ UNCHANGED <<cxConn, cxNewer, cxMoves, cxTorn, cxWanted, cxPushed>>

-------------------------------------------------------------------------------
(* The connector itself: test, update_connector and delete.                     *)

CxRequest(p, next) ==
  /\ p \in CxReqs
  /\ cxPc[p] = "idle"
  /\ cxConn # "absent"
  /\ CxMove
  /\ cxPc' = [cxPc EXCEPT ![p] = next]
  /\ CxGetConn(p)
  /\ UNCHANGED <<cxConn, cxJob, cxNewer, cxCur, cxHeld, cxFresh, cxTorn, cxWanted, cxPushed>>

CxRequestEnds(p) ==
  /\ cxPc' = [cxPc EXCEPT ![p] = "idle"]
  /\ cxHeldConn' = [cxHeldConn EXCEPT ![p] = "absent"]
  /\ UNCHANGED <<cxJob, cxNewer, cxCur, cxHeld, cxMoves, cxFresh, cxPushed>>

\* test ends in _mark, with what it has learnt about the account.
CxTested(p) ==
  /\ cxPc[p] = "test"
  /\ CxPutConn(p, cxHeldConn[p])
  /\ UNCHANGED cxWanted
  /\ CxRequestEnds(p)

CxPatched(p) ==
  /\ cxPc[p] = "patch"
  /\ \E conn \in {"enabled", "disabled"} : CxPutConn(p, conn) /\ cxWanted' = conn
  /\ CxRequestEnds(p)

CxDeleted(p) ==
  /\ cxPc[p] = "delete"
  /\ cxConn' = "absent"
  /\ cxWanted' = "absent"
  /\ cxFreshConn' = {}
  /\ UNCHANGED cxTorn
  /\ CxRequestEnds(p)

\* The API process stops.  A job pushed and not saved may be pushed again.
CxRestart ==
  /\ CxMove
  /\ \E p \in CxProcs : cxPc[p] # "idle"
  /\ cxPushed' = [j \in CxJobs |->
       cxPushed[j] - Cardinality({p \in CxProcs : /\ cxCur[p] = j
                                                  /\ cxPc[p] \in {"mark", "save"}
                                                  /\ CxMine(p).status = "sent"
                                                  /\ <<p, j>> \in cxFresh})]
  /\ cxPc' = [p \in CxProcs |-> "idle"]
  /\ cxCur' = [p \in CxProcs |-> CxNoJob]
  /\ cxHeldConn' = [p \in CxProcs |-> "absent"]
  /\ cxHeld' = [p \in CxProcs |-> [j \in CxJobs |-> CxAbsent]]
  /\ cxFreshConn' = {}
  /\ cxFresh' = {}
  /\ UNCHANGED <<cxConn, cxJob, cxNewer, cxTorn, cxWanted>>

CxSweeping == CxList \/ CxSweep \/ CxSweepEnds \/ CxPush(CxLoop) \/ CxMark(CxLoop) \/ CxSave(CxLoop)
CxServing(p) == CxPush(p) \/ CxMark(p) \/ CxSave(p) \/ CxTested(p) \/ CxPatched(p) \/ CxDeleted(p)

ConnectorsNext ==
  \/ CxSweeping
  \/ \E p \in CxReqs : CxDispatch(p) \/ CxServing(p)
  \/ CxOther
  \/ \E p \in CxReqs, j \in CxJobs : CxRetry(p, j)
  \/ \E p \in CxReqs, next \in {"test", "patch", "delete"} : CxRequest(p, next)
  \/ \E j \in CxJobs : CxTick(j)
  \/ CxRestart

ConnectorsSpec == ConnectorsInit /\ [][ConnectorsNext]_connectorsVars

-------------------------------------------------------------------------------
(* Properties.                                                                  *)

ConnectorsTypeOK ==
  /\ cxConn \in Connector
  /\ cxJob \in [CxJobs -> SyncJob]
  /\ cxNewer \in [CxJobs -> 0 .. CxLimit]
  /\ cxPc \in [CxProcs -> CxPC]
  /\ cxCur \in [CxProcs -> CxJobs \cup {CxNoJob}]
  /\ cxHeldConn \in [CxProcs -> Connector]
  /\ cxHeld \in [CxProcs -> [CxJobs -> SyncJob]]
  /\ cxMoves \in Nat
  /\ cxFreshConn \subseteq CxProcs
  /\ cxFresh \subseteq CxProcs \X CxJobs
  /\ cxTorn \in BOOLEAN
  /\ cxWanted \in Connector
  /\ cxPushed \in [CxJobs -> Int]

\* The other system gets an event once, and again only for a forced retry, an
\* answer that was lost, a restart before the save, or a retry that worked from
\* a copy another process had overtaken.  And what the owner did to a connector,
\* switching it off or deleting it, stands unless an operation that was under way
\* saved its older copy: the loop starts no push for a connector that is off
\* (run_job, retry_due, _mark).
SyncFaithful ==
  /\ \A j \in CxJobs : cxPushed[j] <= 1
  /\ ~cxTorn => cxConn = cxWanted
  /\ cxPc[CxLoop] = "push" /\ CxLoop \in cxFreshConn => cxConn = "enabled"

\* A job that waits for its next attempt is in the end sent, given up or skipped:
\* the loop comes round and MAX_ATTEMPTS bounds the failures.  Or there are more
\* newer jobs, of all tenants, than the loop lists: it is never tried again
\* (RetryLoop, retry_due).
JobSettles ==
  \A j \in CxJobs :
    cxJob[j].status = "retry" ~> cxJob[j].status # "retry" \/ cxNewer[j] = CxLimit
===============================================================================
