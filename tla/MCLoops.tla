--------------------------------- MODULE MCLoops ---------------------------------
(* One instance for TLC of the two services whose background loop has to bring      *)
(* something to its end.  They share no state: a behaviour follows the one that     *)
(* `focus' names, as in MCServices.                                                 *)
EXTENDS Connectors, Numbers

CONSTANTS i1, i2, k1, p1, p2, t1, t2

VARIABLE focus

loopsVars == <<focus, connectorsVars, numbersVars>>

LoopsInit ==
  /\ focus \in {"connectors", "numbers"}
  /\ ConnectorsInit /\ NumbersInit

OfConnectors(A) == focus = "connectors" /\ UNCHANGED <<focus, numbersVars>> /\ A

\* Numbers are followed until an operation was overtaken or cut in half (a bound):
\* their properties say nothing after it.
OfNumbers(A) ==
  focus = "numbers" /\ ~nmRaced /\ ~nmCut /\ UNCHANGED <<focus, connectorsVars>> /\ A

LoopsNext == OfConnectors(ConnectorsNext) \/ OfNumbers(NumbersNext)

\* The loops are tasks of the API process, which runs them again and again; what a
\* request awaits ends, with an answer or a timeout; the carrier comes to a decision.
LoopsSpec ==
  /\ LoopsInit /\ [][LoopsNext]_loopsVars
  /\ WF_loopsVars(OfConnectors(CxSweeping))
  /\ \A p \in CxReqs : WF_loopsVars(OfConnectors(CxServing(p)))
  /\ \A j \in CxJobs : WF_loopsVars(OfConnectors(CxTick(j)))
  /\ WF_loopsVars(OfNumbers(NmActivating))
  /\ WF_loopsVars(OfNumbers(NmReviewed))
  /\ \A p \in NmReqs : WF_loopsVars(OfNumbers(NmServing(p)))

\* Both services' state has the types they declare.
LoopsTypeOK == ConnectorsTypeOK /\ NumbersTypeOK

\* What waits for a loop comes to an end: a push that waits for its retry is sent or
\* given up (RetryLoop), and a number under review is decided (NumberActivationLoop).
LoopsSettle == JobSettles /\ ReviewEnds
===============================================================================
