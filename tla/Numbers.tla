-------------------------------- MODULE Numbers --------------------------------
(* Phone numbers and the platform's pool (apps/api/parlio_api/billing.py,        *)
(* BillingService and NumberActivationLoop).                                     *)
(*                                                                               *)
(* One number is followed through the carrier, the pool and its tenants.  A      *)
(* document says who has it: a PoolNumber or a TenantNumber, under an id of its  *)
(* own, so nothing keeps a second document for the same number from appearing.   *)
(* Calls follow the row of phone_numbers (assign_number).  Every operation reads *)
(* documents, talks to the carrier and writes: a step ends at each of those      *)
(* awaits that another operation can use.  Plans, edges and labels are left out. *)
EXTENDS Integers, FiniteSets

CONSTANTS
  NmTenants,
  NmIds,       \* ids of documents: a bound on how many are written
  NmLoop,      \* the task of NumberActivationLoop
  NmReqs,      \* requests, and closings of accounts, under way together
  NmNone,
  NmPool,      \* the pool as a holder, next to the tenants
  NmMoves      \* bound: operations started by requests, and restarts

ASSUME NumbersAssumption ==
  /\ NmMoves \in Nat
  /\ NmLoop \notin NmReqs
  /\ NmNone \notin NmTenants \cup NmIds \cup {NmPool}
  /\ NmPool \notin NmTenants

NmProcs == {NmLoop} \cup NmReqs
NmHolders == NmTenants \cup {NmPool}

VARIABLES
  nmCarrier,  \* what the carrier says of the number; "stock": it is for sale
  nmDoc,      \* the documents about it
  nmRoute,    \* whose assistant answers it
  nmPc,
  nmFor,      \* the tenant a request works for
  nmId,       \* the document an operation works on
  nmCopy,     \* and its copy
  nmHidden,   \* the loop's sweeps end before they come to this number
  nmMoves

\* History, for the properties only.
VARIABLES
  nmFresh,   \* processes since whose first read nobody else has written
  nmRaced,   \* an operation wrote on what another one had overtaken
  nmCut      \* an operation ended between the carrier and its last write

nmLocal == <<nmPc, nmFor, nmId, nmCopy>>
nmGhost == <<nmFresh, nmRaced, nmCut>>
numbersVars == <<nmCarrier, nmDoc, nmRoute, nmLocal, nmHidden, nmMoves, nmGhost>>

NmStatus == {"pending", "active", "failed"}
NmGone == [at |-> NmNone, status |-> "pending"]
NmDoc == [at: NmHolders \cup {NmNone}, status: NmStatus]
NmPC == {"idle", "buy", "file", "claim", "purchase", "keep", "route", "unroute", "erase",
         "pool", "carrier", "unassign", "delete", "ask", "answer"}

NumbersInit ==
  /\ nmCarrier = "stock"
  /\ nmDoc = [i \in NmIds |-> NmGone]
  /\ nmRoute = NmNone
  /\ nmPc = [p \in NmProcs |-> "idle"]
  /\ nmFor = [p \in NmProcs |-> NmNone]
  /\ nmId = [p \in NmProcs |-> NmNone]
  /\ nmCopy = [p \in NmProcs |-> NmGone]
  /\ nmHidden = FALSE
  /\ nmMoves = 0
  /\ nmFresh = {}
  /\ nmRaced = FALSE
  /\ nmCut = FALSE

-------------------------------------------------------------------------------
(* Helpers.                                                                     *)

NmStored == {i \in NmIds : nmDoc[i] # NmGone}

NmGoto(p, next) == nmPc' = [nmPc EXCEPT ![p] = next]

\* A write of p: whoever else is under way is overtaken.
NmWrote(p) ==
  /\ nmFresh' = nmFresh \cap {p}
  /\ nmRaced' = (nmRaced \/ p \notin nmFresh)

NmDone(p) ==
  /\ NmGoto(p, "idle")
  /\ nmFor' = [nmFor EXCEPT ![p] = NmNone]
  /\ nmId' = [nmId EXCEPT ![p] = NmNone]
  /\ nmCopy' = [nmCopy EXCEPT ![p] = NmGone]

\* A request begins: it reads, for tenant `t' or about document `i'.
NmStart(p, t, i, next) ==
  /\ p \in NmReqs
  /\ nmPc[p] = "idle"
  /\ nmMoves < NmMoves
  /\ nmMoves' = nmMoves + 1
  /\ NmGoto(p, next)
  /\ nmFor' = [nmFor EXCEPT ![p] = t]
  /\ nmId' = [nmId EXCEPT ![p] = i]
  /\ nmCopy' = [nmCopy EXCEPT ![p] = IF i = NmNone THEN NmGone ELSE nmDoc[i]]
  /\ nmFresh' = nmFresh \cup {p}
  /\ UNCHANGED <<nmCarrier, nmDoc, nmRoute, nmHidden, nmRaced, nmCut>>

\* p writes a new document.
NmFile(p, doc) ==
  /\ \E i \in NmIds : nmDoc[i] = NmGone /\ nmDoc' = [nmDoc EXCEPT ![i] = doc]
  /\ NmWrote(p)

\* p deletes the document it works on, which may be gone already.
NmErase(p) ==
  /\ nmDoc' = [nmDoc EXCEPT ![nmId[p]] = NmGone]
  /\ NmWrote(p)

\* An operation raises, or gives up: `cut' if the carrier has done its part.
NmGivesUp(p, cut) ==
  /\ NmDone(p)
  /\ nmFresh' = nmFresh \ {p}
  /\ nmCut' = (nmCut \/ cut)
  /\ UNCHANGED nmRaced

\* purchase_number, route_number_to_trunk and the edge: the number is ordered and
\* can be filed; or one of them raises, the order not taken or already taken.  What
\* is not for sale is refused.
NmPurchase(p, next) ==
  \/ /\ nmCarrier = "stock"
     /\ nmCarrier' \in {"pending", "active"}
     /\ nmCopy' = [nmCopy EXCEPT ![p] = [at |-> IF nmFor[p] = NmNone THEN NmPool ELSE nmFor[p],
                                         status |-> nmCarrier']]
     /\ NmGoto(p, next)
     /\ UNCHANGED <<nmFor, nmId, nmFresh, nmRaced, nmCut>>
  \/ /\ nmCarrier' \in IF nmCarrier = "stock" THEN {"stock", "pending", "active"} ELSE {nmCarrier}
     /\ NmGivesUp(p, nmCarrier' # nmCarrier)

-------------------------------------------------------------------------------
(* buy_pool_numbers and provision_number.                                       *)

\* Not in the pool yet, as the listing says.
NmBuy(p) ==
  /\ \A i \in NmStored : nmDoc[i].at # NmPool
  /\ NmStart(p, NmNone, NmNone, "buy")

NmBuys(p) ==
  /\ nmPc[p] = "buy"
  /\ NmPurchase(p, "file")
  /\ UNCHANGED <<nmDoc, nmRoute, nmHidden, nmMoves>>

NmFiles(p) ==
  /\ nmPc[p] = "file"
  /\ NmFile(p, nmCopy[p])
  /\ NmDone(p)
  /\ UNCHANGED <<nmCarrier, nmRoute, nmHidden, nmMoves, nmCut>>

\* A tenant wants the number, which it has not got yet: from the pool if it is
\* there and live, else from the carrier.
NmProvision(p, t) ==
  /\ \A i \in NmStored : nmDoc[i].at # t
  /\ LET pooled == {i \in NmStored : nmDoc[i] = [at |-> NmPool, status |-> "active"]} IN
     IF pooled = {} THEN NmStart(p, t, NmNone, "purchase")
     ELSE \E i \in pooled : NmStart(p, t, i, "claim")

\* _take_from_pool: whether the document was still there is not looked at.
NmClaim(p) ==
  /\ nmPc[p] = "claim"
  /\ NmErase(p)
  /\ nmCopy' = [nmCopy EXCEPT ![p].at = nmFor[p]]
  /\ NmGoto(p, "keep")
  /\ UNCHANGED <<nmCarrier, nmRoute, nmFor, nmId, nmHidden, nmMoves, nmCut>>

NmPurchases(p) ==
  /\ nmPc[p] = "purchase"
  /\ NmPurchase(p, "keep")
  /\ UNCHANGED <<nmDoc, nmRoute, nmHidden, nmMoves>>

\* The tenant's document is written ...
NmKeep(p) ==
  /\ nmPc[p] = "keep"
  /\ NmFile(p, nmCopy[p])
  /\ NmGoto(p, "route")
  /\ UNCHANGED <<nmCarrier, nmRoute, nmFor, nmId, nmCopy, nmHidden, nmMoves, nmCut>>

\* ... and its calls routed.
NmRouted(p) ==
  /\ nmPc[p] = "route"
  /\ nmRoute' = nmFor[p]
  /\ NmWrote(p)
  /\ NmDone(p)
  /\ UNCHANGED <<nmCarrier, nmDoc, nmHidden, nmMoves, nmCut>>

-------------------------------------------------------------------------------
(* return_number_to_pool, release_number and release_pool_number.               *)

NmReturn(p, i)  == i \in NmStored /\ nmDoc[i].at # NmPool /\ NmStart(p, nmDoc[i].at, i, "unroute")
NmRelease(p, i) == i \in NmStored /\ NmStart(p, nmDoc[i].at, i, "carrier")

\* Mutant: the calls are routed to the pool.
NmUnrouteToPool(p) ==
  /\ nmPc[p] = "unroute"
  /\ nmRoute' = NmPool
  /\ NmWrote(p)
  /\ NmGoto(p, "erase")
  /\ UNCHANGED <<nmCarrier, nmDoc, nmFor, nmId, nmCopy, nmHidden, nmMoves, nmCut>>

NmUnroute(p) ==
  /\ nmPc[p] = "unroute"
  /\ nmRoute' = NmNone
  /\ NmWrote(p)
  /\ NmGoto(p, "erase")
  /\ UNCHANGED <<nmCarrier, nmDoc, nmFor, nmId, nmCopy, nmHidden, nmMoves, nmCut>>

NmErased(p) ==
  /\ nmPc[p] = "erase"
  /\ NmErase(p)
  /\ NmGoto(p, "pool")
  /\ UNCHANGED <<nmCarrier, nmRoute, nmFor, nmId, nmCopy, nmHidden, nmMoves, nmCut>>

NmPooled(p) ==
  /\ nmPc[p] = "pool"
  /\ NmFile(p, [nmCopy[p] EXCEPT !.at = NmPool])
  /\ NmDone(p)
  /\ UNCHANGED <<nmCarrier, nmRoute, nmHidden, nmMoves, nmCut>>

\* The carrier takes the number back; or it, or the edge after it, raises, the number
\* kept or gone.  It always raises for a number it no longer knows.
NmGivesBack(p) ==
  /\ nmPc[p] = "carrier"
  /\ \/ /\ nmCarrier # "stock"
        /\ nmCarrier' = "stock"
        /\ NmGoto(p, IF nmFor[p] = NmPool THEN "delete" ELSE "unassign")
        /\ NmWrote(p)
        /\ UNCHANGED <<nmFor, nmId, nmCopy, nmCut>>
     \/ /\ nmCarrier' \in {nmCarrier, "stock"}
        /\ NmGivesUp(p, nmCarrier' # nmCarrier)
  /\ UNCHANGED <<nmDoc, nmRoute, nmHidden, nmMoves>>

\* Mutant: the calls stay routed to the tenant.
NmUnassignNot(p) ==
  /\ nmPc[p] = "unassign"
  /\ NmWrote(p)
  /\ NmGoto(p, "delete")
  /\ UNCHANGED <<nmCarrier, nmDoc, nmRoute, nmFor, nmId, nmCopy, nmHidden, nmMoves, nmCut>>

NmUnassign(p) ==
  /\ nmPc[p] = "unassign"
  /\ nmRoute' = NmNone
  /\ NmWrote(p)
  /\ NmGoto(p, "delete")
  /\ UNCHANGED <<nmCarrier, nmDoc, nmFor, nmId, nmCopy, nmHidden, nmMoves, nmCut>>

NmDelete(p) ==
  /\ nmPc[p] = "delete"
  /\ NmErase(p)
  /\ NmDone(p)
  /\ UNCHANGED <<nmCarrier, nmRoute, nmHidden, nmMoves, nmCut>>

-------------------------------------------------------------------------------
(* activate_pending_numbers: the pool first, then the tenants, each from a      *)
(* listing; here one document of it.                                            *)

\* A sweep comes to this number only if nothing before it raises (anything but an
\* HTTP error ends the sweep), and it is among the newest thousand of its listing.
NmHide ==
  /\ nmHidden' = ~nmHidden
  /\ UNCHANGED <<nmCarrier, nmDoc, nmRoute, nmLocal, nmMoves, nmGhost>>

NmCheck ==
  /\ nmPc[NmLoop] = "idle"
  /\ ~nmHidden
  /\ \E i \in NmStored :
       /\ nmDoc[i].status = "pending"
       /\ nmId' = [nmId EXCEPT ![NmLoop] = i]
       /\ nmCopy' = [nmCopy EXCEPT ![NmLoop] = nmDoc[i]]
  /\ NmGoto(NmLoop, "ask")
  /\ nmFresh' = nmFresh \cup {NmLoop}
  /\ UNCHANGED <<nmCarrier, nmDoc, nmRoute, nmFor, nmHidden, nmMoves, nmRaced, nmCut>>

\* number_status: still under review, an answer, or (a bound) an error.
NmAsk ==
  /\ nmPc[NmLoop] = "ask"
  /\ \/ /\ nmCarrier \in NmStatus \ {"pending"}
        /\ nmCopy' = [nmCopy EXCEPT ![NmLoop].status = nmCarrier]
        /\ NmGoto(NmLoop, "answer")
        /\ UNCHANGED <<nmFor, nmId, nmMoves, nmFresh>>
     \/ /\ IF nmCarrier \in NmStatus \ {"pending"}
           THEN nmMoves < NmMoves /\ nmMoves' = nmMoves + 1
           ELSE UNCHANGED nmMoves
        /\ NmDone(NmLoop)
        /\ nmFresh' = nmFresh \ {NmLoop}
  /\ UNCHANGED <<nmCarrier, nmDoc, nmRoute, nmHidden, nmRaced, nmCut>>

\* The copy is put back, whatever became of the document.
NmAnswer ==
  /\ nmPc[NmLoop] = "answer"
  /\ nmDoc' = [nmDoc EXCEPT ![nmId[NmLoop]] = nmCopy[NmLoop]]
  /\ NmWrote(NmLoop)
  /\ NmDone(NmLoop)
  /\ UNCHANGED <<nmCarrier, nmRoute, nmHidden, nmMoves, nmCut>>

\* The regulatory review ends.
NmReviewed ==
  /\ nmCarrier = "pending"
  /\ nmCarrier' \in {"active", "failed"}
  /\ UNCHANGED <<nmDoc, nmRoute, nmLocal, nmHidden, nmMoves, nmGhost>>

\* The API process stops: what an operation had begun stays half done.
NmRestart ==
  /\ nmMoves < NmMoves
  /\ \E p \in NmProcs : nmPc[p] # "idle"
  /\ nmMoves' = nmMoves + 1
  /\ nmCut' = (nmCut \/ \E p \in NmProcs :
                     nmPc[p] \in {"file", "keep", "route", "erase", "pool", "unassign", "delete"})
  /\ nmPc' = [p \in NmProcs |-> "idle"]
  /\ nmFor' = [p \in NmProcs |-> NmNone]
  /\ nmId' = [p \in NmProcs |-> NmNone]
  /\ nmCopy' = [p \in NmProcs |-> NmGone]
  /\ nmFresh' = {}
  /\ UNCHANGED <<nmCarrier, nmDoc, nmRoute, nmHidden, nmRaced>>

NmActivating == NmCheck \/ NmAsk \/ NmAnswer

\* A request goes on: nothing it awaits waits for another operation.
NmServing(p) ==
  \/ NmBuys(p) \/ NmFiles(p)
  \/ NmClaim(p) \/ NmPurchases(p) \/ NmKeep(p) \/ NmRouted(p)
  \/ NmUnroute(p) \/ NmErased(p) \/ NmPooled(p)
  \/ NmGivesBack(p) \/ NmUnassign(p) \/ NmDelete(p)

NumbersNext ==
  \/ \E p \in NmReqs : NmBuy(p) \/ NmServing(p)
  \/ \E p \in NmReqs, t \in NmTenants : NmProvision(p, t)
  \/ \E p \in NmReqs, i \in NmIds : NmReturn(p, i) \/ NmRelease(p, i)
  \/ NmActivating \/ NmHide
  \/ NmReviewed
  \/ NmRestart

NumbersSpec == NumbersInit /\ [][NumbersNext]_numbersVars

-------------------------------------------------------------------------------
(* Properties.                                                                  *)

NumbersTypeOK ==
  /\ nmCarrier \in NmStatus \cup {"stock"}
  /\ nmDoc \in [NmIds -> NmDoc]
  /\ nmRoute \in NmTenants \cup {NmNone}
  /\ nmPc \in [NmProcs -> NmPC]
  /\ nmFor \in [NmProcs -> NmHolders \cup {NmNone}]
  /\ nmId \in [NmProcs -> NmIds \cup {NmNone}]
  /\ nmCopy \in [NmProcs -> NmDoc]
  /\ nmHidden \in BOOLEAN
  /\ nmMoves \in Nat
  /\ nmFresh \subseteq NmProcs
  /\ nmRaced \in BOOLEAN /\ nmCut \in BOOLEAN

NmQuiet == \A p \in NmProcs : nmPc[p] = "idle"

\* When nothing is under way, a number the platform pays for has exactly one
\* document, the pool's or one tenant's, a number it does not pay for has none,
\* and its calls go to the tenant that has it.  Out of this: operations that
\* overlapped, and one that a restart or a failure ended after the carrier had
\* taken an order or a release (provision_number, buy_pool_numbers,
\* return_number_to_pool, release_number, activate_pending_numbers).
NumberHasOneOwner ==
  NmQuiet /\ ~nmRaced /\ ~nmCut =>
    /\ Cardinality(NmStored) = IF nmCarrier = "stock" THEN 0 ELSE 1
    /\ nmRoute = IF \E i \in NmStored : nmDoc[i].at \in NmTenants
                 THEN nmDoc[CHOOSE i \in NmStored : nmDoc[i].at \in NmTenants].at
                 ELSE NmNone

\* A document does not stay "pending": the carrier decides and the loop sees it,
\* or the document goes with its number, if the loop's sweeps come to it at last.
\* Out of this: operations that overlapped, or were cut half way, which can leave a
\* document for a number that is back in the carrier's hands (NumberActivationLoop).
ReviewEnds ==
  <>[]~nmHidden =>
    \A i \in NmIds :
      nmDoc[i].status = "pending" /\ nmDoc[i] # NmGone
        ~> nmDoc[i].status # "pending" \/ nmDoc[i] = NmGone \/ nmRaced \/ nmCut
===============================================================================
