----------------------------- MODULE LoopsProofs ------------------------------
(* Proofs about the services with a loop: Numbers, for any tenants, documents and     *)
(* requests, and Connectors, for any jobs, finitely many requests and any number of  *)
(* attempts; and about both together, as MCLoops has them.                           *)
EXTENDS MCLoops, FiniteSetTheorems, TLAPS

-------------------------------------------------------------------------------
(* Numbers: the invariant. *)

NmHalfway == {"file", "keep", "route", "erase", "pool", "unassign", "delete"}
NmMid(p) == nmPc[p] \in NmHalfway

\* Whom an operation works for, on what document and with what copy, by where it is.
NmPlaces ==
  /\ \A i \in NmIds : nmDoc[i] = NmGone \/ nmDoc[i].at \in NmHolders
  /\ nmPc[NmLoop] \in {"idle", "ask", "answer"}
  /\ \A p \in NmProcs :
       /\ nmPc[p] \in {"ask", "answer"} => p = NmLoop /\ nmCopy[p].at \in NmHolders
       /\ nmPc[p] \in {"claim", "unroute", "carrier", "erase", "unassign", "delete", "ask", "answer"}
            => nmId[p] \in NmIds
       /\ nmPc[p] \in {"claim", "purchase", "keep", "route", "unroute", "unassign"}
            => nmFor[p] \in NmTenants
       /\ nmPc[p] = "keep" => nmCopy[p].at = nmFor[p]
       /\ nmPc[p] = "file" => nmCopy[p].at = NmPool
       /\ nmPc[p] = "buy" => nmFor[p] = NmNone
       /\ nmPc[p] = "carrier" => nmFor[p] \in NmHolders

\* A document that nobody has overtaken its reader on is the one that was read.
NmReads ==
  \A p \in nmFresh :
    /\ nmPc[p] \in {"claim", "unroute", "carrier", "ask"} =>
         nmDoc[nmId[p]] # NmGone /\ nmDoc[nmId[p]] = nmCopy[p]
    /\ nmPc[p] = "answer" => nmDoc[nmId[p]] # NmGone /\ nmDoc[nmId[p]].at = nmCopy[p].at
    /\ nmPc[p] = "claim" => nmCopy[p].at = NmPool
    /\ nmPc[p] \in {"unroute", "carrier"} => nmCopy[p].at = nmFor[p]

\* Two operations are half way, or one that was overtaken: this cannot end well, and
\* ends in nmRaced or nmCut.
NmTroubled == \E p \in NmProcs : NmMid(p) /\ (p \notin nmFresh \/ \E q \in NmProcs \ {p} : NmMid(q))

\* What an operation that is half way has left behind.
NmHalf(p) ==
  /\ nmPc[p] \in {"file", "keep", "pool"} => nmCarrier # "stock" /\ NmStored = {} /\ nmRoute = NmNone
  /\ nmPc[p] = "route" => /\ nmCarrier # "stock"
                          /\ \E i \in NmIds : NmStored = {i} /\ nmDoc[i].at = nmFor[p]
  /\ nmPc[p] = "erase" => nmCarrier # "stock" /\ NmStored = {nmId[p]} /\ nmRoute = NmNone
  /\ nmPc[p] = "unassign" => nmCarrier = "stock" /\ NmStored = {nmId[p]}
  /\ nmPc[p] = "delete" => nmCarrier = "stock" /\ NmStored = {nmId[p]} /\ nmRoute = NmNone

\* The number, its document and its calls agree.
NmSettled ==
  IF nmCarrier = "stock" THEN NmStored = {} /\ nmRoute = NmNone
  ELSE \E i \in NmIds : /\ NmStored = {i}
                        /\ nmRoute = IF nmDoc[i].at = NmPool THEN NmNone ELSE nmDoc[i].at

NmOwned ==
  ~nmRaced /\ ~nmCut /\ ~NmTroubled =>
    /\ (\A p \in NmProcs : ~NmMid(p)) => NmSettled
    /\ \A p \in NmProcs : NmMid(p) => NmHalf(p)

NmInv == NumbersTypeOK /\ NmPlaces /\ NmReads /\ NmOwned

USE NumbersAssumption

\* What a request begins with.
NmAsked(t, i, next) ==
  /\ next = "buy" => t = NmNone
  /\ next \in {"purchase", "claim"} => t \in NmTenants
  /\ next = "claim" => i \in NmIds /\ nmDoc[i] # NmGone /\ nmDoc[i].at = NmPool
  /\ next \in {"unroute", "carrier"} => i \in NmIds /\ nmDoc[i] # NmGone /\ t = nmDoc[i].at
  /\ next = "unroute" => t \in NmTenants

\* Nobody but p is half way, and that stays so.
NmOthersOff(p) == \A q \in NmProcs \ {p} : ~NmMid(q) /\ ~NmMid(q)'

LEMMA NmWroteAlone ==
  ASSUME NmInv, NEW p \in NmProcs, NmWrote(p), nmCut' = nmCut,
         \A q \in NmProcs \ {p} : nmPc'[q] = nmPc[q],
         ~nmRaced', ~nmCut', ~NmTroubled'
  PROVE  /\ p \in nmFresh /\ NmOthersOff(p)
         /\ (NmMid(p) => NmHalf(p)) /\ (~NmMid(p) => NmSettled)
<1>1. p \in nmFresh /\ ~nmRaced /\ ~nmCut
  BY DEF NmWrote, NmInv, NumbersTypeOK
<1>2. \A q \in NmProcs \ {p} : ~NmMid(q)'
  BY DEF NmTroubled, NmWrote
<1>3. NmOthersOff(p)
  BY <1>2 DEF NmOthersOff, NmMid
<1>4. ~NmTroubled
  BY <1>1, <1>3 DEF NmTroubled, NmOthersOff
<1> QED
  BY <1>1, <1>3, <1>4 DEF NmInv, NmOwned, NmOthersOff

\* An operation that is not half way and does not write: nothing becomes of the others.
LEMMA NmOwnedKept ==
  ASSUME NmInv, NEW p \in NmProcs, ~NmMid(p), ~NmMid(p)',
         UNCHANGED <<nmCarrier, nmDoc, nmRoute, nmRaced, nmCut>>,
         \A q \in NmProcs \ {p} :
           /\ nmPc'[q] = nmPc[q] /\ nmFor'[q] = nmFor[q] /\ nmId'[q] = nmId[q]
           /\ q \in nmFresh' <=> q \in nmFresh
  PROVE  NmOwned'
<1>1. \A q \in NmProcs : NmMid(q)' <=> NmMid(q)
  BY DEF NmMid
<1>2. NmTroubled' <=> NmTroubled
  BY <1>1 DEF NmTroubled
<1>3. NmStored' = NmStored
  BY DEF NmStored
<1>4. NmSettled' <=> NmSettled
  BY <1>3 DEF NmSettled
<1>5. \A q \in NmProcs : NmMid(q)' /\ NmHalf(q) => NmHalf(q)'
  BY <1>1, <1>3 DEF NmHalf, NmMid
<1> QED
  BY <1>1, <1>2, <1>4, <1>5 DEF NmInv, NmOwned

\* A document with a holder, filed where there is none.
LEMMA NmFiledOne ==
  ASSUME NmInv, NEW i \in NmIds, NEW doc, doc.at \in NmHolders, NmStored = {},
         nmDoc' = [nmDoc EXCEPT ![i] = doc]
  PROVE  NmStored' = {i} /\ nmDoc'[i] = doc
<1>1. doc # NmGone
  BY DEF NmGone, NmHolders
<1> QED
  BY <1>1 DEF NmStored, NmInv, NumbersTypeOK

LEMMA NmStartInv ==
  ASSUME NmInv, NEW p \in NmReqs, NEW t \in NmHolders \cup {NmNone}, NEW i \in NmIds \cup {NmNone},
         NEW next \in {"buy", "purchase", "claim", "unroute", "carrier"},
         NmStart(p, t, i, next), NmAsked(t, i, next)
  PROVE  NmInv'
<1>1. NumbersTypeOK'
  BY DEF NmInv, NumbersTypeOK, NmPlaces, NmPC, NmStatus, NmHolders, NmDoc, NmGone, NmProcs,
         NmStart, NmGoto, NmAsked
<1>2. NmPlaces'
  BY DEF NmInv, NumbersTypeOK, NmPlaces, NmHolders, NmGone, NmProcs, NmStart, NmGoto,
         NmAsked
<1>3. NmReads'
  BY DEF NmInv, NumbersTypeOK, NmPlaces, NmReads, NmGone, NmProcs, NmStart, NmGoto, NmAsked
<1>4. NmOwned'
  BY NmOwnedKept DEF NmStart, NmGoto, NmMid, NmHalfway, NmInv, NumbersTypeOK, NmProcs
<1> QED
  BY <1>1, <1>2, <1>3, <1>4 DEF NmInv

\* An operation that ends before it was half way: what the carrier did, it has to tell.
LEMMA NmGaveUpInv ==
  ASSUME NmInv, NEW p \in NmReqs, nmPc[p] \in {"buy", "purchase", "carrier"},
         nmCarrier' \in {nmCarrier, "stock", "pending", "active"},
         NmGivesUp(p, nmCarrier' # nmCarrier), UNCHANGED <<nmDoc, nmRoute, nmHidden, nmMoves>>
  PROVE  NmInv'
<1>0. nmRaced' \in BOOLEAN /\ nmCut' \in BOOLEAN /\ nmHidden' \in BOOLEAN
  BY Zenon DEF NmInv, NumbersTypeOK, NmGivesUp
<1>1. NumbersTypeOK'
  BY <1>0 DEF NmInv, NumbersTypeOK, NmPC, NmStatus, NmDoc, NmGone, NmGivesUp, NmDone, NmGoto
<1>2. NmPlaces'
  BY DEF NmInv, NumbersTypeOK, NmPlaces, NmHolders, NmGone, NmProcs, NmGivesUp, NmDone, NmGoto
<1>3. NmReads'
  BY DEF NmInv, NumbersTypeOK, NmPlaces, NmReads, NmGone, NmProcs, NmGivesUp, NmDone, NmGoto
<1>4. NmOwned'
  <2>1. CASE nmCarrier' = nmCarrier
    <3>1. nmCut' = nmCut
      BY <2>1, Zenon DEF NmInv, NumbersTypeOK, NmGivesUp
    <3> QED
      BY <2>1, <3>1, NmOwnedKept
      DEF NmGivesUp, NmDone, NmGoto, NmMid, NmHalfway, NmInv, NumbersTypeOK, NmProcs
  <2>2. CASE nmCarrier' # nmCarrier
    <3>1. nmCut'
      BY <2>2, Zenon DEF NmGivesUp
    <3> QED
      BY <3>1 DEF NmOwned
  <2> QED
    BY <2>1, <2>2
<1> QED
  BY <1>1, <1>2, <1>3, <1>4 DEF NmInv

LEMMA NmBoughtInv ==
  ASSUME NmInv, NEW p \in NmReqs, NEW next \in {"file", "keep"},
         nmPc[p] = IF next = "file" THEN "buy" ELSE "purchase",
         nmCarrier = "stock", nmCarrier' \in {"pending", "active"},
         nmCopy' = [nmCopy EXCEPT ![p] = [at |-> IF nmFor[p] = NmNone THEN NmPool ELSE nmFor[p],
                                          status |-> nmCarrier']],
         NmGoto(p, next),
         UNCHANGED <<nmFor, nmId, nmFresh, nmRaced, nmCut, nmDoc, nmRoute, nmHidden, nmMoves>>
  PROVE  NmInv'
<1>1. NumbersTypeOK'
  BY DEF NmInv, NumbersTypeOK, NmPlaces, NmPC, NmStatus, NmHolders, NmDoc, NmGone, NmProcs, NmGoto
<1>2. NmPlaces'
  BY DEF NmInv, NumbersTypeOK, NmPlaces, NmHolders, NmGone, NmProcs, NmGoto
<1>3. NmReads'
  BY DEF NmInv, NumbersTypeOK, NmPlaces, NmReads, NmGone, NmProcs, NmGoto
<1>4. NmOwned'
  <2> SUFFICES ASSUME ~nmRaced', ~nmCut', ~NmTroubled'
               PROVE  /\ (\A q \in NmProcs : ~NmMid(q)') => NmSettled'
                      /\ \A q \in NmProcs : NmMid(q)' => NmHalf(q)'
    BY DEF NmOwned
  <2>1. /\ nmPc'[p] = next /\ p \in NmProcs /\ \A q \in NmProcs \ {p} : nmPc'[q] = nmPc[q]
    BY DEF NmGoto, NmInv, NumbersTypeOK, NmProcs
  <2>2. NmMid(p)' /\ ~NmMid(p) /\ \A q \in NmProcs \ {p} : ~NmMid(q)' /\ ~NmMid(q)
    BY <2>1 DEF NmTroubled, NmMid, NmHalfway
  <2>3. NmSettled
    BY <2>1, <2>2 DEF NmInv, NmOwned, NmTroubled
  <2>4. NmStored = {} /\ nmRoute = NmNone
    BY <2>3 DEF NmSettled
  <2>5. NmHalf(p)'
    BY <2>1, <2>4 DEF NmHalf, NmStored
  <2> QED
    BY <2>1, <2>2, <2>5
<1> QED
  BY <1>1, <1>2, <1>3, <1>4 DEF NmInv

LEMMA NmBuysInv ==
  ASSUME NmInv, NEW p \in NmReqs, NmBuys(p) \/ NmPurchases(p)
  PROVE  NmInv'
<1>1. PICK next \in {"file", "keep"} :
        /\ nmPc[p] = IF next = "file" THEN "buy" ELSE "purchase"
        /\ NmPurchase(p, next) /\ UNCHANGED <<nmDoc, nmRoute, nmHidden, nmMoves>>
  BY DEF NmBuys, NmPurchases
<1>2. CASE NmGivesUp(p, nmCarrier' # nmCarrier)
           /\ nmCarrier' \in IF nmCarrier = "stock" THEN {"stock", "pending", "active"} ELSE {nmCarrier}
  BY <1>1, <1>2, NmGaveUpInv
<1>3. CASE ~(NmGivesUp(p, nmCarrier' # nmCarrier)
             /\ nmCarrier' \in IF nmCarrier = "stock" THEN {"stock", "pending", "active"} ELSE {nmCarrier})
  <2>1. /\ nmCarrier = "stock" /\ nmCarrier' \in {"pending", "active"}
        /\ nmCopy' = [nmCopy EXCEPT ![p] = [at |-> IF nmFor[p] = NmNone THEN NmPool ELSE nmFor[p],
                                            status |-> nmCarrier']]
        /\ NmGoto(p, next)
        /\ UNCHANGED <<nmFor, nmId, nmFresh, nmRaced, nmCut>>
    BY <1>1, <1>3, Zenon DEF NmPurchase
  <2> QED
    BY <1>1, <2>1, NmBoughtInv
<1> QED
  BY <1>2, <1>3

LEMMA NmFilesInv == ASSUME NmInv, NEW p \in NmReqs, NmFiles(p) PROVE NmInv'
<1>1. NumbersTypeOK'
  BY DEF NmInv, NumbersTypeOK, NmPlaces, NmPC, NmStatus, NmHolders, NmDoc, NmGone, NmProcs,
         NmFiles, NmFile, NmWrote, NmDone, NmGoto
<1>2. NmPlaces'
  BY DEF NmInv, NumbersTypeOK, NmPlaces, NmHolders, NmGone, NmProcs, NmFiles, NmFile,
         NmWrote, NmDone, NmGoto
<1>3. NmReads'
  BY DEF NmInv, NumbersTypeOK, NmPlaces, NmReads, NmGone, NmProcs, NmFiles, NmFile,
         NmWrote, NmDone, NmGoto
<1>4. NmOwned'
  <2> SUFFICES ASSUME ~nmRaced', ~nmCut', ~NmTroubled'
               PROVE  /\ (\A q \in NmProcs : ~NmMid(q)') => NmSettled'
                      /\ \A q \in NmProcs : NmMid(q)' => NmHalf(q)'
    BY DEF NmOwned
  <2>1. /\ p \in nmFresh /\ NmOthersOff(p)
        /\ (NmMid(p) => NmHalf(p)) /\ (~NmMid(p) => NmSettled)
    BY NmWroteAlone DEF NmFiles, NmDone, NmGoto, NmInv, NumbersTypeOK, NmProcs, NmFile, NmErase
  <2>2. /\ nmPc[p] = "file" /\ nmPc'[p] = "idle" /\ p \in NmProcs
        /\ UNCHANGED <<nmCarrier, nmRoute>>
    BY DEF NmFiles, NmDone, NmGoto, NmInv, NumbersTypeOK, NmProcs
  <2>3. NmMid(p) /\ ~NmMid(p)'
    BY <2>2 DEF NmMid, NmHalfway
  <2>4. PICK i \in NmIds : nmDoc' = [nmDoc EXCEPT ![i] = nmCopy[p]]
    BY DEF NmFiles, NmFile
  <2>5. nmCarrier # "stock" /\ NmStored = {} /\ nmRoute = NmNone
    BY <2>1, <2>2, <2>3 DEF NmHalf
  <2>6. NmStored' = {i} /\ nmDoc'[i] = nmCopy[p]
    BY <2>4, <2>5, NmFiledOne, <2>2 DEF NmInv, NumbersTypeOK, NmPlaces, NmHolders
  <2>9. NmSettled'
    BY <2>2, <2>5, <2>6 DEF NmSettled, NmInv, NmPlaces
  <2> QED
    BY <2>1, <2>3, <2>9 DEF NmOthersOff
<1> QED
  BY <1>1, <1>2, <1>3, <1>4 DEF NmInv

LEMMA NmClaimInv == ASSUME NmInv, NEW p \in NmReqs, NmClaim(p) PROVE NmInv'
<1>1. NumbersTypeOK'
  BY DEF NmInv, NumbersTypeOK, NmPlaces, NmPC, NmStatus, NmHolders, NmDoc, NmGone, NmProcs,
         NmClaim, NmErase, NmWrote, NmGoto
<1>2. NmPlaces'
  BY DEF NmInv, NumbersTypeOK, NmPlaces, NmHolders, NmGone, NmProcs, NmClaim, NmErase,
         NmWrote, NmGoto
<1>3. NmReads'
  BY DEF NmInv, NumbersTypeOK, NmPlaces, NmReads, NmGone, NmProcs, NmClaim, NmErase,
         NmWrote, NmGoto
<1>4. NmOwned'
  <2> SUFFICES ASSUME ~nmRaced', ~nmCut', ~NmTroubled'
               PROVE  /\ (\A q \in NmProcs : ~NmMid(q)') => NmSettled'
                      /\ \A q \in NmProcs : NmMid(q)' => NmHalf(q)'
    BY DEF NmOwned
  <2>1. /\ p \in nmFresh /\ NmOthersOff(p)
        /\ (NmMid(p) => NmHalf(p)) /\ (~NmMid(p) => NmSettled)
    BY NmWroteAlone DEF NmClaim, NmDone, NmGoto, NmInv, NumbersTypeOK, NmProcs, NmFile, NmErase
  <2>2. /\ nmPc[p] = "claim" /\ nmPc'[p] = "keep" /\ p \in NmProcs
        /\ UNCHANGED <<nmCarrier, nmRoute>>
    BY DEF NmClaim, NmDone, NmGoto, NmInv, NumbersTypeOK, NmProcs
  <2>3. ~NmMid(p) /\ NmMid(p)'
    BY <2>2 DEF NmMid, NmHalfway
  <2>4. nmDoc' = [nmDoc EXCEPT ![nmId[p]] = NmGone] /\ nmId[p] \in NmIds
    BY <2>2 DEF NmClaim, NmErase, NmInv, NmPlaces
  <2>5. NmStored' = NmStored \ {nmId[p]}
    BY <2>4 DEF NmStored, NmInv, NumbersTypeOK
  <2>6. nmDoc[nmId[p]] # NmGone /\ nmDoc[nmId[p]].at = NmPool
    BY <2>1, <2>2 DEF NmInv, NmReads
  <2>7. nmCarrier # "stock" /\ NmStored = {nmId[p]} /\ nmRoute = NmNone
    BY <2>1, <2>3, <2>4, <2>6 DEF NmSettled, NmStored
  <2>9. NmHalf(p)'
    BY <2>2, <2>5, <2>7 DEF NmHalf
  <2> QED
    BY <2>1, <2>2, <2>3, <2>9 DEF NmOthersOff
<1> QED
  BY <1>1, <1>2, <1>3, <1>4 DEF NmInv

LEMMA NmKeepInv == ASSUME NmInv, NEW p \in NmReqs, NmKeep(p) PROVE NmInv'
<1>1. NumbersTypeOK'
  BY DEF NmInv, NumbersTypeOK, NmPlaces, NmPC, NmStatus, NmHolders, NmDoc, NmGone, NmProcs,
         NmKeep, NmFile, NmWrote, NmGoto
<1>2. NmPlaces'
  BY DEF NmInv, NumbersTypeOK, NmPlaces, NmHolders, NmGone, NmProcs, NmKeep, NmFile,
         NmWrote, NmGoto
<1>3. NmReads'
  BY DEF NmInv, NumbersTypeOK, NmPlaces, NmReads, NmGone, NmProcs, NmKeep, NmFile, NmWrote,
         NmGoto
<1>4. NmOwned'
  <2> SUFFICES ASSUME ~nmRaced', ~nmCut', ~NmTroubled'
               PROVE  /\ (\A q \in NmProcs : ~NmMid(q)') => NmSettled'
                      /\ \A q \in NmProcs : NmMid(q)' => NmHalf(q)'
    BY DEF NmOwned
  <2>1. /\ p \in nmFresh /\ NmOthersOff(p)
        /\ (NmMid(p) => NmHalf(p)) /\ (~NmMid(p) => NmSettled)
    BY NmWroteAlone DEF NmKeep, NmDone, NmGoto, NmInv, NumbersTypeOK, NmProcs, NmFile, NmErase
  <2>2. /\ nmPc[p] = "keep" /\ nmPc'[p] = "route" /\ p \in NmProcs
        /\ UNCHANGED <<nmCarrier, nmFor>>
    BY DEF NmKeep, NmDone, NmGoto, NmInv, NumbersTypeOK, NmProcs
  <2>3. NmMid(p) /\ NmMid(p)'
    BY <2>2 DEF NmMid, NmHalfway
  <2>4. PICK i \in NmIds : nmDoc' = [nmDoc EXCEPT ![i] = nmCopy[p]]
    BY DEF NmKeep, NmFile
  <2>5. nmCarrier # "stock" /\ NmStored = {}
    BY <2>1, <2>2, <2>3 DEF NmHalf
  <2>6. NmStored' = {i} /\ nmDoc'[i] = nmCopy[p]
    BY <2>4, <2>5, NmFiledOne, <2>2 DEF NmInv, NumbersTypeOK, NmPlaces, NmHolders
  <2>9. NmHalf(p)'
    BY <2>2, <2>5, <2>6 DEF NmHalf, NmInv, NmPlaces
  <2> QED
    BY <2>1, <2>2, <2>3, <2>9 DEF NmOthersOff
<1> QED
  BY <1>1, <1>2, <1>3, <1>4 DEF NmInv

LEMMA NmRoutedInv == ASSUME NmInv, NEW p \in NmReqs, NmRouted(p) PROVE NmInv'
<1>1. NumbersTypeOK'
  BY DEF NmInv, NumbersTypeOK, NmPlaces, NmPC, NmStatus, NmHolders, NmDoc, NmGone, NmProcs,
         NmRouted, NmWrote, NmDone, NmGoto
<1>2. NmPlaces'
  BY DEF NmInv, NumbersTypeOK, NmPlaces, NmHolders, NmGone, NmProcs, NmRouted, NmWrote,
         NmDone, NmGoto
<1>3. NmReads'
  BY DEF NmInv, NumbersTypeOK, NmPlaces, NmReads, NmGone, NmProcs, NmRouted, NmWrote,
         NmDone, NmGoto
<1>4. NmOwned'
  <2> SUFFICES ASSUME ~nmRaced', ~nmCut', ~NmTroubled'
               PROVE  /\ (\A q \in NmProcs : ~NmMid(q)') => NmSettled'
                      /\ \A q \in NmProcs : NmMid(q)' => NmHalf(q)'
    BY DEF NmOwned
  <2>1. /\ p \in nmFresh /\ NmOthersOff(p)
        /\ (NmMid(p) => NmHalf(p)) /\ (~NmMid(p) => NmSettled)
    BY NmWroteAlone DEF NmRouted, NmDone, NmGoto, NmInv, NumbersTypeOK, NmProcs, NmFile, NmErase
  <2>2. /\ nmPc[p] = "route" /\ nmPc'[p] = "idle" /\ p \in NmProcs
        /\ UNCHANGED <<nmCarrier, nmDoc>>
        /\ nmRoute' = nmFor[p]
    BY DEF NmRouted, NmDone, NmGoto, NmInv, NumbersTypeOK, NmProcs
  <2>3. NmMid(p) /\ ~NmMid(p)'
    BY <2>2 DEF NmMid, NmHalfway
  <2>4. nmFor[p] \in NmTenants
    BY <2>2 DEF NmInv, NmPlaces
  <2>9. NmSettled'
    BY <2>1, <2>2, <2>3, <2>4 DEF NmHalf, NmSettled, NmStored
  <2> QED
    BY <2>1, <2>3, <2>9 DEF NmOthersOff
<1> QED
  BY <1>1, <1>2, <1>3, <1>4 DEF NmInv

LEMMA NmUnrouteInv == ASSUME NmInv, NEW p \in NmReqs, NmUnroute(p) PROVE NmInv'
<1>1. NumbersTypeOK'
  BY DEF NmInv, NumbersTypeOK, NmPlaces, NmPC, NmStatus, NmHolders, NmDoc, NmGone, NmProcs,
         NmUnroute, NmWrote, NmGoto
<1>2. NmPlaces'
  BY DEF NmInv, NumbersTypeOK, NmPlaces, NmHolders, NmGone, NmProcs, NmUnroute, NmWrote,
         NmGoto
<1>3. NmReads'
  BY DEF NmInv, NumbersTypeOK, NmPlaces, NmReads, NmGone, NmProcs, NmUnroute, NmWrote,
         NmGoto
<1>4. NmOwned'
  <2> SUFFICES ASSUME ~nmRaced', ~nmCut', ~NmTroubled'
               PROVE  /\ (\A q \in NmProcs : ~NmMid(q)') => NmSettled'
                      /\ \A q \in NmProcs : NmMid(q)' => NmHalf(q)'
    BY DEF NmOwned
  <2>1. /\ p \in nmFresh /\ NmOthersOff(p)
        /\ (NmMid(p) => NmHalf(p)) /\ (~NmMid(p) => NmSettled)
    BY NmWroteAlone DEF NmUnroute, NmDone, NmGoto, NmInv, NumbersTypeOK, NmProcs, NmFile, NmErase
  <2>2. /\ nmPc[p] = "unroute" /\ nmPc'[p] = "erase" /\ p \in NmProcs
        /\ UNCHANGED <<nmCarrier, nmDoc, nmId>>
        /\ nmRoute' = NmNone
    BY DEF NmUnroute, NmDone, NmGoto, NmInv, NumbersTypeOK, NmProcs
  <2>3. ~NmMid(p) /\ NmMid(p)'
    BY <2>2 DEF NmMid, NmHalfway
  <2>4. nmId[p] \in NmIds /\ nmDoc[nmId[p]] # NmGone
    BY <2>1, <2>2 DEF NmInv, NmPlaces, NmReads
  <2>5. nmCarrier # "stock" /\ NmStored = {nmId[p]}
    BY <2>1, <2>3, <2>4 DEF NmSettled, NmStored
  <2>9. NmHalf(p)'
    BY <2>2, <2>5 DEF NmHalf, NmStored
  <2> QED
    BY <2>1, <2>2, <2>3, <2>9 DEF NmOthersOff
<1> QED
  BY <1>1, <1>2, <1>3, <1>4 DEF NmInv

LEMMA NmErasedInv == ASSUME NmInv, NEW p \in NmReqs, NmErased(p) PROVE NmInv'
<1>1. NumbersTypeOK'
  BY DEF NmInv, NumbersTypeOK, NmPlaces, NmPC, NmStatus, NmHolders, NmDoc, NmGone, NmProcs,
         NmErased, NmErase, NmWrote, NmGoto
<1>2. NmPlaces'
  BY DEF NmInv, NumbersTypeOK, NmPlaces, NmHolders, NmGone, NmProcs, NmErased, NmErase,
         NmWrote, NmGoto
<1>3. NmReads'
  BY DEF NmInv, NumbersTypeOK, NmPlaces, NmReads, NmGone, NmProcs, NmErased, NmErase,
         NmWrote, NmGoto
<1>4. NmOwned'
  <2> SUFFICES ASSUME ~nmRaced', ~nmCut', ~NmTroubled'
               PROVE  /\ (\A q \in NmProcs : ~NmMid(q)') => NmSettled'
                      /\ \A q \in NmProcs : NmMid(q)' => NmHalf(q)'
    BY DEF NmOwned
  <2>1. /\ p \in nmFresh /\ NmOthersOff(p)
        /\ (NmMid(p) => NmHalf(p)) /\ (~NmMid(p) => NmSettled)
    BY NmWroteAlone DEF NmErased, NmDone, NmGoto, NmInv, NumbersTypeOK, NmProcs, NmFile, NmErase
  <2>2. /\ nmPc[p] = "erase" /\ nmPc'[p] = "pool" /\ p \in NmProcs
        /\ UNCHANGED <<nmCarrier, nmRoute>>
    BY DEF NmErased, NmDone, NmGoto, NmInv, NumbersTypeOK, NmProcs
  <2>3. NmMid(p) /\ NmMid(p)'
    BY <2>2 DEF NmMid, NmHalfway
  <2>4. nmDoc' = [nmDoc EXCEPT ![nmId[p]] = NmGone] /\ nmId[p] \in NmIds
    BY <2>2 DEF NmErased, NmErase, NmInv, NmPlaces
  <2>5. NmStored' = NmStored \ {nmId[p]}
    BY <2>4 DEF NmStored, NmInv, NumbersTypeOK
  <2>9. NmHalf(p)'
    BY <2>1, <2>2, <2>3, <2>5 DEF NmHalf
  <2> QED
    BY <2>1, <2>2, <2>3, <2>9 DEF NmOthersOff
<1> QED
  BY <1>1, <1>2, <1>3, <1>4 DEF NmInv

LEMMA NmPooledInv == ASSUME NmInv, NEW p \in NmReqs, NmPooled(p) PROVE NmInv'
<1>1. NumbersTypeOK'
  BY DEF NmInv, NumbersTypeOK, NmPlaces, NmPC, NmStatus, NmHolders, NmDoc, NmGone, NmProcs,
         NmPooled, NmFile, NmWrote, NmDone, NmGoto
<1>2. NmPlaces'
  BY DEF NmInv, NumbersTypeOK, NmPlaces, NmHolders, NmGone, NmProcs, NmPooled, NmFile,
         NmWrote, NmDone, NmGoto
<1>3. NmReads'
  BY DEF NmInv, NumbersTypeOK, NmPlaces, NmReads, NmGone, NmProcs, NmPooled, NmFile,
         NmWrote, NmDone, NmGoto
<1>4. NmOwned'
  <2> SUFFICES ASSUME ~nmRaced', ~nmCut', ~NmTroubled'
               PROVE  /\ (\A q \in NmProcs : ~NmMid(q)') => NmSettled'
                      /\ \A q \in NmProcs : NmMid(q)' => NmHalf(q)'
    BY DEF NmOwned
  <2>1. /\ p \in nmFresh /\ NmOthersOff(p)
        /\ (NmMid(p) => NmHalf(p)) /\ (~NmMid(p) => NmSettled)
    BY NmWroteAlone DEF NmPooled, NmDone, NmGoto, NmInv, NumbersTypeOK, NmProcs, NmFile, NmErase
  <2>2. /\ nmPc[p] = "pool" /\ nmPc'[p] = "idle" /\ p \in NmProcs
        /\ UNCHANGED <<nmCarrier, nmRoute>>
    BY DEF NmPooled, NmDone, NmGoto, NmInv, NumbersTypeOK, NmProcs
  <2>3. NmMid(p) /\ ~NmMid(p)'
    BY <2>2 DEF NmMid, NmHalfway
  <2>4. PICK i \in NmIds : nmDoc' = [nmDoc EXCEPT ![i] = [nmCopy[p] EXCEPT !.at = NmPool]]
    BY DEF NmPooled, NmFile
  <2>5. nmCarrier # "stock" /\ NmStored = {} /\ nmRoute = NmNone
    BY <2>1, <2>2, <2>3 DEF NmHalf
  <2>6. NmStored' = {i} /\ nmDoc'[i] = [nmCopy[p] EXCEPT !.at = NmPool]
    <3> DEFINE doc == [nmCopy[p] EXCEPT !.at = NmPool]
    <3>1. doc.at = NmPool /\ NmPool \in NmHolders
      BY <2>2 DEF NmInv, NumbersTypeOK, NmDoc, NmHolders
    <3>2. nmDoc' = [nmDoc EXCEPT ![i] = doc]
      BY <2>4
    <3> HIDE DEF doc
    <3>3. NmStored' = {i} /\ nmDoc'[i] = doc
      BY <2>5, <3>1, <3>2, NmFiledOne
    <3> QED
      BY <3>3 DEF doc
  <2>9. NmSettled'
    <3>1. nmDoc'[i].at = NmPool
      BY <2>2, <2>6 DEF NmInv, NumbersTypeOK, NmDoc
    <3> QED
      BY <2>2, <2>5, <2>6, <3>1 DEF NmSettled
  <2> QED
    BY <2>1, <2>3, <2>9 DEF NmOthersOff
<1> QED
  BY <1>1, <1>2, <1>3, <1>4 DEF NmInv

\* The carrier has taken the number back.
LEMMA NmGaveBackInv ==
  ASSUME NmInv, NEW p \in NmReqs, nmPc[p] = "carrier", nmCarrier # "stock", nmCarrier' = "stock",
         NmGoto(p, IF nmFor[p] = NmPool THEN "delete" ELSE "unassign"), NmWrote(p),
         UNCHANGED <<nmFor, nmId, nmCopy, nmCut, nmDoc, nmRoute, nmHidden, nmMoves>>
  PROVE  NmInv'
<1>1. NumbersTypeOK'
  BY DEF NmInv, NumbersTypeOK, NmPC, NmProcs, NmWrote, NmGoto
<1>2. NmPlaces'
  BY DEF NmInv, NumbersTypeOK, NmPlaces, NmHolders, NmGone, NmProcs, NmWrote, NmGoto
<1>3. NmReads'
  BY DEF NmInv, NumbersTypeOK, NmPlaces, NmReads, NmGone, NmProcs, NmWrote, NmGoto
<1>4. NmOwned'
  <2> SUFFICES ASSUME ~nmRaced', ~nmCut', ~NmTroubled'
               PROVE  /\ (\A q \in NmProcs : ~NmMid(q)') => NmSettled'
                      /\ \A q \in NmProcs : NmMid(q)' => NmHalf(q)'
    BY DEF NmOwned
  <2>1. /\ p \in NmProcs /\ \A q \in NmProcs \ {p} : nmPc'[q] = nmPc[q]
        /\ nmPc'[p] = IF nmFor[p] = NmPool THEN "delete" ELSE "unassign"
    BY DEF NmGoto, NmInv, NumbersTypeOK, NmProcs
  <2>2. ~NmMid(p) /\ NmMid(p)'
    BY <2>1 DEF NmMid, NmHalfway
  <2>3. p \in nmFresh /\ NmOthersOff(p) /\ NmSettled
    BY <2>1, <2>2, NmWroteAlone
  <2>4. nmId[p] \in NmIds /\ nmDoc[nmId[p]] # NmGone /\ nmDoc[nmId[p]].at = nmFor[p]
    BY <2>1, <2>3 DEF NmInv, NmPlaces, NmReads
  <2>5. NmStored = {nmId[p]} /\ (nmFor[p] = NmPool => nmRoute = NmNone)
    BY <2>3, <2>4 DEF NmSettled, NmStored
  <2>6. NmHalf(p)'
    BY <2>1, <2>5 DEF NmHalf, NmStored
  <2> QED
    BY <2>1, <2>2, <2>3, <2>6 DEF NmOthersOff
<1> QED
  BY <1>1, <1>2, <1>3, <1>4 DEF NmInv

LEMMA NmGivesBackInv == ASSUME NmInv, NEW p \in NmReqs, NmGivesBack(p) PROVE NmInv'
<1>1. nmPc[p] = "carrier" /\ UNCHANGED <<nmDoc, nmRoute, nmHidden, nmMoves>>
  BY DEF NmGivesBack
<1>2. CASE nmCarrier' \in {nmCarrier, "stock"} /\ NmGivesUp(p, nmCarrier' # nmCarrier)
  BY <1>1, <1>2, NmGaveUpInv
<1>3. CASE ~(nmCarrier' \in {nmCarrier, "stock"} /\ NmGivesUp(p, nmCarrier' # nmCarrier))
  <2>1. /\ nmCarrier # "stock" /\ nmCarrier' = "stock"
        /\ NmGoto(p, IF nmFor[p] = NmPool THEN "delete" ELSE "unassign")
        /\ NmWrote(p)
        /\ UNCHANGED <<nmFor, nmId, nmCopy, nmCut>>
    BY <1>3, Zenon DEF NmGivesBack
  <2> QED
    BY <1>1, <2>1, NmGaveBackInv
<1> QED
  BY <1>2, <1>3

LEMMA NmUnassignInv == ASSUME NmInv, NEW p \in NmReqs, NmUnassign(p) PROVE NmInv'
<1>1. NumbersTypeOK'
  BY DEF NmInv, NumbersTypeOK, NmPlaces, NmPC, NmStatus, NmHolders, NmDoc, NmGone, NmProcs,
         NmUnassign, NmWrote, NmGoto
<1>2. NmPlaces'
  BY DEF NmInv, NumbersTypeOK, NmPlaces, NmHolders, NmGone, NmProcs, NmUnassign, NmWrote,
         NmGoto
<1>3. NmReads'
  BY DEF NmInv, NumbersTypeOK, NmPlaces, NmReads, NmGone, NmProcs, NmUnassign, NmWrote,
         NmGoto
<1>4. NmOwned'
  <2> SUFFICES ASSUME ~nmRaced', ~nmCut', ~NmTroubled'
               PROVE  /\ (\A q \in NmProcs : ~NmMid(q)') => NmSettled'
                      /\ \A q \in NmProcs : NmMid(q)' => NmHalf(q)'
    BY DEF NmOwned
  <2>1. /\ p \in nmFresh /\ NmOthersOff(p)
        /\ (NmMid(p) => NmHalf(p)) /\ (~NmMid(p) => NmSettled)
    BY NmWroteAlone DEF NmUnassign, NmDone, NmGoto, NmInv, NumbersTypeOK, NmProcs, NmFile, NmErase
  <2>2. /\ nmPc[p] = "unassign" /\ nmPc'[p] = "delete" /\ p \in NmProcs
        /\ UNCHANGED <<nmCarrier, nmDoc, nmId>>
        /\ nmRoute' = NmNone
    BY DEF NmUnassign, NmDone, NmGoto, NmInv, NumbersTypeOK, NmProcs
  <2>3. NmMid(p) /\ NmMid(p)'
    BY <2>2 DEF NmMid, NmHalfway
  <2>9. NmHalf(p)'
    BY <2>1, <2>2, <2>3 DEF NmHalf, NmStored
  <2> QED
    BY <2>1, <2>2, <2>3, <2>9 DEF NmOthersOff
<1> QED
  BY <1>1, <1>2, <1>3, <1>4 DEF NmInv

LEMMA NmDeleteInv == ASSUME NmInv, NEW p \in NmReqs, NmDelete(p) PROVE NmInv'
<1>1. NumbersTypeOK'
  BY DEF NmInv, NumbersTypeOK, NmPlaces, NmPC, NmStatus, NmHolders, NmDoc, NmGone, NmProcs,
         NmDelete, NmErase, NmWrote, NmDone, NmGoto
<1>2. NmPlaces'
  BY DEF NmInv, NumbersTypeOK, NmPlaces, NmHolders, NmGone, NmProcs, NmDelete, NmErase,
         NmWrote, NmDone, NmGoto
<1>3. NmReads'
  BY DEF NmInv, NumbersTypeOK, NmPlaces, NmReads, NmGone, NmProcs, NmDelete, NmErase,
         NmWrote, NmDone, NmGoto
<1>4. NmOwned'
  <2> SUFFICES ASSUME ~nmRaced', ~nmCut', ~NmTroubled'
               PROVE  /\ (\A q \in NmProcs : ~NmMid(q)') => NmSettled'
                      /\ \A q \in NmProcs : NmMid(q)' => NmHalf(q)'
    BY DEF NmOwned
  <2>1. /\ p \in nmFresh /\ NmOthersOff(p)
        /\ (NmMid(p) => NmHalf(p)) /\ (~NmMid(p) => NmSettled)
    BY NmWroteAlone DEF NmDelete, NmDone, NmGoto, NmInv, NumbersTypeOK, NmProcs, NmFile, NmErase
  <2>2. /\ nmPc[p] = "delete" /\ nmPc'[p] = "idle" /\ p \in NmProcs
        /\ UNCHANGED <<nmCarrier, nmRoute>>
    BY DEF NmDelete, NmDone, NmGoto, NmInv, NumbersTypeOK, NmProcs
  <2>3. NmMid(p) /\ ~NmMid(p)'
    BY <2>2 DEF NmMid, NmHalfway
  <2>4. nmDoc' = [nmDoc EXCEPT ![nmId[p]] = NmGone] /\ nmId[p] \in NmIds
    BY <2>2 DEF NmDelete, NmErase, NmInv, NmPlaces
  <2>5. NmStored' = NmStored \ {nmId[p]}
    BY <2>4 DEF NmStored, NmInv, NumbersTypeOK
  <2>9. NmSettled'
    BY <2>1, <2>2, <2>3, <2>5 DEF NmHalf, NmSettled
  <2> QED
    BY <2>1, <2>3, <2>9 DEF NmOthersOff
<1> QED
  BY <1>1, <1>2, <1>3, <1>4 DEF NmInv

LEMMA NmCheckInv == ASSUME NmInv, NmCheck PROVE NmInv'
<1>1. NumbersTypeOK'
  BY DEF NmInv, NumbersTypeOK, NmPlaces, NmPC, NmStatus, NmHolders, NmDoc, NmGone, NmProcs,
         NmCheck, NmGoto, NmStored
<1>2. NmPlaces'
  BY DEF NmInv, NumbersTypeOK, NmPlaces, NmHolders, NmGone, NmProcs, NmCheck, NmGoto,
         NmStored
<1>3. NmReads'
  BY DEF NmInv, NumbersTypeOK, NmPlaces, NmReads, NmGone, NmProcs, NmCheck, NmGoto,
         NmStored
<1>4. NmOwned'
  <2>1. NmLoop \in NmProcs
    BY DEF NmProcs
  <2> QED
    BY <2>1, NmOwnedKept DEF NmCheck, NmGoto, NmMid, NmHalfway, NmInv, NumbersTypeOK
<1> QED
  BY <1>1, <1>2, <1>3, <1>4 DEF NmInv

LEMMA NmAskInv == ASSUME NmInv, NmAsk PROVE NmInv'
<1>1. NumbersTypeOK'
  BY DEF NmInv, NumbersTypeOK, NmPlaces, NmPC, NmStatus, NmHolders, NmDoc, NmGone, NmProcs,
         NmAsk, NmDone, NmGoto
<1>2. NmPlaces'
  <2>1. CASE /\ nmCopy' = [nmCopy EXCEPT ![NmLoop].status = nmCarrier]
             /\ NmGoto(NmLoop, "answer")
             /\ UNCHANGED <<nmFor, nmId, nmMoves, nmFresh>>
    <3>1. /\ nmCopy'[NmLoop].at = nmCopy[NmLoop].at /\ nmPc[NmLoop] = "ask" /\ NmLoop \in NmProcs
          /\ \A q \in NmProcs \ {NmLoop} : nmCopy'[q] = nmCopy[q] /\ nmPc'[q] = nmPc[q]
          /\ nmPc'[NmLoop] = "answer" /\ nmDoc' = nmDoc
      BY <2>1 DEF NmAsk, NmGoto, NmInv, NumbersTypeOK, NmDoc, NmProcs
    <3> QED
      BY <2>1, <3>1 DEF NmInv, NmPlaces, NmReads
  <2>2. CASE NmDone(NmLoop) /\ nmFresh' = nmFresh \ {NmLoop}
    BY <2>2 DEF NmInv, NumbersTypeOK, NmPlaces, NmReads, NmAsk, NmDone, NmGoto, NmProcs
  <2> QED
    BY <2>1, <2>2 DEF NmAsk
<1>3. NmReads'
  <2>1. CASE /\ nmCopy' = [nmCopy EXCEPT ![NmLoop].status = nmCarrier]
             /\ NmGoto(NmLoop, "answer")
             /\ UNCHANGED <<nmFor, nmId, nmMoves, nmFresh>>
    <3>1. /\ nmCopy'[NmLoop].at = nmCopy[NmLoop].at /\ nmPc[NmLoop] = "ask" /\ NmLoop \in NmProcs
          /\ \A q \in NmProcs \ {NmLoop} : nmCopy'[q] = nmCopy[q] /\ nmPc'[q] = nmPc[q]
          /\ nmPc'[NmLoop] = "answer" /\ nmDoc' = nmDoc
      BY <2>1 DEF NmAsk, NmGoto, NmInv, NumbersTypeOK, NmDoc, NmProcs
    <3>2. ASSUME NEW q \in nmFresh, q # NmLoop
          PROVE  /\ nmPc'[q] = nmPc[q] /\ nmCopy'[q] = nmCopy[q] /\ nmId'[q] = nmId[q]
                 /\ nmFor'[q] = nmFor[q]
      BY <2>1, <3>1, <3>2 DEF NmInv, NumbersTypeOK
    <3>3. NmLoop \in nmFresh => nmDoc[nmId[NmLoop]] # NmGone /\ nmDoc[nmId[NmLoop]] = nmCopy[NmLoop]
      BY <3>1 DEF NmInv, NmReads
    <3> QED
      BY <2>1, <3>1, <3>2, <3>3 DEF NmInv, NmReads
  <2>2. CASE NmDone(NmLoop) /\ nmFresh' = nmFresh \ {NmLoop}
    BY <2>2 DEF NmInv, NumbersTypeOK, NmPlaces, NmReads, NmAsk, NmDone, NmGoto, NmProcs
  <2> QED
    BY <2>1, <2>2 DEF NmAsk
<1>4. NmOwned'
  <2>1. NmLoop \in NmProcs
    BY DEF NmProcs
  <2> QED
    BY <2>1, NmOwnedKept DEF NmAsk, NmDone, NmGoto, NmMid, NmHalfway, NmInv, NumbersTypeOK
<1> QED
  BY <1>1, <1>2, <1>3, <1>4 DEF NmInv

LEMMA NmAnswerInv == ASSUME NmInv, NmAnswer PROVE NmInv'
<1>1. NumbersTypeOK'
  BY DEF NmInv, NumbersTypeOK, NmPlaces, NmPC, NmStatus, NmHolders, NmDoc, NmGone, NmProcs,
         NmAnswer, NmWrote, NmDone, NmGoto
<1>2. NmPlaces'
  BY DEF NmInv, NumbersTypeOK, NmPlaces, NmHolders, NmGone, NmProcs, NmAnswer, NmWrote,
         NmDone, NmGoto
<1>3. NmReads'
  BY DEF NmInv, NumbersTypeOK, NmPlaces, NmReads, NmGone, NmProcs, NmAnswer, NmWrote,
         NmDone, NmGoto
<1>4. NmOwned'
  <2> SUFFICES ASSUME ~nmRaced', ~nmCut', ~NmTroubled'
               PROVE  /\ (\A q \in NmProcs : ~NmMid(q)') => NmSettled'
                      /\ \A q \in NmProcs : NmMid(q)' => NmHalf(q)'
    BY DEF NmOwned
  <2>1. /\ NmLoop \in nmFresh /\ NmOthersOff(NmLoop)
        /\ (NmMid(NmLoop) => NmHalf(NmLoop)) /\ (~NmMid(NmLoop) => NmSettled)
    BY NmWroteAlone DEF NmAnswer, NmDone, NmGoto, NmInv, NumbersTypeOK, NmProcs, NmFile, NmErase
  <2>2. /\ nmPc[NmLoop] = "answer" /\ nmPc'[NmLoop] = "idle" /\ NmLoop \in NmProcs
        /\ UNCHANGED <<nmCarrier, nmRoute>>
    BY DEF NmAnswer, NmDone, NmGoto, NmInv, NumbersTypeOK, NmProcs
  <2>3. ~NmMid(NmLoop) /\ ~NmMid(NmLoop)'
    BY <2>2 DEF NmMid, NmHalfway
  <2> DEFINE i == nmId[NmLoop]
  <2>4. /\ i \in NmIds /\ nmDoc[i] # NmGone /\ nmDoc[i].at = nmCopy[NmLoop].at
        /\ nmCopy[NmLoop].at \in NmHolders
        /\ nmDoc' = [nmDoc EXCEPT ![i] = nmCopy[NmLoop]]
    BY <2>1, <2>2 DEF NmAnswer, NmInv, NmPlaces, NmReads
  <2>5. nmCarrier # "stock" /\ NmStored = {i}
    BY <2>1, <2>3, <2>4 DEF NmSettled, NmStored
  <2>6. nmDoc'[i] # NmGone /\ nmDoc'[i].at = nmDoc[i].at
    BY <2>4 DEF NmInv, NumbersTypeOK, NmGone, NmHolders
  <2>7. NmStored' = {i}
    BY <2>4, <2>5, <2>6 DEF NmStored, NmInv, NumbersTypeOK
  <2>8. nmRoute = IF nmDoc[i].at = NmPool THEN NmNone ELSE nmDoc[i].at
    BY <2>1, <2>3, <2>5 DEF NmSettled
  <2>9. NmSettled'
    BY <2>2, <2>4, <2>5, <2>6, <2>7, <2>8 DEF NmSettled
  <2> QED
    BY <2>1, <2>3, <2>9 DEF NmOthersOff
<1> QED
  BY <1>1, <1>2, <1>3, <1>4 DEF NmInv

LEMMA NmReviewedInv == ASSUME NmInv, NmReviewed PROVE NmInv'
<1>1. NumbersTypeOK'
  BY DEF NmInv, NumbersTypeOK, NmPlaces, NmPC, NmStatus, NmHolders, NmDoc, NmGone, NmProcs,
         NmReviewed, nmLocal, nmGhost
<1>2. NmPlaces'
  BY DEF NmInv, NumbersTypeOK, NmPlaces, NmHolders, NmGone, NmProcs, NmReviewed, nmLocal,
         nmGhost
<1>3. NmReads'
  BY DEF NmInv, NumbersTypeOK, NmPlaces, NmReads, NmGone, NmProcs, NmReviewed, nmLocal,
         nmGhost
<1>4. NmOwned'
  <2>1. /\ nmCarrier # "stock" /\ nmCarrier' # "stock"
        /\ UNCHANGED <<nmDoc, nmRoute, nmPc, nmFor, nmId, nmFresh, nmRaced, nmCut>>
    BY DEF NmReviewed, nmLocal, nmGhost
  <2>2. NmStored' = NmStored /\ (NmTroubled' <=> NmTroubled)
    BY <2>1 DEF NmStored, NmTroubled, NmMid
  <2>3. (NmSettled' <=> NmSettled) /\ \A p \in NmProcs : NmHalf(p)' <=> NmHalf(p)
    BY <2>1, <2>2 DEF NmSettled, NmHalf
  <2> QED
    BY <2>1, <2>2, <2>3 DEF NmInv, NmOwned, NmMid
<1> QED
  BY <1>1, <1>2, <1>3, <1>4 DEF NmInv

LEMMA NmRestartInv == ASSUME NmInv, NmRestart PROVE NmInv'
<1>1. NumbersTypeOK'
  BY DEF NmInv, NumbersTypeOK, NmPlaces, NmPC, NmStatus, NmHolders, NmDoc, NmGone, NmProcs,
         NmRestart
<1>2. NmPlaces'
  BY DEF NmInv, NumbersTypeOK, NmPlaces, NmHolders, NmGone, NmProcs, NmRestart
<1>3. NmReads'
  BY DEF NmInv, NumbersTypeOK, NmPlaces, NmReads, NmGone, NmProcs, NmRestart
<1>4. NmOwned'
  <2> SUFFICES ASSUME ~nmRaced', ~nmCut', ~NmTroubled'
               PROVE  /\ (\A q \in NmProcs : ~NmMid(q)') => NmSettled'
                      /\ \A q \in NmProcs : NmMid(q)' => NmHalf(q)'
    BY DEF NmOwned
  <2>1. ~nmCut /\ \A q \in NmProcs : ~NmMid(q) /\ ~NmMid(q)'
    BY DEF NmRestart, NmMid, NmHalfway, NmInv, NumbersTypeOK
  <2>2. NmSettled
    BY <2>1 DEF NmRestart, NmInv, NmOwned, NmTroubled
  <2>3. NmSettled'
    BY <2>2 DEF NmRestart, NmSettled, NmStored
  <2> QED
    BY <2>1, <2>3
<1> QED
  BY <1>1, <1>2, <1>3, <1>4 DEF NmInv

LEMMA NmStutterInv == ASSUME NmInv, UNCHANGED numbersVars PROVE NmInv'
<1>1. NumbersTypeOK'
  BY DEF NmInv, NumbersTypeOK, NmPlaces, NmPC, NmStatus, NmHolders, NmDoc, NmGone, NmProcs,
         numbersVars, nmLocal, nmGhost
<1>2. NmPlaces'
  BY DEF NmInv, NumbersTypeOK, NmPlaces, NmHolders, NmGone, NmProcs, numbersVars, nmLocal,
         nmGhost
<1>3. NmReads'
  BY DEF NmInv, NumbersTypeOK, NmPlaces, NmReads, NmGone, NmProcs, numbersVars, nmLocal,
         nmGhost
<1>4. NmOwned'
  <2>1. UNCHANGED <<nmCarrier, nmDoc, nmRoute, nmPc, nmFor, nmId, nmFresh, nmRaced, nmCut>>
    BY DEF numbersVars, nmLocal, nmGhost
  <2>2. NmStored' = NmStored /\ (NmTroubled' <=> NmTroubled)
    BY <2>1 DEF NmStored, NmTroubled, NmMid
  <2>3. (NmSettled' <=> NmSettled) /\ \A p \in NmProcs : NmHalf(p)' <=> NmHalf(p)
    BY <2>1, <2>2 DEF NmSettled, NmHalf
  <2> QED
    BY <2>1, <2>2, <2>3 DEF NmInv, NmOwned, NmMid
<1> QED
  BY <1>1, <1>2, <1>3, <1>4 DEF NmInv

LEMMA NmHideInv == ASSUME NmInv, NmHide PROVE NmInv'
<1>1. NumbersTypeOK'
  BY DEF NmInv, NumbersTypeOK, NmPlaces, NmPC, NmStatus, NmHolders, NmDoc, NmGone, NmProcs,
         NmHide, nmLocal, nmGhost
<1>2. NmPlaces'
  BY DEF NmInv, NumbersTypeOK, NmPlaces, NmHolders, NmGone, NmProcs, NmHide, nmLocal,
         nmGhost
<1>3. NmReads'
  BY DEF NmInv, NumbersTypeOK, NmPlaces, NmReads, NmGone, NmProcs, NmHide, nmLocal,
         nmGhost
<1>4. NmOwned'
  <2>1. UNCHANGED <<nmCarrier, nmDoc, nmRoute, nmPc, nmFor, nmId, nmFresh, nmRaced, nmCut>>
    BY DEF NmHide, nmLocal, nmGhost
  <2>2. NmStored' = NmStored /\ (NmTroubled' <=> NmTroubled)
    BY <2>1 DEF NmStored, NmTroubled, NmMid
  <2>3. (NmSettled' <=> NmSettled) /\ \A p \in NmProcs : NmHalf(p)' <=> NmHalf(p)
    BY <2>1, <2>2 DEF NmSettled, NmHalf
  <2> QED
    BY <2>1, <2>2, <2>3 DEF NmInv, NmOwned, NmMid
<1> QED
  BY <1>1, <1>2, <1>3, <1>4 DEF NmInv

LEMMA NmInitInv == NumbersInit => NmInv
<1> SUFFICES ASSUME NumbersInit PROVE NmInv
  OBVIOUS
<1>1. NumbersTypeOK
  BY DEF NumbersInit, NumbersTypeOK, NmPC, NmDoc, NmGone, NmStatus, NmProcs
<1>2. NmPlaces /\ NmReads
  BY DEF NumbersInit, NmPlaces, NmReads, NmProcs
<1>3. NmOwned
  BY DEF NumbersInit, NmOwned, NmMid, NmHalfway, NmSettled, NmStored
<1> QED
  BY <1>1, <1>2, <1>3 DEF NmInv

LEMMA NmProvisionInv ==
  ASSUME NmInv, NEW p \in NmReqs, NEW t \in NmTenants, NmProvision(p, t) PROVE NmInv'
<1>1. CASE NmStart(p, t, NmNone, "purchase")
  BY <1>1, NmStartInv DEF NmAsked, NmHolders
<1>2. CASE \E j \in NmStored : /\ nmDoc[j] = [at |-> NmPool, status |-> "active"]
                               /\ NmStart(p, t, j, "claim")
  <2>1. PICK j \in NmStored : /\ nmDoc[j] = [at |-> NmPool, status |-> "active"]
                              /\ NmStart(p, t, j, "claim")
    BY <1>2
  <2>2. NmAsked(t, j, "claim")
    BY <2>1 DEF NmAsked, NmStored
  <2> QED
    BY <2>1, <2>2, NmStartInv DEF NmHolders, NmStored
<1> QED
  BY <1>1, <1>2 DEF NmProvision

LEMMA NmReturnsInv ==
  ASSUME NmInv, NEW p \in NmReqs, NEW i \in NmIds, NmReturn(p, i) \/ NmRelease(p, i)
  PROVE  NmInv'
<1>1. CASE NmReturn(p, i)
  <2>1. /\ nmDoc[i] # NmGone /\ nmDoc[i].at \in NmHolders /\ nmDoc[i].at # NmPool
        /\ NmStart(p, nmDoc[i].at, i, "unroute")
    BY <1>1 DEF NmReturn, NmStored, NmInv, NmPlaces
  <2>2. NmAsked(nmDoc[i].at, i, "unroute")
    BY <2>1 DEF NmAsked, NmHolders
  <2> QED
    BY <2>1, <2>2, NmStartInv
<1>2. CASE NmRelease(p, i)
  <2>1. /\ nmDoc[i] # NmGone /\ nmDoc[i].at \in NmHolders
        /\ NmStart(p, nmDoc[i].at, i, "carrier")
    BY <1>2 DEF NmRelease, NmStored, NmInv, NmPlaces
  <2>2. NmAsked(nmDoc[i].at, i, "carrier")
    BY <2>1 DEF NmAsked
  <2> QED
    BY <2>1, <2>2, NmStartInv
<1> QED
  BY <1>1, <1>2

LEMMA NmNextInv == NmInv /\ [NumbersNext]_numbersVars => NmInv'
<1> SUFFICES ASSUME NmInv, [NumbersNext]_numbersVars PROVE NmInv'
  OBVIOUS
<1>1. ASSUME NEW p \in NmReqs, NmBuy(p) PROVE NmInv'
  <2>1. NmStart(p, NmNone, NmNone, "buy")
    BY <1>1 DEF NmBuy
  <2> QED
    BY <2>1, NmStartInv DEF NmAsked
<1>2. ASSUME NEW p \in NmReqs, NEW t \in NmTenants, NmProvision(p, t) PROVE NmInv'
  BY <1>2, NmProvisionInv
<1>3. ASSUME NEW p \in NmReqs, NEW i \in NmIds, NmReturn(p, i) \/ NmRelease(p, i) PROVE NmInv'
  BY <1>3, NmReturnsInv
<1>4. ASSUME NEW p \in NmReqs, NmServing(p) PROVE NmInv'
  BY <1>4, NmBuysInv, NmFilesInv, NmClaimInv, NmKeepInv, NmRoutedInv, NmUnrouteInv,
     NmErasedInv, NmPooledInv, NmGivesBackInv, NmUnassignInv, NmDeleteInv DEF NmServing
<1>5. CASE NmActivating
  BY <1>5, NmCheckInv, NmAskInv, NmAnswerInv DEF NmActivating
<1>6. CASE NmHide \/ NmReviewed \/ NmRestart \/ UNCHANGED numbersVars
  BY <1>6, NmHideInv, NmReviewedInv, NmRestartInv, NmStutterInv
<1> QED
  BY <1>1, <1>2, <1>3, <1>4, <1>5, <1>6 DEF NumbersNext

LEMMA NmSpecInv == NumbersSpec => []NmInv
<1> QED
  BY NmInitInv, NmNextInv, PTL DEF NumbersSpec

\* The types of the number's carrier state, its documents, its route and of what the
\* operations under way hold (BillingService, NumberActivationLoop).
THEOREM NumbersTypeCorrect == NumbersSpec => []NumbersTypeOK
<1>1. NmInv => NumbersTypeOK
  BY DEF NmInv
<1> QED
  BY <1>1, NmSpecInv, PTL

\* With nothing under way, nothing overlapped and nothing cut short, a number that is
\* paid for has one document and its calls go to the tenant on it, if any; one that is
\* not has none (provision_number, return_number_to_pool, release_number,
\* activate_pending_numbers).
THEOREM NumberAlwaysHasOneOwner == NumbersSpec => []NumberHasOneOwner
<1>1. NmInv => NumberHasOneOwner
  <2> SUFFICES ASSUME NmInv, NmQuiet, ~nmRaced, ~nmCut
               PROVE  /\ Cardinality(NmStored) = IF nmCarrier = "stock" THEN 0 ELSE 1
                      /\ nmRoute = IF \E i \in NmStored : nmDoc[i].at \in NmTenants
                                   THEN nmDoc[CHOOSE i \in NmStored : nmDoc[i].at \in NmTenants].at
                                   ELSE NmNone
    BY DEF NumberHasOneOwner
  <2>1. NmSettled
    BY DEF NmInv, NmOwned, NmTroubled, NmQuiet, NmMid, NmHalfway
  <2>2. CASE nmCarrier = "stock"
    BY <2>1, <2>2, FS_EmptySet DEF NmSettled
  <2>3. CASE nmCarrier # "stock"
    <3>1. PICK i \in NmIds : /\ NmStored = {i}
                             /\ nmRoute = IF nmDoc[i].at = NmPool THEN NmNone ELSE nmDoc[i].at
      BY <2>1, <2>3 DEF NmSettled
    <3>2. Cardinality(NmStored) = 1
      BY <3>1, FS_Singleton
    <3>3. nmDoc[i].at \in NmHolders
      BY <3>1 DEF NmInv, NmPlaces, NmStored
    <3>4. CASE nmDoc[i].at = NmPool
      BY <2>3, <3>1, <3>2, <3>4
    <3>5. CASE nmDoc[i].at \in NmTenants
      <4>1. (CHOOSE j \in NmStored : nmDoc[j].at \in NmTenants) = i
        BY <3>1, <3>5
      <4>2. nmDoc[i].at # NmPool
        BY <3>5
      <4> QED
        BY <2>3, <3>1, <3>2, <3>5, <4>1, <4>2
    <3> QED
      BY <3>3, <3>4, <3>5 DEF NmHolders
  <2> QED
    BY <2>2, <2>3
<1> QED
  BY <1>1, NmSpecInv, PTL

HIDE NumbersAssumption

-------------------------------------------------------------------------------
(* Connectors: the invariant. *)

\* Where a process is with what job, and what copies it can have.
CxPlaces ==
  /\ cxPc[CxLoop] \in {"idle", "sweep", "push", "mark", "save"}
  /\ cxPc[CxLoop] = "push" => cxHeldConn[CxLoop] = "enabled"
  /\ \A p \in CxProcs :
       /\ IF cxPc[p] \in {"push", "mark", "save"}
          THEN cxCur[p] \in CxJobs /\ cxHeld[p][cxCur[p]].status # "absent"
          ELSE cxCur[p] = CxNoJob
       /\ \A j \in CxJobs : cxHeld[p][j] # CxAbsent /\ j # cxCur[p] =>
            p = CxLoop /\ cxPc[p] # "idle" /\ cxHeld[p][j].status = "retry"
  /\ \A j \in CxJobs :
       /\ cxPc[CxLoop] = "push" /\ cxCur[CxLoop] = j => cxHeld[CxLoop][j].status = "retry"
       /\ cxJob[j].status = "absent" => cxJob[j] = CxAbsent
       /\ cxHeld[CxLoop][j] # CxAbsent => cxJob[j] # CxAbsent

\* A copy of the connector that nobody has overtaken is what is stored.
CxOwners ==
  /\ \A p \in cxFreshConn : cxPc[p] \in CxPC \ {"idle", "sweep"} => cxHeldConn[p] = cxConn
  /\ ~cxTorn => cxConn = cxWanted

\* The processes that can still push job j, or save it as one to push again.
CxBusy(j) ==
  {p \in CxProcs : (cxCur[p] = j /\ cxPc[p] = "push") \/ cxHeld[p][j].status = "retry"}

\* The loop has a copy of j that is still good: the stored one is not waiting for it.
CxTaken(j) == <<CxLoop, j>> \in cxFresh /\ cxHeld[CxLoop][j].status \in {"retry", "sent"}

\* Each of them may still be taken once; a stored job that waits for the loop, too.
CxCounted(j) ==
  /\ cxPushed[j] + Cardinality(CxBusy(j)) <= 1
  /\ cxJob[j].status = "retry" /\ ~CxTaken(j) => cxPushed[j] + Cardinality(CxBusy(j)) <= 0

CxInv == ConnectorsTypeOK /\ CxPlaces /\ CxOwners /\ \A j \in CxJobs : CxCounted(j)

USE ConnectorsAssumption

LEMMA CxProcsFinite ==
  ASSUME NEW S \in SUBSET CxProcs
  PROVE  IsFiniteSet(S) /\ Cardinality(S) \in Nat
<1>1. IsFiniteSet(CxProcs)
  BY FS_AddElement DEF CxProcs
<1> QED
  BY <1>1, FS_Subset, FS_CardinalityType

LEMMA CxBusyIsProcs == ASSUME NEW j PROVE CxBusy(j) \in SUBSET CxProcs
BY DEF CxBusy

\* Nothing that job j is counted by has changed.
LEMMA CxCountKept ==
  ASSUME NEW j \in CxJobs, CxCounted(j), CxBusy(j)' = CxBusy(j), cxPushed'[j] = cxPushed[j],
         cxJob'[j].status = "retry" => cxJob[j].status = "retry", CxTaken(j) => CxTaken(j)'
  PROVE  CxCounted(j)'
BY DEF CxCounted

\* Nor has anything that any job is counted by.
LEMMA CxCountsKept ==
  ASSUME CxInv, UNCHANGED <<cxJob, cxCur, cxHeld, cxFresh, cxPushed>>,
         \A p \in CxProcs : cxPc'[p] = "push" <=> cxPc[p] = "push"
  PROVE  \A i \in CxJobs : CxCounted(i)'
<1> TAKE i \in CxJobs
<1>1. CxBusy(i)' = CxBusy(i)
  BY DEF CxBusy
<1> QED
  BY <1>1, CxCountKept DEF CxTaken, CxInv

\* What another job is counted by, when process p works on job j.
LEMMA CxOthersKept ==
  ASSUME CxInv, NEW p \in CxProcs, NEW j \in CxJobs, NEW i \in CxJobs \ {j},
         cxCur[p] # i, cxCur'[p] # i,
         \A q \in CxProcs \ {p} : cxCur'[q] = cxCur[q] /\ cxPc'[q] = cxPc[q] /\ cxHeld'[q] = cxHeld[q],
         cxHeld'[p][i] = cxHeld[p][i], cxJob'[i] = cxJob[i], cxPushed'[i] = cxPushed[i],
         <<CxLoop, i>> \in cxFresh => <<CxLoop, i>> \in cxFresh'
  PROVE  CxCounted(i)'
<1>1. CxBusy(i)' = CxBusy(i)
  BY DEF CxBusy
<1>2. cxHeld'[CxLoop][i] = cxHeld[CxLoop][i]
  BY DEF CxProcs
<1> QED
  BY <1>1, <1>2, CxCountKept DEF CxTaken, CxInv

\* One more, and one less, of the processes that still have a job.
LEMMA CxBusyGrows ==
  ASSUME NEW S \in SUBSET CxProcs, NEW p \in CxProcs \ S
  PROVE  Cardinality(S \cup {p}) = Cardinality(S) + 1
BY CxProcsFinite, FS_AddElement

LEMMA CxBusyShrinks ==
  ASSUME NEW S \in SUBSET CxProcs, NEW p \in S
  PROVE  Cardinality(S \ {p}) = Cardinality(S) - 1
BY CxProcsFinite, FS_RemoveElement

\* A copy of a job is replaced by another job.
LEMMA CxHeldTyped ==
  ASSUME ConnectorsTypeOK, NEW p \in CxProcs, NEW j, NEW job \in SyncJob,
         cxHeld' = [cxHeld EXCEPT ![p][j] = job]
  PROVE  cxHeld' \in [CxProcs -> [CxJobs -> SyncJob]]
<1>1. [cxHeld[p] EXCEPT ![j] = job] \in [CxJobs -> SyncJob]
  BY DEF ConnectorsTypeOK
<1>2. cxHeld' = [cxHeld EXCEPT ![p] = [cxHeld[p] EXCEPT ![j] = job]]
  BY DEF ConnectorsTypeOK
<1> QED
  BY <1>1, <1>2 DEF ConnectorsTypeOK

\* A request that is about the connector only.
LEMMA CxPlacesKept ==
  ASSUME CxInv, NEW p \in CxReqs, {cxPc[p], cxPc'[p]} \subseteq {"idle", "test", "patch", "delete"},
         \A q \in CxProcs \ {p} : cxPc'[q] = cxPc[q],
         UNCHANGED <<cxCur, cxHeld, cxJob>>, cxHeldConn'[CxLoop] = cxHeldConn[CxLoop]
  PROVE  CxPlaces'
<1>1. p # CxLoop /\ p \in CxProcs /\ CxLoop \in CxProcs
  BY DEF CxProcs
<1>2. cxCur[p] = CxNoJob /\ \A j \in CxJobs : cxHeld[p][j] = CxAbsent
  BY <1>1 DEF CxInv, CxPlaces
<1> QED
  BY <1>1, <1>2 DEF CxInv, CxPlaces

LEMMA CxMadeTyped == ASSUME CxInv, CxMade PROVE cxNewer' \in [CxJobs -> 0 .. CxLimit]
<1>1. ASSUME NEW j \in CxJobs PROVE cxNewer[j] \in 0 .. CxLimit
  BY DEF CxInv, ConnectorsTypeOK
<1> QED
  BY <1>1 DEF CxMade

LEMMA CxDispatchInv == ASSUME CxInv, NEW p \in CxReqs, CxDispatch(p) PROVE CxInv'
<1>1. ConnectorsTypeOK'
  <2>1. cxNewer' \in [CxJobs -> 0 .. CxLimit]
    BY CxMadeTyped DEF CxDispatch
  <2>2. cxHeld' \in [CxProcs -> [CxJobs -> SyncJob]]
    BY CxHeldTyped DEF CxDispatch, CxInv, CxProcs, CxQueued, SyncJob, JobStatus
  <2> QED
    BY <2>1, <2>2 DEF CxInv, ConnectorsTypeOK, Connector, CxPC, CxProcs, CxDispatch, CxGetConn
<1>2. CxPlaces'
  BY DEF CxInv, ConnectorsTypeOK, CxPlaces, CxAbsent, CxQueued, SyncJob, Connector,
         CxProcs, CxDispatch, CxGetConn
<1>3. CxOwners'
  BY DEF CxInv, ConnectorsTypeOK, CxOwners, CxPC, CxPlaces, CxProcs, CxDispatch, CxGetConn
<1>4. \A i \in CxJobs : CxCounted(i)'
  <2>1. PICK j \in CxJobs :
          /\ cxJob[j] = CxAbsent /\ (\A q \in CxProcs : cxCur[q] # j) /\ cxPushed[j] = 0
          /\ cxCur' = [cxCur EXCEPT ![p] = j]
          /\ cxHeld' = [cxHeld EXCEPT ![p][j] = CxQueued]
          /\ cxFresh' = cxFresh \cup {<<p, j>>}
    BY DEF CxDispatch
  <2>2. /\ p \in CxProcs /\ p # CxLoop /\ cxPc[p] = "idle" /\ cxCur[p] = CxNoJob
        /\ cxPc' = [cxPc EXCEPT ![p] = "push"] /\ UNCHANGED <<cxJob, cxPushed>>
    BY DEF CxDispatch, CxInv, CxPlaces, CxProcs
  <2>3. CxBusy(j) = {}
    BY <2>1 DEF CxBusy, CxInv, CxPlaces, CxAbsent
  <2>4. CxBusy(j)' = {p}
    BY <2>1, <2>2, <2>3 DEF CxBusy, CxInv, ConnectorsTypeOK, CxQueued
  <2>5. CxCounted(j)'
    <3>1. Cardinality(CxBusy(j)') = 1
      BY <2>4, FS_Singleton
    <3>2. cxPushed'[j] = 0 /\ cxJob'[j].status # "retry"
      BY <2>1, <2>2 DEF CxAbsent
    <3> QED
      BY <3>1, <3>2 DEF CxCounted
  <2>6. ASSUME NEW i \in CxJobs \ {j} PROVE CxCounted(i)'
    <3>1. cxHeld'[p][i] = cxHeld[p][i] /\ cxCur'[p] = j
      BY <2>1, <2>2 DEF CxInv, ConnectorsTypeOK
    <3> QED
      BY <2>1, <2>2, <3>1, CxOthersKept DEF CxInv, ConnectorsTypeOK
  <2> QED
    BY <2>5, <2>6
<1> QED
  BY <1>1, <1>2, <1>3, <1>4 DEF CxInv

LEMMA CxRetryInv == ASSUME CxInv, NEW p \in CxReqs, NEW j \in CxJobs, CxRetry(p, j) PROVE CxInv'
<1>1. ConnectorsTypeOK'
  <2>1. /\ [cxJob[j] EXCEPT !.status = "skipped"] \in SyncJob /\ [cxJob[j] EXCEPT !.attempts = 0] \in SyncJob
        /\ p \in CxProcs
    <3>1. cxJob[j] \in SyncJob
      BY DEF CxInv, ConnectorsTypeOK
    <3> QED
      BY <3>1 DEF SyncJob, JobStatus, CxProcs
  <2>2. cxHeld' \in [CxProcs -> [CxJobs -> SyncJob]]
    BY <2>1, CxHeldTyped DEF CxRetry, CxInv
  <2>3. cxPushed' \in [CxJobs -> Int] /\ cxMoves' \in Nat
    BY DEF CxRetry, CxMove, CxInv, ConnectorsTypeOK
  <2> QED
    BY <2>2, <2>3 DEF CxInv, ConnectorsTypeOK, Connector, CxPC, CxProcs, CxRetry, CxGetConn
<1>2. CxPlaces'
  BY DEF CxInv, ConnectorsTypeOK, CxPlaces, CxAbsent, CxQueued, SyncJob, Connector,
         CxProcs, CxRetry, CxGetConn, CxMove
<1>3. CxOwners'
  BY DEF CxInv, ConnectorsTypeOK, CxOwners, CxPC, CxPlaces, CxProcs, CxRetry, CxGetConn,
         CxMove
<1>4. \A i \in CxJobs : CxCounted(i)'
  <2>1. /\ p \in CxProcs /\ p # CxLoop /\ cxPc[p] = "idle" /\ cxCur[p] = CxNoJob
        /\ cxHeld[p][j] = CxAbsent /\ UNCHANGED cxJob /\ cxFresh' = cxFresh \cup {<<p, j>>}
        /\ cxCur' = [cxCur EXCEPT ![p] = j]
    BY DEF CxRetry, CxInv, CxPlaces, CxProcs
  <2>2. p \notin CxBusy(j)
    BY <2>1 DEF CxBusy, CxAbsent
  <2>3. cxHeld'[CxLoop][j] = cxHeld[CxLoop][j]
    BY <2>1 DEF CxRetry, CxInv, ConnectorsTypeOK, CxProcs
  <2>4. CxTaken(j)' = CxTaken(j)
    BY <2>1, <2>3 DEF CxTaken
  <2>5. ASSUME cxConn = "absent" PROVE CxCounted(j)'
    <3>1. /\ cxHeld'[p][j].status = "skipped" /\ cxPc'[p] = "save" /\ cxPushed' = cxPushed
          /\ \A q \in CxProcs \ {p} :
               cxHeld'[q] = cxHeld[q] /\ cxPc'[q] = cxPc[q] /\ cxCur'[q] = cxCur[q]
      BY <2>1, <2>5 DEF CxRetry, CxInv, ConnectorsTypeOK, SyncJob
    <3>2. CxBusy(j)' = CxBusy(j)
      BY <2>2, <3>1 DEF CxBusy
    <3> QED
      BY <2>1, <2>4, <3>1, <3>2, CxCountKept DEF CxInv
  <2>6. ASSUME cxConn # "absent" PROVE CxCounted(j)'
    <3>1. /\ cxCur'[p] = j /\ cxPc'[p] = "push" /\ cxPushed'[j] = cxPushed[j] - 1
          /\ \A q \in CxProcs \ {p} :
               cxHeld'[q] = cxHeld[q] /\ cxPc'[q] = cxPc[q] /\ cxCur'[q] = cxCur[q]
      BY <2>1, <2>6 DEF CxRetry, CxInv, ConnectorsTypeOK
    <3>2. CxBusy(j)' = CxBusy(j) \cup {p}
      BY <2>1, <3>1 DEF CxBusy
    <3>3. Cardinality(CxBusy(j)') = Cardinality(CxBusy(j)) + 1
      BY <2>1, <2>2, <3>2, CxBusyIsProcs, CxBusyGrows
    <3>4. cxPushed[j] \in Int /\ Cardinality(CxBusy(j)) \in Int /\ CxCounted(j)
      BY CxBusyIsProcs, CxProcsFinite DEF CxInv, ConnectorsTypeOK
    <3> QED
      BY <2>1, <2>4, <3>1, <3>3, <3>4 DEF CxCounted
  <2>7. ASSUME NEW i \in CxJobs \ {j} PROVE CxCounted(i)'
    <3>1. cxHeld'[p][i] = cxHeld[p][i] /\ cxCur'[p] = j /\ cxPushed'[i] = cxPushed[i]
      BY <2>1 DEF CxRetry, CxInv, ConnectorsTypeOK
    <3> QED
      BY <2>1, <3>1, CxOthersKept DEF CxRetry, CxInv, ConnectorsTypeOK
  <2> QED
    BY <2>5, <2>6, <2>7
<1> QED
  BY <1>1, <1>2, <1>3, <1>4 DEF CxInv

LEMMA CxListInv == ASSUME CxInv, CxList PROVE CxInv'
<1>1. ConnectorsTypeOK'
  BY DEF CxInv, ConnectorsTypeOK, Connector, JobStatus, SyncJob, CxAbsent, CxQueued, CxPC,
         CxProcs, CxList, CxDue
<1>2. CxPlaces'
  BY DEF CxInv, ConnectorsTypeOK, CxPlaces, CxAbsent, CxQueued, SyncJob, Connector,
         CxProcs, CxList, CxDue
<1>3. CxOwners'
  BY DEF CxInv, ConnectorsTypeOK, CxOwners, CxPC, CxPlaces, CxProcs, CxList, CxDue
<1>4. \A i \in CxJobs : CxCounted(i)'
  <2> TAKE i \in CxJobs
  <2>1. /\ CxLoop \in CxProcs /\ cxPc[CxLoop] = "idle" /\ cxHeld[CxLoop][i] = CxAbsent
        /\ UNCHANGED <<cxCur, cxJob, cxPushed>> /\ <<CxLoop, i>> \in cxFresh'
        /\ \A q \in CxProcs : cxPc'[q] = "push" <=> cxPc[q] = "push"
        /\ \A q \in CxProcs \ {CxLoop} : cxHeld'[q] = cxHeld[q]
        /\ cxHeld'[CxLoop][i] = IF CxDue(i) THEN cxJob[i] ELSE CxAbsent
    BY DEF CxList, CxInv, ConnectorsTypeOK, CxPlaces, CxProcs
  <2>2. CxLoop \notin CxBusy(i) /\ ~CxTaken(i)
    BY <2>1 DEF CxBusy, CxTaken, CxAbsent
  <2>3. CASE ~CxDue(i)
    <3>1. CxBusy(i)' = CxBusy(i)
      BY <2>1, <2>3 DEF CxBusy
    <3> QED
      BY <2>1, <2>2, <3>1, CxCountKept DEF CxInv
  <2>4. CASE CxDue(i)
    <3>1. CxBusy(i)' = CxBusy(i) \cup {CxLoop} /\ CxTaken(i)'
      BY <2>1, <2>4 DEF CxBusy, CxTaken, CxDue
    <3>2. Cardinality(CxBusy(i)') = Cardinality(CxBusy(i)) + 1
      BY <2>1, <2>2, <3>1, CxBusyIsProcs, CxBusyGrows
    <3>3. cxPushed[i] \in Int /\ Cardinality(CxBusy(i)) \in Int /\ CxCounted(i)
      BY CxBusyIsProcs, CxProcsFinite DEF CxInv, ConnectorsTypeOK
    <3> QED
      BY <2>1, <2>2, <2>4, <3>1, <3>2, <3>3 DEF CxCounted, CxDue
  <2> QED
    BY <2>3, <2>4
<1> QED
  BY <1>1, <1>2, <1>3, <1>4 DEF CxInv

LEMMA CxSweepInv == ASSUME CxInv, CxSweep PROVE CxInv'
<1>1. ConnectorsTypeOK'
  <2>1. cxHeld' \in [CxProcs -> [CxJobs -> SyncJob]]
    <3>1. PICK j \in CxJobs :
            \/ cxHeld' = cxHeld
            \/ cxHeld' = [cxHeld EXCEPT ![CxLoop][j] =
                                [cxHeld[CxLoop][j] EXCEPT !.status = "skipped"]]
      BY DEF CxSweep
    <3>2. CxLoop \in CxProcs /\ [cxHeld[CxLoop][j] EXCEPT !.status = "skipped"] \in SyncJob
      <4>1. CxLoop \in CxProcs /\ cxHeld[CxLoop][j] \in SyncJob
        BY DEF CxInv, ConnectorsTypeOK, CxProcs
      <4> QED
        BY <4>1 DEF SyncJob, JobStatus
    <3> QED
      BY <3>1, <3>2, CxHeldTyped DEF CxInv, ConnectorsTypeOK
  <2> QED
    BY <2>1 DEF CxInv, ConnectorsTypeOK, Connector, CxPC, CxProcs, CxSweep, CxGetConn
<1>2. CxPlaces'
  <2>1. PICK j \in CxJobs :
          /\ cxHeld[CxLoop][j] # CxAbsent
          /\ cxCur' = [cxCur EXCEPT ![CxLoop] = j]
          /\ IF cxConn = "enabled"
             THEN cxPc' = [cxPc EXCEPT ![CxLoop] = "push"] /\ UNCHANGED cxHeld
             ELSE /\ cxPc' = [cxPc EXCEPT ![CxLoop] = "save"]
                  /\ cxHeld' = [cxHeld EXCEPT ![CxLoop][j].status = "skipped"]
    BY DEF CxSweep
  <2>2. /\ CxLoop \in CxProcs /\ cxPc[CxLoop] = "sweep" /\ cxCur[CxLoop] = CxNoJob
        /\ cxHeld[CxLoop][j].status = "retry"
        /\ cxHeldConn' = [cxHeldConn EXCEPT ![CxLoop] = cxConn] /\ UNCHANGED cxJob
    BY <2>1 DEF CxSweep, CxGetConn, CxInv, CxPlaces, CxProcs
  <2>3. /\ \A q \in CxProcs \ {CxLoop} :
             cxHeld'[q] = cxHeld[q] /\ cxPc'[q] = cxPc[q] /\ cxCur'[q] = cxCur[q]
        /\ cxCur'[CxLoop] = j
        /\ \A i \in CxJobs \ {j} : cxHeld'[CxLoop][i] = cxHeld[CxLoop][i]
        /\ cxPc'[CxLoop] = IF cxConn = "enabled" THEN "push" ELSE "save"
        /\ cxConn = "enabled" => cxHeld'[CxLoop][j] = cxHeld[CxLoop][j]
        /\ cxHeldConn'[CxLoop] = cxConn
        /\ cxHeld'[CxLoop][j].status \in {"retry", "skipped"}
    BY <2>1, <2>2 DEF CxInv, ConnectorsTypeOK, SyncJob
  <2> QED
    BY <2>1, <2>2, <2>3 DEF CxInv, CxPlaces
<1>3. CxOwners'
  BY DEF CxInv, ConnectorsTypeOK, CxOwners, CxPC, CxPlaces, CxProcs, CxSweep, CxGetConn
<1>4. \A i \in CxJobs : CxCounted(i)'
  <2>1. PICK j \in CxJobs :
          /\ cxHeld[CxLoop][j] # CxAbsent
          /\ cxCur' = [cxCur EXCEPT ![CxLoop] = j]
          /\ IF cxConn = "enabled"
             THEN cxPc' = [cxPc EXCEPT ![CxLoop] = "push"] /\ UNCHANGED cxHeld
             ELSE /\ cxPc' = [cxPc EXCEPT ![CxLoop] = "save"]
                  /\ cxHeld' = [cxHeld EXCEPT ![CxLoop][j].status = "skipped"]
    BY DEF CxSweep
  <2>2. /\ CxLoop \in CxProcs /\ cxCur[CxLoop] = CxNoJob /\ cxHeld[CxLoop][j].status = "retry"
        /\ UNCHANGED <<cxJob, cxPushed, cxFresh>>
    BY <2>1 DEF CxSweep, CxInv, CxPlaces, CxProcs
  <2>3. /\ \A q \in CxProcs \ {CxLoop} :
             cxHeld'[q] = cxHeld[q] /\ cxPc'[q] = cxPc[q] /\ cxCur'[q] = cxCur[q]
        /\ cxCur'[CxLoop] = j
        /\ \A i \in CxJobs \ {j} : cxHeld'[CxLoop][i] = cxHeld[CxLoop][i]
    BY <2>1, <2>2 DEF CxInv, ConnectorsTypeOK
  <2>4. ASSUME NEW i \in CxJobs \ {j} PROVE CxCounted(i)'
    BY <2>2, <2>3, CxOthersKept
  <2>5. CASE cxConn = "enabled"
    <3>1. CxBusy(j)' = CxBusy(j) /\ CxTaken(j)' = CxTaken(j)
      BY <2>1, <2>2, <2>3, <2>5 DEF CxBusy, CxTaken
    <3> QED
      BY <2>2, <2>4, <3>1, CxCountKept DEF CxInv
  <2>6. CASE cxConn # "enabled"
    <3>1. cxHeld'[CxLoop][j].status = "skipped" /\ cxPc'[CxLoop] = "save"
      BY <2>1, <2>2, <2>6 DEF CxInv, ConnectorsTypeOK, SyncJob
    <3>2. CxBusy(j)' = CxBusy(j) \ {CxLoop} /\ CxLoop \in CxBusy(j)
      BY <2>2, <2>3, <3>1 DEF CxBusy
    <3>3. Cardinality(CxBusy(j)') = Cardinality(CxBusy(j)) - 1
      BY <3>2, CxBusyIsProcs, CxBusyShrinks
    <3>4. cxPushed[j] \in Int /\ Cardinality(CxBusy(j)) \in Int /\ CxCounted(j)
      BY CxBusyIsProcs, CxProcsFinite DEF CxInv, ConnectorsTypeOK
    <3>5. CxCounted(j)'
      BY <2>2, <3>3, <3>4 DEF CxCounted
    <3> QED
      BY <2>4, <3>5
  <2> QED
    BY <2>5, <2>6
<1> QED
  BY <1>1, <1>2, <1>3, <1>4 DEF CxInv

LEMMA CxSweepEndsInv == ASSUME CxInv, CxSweepEnds PROVE CxInv'
<1>1. ConnectorsTypeOK'
  BY DEF CxInv, ConnectorsTypeOK, Connector, JobStatus, SyncJob, CxAbsent, CxQueued, CxPC,
         CxProcs, CxSweepEnds, cxGhost
<1>2. CxPlaces'
  BY DEF CxInv, ConnectorsTypeOK, CxPlaces, CxAbsent, CxQueued, SyncJob, Connector,
         CxProcs, CxSweepEnds, cxGhost
<1>3. CxOwners'
  BY DEF CxInv, ConnectorsTypeOK, CxOwners, CxPC, CxPlaces, CxProcs, CxSweepEnds, cxGhost
<1>4. \A i \in CxJobs : CxCounted(i)'
  <2>1. \A q \in CxProcs : cxPc'[q] = "push" <=> cxPc[q] = "push"
    BY DEF CxSweepEnds, cxGhost, CxInv, ConnectorsTypeOK, CxProcs
  <2> QED
    BY <2>1, CxCountsKept DEF CxSweepEnds, cxGhost
<1> QED
  BY <1>1, <1>2, <1>3, <1>4 DEF CxInv

LEMMA CxTickInv == ASSUME CxInv, NEW j \in CxJobs, CxTick(j) PROVE CxInv'
<1>1. ConnectorsTypeOK'
  <2>1. [cxJob[j] EXCEPT !.due = TRUE] \in SyncJob
    <3>1. cxJob[j] \in SyncJob
      BY DEF CxInv, ConnectorsTypeOK
    <3> QED
      BY <3>1 DEF SyncJob
  <2>2. cxJob' \in [CxJobs -> SyncJob]
    BY <2>1 DEF CxTick, CxInv, ConnectorsTypeOK
  <2> QED
    BY <2>2 DEF CxTick, cxLocal, cxGhost, CxInv, ConnectorsTypeOK
<1>2. CxPlaces'
  BY DEF CxInv, ConnectorsTypeOK, CxPlaces, CxAbsent, CxQueued, SyncJob, Connector,
         CxProcs, CxTick, cxLocal, cxGhost
<1>3. CxOwners'
  BY DEF CxInv, ConnectorsTypeOK, CxOwners, CxPC, CxPlaces, CxProcs, CxTick, cxLocal,
         cxGhost
<1>4. \A i \in CxJobs : CxCounted(i)'
  <2> TAKE i \in CxJobs
  <2>1. cxJob'[i].status = cxJob[i].status
    BY DEF CxTick, CxInv, ConnectorsTypeOK, SyncJob
  <2>2. CxBusy(i)' = CxBusy(i) /\ CxTaken(i)' = CxTaken(i) /\ cxPushed' = cxPushed
    BY DEF CxTick, cxLocal, cxGhost, CxBusy, CxTaken
  <2> QED
    BY <2>1, <2>2, CxCountKept DEF CxInv
<1> QED
  BY <1>1, <1>2, <1>3, <1>4 DEF CxInv

LEMMA CxPushInv == ASSUME CxInv, NEW p \in CxProcs, CxPush(p) PROVE CxInv'
<1>1. ConnectorsTypeOK'
  <2> DEFINE next == [CxMine(p) EXCEPT !.attempts = @ + 1]
  <2>1. cxCur[p] \in CxJobs /\ CxMine(p) \in SyncJob
    BY DEF CxPush, CxMine, CxInv, ConnectorsTypeOK, CxPlaces
  <2>2. next \in SyncJob
    BY <2>1 DEF SyncJob
  <2>3. [next EXCEPT !.status = "sent", !.due = FALSE] \in SyncJob /\ CxAfterFailure(next) \in SyncJob
    <3> HIDE DEF next
    <3> QED
      BY <2>2 DEF CxAfterFailure, SyncJob, JobStatus
  <2>4. cxHeld' \in [CxProcs -> [CxJobs -> SyncJob]]
    BY <2>3, CxHeldTyped DEF CxPush, CxInv
  <2>5. cxPushed' \in [CxJobs -> Int] /\ cxMoves' \in Nat
    BY <2>1 DEF CxPush, CxMove, CxInv, ConnectorsTypeOK
  <2> QED
    BY <2>4, <2>5 DEF CxInv, ConnectorsTypeOK, Connector, CxPC, CxPush
<1>2. CxPlaces'
  <2>0. PICK j \in CxJobs : cxCur[p] = j
    BY DEF CxPush, CxInv, CxPlaces
  <2> DEFINE one == IF <<p, j>> \in cxFresh THEN 1 ELSE 0
  <2>1. /\ cxPc[p] = "push" /\ cxPc' = [cxPc EXCEPT ![p] = "mark"]
        /\ UNCHANGED <<cxJob, cxCur, cxFresh>>
        /\ p = CxLoop => cxHeld[p][j].status = "retry"
    BY <2>0 DEF CxPush, CxInv, CxPlaces
  <2>2. PICK job : /\ cxHeld' = [cxHeld EXCEPT ![p][j] = job]
                   /\ \/ job.status = "sent" /\ cxPushed' = [cxPushed EXCEPT ![j] = @ + one]
                      \/ job.status \in {"retry", "failed"} /\ UNCHANGED cxPushed
    <3> DEFINE next == [CxMine(p) EXCEPT !.attempts = @ + 1]
               done == [next EXCEPT !.status = "sent", !.due = FALSE]
               again == CxAfterFailure(next)
    <3>1. next \in SyncJob
      <4>1. CxMine(p) \in SyncJob
        BY <2>0 DEF CxMine, CxInv, ConnectorsTypeOK
      <4> QED
        BY <4>1 DEF SyncJob
    <3>2. done.status = "sent" /\ again.status \in {"retry", "failed"}
      <4> HIDE DEF next
      <4> QED
        BY <3>1 DEF CxAfterFailure, SyncJob
    <3>3. \/ cxHeld' = [cxHeld EXCEPT ![p][j] = done] /\ cxPushed' = [cxPushed EXCEPT ![j] = @ + one]
          \/ cxHeld' = [cxHeld EXCEPT ![p][j] = again] /\ UNCHANGED cxPushed
      BY <2>0 DEF CxPush
    <3> QED
      BY <3>2, <3>3
  <2>3. /\ \A q \in CxProcs \ {p} : cxHeld'[q] = cxHeld[q] /\ cxPc'[q] = cxPc[q]
        /\ \A i \in CxJobs \ {j} : cxHeld'[p][i] = cxHeld[p][i] /\ cxPushed'[i] = cxPushed[i]
        /\ cxHeld'[p][j] = job /\ cxPc'[p] = "mark"
    BY <2>0, <2>1, <2>2 DEF CxInv, ConnectorsTypeOK
  <2>4. job.status \in {"sent", "retry", "failed"} /\ UNCHANGED cxHeldConn
    BY <2>2 DEF CxPush
  <2> QED
    BY <2>0, <2>1, <2>3, <2>4 DEF CxInv, CxPlaces, CxProcs, CxAbsent
<1>3. CxOwners'
  BY DEF CxInv, ConnectorsTypeOK, CxOwners, CxPC, CxPlaces, CxProcs, CxPush, CxMove,
         CxMine, CxAfterFailure
<1>4. \A i \in CxJobs : CxCounted(i)'
  <2>0. PICK j \in CxJobs : cxCur[p] = j
    BY DEF CxPush, CxInv, CxPlaces
  <2> DEFINE one == IF <<p, j>> \in cxFresh THEN 1 ELSE 0
  <2>1. /\ cxPc[p] = "push" /\ cxPc' = [cxPc EXCEPT ![p] = "mark"]
        /\ UNCHANGED <<cxJob, cxCur, cxFresh>>
        /\ p = CxLoop => cxHeld[p][j].status = "retry"
    BY <2>0 DEF CxPush, CxInv, CxPlaces
  <2>2. PICK job : /\ cxHeld' = [cxHeld EXCEPT ![p][j] = job]
                   /\ \/ job.status = "sent" /\ cxPushed' = [cxPushed EXCEPT ![j] = @ + one]
                      \/ job.status \in {"retry", "failed"} /\ UNCHANGED cxPushed
    <3> DEFINE next == [CxMine(p) EXCEPT !.attempts = @ + 1]
               done == [next EXCEPT !.status = "sent", !.due = FALSE]
               again == CxAfterFailure(next)
    <3>1. next \in SyncJob
      <4>1. CxMine(p) \in SyncJob
        BY <2>0 DEF CxMine, CxInv, ConnectorsTypeOK
      <4> QED
        BY <4>1 DEF SyncJob
    <3>2. done.status = "sent" /\ again.status \in {"retry", "failed"}
      <4> HIDE DEF next
      <4> QED
        BY <3>1 DEF CxAfterFailure, SyncJob
    <3>3. \/ cxHeld' = [cxHeld EXCEPT ![p][j] = done] /\ cxPushed' = [cxPushed EXCEPT ![j] = @ + one]
          \/ cxHeld' = [cxHeld EXCEPT ![p][j] = again] /\ UNCHANGED cxPushed
      BY <2>0 DEF CxPush
    <3> QED
      BY <3>2, <3>3
  <2>3. /\ \A q \in CxProcs \ {p} : cxHeld'[q] = cxHeld[q] /\ cxPc'[q] = cxPc[q]
        /\ \A i \in CxJobs \ {j} : cxHeld'[p][i] = cxHeld[p][i] /\ cxPushed'[i] = cxPushed[i]
        /\ cxHeld'[p][j] = job /\ cxPc'[p] = "mark"
    BY <2>0, <2>1, <2>2 DEF CxInv, ConnectorsTypeOK
  <2>4. ASSUME NEW i \in CxJobs \ {j} PROVE CxCounted(i)'
    BY <2>0, <2>1, <2>3, CxOthersKept
  <2>5. p \in CxBusy(j) /\ (p # CxLoop => CxTaken(j)' = CxTaken(j))
    BY <2>0, <2>1, <2>3 DEF CxBusy, CxTaken, CxProcs
  <2>6. cxPushed[j] \in Int /\ Cardinality(CxBusy(j)) \in Int /\ CxCounted(j)
    BY <2>1, CxBusyIsProcs, CxProcsFinite DEF CxInv, ConnectorsTypeOK
  <2>7. CASE job.status = "retry"
    <3>1. CxBusy(j)' = CxBusy(j) /\ cxPushed' = cxPushed
      BY <2>0, <2>1, <2>2, <2>3, <2>7 DEF CxBusy
    <3>2. CxTaken(j) => CxTaken(j)'
      BY <2>0, <2>1, <2>3, <2>5, <2>7 DEF CxTaken
    <3> QED
      BY <2>1, <2>4, <2>6, <3>1, <3>2, CxCountKept
  <2>8. CASE job.status \in {"sent", "failed"}
    <3>1. CxBusy(j)' = CxBusy(j) \ {p}
      BY <2>0, <2>1, <2>3, <2>8 DEF CxBusy
    <3>2. Cardinality(CxBusy(j)') = Cardinality(CxBusy(j)) - 1
      BY <2>5, <3>1, CxBusyIsProcs, CxBusyShrinks
    <3>3. CASE job.status = "failed"
      <4>1. cxPushed' = cxPushed
        BY <2>2, <3>3
      <4>2. CxCounted(j)'
        BY <2>1, <2>6, <3>2, <4>1 DEF CxCounted
      <4> QED
        BY <2>4, <4>2
    <3>4. CASE job.status = "sent"
      <4>1. cxPushed'[j] = cxPushed[j] + one
        BY <2>1, <2>2, <3>4 DEF CxInv, ConnectorsTypeOK
      <4>2. CASE <<p, j>> \in cxFresh
        <5>1. p = CxLoop => CxTaken(j)'
          BY <2>1, <2>3, <3>4, <4>2 DEF CxTaken
        <5>2. CxCounted(j)'
          BY <2>1, <2>5, <2>6, <3>2, <4>1, <4>2, <5>1 DEF CxCounted
        <5> QED
          BY <2>4, <5>2
      <4>3. CASE <<p, j>> \notin cxFresh
        <5>1. CxCounted(j)'
          BY <2>1, <2>6, <3>2, <4>1, <4>3 DEF CxCounted
        <5> QED
          BY <2>4, <5>1
      <4> QED
        BY <4>2, <4>3
    <3> QED
      BY <2>8, <3>3, <3>4
  <2> QED
    BY <2>2, <2>7, <2>8
<1> QED
  BY <1>1, <1>2, <1>3, <1>4 DEF CxInv

LEMMA CxMarkInv == ASSUME CxInv, NEW p \in CxProcs, CxMark(p) PROVE CxInv'
<1>1. ConnectorsTypeOK'
  BY DEF CxInv, ConnectorsTypeOK, Connector, JobStatus, SyncJob, CxAbsent, CxQueued, CxPC,
         CxProcs, CxMark, CxPutConn
<1>2. CxPlaces'
  BY DEF CxInv, ConnectorsTypeOK, CxPlaces, CxAbsent, CxQueued, SyncJob, Connector,
         CxProcs, CxMark, CxPutConn
<1>3. CxOwners'
  BY DEF CxInv, ConnectorsTypeOK, CxOwners, CxPC, CxPlaces, CxProcs, CxMark, CxPutConn
<1>4. \A i \in CxJobs : CxCounted(i)'
  <2>1. \A q \in CxProcs : cxPc'[q] = "push" <=> cxPc[q] = "push"
    BY DEF CxMark, CxInv, ConnectorsTypeOK, CxProcs
  <2> QED
    BY <2>1, CxCountsKept DEF CxMark
<1> QED
  BY <1>1, <1>2, <1>3, <1>4 DEF CxInv

LEMMA CxSaveInv == ASSUME CxInv, NEW p \in CxProcs, CxSave(p) PROVE CxInv'
<1>1. ConnectorsTypeOK'
  <2>1. cxCur[p] \in CxJobs /\ CxMine(p) \in SyncJob /\ CxAbsent \in SyncJob
    BY DEF CxSave, CxMine, CxInv, ConnectorsTypeOK, CxPlaces, CxAbsent, SyncJob, JobStatus
  <2>2. cxHeld' \in [CxProcs -> [CxJobs -> SyncJob]]
    BY <2>1, CxHeldTyped DEF CxSave, CxInv
  <2>3. cxJob' \in [CxJobs -> SyncJob]
    BY <2>1 DEF CxSave, CxInv, ConnectorsTypeOK
  <2> QED
    BY <2>2, <2>3 DEF CxInv, ConnectorsTypeOK, Connector, CxPC, CxSave, CxThrough
<1>2. CxPlaces'
  <2>0. PICK j \in CxJobs : cxCur[p] = j
    BY DEF CxSave, CxInv, CxPlaces
  <2>1. /\ cxPc[p] = "save" /\ cxPc'[p] = CxThrough(p) /\ cxCur'[p] = CxNoJob
        /\ cxJob'[j] = cxHeld[p][j] /\ cxHeld'[p][j] = CxAbsent
    BY <2>0 DEF CxSave, CxMine, CxInv, ConnectorsTypeOK
  <2>2. /\ \A q \in CxProcs \ {p} : /\ cxHeld'[q] = cxHeld[q] /\ cxPc'[q] = cxPc[q]
                                   /\ cxCur'[q] = cxCur[q] /\ cxHeldConn'[q] = cxHeldConn[q]
        /\ \A i \in CxJobs \ {j} : cxHeld'[p][i] = cxHeld[p][i] /\ cxJob'[i] = cxJob[i]
    BY <2>0 DEF CxSave, CxInv, ConnectorsTypeOK
  <2>3. cxPc'[CxLoop] = "push" => p # CxLoop
    BY <2>1 DEF CxThrough
  <2>4. ASSUME NEW i \in CxJobs, cxHeld'[CxLoop][i] # CxAbsent PROVE cxJob'[i] # CxAbsent
    BY <2>0, <2>1, <2>2, <2>4 DEF CxInv, CxPlaces, CxProcs, CxAbsent
  <2> QED
    BY <2>0, <2>1, <2>2, <2>3, <2>4 DEF CxInv, CxPlaces, CxThrough, CxProcs
<1>3. CxOwners'
  BY DEF CxInv, ConnectorsTypeOK, CxOwners, CxPC, CxPlaces, CxProcs, CxSave, CxMine,
         CxThrough
<1>4. \A i \in CxJobs : CxCounted(i)'
  <2>0. PICK j \in CxJobs : cxCur[p] = j
    BY DEF CxSave, CxInv, CxPlaces
  <2>1. /\ cxPc[p] = "save" /\ UNCHANGED cxPushed
        /\ cxPc'[p] \in {"idle", "sweep"} /\ cxCur'[p] = CxNoJob
        /\ cxJob'[j] = cxHeld[p][j] /\ cxHeld'[p][j] = CxAbsent
        /\ cxFresh' = cxFresh \ (CxProcs \X {j})
    BY <2>0 DEF CxSave, CxThrough, CxMine, CxInv, CxPlaces, ConnectorsTypeOK
  <2>2. /\ \A q \in CxProcs \ {p} :
             cxHeld'[q] = cxHeld[q] /\ cxPc'[q] = cxPc[q] /\ cxCur'[q] = cxCur[q]
        /\ \A i \in CxJobs \ {j} : cxHeld'[p][i] = cxHeld[p][i] /\ cxJob'[i] = cxJob[i]
    BY <2>0, <2>1 DEF CxSave, CxInv, ConnectorsTypeOK
  <2>3. ASSUME NEW i \in CxJobs \ {j} PROVE CxCounted(i)'
    BY <2>0, <2>1, <2>2, CxOthersKept
  <2>4. CxBusy(j)' = CxBusy(j) \ {p}
    BY <2>0, <2>1, <2>2 DEF CxBusy, CxAbsent
  <2>5. cxPushed[j] \in Int /\ Cardinality(CxBusy(j)) \in Int /\ CxCounted(j)
    BY <2>1, CxBusyIsProcs, CxProcsFinite DEF CxInv, ConnectorsTypeOK
  <2>6. CASE p \in CxBusy(j)
    <3>1. Cardinality(CxBusy(j)') = Cardinality(CxBusy(j)) - 1
      BY <2>4, <2>6, CxBusyIsProcs, CxBusyShrinks
    <3>2. ~CxTaken(j)' /\ (cxHeld[p][j].status = "retry" \/ cxJob'[j].status # "retry")
      BY <2>1 DEF CxTaken, CxProcs
    <3>3. CxCounted(j)'
      BY <2>1, <2>5, <3>1, <3>2 DEF CxCounted
    <3> QED
      BY <2>3, <3>3
  <2>7. CASE p \notin CxBusy(j)
    <3>1. CxBusy(j)' = CxBusy(j) /\ cxJob'[j].status # "retry"
      BY <2>1, <2>4, <2>7 DEF CxBusy
    <3>2. CxCounted(j)'
      BY <2>1, <2>5, <3>1 DEF CxCounted
    <3> QED
      BY <2>3, <3>2
  <2> QED
    BY <2>6, <2>7
<1> QED
  BY <1>1, <1>2, <1>3, <1>4 DEF CxInv

LEMMA CxRequestInv ==
  ASSUME CxInv, NEW p \in CxReqs, NEW next \in {"test", "patch", "delete"}, CxRequest(p, next)
  PROVE  CxInv'
<1>1. ConnectorsTypeOK'
  BY DEF CxInv, ConnectorsTypeOK, Connector, JobStatus, SyncJob, CxAbsent, CxQueued, CxPC,
         CxProcs, CxRequest, CxGetConn, CxMove
<1>2. CxPlaces'
  <2>1. /\ {cxPc[p], cxPc'[p]} \subseteq {"idle", "test", "patch", "delete"}
        /\ \A q \in CxProcs \ {p} : cxPc'[q] = cxPc[q]
        /\ UNCHANGED <<cxCur, cxHeld, cxJob>> /\ cxHeldConn'[CxLoop] = cxHeldConn[CxLoop]
    BY DEF CxRequest, CxGetConn, CxInv, ConnectorsTypeOK, CxProcs
  <2> QED
    BY <2>1, CxPlacesKept
<1>3. CxOwners'
  BY DEF CxInv, ConnectorsTypeOK, CxOwners, CxPC, CxPlaces, CxProcs, CxRequest, CxGetConn,
         CxMove
<1>4. \A i \in CxJobs : CxCounted(i)'
  <2>1. \A q \in CxProcs : cxPc'[q] = "push" <=> cxPc[q] = "push"
    BY DEF CxRequest, CxInv, ConnectorsTypeOK, CxProcs
  <2> QED
    BY <2>1, CxCountsKept DEF CxRequest
<1> QED
  BY <1>1, <1>2, <1>3, <1>4 DEF CxInv

LEMMA CxTestedInv == ASSUME CxInv, NEW p \in CxReqs, CxTested(p) PROVE CxInv'
<1>1. ConnectorsTypeOK'
  BY DEF CxInv, ConnectorsTypeOK, Connector, JobStatus, SyncJob, CxAbsent, CxQueued, CxPC,
         CxProcs, CxTested, CxPutConn, CxRequestEnds
<1>2. CxPlaces'
  <2>1. /\ {cxPc[p], cxPc'[p]} \subseteq {"idle", "test", "patch", "delete"}
        /\ \A q \in CxProcs \ {p} : cxPc'[q] = cxPc[q]
        /\ UNCHANGED <<cxCur, cxHeld, cxJob>> /\ cxHeldConn'[CxLoop] = cxHeldConn[CxLoop]
    BY DEF CxTested, CxRequestEnds, CxInv, ConnectorsTypeOK, CxProcs
  <2> QED
    BY <2>1, CxPlacesKept
<1>3. CxOwners'
  BY DEF CxInv, ConnectorsTypeOK, CxOwners, CxPC, CxPlaces, CxProcs, CxTested, CxPutConn,
         CxRequestEnds
<1>4. \A i \in CxJobs : CxCounted(i)'
  <2>1. \A q \in CxProcs : cxPc'[q] = "push" <=> cxPc[q] = "push"
    BY DEF CxTested, CxRequestEnds, CxInv, ConnectorsTypeOK, CxProcs
  <2> QED
    BY <2>1, CxCountsKept DEF CxTested, CxRequestEnds
<1> QED
  BY <1>1, <1>2, <1>3, <1>4 DEF CxInv

LEMMA CxPatchedInv == ASSUME CxInv, NEW p \in CxReqs, CxPatched(p) PROVE CxInv'
<1>1. ConnectorsTypeOK'
  BY DEF CxInv, ConnectorsTypeOK, Connector, JobStatus, SyncJob, CxAbsent, CxQueued, CxPC,
         CxProcs, CxPatched, CxPutConn, CxRequestEnds
<1>2. CxPlaces'
  <2>1. /\ {cxPc[p], cxPc'[p]} \subseteq {"idle", "test", "patch", "delete"}
        /\ \A q \in CxProcs \ {p} : cxPc'[q] = cxPc[q]
        /\ UNCHANGED <<cxCur, cxHeld, cxJob>> /\ cxHeldConn'[CxLoop] = cxHeldConn[CxLoop]
    BY DEF CxPatched, CxRequestEnds, CxInv, ConnectorsTypeOK, CxProcs
  <2> QED
    BY <2>1, CxPlacesKept
<1>3. CxOwners'
  BY DEF CxInv, ConnectorsTypeOK, CxOwners, CxPC, CxPlaces, CxProcs, CxPatched, CxPutConn,
         CxRequestEnds
<1>4. \A i \in CxJobs : CxCounted(i)'
  <2>1. \A q \in CxProcs : cxPc'[q] = "push" <=> cxPc[q] = "push"
    BY DEF CxPatched, CxRequestEnds, CxInv, ConnectorsTypeOK, CxProcs
  <2> QED
    BY <2>1, CxCountsKept DEF CxPatched, CxRequestEnds
<1> QED
  BY <1>1, <1>2, <1>3, <1>4 DEF CxInv

LEMMA CxDeletedInv == ASSUME CxInv, NEW p \in CxReqs, CxDeleted(p) PROVE CxInv'
<1>1. ConnectorsTypeOK'
  BY DEF CxInv, ConnectorsTypeOK, Connector, JobStatus, SyncJob, CxAbsent, CxQueued, CxPC,
         CxProcs, CxDeleted, CxRequestEnds
<1>2. CxPlaces'
  <2>1. /\ {cxPc[p], cxPc'[p]} \subseteq {"idle", "test", "patch", "delete"}
        /\ \A q \in CxProcs \ {p} : cxPc'[q] = cxPc[q]
        /\ UNCHANGED <<cxCur, cxHeld, cxJob>> /\ cxHeldConn'[CxLoop] = cxHeldConn[CxLoop]
    BY DEF CxDeleted, CxRequestEnds, CxInv, ConnectorsTypeOK, CxProcs
  <2> QED
    BY <2>1, CxPlacesKept
<1>3. CxOwners'
  BY DEF CxInv, ConnectorsTypeOK, CxOwners, CxPC, CxPlaces, CxProcs, CxDeleted,
         CxRequestEnds
<1>4. \A i \in CxJobs : CxCounted(i)'
  <2>1. \A q \in CxProcs : cxPc'[q] = "push" <=> cxPc[q] = "push"
    BY DEF CxDeleted, CxRequestEnds, CxInv, ConnectorsTypeOK, CxProcs
  <2> QED
    BY <2>1, CxCountsKept DEF CxDeleted, CxRequestEnds
<1> QED
  BY <1>1, <1>2, <1>3, <1>4 DEF CxInv

LEMMA CxRestartInv == ASSUME CxInv, CxRestart PROVE CxInv'
<1>1. ConnectorsTypeOK'
  <2>1. cxPushed' \in [CxJobs -> Int] /\ cxMoves' \in Nat
    <3>1. ASSUME NEW j \in CxJobs PROVE cxPushed'[j] \in Int
      <4> DEFINE lost == {p \in CxProcs : /\ cxCur[p] = j
                                         /\ cxPc[p] \in {"mark", "save"}
                                         /\ CxMine(p).status = "sent"
                                         /\ <<p, j>> \in cxFresh}
      <4>1. Cardinality(lost) \in Nat
        BY CxProcsFinite
      <4>2. cxPushed'[j] = cxPushed[j] - Cardinality(lost)
        BY DEF CxRestart
      <4> HIDE DEF lost
      <4> QED
        BY <4>1, <4>2 DEF CxInv, ConnectorsTypeOK
    <3>2. cxMoves' \in Nat
      BY DEF CxRestart, CxMove, CxInv, ConnectorsTypeOK
    <3> QED
      BY <3>1, <3>2 DEF CxRestart
  <2> QED
    BY <2>1 DEF CxInv, ConnectorsTypeOK, Connector, CxPC, CxRestart, SyncJob, JobStatus, CxAbsent
<1>2. CxPlaces'
  BY DEF CxInv, ConnectorsTypeOK, CxPlaces, CxAbsent, CxQueued, SyncJob, Connector,
         CxProcs, CxRestart, CxMove
<1>3. CxOwners'
  BY DEF CxInv, ConnectorsTypeOK, CxOwners, CxPC, CxPlaces, CxProcs, CxRestart, CxMove
<1>4. \A i \in CxJobs : CxCounted(i)'
  <2> TAKE j \in CxJobs
  <2> DEFINE lost == {p \in CxProcs : /\ cxCur[p] = j
                                     /\ cxPc[p] \in {"mark", "save"}
                                     /\ CxMine(p).status = "sent"
                                     /\ <<p, j>> \in cxFresh}
  <2>1. cxPushed'[j] = cxPushed[j] - Cardinality(lost) /\ UNCHANGED cxJob
    BY DEF CxRestart
  <2>2. CxBusy(j)' = {}
    BY DEF CxRestart, CxBusy, CxAbsent
  <2>3. Cardinality(CxBusy(j)') = 0
    BY <2>2, FS_EmptySet
  <2>4. Cardinality(lost) \in Nat /\ IsFiniteSet(lost)
    BY CxProcsFinite
  <2>5. cxPushed[j] \in Int /\ Cardinality(CxBusy(j)) \in Nat /\ CxCounted(j) /\ IsFiniteSet(CxBusy(j))
    BY CxBusyIsProcs, CxProcsFinite DEF CxInv, ConnectorsTypeOK
  <2>6. ASSUME CxTaken(j) PROVE Cardinality(CxBusy(j)) > 0 \/ Cardinality(lost) > 0
    <3>1. CASE cxHeld[CxLoop][j].status = "retry"
      <4>1. CxLoop \in CxBusy(j)
        BY <3>1 DEF CxBusy, CxProcs
      <4>2. Cardinality(CxBusy(j)) # 0
        BY <2>5, <4>1, FS_EmptySet
      <4> QED
        BY <2>5, <4>2
    <3>2. CASE cxHeld[CxLoop][j].status = "sent"
      <4>1. cxHeld[CxLoop][j] # CxAbsent
        BY <3>2 DEF CxAbsent
      <4>2. CxLoop \in CxProcs /\ cxCur[CxLoop] = j /\ cxPc[CxLoop] \in {"mark", "save"}
        BY <3>2, <4>1 DEF CxInv, CxPlaces, CxProcs
      <4>3. CxLoop \in lost
        BY <2>6, <3>2, <4>2 DEF CxTaken, CxMine
      <4>4. Cardinality(lost) # 0
        BY <2>4, <4>3, FS_EmptySet
      <4> QED
        BY <2>4, <4>4
    <3> QED
      BY <2>6, <3>1, <3>2 DEF CxTaken
  <2> HIDE DEF lost
  <2>7. cxPushed'[j] + 0 <= 1
    BY <2>1, <2>4, <2>5 DEF CxCounted
  <2>8. cxJob[j].status = "retry" => cxPushed'[j] + 0 <= 0
    BY <2>1, <2>4, <2>5, <2>6 DEF CxCounted
  <2> QED
    BY <2>1, <2>3, <2>7, <2>8 DEF CxCounted
<1> QED
  BY <1>1, <1>2, <1>3, <1>4 DEF CxInv

LEMMA CxOtherInv == ASSUME CxInv, CxOther PROVE CxInv'
<1>1. ConnectorsTypeOK'
  BY CxMadeTyped DEF CxInv, ConnectorsTypeOK, CxOther, cxLocal, cxGhost
<1>2. CxPlaces'
  BY DEF CxInv, ConnectorsTypeOK, CxPlaces, CxAbsent, CxQueued, SyncJob, Connector,
         CxProcs, CxOther, cxLocal, cxGhost
<1>3. CxOwners'
  BY DEF CxInv, ConnectorsTypeOK, CxOwners, CxPC, CxPlaces, CxProcs, CxOther,
         cxLocal, cxGhost
<1>4. \A i \in CxJobs : CxCounted(i)'
  <2>1. \A q \in CxProcs : cxPc'[q] = "push" <=> cxPc[q] = "push"
    BY DEF CxOther, cxLocal, cxGhost, CxInv, ConnectorsTypeOK, CxProcs
  <2> QED
    BY <2>1, CxCountsKept DEF CxOther, cxLocal, cxGhost
<1> QED
  BY <1>1, <1>2, <1>3, <1>4 DEF CxInv

LEMMA CxStutterInv == ASSUME CxInv, UNCHANGED connectorsVars PROVE CxInv'
<1>1. ConnectorsTypeOK'
  BY DEF CxInv, ConnectorsTypeOK, Connector, JobStatus, SyncJob, CxAbsent, CxQueued, CxPC,
         CxProcs, connectorsVars, cxLocal, cxGhost
<1>2. CxPlaces'
  BY DEF CxInv, ConnectorsTypeOK, CxPlaces, CxAbsent, CxQueued, SyncJob, Connector,
         CxProcs, connectorsVars, cxLocal, cxGhost
<1>3. CxOwners'
  BY DEF CxInv, ConnectorsTypeOK, CxOwners, CxPC, CxPlaces, CxProcs, connectorsVars,
         cxLocal, cxGhost
<1>4. \A i \in CxJobs : CxCounted(i)'
  <2>1. \A q \in CxProcs : cxPc'[q] = "push" <=> cxPc[q] = "push"
    BY DEF connectorsVars, cxLocal, cxGhost, CxInv, ConnectorsTypeOK, CxProcs
  <2> QED
    BY <2>1, CxCountsKept DEF connectorsVars, cxLocal, cxGhost
<1> QED
  BY <1>1, <1>2, <1>3, <1>4 DEF CxInv

LEMMA CxInitInv == ConnectorsInit => CxInv
<1> SUFFICES ASSUME ConnectorsInit PROVE CxInv
  OBVIOUS
<1>1. ConnectorsTypeOK
  <2>1. CxAbsent \in SyncJob
    BY DEF CxAbsent, SyncJob, JobStatus
  <2> QED
    <3>1. cxJob \in [CxJobs -> SyncJob] /\ cxHeld \in [CxProcs -> [CxJobs -> SyncJob]]
      BY <2>1 DEF ConnectorsInit
    <3>2. /\ cxPushed \in [CxJobs -> Int] /\ cxMoves \in Nat
          /\ cxNewer \in [CxJobs -> 0 .. CxLimit]
      BY DEF ConnectorsInit
    <3> QED
      BY <3>1, <3>2 DEF ConnectorsInit, ConnectorsTypeOK, Connector, CxPC
<1>2. CxPlaces /\ CxOwners
  BY DEF ConnectorsInit, CxPlaces, CxOwners, CxProcs
<1>3. ASSUME NEW j \in CxJobs PROVE CxCounted(j)
  <2>1. CxBusy(j) = {}
    BY DEF ConnectorsInit, CxBusy, CxAbsent
  <2> QED
    BY <2>1, FS_EmptySet DEF ConnectorsInit, CxCounted
<1> QED
  BY <1>1, <1>2, <1>3 DEF CxInv

LEMMA CxNextInv == CxInv /\ [ConnectorsNext]_connectorsVars => CxInv'
<1> SUFFICES ASSUME CxInv, [ConnectorsNext]_connectorsVars PROVE CxInv'
  OBVIOUS
<1>1. CASE CxSweeping
  BY <1>1, CxListInv, CxSweepInv, CxSweepEndsInv, CxPushInv, CxMarkInv, CxSaveInv
  DEF CxSweeping, CxProcs
<1>2. ASSUME NEW p \in CxReqs, CxDispatch(p) \/ CxServing(p) PROVE CxInv'
  BY <1>2, CxDispatchInv, CxPushInv, CxMarkInv, CxSaveInv, CxTestedInv, CxPatchedInv, CxDeletedInv
  DEF CxServing, CxProcs
<1>3. ASSUME NEW p \in CxReqs, NEW j \in CxJobs, CxRetry(p, j) PROVE CxInv'
  BY <1>3, CxRetryInv
<1>4. ASSUME NEW p \in CxReqs, NEW next \in {"test", "patch", "delete"}, CxRequest(p, next)
      PROVE  CxInv'
  BY <1>4, CxRequestInv
<1>5. ASSUME NEW j \in CxJobs, CxTick(j) PROVE CxInv'
  BY <1>5, CxTickInv
<1>6. CASE CxOther \/ CxRestart \/ UNCHANGED connectorsVars
  BY <1>6, CxOtherInv, CxRestartInv, CxStutterInv
<1> QED
  BY <1>1, <1>2, <1>3, <1>4, <1>5, <1>6 DEF ConnectorsNext

LEMMA CxSpecInv == ConnectorsSpec => []CxInv
<1> QED
  BY CxInitInv, CxNextInv, PTL DEF ConnectorsSpec

\* The types of the connector, its jobs and of the copies of them that the loop and the
\* requests have (ConnectorService, RetryLoop).
THEOREM ConnectorsTypeCorrect == ConnectorsSpec => []ConnectorsTypeOK
<1>1. CxInv => ConnectorsTypeOK
  BY DEF CxInv
<1> QED
  BY <1>1, CxSpecInv, PTL

\* However many jobs and requests there are: an event reaches the other system once, but
\* for the excuses SyncFaithful names, what the owner did to a connector stands unless an
\* older copy was saved over it, and the loop starts no push for one that is off
\* (run_job, retry_due, _mark).
THEOREM SyncAlwaysFaithful == ConnectorsSpec => []SyncFaithful
<1>1. CxInv => SyncFaithful
  <2> SUFFICES ASSUME CxInv PROVE SyncFaithful
    OBVIOUS
  <2>1. ASSUME NEW j \in CxJobs PROVE cxPushed[j] <= 1
    <3>1. cxPushed[j] \in Int /\ Cardinality(CxBusy(j)) \in Nat /\ CxCounted(j)
      BY CxBusyIsProcs, CxProcsFinite DEF CxInv, ConnectorsTypeOK
    <3> QED
      BY <3>1 DEF CxCounted
  <2>2. cxPc[CxLoop] = "push" /\ CxLoop \in cxFreshConn => cxConn = "enabled"
    BY DEF CxInv, CxOwners, CxPlaces, CxPC
  <2> QED
    BY <2>1, <2>2 DEF SyncFaithful, CxInv, CxOwners
<1> QED
  BY <1>1, CxSpecInv, PTL

HIDE ConnectorsAssumption

-------------------------------------------------------------------------------
(* Both together: the composed specification implements each of the two, so what was *)
(* proved of the one alone holds of it among the other's steps.                      *)

LEMMA LoopsStep ==
  ASSUME [LoopsNext]_loopsVars
  PROVE  [ConnectorsNext]_connectorsVars /\ [NumbersNext]_numbersVars
<1>1. CASE OfConnectors(ConnectorsNext)
  BY <1>1 DEF OfConnectors
<1>2. CASE OfNumbers(NumbersNext)
  BY <1>2 DEF OfNumbers
<1>3. CASE UNCHANGED loopsVars
  BY <1>3 DEF loopsVars
<1> QED
  BY <1>1, <1>2, <1>3 DEF LoopsNext

\* A behaviour of the two services side by side is one of each of them: neither's steps
\* can be seen in what the other keeps.
THEOREM LoopsImplement == LoopsSpec => ConnectorsSpec /\ NumbersSpec
<1>1. LoopsInit => ConnectorsInit /\ NumbersInit
  BY DEF LoopsInit
<1>2. [LoopsNext]_loopsVars => [ConnectorsNext]_connectorsVars /\ [NumbersNext]_numbersVars
  BY LoopsStep
<1> QED
  BY <1>1, <1>2, PTL DEF LoopsSpec, ConnectorsSpec, NumbersSpec

\* The types of both services' state, in every state of the two together.
THEOREM LoopsTypeCorrect == LoopsSpec => []LoopsTypeOK
  BY LoopsImplement, ConnectorsTypeCorrect, NumbersTypeCorrect, PTL DEF LoopsTypeOK

\* And what each of them promises: an event is taken once and the owner's switch stands,
\* and a number that is paid for has one owner (ConnectorService, BillingService).
THEOREM LoopsKeepPromises == LoopsSpec => [](SyncFaithful /\ NumberHasOneOwner)
  BY LoopsImplement, SyncAlwaysFaithful, NumberAlwaysHasOneOwner, PTL

===============================================================================
