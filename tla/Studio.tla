--------------------------------- MODULE Studio ---------------------------------
(* An assistant's configuration: its versions (db/postgres.py), those who change   *)
(* it (routes/dashboard.py, improve.py, qa.py) and the copy the workers cache       *)
(* (config_client.py).                                                             *)
(*                                                                                 *)
(* Whoever changes it reads it whole and puts it back whole.  Of all that is in    *)
(* it, three things are followed: how often the text of one proposal is in it, a   *)
(* number that is blocked, and whether the assistant speaks with one cloned voice. *)
(* apply_insight, the advisor, the FAQs of a document and the sites change it in   *)
(* the way block_caller does.                                                      *)
EXTENDS Integers

CONSTANTS
  StReqs,   \* requests under way at a time
  StTtl,    \* config_cache_ttl_s
  StClock,  \* bound on the clock
  StMoves   \* bound: requests begun, and restarts

ASSUME StudioAssumption == StTtl \in Nat \ {0} /\ StClock \in Nat /\ StMoves \in Nat

VARIABLES
  stVersions,  \* assistant_versions: the configurations, in order
  stProposal,  \* status of the proposal
  stClone,     \* status of the cloned voice
  stVoice,     \* the provider has it
  stCache,     \* the workers' copy: a version, and until when
  stFetch,     \* what a worker has fetched and not cached yet
  stNow,
  stPc, stOp,
  stHeld       \* the configuration an operation works on, and the version it was

\* Counter of the bounds, and history for the properties.
VARIABLES
  stMoves,
  stEnded,    \* when each version was replaced
  stTold,     \* latest version of which the cache was told
  stLate,     \* it was told while a worker was fetching
  stTorn,     \* a copy was written over a newer version
  stCrossed,  \* two decisions on the proposal, or on the voice, overlapped
  stCut,      \* a restart cut an operation
  stRolled,   \* an earlier version was published again
  stUndone    \* the proposal was rejected after it was approved

stLocal == <<stPc, stOp, stHeld>>
stGhost == <<stEnded, stTold, stLate, stTorn, stCrossed, stCut, stRolled, stUndone>>
stStore == <<stVersions, stProposal, stClone, stVoice, stCache, stFetch, stNow>>
studioVars == <<stStore, stLocal, stMoves, stGhost>>

StConfig == [fix: Nat, blocked: BOOLEAN, cloned: BOOLEAN]
StNone == 0
StNoCache == [version |-> StNone, until |-> 0]
StNothing == [version |-> StNone, config |-> [fix |-> 0, blocked |-> FALSE, cloned |-> FALSE]]
StOps == {"block", "studio", "approve", "activate", "delete"}
StPC == {"idle", "voice", "read", "write", "tell", "save", "file"}

StVersion == CHOOSE v \in DOMAIN stVersions : v + 1 \notin DOMAIN stVersions

StudioInit ==
  /\ stVersions = [v \in {1} |-> StNothing.config]
  /\ stProposal = "proposed"
  /\ stClone = "ready" /\ stVoice = TRUE
  /\ stCache = StNoCache /\ stFetch = StNone
  /\ stNow = 0
  /\ stPc = [p \in StReqs |-> "idle"]
  /\ stOp = [p \in StReqs |-> "none"]
  /\ stHeld = [p \in StReqs |-> StNothing]
  /\ stMoves = 0
  /\ stEnded = [v \in {} |-> 0]
  /\ stTold = StNone
  /\ stLate = FALSE /\ stTorn = FALSE /\ stCrossed = FALSE /\ stCut = FALSE
  /\ stRolled = FALSE /\ stUndone = FALSE

-------------------------------------------------------------------------------
(* Requests.                                                                    *)

StGoto(p, next) ==
  /\ stPc' = [stPc EXCEPT ![p] = next]
  /\ stOp' = IF next = "idle" THEN [stOp EXCEPT ![p] = "none"] ELSE stOp
  /\ stHeld' = IF next = "idle" THEN [stHeld EXCEPT ![p] = StNothing] ELSE stHeld

StMove ==
  /\ stMoves < StMoves
  /\ stMoves' = stMoves + 1

\* upsert_assistant: a new version, in one transaction.
StPublish(config) ==
  /\ stVersions' = [v \in DOMAIN stVersions \cup {StVersion + 1} |->
                      IF v \in DOMAIN stVersions THEN stVersions[v] ELSE config]
  /\ stEnded' = [v \in DOMAIN stVersions |-> IF v = StVersion THEN stNow ELSE stEnded[v]]

\* Two decisions that are about the same thing.
StCross(op, other) ==
  {op, other} = {"approve"} \/ {op, other} = {"activate", "delete"}

StBegin(p, op, next) ==
  /\ stPc[p] = "idle"
  /\ StMove
  /\ stPc' = [stPc EXCEPT ![p] = next]
  /\ stOp' = [stOp EXCEPT ![p] = op]
  /\ stCrossed' = (stCrossed \/ \E q \in StReqs : StCross(op, stOp[q]))
  /\ UNCHANGED <<stStore, stHeld, stEnded, stTold, stLate, stTorn, stCut, stRolled, stUndone>>

\* block_caller; or the Studio, which a person has open and which saves with the
\* number of the assistant, at once or when the tests allow it.
StBlock(p) == StBegin(p, "block", "read")
StStudio(p) == StBegin(p, "studio", "read")

\* Mutant: the status of the proposal is not looked at.
StApproveAgain(p) == StBegin(p, "approve", "read")

\* approve: a proposal nobody has decided on.
StApprove(p) ==
  /\ stProposal = "proposed"
  /\ StBegin(p, "approve", "read")

\* VoiceCloneService.activate and delete.
StActivate(p) ==
  /\ stClone = "ready"
  /\ StBegin(p, "activate", "read")

StDelete(p) ==
  /\ stClone = "ready"
  /\ StBegin(p, "delete", "voice")

\* The provider deletes the voice; what it raises is only logged.
StDeleteVoice(p) ==
  /\ stPc[p] = "voice"
  /\ stVoice' \in {stVoice, FALSE}
  /\ StGoto(p, "read")
  /\ UNCHANGED <<stVersions, stProposal, stClone, stCache, stFetch, stNow, stMoves, stGhost>>

\* get_assistant.  A deleted voice the assistant does not use leaves it as it is.
StRead(p) ==
  /\ stPc[p] = "read"
  /\ LET config == stVersions[StVersion] IN
     /\ stHeld' = [stHeld EXCEPT ![p] = [version |-> StVersion, config |-> config]]
     /\ stPc' = [stPc EXCEPT ![p] =
                   IF stOp[p] = "delete" /\ ~config.cloned THEN "file" ELSE "write"]
  /\ UNCHANGED <<stStore, stOp, stMoves, stGhost>>

\* What an operation makes of the configuration it read.
StChanged(op, config) ==
  CASE op \in {"block", "studio"} -> [config EXCEPT !.blocked = ~@]
    [] op = "approve" -> [config EXCEPT !.fix = @ + 1]
    [] op = "activate" -> [config EXCEPT !.cloned = TRUE]
    [] op = "delete" -> [config EXCEPT !.cloned = FALSE]

StWrite(p) ==
  /\ stPc[p] = "write"
  /\ StPublish(StChanged(stOp[p], stHeld[p].config))
  /\ stTorn' = (stTorn \/ stHeld[p].version # StVersion)
  /\ IF stOp[p] = "studio"
     THEN /\ stPc' = [stPc EXCEPT ![p] = "tell"]
          /\ stHeld' = [stHeld EXCEPT ![p].version = StVersion + 1]
          /\ UNCHANGED stOp
     ELSE StGoto(p, CASE stOp[p] = "approve" -> "save"
                      [] stOp[p] = "delete" -> "file"
                      [] OTHER -> "idle")
  /\ UNCHANGED <<stProposal, stClone, stVoice, stCache, stFetch, stNow, stMoves, stTold, stLate,
                 stCrossed, stCut, stRolled, stUndone>>

\* publish: the tests of the candidate fail, and nobody forces it.
StBlocked(p) ==
  /\ stPc[p] = "write" /\ stOp[p] = "studio"
  /\ StGoto(p, "idle")
  /\ UNCHANGED <<stStore, stMoves, stGhost>>

\* The cached copy of the numbers that came with the new version is dropped, if
\* Redis answers.
StTell(p) ==
  /\ stPc[p] = "tell"
  /\ \/ /\ stCache' = StNoCache
        /\ stTold' = IF stTold < stHeld[p].version THEN stHeld[p].version ELSE stTold
        /\ stLate' = (stLate \/ stFetch # StNone)
     \/ UNCHANGED <<stCache, stTold, stLate>>
  /\ StGoto(p, "idle")
  /\ UNCHANGED <<stVersions, stProposal, stClone, stVoice, stFetch, stNow, stMoves, stEnded, stTorn,
                 stCrossed, stCut, stRolled, stUndone>>

\* approve puts its copy of the proposal;
StSave(p) ==
  /\ stPc[p] = "save"
  /\ stProposal' = "approved"
  /\ StGoto(p, "idle")
  /\ UNCHANGED <<stVersions, stClone, stVoice, stCache, stFetch, stNow, stMoves, stGhost>>

\* delete that of the voice.
StFile(p) ==
  /\ stPc[p] = "file"
  /\ stClone' = "deleted"
  /\ StGoto(p, "idle")
  /\ UNCHANGED <<stVersions, stProposal, stVoice, stCache, stFetch, stNow, stMoves, stGhost>>

\* reject: whatever was decided before.
StReject ==
  /\ stProposal # "rejected"
  /\ StMove
  /\ stProposal' = "rejected"
  /\ stUndone' = (stUndone \/ stProposal = "approved")
  /\ stCrossed' = (stCrossed \/ \E q \in StReqs : stOp[q] = "approve")
  /\ UNCHANGED <<stVersions, stClone, stVoice, stCache, stFetch, stNow, stLocal, stEnded, stTold,
                 stLate, stTorn, stCut, stRolled>>

\* rollback_version: an earlier version, which never changes, becomes the latest.
StRollback(v) ==
  /\ v \in DOMAIN stVersions \ {StVersion}
  /\ StMove
  /\ StPublish(stVersions[v])
  /\ stRolled' = TRUE
  /\ UNCHANGED <<stProposal, stClone, stVoice, stCache, stFetch, stNow, stLocal, stTold, stLate,
                 stTorn, stCrossed, stCut, stUndone>>

\* The API process stops.
StRestart ==
  /\ \E p \in StReqs : stPc[p] # "idle"
  /\ StMove
  /\ stPc' = [p \in StReqs |-> "idle"]
  /\ stOp' = [p \in StReqs |-> "none"]
  /\ stHeld' = [p \in StReqs |-> StNothing]
  /\ stCut' = TRUE
  /\ UNCHANGED <<stStore, stEnded, stTold, stLate, stTorn, stCrossed, stRolled, stUndone>>

-------------------------------------------------------------------------------
(* The workers.                                                                 *)

StCached == stCache.version # StNone /\ stNow < stCache.until

\* resolve: nothing is cached, so the worker asks the API.
StResolve ==
  /\ ~StCached
  /\ stFetch = StNone
  /\ stFetch' = StVersion
  /\ UNCHANGED <<stVersions, stProposal, stClone, stVoice, stCache, stNow, stLocal, stMoves, stGhost>>

\* Mutant: an entry that does not expire.
StForGood(now) == StClock + 1

StUntil(now) == now + StTtl

\* What it was told is cached, unless Redis does not answer.
StSet ==
  /\ stFetch # StNone
  /\ stCache' \in {stCache, [version |-> stFetch, until |-> StUntil(stNow)]}
  /\ stFetch' = StNone
  /\ UNCHANGED <<stVersions, stProposal, stClone, stVoice, stNow, stLocal, stMoves, stGhost>>

\* A while goes by; a fetch gives up long before.
StTick ==
  /\ stNow < StClock
  /\ stFetch = StNone
  /\ stNow' = stNow + 1
  /\ stCache' = IF stNow + 1 < stCache.until THEN stCache ELSE StNoCache
  /\ UNCHANGED <<stVersions, stProposal, stClone, stVoice, stFetch, stLocal, stMoves, stGhost>>

StudioNext ==
  \/ \E p \in StReqs : \/ StBlock(p) \/ StStudio(p) \/ StApprove(p) \/ StActivate(p) \/ StDelete(p)
                       \/ StDeleteVoice(p) \/ StRead(p) \/ StWrite(p) \/ StBlocked(p)
                       \/ StTell(p) \/ StSave(p) \/ StFile(p)
  \/ StReject
  \/ \E v \in DOMAIN stVersions : StRollback(v)
  \/ StRestart
  \/ StResolve
  \/ StSet
  \/ StTick

StudioSpec == StudioInit /\ [][StudioNext]_studioVars

-------------------------------------------------------------------------------
(* Properties.                                                                  *)

StudioTypeOK ==
  /\ DOMAIN stVersions = 1 .. StVersion
  /\ \A v \in DOMAIN stVersions : stVersions[v] \in StConfig
  /\ stProposal \in {"proposed", "approved", "rejected"}
  /\ stClone \in {"ready", "deleted"} /\ stVoice \in BOOLEAN
  /\ stCache \in [version: Nat, until: Nat] /\ stFetch \in Nat /\ stNow \in Nat
  /\ stPc \in [StReqs -> StPC]
  /\ stOp \in [StReqs -> StOps \cup {"none"}]
  /\ stHeld \in [StReqs -> [version: Nat, config: StConfig]]
  /\ stMoves \in Nat
  /\ stEnded \in [1 .. StVersion - 1 -> Nat]
  /\ stTold \in Nat /\ stLate \in BOOLEAN
  /\ {stTorn, stCrossed, stCut, stRolled, stUndone} \subseteq BOOLEAN

\* What the owner decided is what the assistant does.  At rest, a proposal is in the
\* configuration exactly when it was approved, and once; and a voice the assistant
\* speaks with exists.  Out of this: a copy written over a newer version, decisions on
\* the same thing that overlapped, an operation cut by a restart, a rejection of what
\* was approved, which leaves it in, and for what should be there, an earlier version
\* that was published again (approve, reject, activate, delete, rollback_version).
DecisionsStand ==
  (\A p \in StReqs : stPc[p] = "idle") /\ ~stTorn /\ ~stCrossed /\ ~stCut =>
    LET config == stVersions[StVersion] IN
    /\ config.fix <= 1
    /\ stProposal = "proposed" => config.fix = 0
    /\ stProposal = "approved" /\ ~stRolled => config.fix = 1
    /\ stProposal = "rejected" /\ ~stUndone => config.fix = 0
    /\ config.cloned /\ ~stRolled => stClone = "ready" /\ stVoice

\* A call is handled with a configuration that was the current one within the life of
\* a cache entry before it; and with none older than the last one the Studio saved with
\* the number, unless the cache was told while a worker was fetching, whose older copy
\* then replaces it (resolve, upsert_assistant).
CallsGetRecentConfig ==
  StCached =>
    /\ \/ stCache.version = StVersion
       \/ stEnded[stCache.version] + StTtl > stNow
    /\ stLate \/ stCache.version >= stTold
===============================================================================
