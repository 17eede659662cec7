-------------------------------- MODULE Transfer --------------------------------
(* A transfer of a call to a person (apps/voice-worker/parlio_voice/transfer.py,   *)
(* TransferEngine and LiveKitSipBridge; tools.py, the transfer tool; agent.py,     *)
(* what the job does when somebody leaves the room).                               *)
(*                                                                                 *)
(* The engine dials the people of its plan in order.  Who answers is briefed while *)
(* the caller is held, and must press a key; then the assistant leaves, or, when   *)
(* the transfer is recorded, stays deaf and mute to close the room at the end.     *)
(* Meanwhile anyone can hang up.  A leg is named by its place in the plan: how the *)
(* plan is chosen is left out, and so are wording, tracks and recordings.          *)
EXTENDS Integers, FiniteSets

CONSTANTS TrMax  \* max_attempts

ASSUME TransferAssumption == TrMax \in Nat \ {0}

TrLegs == 1 .. TrMax

VARIABLES
  trMode,     \* cold: the caller's own leg is sent away; warm: they meet in the room
  trKey,      \* accept_key
  trRecord,   \* transfers are recorded, and this call is
  trPlan,     \* how many people there are to try
  trPc,
  trLeg,      \* the one being tried
  trTaken,    \* and whether they took the call
  trRaised,   \* the briefing raised: the tool fails, and no one else is tried
  trHumans,   \* human legs in the room
  trHeld,     \* legs the caller is kept from hearing, with the assistant
  trCaller,   \* the caller is in the room
  trGone,     \* caller_gone
  trDone,     \* transferred
  trListen,   \* t_human is set: a person who leaves ends the call
  trHangup,   \* a task that deletes the room is under way
  trAssistant

\* History, for the properties only.
VARIABLES
  trPressed,  \* legs that pressed the key
  trFault,    \* a request to the media server failed
  trUnheard   \* a person hung up before the job listened for it

trSettings == <<trMode, trKey, trRecord, trPlan>>
trRoom == <<trHumans, trHeld, trCaller, trAssistant>>
trFlags == <<trGone, trDone, trListen, trHangup>>
trGhost == <<trPressed, trFault, trUnheard>>
transferVars == <<trSettings, trPc, trLeg, trTaken, trRaised, trRoom, trFlags, trGhost>>

TrPC == {"idle", "dial", "hold", "brief", "confirm", "drop", "unhold", "result", "undo", "thanks",
         "leave", "bridged", "talk", "over"}

TransferInit ==
  /\ trMode \in {"cold", "warm"}
  /\ trKey \in BOOLEAN
  /\ trRecord \in BOOLEAN
  /\ trPlan \in TrLegs
  /\ trPc = "idle"
  /\ trLeg = 1
  /\ trTaken = FALSE
  /\ trRaised = FALSE
  /\ trHumans = {}
  /\ trHeld = {}
  /\ trCaller = TRUE
  /\ trGone = FALSE
  /\ trDone = FALSE
  /\ trListen = FALSE
  /\ trHangup = FALSE
  /\ trAssistant = "on"
  /\ trPressed = {}
  /\ trFault = FALSE
  /\ trUnheard = FALSE

-------------------------------------------------------------------------------
(* TransferEngine.run.                                                          *)

\* The caller is told to wait.
TrBegin ==
  /\ trPc = "idle"
  /\ trPc' = "dial"
  /\ UNCHANGED <<trSettings, trRaised, trLeg, trTaken, trRoom, trFlags, trGhost>>

\* Nobody there: the next one, or the end of the plan.
TrNext ==
  IF trLeg < trPlan THEN trLeg' = trLeg + 1 /\ trPc' = "dial"
  ELSE trPc' = "talk" /\ UNCHANGED trLeg

\* dial_into_room: answered, or not in time, busy or refused.
TrDial ==
  /\ trPc = "dial"
  /\ trMode = "warm"
  /\ \/ /\ trHumans' = trHumans \cup {trLeg}
        /\ trPc' = IF trKey THEN "hold" ELSE "brief"
        /\ UNCHANGED trLeg
     \/ TrNext /\ UNCHANGED trHumans
  /\ UNCHANGED <<trSettings, trRaised, trTaken, trHeld, trCaller, trAssistant, trFlags,
                 trGhost>>

\* refer_caller: the caller's leg leaves the room, which the job may see first.
TrRefer ==
  /\ trPc = "dial"
  /\ trMode = "cold"
  /\ \/ /\ trCaller
        /\ trCaller' = FALSE
        /\ \E seen \in BOOLEAN : trGone' = seen /\ trHangup' = seen
        /\ trTaken' = TRUE
        /\ trPc' = "result"
        /\ UNCHANGED trLeg
     \/ TrNext /\ UNCHANGED <<trCaller, trTaken, trGone, trHangup>>
  /\ UNCHANGED <<trSettings, trRaised, trHumans, trHeld, trAssistant, trDone, trListen,
                 trGhost>>

\* hold_caller, on and off: a request that fails is only logged.
TrHold ==
  /\ trPc = "hold"
  /\ trPc' = "brief"
  /\ \/ trHeld' = {trLeg} /\ UNCHANGED trFault
     \/ trFault' = TRUE /\ UNCHANGED trHeld
  /\ UNCHANGED <<trSettings, trRaised, trLeg, trTaken, trHumans, trCaller, trAssistant,
                 trFlags, trPressed, trUnheard>>

TrUnhold ==
  /\ trPc = "unhold"
  /\ IF trTaken \/ trRaised
     THEN trPc' = (IF trTaken THEN "result" ELSE "talk") /\ UNCHANGED trLeg
     ELSE TrNext
  /\ \/ trHeld' = {} /\ UNCHANGED trFault
     \/ trFault' = TRUE /\ UNCHANGED trHeld
  /\ UNCHANGED <<trSettings, trRaised, trTaken, trHumans, trCaller, trAssistant, trFlags,
                 trPressed, trUnheard>>

\* on_answered: without a key to press, an answer is enough.
TrBrief ==
  /\ trPc = "brief"
  /\ \/ /\ trPc' = IF trKey THEN "confirm" ELSE "result"
        /\ trTaken' = ~trKey
        /\ UNCHANGED trRaised
     \/ /\ trPc' = IF trKey THEN "unhold" ELSE "talk"
        /\ trRaised' = TRUE
        /\ UNCHANGED trTaken
  /\ UNCHANGED <<trSettings, trLeg, trRoom, trFlags, trGhost>>

\* confirm_human: a key, or a hang-up, or neither in time.
TrConfirm ==
  /\ trPc = "confirm"
  /\ \/ /\ trLeg \in trHumans
        /\ trPressed' = trPressed \cup {trLeg}
        /\ trTaken' = TRUE
        /\ trPc' = "unhold"
     \/ trPc' = "drop" /\ UNCHANGED <<trPressed, trTaken>>
  /\ UNCHANGED <<trSettings, trRaised, trLeg, trRoom, trFlags, trFault, trUnheard>>

\* drop: a voicemail is put out of the room.
TrDropped(next) ==
  /\ \/ trHumans' = trHumans \ {trLeg} /\ UNCHANGED trFault
     \/ trLeg \in trHumans /\ trFault' = TRUE /\ UNCHANGED trHumans
  /\ trPc' = next
  /\ UNCHANGED <<trSettings, trRaised, trLeg, trTaken, trHeld, trCaller, trAssistant, trFlags,
                 trPressed, trUnheard>>

\* Mutant: a voicemail stays in the room.
TrDropNobody ==
  /\ trPc = "drop"
  /\ trPc' = "unhold"
  /\ UNCHANGED <<trSettings, trRaised, trLeg, trTaken, trRoom, trFlags, trGhost>>

TrDrop == trPc = "drop" /\ TrDropped("unhold")

-------------------------------------------------------------------------------
(* The transfer tool, when somebody has taken the call.                         *)

\* The caller may have gone meanwhile: then nobody is connected.
TrResult ==
  /\ trPc = "result"
  /\ trDone' = ~trGone
  /\ trPc' = IF trGone THEN "undo"
             ELSE IF trMode = "cold" THEN "bridged"
             ELSE IF trKey THEN "thanks" ELSE "leave"
  /\ UNCHANGED <<trSettings, trRaised, trLeg, trTaken, trRoom, trGone, trListen, trHangup,
                 trGhost>>

TrUndo == trPc = "undo" /\ TrDropped("talk")

TrThanks ==
  /\ trPc = "thanks"
  /\ trPc' = "leave"
  /\ UNCHANGED <<trSettings, trRaised, trLeg, trTaken, trRoom, trFlags, trGhost>>

\* _leave_after_bridge
TrLeave ==
  /\ trPc = "leave"
  /\ trPc' = "bridged"
  /\ trAssistant' = IF trRecord THEN "mute" ELSE "gone"
  /\ trListen' = trRecord
  /\ UNCHANGED <<trSettings, trRaised, trLeg, trTaken, trHumans, trHeld, trCaller, trGone,
                 trDone, trHangup, trGhost>>

-------------------------------------------------------------------------------
(* Who leaves the room (_on_participant_gone), and the end of it (_hangup).     *)

TrCallerLeaves ==
  /\ trCaller
  /\ trCaller' = FALSE
  /\ IF trAssistant = "gone" \/ trDone THEN UNCHANGED <<trGone, trHangup>>
     ELSE trGone' = TRUE /\ trHangup' = TRUE
  /\ UNCHANGED <<trSettings, trRaised, trPc, trLeg, trTaken, trHumans, trHeld, trAssistant,
                 trDone, trListen, trGhost>>

TrHumanLeaves(leg) ==
  /\ leg \in trHumans
  /\ trHumans' = trHumans \ {leg}
  /\ trHangup' = (trHangup \/ trListen)
  /\ trUnheard' = (trUnheard \/ ~trListen)
  /\ UNCHANGED <<trSettings, trRaised, trPc, trLeg, trTaken, trHeld, trCaller, trAssistant,
                 trGone, trDone, trListen, trPressed, trFault>>

\* The room is deleted with everybody in it and the job ends, wherever the tool is.
TrHangupEnds ==
  /\ trHangup
  /\ trPc # "over"
  /\ trPc' = "over"
  /\ trHumans' = {} /\ trCaller' = FALSE /\ trHeld' = {}
  /\ trAssistant' = "gone"
  /\ UNCHANGED <<trSettings, trRaised, trLeg, trTaken, trFlags, trGhost>>

TransferNext ==
  \/ TrBegin \/ TrDial \/ TrRefer \/ TrHold \/ TrBrief \/ TrConfirm \/ TrDrop \/ TrUnhold
  \/ TrResult \/ TrUndo \/ TrThanks \/ TrLeave
  \/ TrCallerLeaves \/ TrHangupEnds
  \/ \E leg \in TrLegs : TrHumanLeaves(leg)

TransferSpec == TransferInit /\ [][TransferNext]_transferVars

-------------------------------------------------------------------------------
(* Properties.                                                                  *)

TransferTypeOK ==
  /\ trMode \in {"cold", "warm"}
  /\ trKey \in BOOLEAN /\ trRecord \in BOOLEAN
  /\ trPlan \in TrLegs /\ trLeg \in TrLegs
  /\ trPc \in TrPC
  /\ trTaken \in BOOLEAN /\ trRaised \in BOOLEAN
  /\ trHumans \subseteq TrLegs /\ trHeld \subseteq TrLegs
  /\ trCaller \in BOOLEAN
  /\ trGone \in BOOLEAN /\ trDone \in BOOLEAN /\ trListen \in BOOLEAN /\ trHangup \in BOOLEAN
  /\ trAssistant \in {"on", "mute", "gone"}
  /\ trPressed \subseteq TrLegs
  /\ trFault \in BOOLEAN /\ trUnheard \in BOOLEAN

\* However the people of the plan answer, and whoever hangs up when: a caller who
\* is back with the assistant is not on hold, even when the briefing raised, and
\* is otherwise alone with it; one who is put through meets only a person who
\* pressed the key, if one is asked for; and of a recorded transfer the room goes
\* when the person does.  Except where a request to the media server failed, or a
\* person hung up between the key and the moment the job listens for it
\* (TransferEngine.run, transfer, _leave_after_bridge).
CallerNotStranded ==
  ~trFault =>
    /\ trPc = "talk" => /\ trHeld = {} /\ trAssistant = "on"
                        /\ trHumans = {} \/ trRaised
    /\ trPc = "bridged" =>
         /\ trHeld = {}
         /\ trKey => trHumans \subseteq trPressed
         /\ trListen /\ ~trUnheard /\ trHumans = {} => trHangup
===============================================================================
