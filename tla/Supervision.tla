------------------------------ MODULE Supervision ------------------------------
(* A supervisor and one live call: SupervisorService and the part of LiveCallHub  *)
(* it writes, in apps/api/parlio_api/live.py, and Supervisor in the voice worker's *)
(* supervisor.py, which carries out what it is told.                              *)
(*                                                                                *)
(* A command is checked against the board, sent into the room, and written on     *)
(* the board when the send has returned.  The worker starts a task for each       *)
(* frame; the task of a takeover waits for the assistant's speech to stop before   *)
(* it switches the audio off.  whisper and say change neither the board nor the    *)
(* audio and are left out; a hang-up of a call that has no room is CallEvents'.    *)
EXTENDS Integers, Sequences

CONSTANTS
  SuUsers,    \* people with the live page open
  SuReqs,     \* command requests that can be under way together
  SuNobody,
  SuMoves,    \* bound: commands accepted
  SuRestarts  \* bound: restarts of the API

ASSUME SupervisionAssumption ==
  SuMoves \in Nat /\ SuRestarts \in Nat /\ SuNobody \notin SuUsers

VARIABLES
  suCall,   \* "up", or "over" for the worker
  suBoard,  \* LiveCall, on the board of the API: is there, has its room, who, mode
  suPc,     \* each request: idle, about to send, or back from the send
  suAsks,   \* its user and command
  suWire,   \* frames on their way to the worker, in order
  suTaken,  \* Supervisor.taken_over_by
  suMuting, \* takeovers that wait for the assistant's speech to stop
  suAudio   \* the session's audio is on

\* Counters of the bounds, and history for the properties.
VARIABLES suMoves, suRestarts,
  suLoose,   \* the board was left behind: commands overlapped, a send raised, the API
             \* restarted, or who had taken over left without handing back
  suCrossed  \* a handback came while a takeover was waiting, or the takeover failed then

suApi == <<suBoard, suPc, suAsks, suMoves, suRestarts, suLoose>>
suWorker == <<suCall, suTaken, suMuting, suAudio, suCrossed>>
supervisionVars == <<suApi, suWorker, suWire>>

SuCommands == {"takeover", "handback", "hangup"}
SuNothing == [user |-> SuNobody, cmd |-> "none"]
SuBoard(on, room, who, mode) == [on |-> on, room |-> room, who |-> who, mode |-> mode]

SupervisionInit ==
  /\ suCall = "up"
  /\ suBoard = SuBoard(TRUE, TRUE, SuNobody, "none")
  /\ suPc = [r \in SuReqs |-> "idle"]
  /\ suAsks = [r \in SuReqs |-> SuNothing]
  /\ suWire = <<>>
  /\ suTaken = SuNobody /\ suMuting = 0 /\ suAudio = TRUE
  /\ suMoves = 0 /\ suRestarts = 0
  /\ suLoose = FALSE /\ suCrossed = FALSE

SuActive == suBoard.on /\ suBoard.room

\* Somebody else handles the call.
SuHeldByOther(u) ==
  suBoard.who \notin {SuNobody, u} /\ suBoard.mode = "taken_over"

\* join: the first to listen is the call's supervisor.
SuJoin(u) ==
  /\ SuActive
  /\ suBoard.mode = "none" \/ suBoard.who = SuNobody
  /\ suBoard' = SuBoard(TRUE, TRUE, u, "listening")
  /\ UNCHANGED <<suPc, suAsks, suMoves, suRestarts, suLoose>>
  /\ UNCHANGED <<suWorker, suWire>>

\* leave: nothing is sent into the room.
SuLeave(u) ==
  /\ suBoard.on /\ suBoard.who = u
  /\ suBoard' = [suBoard EXCEPT !.who = SuNobody, !.mode = "none"]
  /\ suLoose' = (suLoose \/ suBoard.mode = "taken_over")
  /\ UNCHANGED <<suPc, suAsks, suMoves, suRestarts>>
  /\ UNCHANGED <<suWorker, suWire>>

SuAccept(r, u, cmd) ==
  /\ suPc[r] = "idle" /\ suMoves < SuMoves
  /\ suPc' = [suPc EXCEPT ![r] = "send"]
  /\ suAsks' = [suAsks EXCEPT ![r] = [user |-> u, cmd |-> cmd]]
  /\ suMoves' = suMoves + 1
  /\ suLoose' = (suLoose \/ \E q \in SuReqs \ {r} : suPc[q] # "idle")
  /\ UNCHANGED <<suBoard, suRestarts>>
  /\ UNCHANGED <<suWorker, suWire>>

\* Mutant: whoever handles the call is not looked at.
SuCommandAnyone(r, u, cmd) == SuActive /\ SuAccept(r, u, cmd)

\* command: what it checks before the send.
SuCommand(r, u, cmd) ==
  /\ SuActive
  /\ ~SuHeldByOther(u) \/ cmd = "hangup"
  /\ SuAccept(r, u, cmd)

\* The media server takes the frame.
SuSend(r) ==
  /\ suPc[r] = "send"
  /\ suWire' = Append(suWire, suAsks[r])
  /\ suPc' = [suPc EXCEPT ![r] = "sent"]
  /\ UNCHANGED <<suBoard, suAsks, suMoves, suRestarts, suLoose>>
  /\ UNCHANGED suWorker

\* The send raises, whether or not the frame was taken; the board is not written,
\* and of a hang-up the call is closed on the API's side.
SuSendRaises(r) ==
  /\ suPc[r] = "send"
  /\ suWire' \in {suWire, Append(suWire, suAsks[r])}
  /\ suBoard' \in {suBoard} \cup
       {SuBoard(FALSE, FALSE, SuNobody, "none") : c \in {suAsks[r].cmd} \cap {"hangup"}}
  /\ suPc' = [suPc EXCEPT ![r] = "idle"]
  /\ suAsks' = [suAsks EXCEPT ![r] = SuNothing]
  /\ suLoose' = TRUE
  /\ UNCHANGED <<suMoves, suRestarts>>
  /\ UNCHANGED suWorker

\* set_supervisor after the send; it raises when the call has left the board.
SuWritten(ask) ==
  CASE ~suBoard.on -> suBoard
    [] suBoard.on /\ ask.cmd = "takeover" -> [suBoard EXCEPT !.who = ask.user, !.mode = "taken_over"]
    [] suBoard.on /\ ask.cmd = "handback" -> [suBoard EXCEPT !.who = ask.user, !.mode = "listening"]
    [] suBoard.on /\ ask.cmd = "hangup" -> [suBoard EXCEPT !.who = ask.user, !.mode = "none"]

SuSent(r) ==
  /\ suPc[r] = "sent"
  /\ suBoard' = SuWritten(suAsks[r])
  /\ suPc' = [suPc EXCEPT ![r] = "idle"]
  /\ suAsks' = [suAsks EXCEPT ![r] = SuNothing]
  /\ UNCHANGED <<suMoves, suRestarts, suLoose>>
  /\ UNCHANGED <<suWorker, suWire>>

\* handle, up to its first await.
SuHandle ==
  /\ suWire # <<>> /\ suCall = "up"
  /\ suWire' = Tail(suWire)
  /\ LET frame == Head(suWire) IN
       \/ /\ frame.cmd = "takeover"
          /\ IF suTaken = SuNobody
             THEN suTaken' = frame.user /\ suMuting' = suMuting + 1
             ELSE UNCHANGED <<suTaken, suMuting>>
          /\ UNCHANGED <<suCall, suAudio, suCrossed>>
       \/ /\ frame.cmd = "handback"
          /\ suTaken' = SuNobody
          /\ suAudio' = IF suTaken = SuNobody THEN suAudio ELSE TRUE
          /\ suCrossed' = (suCrossed \/ (suTaken # SuNobody /\ suMuting > 0))
          /\ UNCHANGED <<suCall, suMuting>>
       \/ /\ frame.cmd = "hangup"
          /\ suCall' = "over"
          /\ UNCHANGED <<suTaken, suMuting, suAudio, suCrossed>>
  /\ UNCHANGED suApi

\* A takeover goes on when the assistant's speech has stopped.
SuMute ==
  /\ suMuting > 0 /\ suCall = "up"
  /\ suMuting' = suMuting - 1
  /\ suAudio' = FALSE
  /\ UNCHANGED <<suCall, suTaken, suCrossed, suApi, suWire>>

SuMuteRaises ==
  /\ suMuting > 0 /\ suCall = "up"
  /\ suMuting' = suMuting - 1
  /\ suCrossed' = TRUE
  /\ UNCHANGED <<suCall, suTaken, suAudio, suApi, suWire>>

\* The caller hangs up.
SuCallEnds ==
  /\ suCall = "up"
  /\ suCall' = "over"
  /\ UNCHANGED <<suTaken, suMuting, suAudio, suCrossed, suApi, suWire>>

SuBoardIs(board) ==
  /\ suBoard' = board
  /\ UNCHANGED <<suPc, suAsks, suMoves, suRestarts, suLoose>>
  /\ UNCHANGED <<suWorker, suWire>>

\* The board is told of the end.
SuEndSeen ==
  suCall = "over" /\ suBoard.on /\ SuBoardIs(SuBoard(FALSE, FALSE, SuNobody, "none"))

\* An event of a call the board does not know: it has no room.
SuEventSeen ==
  /\ suCall = "up" /\ ~suBoard.on /\ suRestarts > 0
  /\ SuBoardIs(SuBoard(TRUE, FALSE, SuNobody, "none"))

\* The board is in memory.
SuRestart ==
  /\ suRestarts < SuRestarts
  /\ suRestarts' = suRestarts + 1
  /\ suLoose' = TRUE
  /\ suBoard' = SuBoard(FALSE, FALSE, SuNobody, "none")
  /\ suPc' = [r \in SuReqs |-> "idle"]
  /\ suAsks' = [r \in SuReqs |-> SuNothing]
  /\ UNCHANGED <<suMoves, suWorker, suWire>>

SupervisionNext ==
  \/ \E u \in SuUsers : SuJoin(u) \/ SuLeave(u)
  \/ \E r \in SuReqs, u \in SuUsers, cmd \in SuCommands : SuCommand(r, u, cmd)
  \/ \E r \in SuReqs : SuSend(r) \/ SuSendRaises(r) \/ SuSent(r)
  \/ SuHandle \/ SuMute \/ SuMuteRaises
  \/ SuCallEnds \/ SuEndSeen \/ SuEventSeen \/ SuRestart

SupervisionSpec == SupervisionInit /\ [][SupervisionNext]_supervisionVars

SupervisionTypeOK ==
  /\ suCall \in {"up", "over"}
  /\ suBoard \in [on : BOOLEAN, room : BOOLEAN, who : SuUsers \cup {SuNobody},
                  mode : {"none", "listening", "taken_over"}]
  /\ suPc \in [SuReqs -> {"idle", "send", "sent"}]
  /\ suAsks \in [SuReqs -> {SuNothing} \cup [user : SuUsers, cmd : SuCommands]]
  /\ suWire \in Seq([user : SuUsers, cmd : SuCommands])
  /\ suTaken \in SuUsers \cup {SuNobody}
  /\ suMuting \in Nat /\ suAudio \in BOOLEAN
  /\ suMoves \in Nat /\ suRestarts \in Nat
  /\ suLoose \in BOOLEAN /\ suCrossed \in BOOLEAN

\* Everything that was accepted has been carried out.
SuQuiet ==
  suCall = "up" /\ suWire = <<>> /\ suMuting = 0 /\ \A r \in SuReqs : suPc[r] = "idle"

\* When all is quiet, the caller has the assistant or a supervisor: the assistant
\* hears and speaks exactly if nobody has taken over, unless a handback crossed
\* a takeover that was still waiting, or that one failed.  And the board names the person
\* who has taken over, and nobody else, for as long as commands come one by one,
\* the sends return, the API stays up and nobody leaves without handing back
\* (command, leave, Supervisor.handle).
SupervisorAgrees ==
  SuQuiet =>
    /\ ~suCrossed => (suAudio <=> suTaken = SuNobody)
    /\ ~suLoose =>
         IF suBoard.mode = "taken_over" THEN suTaken = suBoard.who ELSE suTaken = SuNobody
===============================================================================
