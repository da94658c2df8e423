------------------------------- MODULE QuizGame -------------------------------
(***************************************************************************)
(* QuizGameCubit (lib/data/cubit/quiz) under the screen that drives it     *)
(* (lib/ui/pages/quiz): the lobby, the wheel, the question against the     *)
(* clock, the reveal and the result.                                       *)
(*                                                                         *)
(* Every call to the server is a record in calls: the player may leave the *)
(* game, or begin another, while it is on its way, and the cubit applies   *)
(* its answer to whatever is on screen by then.  What the player can tap   *)
(* is what the views offer in each phase.  The server is external.         *)
(***************************************************************************)
EXTENDS Naturals

CONSTANTS MaxGames,       \* bound: sessions the server creates
          MaxQuestions,   \* bound: questions it hands out
          MaxCalls        \* bound: calls on their way at once

ASSUME BoundsAssumption == MaxGames \in Nat /\ MaxQuestions \in Nat /\ MaxCalls \in Nat

VARIABLES
  \* ---- QuizGameState
  phase, session, active, question, selected, result, paused, expired,
  conquering, conquest, failed,
  clock,          \* _timer runs
  \* ---- the screen
  wheel,          \* _QuizWheelViewState
  sheet,          \* the modal sheet on top, _sheetOpen
  pending,        \* _pendingSettle
  \* ---- the network and the server (external)
  calls,          \* the awaits of the cubit
  games,          \* status of each session at the server
  owner           \* question -> session it was asked for

play   == <<question, selected, result>>
time   == <<clock, paused, expired>>
lobby  == <<active, failed>>
island == <<conquering, conquest>>
screen == <<sheet, pending>>
server == <<games, owner>>
vars   == <<phase, session, play, time, lobby, island, wheel, screen, calls,
            server>>

Phases == {"idle", "loading", "spinning", "question", "revealing", "won", "lost",
           "error"}
Game      == 1..MaxGames
Question  == 1..MaxQuestions
None      == 0
Endings   == {"won", "lost"}
Statuses  == {"none", "active", "abandoned"} \cup Endings
Session   == [id : Game \cup {None}, status : Statuses]
NoSession == [id |-> None, status |-> "none"]

(* A call: for which session and question, and what the server has said.   *)
Ops  == {"free", "lobby", "history", "start", "spin", "answer", "conquer",
         "abandonToStart", "abandonToLeave"}
Call == [op : Ops, game : Game \cup {None}, question : Question \cup {None},
         handled : BOOLEAN, said : Session]
Free == [op |-> "free", game |-> None, question |-> None, handled |-> FALSE,
         said |-> NoSession]
Slot == 1..MaxCalls

NoSheet == [kind |-> "none", game |-> None]
Sheets  == {NoSheet} \cup [kind : {"exit", "new"}, game : Game \cup {None}]

InGame == phase \in {"spinning", "question", "revealing"}

-----------------------------------------------------------------------------
(* Calls.                                                                  *)

Ask(op) == [Free EXCEPT !.op = op]

AskFor(op, g) == [Ask(op) EXCEPT !.game = g]

Launch(call) ==
  \E s \in Slot : /\ calls[s] = Free /\ \A t \in 1..(s - 1) : calls[t] # Free
                  /\ calls' = [calls EXCEPT ![s] = call]

Ends(s) == calls' = [calls EXCEPT ![s] = Free]

InFlight(op) == \E s \in Slot : calls[s].op = op

-----------------------------------------------------------------------------
(* The screen opens and calls loadLobby(); closing it closes the cubit,    *)
(* and nobody reads what is still on its way.                              *)

Opened ==
  /\ phase' = "loading" /\ session' = NoSession /\ active' = NoSession
  /\ question' = None /\ selected' = FALSE /\ result' = None
  /\ paused' = FALSE /\ expired' = TRUE /\ clock' = FALSE
  /\ conquering' = FALSE /\ conquest' = None /\ failed' = {}
  /\ wheel' = "new" /\ sheet' = NoSheet /\ pending' = FALSE
  /\ calls' = [s \in Slot |-> IF s = 1 THEN Ask("lobby") ELSE Free]

Init ==
  /\ phase = "loading" /\ session = NoSession /\ active = NoSession
  /\ question = None /\ selected = FALSE /\ result = None
  /\ paused = FALSE /\ expired = TRUE /\ clock = FALSE
  /\ conquering = FALSE /\ conquest = None /\ failed = {}
  /\ wheel = "new" /\ sheet = NoSheet /\ pending = FALSE
  /\ calls = [s \in Slot |-> IF s = 1 THEN Ask("lobby") ELSE Free]
  /\ games = [g \in Game |-> "none"] /\ owner = [q \in Question |-> None]

Reopen ==
  /\ ~InGame /\ sheet = NoSheet
  /\ Opened
  /\ UNCHANGED server

-----------------------------------------------------------------------------
(* The server (external).                                                  *)

Says(s, said) == calls' = [calls EXCEPT ![s].handled = TRUE, ![s].said = said]

ServerLobby(s) ==
  /\ calls[s].op = "lobby"
  /\ LET open == {g \in Game : games[g] = "active"}
     IN  \/ open = {} /\ Says(s, NoSession)
         \/ \E g \in open : Says(s, [id |-> g, status |-> "active"])
  /\ UNCHANGED server

ServerStarts(s) ==
  /\ calls[s].op = "start"
  /\ \E g \in Game :
       /\ games[g] = "none" /\ \A h \in 1..(g - 1) : games[h] # "none"
       /\ games' = [games EXCEPT ![g] = "active"]
       /\ Says(s, [id |-> g, status |-> "active"])
  /\ UNCHANGED owner

ServerAsks(s) ==
  /\ calls[s].op = "spin" /\ games[calls[s].game] = "active"
  /\ \E q \in Question :
       /\ owner[q] = None /\ \A r \in 1..(q - 1) : owner[r] # None
       /\ owner' = [owner EXCEPT ![q] = calls[s].game]
       /\ calls' = [calls EXCEPT ![s].handled = TRUE, ![s].question = q]
  /\ UNCHANGED games

ServerScores(s) ==
  /\ calls[s].op = "answer" /\ games[calls[s].game] = "active"
  /\ \E status \in {"active"} \cup Endings :
       /\ games' = [games EXCEPT ![calls[s].game] = status]
       /\ Says(s, [id |-> calls[s].game, status |-> status])
  /\ UNCHANGED owner

ServerAbandons(s) ==
  /\ calls[s].op \in {"abandonToStart", "abandonToLeave"}
  /\ games[calls[s].game] = "active"
  /\ games' = [games EXCEPT ![calls[s].game] = "abandoned"]
  /\ Says(s, NoSession)
  /\ UNCHANGED owner

ServerNext ==
  /\ \E s \in Slot :
       /\ ~calls[s].handled
       /\ \/ ServerLobby(s) \/ ServerStarts(s) \/ ServerAsks(s) \/ ServerScores(s)
          \/ ServerAbandons(s)
  /\ UNCHANGED <<phase, session, play, time, lobby, island, wheel, screen>>

-----------------------------------------------------------------------------
(* The lobby.                                                              *)

(* loadLobby() only shows its skeleton over an idle lobby that failed.     *)
LobbyPhase == IF phase = "idle" /\ "lobby" \in failed THEN "loading" ELSE phase

(* Whatever the five reads bring, the phase is idle when they end.         *)
LobbyArrives(s) ==
  /\ calls[s].op = "lobby" /\ calls[s].handled /\ Ends(s)
  /\ phase' = "idle" /\ wheel' = "new"
  /\ active' \in {calls[s].said, NoSession}
  /\ failed' \in SUBSET {"lobby", "history"}
  /\ UNCHANGED <<session, play, time, island, screen, server>>

HistoryArrives(s) ==
  /\ calls[s].op = "history" /\ Ends(s)
  /\ phase' = "idle" /\ wheel' = "new"
  /\ failed' \in {failed, failed \cup {"history"}}
  /\ UNCHANGED <<session, active, play, time, island, screen, server>>

RetryLobby ==
  /\ phase = "idle" /\ sheet = NoSheet /\ "lobby" \in failed
  /\ phase' = LobbyPhase
  /\ Launch(Ask("lobby"))
  /\ UNCHANGED <<session, play, time, lobby, island, wheel, screen, server>>

RetryHistory ==
  /\ phase = "idle" /\ sheet = NoSheet /\ "history" \in failed
  /\ phase' = "loading" /\ failed' = failed \ {"history"}
  /\ Launch(Ask("history"))
  /\ UNCHANGED <<session, active, play, time, island, wheel, screen, server>>

(* The dock with "Jugar", "Nueva" and "Continuar partida".                 *)
Dock == phase = "idle" /\ sheet = NoSheet /\ "lobby" \notin failed

(* The first emit of startGame().                                          *)
GameBegins ==
  /\ phase' = "loading" /\ wheel' = "new" /\ paused' = FALSE /\ conquest' = None
  /\ question' = None /\ selected' = FALSE /\ result' = None
  /\ UNCHANGED <<session, clock, expired, lobby, conquering, server>>

TapPlay ==
  /\ Dock /\ active = NoSession
  /\ GameBegins /\ Launch(Ask("start"))
  /\ UNCHANGED <<sheet, pending>>

TapNew ==
  /\ Dock /\ active # NoSession
  /\ sheet' = [kind |-> "new", game |-> active.id]
  /\ UNCHANGED <<phase, session, play, time, lobby, island, wheel, pending, calls,
                 server>>

(* startNewGame(): the active game is abandoned first; meanwhile the lobby *)
(* stays as it was.                                                        *)
ConfirmNew ==
  /\ sheet.kind = "new" /\ sheet' = NoSheet
  /\ IF active = NoSession
       THEN GameBegins /\ Launch(Ask("start"))
       ELSE /\ Launch(AskFor("abandonToStart", active.id))
            /\ UNCHANGED <<phase, session, play, time, lobby, island, wheel, server>>
  /\ UNCHANGED pending

DismissNew ==
  /\ sheet.kind = "new" /\ sheet' = NoSheet
  /\ UNCHANGED <<phase, session, play, time, lobby, island, wheel, pending, calls,
                 server>>

(* The wheel view is built when the phase becomes spinning; a change of    *)
(* score, lives or wedges builds another.  Off screen it is "new".         *)
EnterWheel ==
  /\ phase' = "spinning"
  /\ wheel' \in {wheel, "new"}

(* resumeGame(), from the dock or from the sheet of "Nueva".               *)
ResumeGame ==
  /\ \/ Dock /\ active # NoSession /\ session' = active
     \/ sheet.kind = "new" /\ session' = [id |-> sheet.game, status |-> "active"]
  /\ sheet' = NoSheet
  /\ EnterWheel
  /\ question' = None /\ selected' = FALSE /\ result' = None
  /\ paused' = FALSE /\ expired' = FALSE /\ conquest' = None
  /\ active' = NoSession
  /\ UNCHANGED <<clock, failed, conquering, pending, calls, server>>

AbandonedToStart(s) ==
  /\ calls[s].op = "abandonToStart"
  /\ calls' = [calls EXCEPT ![s] = Ask("start")]
  /\ GameBegins
  /\ UNCHANGED <<sheet, pending>>

(* startGame() ends: a session, and the wheel; or an error.                *)
StartArrives(s) ==
  /\ calls[s].op = "start" /\ calls[s].handled /\ Ends(s)
  /\ EnterWheel
  /\ session' = calls[s].said /\ active' = NoSession /\ expired' = FALSE
  /\ UNCHANGED <<play, clock, paused, failed, island, sheet, pending, server>>

-----------------------------------------------------------------------------
(* The wheel.                                                              *)

(* initState: spin() is called to prefetch, unless a category has landed.  *)
WheelMounts ==
  /\ phase = "spinning" /\ wheel = "new" /\ wheel' = "still"
  /\ IF question = None /\ session # NoSession
       THEN Launch(AskFor("spin", session.id)) ELSE UNCHANGED calls
  /\ UNCHANGED <<phase, session, play, time, lobby, island, sheet, pending, server>>

(* The question arrives: whatever is on screen now has this question.      *)
SpinArrives(s) ==
  /\ calls[s].op = "spin" /\ calls[s].handled /\ Ends(s)
  /\ question' = calls[s].question /\ selected' = FALSE /\ result' = None
  /\ UNCHANGED <<phase, session, time, lobby, island, wheel, screen, server>>

(* "Girar": the wheel turns once there is somewhere to stop.               *)
TapSpin ==
  /\ phase = "spinning" /\ wheel = "still" /\ sheet = NoSheet
  /\ wheel' = "wanted"
  /\ UNCHANGED <<phase, session, play, time, lobby, island, sheet, pending, calls,
                 server>>

WheelTurns ==
  /\ phase = "spinning" /\ wheel = "wanted" /\ question # None
  /\ wheel' = "turning"
  /\ UNCHANGED <<phase, session, play, time, lobby, island, sheet, pending, calls,
                 server>>

(* onSpinSettled(): the question is shown and the clock starts.            *)
QuestionOpens ==
  /\ phase = "spinning" /\ question # None
  /\ phase' = "question" /\ wheel' = "new"
  /\ clock' = TRUE /\ expired' = FALSE
  /\ selected' = FALSE /\ result' = None

(* Under an open sheet the question waits.                                 *)
WheelSettles ==
  /\ phase = "spinning" /\ wheel = "turning"
  /\ \/ /\ sheet # NoSheet /\ wheel' = "settled" /\ pending' = TRUE
        /\ UNCHANGED <<phase, selected, result, clock, expired>>
     \/ /\ sheet = NoSheet /\ QuestionOpens
        /\ UNCHANGED pending
  /\ UNCHANGED <<session, question, paused, lobby, island, sheet, calls, server>>

-----------------------------------------------------------------------------
(* The question.                                                           *)

AnswerCall == [AskFor("answer", session.id) EXCEPT !.question = question]

(* Mutant: answer() does not look at the phase.                            *)
AnswerableAnywhere == ~paused

(* The early return of answer().                                           *)
Answerable ==
  phase = "question" /\ session # NoSession /\ question # None /\ ~paused

(* Mutant: an option may be tapped after another.                          *)
TappableTwice == Answerable /\ sheet = NoSheet /\ ~expired

(* canAnswer of the view.                                                  *)
CanAnswer == Answerable /\ sheet = NoSheet /\ ~selected /\ ~expired

TapOption ==
  /\ CanAnswer
  /\ clock' = FALSE /\ selected' = TRUE
  /\ Launch(AnswerCall)
  /\ UNCHANGED <<phase, session, question, result, paused, expired, lobby, island,
                 wheel, screen, server>>

(* The last tick, wherever the player is: answer(null) returns early.      *)
ClockExpires ==
  /\ clock /\ clock' = FALSE /\ expired' = TRUE
  /\ IF Answerable
       THEN Launch(AnswerCall) ELSE UNCHANGED calls
  /\ UNCHANGED <<phase, session, play, paused, lobby, island, wheel, screen, server>>

(* The score arrives, and is revealed over whatever is on screen now.      *)
AnswerArrives(s) ==
  /\ calls[s].op = "answer" /\ calls[s].handled /\ Ends(s)
  /\ phase' = "revealing" /\ wheel' = "new"
  /\ result' = calls[s].question /\ session' = calls[s].said
  /\ UNCHANGED <<question, selected, time, lobby, island, screen, server>>

(* "Siguiente", on the reveal panel: continueAfterReveal().                *)
TapNext ==
  /\ phase = "revealing" /\ sheet = NoSheet /\ question # None /\ result # None
  /\ IF session.status \in Endings
       THEN phase' = session.status /\ UNCHANGED <<play, expired, wheel>>
       ELSE /\ EnterWheel /\ expired' = FALSE
            /\ question' = None /\ selected' = FALSE /\ result' = None
  /\ UNCHANGED <<session, clock, paused, lobby, island, sheet, pending, calls, server>>

(* startGame(), spin() or answer() fail: the error page.                   *)
GameCallFails(s) ==
  /\ calls[s].op \in {"start", "spin", "answer"} /\ Ends(s)
  /\ phase' = "error" /\ wheel' = "new"
  /\ UNCHANGED <<session, play, time, lobby, island, screen, server>>

-----------------------------------------------------------------------------
(* "Salir de la partida?"                                                  *)

(* _confirmExit, from the X or from the system back button: pauseTimer().  *)
TapExit ==
  /\ InGame /\ sheet = NoSheet
  /\ sheet' = [kind |-> "exit", game |-> None]
  /\ IF phase = "question" /\ ~selected /\ ~paused
       THEN clock' = FALSE /\ paused' = TRUE
       ELSE UNCHANGED <<clock, paused>>
  /\ UNCHANGED <<phase, session, play, expired, lobby, island, wheel, pending, calls,
                 server>>

(* Mutants: the sheet closes and the clock, or the wheel, is forgotten.    *)
ResumedClockForgotten == clock
SettleForgotten == FALSE

(* resumeTimer(): the clock goes on unless an option has been chosen.      *)
ResumedClock == clock \/ (paused /\ phase = "question" /\ ~selected)

(* The wheel stopped while the sheet was open.                             *)
SettleOwed == pending /\ phase = "spinning" /\ question # None

KeepPlaying ==
  /\ sheet.kind = "exit" /\ sheet' = NoSheet
  /\ paused' = FALSE /\ pending' = FALSE
  /\ IF SettleOwed
       THEN QuestionOpens
       ELSE clock' = ResumedClock /\ UNCHANGED <<phase, wheel, selected, result, expired>>
  /\ UNCHANGED <<session, question, lobby, island, calls, server>>

(* Mutant: the pause is not lifted.                                        *)
BoardClearedInPause ==
  /\ phase' = "loading" /\ wheel' = "new" /\ clock' = FALSE
  /\ question' = None /\ selected' = FALSE /\ result' = None
  /\ UNCHANGED paused

(* What leaving clears: the board, the clock and the pause.                *)
BoardCleared ==
  /\ phase' = "loading" /\ wheel' = "new" /\ clock' = FALSE /\ paused' = FALSE
  /\ question' = None /\ selected' = FALSE /\ result' = None

(* "Salir y continuar luego": leaveToLobby().                              *)
Leave ==
  /\ sheet.kind = "exit" /\ sheet' = NoSheet /\ pending' = FALSE
  /\ BoardCleared
  /\ Launch(Ask("lobby"))
  /\ UNCHANGED <<session, expired, lobby, island, server>>

(* abandonAndLeave().                                                      *)
AbandonAndLeave ==
  /\ sheet.kind = "exit" /\ sheet' = NoSheet /\ pending' = FALSE
  /\ BoardCleared
  /\ Launch(IF session.status = "active" THEN AskFor("abandonToLeave", session.id)
                                         ELSE Ask("lobby"))
  /\ UNCHANGED <<session, expired, lobby, island, server>>

AbandonedToLeave(s) ==
  /\ calls[s].op = "abandonToLeave"
  /\ calls' = [calls EXCEPT ![s] = Ask("lobby")]
  /\ phase' = LobbyPhase
  /\ UNCHANGED <<session, play, time, lobby, island, wheel, screen, server>>

-----------------------------------------------------------------------------
(* The error page and the result.                                          *)

BackToLobby ==
  /\ phase \in Endings \cup {"error"} /\ sheet = NoSheet
  /\ BoardCleared /\ conquest' = None
  /\ Launch(Ask("lobby"))
  /\ UNCHANGED <<session, expired, lobby, conquering, screen, server>>

(* A won game offers an island first, and "play again" afterwards.         *)
PlayAgain ==
  /\ \/ phase = "lost"
     \/ phase = "won" /\ ~conquering
  /\ sheet = NoSheet
  /\ GameBegins /\ Launch(Ask("start"))
  /\ UNCHANGED <<sheet, pending>>

Conquer ==
  /\ phase = "won" /\ sheet = NoSheet
  /\ session.status = "won" /\ ~conquering /\ conquest = None
  /\ conquering' = TRUE
  /\ Launch(AskFor("conquer", session.id))
  /\ UNCHANGED <<phase, session, play, time, lobby, conquest, wheel, screen, server>>

ConquerEnds(s) ==
  /\ calls[s].op = "conquer" /\ Ends(s)
  /\ conquering' = FALSE
  /\ conquest' \in {conquest, calls[s].game}
  /\ UNCHANGED <<phase, session, play, time, lobby, wheel, screen, server>>

-----------------------------------------------------------------------------
LobbyNext == RetryLobby \/ RetryHistory \/ TapPlay \/ TapNew \/ ConfirmNew
             \/ DismissNew \/ ResumeGame
WheelNext == WheelMounts \/ TapSpin \/ WheelTurns \/ WheelSettles
BoardNext == TapOption \/ ClockExpires \/ TapNext
ExitNext  == TapExit \/ KeepPlaying \/ Leave \/ AbandonAndLeave
EndNext   == BackToLobby \/ PlayAgain \/ Conquer

Arrivals == \E s \in Slot : \/ LobbyArrives(s) \/ HistoryArrives(s)
                            \/ AbandonedToStart(s) \/ StartArrives(s)
                            \/ SpinArrives(s) \/ AnswerArrives(s)
                            \/ GameCallFails(s) \/ AbandonedToLeave(s)
                            \/ ConquerEnds(s)

Next == Reopen \/ LobbyNext \/ WheelNext \/ BoardNext \/ ExitNext \/ EndNext
        \/ Arrivals \/ ServerNext

Spec == Init /\ [][Next]_vars

-----------------------------------------------------------------------------
TypeOK ==
  /\ phase \in Phases /\ session \in Session /\ active \in Session
  /\ question \in Question \cup {None} /\ result \in Question \cup {None}
  /\ {selected, paused, expired, clock, conquering, pending} \subseteq BOOLEAN
  /\ conquest \in Game \cup {None} /\ failed \subseteq {"lobby", "history"}
  /\ wheel \in {"new", "still", "wanted", "turning", "settled"}
  /\ sheet \in Sheets
  /\ calls \in [Slot -> Call]
  /\ \A s \in Slot : calls[s].op = "answer" => calls[s].game # None
                                              /\ calls[s].question # None
  /\ games \in [Game -> Statuses] /\ owner \in [Question -> Game \cup {None}]

(* A question on screen always goes somewhere: its clock runs, or the exit *)
(* sheet has stopped it, or an answer is on its way.                       *)
QuestionIsAlive ==
  phase = "question" =>
    clock \/ (paused /\ sheet.kind = "exit") \/ InFlight("answer")

WheelIsAlive ==
  phase = "spinning" =>
    IF wheel = "settled" THEN pending /\ sheet.kind = "exit" /\ question # None
    ELSE wheel = "new" \/ question # None \/ InFlight("spin")

(* A wheel on screen always goes somewhere: it is about to ask, it has or  *)
(* awaits a question, or its stop waits for the exit sheet to close.  It   *)
(* only comes to nothing when another session is resumed, from the sheet   *)
(* of "Nueva", over a wheel that a late startGame() had put on screen.     *)
WheelStaysAlive ==
  [][WheelIsAlive => WheelIsAlive' \/ (phase = "spinning" /\ ResumeGame)]_vars

(* The clock stands still while the exit sheet says so, and the pause does *)
(* not outlive the sheet.                                                  *)
PauseIsTheSheets == paused => ~clock /\ sheet.kind = "exit"

Answering(s) == calls[s].op = "answer"

(* An option that was tapped is the answer: while it shows as chosen       *)
(* neither the clock, nor another tap, nor the exit sheet sends another.   *)
TouchIsFinal ==
  [][selected /\ phase = "question"
       => \A s \in Slot : Answering(s)' => Answering(s)]_vars

(* The reveal lights the right option: of the question on screen.          *)
RevealLightsItsQuestion ==
  phase = "revealing" /\ question # None /\ result # None => result = question

AtLobby  == phase \in {"idle", "loading"}
GameOpens == ResumeGame \/ \E s \in Slot : calls[s].op = "start" /\ Ends(s)

(* Who leaves a game is in the lobby until a game is begun or resumed.     *)
LobbyIsLeftByThePlayer == [][AtLobby /\ ~AtLobby' => GameOpens]_vars

=============================================================================
