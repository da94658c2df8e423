------------------------------ MODULE QuizProofs ------------------------------
(***************************************************************************)
(* Theorems about QuizGame, for any number of games, questions and calls   *)
(* on their way at once.                                                   *)
(***************************************************************************)
EXTENDS QuizGame, TLAPS

USE BoundsAssumption

(* A session is none or the server's.                                      *)
Real(x) == x # NoSession => x.id # None

(* What is asked is asked of something, and what is answered says it.      *)
Sound(call) ==
  /\ call.op = "answer" => call.game # None /\ call.question # None
  /\ call.handled /\ call.op \in {"start", "answer"} => call.said # NoSession
  /\ call.handled /\ call.op = "spin" => call.question # None
  /\ Real(call.said)

CallsSound == calls \in [Slot -> Call] /\ \A s \in Slot : Sound(calls[s])

(* The types of all but calls.                                             *)
Types ==
  /\ phase \in Phases /\ session \in Session /\ active \in Session
  /\ question \in Question \cup {None} /\ result \in Question \cup {None}
  /\ {selected, paused, expired, clock, conquering, pending} \subseteq BOOLEAN
  /\ conquest \in Game \cup {None} /\ failed \subseteq {"lobby", "history"}
  /\ wheel \in {"new", "still", "wanted", "turning", "settled"}
  /\ sheet \in Sheets
  /\ games \in [Game -> Statuses] /\ owner \in [Question -> Game \cup {None}]

(* There is a session in every phase of a game.                            *)
GameHasSession ==
  /\ Real(session) /\ Real(active) /\ (InGame => session # NoSession)
  /\ sheet.kind = "new" => sheet.game # None

(* The pause, the touch and the clock exclude each other.                  *)
BoardSound ==
  /\ PauseIsTheSheets /\ QuestionIsAlive
  /\ paused => ~selected
  /\ phase = "question" => question # None /\ ~(selected /\ clock)

(* Off screen there is no wheel; it only turns towards a question, and     *)
(* never under the sheet of "Nueva".                                       *)
WheelSound ==
  /\ phase # "spinning" => wheel = "new"
  /\ sheet.kind = "new" => wheel \in {"new", "still"}
  /\ wheel \in {"turning", "settled"} => question # None

GameInv == Types /\ CallsSound /\ GameHasSession /\ BoardSound /\ WheelSound

-----------------------------------------------------------------------------
(* Calls.                                                                  *)

LEMMA Atoms ==
  /\ None \notin Game /\ None \notin Question /\ NoSession \in Session /\ Real(NoSession)
  /\ NoSheet \in Sheets /\ NoSheet.kind = "none" /\ NoSession.id = None
  /\ \A c \in Call : c = Free => c.op = "free"
BY DEF None, Game, Question, NoSession, Session, Statuses, Endings, Real, NoSheet, Sheets, Free

(* A call that asks, and has heard nothing.                                *)
Mute(call) == call \in Call /\ ~call.handled /\ call.said = NoSession

LEMMA MuteIsSound ==
  ASSUME NEW call, Mute(call),
         call.op = "answer" => call.game # None /\ call.question # None
  PROVE  call \in Call /\ Sound(call)
BY Atoms DEF Mute, Sound, Real

LEMMA FreeIs == Mute(Free) /\ Free \in Call /\ Sound(Free) /\ Free.op = "free"
<1>1. Mute(Free) /\ Free.op = "free"
  BY Atoms DEF Free, Call, Mute, Ops
<1>2. QED
  BY <1>1, MuteIsSound

LEMMA AskMute ==
  ASSUME NEW op \in Ops
  PROVE  Mute(Ask(op)) /\ Ask(op).op = op
BY FreeIs DEF Ask, Mute, Call

LEMMA AskForMute ==
  ASSUME NEW op \in Ops, NEW g \in Game \cup {None}
  PROVE  Mute(AskFor(op, g)) /\ AskFor(op, g).op = op /\ AskFor(op, g).game = g
BY AskMute DEF AskFor, Mute, Call

LEMMA AskIs ==
  ASSUME NEW op \in Ops, op # "answer"
  PROVE  Ask(op) \in Call /\ Sound(Ask(op)) /\ Ask(op).op = op
BY AskMute, MuteIsSound

LEMMA AskForIs ==
  ASSUME NEW op \in Ops, op # "answer", NEW g \in Game \cup {None}
  PROVE  AskFor(op, g) \in Call /\ Sound(AskFor(op, g)) /\ AskFor(op, g).op = op
BY AskForMute, MuteIsSound

LEMMA AnswerIs ==
  ASSUME Types, GameHasSession, Answerable
  PROVE  AnswerCall \in Call /\ Sound(AnswerCall) /\ AnswerCall.op = "answer"
<1>1. /\ session.id \in Game \cup {None} /\ session.id # None
      /\ question \in Question \cup {None} /\ question # None
  BY DEF Types, GameHasSession, Answerable, Real, Session
<1>2. Mute(AskFor("answer", session.id)) /\ AskFor("answer", session.id).op = "answer"
      /\ AskFor("answer", session.id).game = session.id
  BY <1>1, AskForMute DEF Ops
<1>3. Mute(AnswerCall) /\ AnswerCall.op = "answer" /\ AnswerCall.game = session.id
      /\ AnswerCall.question = question
  BY <1>1, <1>2 DEF AnswerCall, Mute, Call
<1>4. QED
  BY <1>1, <1>3, MuteIsSound

(* No answer on its way is lost, and none is sent.                         *)
AnswersKept ==
  /\ InFlight("answer") => InFlight("answer")'
  /\ \A s \in Slot : Answering(s)' => Answering(s)

(* A call takes a free slot, and leaves the others alone.                  *)
LEMMA Launched ==
  ASSUME CallsSound, NEW call \in Call, Sound(call), Launch(call), call.op # "free"
  PROVE  /\ CallsSound' /\ InFlight(call.op)'
         /\ call.op # "answer" => AnswersKept
<1>1. PICK s \in Slot : calls[s] = Free /\ calls' = [calls EXCEPT ![s] = call]
  BY DEF Launch
<1>2. /\ calls' \in [Slot -> Call] /\ calls'[s] = call
      /\ \A t \in Slot : t # s => calls'[t] = calls[t]
  BY <1>1 DEF CallsSound
<1>3. CallsSound'
  BY <1>2 DEF CallsSound, Sound
<1>4. InFlight(call.op)'
  BY <1>2 DEF InFlight
<1>5. ASSUME call.op # "answer" PROVE AnswersKept
  <2>1. calls[s].op # "answer"
    BY <1>1, FreeIs
  <2>2. QED
    BY <1>2, <1>5, <2>1 DEF AnswersKept, InFlight, Answering
<1>6. QED
  BY <1>3, <1>4, <1>5

(* A call ends, or goes on as another.                                     *)
LEMMA Replaced ==
  ASSUME CallsSound, NEW s \in Slot, NEW call \in Call, Sound(call),
         calls' = [calls EXCEPT ![s] = call]
  PROVE  /\ CallsSound'
         /\ (call.op = "answer" <=> calls[s].op = "answer") => AnswersKept
         /\ call.op # "answer" => \A t \in Slot : Answering(t)' => Answering(t)
<1>1. /\ calls' \in [Slot -> Call] /\ calls'[s] = call
      /\ \A t \in Slot : t # s => calls'[t] = calls[t]
  BY DEF CallsSound
<1>2. CallsSound'
  BY <1>1 DEF CallsSound, Sound
<1>3. ASSUME call.op = "answer" <=> calls[s].op = "answer" PROVE AnswersKept
  BY <1>1, <1>3 DEF AnswersKept, InFlight, Answering
<1>4. ASSUME call.op # "answer", NEW t \in Slot, Answering(t)' PROVE Answering(t)
  BY <1>1, <1>4 DEF Answering
<1>5. QED
  BY <1>2, <1>3, <1>4

LEMMA Ended ==
  ASSUME CallsSound, NEW s \in Slot, Ends(s)
  PROVE  /\ CallsSound' /\ (calls[s].op # "answer" => AnswersKept)
         /\ \A t \in Slot : Answering(t)' => Answering(t)
<1>1. calls' = [calls EXCEPT ![s] = Free]
  BY DEF Ends
<1>2. QED
  BY <1>1, FreeIs, Replaced

LEMMA CallsStay == ASSUME CallsSound, UNCHANGED calls PROVE CallsSound' /\ AnswersKept
BY DEF CallsSound, Sound, AnswersKept, InFlight, Answering

-----------------------------------------------------------------------------
(* What a step that does not show a question, or leaves it as it was,      *)
(* keeps.                                                                  *)

LEMMA BoardStays ==
  ASSUME BoardSound, AnswersKept,
         UNCHANGED <<phase, question, selected, clock, paused>>,
         paused => sheet'.kind = "exit"
  PROVE  BoardSound'
BY DEF BoardSound, PauseIsTheSheets, QuestionIsAlive, AnswersKept

LEMMA BoardHidden ==
  ASSUME BoardSound, phase' # "question",
         paused' => paused /\ ~selected' /\ UNCHANGED <<clock, sheet>>
  PROVE  BoardSound'
BY DEF BoardSound, PauseIsTheSheets, QuestionIsAlive

LEMMA SessionStays ==
  ASSUME GameHasSession, UNCHANGED <<session, active, sheet>>,
         InGame' => InGame \/ phase' = phase
  PROVE  GameHasSession'
BY DEF GameHasSession, Real, InGame

LEMMA WheelGone ==
  ASSUME wheel' = "new"
  PROVE  WheelSound'
BY DEF WheelSound

LEMMA WheelStays ==
  ASSUME WheelSound, UNCHANGED wheel, phase = "spinning" => phase' = "spinning",
         question = None \/ question' # None,
         sheet'.kind = "new" => sheet.kind = "new"
  PROVE  WheelSound'
BY DEF WheelSound

LEMMA Together ==
  ASSUME Types', CallsSound', GameHasSession', BoardSound', WheelSound'
  PROVE  GameInv'
BY DEF GameInv

-----------------------------------------------------------------------------
(* The screen opens, and the server speaks.                                *)

LEMMA LobbyAsked ==
  LET cs == [s \in Slot |-> IF s = 1 THEN Ask("lobby") ELSE Free]
  IN  cs \in [Slot -> Call] /\ \A s \in Slot : Sound(cs[s]) /\ cs[s].op # "answer"
<1>1. Ask("lobby") \in Call /\ Sound(Ask("lobby")) /\ Ask("lobby").op = "lobby"
  BY AskIs DEF Ops
<1>2. QED
  BY <1>1, FreeIs

LEMMA InitHolds == Init => GameInv
<1> SUFFICES ASSUME Init PROVE GameInv
  OBVIOUS
<1>1. Types
  BY Atoms DEF Init, Types, Phases, Statuses
<1>2. CallsSound
  BY LobbyAsked DEF Init, CallsSound
<1>3. GameHasSession
  BY Atoms DEF Init, GameHasSession, InGame
<1>4. BoardSound
  BY DEF Init, BoardSound, PauseIsTheSheets, QuestionIsAlive
<1>5. WheelSound
  BY DEF Init, WheelSound
<1>6. QED
  BY <1>1, <1>2, <1>3, <1>4, <1>5 DEF GameInv

LEMMA ReopenStep == ASSUME GameInv, Reopen PROVE GameInv'
<1>1. Types'
  <2>1. Types
    BY DEF GameInv
  <2>2. QED
    BY <2>1, Atoms DEF Reopen, Opened, server, Types, Phases
<1>2. CallsSound'
  BY LobbyAsked DEF Reopen, Opened, CallsSound
<1>3. GameHasSession'
  BY Atoms DEF Reopen, Opened, GameHasSession, InGame
<1>4. BoardSound'
  BY DEF Reopen, Opened, BoardSound, PauseIsTheSheets, QuestionIsAlive
<1>5. WheelSound'
  BY DEF Reopen, Opened, WheelSound
<1>6. QED
  BY <1>1, <1>2, <1>3, <1>4, <1>5, Together

LEMMA Said ==
  ASSUME CallsSound, NEW s \in Slot, NEW said \in Session, Real(said), Says(s, said),
         calls[s].op # "spin", calls[s].op \in {"start", "answer"} => said # NoSession
  PROVE  CallsSound' /\ AnswersKept
<1> DEFINE call == [calls[s] EXCEPT !.handled = TRUE, !.said = said]
<1>1. calls[s] \in Call /\ Sound(calls[s])
  BY DEF CallsSound
<1>2. calls' = [calls EXCEPT ![s] = call]
  BY DEF Says, CallsSound
<1>3. call \in Call /\ Sound(call) /\ call.op = calls[s].op
  BY <1>1 DEF Call, Sound
<1> HIDE DEF call
<1>4. QED
  BY <1>2, <1>3, Replaced

LEMMA ServerStep == ASSUME GameInv, ServerNext PROVE GameInv'
<1>1. UNCHANGED <<phase, session, play, time, lobby, island, wheel, screen>>
  BY DEF ServerNext
<1>2. Types /\ CallsSound
  BY DEF GameInv
<1>3. PICK s \in Slot :
        ServerLobby(s) \/ ServerStarts(s) \/ ServerAsks(s) \/ ServerScores(s)
        \/ ServerAbandons(s)
  BY DEF ServerNext
<1>4. calls[s] \in Call /\ Sound(calls[s])
  BY <1>2 DEF CallsSound
<1>5. /\ CallsSound' /\ AnswersKept
      /\ games' \in [Game -> Statuses] /\ owner' \in [Question -> Game \cup {None}]
  <2>1. CASE ServerLobby(s)
    <3>1. PICK said \in Session : Says(s, said) /\ Real(said)
      <4>1. \A g \in Game : [id |-> g, status |-> "active"] \in Session
                            /\ Real([id |-> g, status |-> "active"])
        BY Atoms DEF Session, Statuses, Real
      <4>2. QED
        BY <2>1, <4>1, Atoms DEF ServerLobby
    <3>2. QED
      BY <1>2, <2>1, <3>1, Said DEF ServerLobby, Types, server
  <2>2. CASE ServerStarts(s)
    <3>1. PICK g \in Game : games' = [games EXCEPT ![g] = "active"]
                            /\ Says(s, [id |-> g, status |-> "active"])
      BY <2>2 DEF ServerStarts
    <3> DEFINE said == [id |-> g, status |-> "active"]
    <3>2. said \in Session /\ Real(said) /\ said # NoSession
      BY Atoms DEF Session, Statuses, Real, NoSession
    <3>3. games' \in [Game -> Statuses]
      BY <1>2, <3>1 DEF Types, Statuses
    <3> HIDE DEF said
    <3>4. Says(s, said) /\ calls[s].op = "start" /\ UNCHANGED owner
      BY <2>2, <3>1 DEF ServerStarts, said
    <3>5. QED
      BY <1>2, <3>2, <3>3, <3>4, Said DEF Types
  <2>3. CASE ServerAsks(s)
    <3>1. PICK q \in Question :
            /\ calls[s].op = "spin" /\ owner' = [owner EXCEPT ![q] = calls[s].game]
            /\ calls' = [calls EXCEPT ![s].handled = TRUE, ![s].question = q]
            /\ UNCHANGED games
      BY <2>3 DEF ServerAsks
    <3> DEFINE call == [calls[s] EXCEPT !.handled = TRUE, !.question = q]
    <3>2. calls' = [calls EXCEPT ![s] = call]
      BY <1>2, <3>1 DEF CallsSound
    <3>3. call \in Call /\ Sound(call) /\ call.op = calls[s].op
      BY <1>4, <3>1, Atoms DEF Call, Sound
    <3> HIDE DEF call
    <3>4. CallsSound' /\ AnswersKept
      BY <1>2, <3>2, <3>3, Replaced
    <3>5. owner' \in [Question -> Game \cup {None}]
      BY <1>2, <1>4, <3>1 DEF Types, Call
    <3>6. QED
      BY <1>2, <3>1, <3>4, <3>5 DEF Types
  <2>4. CASE ServerScores(s)
    <3>1. PICK status \in {"active"} \cup Endings :
            /\ games' = [games EXCEPT ![calls[s].game] = status]
            /\ Says(s, [id |-> calls[s].game, status |-> status])
            /\ calls[s].op = "answer" /\ UNCHANGED owner
      BY <2>4 DEF ServerScores
    <3> DEFINE said == [id |-> calls[s].game, status |-> status]
    <3>2. calls[s].game \in Game \cup {None} /\ calls[s].game # None /\ status \in Statuses
      BY <1>4, <3>1 DEF Call, Sound, Statuses
    <3>3. said \in Session /\ Real(said) /\ said # NoSession
      BY <3>2 DEF Session, Real, NoSession
    <3>4. games' \in [Game -> Statuses]
      BY <1>2, <3>1, <3>2 DEF Types
    <3> HIDE DEF said
    <3>5. Says(s, said)
      BY <3>1 DEF said
    <3>6. QED
      BY <1>2, <3>1, <3>3, <3>4, <3>5, Said DEF Types
  <2>5. CASE ServerAbandons(s)
    <3>1. games' \in [Game -> Statuses]
      BY <1>2, <2>5 DEF ServerAbandons, Types, Statuses
    <3>2. Says(s, NoSession) /\ UNCHANGED owner
          /\ calls[s].op \in {"abandonToStart", "abandonToLeave"}
      BY <2>5 DEF ServerAbandons
    <3>3. QED
      BY <1>2, <3>1, <3>2, Atoms, Said DEF Types
  <2>6. QED
    BY <1>3, <2>1, <2>2, <2>3, <2>4, <2>5
<1>6. Types'
  BY <1>1, <1>2, <1>5 DEF Types, play, time, lobby, island, screen
<1>7. GameHasSession'
  BY <1>1, SessionStays DEF GameInv, lobby, screen
<1>8. BoardSound'
  BY <1>1, <1>5, BoardStays DEF GameInv, play, time, screen, BoardSound, PauseIsTheSheets
<1>9. WheelSound'
  BY <1>1, WheelStays DEF GameInv, play, screen
<1>10. QED
  BY <1>5, <1>6, <1>7, <1>8, <1>9, Together

-----------------------------------------------------------------------------
(* The lobby.                                                              *)

LEMMA Begun ==
  ASSUME GameInv, GameBegins, CallsSound', UNCHANGED pending,
         sheet' \in {sheet, NoSheet}, paused => sheet' = sheet
  PROVE  GameInv'
<1>1. /\ phase' = "loading" /\ wheel' = "new" /\ paused' = FALSE /\ conquest' = None
      /\ question' = None /\ selected' = FALSE /\ result' = None
      /\ UNCHANGED <<session, clock, expired, active, failed, conquering, games, owner>>
  BY DEF GameBegins, lobby, server
<1>2. Types'
  BY <1>1, Atoms DEF GameInv, Types, Phases
<1>3. GameHasSession'
  BY <1>1, Atoms DEF GameInv, GameHasSession, Real, InGame
<1>4. BoardSound' /\ WheelSound'
  BY <1>1, BoardHidden, WheelGone DEF GameInv
<1>5. QED
  BY <1>2, <1>3, <1>4, Together

LEMMA LobbyStep == ASSUME GameInv, LobbyNext PROVE GameInv'
<1>1. Types /\ CallsSound /\ GameHasSession /\ BoardSound /\ WheelSound
  BY DEF GameInv
<1>2. ASSUME NEW op \in {"lobby", "history", "start"}, Launch(Ask(op))
      PROVE  CallsSound' /\ AnswersKept
  BY <1>1, <1>2, AskIs, Launched DEF Ops
<1>3. CASE RetryLobby
  <2>1. /\ phase = "idle" /\ phase' \in {"idle", "loading"} /\ Launch(Ask("lobby"))
        /\ UNCHANGED <<session, play, time, lobby, island, wheel, screen, server>>
    BY <1>3 DEF RetryLobby, LobbyPhase
  <2>2. Types'
    BY <1>1, <2>1 DEF Types, Phases, play, time, lobby, island, screen, server
  <2>3. GameHasSession'
    BY <1>1, <2>1 DEF GameHasSession, InGame, Real, lobby, screen
  <2>4. BoardSound'
    BY <1>1, <2>1, BoardHidden DEF play, time, screen, BoardSound
  <2>5. WheelSound'
    BY <1>1, <2>1 DEF WheelSound, play, screen
  <2>6. QED
    BY <1>2, <2>1, <2>2, <2>3, <2>4, <2>5, Together
<1>4. CASE RetryHistory
  <2>1. /\ phase = "idle" /\ phase' = "loading" /\ failed' = failed \ {"history"}
        /\ Launch(Ask("history"))
        /\ UNCHANGED <<session, active, play, time, island, wheel, screen, server>>
    BY <1>4 DEF RetryHistory
  <2>2. Types'
    BY <1>1, <2>1 DEF Types, Phases, play, time, island, screen, server
  <2>3. GameHasSession'
    BY <1>1, <2>1 DEF GameHasSession, InGame, Real, screen
  <2>4. BoardSound'
    BY <1>1, <2>1, BoardHidden DEF play, time, screen, BoardSound
  <2>5. WheelSound'
    BY <1>1, <2>1 DEF WheelSound, play, screen
  <2>6. QED
    BY <1>2, <2>1, <2>2, <2>3, <2>4, <2>5, Together
<1>5. CASE TapPlay
  BY <1>2, <1>5, Begun DEF TapPlay
<1>6. CASE TapNew
  <2>1. /\ phase = "idle" /\ sheet = NoSheet /\ active # NoSession
        /\ sheet' = [kind |-> "new", game |-> active.id]
        /\ UNCHANGED <<phase, session, play, time, lobby, island, wheel, pending, calls,
                       server>>
    BY <1>6 DEF TapNew, Dock
  <2>2. active.id \in Game \cup {None} /\ active.id # None
    BY <1>1, <2>1 DEF Types, Session, GameHasSession, Real
  <2>3. sheet' \in Sheets /\ sheet'.kind = "new" /\ sheet'.game = active.id
    BY <2>1, <2>2 DEF Sheets
  <2>4. Types'
    BY <1>1, <2>1, <2>3 DEF Types, play, time, lobby, island, server
  <2>5. GameHasSession'
    BY <1>1, <2>1, <2>2, <2>3 DEF GameHasSession, InGame, Real, lobby
  <2>6. ~paused
    BY <1>1, <2>1, Atoms DEF BoardSound, PauseIsTheSheets
  <2>7. BoardSound'
    BY <1>1, <2>1, <2>6, BoardHidden DEF play, time
  <2>8. WheelSound'
    BY <1>1, <2>1 DEF WheelSound, play
  <2>9. QED
    BY <1>1, <2>1, <2>4, <2>5, <2>7, <2>8, CallsStay, Together
<1>7. CASE ConfirmNew
  <2>1. sheet.kind = "new" /\ sheet' = NoSheet /\ UNCHANGED pending /\ ~paused
    BY <1>1, <1>7 DEF ConfirmNew, BoardSound, PauseIsTheSheets
  <2>2. CASE active = NoSession
    BY <1>2, <1>7, <2>1, <2>2, Begun DEF ConfirmNew
  <2>3. CASE active # NoSession
    <3>1. /\ Launch(AskFor("abandonToStart", active.id))
          /\ UNCHANGED <<phase, session, play, time, lobby, island, wheel, server>>
      BY <1>7, <2>3 DEF ConfirmNew
    <3>2. active.id \in Game \cup {None}
      BY <1>1 DEF Types, Session
    <3>3. CallsSound' /\ AnswersKept
      BY <1>1, <3>1, <3>2, AskForIs, Launched DEF Ops
    <3>4. Types'
      BY <1>1, <2>1, <3>1, Atoms DEF Types, play, time, lobby, island, server
    <3>5. GameHasSession'
      BY <1>1, <2>1, <3>1, Atoms DEF GameHasSession, InGame, Real, lobby
    <3>6. BoardSound'
      BY <1>1, <2>1, <3>1, <3>3, BoardStays DEF play, time
    <3>7. WheelSound'
      BY <1>1, <2>1, <3>1, Atoms DEF WheelSound, play
    <3>8. QED
      BY <3>3, <3>4, <3>5, <3>6, <3>7, Together
  <2>4. QED
    BY <2>2, <2>3
<1>8. CASE DismissNew
  <2>1. /\ sheet.kind = "new" /\ sheet' = NoSheet
        /\ UNCHANGED <<phase, session, play, time, lobby, island, wheel, pending, calls,
                       server>>
    BY <1>8 DEF DismissNew
  <2>2. CallsSound' /\ AnswersKept /\ ~paused
    BY <1>1, <2>1, CallsStay DEF BoardSound, PauseIsTheSheets
  <2>3. Types'
    BY <1>1, <2>1, Atoms DEF Types, play, time, lobby, island, server
  <2>4. GameHasSession'
    BY <1>1, <2>1, Atoms DEF GameHasSession, InGame, Real, lobby
  <2>5. BoardSound'
    BY <1>1, <2>1, <2>2, BoardStays DEF play, time
  <2>6. WheelSound'
    BY <1>1, <2>1, Atoms DEF WheelSound, play
  <2>7. QED
    BY <2>2, <2>3, <2>4, <2>5, <2>6, Together
<1>9. CASE ResumeGame
  <2>1. /\ sheet' = NoSheet /\ phase' = "spinning" /\ wheel' \in {wheel, "new"}
        /\ question' = None /\ selected' = FALSE /\ result' = None
        /\ paused' = FALSE /\ expired' = FALSE /\ conquest' = None
        /\ active' = NoSession
        /\ UNCHANGED <<clock, failed, conquering, pending, calls, server>>
    BY <1>9 DEF ResumeGame, EnterWheel
  <2>2. \/ phase = "idle" /\ active # NoSession /\ session' = active
        \/ sheet.kind = "new" /\ session' = [id |-> sheet.game, status |-> "active"]
    BY <1>9 DEF ResumeGame, Dock
  <2>3. session' \in Session /\ Real(session') /\ session' # NoSession
    <3>1. CASE session' = active /\ active # NoSession
      BY <1>1, <3>1 DEF Types, GameHasSession
    <3>2. CASE sheet.kind = "new" /\ session' = [id |-> sheet.game, status |-> "active"]
      <4>1. sheet.game \in Game \cup {None} /\ sheet.game # None
        BY <1>1, <3>2, Atoms DEF Types, Sheets, GameHasSession
      <4>2. QED
        BY <3>2, <4>1 DEF Session, Statuses, Real, NoSession
    <3>3. QED
      BY <2>2, <3>1, <3>2
  <2>4. Types'
    BY <1>1, <2>1, <2>3, Atoms DEF Types, Phases, server
  <2>5. GameHasSession'
    BY <2>1, <2>3, Atoms DEF GameHasSession, Real
  <2>6. BoardSound'
    BY <1>1, <2>1, BoardHidden
  <2>7. wheel' \in {"new", "still"}
    BY <1>1, <2>1, <2>2 DEF WheelSound
  <2>8. WheelSound'
    BY <2>1, <2>7, Atoms DEF WheelSound
  <2>9. QED
    BY <1>1, <2>1, <2>4, <2>5, <2>6, <2>8, CallsStay, Together
<1>10. QED
  BY <1>3, <1>4, <1>5, <1>6, <1>7, <1>8, <1>9 DEF LobbyNext

-----------------------------------------------------------------------------
(* The wheel and the question.                                             *)

LEMMA WheelStep == ASSUME GameInv, WheelNext PROVE GameInv'
<1>1. Types /\ CallsSound /\ GameHasSession /\ BoardSound /\ WheelSound
  BY DEF GameInv
<1>2. phase = "spinning" /\ session \in Session /\ session # NoSession
  BY <1>1 DEF WheelNext, WheelMounts, TapSpin, WheelTurns, WheelSettles, Types,
              GameHasSession, InGame
<1>3. CASE WheelMounts
  <2>1. /\ wheel = "new" /\ wheel' = "still"
        /\ UNCHANGED <<phase, session, play, time, lobby, island, sheet, pending, server>>
        /\ Launch(AskFor("spin", session.id)) \/ UNCHANGED calls
    BY <1>3 DEF WheelMounts
  <2>2. session.id \in Game \cup {None}
    BY <1>2 DEF Session
  <2>3. CallsSound' /\ AnswersKept
    BY <1>1, <2>1, <2>2, AskForIs, Launched, CallsStay DEF Ops
  <2>4. Types'
    BY <1>1, <2>1 DEF Types, play, time, lobby, island, server
  <2>5. GameHasSession'
    BY <1>1, <2>1, SessionStays DEF lobby
  <2>6. BoardSound'
    BY <1>1, <1>2, <2>1, BoardHidden DEF play, time, BoardSound
  <2>7. WheelSound'
    BY <1>1, <1>2, <2>1 DEF WheelSound
  <2>8. QED
    BY <2>3, <2>4, <2>5, <2>6, <2>7, Together
<1>4. CASE TapSpin \/ WheelTurns
  <2>1. /\ \/ wheel' = "wanted" /\ sheet = NoSheet
           \/ wheel = "wanted" /\ wheel' = "turning" /\ question # None
        /\ UNCHANGED <<phase, session, play, time, lobby, island, sheet, pending, calls,
                       server>>
    BY <1>4 DEF TapSpin, WheelTurns
  <2>2. Types'
    BY <1>1, <2>1 DEF Types, play, time, lobby, island, server
  <2>3. GameHasSession'
    BY <1>1, <2>1, SessionStays DEF lobby
  <2>4. BoardSound'
    BY <1>1, <1>2, <2>1, BoardHidden DEF play, time, BoardSound
  <2>5. sheet.kind # "new"
    BY <1>1, <2>1, Atoms DEF WheelSound
  <2>6. WheelSound'
    BY <1>2, <2>1, <2>5 DEF WheelSound, play
  <2>7. QED
    BY <1>1, <2>1, <2>2, <2>3, <2>4, <2>6, CallsStay, Together
<1>5. CASE WheelSettles
  <2>1. /\ wheel = "turning"
        /\ UNCHANGED <<session, question, paused, lobby, island, sheet, calls, server>>
    BY <1>5 DEF WheelSettles
  <2>2. CallsSound' /\ AnswersKept
    BY <1>1, <2>1, CallsStay
  <2>3. CASE wheel' = "settled"
    <3>1. /\ pending' = TRUE /\ UNCHANGED <<phase, selected, result, clock, expired>>
      BY <1>5, <2>3 DEF WheelSettles, QuestionOpens
    <3>2. Types'
      BY <1>1, <2>1, <2>3, <3>1 DEF Types, lobby, island, server
    <3>3. GameHasSession'
      BY <1>1, <2>1, <3>1, SessionStays DEF lobby
    <3>4. BoardSound'
      BY <1>1, <1>2, <2>1, <3>1, BoardHidden DEF BoardSound
    <3>5. WheelSound'
      BY <1>1, <1>2, <2>1, <2>3, <3>1 DEF WheelSound
    <3>6. QED
      BY <2>2, <3>2, <3>3, <3>4, <3>5, Together
  <2>4. CASE wheel' # "settled"
    <3>1. /\ sheet = NoSheet /\ question # None
          /\ phase' = "question" /\ wheel' = "new" /\ clock' = TRUE /\ expired' = FALSE
          /\ selected' = FALSE /\ result' = None /\ UNCHANGED pending
      BY <1>5, <2>4 DEF WheelSettles, QuestionOpens
    <3>2. ~paused
      BY <1>1, <3>1, Atoms DEF BoardSound, PauseIsTheSheets
    <3>3. Types'
      BY <1>1, <2>1, <3>1 DEF Types, Phases, lobby, island, server
    <3>4. GameHasSession'
      BY <1>1, <1>2, <2>1 DEF GameHasSession, Real, lobby
    <3>5. BoardSound'
      BY <2>1, <3>1, <3>2 DEF BoardSound, PauseIsTheSheets, QuestionIsAlive
    <3>6. QED
      BY <2>2, <3>1, <3>3, <3>4, <3>5, WheelGone, Together
  <2>5. QED
    BY <2>3, <2>4
<1>6. QED
  BY <1>3, <1>4, <1>5 DEF WheelNext

LEMMA BoardStep == ASSUME GameInv, BoardNext PROVE GameInv'
<1>1. Types /\ CallsSound /\ GameHasSession /\ BoardSound /\ WheelSound
  BY DEF GameInv
<1>2. ASSUME Answerable, Launch(AnswerCall)
      PROVE  CallsSound' /\ InFlight("answer")'
  BY <1>1, <1>2, AnswerIs, Launched
<1>3. CASE TapOption
  <2>1. /\ Answerable /\ clock' = FALSE /\ selected' = TRUE /\ Launch(AnswerCall)
        /\ UNCHANGED <<phase, session, question, result, paused, expired, lobby, island,
                       wheel, screen, server>>
    BY <1>3 DEF TapOption, CanAnswer
  <2>2. phase = "question" /\ ~paused
    BY <2>1 DEF Answerable
  <2>3. Types'
    BY <1>1, <2>1 DEF Types, lobby, island, screen, server
  <2>4. GameHasSession'
    BY <1>1, <2>1, SessionStays DEF lobby, screen
  <2>5. BoardSound'
    BY <1>1, <1>2, <2>1, <2>2 DEF BoardSound, PauseIsTheSheets, QuestionIsAlive
  <2>6. WheelSound'
    BY <1>1, <2>1, WheelStays DEF screen
  <2>7. QED
    BY <1>2, <2>1, <2>3, <2>4, <2>5, <2>6, Together
<1>4. CASE ClockExpires
  <2>1. /\ clock /\ clock' = FALSE /\ expired' = TRUE
        /\ IF Answerable THEN Launch(AnswerCall) ELSE UNCHANGED calls
        /\ UNCHANGED <<phase, session, play, paused, lobby, island, wheel, screen, server>>
    BY <1>4 DEF ClockExpires
  <2>2. ~paused
    BY <1>1, <2>1 DEF BoardSound, PauseIsTheSheets
  <2>3. phase = "question" => Answerable
    BY <1>1, <2>2 DEF Answerable, BoardSound, GameHasSession, InGame
  <2>4. CallsSound' /\ (phase = "question" => InFlight("answer")')
    BY <1>1, <1>2, <2>1, <2>3, CallsStay
  <2>5. Types'
    BY <1>1, <2>1 DEF Types, play, lobby, island, screen, server
  <2>6. GameHasSession'
    BY <1>1, <2>1, SessionStays DEF lobby, screen
  <2>7. BoardSound'
    BY <1>1, <2>1, <2>2, <2>4 DEF BoardSound, PauseIsTheSheets, QuestionIsAlive, play
  <2>8. WheelSound'
    BY <1>1, <2>1, WheelStays DEF screen, play
  <2>9. QED
    BY <2>4, <2>5, <2>6, <2>7, <2>8, Together
<1>5. CASE TapNext
  <2>1. /\ phase = "revealing" /\ sheet = NoSheet
        /\ UNCHANGED <<session, clock, paused, lobby, island, sheet, pending, calls, server>>
    BY <1>5 DEF TapNext
  <2>2. ~paused /\ wheel = "new" /\ session # NoSession
    BY <1>1, <2>1, Atoms DEF BoardSound, PauseIsTheSheets, WheelSound, GameHasSession, InGame
  <2>3. \/ phase' \in Endings /\ UNCHANGED <<play, expired, wheel>>
        \/ /\ phase' = "spinning" /\ wheel' = "new" /\ expired' = FALSE
           /\ question' = None /\ selected' = FALSE /\ result' = None
    BY <1>5, <2>2 DEF TapNext, EnterWheel
  <2>4. phase' \in Phases /\ phase' # "question" /\ wheel' = "new"
    BY <2>2, <2>3 DEF Phases, Endings
  <2>5. Types'
    BY <1>1, <2>1, <2>3, <2>4 DEF Types, play, lobby, island, server
  <2>6. GameHasSession'
    BY <1>1, <2>1, <2>2 DEF GameHasSession, Real, lobby
  <2>7. BoardSound'
    BY <1>1, <2>1, <2>2, <2>4, BoardHidden
  <2>8. QED
    BY <1>1, <2>1, <2>4, <2>5, <2>6, <2>7, WheelGone, CallsStay, Together
<1>6. QED
  BY <1>3, <1>4, <1>5 DEF BoardNext

-----------------------------------------------------------------------------
(* The exit sheet and the end of a game.                                   *)

LEMMA Cleared ==
  ASSUME GameInv, BoardCleared, CallsSound', UNCHANGED <<session, expired, lobby, conquering, server>>,
         conquest' \in {conquest, None}, pending' \in BOOLEAN, sheet' \in {sheet, NoSheet}
  PROVE  GameInv'
<1>1. /\ phase' = "loading" /\ wheel' = "new" /\ clock' = FALSE /\ paused' = FALSE
      /\ question' = None /\ selected' = FALSE /\ result' = None
  BY DEF BoardCleared
<1>2. Types'
  BY <1>1, Atoms DEF GameInv, Types, Phases, lobby, server
<1>3. GameHasSession'
  BY <1>1, Atoms DEF GameInv, GameHasSession, Real, InGame, lobby
<1>4. BoardSound' /\ WheelSound'
  BY <1>1, BoardHidden, WheelGone DEF GameInv
<1>5. QED
  BY <1>2, <1>3, <1>4, Together

LEMMA ExitStep == ASSUME GameInv, ExitNext PROVE GameInv'
<1>1. Types /\ CallsSound /\ GameHasSession /\ BoardSound /\ WheelSound
  BY DEF GameInv
<1>2. ASSUME Launch(Ask("lobby")) PROVE CallsSound'
  BY <1>1, <1>2, AskIs, Launched DEF Ops
<1>3. CASE TapExit
  <2>1. /\ sheet = NoSheet /\ sheet' = [kind |-> "exit", game |-> None]
        /\ \/ phase = "question" /\ ~selected /\ clock' = FALSE /\ paused' = TRUE
           \/ UNCHANGED <<clock, paused>>
        /\ UNCHANGED <<phase, session, play, expired, lobby, island, wheel, pending, calls,
                       server>>
    BY <1>3 DEF TapExit
  <2>2. sheet' \in Sheets /\ sheet'.kind = "exit" /\ ~paused
    BY <1>1, <2>1, Atoms DEF Sheets, BoardSound, PauseIsTheSheets
  <2>3. CallsSound' /\ AnswersKept
    BY <1>1, <2>1, CallsStay
  <2>4. Types'
    BY <1>1, <2>1, <2>2 DEF Types, play, lobby, island, server
  <2>5. GameHasSession'
    BY <1>1, <2>1, <2>2 DEF GameHasSession, Real, InGame, lobby
  <2>6. BoardSound'
    <3>1. CASE UNCHANGED <<clock, paused>>
      BY <1>1, <2>1, <2>2, <2>3, <3>1, BoardStays DEF play
    <3>2. CASE phase = "question" /\ ~selected /\ clock' = FALSE /\ paused' = TRUE
      BY <1>1, <2>1, <2>2, <3>2 DEF BoardSound, PauseIsTheSheets, QuestionIsAlive, play
    <3>3. QED
      BY <2>1, <3>1, <3>2
  <2>7. WheelSound'
    BY <1>1, <2>1, <2>2 DEF WheelSound, play
  <2>8. QED
    BY <2>3, <2>4, <2>5, <2>6, <2>7, Together
<1>4. CASE KeepPlaying
  <2>1. /\ sheet.kind = "exit" /\ sheet' = NoSheet /\ paused' = FALSE /\ pending' = FALSE
        /\ UNCHANGED <<session, question, lobby, island, calls, server>>
    BY <1>4 DEF KeepPlaying
  <2>2. CallsSound' /\ AnswersKept
    BY <1>1, <2>1, CallsStay
  <2>3. CASE SettleOwed
    <3>1. /\ phase = "spinning" /\ question # None
          /\ phase' = "question" /\ wheel' = "new" /\ clock' = TRUE /\ expired' = FALSE
          /\ selected' = FALSE /\ result' = None
      BY <1>4, <2>3 DEF KeepPlaying, SettleOwed, QuestionOpens
    <3>2. Types'
      BY <1>1, <2>1, <3>1, Atoms DEF Types, Phases, lobby, island, server
    <3>3. GameHasSession'
      BY <1>1, <2>1, <3>1, Atoms DEF GameHasSession, Real, InGame, lobby
    <3>4. BoardSound'
      BY <2>1, <3>1 DEF BoardSound, PauseIsTheSheets, QuestionIsAlive
    <3>5. QED
      BY <2>2, <3>1, <3>2, <3>3, <3>4, WheelGone, Together
  <2>4. CASE ~SettleOwed
    <3>1. clock' = ResumedClock /\ UNCHANGED <<phase, wheel, selected, result, expired>>
      BY <1>4, <2>4 DEF KeepPlaying
    <3>2. /\ clock' \in BOOLEAN /\ (clock => clock')
          /\ clock' => clock \/ (phase = "question" /\ ~selected)
          /\ paused /\ phase = "question" /\ ~selected => clock'
      <4>1. clock' = (clock \/ (paused /\ phase = "question" /\ ~selected))
        BY <3>1 DEF ResumedClock
      <4>2. QED
        BY <4>1, Zenon
    <3>3. Types'
      BY <1>1, <2>1, <3>1, <3>2, Atoms DEF Types, lobby, island, server
    <3>4. GameHasSession'
      BY <1>1, <2>1, <3>1, Atoms DEF GameHasSession, Real, InGame, lobby
    <3>5. BoardSound'
      BY <1>1, <2>1, <2>2, <3>1, <3>2
         DEF BoardSound, PauseIsTheSheets, QuestionIsAlive, AnswersKept
    <3>6. WheelSound'
      BY <1>1, <2>1, <3>1, Atoms DEF WheelSound
    <3>7. QED
      BY <2>2, <3>3, <3>4, <3>5, <3>6, Together
  <2>5. QED
    BY <2>3, <2>4
<1>5. CASE Leave
  BY <1>2, <1>5, Cleared DEF Leave, island
<1>6. CASE AbandonAndLeave
  <2>1. session.id \in Game \cup {None}
    BY <1>1 DEF Types, Session
  <2>2. CallsSound'
    BY <1>1, <1>2, <1>6, <2>1, AskForIs, Launched DEF AbandonAndLeave, Ops
  <2>3. QED
    BY <1>6, <2>2, Cleared DEF AbandonAndLeave, island
<1>7. QED
  BY <1>3, <1>4, <1>5, <1>6 DEF ExitNext

LEMMA EndStep == ASSUME GameInv, EndNext PROVE GameInv'
<1>1. Types /\ CallsSound /\ GameHasSession /\ BoardSound /\ WheelSound
  BY DEF GameInv
<1>2. CASE BackToLobby
  <2>1. CallsSound'
    BY <1>1, <1>2, AskIs, Launched DEF BackToLobby, Ops
  <2>2. UNCHANGED <<sheet, pending>> /\ pending \in BOOLEAN
    BY <1>1, <1>2 DEF BackToLobby, screen, Types
  <2>3. QED
    BY <1>2, <2>1, <2>2, Cleared DEF BackToLobby
<1>3. CASE PlayAgain
  <2>1. CallsSound'
    BY <1>1, <1>3, AskIs, Launched DEF PlayAgain, Ops
  <2>2. QED
    BY <1>3, <2>1, Begun DEF PlayAgain
<1>4. CASE Conquer
  <2>1. /\ phase = "won" /\ conquering' = TRUE /\ Launch(AskFor("conquer", session.id))
        /\ UNCHANGED <<phase, session, play, time, lobby, conquest, wheel, screen, server>>
    BY <1>4 DEF Conquer
  <2>2. session.id \in Game \cup {None}
    BY <1>1 DEF Types, Session
  <2>3. CallsSound' /\ AnswersKept
    BY <1>1, <2>1, <2>2, AskForIs, Launched DEF Ops
  <2>4. Types'
    BY <1>1, <2>1 DEF Types, play, time, lobby, screen, server
  <2>5. GameHasSession'
    BY <1>1, <2>1, SessionStays DEF lobby, screen
  <2>6. BoardSound'
    BY <1>1, <2>1, BoardHidden DEF play, time, screen, BoardSound
  <2>7. WheelSound'
    BY <1>1, <2>1, WheelStays DEF play, screen
  <2>8. QED
    BY <2>3, <2>4, <2>5, <2>6, <2>7, Together
<1>5. QED
  BY <1>2, <1>3, <1>4 DEF EndNext

-----------------------------------------------------------------------------
(* What arrives.                                                           *)

LEMMA ArrivalStep == ASSUME GameInv, Arrivals PROVE GameInv'
<1>1. Types /\ CallsSound /\ GameHasSession /\ BoardSound /\ WheelSound
  BY DEF GameInv
<1>2. PICK s \in Slot : \/ LobbyArrives(s) \/ HistoryArrives(s)
                        \/ AbandonedToStart(s) \/ StartArrives(s)
                        \/ SpinArrives(s) \/ AnswerArrives(s)
                        \/ GameCallFails(s) \/ AbandonedToLeave(s)
                        \/ ConquerEnds(s)
  BY DEF Arrivals
<1>3. /\ calls[s] \in Call /\ Sound(calls[s])
      /\ calls[s].said \in Session /\ Real(calls[s].said)
      /\ calls[s].question \in Question \cup {None} /\ calls[s].game \in Game \cup {None}
  BY <1>1 DEF CallsSound, Call, Sound
<1>4. CASE LobbyArrives(s) \/ HistoryArrives(s)
  <2>1. /\ Ends(s) /\ phase' = "idle" /\ wheel' = "new"
        /\ active' \in {calls[s].said, NoSession, active}
        /\ failed' \in SUBSET {"lobby", "history"}
        /\ UNCHANGED <<session, play, time, island, screen, server>>
    BY <1>1, <1>4 DEF LobbyArrives, HistoryArrives, Types
  <2>2. CallsSound'
    BY <1>1, <2>1, Ended
  <2>3. active' \in Session /\ Real(active')
    BY <1>1, <1>3, <2>1, Atoms DEF Types, GameHasSession
  <2>4. Types'
    BY <1>1, <2>1, <2>3 DEF Types, Phases, play, time, island, screen, server
  <2>5. GameHasSession'
    BY <1>1, <2>1, <2>3 DEF GameHasSession, Real, InGame, screen
  <2>6. BoardSound'
    BY <1>1, <2>1, BoardHidden DEF play, time, screen, BoardSound
  <2>7. QED
    BY <2>1, <2>2, <2>4, <2>5, <2>6, WheelGone, Together
<1>5. CASE AbandonedToStart(s)
  <2>1. calls' = [calls EXCEPT ![s] = Ask("start")] /\ GameBegins
        /\ UNCHANGED <<sheet, pending>>
    BY <1>5 DEF AbandonedToStart
  <2>2. CallsSound'
    BY <1>1, <2>1, AskIs, Replaced DEF Ops
  <2>3. QED
    BY <2>1, <2>2, Begun
<1>6. CASE StartArrives(s)
  <2>1. /\ calls[s].op = "start" /\ calls[s].handled /\ Ends(s)
        /\ phase' = "spinning" /\ wheel' \in {wheel, "new"}
        /\ session' = calls[s].said /\ active' = NoSession /\ expired' = FALSE
        /\ UNCHANGED <<play, clock, paused, failed, island, sheet, pending, server>>
    BY <1>6 DEF StartArrives, EnterWheel
  <2>2. CallsSound' /\ session' # NoSession
    BY <1>1, <1>3, <2>1, Ended DEF Sound
  <2>3. Types'
    BY <1>1, <1>3, <2>1, Atoms DEF Types, Phases, play, island, server
  <2>4. GameHasSession'
    BY <1>1, <1>3, <2>1, <2>2, Atoms DEF GameHasSession, Real
  <2>5. BoardSound'
    BY <1>1, <2>1, BoardHidden DEF play, BoardSound
  <2>6. WheelSound'
    BY <1>1, <2>1 DEF WheelSound, play
  <2>7. QED
    BY <2>2, <2>3, <2>4, <2>5, <2>6, Together
<1>7. CASE SpinArrives(s)
  <2>1. /\ calls[s].op = "spin" /\ calls[s].handled /\ Ends(s)
        /\ question' = calls[s].question /\ selected' = FALSE /\ result' = None
        /\ UNCHANGED <<phase, session, time, lobby, island, wheel, screen, server>>
    BY <1>7 DEF SpinArrives
  <2>2. CallsSound' /\ AnswersKept /\ question' # None
    BY <1>1, <1>3, <2>1, Ended DEF Sound
  <2>3. Types'
    BY <1>1, <1>3, <2>1 DEF Types, time, lobby, island, screen, server
  <2>4. GameHasSession'
    BY <1>1, <2>1, SessionStays DEF lobby, screen
  <2>5. BoardSound'
    BY <1>1, <2>1, <2>2
       DEF BoardSound, PauseIsTheSheets, QuestionIsAlive, AnswersKept, time, screen
  <2>6. WheelSound'
    BY <1>1, <2>1, <2>2, WheelStays DEF screen
  <2>7. QED
    BY <2>2, <2>3, <2>4, <2>5, <2>6, Together
<1>8. CASE AnswerArrives(s)
  <2>1. /\ calls[s].op = "answer" /\ calls[s].handled /\ Ends(s)
        /\ phase' = "revealing" /\ wheel' = "new"
        /\ result' = calls[s].question /\ session' = calls[s].said
        /\ UNCHANGED <<question, selected, time, lobby, island, screen, server>>
    BY <1>8 DEF AnswerArrives
  <2>2. CallsSound' /\ session' # NoSession
    BY <1>1, <1>3, <2>1, Ended DEF Sound
  <2>3. Types'
    BY <1>1, <1>3, <2>1 DEF Types, Phases, time, lobby, island, screen, server
  <2>4. GameHasSession'
    BY <1>1, <1>3, <2>1, <2>2 DEF GameHasSession, Real, lobby, screen
  <2>5. BoardSound'
    BY <1>1, <2>1, BoardHidden DEF time, screen, BoardSound
  <2>6. QED
    BY <2>1, <2>2, <2>3, <2>4, <2>5, WheelGone, Together
<1>9. CASE GameCallFails(s)
  <2>1. /\ Ends(s) /\ phase' = "error" /\ wheel' = "new"
        /\ UNCHANGED <<session, play, time, lobby, island, screen, server>>
    BY <1>9 DEF GameCallFails
  <2>2. Types'
    BY <1>1, <2>1 DEF Types, Phases, play, time, lobby, island, screen, server
  <2>3. GameHasSession'
    BY <1>1, <2>1 DEF GameHasSession, Real, InGame, lobby, screen
  <2>4. BoardSound'
    BY <1>1, <2>1, BoardHidden DEF play, time, screen, BoardSound
  <2>5. QED
    BY <1>1, <2>1, <2>2, <2>3, <2>4, Ended, WheelGone, Together
<1>10. CASE AbandonedToLeave(s)
  <2>1. /\ calls[s].op = "abandonToLeave" /\ calls' = [calls EXCEPT ![s] = Ask("lobby")]
        /\ \/ phase' = phase
           \/ phase = "idle" /\ phase' = "loading"
        /\ UNCHANGED <<session, play, time, lobby, island, wheel, screen, server>>
    BY <1>10 DEF AbandonedToLeave, LobbyPhase
  <2>2. CallsSound' /\ AnswersKept
    BY <1>1, <2>1, AskIs, Replaced DEF Ops
  <2>3. Types'
    BY <1>1, <2>1 DEF Types, Phases, play, time, lobby, island, screen, server
  <2>4. GameHasSession'
    BY <1>1, <2>1 DEF GameHasSession, Real, InGame, lobby, screen
  <2>5. BoardSound'
    BY <1>1, <2>1, <2>2
       DEF BoardSound, PauseIsTheSheets, QuestionIsAlive, AnswersKept, play, time, screen
  <2>6. WheelSound'
    BY <1>1, <2>1 DEF WheelSound, play, screen
  <2>7. QED
    BY <2>2, <2>3, <2>4, <2>5, <2>6, Together
<1>11. CASE ConquerEnds(s)
  <2>1. /\ calls[s].op = "conquer" /\ Ends(s) /\ conquering' = FALSE
        /\ conquest' \in {conquest, calls[s].game}
        /\ UNCHANGED <<phase, session, play, time, lobby, wheel, screen, server>>
    BY <1>11 DEF ConquerEnds
  <2>2. CallsSound' /\ AnswersKept
    BY <1>1, <2>1, Ended
  <2>3. Types'
    BY <1>1, <1>3, <2>1 DEF Types, play, time, lobby, screen, server
  <2>4. GameHasSession'
    BY <1>1, <2>1, SessionStays DEF lobby, screen
  <2>5. BoardSound'
    BY <1>1, <2>1, <2>2, BoardStays DEF play, time, screen, BoardSound, PauseIsTheSheets
  <2>6. WheelSound'
    BY <1>1, <2>1, WheelStays DEF play, screen
  <2>7. QED
    BY <2>2, <2>3, <2>4, <2>5, <2>6, Together
<1>12. QED
  BY <1>2, <1>4, <1>5, <1>6, <1>7, <1>8, <1>9, <1>10, <1>11

LEMMA NextStep == ASSUME GameInv, [Next]_vars PROVE GameInv'
<1>1. CASE UNCHANGED vars
  <2>1. Types /\ CallsSound /\ GameHasSession /\ BoardSound /\ WheelSound
    BY DEF GameInv
  <2>2. /\ UNCHANGED <<phase, session, play, time, lobby, island, wheel, screen>>
        /\ UNCHANGED calls /\ UNCHANGED server
    BY <1>1 DEF vars
  <2>3. CallsSound' /\ AnswersKept
    BY <2>1, <2>2, CallsStay
  <2>4. Types'
    BY <2>1, <2>2 DEF Types, play, time, lobby, island, screen, server
  <2>5. GameHasSession' /\ WheelSound'
    BY <2>1, <2>2, SessionStays, WheelStays DEF play, lobby, screen
  <2>6. BoardSound'
    BY <2>1, <2>2, <2>3, BoardStays DEF play, time, screen, BoardSound, PauseIsTheSheets
  <2>7. QED
    BY <2>3, <2>4, <2>5, <2>6, Together
<1>2. QED
  BY <1>1, ReopenStep, LobbyStep, WheelStep, BoardStep, ExitStep, EndStep, ArrivalStep,
     ServerStep DEF Next

-----------------------------------------------------------------------------
(* The theorems.                                                           *)

(* The parts of GameInv hold of every reachable state, however late the    *)
(* answers of the games before arrive.                                     *)
THEOREM GameIsConsistent == Spec => []GameInv
<1>1. Init => GameInv
  BY InitHolds
<1>2. GameInv /\ [Next]_vars => GameInv'
  BY NextStep
<1>3. QED
  BY <1>1, <1>2, PTL DEF Spec

(* The state of the cubit and of the screen keeps its types, and an answer *)
(* is always sent for a session and for a question.                        *)
THEOREM GameTypeCorrect == Spec => []TypeOK
<1>1. GameInv => TypeOK
  BY DEF GameInv, Types, CallsSound, Sound, TypeOK
<1>2. QED
  BY <1>1, GameIsConsistent, PTL

(* A question on screen always goes somewhere: its clock runs, or the exit *)
(* sheet has stopped it, or an answer is on its way.                       *)
THEOREM QuestionsDoNotHang == Spec => []QuestionIsAlive
<1>1. GameInv => QuestionIsAlive
  BY DEF GameInv, BoardSound
<1>2. QED
  BY <1>1, GameIsConsistent, PTL

(* The clock stands still while the exit sheet says so, and the pause does *)
(* not outlive the sheet.                                                  *)
THEOREM PauseEndsWithItsSheet == Spec => []PauseIsTheSheets
<1>1. GameInv => PauseIsTheSheets
  BY DEF GameInv, BoardSound
<1>2. QED
  BY <1>1, GameIsConsistent, PTL

-----------------------------------------------------------------------------
(* Steps over a question whose option is chosen.                           *)

LEMMA LobbySends ==
  ASSUME GameInv, LobbyNext, phase = "question" PROVE AnswersKept
<1>1. CallsSound /\ active.id \in Game \cup {None}
  BY DEF GameInv, Types, Session
<1>2. CASE ConfirmNew
  <2>1. Launch(Ask("start")) \/ Launch(AskFor("abandonToStart", active.id))
    BY <1>2 DEF ConfirmNew
  <2>2. QED
    BY <1>1, <2>1, AskIs, AskForIs, Launched DEF Ops
<1>3. CASE DismissNew \/ ResumeGame
  <2>1. UNCHANGED calls
    BY <1>3 DEF DismissNew, ResumeGame
  <2>2. QED
    BY <1>1, <2>1, CallsStay
<1>4. QED
  BY <1>2, <1>3 DEF LobbyNext, RetryLobby, RetryHistory, TapPlay, TapNew, Dock

LEMMA ExitSends ==
  ASSUME GameInv, ExitNext PROVE AnswersKept
<1>1. CallsSound /\ session.id \in Game \cup {None}
  BY DEF GameInv, Types, Session
<1>2. CASE TapExit \/ KeepPlaying
  <2>1. UNCHANGED calls
    BY <1>2 DEF TapExit, KeepPlaying
  <2>2. QED
    BY <1>1, <2>1, CallsStay
<1>3. CASE Leave \/ AbandonAndLeave
  <2>1. Launch(Ask("lobby")) \/ Launch(AskFor("abandonToLeave", session.id))
    BY <1>3 DEF Leave, AbandonAndLeave
  <2>2. QED
    BY <1>1, <2>1, AskIs, AskForIs, Launched DEF Ops
<1>4. QED
  BY <1>2, <1>3 DEF ExitNext

LEMMA ArrivalSends ==
  ASSUME CallsSound, Arrivals, NEW t \in Slot, Answering(t)' PROVE Answering(t)
<1>1. PICK s \in Slot : \/ Ends(s)
                        \/ calls' = [calls EXCEPT ![s] = Ask("start")]
                        \/ calls' = [calls EXCEPT ![s] = Ask("lobby")]
  BY DEF Arrivals, LobbyArrives, HistoryArrives, AbandonedToStart, StartArrives, SpinArrives,
         AnswerArrives, GameCallFails, AbandonedToLeave, ConquerEnds
<1>2. QED
  BY <1>1, Ended, AskIs, Replaced DEF Ops

(* What the server says changes nothing else of a call.                    *)
LEMMA ServerKeepsOps ==
  ASSUME CallsSound, ServerNext, NEW t \in Slot PROVE calls'[t].op = calls[t].op
<1>1. PICK s \in Slot :
        ServerLobby(s) \/ ServerStarts(s) \/ ServerAsks(s) \/ ServerScores(s)
        \/ ServerAbandons(s)
  BY DEF ServerNext
<1>2. calls \in [Slot -> Call] /\ calls[t] \in Call
  BY DEF CallsSound
<1>3. ASSUME NEW x, Says(s, x) PROVE calls'[t].op = calls[t].op
  BY <1>2, <1>3 DEF Says, Call
<1>4. CASE ServerAsks(s)
  <2>1. PICK q \in Question :
          calls' = [calls EXCEPT ![s].handled = TRUE, ![s].question = q]
    BY <1>4 DEF ServerAsks
  <2>2. QED
    BY <1>2, <2>1 DEF Call
<1>5. QED
  BY <1>1, <1>3, <1>4 DEF ServerLobby, ServerStarts, ServerScores, ServerAbandons

LEMMA TouchStep ==
  ASSUME GameInv, [Next]_vars, selected, phase = "question", NEW t \in Slot, Answering(t)'
  PROVE  Answering(t)
<1>1. CallsSound /\ ~clock
  BY DEF GameInv, BoardSound
<1>2. CASE LobbyNext \/ ExitNext
  BY <1>2, LobbySends, ExitSends DEF AnswersKept
<1>3. CASE Arrivals
  BY <1>1, <1>3, ArrivalSends
<1>4. CASE ServerNext
  BY <1>1, <1>4, ServerKeepsOps DEF Answering
<1>5. CASE UNCHANGED vars
  BY <1>5 DEF vars, Answering
<1>6. ~BoardNext /\ ~Reopen /\ ~WheelNext /\ ~EndNext
  BY <1>1 DEF BoardNext, TapOption, CanAnswer, ClockExpires, TapNext, Reopen, InGame,
              WheelNext, WheelMounts, TapSpin, WheelTurns, WheelSettles,
              EndNext, BackToLobby, PlayAgain, Conquer, Endings
<1>7. QED
  BY <1>2, <1>3, <1>4, <1>5, <1>6 DEF Next

(* An option that was tapped is the answer: while it shows as chosen       *)
(* neither the clock, nor another tap, nor the exit sheet sends another.   *)
THEOREM OneAnswerPerQuestion == Spec => TouchIsFinal
<1>1. GameInv /\ [Next]_vars
        => [selected /\ phase = "question"
              => \A s \in Slot : Answering(s)' => Answering(s)]_vars
  BY TouchStep
<1>2. QED
  BY <1>1, GameIsConsistent, PTL DEF Spec, TouchIsFinal

-----------------------------------------------------------------------------
(* Steps over a wheel.                                                     *)

SpinKept == InFlight("spin") => InFlight("spin")'

LEMMA LaunchKeepsSpin ==
  ASSUME CallsSound, NEW call, Launch(call)
  PROVE  SpinKept
<1>1. PICK s \in Slot : calls[s] = Free /\ calls' = [calls EXCEPT ![s] = call]
  BY DEF Launch
<1>2. \A t \in Slot : t # s => calls'[t] = calls[t]
  BY <1>1 DEF CallsSound
<1>3. calls[s].op # "spin"
  BY <1>1, FreeIs
<1>4. QED
  BY <1>2, <1>3 DEF SpinKept, InFlight

LEMMA ReplacingKeepsSpin ==
  ASSUME CallsSound, NEW s \in Slot, NEW call, calls' = [calls EXCEPT ![s] = call],
         calls[s].op # "spin"
  PROVE  SpinKept
<1>1. \A t \in Slot : t # s => calls'[t] = calls[t]
  BY DEF CallsSound
<1>2. QED
  BY <1>1 DEF SpinKept, InFlight

(* The wheel of before is the wheel of now.                                *)
LEMMA WheelAsItWas ==
  ASSUME WheelIsAlive, SpinKept, phase = "spinning",
         UNCHANGED <<wheel, pending, sheet>>, question # None => question' # None
  PROVE  WheelIsAlive'
BY DEF WheelIsAlive, SpinKept

LEMMA WheelNew == ASSUME wheel' = "new" \/ phase' # "spinning" PROVE WheelIsAlive'
BY DEF WheelIsAlive

(* The steps that leave phase and wheel as they were, or put a new one.    *)
LEMMA LobbyOfWheel ==
  ASSUME GameInv, WheelIsAlive, LobbyNext
  PROVE  WheelIsAlive' \/ (phase = "spinning" /\ ResumeGame)
<1>1. CallsSound /\ WheelSound
  BY DEF GameInv
<1>2. CASE RetryLobby \/ RetryHistory \/ TapPlay \/ TapNew
  BY <1>2, WheelNew DEF RetryLobby, LobbyPhase, RetryHistory, TapPlay, GameBegins, TapNew, Dock
<1>3. CASE ConfirmNew
  <2>1. CASE active = NoSession
    BY <1>3, <2>1, WheelNew DEF ConfirmNew, GameBegins
  <2>2. CASE active # NoSession
    <3>1. /\ sheet.kind = "new" /\ UNCHANGED <<phase, wheel, play>>
          /\ Launch(AskFor("abandonToStart", active.id))
      BY <1>3, <2>2 DEF ConfirmNew
    <3>2. SpinKept
      BY <1>1, <3>1, LaunchKeepsSpin
    <3>3. QED
      BY <1>1, <3>1, <3>2 DEF WheelIsAlive, SpinKept, WheelSound, play
  <2>3. QED
    BY <2>1, <2>2
<1>4. CASE DismissNew
  <2>1. sheet.kind = "new" /\ UNCHANGED <<phase, wheel, play, calls>>
    BY <1>4 DEF DismissNew
  <2>2. QED
    BY <1>1, <2>1 DEF WheelIsAlive, WheelSound, play, InFlight
<1>5. CASE ResumeGame
  BY <1>1, <1>5, WheelNew DEF ResumeGame, EnterWheel, WheelSound
<1>6. QED
  BY <1>2, <1>3, <1>4, <1>5 DEF LobbyNext

LEMMA WheelOfWheel ==
  ASSUME GameInv, WheelIsAlive, WheelNext
  PROVE  WheelIsAlive'
<1>1. /\ CallsSound /\ WheelSound /\ (phase = "spinning" => session # NoSession)
      /\ sheet \in Sheets
  BY DEF GameInv, GameHasSession, InGame, Types
<1>2. CASE WheelMounts
  <2>1. /\ wheel' = "still" /\ phase = "spinning" /\ UNCHANGED question
        /\ IF question = None /\ session # NoSession
             THEN Launch(AskFor("spin", session.id)) ELSE UNCHANGED calls
    BY <1>2 DEF WheelMounts, play
  <2>2. CASE question = None
    <3>1. Launch(AskFor("spin", session.id)) /\ session.id \in Game \cup {None}
      BY <1>1, <2>1, <2>2 DEF GameInv, Types, Session
    <3>2. InFlight("spin")'
      BY <1>1, <3>1, AskForIs, Launched DEF Ops
    <3>3. QED
      BY <2>1, <3>2 DEF WheelIsAlive
  <2>3. CASE question # None
    BY <2>1, <2>3 DEF WheelIsAlive
  <2>4. QED
    BY <2>2, <2>3
<1>3. CASE TapSpin
  BY <1>3 DEF TapSpin, WheelIsAlive, play, InFlight
<1>4. CASE WheelTurns
  BY <1>4 DEF WheelTurns, WheelIsAlive, play
<1>5. CASE WheelSettles
  <2>1. wheel = "turning" /\ question' = question /\ question # None /\ sheet' = sheet
    BY <1>1, <1>5 DEF WheelSettles, WheelSound
  <2>2. CASE sheet = NoSheet
    BY <1>5, <2>2, WheelNew DEF WheelSettles, QuestionOpens
  <2>3. CASE sheet # NoSheet
    <3>1. sheet.kind = "exit"
      BY <1>1, <2>1, <2>3 DEF Sheets, WheelSound
    <3>2. wheel' = "settled" /\ pending' = TRUE
      BY <1>5, <2>3 DEF WheelSettles
    <3>3. QED
      BY <2>1, <3>1, <3>2 DEF WheelIsAlive
  <2>4. QED
    BY <2>2, <2>3
<1>6. QED
  BY <1>2, <1>3, <1>4, <1>5 DEF WheelNext

LEMMA PlayerOfWheel ==
  ASSUME GameInv, WheelIsAlive, BoardNext \/ ExitNext \/ EndNext \/ Reopen
  PROVE  WheelIsAlive'
<1>1. CallsSound /\ WheelSound
  BY DEF GameInv
<1>2. CASE BoardNext
  <2>1. CASE TapOption
    BY <2>1, WheelNew DEF TapOption, CanAnswer, Answerable
  <2>2. CASE ClockExpires
    <3>1. /\ Launch(AnswerCall) \/ UNCHANGED calls
          /\ UNCHANGED <<phase, wheel, pending, sheet, question>>
      BY <2>2 DEF ClockExpires, screen, play
    <3>2. SpinKept
      BY <1>1, <3>1, LaunchKeepsSpin DEF SpinKept, InFlight
    <3>3. QED
      BY <3>1, <3>2, WheelAsItWas, WheelNew
  <2>3. CASE TapNext
    <3>1. wheel = "new"
      BY <1>1, <2>3 DEF TapNext, WheelSound
    <3>2. QED
      BY <2>3, <3>1, WheelNew DEF TapNext, EnterWheel, Endings
  <2>4. QED
    BY <1>2, <2>1, <2>2, <2>3 DEF BoardNext
<1>3. CASE ExitNext
  <2>1. CASE TapExit
    <3>1. sheet = NoSheet /\ UNCHANGED <<phase, wheel, question, calls>>
      BY <2>1 DEF TapExit, play
    <3>2. QED
      BY <3>1, Atoms DEF WheelIsAlive, InFlight
  <2>2. CASE KeepPlaying
    <3>1. CASE SettleOwed
      BY <2>2, <3>1, WheelNew DEF KeepPlaying, QuestionOpens
    <3>2. CASE ~SettleOwed
      <4>1. UNCHANGED <<phase, wheel, question, calls>>
        BY <2>2, <3>2 DEF KeepPlaying
      <4>2. QED
        BY <3>2, <4>1 DEF WheelIsAlive, SettleOwed, InFlight
    <3>3. QED
      BY <3>1, <3>2
  <2>3. CASE Leave \/ AbandonAndLeave
    BY <2>3, WheelNew DEF Leave, AbandonAndLeave, BoardCleared
  <2>4. QED
    BY <1>3, <2>1, <2>2, <2>3 DEF ExitNext
<1>4. CASE EndNext
  BY <1>4, WheelNew DEF EndNext, BackToLobby, BoardCleared, PlayAgain, GameBegins, Conquer
<1>5. CASE Reopen
  BY <1>5, WheelNew DEF Reopen, Opened
<1>6. QED
  BY <1>2, <1>3, <1>4, <1>5

LEMMA ArrivalOfWheel ==
  ASSUME GameInv, WheelIsAlive, Arrivals
  PROVE  WheelIsAlive'
<1>1. CallsSound /\ WheelSound
  BY DEF GameInv
<1>2. PICK s \in Slot : \/ LobbyArrives(s) \/ HistoryArrives(s)
                        \/ AbandonedToStart(s) \/ StartArrives(s)
                        \/ SpinArrives(s) \/ AnswerArrives(s)
                        \/ GameCallFails(s) \/ AbandonedToLeave(s)
                        \/ ConquerEnds(s)
  BY DEF Arrivals
<1>3. CASE LobbyArrives(s) \/ HistoryArrives(s) \/ AbandonedToStart(s) \/ AnswerArrives(s)
           \/ GameCallFails(s)
  BY <1>3, WheelNew
     DEF LobbyArrives, HistoryArrives, AbandonedToStart, GameBegins, AnswerArrives, GameCallFails
<1>4. CASE StartArrives(s) \/ AbandonedToLeave(s) \/ ConquerEnds(s)
  <2>1. /\ calls[s].op # "spin"
        /\ calls' = [calls EXCEPT ![s] = Free] \/ calls' = [calls EXCEPT ![s] = Ask("lobby")]
        /\ UNCHANGED <<question, pending, sheet>>
        /\ wheel' \in {wheel, "new"}
        /\ phase' = phase \/ phase' # "spinning" \/ StartArrives(s)
    BY <1>4 DEF StartArrives, EnterWheel, AbandonedToLeave, LobbyPhase, ConquerEnds, Ends,
                play, screen
  <2>2. SpinKept
    BY <1>1, <2>1, ReplacingKeepsSpin
  <2>3. CASE phase = "spinning"
    BY <2>1, <2>2, <2>3, WheelAsItWas, WheelNew
  <2>4. CASE phase # "spinning"
    BY <1>1, <2>1, <2>4, WheelNew DEF WheelSound
  <2>5. QED
    BY <2>3, <2>4
<1>5. CASE SpinArrives(s)
  <2>1. Sound(calls[s])
    BY <1>1 DEF CallsSound
  <2>2. question' # None /\ UNCHANGED <<phase, wheel, pending, sheet>>
    BY <1>5, <2>1 DEF SpinArrives, Sound, screen
  <2>3. QED
    BY <2>2 DEF WheelIsAlive
<1>6. QED
  BY <1>2, <1>3, <1>4, <1>5

LEMMA WheelAliveStep ==
  ASSUME GameInv, [Next]_vars, WheelIsAlive
  PROVE  WheelIsAlive' \/ (phase = "spinning" /\ ResumeGame)
<1>1. CASE ServerNext
  <2>1. SpinKept /\ UNCHANGED <<phase, wheel, pending, sheet, question>>
    BY <1>1, ServerKeepsOps DEF GameInv, SpinKept, InFlight, ServerNext, play, screen
  <2>2. QED
    BY <2>1, WheelAsItWas, WheelNew
<1>2. CASE UNCHANGED vars
  BY <1>2 DEF vars, WheelIsAlive, InFlight, play, screen
<1>3. QED
  BY <1>1, <1>2, LobbyOfWheel, WheelOfWheel, PlayerOfWheel, ArrivalOfWheel DEF Next

(* A wheel on screen always goes somewhere: it is about to ask, it has or  *)
(* awaits a question, or its stop waits for the exit sheet to close;       *)
(* unless another session is resumed over it.                              *)
THEOREM WheelsDoNotHang == Spec => WheelStaysAlive
<1>1. GameInv /\ [Next]_vars
        => [WheelIsAlive => WheelIsAlive' \/ (phase = "spinning" /\ ResumeGame)]_vars
  BY WheelAliveStep
<1>2. QED
  BY <1>1, GameIsConsistent, PTL DEF Spec, WheelStaysAlive

=============================================================================
