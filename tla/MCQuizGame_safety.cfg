CONSTANTS
  MaxGames = 2
  MaxQuestions = 2
  MaxCalls = 2
SPECIFICATION Spec
INVARIANT TypeOK
INVARIANT QuestionIsAlive
PROPERTY WheelStaysAlive
INVARIANT PauseIsTheSheets
PROPERTY TouchIsFinal
