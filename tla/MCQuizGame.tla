------------------------------ MODULE MCQuizGame ------------------------------
(* Small instances of QuizGame: the bounds are given in the cfg files.     *)
EXTENDS QuizGame
=============================================================================
