--------------------------- MODULE BallotBoxProofs ---------------------------
(* What the promise of the ballot box means for any categories, businesses *)
(* and either vote scope.                                                  *)
EXTENDS BallotBox, TLAPS

(* A phone never has two votes for the same business (in the same category *)
(* when votes are counted per category).                                   *)
THEOREM OneVote == BoxSpec => []OneVotePerSlot
<1>1. BoxInit => OneVotePerSlot
  BY DEF BoxInit, OneVotePerSlot
<1>2. OneVotePerSlot /\ [BoxNext]_boxVars => OneVotePerSlot'
  <2> SUFFICES ASSUME OneVotePerSlot, [BoxNext]_boxVars
               PROVE  OneVotePerSlot'
    OBVIOUS
  <2>1. ASSUME NEW b \in SUBSET Vote, Count(b)
        PROVE  OneVotePerSlot'
    <3> SUFFICES ASSUME NEW v \in counted', NEW w \in counted', SameSlot(v, w)
                 PROVE  v = w
      BY DEF OneVotePerSlot
    <3>1. SameSlot(w, v)
      BY DEF SameSlot
    <3>2. QED
      BY <2>1, <3>1 DEF Count, Taken, OneVotePerSlot
  <2>2. counted' = counted => OneVotePerSlot'
    BY DEF OneVotePerSlot
  <2>3. QED
    BY <2>1, <2>2 DEF BoxNext, Thank, Leave, boxVars
<1>3. QED
  BY <1>1, <1>2, PTL DEF BoxSpec

(* Every vote that is thanked for is in the box, or another vote of this   *)
(* phone has its place: thanks stay true, because the box only grows.      *)
THEOREM ThanksLast == BoxSpec => []ThankedIsCounted
<1>1. BoxInit => ThankedIsCounted
  BY DEF BoxInit, ThankedIsCounted
<1>2. ThankedIsCounted /\ [BoxNext]_boxVars => ThankedIsCounted'
  BY DEF BoxNext, Count, Thank, Leave, boxVars, ThankedIsCounted, Taken
<1>3. QED
  BY <1>1, <1>2, PTL DEF BoxSpec

=============================================================================
