----------------------------- MODULE MCSurveyVote -----------------------------
(* Small instances of SurveyVote.  Two categories; a and b are candidates  *)
(* of one each, both is a candidate of the two ("En las dos").             *)
EXTENDS SurveyVote

CONSTANTS traditional, modern, a, both

Categories == {traditional, modern}
Businesses == {a, both}

TwoCategories == {[cat |-> traditional, biz |-> a],
                  [cat |-> traditional, biz |-> both],
                  [cat |-> modern,      biz |-> both]}

OneEach == {[cat |-> traditional, biz |-> a], [cat |-> modern, biz |-> both]}

(* Each behaviour has one of two bounds, and both bounds are checked       *)
(* together:                                                               *)
(*   twice  every vote of TwoCategories, a POST less than MaxPosts, each   *)
(*          of which may reach the server twice;                           *)
(*   once   the votes of OneEach, MaxPosts POSTs of one page, each         *)
(*          delivered at most once; after the first, votes only leave the  *)
(*          paper.                                                         *)
VARIABLE kind

MCInit == Init /\ kind \in {"twice", "once"}
Within ==
  /\ kind = "twice" => granted' < MaxPosts
  /\ kind = "once" => /\ selection' \subseteq OneEach
                      /\ \A i \in PostIds : ~ServerReplays(i)
                      /\ UNCHANGED first /\ (sentPosts > 0 => selection' \subseteq selection)
MCNext == Next /\ Within /\ UNCHANGED kind
MCSpec == MCInit /\ [][MCNext]_<<vars, kind>>
MCFairSpec == MCSpec /\ Fairness

(* As long as no POST is handled twice, pressing retry after a ballot that *)
(* was counted never ends in the reproach of a 409 (_onConflict).          *)
DeliveredOnceIsNotRefused == [][kind = "once" => ~ReproachesACountedBallot]_vars

=============================================================================
