------------------------------ MODULE MCPhone ------------------------------
(***************************************************************************)
(* The session and the identity share no state, so their steps commute;    *)
(* each behaviour checked moves one of them, and three kinds are enough:   *)
(*   session   overlapping sign-ins of two users in one start,             *)
(*   install   one sign-in, with ends of the process, failures of the      *)
(*             guard and a reinstall around it,                            *)
(*   identity  the survey's secret with the same around it.                *)
(***************************************************************************)
EXTENDS Phone

VARIABLE kind

(* Two users are alike: the first to appear may as well be this one.       *)
First == CHOOSE u \in Users : TRUE
Nobody == /\ storage = Empty /\ cubit = NoUser /\ excused = {}
          /\ \A c \in Slots : ~Flying(c)
          /\ \A f \in Flows : logins[f].user = NoUser

MCInit == /\ Init /\ kind \in {"session", "install", "identity"}
          /\ kind # "identity" => secret = Missing

Within ==
  /\ stage = "tabs" /\ stage' = "tabs" =>
       IF kind = "identity" THEN UNCHANGED sesVars ELSE UNCHANGED idVars
  /\ kind = "session" => starts' < 3 /\ installs' < 2 /\ ~failed'
  /\ kind = "install" => signIns' < 2
  /\ Nobody => storage'.userId \in {NoUser, First}

MCNext == Next /\ Within /\ UNCHANGED kind
MCSpec == MCInit /\ [][MCNext]_<<vars, kind>>
MCFairSpec == MCSpec /\ Fairness
=============================================================================
