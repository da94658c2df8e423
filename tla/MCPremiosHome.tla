---------------------------- MODULE MCPremiosHome ----------------------------
(* A small instance of PremiosHome, in two kinds of behaviour: the stores  *)
(* with all who write them (under a slot that has shown its sheet and has  *)
(* no ranking to show), and the slot, on a new phone or on one that voted  *)
(* in the first edition, over a survey page where nothing more is voted.   *)
EXTENDS PremiosHome, TLC

CONSTANTS a, launch, first, again

OneBusiness == {a}
OneQuery    == {launch}
TwoAsks     == {first, again}
Symmetry    == Permutations(TwoAsks)

VARIABLE kind

(* The app is started again after a vote whose writes reached the disk.    *)
HasVoted ==
  /\ current = 1 /\ box = [e \in EditionId |-> IF e = 1 THEN {a} ELSE {}]
  /\ editionDisk = 1 /\ votedDisk = [edition |-> 1, voted |-> {a}]
  /\ edition = NoEdition /\ editionConfirmed = FALSE /\ editionLoad = "no"
  /\ store = NoVotes /\ votedConfirmed = FALSE /\ votedLoad = "no"
  /\ sync = "idle" /\ home = "absent" /\ refreshes = [c \in Refresh |-> Idle]
  /\ page = NoFlow /\ query = NoFlow

MCInit ==
  /\ following = {} /\ ranking = "none" /\ asks = NoAsks
  /\ asking = 0 /\ sheetOpen = FALSE /\ sheets = 0
  /\ \/ kind = "stores" /\ shown = TRUE /\ Init
     \/ kind = "slot" /\ shown = FALSE /\ (Init \/ HasVoted)

SurveyOfSlot == PageOpens \/ PageReadsEdition \/ PageReadsMyVotes \/ PageSyncs \/ PageCloses

MCNext ==
  /\ kind' = kind
  /\ \/ kind = "stores" /\ Next /\ UNCHANGED slot
     \/ /\ kind = "slot"
        /\ \/ (EditionOpens \/ EditionNext \/ HomeNext \/ SurveyOfSlot) /\ Along
           \/ SlotRestarts \/ RankingNext \/ SheetDecided \/ SheetCloses

MCSpec == MCInit /\ [][MCNext]_<<svars, kind>>

=============================================================================
