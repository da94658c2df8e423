------------------------------ MODULE BallotBox ------------------------------
(***************************************************************************)
(* What the awards survey promises a voter, whatever happens on the way:   *)
(* a ballot is counted whole or not at all, a business gets at most one    *)
(* vote from a phone, and nobody reads "thank you" for a ballot that the   *)
(* server has not counted.                                                 *)
(***************************************************************************)
CONSTANTS Category, Business,
          BusinessScope   \* TRUE: one vote per business in any category

VARIABLES counted,        \* the votes of this phone the server holds
          thanked         \* the votes the screen is thanking for

boxVars == <<counted, thanked>>

Vote == [cat : Category, biz : Business]

(* v and w compete for the same place in the box.                          *)
SameSlot(v, w) == v.biz = w.biz /\ (BusinessScope \/ v.cat = w.cat)

Taken(box, v) == \E w \in box : SameSlot(v, w)

BoxInit == counted = {} /\ thanked = {}

Count(b) ==
  /\ b # {}
  /\ \A v, w \in b : SameSlot(v, w) => v = w
  /\ \A v \in b : ~Taken(counted, v)
  /\ counted' = counted \cup b
  /\ UNCHANGED thanked

Thank(b) ==
  /\ b # {}
  /\ \A v \in b : Taken(counted, v)
  /\ thanked' = b
  /\ UNCHANGED counted

Leave == thanked' = {} /\ UNCHANGED counted

BoxNext == Leave \/ \E b \in SUBSET Vote : Count(b) \/ Thank(b)

BoxSpec == BoxInit /\ [][BoxNext]_boxVars

(* The UNIQUE(edition, identity, business) of the server, seen by a phone. *)
OneVotePerSlot == \A v, w \in counted : SameSlot(v, w) => v = w

ThankedIsCounted == \A v \in thanked : Taken(counted, v)

=============================================================================
