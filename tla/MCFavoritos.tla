----------------------------- MODULE MCFavoritos -----------------------------
(* A small instance of Favoritos: two places.                              *)
EXTENDS Favoritos

CONSTANTS a, b

TwoPlaces == {a, b}
Writes    == {"write"}
NoFaults  == {}

=============================================================================
