--------------------------- MODULE MCPremiosStores ---------------------------
(* A small instance of PremiosStores: one business, one edition query.     *)
EXTENDS PremiosStores

CONSTANTS a, launch

OneBusiness == {a}
OneQuery    == {launch}

=============================================================================
