------------------------- MODULE MCCommandDispatch -------------------------
(* CommandDispatch with lifetimes for TLC: expired on arrival, one tick and *)
(* no expires_at at all.                                                    *)
EXTENDS CommandDispatch
ThreeLifetimes == {-1, 1, NoExpiry}
=============================================================================
