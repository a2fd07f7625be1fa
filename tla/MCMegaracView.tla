---------------------------- MODULE MCMegaracView ----------------------------
(***************************************************************************)
(* MegaracView with a picture of two regions.                              *)
(***************************************************************************)
EXTENDS MegaracView

CONSTANTS top, bottom

MCRegions == {top, bottom}

=============================================================================
