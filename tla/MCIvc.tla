-------------------------------- MODULE MCIvc --------------------------------
(* Instances of Ivc for TLC.                                                *)
EXTENDS Ivc
=============================================================================
