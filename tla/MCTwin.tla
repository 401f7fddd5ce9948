-------------------------------- MODULE MCTwin --------------------------------
(***************************************************************************)
(* Values for VgerTwin: one digit, so that 11 is the only register there is  *)
(* to name.                                                                 *)
(***************************************************************************)
EXTENDS VgerTwin, MCNumbers

NoPrograms == {}

=============================================================================
