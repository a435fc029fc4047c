---------------------------- MODULE MCSdkClient ----------------------------
(***************************************************************************)
(* The SDK in one process with two threads, for TLC.  A default and a flag *)
(* are true or false, the values is_enabled is about.                      *)
(***************************************************************************)
EXTENDS SdkClient

TrueObjects == {TRUE, Missing, Failed}

=============================================================================
