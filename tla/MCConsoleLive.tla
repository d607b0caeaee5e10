--------------------------- MODULE MCConsoleLive ---------------------------
(* Chains of attempts from the mount, its effect and two clicks on Retry.   *)
EXTENDS ConsoleLive
=============================================================================
