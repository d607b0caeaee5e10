---------------------------- MODULE MCFlagStates ----------------------------
(* Small instances of FlagStates: what the update requests ask for.        *)
EXTENDS FlagStates

CONSTANTS c0, c1

\* The toggle, the rules, and the two schedules.
MCPatches == {[config |-> c1, variants |-> 1], [enabled |-> TRUE],
              [enableAt |-> 1], [enableAt |-> 1, disableAt |-> 1]}

=============================================================================
