---------------------------- MODULE MCCreditLedger ----------------------------
(***************************************************************************)
(* CreditLedger for TLC: two bearers, the second without units, and one    *)
(* pack for each.                                                          *)
(***************************************************************************)
EXTENDS CreditLedger, TLC

MCPrice == <<2, 1>>
MCUnits == <<3, 0>>
MCPacks == {[bearer |-> 1, credits |-> 2], [bearer |-> 2, credits |-> 1]}

CONSTANTS w1, w2, g1, g2
Symmetric == Permutations({w1, w2}) \cup Permutations({g1, g2})

=============================================================================
