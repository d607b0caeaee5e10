----------------------------- MODULE MCEvalEngine -----------------------------
(* Small instances of EvalEngine.                                          *)
EXTENDS EvalEngine, FiniteSets

\* Chains, forks and cycles of three flags; a group; an experiment that is on by default.
MCFlagRequests == {[group |-> "g"], [prerequisites |-> <<2>>],
                   [prerequisites |-> <<1, 3>>], [prerequisites |-> <<3>>, group |-> "g"],
                   [default |-> "true", ab |-> TRUE]}

\* Four flags are enough for two branches of prerequisites that meet again.
DiamondRequests == {[prerequisites |-> <<2, 3>>], [prerequisites |-> <<2>>],
                    [prerequisites |-> <<4>>],
                    [prerequisites |-> <<>>, default |-> "false"]}

MCRule == [priority |-> 1, conditions |-> {"c"}, matchType |-> "", segments |-> {"s"},
           percentage |-> 1, value |-> "true"]

MCVariants == <<[weight |-> 1, value |-> "false"], [weight |-> 1, value |-> "true"]>>

\* On for everyone, for a part, by a rule or a variant; off again.
MCStatePatches == {[enabled |-> TRUE, default |-> "true"], [enabled |-> TRUE, percentage |-> 1],
                   [percentage |-> 2], [enabled |-> FALSE],
                   [rules |-> <<MCRule>>, variants |-> MCVariants]}

MCSegmentRequests == {[rules |-> {"c"}, matchType |-> "any"], [rules |-> {}, matchType |-> "all"]}

TurnOn == {[enabled |-> TRUE, default |-> "true"]}

\* Two flags tie for the user's bucket, and the third beats both; at 1 of 3 the
\* rollout admits the user to the third flag only, at 2 of 3 to all.
MCUsers == {<<1, 1, 0>>}
OneUser == {[k \in Keys |-> 0]}

=============================================================================
