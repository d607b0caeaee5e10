------------------------------ MODULE EvalEngine ------------------------------
(***************************************************************************)
(* Flag evaluation (eval/engine.go): what every flag of one environment    *)
(* gives one user, while the flags and their states are edited through the *)
(* API (api/handlers/flags.go).  Hash values, conditions and payloads are  *)
(* abstract: a bucket per flag, the set of conditions the user meets, and  *)
(* values that are true, false, other text or JSON null.  No writer of the *)
(* repository sets a flag's expires_at, so its gate is left out; a flag's  *)
(* status is stored and never asked.                                       *)
(***************************************************************************)
EXTENDS Naturals, Sequences

CONSTANTS
    NumFlags,           \* flag keys are 1..NumFlags, in lexicographic order
    Groups,             \* mutual exclusion groups
    Full,               \* 100%: 10000 basis points in the code
    Conditions,         \* attribute conditions that rules and segments use
    Segments,           \* segment keys
    FlagRequests,       \* what create and update requests ask of a flag
    StatePatches,       \* what UpdateState requests ask of a flag state
    SegmentRequests,    \* what requests make of a segment
    Users,              \* the users considered, each a bucket per flag
    MaxEdits            \* bound: edits

Keys == 1..NumFlags
NoGroup == ""
NoValue == "nil"
Values == {"true", "false", "text", "null"}
MatchTypes == {"all", "any"}

Rule == [priority : Nat, conditions : SUBSET Conditions, matchType : MatchTypes \cup {""},
         segments : SUBSET Segments, percentage : 0..Full, value : Values]
Variant == [weight : 0..Full, value : Values]
Statuses == {"active", "paused", "rolled_out", "deprecated", "archived"}
Flag == [default : Values, prerequisites : Seq(Keys), group : Groups \cup {NoGroup},
         ab : BOOLEAN, status : Statuses]
State == [enabled : BOOLEAN, default : Values \cup {NoValue}, rules : Seq(Rule),
          percentage : 0..Full, variants : Seq(Variant)]
Segment == [rules : SUBSET Conditions, matchType : MatchTypes]

\* The state of a flag without a flag_states row.
BlankState == [enabled |-> FALSE, default |-> NoValue, rules |-> <<>>,
               percentage |-> 0, variants |-> <<>>]

\* The record r becomes when the fields of p replace its own.
Merge(p, r) == [f \in DOMAIN r |-> IF f \in DOMAIN p THEN p[f] ELSE r[f]]

ASSUME NumFlagsAssumption == NumFlags \in Nat
ASSUME FullAssumption == Full \in Nat \ {0}
ASSUME EditAssumption == MaxEdits \in Nat
ASSUME UserAssumption == Users \subseteq [Keys -> 0..(Full - 1)]
ASSUME GroupAssumption == NoGroup \notin Groups
ASSUME RequestAssumption ==
    \A req \in FlagRequests :
        /\ DOMAIN req \subseteq {"default", "prerequisites", "group", "ab", "status"}
        /\ "default" \in DOMAIN req => req.default \in Values
        /\ "prerequisites" \in DOMAIN req => req.prerequisites \in Seq(Keys)
        /\ "group" \in DOMAIN req => req.group \in Groups \cup {NoGroup}
        /\ "ab" \in DOMAIN req => req.ab \in BOOLEAN
        /\ "status" \in DOMAIN req => req.status \in Statuses
ASSUME SegmentAssumption == SegmentRequests \subseteq Segment
ASSUME PatchAssumption ==
    \A p \in StatePatches :
        /\ DOMAIN p \subseteq DOMAIN BlankState
        /\ "enabled" \in DOMAIN p => p.enabled \in BOOLEAN
        /\ "default" \in DOMAIN p => p.default \in Values
        /\ "rules" \in DOMAIN p => p.rules \in Seq(Rule)
        /\ "percentage" \in DOMAIN p => p.percentage \in 0..Full
        /\ "variants" \in DOMAIN p => p.variants \in Seq(Variant)

VARIABLES
    flags,      \* the project's flags, by key
    states,     \* their states in the environment
    segments,   \* the project's segments, by key
    bucket,     \* BucketUser of each flag and the user: fixed
    holds,      \* the conditions the user meets: fixed
    edited      \* how many edits were made

user == <<bucket, holds>>
vars == <<flags, states, segments, user, edited>>

TypeOK ==
    /\ DOMAIN flags \subseteq Keys
    /\ flags \in [DOMAIN flags -> Flag]
    /\ states \in [Keys -> State]
    /\ DOMAIN segments \subseteq Segments
    /\ segments \in [DOMAIN segments -> Segment]
    /\ bucket \in [Keys -> 0..(Full - 1)]
    /\ holds \subseteq Conditions
    /\ edited \in Nat

-----------------------------------------------------------------------------
(* Faulty variants of the definitions below: each is what a plausible bug  *)
(* would make of one of them, and breaks a property (PROJECT.json).        *)

\* The rollout's hash is seeded with its percentage.
AdmitsReseeded(k, p) == (bucket[k] + 2 * p) % Full < p

\* Nobody but the flag's own key breaks a tie.
BeatsUntied(j, k) == bucket[j] < bucket[k]

\* Every flag of the ruleset competes.
RivalsAll(k) == {j \in DOMAIN flags : j # k /\ states[j].enabled}

\* A prerequisite that is enabled is on, whatever its value.
PassesEnabled(r) == r.reason \notin {"NOT_FOUND", "DISABLED"}

\* A prerequisite that was visited before is not asked again.
RepeatSkips(c) == c

\* An omitted default value overwrites, as an omitted group does.
FlagUpdateAll(req, f) ==
    [f EXCEPT !.default = IF "default" \in DOMAIN req THEN req.default ELSE NoValue,
              !.group = IF "group" \in DOMAIN req THEN req.group ELSE NoGroup]

-----------------------------------------------------------------------------
(* Targeting: MatchConditions and matchRule.                               *)

MatchConditions(conds, type) ==
    \/ conds = {}
    \/ type = "all" /\ conds \subseteq holds
    \/ type = "any" /\ conds \cap holds # {}

\* Some segment of the rule matches, and so do its conditions; no type means all.
MatchRule(r) ==
    /\ r.segments # {} =>
          \E g \in r.segments \cap DOMAIN segments :
              MatchConditions(segments[g].rules, segments[g].matchType)
    /\ MatchConditions(r.conditions, IF r.matchType = "" THEN "all" ELSE r.matchType)

\* The user is within the first p of the flag's buckets.
Admits(k, p) == bucket[k] < p

-----------------------------------------------------------------------------
(* What a flag serves once its gates are passed.                           *)

\* The rules that match and admit the user, and the one that is walked first:
\* by priority, then as stored (sort.Slice keeps ties in order up to 12 rules).
Serving(k) == {i \in 1..Len(states[k].rules) :
                  LET r == states[k].rules[i]
                  IN  MatchRule(r) /\ (r.percentage >= Full \/ Admits(k, r.percentage))}

FirstServing(k) ==
    LET P(i) == states[k].rules[i].priority
    IN  CHOOSE i \in Serving(k) :
            \A j \in Serving(k) : P(i) < P(j) \/ (P(i) = P(j) /\ i <= j)

DefaultValue(k) == IF k \in DOMAIN flags THEN flags[k].default ELSE NoValue

\* The state's default value, or the flag's when it has none.
OnValue(k) == IF states[k].default = NoValue THEN DefaultValue(k) ELSE states[k].default

\* The variants' weights cut the buckets into intervals; the last takes the rest.
PickVariant(k) ==
    LET vs == states[k].variants
        cumulative[i \in 0..Len(vs)] ==
            IF i = 0 THEN 0 ELSE cumulative[i - 1] + vs[i].weight
        within == {i \in 1..Len(vs) : bucket[k] < cumulative[i]}
    IN  IF within = {} THEN vs[Len(vs)]
        ELSE vs[CHOOSE i \in within : \A j \in within : i <= j]

Answer(value, reason) == [value |-> value, reason |-> reason]

Serve(k) ==
    IF Serving(k) # {}
    THEN LET r == states[k].rules[FirstServing(k)]
         IN  Answer(r.value, IF r.percentage >= Full THEN "TARGETED" ELSE "ROLLOUT")
    ELSE IF states[k].percentage > 0
    THEN IF Admits(k, states[k].percentage) THEN Answer(OnValue(k), "ROLLOUT")
         ELSE Answer(DefaultValue(k), "FALLTHROUGH")
    ELSE IF flags[k].ab /\ states[k].variants # <<>>
    THEN Answer(PickVariant(k).value, "VARIANT")
    ELSE Answer(OnValue(k), "FALLTHROUGH")

-----------------------------------------------------------------------------
(* The gates.                                                              *)

\* The enabled flags k competes with, and the order between two of them.
Rivals(k) == {j \in DOMAIN flags : j # k /\ flags[j].group = flags[k].group
                                        /\ states[j].enabled}

Beats(j, k) == bucket[j] < bucket[k] \/ (bucket[j] = bucket[k] /\ j < k)

WinsMutexGroup(k) == \A j \in Rivals(k) : ~Beats(j, k)

\* The reason k is refused before its prerequisites are asked, or "".
Refusal(k) ==
    IF k \notin DOMAIN flags THEN "NOT_FOUND"
    ELSE IF ~states[k].enabled THEN "DISABLED"
    ELSE IF flags[k].group # NoGroup /\ ~WinsMutexGroup(k) THEN "MUTUALLY_EXCLUDED"
    ELSE ""

\* The result of k, given whether its prerequisites are met.
Outcome(k, met) ==
    IF Refusal(k) # "" THEN Answer(DefaultValue(k), Refusal(k))
    ELSE IF ~met THEN Answer(DefaultValue(k), "PREREQUISITE_FAILED")
    ELSE Serve(k)

\* A prerequisite with result r is on: any value but false will do.
Passes(r) == r.reason \notin {"NOT_FOUND", "DISABLED"} /\ r.value # "false"

\* A prerequisite comes up again in the walk: it fails.
Repeat(c) == [c EXCEPT !.met = FALSE]

\* What is known after asking p, given what was known before, c.  W tells what a
\* flag's own prerequisites give, and what was visited when they were asked.
Ask(W, c, p) ==
    LET sub == IF Refusal(p) # "" THEN c ELSE W[<<c.visited, p>>]
    IN  IF ~c.met THEN c
        ELSE IF p \in c.visited THEN Repeat(c)
        ELSE [met |-> Passes(Outcome(p, sub.met)), visited |-> sub.visited]

\* What is known after asking the first i prerequisites of k, for each i.
AskInOrder(W, visited, k) ==
    LET after[i \in 0..Len(flags[k].prerequisites)] ==
            IF i = 0 THEN [met |-> TRUE, visited |-> visited \cup {k}]
            ELSE Ask(W, after[i - 1], flags[k].prerequisites[i])
    IN  after

\* The prerequisites of k, asked in order until one fails.  visited is one map for
\* the whole evaluation: what one branch visited, the next finds visited.
Prerequisites[at \in (SUBSET Keys) \X DOMAIN flags] ==
    LET visited == at[1]
        k == at[2]
        asked == AskInOrder(Prerequisites, visited, k)
    IN  IF flags[k].prerequisites = <<>> THEN [met |-> TRUE, visited |-> visited]
        ELSE asked[Len(flags[k].prerequisites)]

\* Engine.Evaluate.
Evaluate(k) == Outcome(k, Refusal(k) = "" => Prerequisites[<<{}, k>>].met)

-----------------------------------------------------------------------------
(* The edits.                                                              *)

\* Any user, and a project without flags.
Init ==
    /\ flags = <<>>
    /\ states = [k \in Keys |-> BlankState]
    /\ segments = <<>>
    /\ bucket \in Users
    /\ holds \in SUBSET Conditions
    /\ edited = 0

\* One more edit; the user stays who he is.
Edit ==
    /\ edited < MaxEdits
    /\ edited' = edited + 1
    /\ UNCHANGED user

WithFlag(k, f) == [j \in DOMAIN flags \cup {k} |-> IF j = k THEN f ELSE flags[j]]

\* Create: an omitted default value is that of a boolean flag, off.
CreateFlag(k, req) ==
    /\ k \notin DOMAIN flags
    /\ flags' = WithFlag(k, Merge(req, [default |-> "false", prerequisites |-> <<>>,
                                        group |-> NoGroup, ab |-> FALSE,
                                        status |-> "active"]))
    /\ Edit /\ UNCHANGED <<states, segments>>

\* Update leaves the type alone, and cannot tell an omitted group from an empty
\* one: it always overwrites the group.
FlagUpdate(req, f) ==
    [f EXCEPT !.default = IF "default" \in DOMAIN req THEN req.default ELSE @,
              !.prerequisites = IF "prerequisites" \in DOMAIN req THEN req.prerequisites ELSE @,
              !.group = IF "group" \in DOMAIN req THEN req.group ELSE NoGroup,
              !.status = IF "status" \in DOMAIN req THEN req.status ELSE @]

UpdateFlag(k, req) ==
    /\ k \in DOMAIN flags
    /\ flags' = [flags EXCEPT ![k] = FlagUpdate(req, @)]
    /\ Edit /\ UNCHANGED <<states, segments>>

SetStatus(k, st) ==
    /\ k \in DOMAIN flags
    /\ flags' = [flags EXCEPT ![k].status = st]
    /\ Edit /\ UNCHANGED <<states, segments>>

\* Archive and Restore (an archived flag keeps its states), and the console's
\* ToggleFlag, which pauses or resumes whatever the status is.
Archive(k) == k \in DOMAIN flags /\ flags[k].status # "archived" /\ SetStatus(k, "archived")
Restore(k) == k \in DOMAIN flags /\ flags[k].status = "archived" /\ SetStatus(k, "active")
ToggleFlag(k) == \E st \in {"paused", "active"} : SetStatus(k, st)

\* Delete: the states go by cascade; other flags may still name k.
DeleteFlag(k) ==
    /\ k \in DOMAIN flags
    /\ flags' = [j \in DOMAIN flags \ {k} |-> flags[j]]
    /\ states' = [states EXCEPT ![k] = BlankState]
    /\ Edit /\ UNCHANGED segments

UpdateState(k, p) ==
    /\ k \in DOMAIN flags
    /\ states' = [states EXCEPT ![k] = Merge(p, @)]
    /\ Edit /\ UNCHANGED <<flags, segments>>

CreateSegment(g, s) ==
    /\ g \notin DOMAIN segments
    /\ segments' = [h \in DOMAIN segments \cup {g} |-> IF h = g THEN s ELSE segments[h]]
    /\ Edit /\ UNCHANGED <<flags, states>>

UpdateSegment(g, s) ==
    /\ g \in DOMAIN segments
    /\ segments' = [segments EXCEPT ![g] = s]
    /\ Edit /\ UNCHANGED <<flags, states>>

DeleteSegment(g) ==
    /\ g \in DOMAIN segments
    /\ segments' = [h \in DOMAIN segments \ {g} |-> segments[h]]
    /\ Edit /\ UNCHANGED <<flags, states>>

Next ==
    \/ \E k \in Keys :
          \/ \E req \in FlagRequests : CreateFlag(k, req) \/ UpdateFlag(k, req)
          \/ \E p \in StatePatches : UpdateState(k, p)
          \/ Archive(k) \/ Restore(k) \/ ToggleFlag(k) \/ DeleteFlag(k)
    \/ \E g \in Segments :
          \/ \E s \in SegmentRequests : CreateSegment(g, s) \/ UpdateSegment(g, s)
          \/ DeleteSegment(g)

Spec == Init /\ [][Next]_vars

-----------------------------------------------------------------------------
(* What evaluation promises.                                               *)

Served(k) == Evaluate(k).reason \notin {"NOT_FOUND", "DISABLED", "MUTUALLY_EXCLUDED",
                                        "PREREQUISITE_FAILED"}

\* docs/docs/core-concepts/mutual-exclusion.md:9: at most one flag of a group is
\* served to a user, whatever the buckets, ties included (winsMutexGroup).
OneFlagPerGroup ==
    \A j, k \in DOMAIN flags :
        flags[j].group = flags[k].group /\ flags[k].group # NoGroup /\ Served(j) /\ Served(k)
            => j = k

\* A result that counts as on (docs/docs/core-concepts/prerequisites.md:49).
On(r) == r.reason \notin {"NOT_FOUND", "DISABLED"} /\ r.value # "false"

PrerequisitesOf(k) == {flags[k].prerequisites[i] : i \in DOMAIN flags[k].prerequisites}

\* As long as every default value is off, a served flag's prerequisites are on when
\* they are evaluated by themselves: the map that evaluate shares between the
\* branches of its walk never makes one look better than it is.
ServedNeedsPrerequisites ==
    (\A k \in DOMAIN flags : flags[k].default = "false") =>
        \A k \in DOMAIN flags : Served(k) =>
            \A p \in PrerequisitesOf(k) : On(Evaluate(p))

\* The flags that F leads to by their prerequisites, and those of F: what is in every
\* set around F that no prerequisite leads out of.
Closed(X) == \A k \in X \cap DOMAIN flags : PrerequisitesOf(k) \subseteq X

Closure(F) ==
    LET around == {X \in SUBSET Keys : F \subseteq X /\ Closed(X)}
    IN  {k \in Keys : \A X \in around : k \in X}

\* With defaults off, no flag that is its own prerequisite, at any distance, is
\* served: evaluate breaks the cycle, and what it breaks off is off.  It answers such
\* a flag with its default and no error, although
\* docs/docs/core-concepts/prerequisites.md:58 says that a cycle returns one.
CyclesAreOff ==
    (\A k \in DOMAIN flags : flags[k].default = "false") =>
        \A k \in DOMAIN flags :
            Served(k) => k \notin Closure(PrerequisitesOf(k))

\* Raising a rollout that is not 0 changes a user's result at most by admitting the
\* user: who has the flag keeps it, the bucket does not depend on the percentage
\* (BucketUser).  From 0, where everybody falls through to the state's value, it may
\* well take the flag from a user (engine.go, evaluate).
RampKeepsUsers ==
    [][\A k \in DOMAIN flags \cap DOMAIN flags' :
          /\ flags' = flags /\ segments' = segments
          /\ states' = [states EXCEPT ![k].percentage = states'[k].percentage]
          /\ states[k].percentage > 0 /\ states'[k].percentage >= states[k].percentage
          => \/ Evaluate(k)' = Evaluate(k)
             \/ /\ Evaluate(k) = Answer(DefaultValue(k), "FALLTHROUGH")
                /\ Evaluate(k)' = Answer(OnValue(k), "ROLLOUT")
      ]_vars

\* The flags k's result may depend on: its prerequisites at any distance, and the
\* flags that compete with one of them or with k.
Near(k) ==
    LET mates(F) == {j \in DOMAIN flags : \E i \in F \cap DOMAIN flags :
                        flags[i].group = flags[j].group /\ flags[i].group # NoGroup}
        chain == Closure({k})
    IN  chain \cup mates(chain)

\* Flag j was created, deleted, or changed, or its state was.
Edited(j) ==
    \/ (j \in DOMAIN flags) # (j \in DOMAIN flags')
    \/ j \in DOMAIN flags /\ (flags'[j] # flags[j] \/ states'[j] # states[j])

\* An edit changes the result only of flags that depend on the edited flag or
\* compete with one they depend on: nothing else in the environment moves.
EditsAreLocal ==
    [][segments' = segments =>
          \A k \in Keys : Evaluate(k)' # Evaluate(k) =>
              \E j \in Near(k) \cup Near(k)' : Edited(j)
      ]_vars

-----------------------------------------------------------------------------
(* What the repository says and the code does not do.                      *)

Acyclic(k) == \A j \in Closure({k}) \cap DOMAIN flags :
                  j \notin Closure(PrerequisitesOf(j))

\* docs/docs/core-concepts/prerequisites.md:47-51: a flag, on no cycle, fails its
\* prerequisites only if one of them evaluates to NOT_FOUND, DISABLED or false.
PrerequisitesAsDocumented ==
    \A k \in DOMAIN flags :
        Acyclic(k) /\ Evaluate(k).reason = "PREREQUISITE_FAILED" =>
            \E p \in PrerequisitesOf(k) : ~On(Evaluate(p))

=============================================================================
