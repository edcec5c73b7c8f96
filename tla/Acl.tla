-------------------------------- MODULE Acl --------------------------------
(***************************************************************************)
(* The ACL engine's decision (internal/acl/acl.go).  Resolve is modelled   *)
(* as the two loops it is: one over rules and their paths that collects    *)
(* the permissions at the deepest matching level, and one over what was    *)
(* collected.  A path is the sequence of its segments, which is what       *)
(* normalizePath and the segment-boundary tests of matchPath work with;    *)
(* the root "/" is the empty sequence.                                     *)
(***************************************************************************)
EXTENDS Integers, Sequences

CONSTANTS
  Path,         \* paths: sequences of segments
  Identity,     \* what a request may be identified by: addresses and names
  Wildcard,     \* the identity "*" of a rule
  RuleLists,    \* the rule lists an engine may be built with
  DefaultPerm   \* Engine.defaultPerm

Deny == 0
ReadOnly == 1
AppendOnly == 2
FullAccess == 3
Permission == Deny .. FullAccess

\* New rejects a rule without paths or identities.
Rule == [paths : Seq(Path) \ {<<>>},
         identities : (SUBSET (Identity \cup {Wildcard})) \ {{}},
         permission : Permission]

ASSUME PathAssumption == \A p \in Path : p \in Seq(STRING)
ASSUME RulesAssumption == \A l \in RuleLists : l \in Seq(Rule)
ASSUME DefaultAssumption == DefaultPerm \in Permission

VARIABLES
  rules, identities, repoPath,   \* the engine's rules and the call's arguments
  pc, i, j,                      \* i, j: the rule and the path looked at next
  bestDepth, permsAtBest,
  k, highest, result

inputs == <<rules, identities, repoPath>>
vars == <<inputs, pc, i, j, bestDepth, permsAtBest, k, highest, result>>

matchIdentity(ruleIdentities, requestIdentities) ==
  Wildcard \in ruleIdentities \/ ruleIdentities \cap requestIdentities # {}

matchPath(rulePath, reqPath) ==
  /\ Len(rulePath) <= Len(reqPath)
  /\ \A n \in 1 .. Len(rulePath) : rulePath[n] = reqPath[n]

segmentCount(p) == Len(p)

Init ==
  /\ rules \in RuleLists
  /\ identities \in (SUBSET Identity) \ {{}}
  /\ repoPath \in Path
  /\ pc = "rules" /\ i = 1 /\ j = 1
  /\ bestDepth = -1 /\ permsAtBest = <<>>
  /\ k = 2 /\ highest = Deny /\ result = Deny

\* A rule whose identities do not match is skipped.
SkipRule ==
  /\ pc = "rules" /\ i <= Len(rules)
  /\ ~matchIdentity(rules[i].identities, identities)
  /\ i' = i + 1
  /\ UNCHANGED <<inputs, pc, j, bestDepth, permsAtBest, k, highest, result>>

EnterRule ==
  /\ pc = "rules" /\ i <= Len(rules)
  /\ matchIdentity(rules[i].identities, identities)
  /\ pc' = "paths" /\ j' = 1
  /\ UNCHANGED <<inputs, i, bestDepth, permsAtBest, k, highest, result>>

\* Mutant of Collect: a deeper match does not start afresh.
CollectNeverAfresh(depth, perm) ==
  \/ depth >= bestDepth /\ bestDepth' = depth /\ permsAtBest' = Append(permsAtBest, perm)
  \/ depth < bestDepth /\ UNCHANGED <<bestDepth, permsAtBest>>

\* The body of the inner loop: a deeper match starts the collection afresh, one
\* at the same depth adds to it.
Collect(depth, perm) ==
  \/ /\ depth > bestDepth
     /\ bestDepth' = depth
     /\ permsAtBest' = <<perm>>
  \/ /\ depth = bestDepth
     /\ permsAtBest' = Append(permsAtBest, perm)
     /\ UNCHANGED bestDepth
  \/ /\ depth < bestDepth
     /\ UNCHANGED <<bestDepth, permsAtBest>>

TryPath ==
  /\ pc = "paths" /\ j <= Len(rules[i].paths)
  /\ j' = j + 1
  /\ IF matchPath(rules[i].paths[j], repoPath)
     THEN Collect(segmentCount(rules[i].paths[j]), rules[i].permission)
     ELSE UNCHANGED <<bestDepth, permsAtBest>>
  /\ UNCHANGED <<inputs, pc, i, k, highest, result>>

LeaveRule ==
  /\ pc = "paths" /\ j > Len(rules[i].paths)
  /\ pc' = "rules" /\ i' = i + 1 /\ j' = 1
  /\ UNCHANGED <<inputs, bestDepth, permsAtBest, k, highest, result>>

Default ==
  /\ pc = "rules" /\ i > Len(rules) /\ bestDepth < 0
  /\ pc' = "done" /\ result' = DefaultPerm
  /\ UNCHANGED <<inputs, i, j, bestDepth, permsAtBest, k, highest>>

\* highest := permsAtBest[0], then the loop over permsAtBest[1:].
StartPerms ==
  /\ pc = "rules" /\ i > Len(rules) /\ bestDepth >= 0
  /\ pc' = "perms" /\ k' = 2 /\ highest' = permsAtBest[1]
  /\ UNCHANGED <<inputs, i, j, bestDepth, permsAtBest, result>>

TryPerm ==
  /\ pc = "perms" /\ k <= Len(permsAtBest)
  /\ \/ /\ permsAtBest[k] = Deny
        /\ pc' = "done" /\ result' = Deny
        /\ UNCHANGED <<k, highest>>
     \/ /\ permsAtBest[k] # Deny
        /\ k' = k + 1
        /\ highest' = IF permsAtBest[k] > highest THEN permsAtBest[k] ELSE highest
        /\ UNCHANGED <<pc, result>>
  /\ UNCHANGED <<inputs, i, j, bestDepth, permsAtBest>>

EndPerms ==
  /\ pc = "perms" /\ k > Len(permsAtBest)
  /\ pc' = "done" /\ result' = highest
  /\ UNCHANGED <<inputs, i, j, bestDepth, permsAtBest, k, highest>>

Done == pc = "done" /\ UNCHANGED vars

Next == SkipRule \/ EnterRule \/ TryPath \/ LeaveRule \/ Default \/ StartPerms
        \/ TryPerm \/ EndPerms \/ Done

Spec == Init /\ [][Next]_vars

-----------------------------------------------------------------------------
\* The reference, by the documented cascade: path b of rule a matches the
\* request, and the permissions of the rules that match at the deepest level.
Matches(a, b) ==
  /\ a \in DOMAIN rules /\ b \in DOMAIN rules[a].paths
  /\ matchIdentity(rules[a].identities, identities)
  /\ matchPath(rules[a].paths[b], repoPath)

Depth(a, b) == segmentCount(rules[a].paths[b])

AtDeepest(a) ==
  \E b \in DOMAIN rules[a].paths :
    /\ Matches(a, b)
    /\ \A c \in DOMAIN rules : \A d \in DOMAIN rules[c].paths :
         Matches(c, d) => Depth(c, d) <= Depth(a, b)

DeepestPerms == {rules[a].permission : a \in {x \in DOMAIN rules : AtDeepest(x)}}

\* Every variable has its type.
TypeOK ==
  /\ rules \in Seq(Rule) /\ identities \in SUBSET Identity /\ repoPath \in Seq(STRING)
  /\ pc \in {"rules", "paths", "perms", "done"}
  /\ i \in Nat \ {0} /\ j \in Nat \ {0} /\ k \in Nat \ {0, 1}
  /\ bestDepth \in Int /\ permsAtBest \in Seq(Permission)
  /\ highest \in Permission /\ result \in Permission

\* The loop has already looked at path b of rule a.
Seen(a, b) == a < i \/ (a = i /\ pc = "paths" /\ b < j)

\* At every point of the first loop, bestDepth is the depth of the deepest match
\* so far and permsAtBest holds exactly the permissions found at that depth, in
\* whatever order the rules and their paths are listed.
CollectedExact ==
  /\ bestDepth >= -1
  /\ bestDepth >= 0 <=> permsAtBest # <<>>
  /\ \A a \in DOMAIN rules : \A b \in DOMAIN rules[a].paths :
       Matches(a, b) /\ Seen(a, b) =>
         /\ Depth(a, b) <= bestDepth
         /\ Depth(a, b) = bestDepth =>
              \E n \in DOMAIN permsAtBest : permsAtBest[n] = rules[a].permission
  /\ \A n \in DOMAIN permsAtBest :
       \E a \in DOMAIN rules : \E b \in DOMAIN rules[a].paths :
         /\ Matches(a, b) /\ Seen(a, b) /\ Depth(a, b) = bestDepth
         /\ permsAtBest[n] = rules[a].permission

\* The second loop holds the highest permission of the part it has passed, and
\* has met no deny after the first.
HighestSoFar ==
  pc = "perms" =>
    /\ k <= Len(permsAtBest) + 1
    /\ \E n \in 1 .. (k - 1) : permsAtBest[n] = highest
    /\ \A n \in 1 .. (k - 1) : permsAtBest[n] <= highest
    /\ \A n \in 2 .. (k - 1) : permsAtBest[n] # Deny

\* The answer of Resolve comes from the deepest matching level and from nowhere
\* else; it is the highest permission there when none of them is deny, a deny
\* collected after the first permission always decides, and the default is used
\* exactly when no rule matches.
ResultFromDeepest ==
  pc = "done" =>
    IF DeepestPerms = {}
    THEN result = DefaultPerm
    ELSE /\ result \in DeepestPerms
         /\ Deny \notin DeepestPerms => \A q \in DeepestPerms : q <= result
         /\ (\E n \in 2 .. Len(permsAtBest) : permsAtBest[n] = Deny) => result = Deny

\* Where the two loops are: the inner one only inside a rule that matches, the
\* second one only when every rule was looked at and one matched.
Control ==
  /\ pc = "paths" => i <= Len(rules) /\ matchIdentity(rules[i].identities, identities)
  /\ pc \in {"perms", "done"} => i > Len(rules)
  /\ pc = "perms" => bestDepth >= 0

\* The answer in terms of what was collected.
ResultFromCollected ==
  pc = "done" =>
    /\ bestDepth < 0 => result = DefaultPerm
    /\ bestDepth >= 0 =>
         /\ \E n \in DOMAIN permsAtBest : permsAtBest[n] = result
         /\ (\E n \in 2 .. Len(permsAtBest) : permsAtBest[n] = Deny) => result = Deny
         /\ (\A n \in DOMAIN permsAtBest : permsAtBest[n] # Deny) =>
              \A n \in DOMAIN permsAtBest : permsAtBest[n] <= result

\* The inductive invariant behind ResultFromDeepest.
AclInv == TypeOK /\ Control /\ CollectedExact /\ HighestSoFar /\ ResultFromCollected

\* A deny at the deepest matching level denies, whatever else is found there.
DenyIsAbsolute == pc = "done" /\ Deny \in DeepestPerms => result = Deny
=============================================================================
