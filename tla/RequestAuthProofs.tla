-------------------------- MODULE RequestAuthProofs --------------------------
(***************************************************************************)
(* Proofs about the ACL decision of module Acl and the way of a request of *)
(* module RequestAuth, for every rule list, every set of paths, identities *)
(* and requests, and every setting: first the engine, then the operators   *)
(* on paths, by induction over their length, then the steps of a request.  *)
(***************************************************************************)
EXTENDS RequestAuth, SequenceTheorems, WellFoundedInduction, TLAPS

\* Depths are numbers, whichever rule and path are asked about.
LEMMA DepthType ==
  ASSUME TypeOK, NEW a \in DOMAIN rules, NEW b \in DOMAIN rules[a].paths
  PROVE  /\ rules[a].permission \in Permission
         /\ rules[a].paths \in Seq(Path)
         /\ rules[a].paths[b] \in Path
         /\ Depth(a, b) \in Nat
<1>1. rules[a] \in Rule
  BY DEF TypeOK
<1>2. rules[a].permission \in Permission /\ rules[a].paths \in Seq(Path)
  BY <1>1 DEF Rule
<1>3. rules[a].paths[b] \in Path
  BY <1>2
<1>4. rules[a].paths[b] \in Seq(STRING)
  BY <1>3, PathAssumption
<1>5. Depth(a, b) \in Nat
  BY <1>4 DEF Depth, segmentCount
<1> QED BY <1>2, <1>3, <1>5

\* The engine starts with nothing collected.
LEMMA AclInitInv == Init => AclInv
<1> SUFFICES ASSUME Init PROVE AclInv
  OBVIOUS
<1>1. rules \in Seq(Rule)
  BY RulesAssumption DEF Init
<1>5. repoPath \in Seq(STRING)
  BY PathAssumption DEF Init
<1>2. TypeOK
  BY <1>1, <1>5 DEF Init, TypeOK, Permission, Deny, FullAccess
<1>3. Control /\ HighestSoFar /\ ResultFromCollected
  BY DEF Init, Control, HighestSoFar, ResultFromCollected
<1>4. CollectedExact
  <2>1. \A a \in DOMAIN rules : \A b \in DOMAIN rules[a].paths : ~Seen(a, b)
    BY <1>1 DEF Init, Seen
  <2> QED BY <2>1 DEF Init, CollectedExact
<1> QED BY <1>2, <1>3, <1>4 DEF AclInv

\* What was collected stays exact over a step that collects nothing and has not
\* looked at a further matching path.
LEMMA CollectedKept ==
  ASSUME CollectedExact, UNCHANGED <<inputs, bestDepth, permsAtBest>>,
         \A a \in DOMAIN rules : \A b \in DOMAIN rules[a].paths :
           Matches(a, b) => (Seen(a, b)' <=> Seen(a, b))
  PROVE  CollectedExact'
<1>1. /\ rules' = rules /\ bestDepth' = bestDepth /\ permsAtBest' = permsAtBest
      /\ \A a, b : Matches(a, b)' <=> Matches(a, b)
      /\ \A a, b : Depth(a, b)' = Depth(a, b)
  BY DEF inputs, Matches, Depth
<1> QED BY <1>1 DEF CollectedExact

\* The body of the inner loop keeps what was collected exact.
LEMMA TryPathCollects ==
  ASSUME AclInv, TryPath
  PROVE  CollectedExact'
<1> DEFINE p == rules[i].paths[j]
<1>1. /\ pc = "paths" /\ pc' = pc /\ i' = i /\ j' = j + 1 /\ j \in DOMAIN rules[i].paths
      /\ i \in DOMAIN rules /\ rules' = rules /\ i \in Nat /\ j \in Nat
      /\ \A a, b : Matches(a, b)' <=> Matches(a, b)
      /\ \A a, b : Depth(a, b)' = Depth(a, b)
  <2>1. pc = "paths" /\ pc' = pc /\ i' = i /\ j' = j + 1 /\ j <= Len(rules[i].paths)
        /\ UNCHANGED inputs
    BY DEF TryPath
  <2>2. i \in Nat \ {0} /\ j \in Nat \ {0} /\ rules \in Seq(Rule) /\ i <= Len(rules)
    BY <2>1 DEF AclInv, TypeOK, Control
  <2>3. i \in DOMAIN rules
    BY <2>2
  <2>4. rules[i].paths \in Seq(Path)
    <3>1. rules[i] \in Rule
      BY <2>2, <2>3
    <3> QED BY <3>1 DEF Rule
  <2>5. j \in DOMAIN rules[i].paths
    BY <2>1, <2>2, <2>4
  <2> QED BY <2>1, <2>2, <2>3, <2>5 DEF inputs, Matches, Depth
<1>2. \A a \in DOMAIN rules : \A b \in DOMAIN rules[a].paths :
        Seen(a, b)' <=> Seen(a, b) \/ (a = i /\ b = j)
  <2> SUFFICES ASSUME NEW a \in DOMAIN rules, NEW b \in DOMAIN rules[a].paths
               PROVE  Seen(a, b)' <=> Seen(a, b) \/ (a = i /\ b = j)
    OBVIOUS
  <2>1. rules[a].paths \in Seq(Path)
    BY DepthType DEF AclInv
  <2>2. a \in Nat /\ b \in Nat
    BY <2>1 DEF AclInv, TypeOK
  <2> QED BY <1>1, <2>2 DEF Seen
<1>3. Matches(i, j) <=> matchPath(p, repoPath)
  BY <1>1 DEF Matches, AclInv, Control
<1>4. /\ Depth(i, j) \in Nat /\ rules[i].permission \in Permission
      /\ \A a \in DOMAIN rules : \A b \in DOMAIN rules[a].paths : Depth(a, b) \in Nat
  BY <1>1, DepthType DEF AclInv
<1>5. CollectedExact /\ bestDepth \in Int /\ permsAtBest \in Seq(Permission)
  BY DEF AclInv, TypeOK
<1>6. CASE ~Matches(i, j)
  <2>1. UNCHANGED <<inputs, bestDepth, permsAtBest>>
    BY <1>3, <1>6 DEF TryPath
  <2>2. \A a \in DOMAIN rules : \A b \in DOMAIN rules[a].paths :
          Matches(a, b) => (Seen(a, b)' <=> Seen(a, b))
    BY <1>2, <1>6
  <2> QED BY <1>5, <2>1, <2>2, CollectedKept
<1>7. CASE Matches(i, j)
  <2>1. Collect(Depth(i, j), rules[i].permission)
    BY <1>3, <1>7 DEF TryPath, Depth
  <2>2. CASE Depth(i, j) > bestDepth
    <3>1. bestDepth' = Depth(i, j) /\ permsAtBest' = <<rules[i].permission>>
      BY <1>4, <1>5, <2>1, <2>2 DEF Collect
    <3>2. DOMAIN permsAtBest' = {1} /\ permsAtBest'[1] = rules[i].permission
          /\ permsAtBest' # <<>>
      BY <3>1
    <3> HIDE DEF p
    <3> QED BY <1>1, <1>2, <1>4, <1>5, <1>7, <2>2, <3>1, <3>2 DEF CollectedExact
  <2>3. CASE Depth(i, j) = bestDepth
    <3>1. bestDepth' = bestDepth /\ permsAtBest' = Append(permsAtBest, rules[i].permission)
      BY <1>4, <1>5, <2>1, <2>3 DEF Collect
    <3>2. /\ permsAtBest' # <<>> /\ bestDepth' >= 0
          /\ Len(permsAtBest) + 1 \in DOMAIN permsAtBest'
          /\ permsAtBest'[Len(permsAtBest) + 1] = rules[i].permission
          /\ \A n \in DOMAIN permsAtBest :
               n \in DOMAIN permsAtBest' /\ permsAtBest'[n] = permsAtBest[n]
          /\ \A n \in DOMAIN permsAtBest' :
               n \in DOMAIN permsAtBest \/ n = Len(permsAtBest) + 1
      BY <1>4, <1>5, <2>3, <3>1
    <3>3. bestDepth' >= -1
      BY <1>5, <3>1 DEF CollectedExact
    <3>4. \A a \in DOMAIN rules : \A b \in DOMAIN rules[a].paths :
            Matches(a, b) /\ Seen(a, b)' =>
              /\ Depth(a, b) <= bestDepth'
              /\ Depth(a, b) = bestDepth' =>
                   \E n \in DOMAIN permsAtBest' : permsAtBest'[n] = rules[a].permission
      BY <1>2, <1>4, <1>5, <2>3, <3>1, <3>2 DEF CollectedExact
    <3>5. \A n \in DOMAIN permsAtBest' :
            \E a \in DOMAIN rules : \E b \in DOMAIN rules[a].paths :
              /\ Matches(a, b) /\ Seen(a, b)' /\ Depth(a, b) = bestDepth'
              /\ permsAtBest'[n] = rules[a].permission
      BY <1>1, <1>2, <1>5, <1>7, <2>3, <3>1, <3>2 DEF CollectedExact
    <3> QED BY <1>1, <3>2, <3>3, <3>4, <3>5 DEF CollectedExact
  <2>4. CASE Depth(i, j) < bestDepth
    <3>1. UNCHANGED <<bestDepth, permsAtBest>>
      BY <1>4, <1>5, <2>1, <2>4 DEF Collect
    <3> QED BY <1>1, <1>2, <1>4, <1>5, <2>4, <3>1 DEF CollectedExact
  <2> QED BY <1>4, <1>5, <2>2, <2>3, <2>4
<1> QED BY <1>6, <1>7

\* Every step of Resolve keeps the inductive invariant.
LEMMA AclStepInv == AclInv /\ [Next]_vars => AclInv'
<1> SUFFICES ASSUME AclInv, [Next]_vars PROVE AclInv'
  OBVIOUS
<1>0. /\ TypeOK /\ Control /\ CollectedExact /\ HighestSoFar /\ ResultFromCollected
      /\ rules \in Seq(Rule) /\ i \in Nat \ {0} /\ j \in Nat \ {0} /\ k \in Nat \ {0, 1}
      /\ bestDepth \in Int /\ permsAtBest \in Seq(Permission)
  BY DEF AclInv, TypeOK
<1>1. ASSUME NEW a \in DOMAIN rules PROVE a \in Nat /\ a <= Len(rules)
  BY <1>0
<1>2. CASE SkipRule
  <2>1. TypeOK' /\ Control' /\ HighestSoFar' /\ ResultFromCollected'
    BY <1>0, <1>2 DEF SkipRule, inputs, TypeOK, Control, HighestSoFar, ResultFromCollected
  <2>2. \A a \in DOMAIN rules : \A b \in DOMAIN rules[a].paths :
          Matches(a, b) => (Seen(a, b)' <=> Seen(a, b))
    BY <1>0, <1>1, <1>2 DEF SkipRule, Seen, Matches
  <2> QED BY <1>0, <1>2, <2>1, <2>2, CollectedKept DEF SkipRule, AclInv
<1>3. CASE EnterRule
  <2>1. TypeOK' /\ Control' /\ HighestSoFar' /\ ResultFromCollected'
    BY <1>0, <1>3 DEF EnterRule, inputs, TypeOK, Control, HighestSoFar, ResultFromCollected
  <2>2. \A a \in DOMAIN rules : \A b \in DOMAIN rules[a].paths :
          Matches(a, b) => (Seen(a, b)' <=> Seen(a, b))
    <3> SUFFICES ASSUME NEW a \in DOMAIN rules, NEW b \in DOMAIN rules[a].paths
                 PROVE  Seen(a, b)' <=> Seen(a, b)
      OBVIOUS
    <3>1. rules[a].paths \in Seq(Path)
      BY <1>0, DepthType
    <3>2. b \in Nat \ {0}
      BY <3>1
    <3> QED BY <1>0, <1>1, <1>3, <3>2 DEF EnterRule, Seen
  <2> QED BY <1>0, <1>3, <2>1, <2>2, CollectedKept DEF EnterRule, AclInv
<1>4. CASE TryPath
  <2>1. /\ i \in DOMAIN rules /\ pc = "paths" /\ j <= Len(rules[i].paths)
    BY <1>0, <1>4 DEF TryPath, Control
  <2>2. rules[i] \in Rule
    BY <1>0, <2>1
  <2>3. rules[i].permission \in Permission /\ rules[i].paths[j] \in Path
    BY <1>0, <2>1, <2>2 DEF Rule
  <2>4. segmentCount(rules[i].paths[j]) \in Nat
    BY <2>3, PathAssumption DEF segmentCount
  <2>5. bestDepth' \in Int /\ permsAtBest' \in Seq(Permission)
    <3>1. CASE matchPath(rules[i].paths[j], repoPath)
      <4>1. Collect(segmentCount(rules[i].paths[j]), rules[i].permission)
        BY <1>4, <3>1 DEF TryPath
      <4>2. bestDepth' \in Int
        BY <1>0, <2>4, <4>1 DEF Collect
      <4>3. \/ permsAtBest' = <<rules[i].permission>>
            \/ permsAtBest' = Append(permsAtBest, rules[i].permission)
            \/ permsAtBest' = permsAtBest
        BY <4>1 DEF Collect
      <4>4. <<rules[i].permission>> \in Seq(Permission)
        BY <2>3
      <4>5. Append(permsAtBest, rules[i].permission) \in Seq(Permission)
        BY <1>0, <2>3
      <4> QED BY <1>0, <4>2, <4>3, <4>4, <4>5
    <3>2. CASE ~matchPath(rules[i].paths[j], repoPath)
      BY <1>0, <1>4, <3>2 DEF TryPath
    <3> QED BY <3>1, <3>2
  <2>6. TypeOK'
    BY <1>0, <1>4, <2>5 DEF TryPath, inputs, TypeOK
  <2>7. Control' /\ HighestSoFar' /\ ResultFromCollected'
    BY <1>0, <1>4, <2>1 DEF TryPath, inputs, Control, HighestSoFar, ResultFromCollected
  <2> QED BY <1>4, <2>6, <2>7, TryPathCollects DEF AclInv
<1>5. CASE LeaveRule
  <2>1. TypeOK' /\ Control' /\ HighestSoFar' /\ ResultFromCollected'
    BY <1>0, <1>5 DEF LeaveRule, inputs, TypeOK, Control, HighestSoFar, ResultFromCollected
  <2>2. \A a \in DOMAIN rules : \A b \in DOMAIN rules[a].paths :
          Matches(a, b) => (Seen(a, b)' <=> Seen(a, b))
    <3> SUFFICES ASSUME NEW a \in DOMAIN rules, NEW b \in DOMAIN rules[a].paths
                 PROVE  Seen(a, b)' <=> Seen(a, b)
      OBVIOUS
    <3>1. rules[a].paths \in Seq(Path)
      BY <1>0, DepthType
    <3>2. b \in Nat /\ b <= Len(rules[a].paths) /\ Len(rules[a].paths) \in Nat
      BY <3>1
    <3> QED BY <1>0, <1>1, <1>5, <3>2 DEF LeaveRule, Seen
  <2> QED BY <1>0, <1>5, <2>1, <2>2, CollectedKept DEF LeaveRule, AclInv
<1>6. ASSUME UNCHANGED <<inputs, i, j, bestDepth, permsAtBest>>,
             pc \in {"rules", "perms", "done"}, pc' \in {"perms", "done"},
             i > Len(rules)
      PROVE  CollectedExact'
  <2>1. \A a \in DOMAIN rules : \A b \in DOMAIN rules[a].paths :
          Matches(a, b) => (Seen(a, b)' <=> Seen(a, b))
    BY <1>0, <1>1, <1>6 DEF Seen
  <2> QED BY <1>0, <1>6, <2>1, CollectedKept
<1>7. CASE Default
  <2>1. TypeOK'
    BY <1>0, <1>7, DefaultAssumption DEF Default, inputs, TypeOK
  <2>2. Control' /\ HighestSoFar' /\ ResultFromCollected'
    BY <1>0, <1>7 DEF Default, inputs, Control, HighestSoFar, ResultFromCollected
  <2>3. CollectedExact'
    BY <1>6, <1>7 DEF Default
  <2> QED BY <2>1, <2>2, <2>3 DEF AclInv
<1>8. CASE StartPerms
  <2>1. permsAtBest # <<>>
    BY <1>0, <1>8 DEF StartPerms, CollectedExact
  <2>2. Len(permsAtBest) >= 1 /\ permsAtBest[1] \in Permission
    BY <1>0, <2>1
  <2>3. TypeOK' /\ Control' /\ ResultFromCollected'
    BY <1>0, <1>8, <2>2 DEF StartPerms, inputs, TypeOK, Control, ResultFromCollected
  <2>4. HighestSoFar'
    BY <1>0, <1>8, <2>2 DEF StartPerms, HighestSoFar, Permission, Deny, FullAccess
  <2>5. CollectedExact'
    BY <1>6, <1>8 DEF StartPerms
  <2> QED BY <2>3, <2>4, <2>5 DEF AclInv
<1>9. CASE TryPerm
  <2>1. /\ pc = "perms" /\ k <= Len(permsAtBest) /\ i > Len(rules) /\ bestDepth >= 0
        /\ permsAtBest[k] \in Permission /\ highest \in Permission
    BY <1>0, <1>9 DEF TryPerm, Control, TypeOK
  <2>2. UNCHANGED <<inputs, i, j, bestDepth, permsAtBest>> /\ pc' \in {"perms", "done"}
    BY <1>9, <2>1 DEF TryPerm
  <2>3. CollectedExact'
    BY <1>6, <2>1, <2>2
  <2>4. CASE permsAtBest[k] = Deny
    <3>1. pc' = "done" /\ result' = Deny /\ UNCHANGED <<k, highest>>
      BY <1>9, <2>4 DEF TryPerm
    <3>2. TypeOK' /\ Control' /\ HighestSoFar'
      BY <1>0, <2>1, <2>2, <3>1
      DEF inputs, TypeOK, Control, HighestSoFar, Permission, Deny, FullAccess
    <3>3. ResultFromCollected'
      BY <1>0, <2>1, <2>2, <2>4, <3>1 DEF ResultFromCollected
    <3> QED BY <2>3, <3>2, <3>3 DEF AclInv
  <2>5. CASE permsAtBest[k] # Deny
    <3>1. /\ k' = k + 1 /\ pc' = pc /\ result' = result
          /\ highest' = IF permsAtBest[k] > highest THEN permsAtBest[k] ELSE highest
      BY <1>9, <2>5 DEF TryPerm
    <3>2. TypeOK' /\ Control' /\ ResultFromCollected'
      BY <1>0, <2>1, <2>2, <3>1 DEF inputs, TypeOK, Control, ResultFromCollected
    <3>3. HighestSoFar'
      <4>1. \A n \in 1 .. (k - 1) : permsAtBest[n] \in Permission
        BY <1>0, <2>1
      <4>2. \A n \in 1 .. k : n \in 1 .. (k - 1) \/ n = k
        BY <1>0
      <4> QED BY <1>0, <2>1, <2>2, <2>5, <3>1, <4>1, <4>2
              DEF HighestSoFar, Permission, Deny, FullAccess
    <3> QED BY <2>3, <3>2, <3>3 DEF AclInv
  <2> QED BY <2>4, <2>5
<1>10. CASE EndPerms
  <2>1. /\ pc = "perms" /\ k = Len(permsAtBest) + 1 /\ i > Len(rules) /\ bestDepth >= 0
        /\ pc' = "done" /\ result' = highest /\ highest \in Permission
    BY <1>0, <1>10 DEF EndPerms, Control, TypeOK, HighestSoFar
  <2>2. TypeOK' /\ Control' /\ HighestSoFar'
    BY <1>0, <1>10, <2>1 DEF EndPerms, inputs, TypeOK, Control, HighestSoFar
  <2>3. ResultFromCollected'
    BY <1>0, <1>10, <2>1 DEF EndPerms, HighestSoFar, ResultFromCollected
  <2>4. CollectedExact'
    BY <1>6, <1>10, <2>1 DEF EndPerms
  <2> QED BY <2>2, <2>3, <2>4 DEF AclInv
<1>11. CASE UNCHANGED vars
  BY <1>0, <1>11
  DEF vars, inputs, AclInv, TypeOK, Control, CollectedExact, HighestSoFar,
      ResultFromCollected, Seen, Matches, Depth
<1> QED BY <1>2, <1>3, <1>4, <1>5, <1>7, <1>8, <1>9, <1>10, <1>11 DEF Next, Done

\* Once every rule was looked at, what was collected is what the documented
\* cascade asks for: the permissions of the rules that match at the deepest level.
LEMMA CollectedIsDeepest ==
  ASSUME AclInv, i > Len(rules)
  PROVE  /\ \A n \in DOMAIN permsAtBest : permsAtBest[n] \in DeepestPerms
         /\ \A q \in DeepestPerms : \E n \in DOMAIN permsAtBest : permsAtBest[n] = q
<1>1. /\ CollectedExact /\ bestDepth \in Int /\ rules \in Seq(Rule) /\ i \in Nat
      /\ \A a \in DOMAIN rules : \A b \in DOMAIN rules[a].paths : Depth(a, b) \in Nat
  BY DepthType DEF AclInv, TypeOK
<1>2. \A a \in DOMAIN rules : \A b \in DOMAIN rules[a].paths : Seen(a, b)
  BY <1>1 DEF Seen
<1>3. ASSUME NEW n \in DOMAIN permsAtBest PROVE permsAtBest[n] \in DeepestPerms
  <2>1. PICK a \in DOMAIN rules : \E b \in DOMAIN rules[a].paths :
          Matches(a, b) /\ Depth(a, b) = bestDepth /\ permsAtBest[n] = rules[a].permission
    BY <1>1 DEF CollectedExact
  <2>2. AtDeepest(a)
    BY <1>1, <1>2, <2>1 DEF AtDeepest, CollectedExact
  <2> QED BY <2>1, <2>2 DEF DeepestPerms
<1>4. ASSUME NEW a \in DOMAIN rules, AtDeepest(a)
      PROVE  \E n \in DOMAIN permsAtBest : permsAtBest[n] = rules[a].permission
  <2>1. PICK b \in DOMAIN rules[a].paths :
          /\ Matches(a, b)
          /\ \A c \in DOMAIN rules : \A d \in DOMAIN rules[c].paths :
               Matches(c, d) => Depth(c, d) <= Depth(a, b)
    BY <1>4 DEF AtDeepest
  <2>2. Depth(a, b) <= bestDepth
    BY <1>1, <1>2, <2>1 DEF CollectedExact
  <2>3. bestDepth >= 0
    BY <1>1, <2>2
  <2>4. permsAtBest # <<>> /\ permsAtBest \in Seq(Permission)
    BY <1>1, <2>3 DEF CollectedExact, AclInv, TypeOK
  <2>5. 1 \in DOMAIN permsAtBest
    BY <2>4
  <2>6. bestDepth <= Depth(a, b)
    BY <1>1, <2>1, <2>5 DEF CollectedExact
  <2>7. Depth(a, b) = bestDepth
    BY <1>1, <2>2, <2>6
  <2> QED BY <1>1, <1>2, <2>1, <2>7 DEF CollectedExact
<1> QED BY <1>3, <1>4 DEF DeepestPerms

\* The inductive invariant gives the property of the answer.
LEMMA AclInvAnswers == AclInv => ResultFromDeepest
<1> SUFFICES ASSUME AclInv, pc = "done" PROVE ResultFromDeepest
  BY DEF ResultFromDeepest
<1>1. /\ i > Len(rules) /\ ResultFromCollected /\ CollectedExact /\ bestDepth \in Int
      /\ permsAtBest \in Seq(Permission)
  BY DEF AclInv, Control, TypeOK
<1>2. /\ \A n \in DOMAIN permsAtBest : permsAtBest[n] \in DeepestPerms
      /\ \A q \in DeepestPerms : \E n \in DOMAIN permsAtBest : permsAtBest[n] = q
  BY <1>1, CollectedIsDeepest
<1>3. CASE bestDepth < 0
  <2>1. DOMAIN permsAtBest = {}
    BY <1>1, <1>3 DEF CollectedExact
  <2>2. DeepestPerms = {}
    BY <1>2, <2>1
  <2>3. result = DefaultPerm
    BY <1>1, <1>3 DEF ResultFromCollected
  <2> QED BY <2>2, <2>3 DEF ResultFromDeepest
<1>4. CASE bestDepth >= 0
  <2>1. PICK n \in DOMAIN permsAtBest : permsAtBest[n] = result
    BY <1>1, <1>4 DEF ResultFromCollected
  <2>2. result \in DeepestPerms
    BY <1>2, <2>1
  <2>3. Deny \notin DeepestPerms => \A q \in DeepestPerms : q <= result
    BY <1>1, <1>2, <1>4 DEF ResultFromCollected
  <2>4. (\E m \in 2 .. Len(permsAtBest) : permsAtBest[m] = Deny) => result = Deny
    BY <1>1, <1>4 DEF ResultFromCollected
  <2> QED BY <2>2, <2>3, <2>4 DEF ResultFromDeepest
<1> QED BY <1>1, <1>3, <1>4

\* The collection of Resolve is exact at every point of its loops, for every
\* engine and every request.
THEOREM AclCollects == Spec => []CollectedExact
<1>1. AclInv => CollectedExact
  BY DEF AclInv
<1> QED BY AclInitInv, AclStepInv, <1>1, PTL DEF Spec

\* What Resolve answers comes from the deepest matching level, for every engine
\* and every request.
THEOREM AclAnswers == Spec => []ResultFromDeepest
<1> QED BY AclInitInv, AclStepInv, AclInvAnswers, PTL DEF Spec

-----------------------------------------------------------------------------
\* A set that has 0 and, with a number, the next one has every number up to L.  Were one
\* missing there would be a least one missing: this is the induction behind the loops below.
LEMMA NatReached ==
  ASSUME NEW L \in Nat, NEW T, 0 \in T, \A n \in 0 .. (L - 1) : n \in T => n + 1 \in T
  PROVE  0 .. L \subseteq T
<1> DEFINE U == (0 .. L) \ T
<1>1. SUFFICES ASSUME U # {} PROVE FALSE
  OBVIOUS
<1>2. U \subseteq Nat
  OBVIOUS
<1> HIDE DEF U
<1>3. PICK x \in U : \A y \in U : <<y, x>> \notin OpToRel(<, Nat)
  BY <1>1, <1>2, NatLessThanWellFounded, WFMin
<1>4. x \in 0 .. L /\ x \notin T
  BY DEF U
<1>5. x # 0
  BY <1>4
<1>6. x - 1 \in 0 .. (L - 1) /\ (x - 1) + 1 = x
  BY <1>4, <1>5
<1>7. x - 1 \in U
  BY <1>4, <1>6 DEF U
<1>8. ~(x - 1 < x)
  BY <1>2, <1>3, <1>7 DEF OpToRel
<1> QED BY <1>4, <1>8

\* A loop has the values that its body gives.
Runs(L, S, a, body) ==
  \E f \in [0 .. L -> S] : f[0] = a /\ \A n \in 1 .. L : f[n] = body[n][f[n - 1]]

\* A loop whose body stays in S runs, and its values are those the body gives.
LEMMA LoopRuns ==
  ASSUME NEW L \in Nat, NEW S, NEW a \in S, NEW body \in [1 .. L -> [S -> S]]
  PROVE  Runs(L, S, a, body)
<1> DEFINE Reaches(m) == \E f \in [0 .. m -> S] :
                         f[0] = a /\ \A n \in 1 .. m : f[n] = body[n][f[n - 1]]
           T == {m \in 0 .. L : Reaches(m)}
<1>1. Reaches(0)
  <2>1. [n \in 0 .. 0 |-> a] \in [0 .. 0 -> S] /\ [n \in 0 .. 0 |-> a][0] = a
    OBVIOUS
  <2>2. \A n \in 1 .. 0 : FALSE
    OBVIOUS
  <2> QED BY <2>1, <2>2
<1>2. ASSUME NEW m \in 0 .. (L - 1), Reaches(m) PROVE Reaches(m + 1)
  <2>1. PICK f \in [0 .. m -> S] : f[0] = a /\ \A n \in 1 .. m : f[n] = body[n][f[n - 1]]
    BY <1>2
  <2> DEFINE g == [n \in 0 .. (m + 1) |-> IF n <= m THEN f[n] ELSE body[m + 1][f[m]]]
  <2>2. body[m + 1][f[m]] \in S
    <3>1. m + 1 \in 1 .. L /\ f[m] \in S
      BY <2>1
    <3> QED BY <3>1
  <2>3. g \in [0 .. (m + 1) -> S]
    BY <2>1, <2>2
  <2>4. \A n \in 0 .. m : g[n] = f[n]
    OBVIOUS
  <2>5. g[m + 1] = body[m + 1][g[m]]
    BY <2>4
  <2> HIDE DEF g
  <2>6. \A n \in 1 .. (m + 1) : g[n] = body[n][g[n - 1]]
    <3> SUFFICES ASSUME NEW n \in 1 .. (m + 1) PROVE g[n] = body[n][g[n - 1]]
      OBVIOUS
    <3>1. CASE n = m + 1
      BY <2>5, <3>1
    <3>2. CASE n \in 1 .. m
      BY <2>1, <2>4, <3>2
    <3> QED BY <3>1, <3>2
  <2>7. g[0] = a
    BY <2>1, <2>4
  <2> QED BY <2>3, <2>6, <2>7
<1> HIDE DEF Reaches
<1>3. 0 \in T /\ \A m \in 0 .. (L - 1) : m \in T => m + 1 \in T
  BY <1>1, <1>2
<1> HIDE DEF T
<1>4. 0 .. L \subseteq T
  BY <1>3, NatReached
<1>5. Reaches(L)
  BY <1>4 DEF T
<1> QED BY <1>5 DEF Reaches, Runs

\* SplitRepoPath is such a loop: the values of its recursion.
LEMMA SplitLoop ==
  ASSUME NEW path \in Seq(STRING)
  PROVE  \E f \in [0 .. Len(path) -> Seq(STRING)] :
           /\ f[0] = <<>> /\ f[Len(path)] = SplitRepoPath(path)
           /\ \A n \in 1 .. Len(path) :
                f[n] = IF path[n] = "" THEN f[n - 1] ELSE Append(f[n - 1], path[n])
<1> DEFINE L == Len(path)
           S == Seq(STRING)
           empty == <<>>
           Body(n, x) == IF path[n] = "" THEN x ELSE Append(x, path[n])
           body == [n \in 1 .. L |-> [x \in S |-> Body(n, x)]]
           Loop(f) == [n \in 0 .. L |-> IF n = 0 THEN empty ELSE Body(n, f[n - 1])]
           segments == CHOOSE f : f = Loop(f)
<1>1. SplitRepoPath(path) = segments[L]
  BY DEF SplitRepoPath
<1>2. L \in Nat /\ empty \in S
  OBVIOUS
<1>3. \A n \in 1 .. L, x \in S : Body(n, x) \in S
  <2> TAKE n \in 1 .. L, x \in S
  <2>1. path[n] \in STRING
    OBVIOUS
  <2>2. Append(x, path[n]) \in S
    BY <2>1
  <2> QED BY <2>2
<1> HIDE DEF Body, L, S, empty
<1>4. body \in [1 .. L -> [S -> S]]
  BY <1>3
<1>50. \A n \in 1 .. L, x \in S : body[n][x] = Body(n, x)
  BY <1>3
<1> HIDE DEF body
<1>51. Runs(L, S, empty, body)
  BY <1>2, <1>4, LoopRuns
<1>5. PICK f \in [0 .. L -> S] : f[0] = empty /\ \A n \in 1 .. L : f[n] = body[n][f[n - 1]]
  BY <1>51 DEF Runs
<1>6. \A n \in 1 .. L : f[n] = Body(n, f[n - 1])
  <2> TAKE n \in 1 .. L
  <2>1. n - 1 \in 0 .. L
    BY <1>2
  <2>2. f[n - 1] \in S
    BY <1>5, <2>1
  <2> QED BY <1>50, <1>5, <2>2
<1>7. \A n \in 0 .. L : f[n] = Loop(f)[n]
  BY <1>2, <1>5, <1>6
<1>8. f = Loop(f)
  BY <1>5, <1>7
<1>9. segments = Loop(segments)
  BY <1>8
<1> HIDE DEF segments
<1>10. segments = [n \in 0 .. L |-> segments[n]]
  BY <1>9
<1>11. segments[0] = empty /\ \A n \in 1 .. L : segments[n] = Body(n, segments[n - 1])
  BY <1>2, <1>9
<1>12. 0 .. L \subseteq {n \in 0 .. L : segments[n] \in S}
  <2> DEFINE T == {n \in 0 .. L : segments[n] \in S}
  <2>1. 0 \in T
    BY <1>2, <1>11
  <2>2. ASSUME NEW n \in 0 .. (L - 1), n \in T PROVE n + 1 \in T
    <3>1. n + 1 \in 1 .. L /\ (n + 1) - 1 = n /\ segments[n] \in S
      BY <1>2, <2>2
    <3>2. segments[n + 1] = Body(n + 1, segments[n])
      BY <1>11, <3>1
    <3> QED BY <1>2, <1>3, <3>1, <3>2
  <2> HIDE DEF T
  <2> QED BY <1>2, <2>1, <2>2, NatReached DEF T
<1>13. segments \in [0 .. L -> S]
  BY <1>10, <1>12
<1> QED BY <1>1, <1>11, <1>13 DEF L, S, empty, Body

\* So is Clean.
LEMMA CleanLoop ==
  ASSUME NEW path \in Seq(STRING)
  PROVE  \E f \in [0 .. Len(path) -> Seq(STRING)] :
           /\ f[0] = <<>> /\ f[Len(path)] = Clean(path)
           /\ \A n \in 1 .. Len(path) :
                f[n] = CASE path[n] \in {"", "."} -> f[n - 1]
                         [] path[n] = ".." -> SubSeq(f[n - 1], 1, Len(f[n - 1]) - 1)
                         [] OTHER -> Append(f[n - 1], path[n])
<1> DEFINE L == Len(path)
           S == Seq(STRING)
           empty == <<>>
           Body(n, x) == CASE path[n] \in {"", "."} -> x
                           [] path[n] = ".." -> SubSeq(x, 1, Len(x) - 1)
                           [] OTHER -> Append(x, path[n])
           body == [n \in 1 .. L |-> [x \in S |-> Body(n, x)]]
           Loop(f) == [n \in 0 .. L |-> IF n = 0 THEN empty ELSE Body(n, f[n - 1])]
           c == CHOOSE f : f = Loop(f)
<1>1. Clean(path) = c[L]
  BY DEF Clean
<1>2. L \in Nat /\ empty \in S
  OBVIOUS
<1>3. \A n \in 1 .. L, x \in S : Body(n, x) \in S
  <2> TAKE n \in 1 .. L, x \in S
  <2>1. path[n] \in STRING
    OBVIOUS
  <2>2. Append(x, path[n]) \in S
    BY <2>1
  <2>3. SubSeq(x, 1, Len(x) - 1) \in S
    OBVIOUS
  <2> QED BY <2>2, <2>3
<1> HIDE DEF Body, L, S, empty
<1>4. body \in [1 .. L -> [S -> S]]
  BY <1>3
<1>50. \A n \in 1 .. L, x \in S : body[n][x] = Body(n, x)
  BY <1>3
<1> HIDE DEF body
<1>51. Runs(L, S, empty, body)
  BY <1>2, <1>4, LoopRuns
<1>5. PICK f \in [0 .. L -> S] : f[0] = empty /\ \A n \in 1 .. L : f[n] = body[n][f[n - 1]]
  BY <1>51 DEF Runs
<1>6. \A n \in 1 .. L : f[n] = Body(n, f[n - 1])
  <2> TAKE n \in 1 .. L
  <2>1. n - 1 \in 0 .. L
    BY <1>2
  <2>2. f[n - 1] \in S
    BY <1>5, <2>1
  <2> QED BY <1>50, <1>5, <2>2
<1>7. \A n \in 0 .. L : f[n] = Loop(f)[n]
  BY <1>2, <1>5, <1>6
<1>8. f = Loop(f)
  BY <1>5, <1>7
<1>9. c = Loop(c)
  BY <1>8
<1> HIDE DEF c
<1>10. c = [n \in 0 .. L |-> c[n]]
  BY <1>9
<1>11. c[0] = empty /\ \A n \in 1 .. L : c[n] = Body(n, c[n - 1])
  BY <1>2, <1>9
<1>12. 0 .. L \subseteq {n \in 0 .. L : c[n] \in S}
  <2> DEFINE T == {n \in 0 .. L : c[n] \in S}
  <2>1. 0 \in T
    BY <1>2, <1>11
  <2>2. ASSUME NEW n \in 0 .. (L - 1), n \in T PROVE n + 1 \in T
    <3>1. n + 1 \in 1 .. L /\ (n + 1) - 1 = n /\ c[n] \in S
      BY <1>2, <2>2
    <3>2. c[n + 1] = Body(n + 1, c[n])
      BY <1>11, <3>1
    <3> QED BY <1>2, <1>3, <3>1, <3>2
  <2> HIDE DEF T
  <2> QED BY <1>2, <2>1, <2>2, NatReached DEF T
<1>13. c \in [0 .. L -> S]
  BY <1>10, <1>12
<1> QED BY <1>1, <1>11, <1>13 DEF L, S, empty, Body

\* The segments s of the first n parts of a path: nothing empty, nothing that is not
\* among the parts, and every part that is not empty.
SegmentsOf(s, path, n) ==
  /\ \A m \in 1 .. Len(s) : s[m] # "" /\ \E q \in 1 .. n : path[q] = s[m]
  /\ \A q \in 1 .. n : path[q] # "" => \E m \in 1 .. Len(s) : s[m] = path[q]

\* One step of SplitRepoPath: s still holds exactly what is not empty in the path so far.
LEMMA SegmentsGrow ==
  ASSUME NEW path \in Seq(STRING), NEW s \in Seq(STRING), NEW n \in Nat, n + 1 \in 1 .. Len(path),
         SegmentsOf(s, path, n)
  PROVE  SegmentsOf(IF path[n + 1] = "" THEN s ELSE Append(s, path[n + 1]), path, n + 1)
<1>1. path[n + 1] \in STRING /\ Len(s) \in Nat
  OBVIOUS
<1>2. \A q \in 1 .. (n + 1) : q \in 1 .. n \/ q = n + 1
  OBVIOUS
<1>3. \A q \in 1 .. n : q \in 1 .. (n + 1)
  OBVIOUS
<1>4. n + 1 \in 1 .. (n + 1)
  OBVIOUS
<1>5. CASE path[n + 1] = ""
  <2>1. SegmentsOf(s, path, n + 1)
    BY <1>2, <1>3, <1>5 DEF SegmentsOf
  <2> QED BY <1>5, <2>1
<1>6. CASE path[n + 1] # ""
  <2> DEFINE t == Append(s, path[n + 1])
  <2>1. /\ Len(t) = Len(s) + 1 /\ t[Len(s) + 1] = path[n + 1]
        /\ \A m \in 1 .. Len(s) : t[m] = s[m]
    BY <1>1
  <2>2. /\ \A m \in 1 .. Len(t) : m \in 1 .. Len(s) \/ m = Len(s) + 1
        /\ \A m \in 1 .. Len(s) : m \in 1 .. Len(t)
        /\ Len(s) + 1 \in 1 .. Len(t)
    BY <1>1, <2>1
  <2> HIDE DEF t
  <2>3. ASSUME NEW m \in 1 .. Len(t) PROVE t[m] # "" /\ \E q \in 1 .. (n + 1) : path[q] = t[m]
    <3>1. CASE m = Len(s) + 1
      BY <1>4, <1>6, <2>1, <3>1
    <3>2. CASE m \in 1 .. Len(s)
      <4>1. t[m] # "" /\ \E q \in 1 .. n : path[q] = t[m]
        BY <2>1, <3>2 DEF SegmentsOf
      <4> QED BY <1>3, <4>1
    <3> QED BY <2>2, <3>1, <3>2
  <2>4. ASSUME NEW q \in 1 .. (n + 1), path[q] # "" PROVE \E m \in 1 .. Len(t) : t[m] = path[q]
    <3>1. CASE q = n + 1
      BY <2>1, <2>2, <3>1
    <3>2. CASE q \in 1 .. n
      <4>1. PICK m \in 1 .. Len(s) : s[m] = path[q]
        BY <2>4, <3>2 DEF SegmentsOf
      <4> QED BY <2>1, <2>2, <4>1
    <3> QED BY <1>2, <3>1, <3>2
  <2>5. SegmentsOf(t, path, n + 1)
    BY <2>3, <2>4 DEF SegmentsOf
  <2> QED BY <1>6, <2>5 DEF t
<1> QED BY <1>5, <1>6

\* SplitRepoPath keeps exactly the segments that are not empty.
LEMMA SplitSegments ==
  ASSUME NEW path \in Seq(STRING)
  PROVE  SplitRepoPath(path) \in Seq(STRING) /\ SegmentsOf(SplitRepoPath(path), path, Len(path))
<1> DEFINE L == Len(path)
           Grown(s, n) == IF path[n] = "" THEN s ELSE Append(s, path[n])
<1>1. PICK f \in [0 .. L -> Seq(STRING)] :
        /\ f[0] = <<>> /\ f[L] = SplitRepoPath(path)
        /\ \A n \in 1 .. L : f[n] = Grown(f[n - 1], n)
  BY SplitLoop
<1>2. L \in Nat
  OBVIOUS
<1> DEFINE T == {n \in 0 .. L : SegmentsOf(f[n], path, n)}
<1>3. 0 \in T
  <2>1. Len(<<>>) = 0 /\ \A m \in 1 .. 0 : FALSE
    OBVIOUS
  <2>2. SegmentsOf(<<>>, path, 0)
    BY <2>1 DEF SegmentsOf
  <2>3. SegmentsOf(f[0], path, 0)
    BY <1>1, <2>2
  <2>4. 0 \in 0 .. L
    BY <1>2
  <2> QED BY <2>3, <2>4
<1>4. ASSUME NEW n \in 0 .. (L - 1), n \in T PROVE n + 1 \in T
  <2>1. n \in Nat /\ n + 1 \in 1 .. L /\ (n + 1) - 1 = n /\ n \in 0 .. L /\ n + 1 \in 0 .. L
    BY <1>2
  <2>2. f[n] \in Seq(STRING)
    BY <1>1, <2>1
  <2>3. SegmentsOf(f[n], path, n)
    BY <1>4
  <2>4. SegmentsOf(Grown(f[n], n + 1), path, n + 1)
    BY <2>1, <2>2, <2>3, SegmentsGrow
  <2>5. f[n + 1] = Grown(f[n], n + 1)
    BY <1>1, <2>1
  <2>6. SegmentsOf(f[n + 1], path, n + 1)
    BY <2>4, <2>5
  <2> QED BY <2>1, <2>6
<1> HIDE DEF T
<1>5. 0 .. L \subseteq T
  BY <1>2, <1>3, <1>4, NatReached
<1>6. L \in 0 .. L
  BY <1>2
<1>7. SegmentsOf(f[L], path, L) /\ f[L] \in Seq(STRING)
  BY <1>1, <1>5, <1>6 DEF T
<1> QED BY <1>1, <1>7

\* Joining takes a path that is not rejected to its segments.
LEMMA CleanSplits ==
  ASSUME NEW path \in Seq(STRING), ~Rejected(path)
  PROVE  Clean(path) = SplitRepoPath(path)
<1> DEFINE L == Len(path)
           Grown(s, n) == IF path[n] = "" THEN s ELSE Append(s, path[n])
           Joined(s, n) == CASE path[n] \in {"", "."} -> s
                             [] path[n] = ".." -> SubSeq(s, 1, Len(s) - 1)
                             [] OTHER -> Append(s, path[n])
<1>1. PICK f \in [0 .. L -> Seq(STRING)] :
        /\ f[0] = <<>> /\ f[L] = SplitRepoPath(path)
        /\ \A n \in 1 .. L : f[n] = Grown(f[n - 1], n)
  BY SplitLoop
<1>2. PICK g \in [0 .. L -> Seq(STRING)] :
        /\ g[0] = <<>> /\ g[L] = Clean(path)
        /\ \A n \in 1 .. L : g[n] = Joined(g[n - 1], n)
  BY CleanLoop
<1>3. L \in Nat /\ \A n \in 1 .. L : path[n] \notin {".", ".."}
  BY DEF Rejected
<1>4. \A n \in 1 .. L, s \in Seq(STRING) : Joined(s, n) = Grown(s, n)
  BY <1>3
<1> HIDE DEF Joined, Grown
<1> DEFINE T == {n \in 0 .. L : g[n] = f[n]}
<1>5. 0 \in T
  <2>1. g[0] = f[0]
    BY <1>1, <1>2
  <2> QED BY <1>3, <2>1
<1>6. ASSUME NEW n \in 0 .. (L - 1), n \in T PROVE n + 1 \in T
  <2>1. n + 1 \in 1 .. L /\ (n + 1) - 1 = n /\ n \in 0 .. L /\ n + 1 \in 0 .. L
    BY <1>3
  <2>2. g[n] = f[n] /\ f[n] \in Seq(STRING)
    BY <1>1, <1>6, <2>1
  <2>3. f[n + 1] = Grown(f[n], n + 1) /\ g[n + 1] = Joined(g[n], n + 1)
    BY <1>1, <1>2, <2>1
  <2>4. g[n + 1] = f[n + 1]
    BY <1>4, <2>1, <2>2, <2>3
  <2> QED BY <2>1, <2>4
<1> HIDE DEF T
<1>7. 0 .. L \subseteq T
  BY <1>3, <1>5, <1>6, NatReached
<1>8. L \in 0 .. L
  BY <1>3
<1>9. g[L] = f[L]
  BY <1>7, <1>8 DEF T
<1> QED BY <1>1, <1>2, <1>9

\* A path with nothing empty in it is its own list of segments.
Begins(s, path, n) == Len(s) = n /\ \A m \in 1 .. n : s[m] = path[m]
NothingEmpty(path) == \A n \in 1 .. Len(path) : path[n] # ""

\* One step of SplitRepoPath on a path without empty segments.
LEMMA BeginsGrow ==
  ASSUME NEW path \in Seq(STRING), NEW s \in Seq(STRING), NEW n \in Nat, n + 1 \in 1 .. Len(path),
         Begins(s, path, n)
  PROVE  Begins(Append(s, path[n + 1]), path, n + 1)
<1> DEFINE t == Append(s, path[n + 1])
<1>1. path[n + 1] \in STRING /\ Len(s) = n
  BY DEF Begins
<1>2. Len(t) = n + 1 /\ t[n + 1] = path[n + 1] /\ \A m \in 1 .. n : t[m] = s[m]
  BY <1>1
<1>3. \A m \in 1 .. (n + 1) : m \in 1 .. n \/ m = n + 1
  OBVIOUS
<1> HIDE DEF t
<1>4. Begins(t, path, n + 1)
  BY <1>2, <1>3 DEF Begins
<1> QED BY <1>4 DEF t

\* A path without empty segments is its own split.
LEMMA SplitPlain ==
  ASSUME NEW path \in Seq(STRING), NothingEmpty(path)
  PROVE  SplitRepoPath(path) = path
<1> DEFINE L == Len(path)
           Grown(s, n) == IF path[n] = "" THEN s ELSE Append(s, path[n])
<1>1. PICK f \in [0 .. L -> Seq(STRING)] :
        /\ f[0] = <<>> /\ f[L] = SplitRepoPath(path)
        /\ \A n \in 1 .. L : f[n] = Grown(f[n - 1], n)
  BY SplitLoop
<1>2. L \in Nat
  OBVIOUS
<1> DEFINE T == {n \in 0 .. L : Begins(f[n], path, n)}
<1>3. 0 \in T
  <2>1. Len(<<>>) = 0 /\ \A m \in 1 .. 0 : FALSE
    OBVIOUS
  <2>2. Begins(<<>>, path, 0)
    BY <2>1 DEF Begins
  <2>3. Begins(f[0], path, 0)
    BY <1>1, <2>2
  <2>4. 0 \in 0 .. L
    BY <1>2
  <2> QED BY <2>3, <2>4
<1>4. ASSUME NEW n \in 0 .. (L - 1), n \in T PROVE n + 1 \in T
  <2>1. n \in Nat /\ n + 1 \in 1 .. L /\ (n + 1) - 1 = n /\ n \in 0 .. L /\ n + 1 \in 0 .. L
    BY <1>2
  <2>2. f[n] \in Seq(STRING)
    BY <1>1, <2>1
  <2>3. Begins(f[n], path, n)
    BY <1>4
  <2>4. Begins(Append(f[n], path[n + 1]), path, n + 1)
    BY <2>1, <2>2, <2>3, BeginsGrow
  <2>5. path[n + 1] # ""
    BY <2>1 DEF NothingEmpty
  <2>6. f[n + 1] = Append(f[n], path[n + 1])
    BY <1>1, <2>1, <2>5
  <2>7. Begins(f[n + 1], path, n + 1)
    BY <2>4, <2>6
  <2> QED BY <2>1, <2>7
<1> HIDE DEF T
<1>5. 0 .. L \subseteq T
  BY <1>2, <1>3, <1>4, NatReached
<1>6. L \in 0 .. L
  BY <1>2
<1>7. Begins(f[L], path, L) /\ f[L] \in Seq(STRING)
  BY <1>1, <1>5, <1>6 DEF T
<1>8. Begins(SplitRepoPath(path), path, L) /\ SplitRepoPath(path) \in Seq(STRING)
  BY <1>1, <1>7
<1>9. Len(SplitRepoPath(path)) = Len(path)
      /\ \A m \in 1 .. Len(path) : SplitRepoPath(path)[m] = path[m]
  BY <1>8 DEF Begins
<1> QED BY <1>8, <1>9, SeqEqual

-----------------------------------------------------------------------------
\* Every variable has its type.  The provers do not know a literal for a string, so the
\* empty one is named.
Segment == STRING \cup {""}
Effects == {"none", "createRepo", "deleteRepo", "read", "save", "list", "remove"}

AuthTypeOK ==
  /\ req \in Request /\ conf \in Setting
  /\ stage \in {"prefix", "acl", "resolve", "route", "done"}
  /\ prefix \in Seq(STRING) /\ apiPath \in Seq(Segment) /\ append \in BOOLEAN /\ status \in Nat
  /\ effect \in [do : Effects, repo : Seq(STRING), type : knownSegments \cup {""},
                 name : Hex \cup {""}]
  /\ row \in Seq(Seq(STRING))

\* The engine has not begun before it is asked.
Unasked ==
  stage \in {"prefix", "acl"} =>
    pc = "rules" /\ i = 1 /\ j = 1 /\ bestDepth = -1 /\ permsAtBest = <<>>

\* Nothing is done before the end.
Undone == stage # "done" => effect = NoEffect /\ row = <<>>

\* A request is refused, goes past the API, or is divided at the first segment that the
\* API knows, and the ACL is asked about the very prefix that the handler will use.
Divided ==
  LET s == SplitRepoPath(req.path)
  IN /\ ~System(req.path) /\ ~Rejected(req.path) /\ repoPath = prefix
     /\ \/ \E n \in FirstKnown(s) :
             prefix = SubSeq(s, 1, n - 1) /\ apiPath = Rest(s, n, req.path)
        \/ FirstKnown(s) = {} /\ prefix = s /\ apiPath = <<"">>

Passed == System(req.path) /\ apiPath = req.path

Refused ==
  /\ stage = "done" /\ status = 400 /\ effect = NoEffect /\ row = <<>> /\ apiPath = <<>>
  /\ Rejected(req.path) /\ ~System(req.path)

Taken == stage # "prefix" => Divided \/ Passed \/ Refused

\* A request of the API that is on its way to a handler has been allowed.
Decided ==
  stage = "route" /\ ~System(apiPath) =>
    LET op == Operation(req.method, apiPath)
    IN pc = "done" /\ Allowed(result, op) /\ append = (op = "write" /\ ~Allowed(result, "delete"))

Waiting == stage = "prefix" => apiPath = <<>>

AuthInv == AclInv /\ AuthTypeOK /\ Unasked /\ Undone /\ Waiting /\ Taken /\ Decided

-----------------------------------------------------------------------------

\* A sequence of one.
LEMMA Singleton ==
  ASSUME NEW S, NEW x \in S
  PROVE  <<x>> \in Seq(S) /\ <<>> \in Seq(S)
OBVIOUS

\* The path "/" and what is left of a path that ends.
LEMMA Slash == <<"">> \in Seq(Segment) /\ <<>> \in Seq(Segment)
BY Singleton DEF Segment

\* A path of strings is a path.
LEMMA StringsAreSegments == ASSUME NEW s \in Seq(STRING) PROVE s \in Seq(Segment)
<1>1. STRING \subseteq Segment
  BY DEF Segment
<1> QED BY <1>1, SeqMonotonic

\* What the divided path of a request looks like.
LEMMA DividedPath ==
  ASSUME AuthTypeOK, Divided
  PROVE  /\ \A n \in 1 .. Len(prefix) : prefix[n] # "" /\ prefix[n] \notin knownSegments
         /\ ~Rejected(prefix) /\ Clean(prefix) = prefix
         /\ Len(apiPath) >= 1 /\ ~System(apiPath)
<1> DEFINE path == req.path
           s == SplitRepoPath(path)
           Sound == /\ \A m \in 1 .. Len(prefix) :
                         /\ prefix[m] # "" /\ prefix[m] \notin knownSegments
                         /\ prefix[m] \notin {".", ".."} \cup Bad
                    /\ Len(apiPath) >= 1 /\ ~System(apiPath)
<1>1. path \in Seq(STRING) /\ path # <<>>
  BY DEF AuthTypeOK, Request
<1>2. s \in Seq(STRING) /\ SegmentsOf(s, path, Len(path))
  BY <1>1, SplitSegments
<1>3. Len(s) \in Nat /\ DOMAIN s = 1 .. Len(s) /\ DOMAIN path = 1 .. Len(path)
      /\ Len(path) \in Nat /\ Len(path) >= 1
  BY <1>1, <1>2
<1>4. \A m \in 1 .. Len(s) : s[m] # "" /\ s[m] \notin {".", ".."} \cup Bad
  BY <1>2, <1>3 DEF SegmentsOf, Divided, Rejected
<1> HIDE DEF s, path
<1>5. ASSUME \E n \in FirstKnown(s) : prefix = SubSeq(s, 1, n - 1) /\ apiPath = Rest(s, n, path)
      PROVE Sound
  <2>1. PICK n \in FirstKnown(s) : prefix = SubSeq(s, 1, n - 1) /\ apiPath = Rest(s, n, path)
    BY <1>5
  <2>2. n \in 1 .. Len(s) /\ s[n] \in knownSegments
        /\ \A m \in 1 .. (n - 1) : s[m] \notin knownSegments
    BY <1>3 DEF FirstKnown
  <2>3. Len(prefix) = n - 1 /\ \A m \in 1 .. (n - 1) : m \in 1 .. Len(s) /\ prefix[m] = s[m]
    BY <1>2, <1>3, <2>1, <2>2
  <2>4. \A m \in 1 .. Len(prefix) :
          prefix[m] # "" /\ prefix[m] \notin knownSegments /\ prefix[m] \notin {".", ".."} \cup Bad
    BY <1>4, <2>2, <2>3
  <2> DEFINE a == SubSeq(s, n, Len(s))
             t == IF path[Len(path)] = "" THEN <<"">> ELSE <<>>
  <2>5. a \in Seq(STRING) /\ Len(a) = Len(s) - n + 1 /\ a[1] = s[n]
    BY <1>2, <1>3, <2>2
  <2>6. t \in Seq(Segment) /\ a \in Seq(Segment)
    BY <2>5, Slash, StringsAreSegments
  <2>7. apiPath = a \o t
    BY <2>1 DEF Rest
  <2> HIDE DEF a, t
  <2>8. Len(a) >= 1 /\ Len(a) \in Nat /\ Len(t) \in Nat
    BY <1>3, <2>2, <2>5, <2>6
  <2>9. Len(apiPath) >= 1 /\ apiPath[1] = s[n]
    BY <2>5, <2>6, <2>7, <2>8
  <2>10. ~System(apiPath)
    <3>1. s[n] # "-"
      BY <2>2 DEF knownSegments, Types
    <3> QED BY <2>9, <3>1 DEF System
  <2> QED BY <2>4, <2>9, <2>10
<1>6. ASSUME FirstKnown(s) = {}, prefix = s, apiPath = <<"">>
      PROVE Sound
  <2>1. ASSUME NEW m \in 1 .. Len(s), s[m] \in knownSegments PROVE FALSE
    <3> DEFINE K == {q \in 1 .. Len(s) : s[q] \in knownSegments}
    <3>1. K # {} /\ K \subseteq Nat
      BY <1>3, <2>1
    <3> HIDE DEF K
    <3>2. PICK n \in K : \A q \in K : <<q, n>> \notin OpToRel(<, Nat)
      BY <3>1, NatLessThanWellFounded, WFMin
    <3>3. \A q \in K : ~(q < n)
      BY <3>1, <3>2 DEF OpToRel
    <3>4. n \in 1 .. Len(s) /\ s[n] \in knownSegments
      BY DEF K
    <3>5. \A q \in 1 .. (n - 1) : s[q] \notin knownSegments
      <4> TAKE q \in 1 .. (n - 1)
      <4>1. q \in 1 .. Len(s) /\ q < n
        BY <1>3, <3>4
      <4> QED BY <3>3, <4>1 DEF K
    <3>6. n \in FirstKnown(s)
      BY <1>3, <3>4, <3>5 DEF FirstKnown
    <3> QED BY <1>6, <3>6
  <2>2. \A m \in 1 .. Len(prefix) :
          prefix[m] # "" /\ prefix[m] \notin knownSegments /\ prefix[m] \notin {".", ".."} \cup Bad
    BY <1>4, <1>6, <2>1
  <2>3. Len(apiPath) >= 1 /\ ~System(apiPath)
    <3>1. Len(<<"">>) = 1
      OBVIOUS
    <3>2. ~System(<<"">>)
      BY <3>1 DEF System
    <3>3. Len(apiPath) = 1
      BY <1>6, <3>1
    <3>4. ~System(apiPath)
      BY <1>6, <3>2
    <3> QED BY <3>3, <3>4
  <2> QED BY <2>2, <2>3
<1>7. Divided
  OBVIOUS
<1>8. Sound
  BY <1>5, <1>6, <1>7 DEF Divided, s, path
<1>9. prefix \in Seq(STRING) /\ NothingEmpty(prefix) /\ ~Rejected(prefix)
  <2>1. prefix \in Seq(STRING)
    BY DEF AuthTypeOK
  <2>2. DOMAIN prefix = 1 .. Len(prefix)
    BY <2>1
  <2> QED BY <1>8, <2>1, <2>2 DEF NothingEmpty, Rejected
<1>10. Clean(prefix) = prefix
  BY <1>9, CleanSplits, SplitPlain
<1> QED BY <1>8, <1>9, <1>10

\* What the type invariant says of each variable.
LEMMA Typed ==
  ASSUME AuthTypeOK
  PROVE  /\ req \in Request /\ conf \in Setting
         /\ req.method \in Methods /\ req.path \in Seq(STRING) /\ req.path # <<>>
         /\ prefix \in Seq(STRING) /\ apiPath \in Seq(Segment)
         /\ append \in BOOLEAN /\ status \in Nat /\ row \in Seq(Seq(STRING))
         /\ effect \in [do : Effects, repo : Seq(STRING), type : knownSegments \cup {""},
                        name : Hex \cup {""}]
<1>1. req \in Request
  BY DEF AuthTypeOK
<1>2. req.method \in Methods /\ req.path \in Seq(STRING) \ {<<>>}
  BY <1>1 DEF Request
<1> QED BY <1>2 DEF AuthTypeOK

\* The place of a repository is a path.
LEMMA CleanTyped == ASSUME NEW path \in Seq(STRING) PROVE Clean(path) \in Seq(STRING)
<1>1. PICK f \in [0 .. Len(path) -> Seq(STRING)] : f[Len(path)] = Clean(path)
  BY CleanLoop
<1>2. Len(path) \in 0 .. Len(path)
  OBVIOUS
<1> QED BY <1>1, <1>2

\* The two parts that a path is divided into.
LEMMA PartsTyped ==
  ASSUME NEW s \in Seq(STRING), NEW n \in DOMAIN s, NEW path
  PROVE  SubSeq(s, 1, n - 1) \in Seq(STRING) /\ Rest(s, n, path) \in Seq(Segment)
<1>1. SubSeq(s, 1, n - 1) \in Seq(STRING) /\ SubSeq(s, n, Len(s)) \in Seq(STRING)
  OBVIOUS
<1>2. SubSeq(s, n, Len(s)) \in Seq(Segment)
  BY <1>1, StringsAreSegments
<1> DEFINE a == SubSeq(s, n, Len(s))
           t == IF path[Len(path)] = "" THEN <<"">> ELSE <<>>
<1>3. t \in Seq(Segment)
  BY Slash
<1>4. Rest(s, n, path) = a \o t
  BY DEF Rest
<1>5. a \in Seq(Segment)
  BY <1>2
<1> HIDE DEF a, t
<1>6. a \o t \in Seq(Segment)
  BY <1>3, <1>5, ConcatProperties
<1> QED BY <1>1, <1>4, <1>6

\* The engine may be asked about any path as long as it has not begun.
LEMMA EngineStarts ==
  ASSUME AclInv, pc = "rules", i = 1, j = 1, bestDepth = -1, permsAtBest = <<>>,
         UNCHANGED <<rules, identities, pc, i, j, bestDepth, permsAtBest, k, highest, result>>,
         repoPath' \in Seq(STRING)
  PROVE  AclInv'
<1>1. TypeOK'
  BY DEF AclInv, TypeOK
<1>2. Control' /\ HighestSoFar' /\ ResultFromCollected'
  BY DEF AclInv, Control, HighestSoFar, ResultFromCollected
<1>3. rules \in Seq(Rule)
  BY DEF AclInv, TypeOK
<1>4. ASSUME NEW a \in DOMAIN rules', NEW b \in DOMAIN rules'[a].paths PROVE ~Seen(a, b)'
  <2>1. a \in 1 .. Len(rules)
    BY <1>3
  <2> QED BY <2>1 DEF Seen
<1>5. CollectedExact'
  <2>1. DOMAIN permsAtBest' = {}
    OBVIOUS
  <2> QED BY <1>4, <2>1 DEF CollectedExact
<1> QED BY <1>1, <1>2, <1>5 DEF AclInv

\* A request arrives in a state of the invariant.
LEMMA AuthInitInv == AuthInit => AuthInv
<1> SUFFICES ASSUME AuthInit PROVE AuthInv
  OBVIOUS
<1>1. AclInv
  BY AclInitInv DEF AuthInit
<1>2. req \in Request /\ conf \in Setting
  <2>1. PICK x \in Calls(rules) : req = x[1] /\ conf = x[2]
    BY DEF AuthInit
  <2>2. rules \in RuleLists
    BY DEF AuthInit, Init
  <2>3. x \in Request \X Setting
    BY <2>1, <2>2, CallsAssumption
  <2> QED BY <2>1, <2>3
<1>3. /\ <<>> \in Seq(STRING) /\ <<>> \in Seq(Segment) /\ <<>> \in Seq(Seq(STRING))
      /\ NoEffect \in [do : Effects, repo : Seq(STRING), type : knownSegments \cup {""},
                       name : Hex \cup {""}]
  BY DEF NoEffect, Effects
<1>4. AuthTypeOK
  BY <1>2, <1>3 DEF AuthInit, AuthTypeOK
<1>5. Unasked /\ Undone /\ Waiting /\ Taken /\ Decided
  BY DEF AuthInit, Init, Unasked, Undone, Waiting, Taken, Decided
<1> QED BY <1>1, <1>4, <1>5 DEF AuthInv

\* Taking the prefix off keeps the invariant.
LEMMA RepoPrefixInv == ASSUME AuthInv, RepoPrefix PROVE AuthInv'
<1> DEFINE path == req.path
           s == SplitRepoPath(path)
<1>1. /\ stage = "prefix" /\ effect = NoEffect /\ row = <<>> /\ apiPath = <<>>
      /\ pc = "rules" /\ i = 1 /\ j = 1 /\ bestDepth = -1 /\ permsAtBest = <<>>
      /\ UNCHANGED <<rules, identities, pc, i, j, bestDepth, permsAtBest, k, highest, result>>
      /\ req' = req /\ conf' = conf
  BY DEF RepoPrefix, AuthInv, Undone, Unasked, Waiting, request
<1>2. AclInv /\ repoPath \in Seq(STRING) /\ AuthTypeOK
  BY DEF AuthInv, AclInv, TypeOK
<1>3. s \in Seq(STRING) /\ <<>> \in Seq(STRING) /\ path \in Seq(Segment)
  <2>1. path \in Seq(STRING)
    BY <1>2, Typed
  <2> HIDE DEF path
  <2>2. s \in Seq(STRING) /\ path \in Seq(Segment)
    BY <2>1, SplitSegments, StringsAreSegments
  <2> QED BY <2>2
<1> HIDE DEF s, path
<1>4. ASSUME NEW p \in Seq(STRING), NEW api \in Seq(Segment),
             prefix' = p, repoPath' = p, apiPath' = api, stage' = "acl",
             UNCHANGED <<append, status, effect, row>>,
             Divided' \/ Passed'
      PROVE  AuthInv'
  <2>1. AclInv'
    BY <1>1, <1>2, <1>4, EngineStarts
  <2>2. AuthTypeOK'
    BY <1>1, <1>2, <1>4 DEF AuthTypeOK
  <2>3. Unasked' /\ Undone' /\ Waiting' /\ Taken' /\ Decided'
    BY <1>1, <1>4 DEF Unasked, Undone, Waiting, Taken, Decided
  <2> QED BY <2>1, <2>2, <2>3 DEF AuthInv
<1>5. CASE System(path)
  <2>1. prefix' = <<>> /\ repoPath' = <<>> /\ apiPath' = path /\ stage' = "acl"
        /\ UNCHANGED <<append, status, effect, row>>
    BY <1>5 DEF RepoPrefix, path
  <2>2. Passed'
    BY <1>1, <1>5, <2>1 DEF Passed, path
  <2> QED BY <1>3, <1>4, <2>1, <2>2
<1>6. CASE ~System(path) /\ Rejected(path)
  <2>1. Finish(400) /\ UNCHANGED repoPath
    BY <1>6 DEF RepoPrefix, path
  <2>2. stage' = "done" /\ status' = 400 /\ UNCHANGED <<prefix, apiPath, append, effect, row>>
    BY <2>1 DEF Finish
  <2>3. AclInv'
    BY <1>1, <1>2, <2>1, EngineStarts
  <2>4. AuthTypeOK'
    <3>1. 400 \in Nat
      OBVIOUS
    <3>2. status' \in Nat /\ stage' = "done"
      BY <2>2, <3>1
    <3> QED BY <1>1, <1>2, <2>2, <3>2, Typed DEF AuthTypeOK
  <2>5. Refused'
    BY <1>1, <1>6, <2>2 DEF Refused, path
  <2>6. Unasked' /\ Undone' /\ Waiting' /\ Taken' /\ Decided'
    BY <2>2, <2>5 DEF Unasked, Undone, Waiting, Taken, Decided
  <2> QED BY <2>3, <2>4, <2>6 DEF AuthInv
<1>7. CASE ~System(path) /\ ~Rejected(path)
  <2>1. UNCHANGED <<append, status, effect, row>> /\ stage' = "acl"
    BY <1>7 DEF RepoPrefix, path
  <2>2. CASE \E n \in FirstKnown(s) :
               /\ prefix' = SubSeq(s, 1, n - 1) /\ repoPath' = SubSeq(s, 1, n - 1)
               /\ apiPath' = Rest(s, n, path)
    <3>1. PICK n \in FirstKnown(s) : /\ prefix' = SubSeq(s, 1, n - 1)
                                     /\ repoPath' = SubSeq(s, 1, n - 1)
                                     /\ apiPath' = Rest(s, n, path)
      BY <2>2
    <3>2. n \in DOMAIN s
      BY DEF FirstKnown
    <3>3. SubSeq(s, 1, n - 1) \in Seq(STRING) /\ Rest(s, n, path) \in Seq(Segment)
      BY <1>3, <3>2, PartsTyped
    <3>4. Divided'
      BY <1>1, <1>7, <3>1 DEF Divided, s, path
    <3> QED BY <1>4, <2>1, <3>1, <3>3, <3>4
  <2>3. CASE FirstKnown(s) = {} /\ prefix' = s /\ repoPath' = s /\ apiPath' = <<"">>
    <3>1. Divided'
      BY <1>1, <1>7, <2>3 DEF Divided, s, path
    <3> QED BY <1>3, <1>4, <2>1, <2>3, <3>1, Slash
  <2> QED BY <1>7, <2>2, <2>3 DEF RepoPrefix, s, path
<1> QED BY <1>5, <1>6, <1>7

\* The ACL middleware keeps it.
LEMMA EngineKept ==
  ASSUME AclInv, UNCHANGED vars
  PROVE  AclInv'
BY AclStepInv

\* The ACL middleware keeps the invariant: its classification, the engine, its decision.
LEMMA MiddlewareInv ==
  ASSUME AuthInv, Bypass \/ Resolve \/ Decide
  PROVE  AuthInv'
<1>1. AclInv /\ AuthTypeOK /\ Undone /\ Taken
  BY DEF AuthInv
<1>2. CASE Bypass
  <2>1. /\ stage = "acl" /\ stage' \in {"route", "resolve"} /\ UNCHANGED vars
        /\ UNCHANGED <<req, conf, prefix, apiPath, append, status, effect, row>>
        /\ stage' = "route" => System(apiPath)
    BY <1>2 DEF Bypass, request
  <2>2. AclInv'
    BY <1>1, <2>1, EngineKept
  <2>3. AuthTypeOK'
    BY <1>1, <2>1 DEF AuthTypeOK
  <2>4. repoPath' = repoPath
    BY <2>1 DEF vars, inputs
  <2>5. Taken'
    BY <1>1, <2>1, <2>4 DEF Taken, Divided, Passed, Refused
  <2>6. Unasked' /\ Undone' /\ Waiting' /\ Decided'
    BY <1>1, <2>1 DEF Unasked, Undone, Waiting, Decided
  <2> QED BY <2>2, <2>3, <2>5, <2>6 DEF AuthInv
<1>3. CASE Resolve
  <2>1. /\ stage = "resolve" /\ stage' = stage /\ Next
        /\ UNCHANGED <<req, conf, prefix, apiPath, append, status, effect, row>>
    BY <1>3 DEF Resolve, request, mine
  <2>2. AclInv'
    BY <1>1, <2>1, AclStepInv
  <2>3. AuthTypeOK'
    BY <1>1, <2>1 DEF AuthTypeOK
  <2>4. repoPath' = repoPath
    BY <2>1 DEF Next, SkipRule, EnterRule, TryPath, LeaveRule, Default, StartPerms, TryPerm,
                EndPerms, Done, vars, inputs
  <2>5. Taken'
    BY <1>1, <2>1, <2>4 DEF Taken, Divided, Passed, Refused
  <2>6. Unasked' /\ Undone' /\ Waiting' /\ Decided'
    BY <1>1, <2>1 DEF Unasked, Undone, Waiting, Decided
  <2> QED BY <2>2, <2>3, <2>5, <2>6 DEF AuthInv
<1>4. CASE Decide
  <2> DEFINE op == Operation(req.method, apiPath)
  <2>1. /\ stage = "resolve" /\ pc = "done" /\ UNCHANGED vars
        /\ UNCHANGED <<req, conf, prefix, apiPath, effect, row>>
        /\ \/ /\ Allowed(result, op) /\ stage' = "route" /\ UNCHANGED status
              /\ append' = (op = "write" /\ ~Allowed(result, "delete"))
           \/ stage' = "done" /\ status' = 403 /\ UNCHANGED append
    BY <1>4 DEF Decide, Finish, request
  <2>2. AclInv'
    BY <1>1, <2>1, EngineKept
  <2>3. stage' \in {"route", "done"} /\ append' \in BOOLEAN /\ status' \in Nat
    <3>0. 403 \in Nat
      OBVIOUS
    <3>1. 403 \in Nat /\ status \in Nat /\ append \in BOOLEAN
      BY <1>1, <3>0, Typed
    <3>2. status' \in Nat /\ stage' \in {"route", "done"}
      BY <2>1, <3>1
    <3>3. append' \in BOOLEAN
      BY <2>1, <3>1
    <3> QED BY <3>2, <3>3
  <2>4. AuthTypeOK'
    BY <1>1, <2>1, <2>3 DEF AuthTypeOK
  <2>5. repoPath' = repoPath /\ pc' = pc /\ result' = result
    BY <2>1 DEF vars, inputs
  <2>6. Taken'
    BY <1>1, <2>1, <2>3, <2>5 DEF Taken, Divided, Passed, Refused
  <2>7. Unasked' /\ Undone' /\ Waiting'
    BY <1>1, <2>1, <2>3 DEF Unasked, Undone, Waiting
  <2>8. Decided'
    BY <2>1, <2>5 DEF Decided
  <2> QED BY <2>2, <2>4, <2>6, <2>7, <2>8 DEF AuthInv
<1> QED BY <1>2, <1>3, <1>4

\* What the handlers of the API do to the storage, and for which requests.
Acted(do, type, name) ==
  effect' = [do |-> do, repo |-> Clean(prefix), type |-> type, name |-> name]

HandlerActs ==
  \/ UNCHANGED effect
  \/ apiPath = <<"">> /\ req.method = "POST" /\ Acted("createRepo", "", "")
  \/ apiPath = <<"">> /\ req.method = "DELETE" /\ Acted("deleteRepo", "", "")
  \/ req.method \in {"GET", "HEAD"} /\ \E t \in Types \cup {"config"}, n \in Hex \cup {""} :
                                         Acted("read", t, n)
  \/ req.method = "POST" /\ \E t \in Types \cup {"config"}, n \in Hex \cup {""} : Acted("save", t, n)
  \/ req.method = "GET" /\ \E t \in Types : Acted("list", t, "")
  \/ /\ req.method = "DELETE" /\ apiPath # <<"">> /\ apiPath[1] \in Types
     /\ \E n \in Hex : Acted("remove", apiPath[1], n)

\* Every handler of the API ends the request and acts, if at all, as HandlerActs says.
LEMMA HandleActs ==
  ASSUME AuthTypeOK, Handle
  PROVE  /\ stage = "route" /\ ~System(apiPath) /\ stage' = "done"
         /\ status' \in {200, 400, 404, 405}
         /\ UNCHANGED <<req, conf, prefix, apiPath, append, row>> /\ UNCHANGED vars
         /\ HandlerActs
<1>1. req.method \in Methods
  BY Typed
<1>2. stage = "route" /\ ~System(apiPath) /\ UNCHANGED <<req, conf>> /\ UNCHANGED vars
  BY DEF Handle, request
<1> DEFINE Ends(code) == /\ stage' = "done" /\ status' = code
                         /\ UNCHANGED <<prefix, apiPath, append, row>>
           Goal == /\ stage' = "done" /\ status' \in {200, 400, 404, 405}
                   /\ UNCHANGED <<prefix, apiPath, append, row>> /\ HandlerActs
<1>3. \A code \in {400, 404, 405} : Finish(code) => Goal
  BY DEF Finish, HandlerActs
<1>4. \A do, type, name : Acts(do, prefix, type, name) =>
        /\ stage' = "done" /\ status' = 200 /\ UNCHANGED <<prefix, apiPath, append, row>>
        /\ Acted(do, type, name)
  BY DEF Acts, Acted
<1>5. ASSUME NEW do, NEW type, NEW name, Acts(do, prefix, type, name),
             Acted(do, type, name) => HandlerActs
      PROVE  Goal
  BY <1>4, <1>5
<1> HIDE DEF Goal
<1>6. ASSUME RepoRoute PROVE Goal
  <2>1. apiPath = <<"">>
    BY <1>6 DEF RepoRoute
  <2>2. CASE req.method = "POST"
    <3>1. Acts("createRepo", prefix, "", "")
      BY <1>6, <2>2 DEF RepoRoute
    <3>2. Acted("createRepo", "", "") => HandlerActs
      BY <2>1, <2>2 DEF HandlerActs
    <3> QED BY <1>5, <3>1, <3>2
  <2>3. CASE req.method = "DELETE"
    <3>1. Acts("deleteRepo", prefix, "", "")
      BY <1>6, <2>3 DEF RepoRoute
    <3>2. Acted("deleteRepo", "", "") => HandlerActs
      BY <2>1, <2>3 DEF HandlerActs
    <3> QED BY <1>5, <3>1, <3>2
  <2>4. CASE req.method \notin {"POST", "DELETE"}
    BY <1>3, <1>6, <2>4 DEF RepoRoute
  <2> QED BY <2>2, <2>3, <2>4
<1>7. ASSUME ConfigRoute PROVE Goal
  <2>1. CASE req.method \in {"GET", "HEAD"}
    <3>1. Acts("read", prefix, "config", "")
      BY <1>7, <2>1 DEF ConfigRoute
    <3>2. Acted("read", "config", "") => HandlerActs
      BY <2>1 DEF HandlerActs
    <3> QED BY <1>5, <3>1, <3>2
  <2>2. CASE req.method = "POST"
    <3>1. Acts("save", prefix, "config", "")
      BY <1>7, <2>2 DEF ConfigRoute
    <3>2. Acted("save", "config", "") => HandlerActs
      BY <2>2 DEF HandlerActs
    <3> QED BY <1>5, <3>1, <3>2
  <2>3. CASE req.method \notin {"GET", "HEAD", "POST"}
    BY <1>3, <1>7, <2>3 DEF ConfigRoute
  <2> QED BY <2>1, <2>2, <2>3
<1>8. ASSUME ListRoute PROVE Goal
  <2>1. \/ Finish(405) \/ Finish(400)
        \/ req.method = "GET" /\ apiPath[1] \in Types /\ Acts("list", prefix, apiPath[1], "")
    BY <1>8 DEF ListRoute
  <2>2. CASE req.method = "GET" /\ apiPath[1] \in Types /\ Acts("list", prefix, apiPath[1], "")
    <3>1. Acted("list", apiPath[1], "") => HandlerActs
      BY <2>2 DEF HandlerActs
    <3> QED BY <1>5, <2>2, <3>1
  <2> QED BY <1>3, <2>1, <2>2
<1>9. ASSUME BlobRoute PROVE Goal
  <2> DEFINE type == apiPath[1]
             name == apiPath[2]
             Does(do) == type \in Types /\ name \in Hex /\ Acts(do, prefix, type, name)
  <2>1. \/ Finish(405) \/ Finish(400)
        \/ req.method \in {"GET", "HEAD"} /\ Does("read")
        \/ req.method = "POST" /\ Does("save")
        \/ req.method = "DELETE" /\ Does("remove")
    BY <1>9 DEF BlobRoute
  <2>2. CASE req.method \in {"GET", "HEAD"} /\ Does("read")
    <3>1. Acted("read", type, name) => HandlerActs
      BY <2>2 DEF HandlerActs
    <3> QED BY <1>5, <2>2, <3>1
  <2>3. CASE req.method = "POST" /\ Does("save")
    <3>1. Acted("save", type, name) => HandlerActs
      BY <2>3 DEF HandlerActs
    <3> QED BY <1>5, <2>3, <3>1
  <2>4. CASE req.method = "DELETE" /\ Does("remove")
    <3>1. apiPath # <<"">>
      <4>1. <<"">>[1] = "" /\ "" \notin Types
        BY DEF Types
      <4> QED BY <2>4, <4>1
    <3>2. Acted("remove", type, name) => HandlerActs
      BY <2>4, <3>1 DEF HandlerActs
    <3> QED BY <1>5, <2>4, <3>2
  <2> QED BY <1>3, <2>1, <2>2, <2>3, <2>4
<1>10. ASSUME NoRoute PROVE Goal
  BY <1>3, <1>10 DEF NoRoute
<1>11. RepoRoute \/ ConfigRoute \/ ListRoute \/ BlobRoute \/ NoRoute
  BY DEF Handle
<1>12. Goal
  BY <1>6, <1>7, <1>8, <1>9, <1>10, <1>11
<1> QED BY <1>2, <1>12 DEF Goal

-----------------------------------------------------------------------------
\* The types of what a handler did.
LEMMA ActedTyped ==
  ASSUME AuthTypeOK, NEW do \in Effects, NEW type \in knownSegments \cup {""},
         NEW name \in Hex \cup {""}, Acted(do, type, name)
  PROVE  effect' \in [do : Effects, repo : Seq(STRING), type : knownSegments \cup {""},
                      name : Hex \cup {""}]
<1>1. Clean(prefix) \in Seq(STRING)
  BY Typed, CleanTyped
<1> QED BY <1>1 DEF Acted

\* A handler's step keeps the invariant.
LEMMA HandleInv == ASSUME AuthInv, Handle PROVE AuthInv'
<1>1. AclInv /\ AuthTypeOK /\ Undone /\ Taken
  BY DEF AuthInv
<1>2. /\ stage = "route" /\ ~System(apiPath) /\ stage' = "done"
      /\ status' \in {200, 400, 404, 405}
      /\ UNCHANGED <<req, conf, prefix, apiPath, append, row>> /\ UNCHANGED vars
      /\ HandlerActs
  BY <1>1, HandleActs
<1>3. AclInv'
  BY <1>1, <1>2, EngineKept
<1>4. effect' \in [do : Effects, repo : Seq(STRING), type : knownSegments \cup {""},
                   name : Hex \cup {""}]
  <2>1. CASE UNCHANGED effect
    BY <1>1, <2>1, Typed
  <2>2. /\ {"createRepo", "deleteRepo", "read", "save", "list", "remove"} \subseteq Effects
        /\ Types \cup {"config"} \subseteq knownSegments
    BY DEF Effects, knownSegments
  <2>3. CASE ~UNCHANGED effect
    <3>1. \E do \in Effects, type \in knownSegments \cup {""}, name \in Hex \cup {""} :
            Acted(do, type, name)
      <4>1. \/ Acted("createRepo", "", "") \/ Acted("deleteRepo", "", "")
            \/ \E t \in Types \cup {"config"}, n \in Hex \cup {""} : Acted("read", t, n)
            \/ \E t \in Types \cup {"config"}, n \in Hex \cup {""} : Acted("save", t, n)
            \/ \E t \in Types : Acted("list", t, "")
            \/ apiPath[1] \in Types /\ \E n \in Hex : Acted("remove", apiPath[1], n)
        BY <1>2, <2>3 DEF HandlerActs
      <4> QED BY <2>2, <4>1
    <3>2. PICK do \in Effects, type \in knownSegments \cup {""}, name \in Hex \cup {""} :
            Acted(do, type, name)
      BY <3>1
    <3> QED BY <1>1, <3>2, ActedTyped
  <2> QED BY <2>1, <2>3
<1>5. status' \in Nat
  <2>1. {200, 400, 404, 405} \subseteq Nat
    OBVIOUS
  <2> QED BY <1>2, <2>1
<1>6. AuthTypeOK'
  BY <1>1, <1>2, <1>4, <1>5 DEF AuthTypeOK
<1>7. repoPath' = repoPath
  BY <1>2 DEF vars, inputs
<1>8. Taken'
  BY <1>1, <1>2, <1>7 DEF Taken, Divided, Passed, Refused
<1>9. Unasked' /\ Undone' /\ Waiting' /\ Decided'
  BY <1>2 DEF Unasked, Undone, Waiting, Decided
<1> QED BY <1>3, <1>6, <1>8, <1>9 DEF AuthInv

\* What the pages do: nothing, or list or remove locks of a repository.
Page ==
  \/ UNCHANGED <<effect, row>>
  \/ /\ IsUI /\ basicAuth /\ ~Rejected(UIRest) /\ row' = <<repoParam(UIRest)>>
     /\ effect' = [do |-> "list", repo |-> Clean(repoParam(UIRest)), type |-> "locks", name |-> ""]
  \/ /\ IsUI /\ basicAuth /\ UNCHANGED row /\ req.lock \in Hex
     /\ LET p == SubSeq(UIRest, 1, Len(UIRest) - 1)
        IN effect' = [do |-> "remove", repo |-> Clean(repoParam(p)), type |-> "locks",
                      name |-> req.lock]

\* Every page ends its request and acts, if at all, as Page says.
LEMMA PageActs ==
  ASSUME HandleSystem
  PROVE  /\ stage = "route" /\ System(apiPath) /\ stage' = "done"
         /\ status' \in {200, 303, 400, 401, 404}
         /\ UNCHANGED <<req, conf, prefix, apiPath, append>> /\ UNCHANGED vars
         /\ Page
<1> DEFINE Goal == /\ stage' = "done" /\ status' \in {200, 303, 400, 401, 404}
                   /\ UNCHANGED <<prefix, apiPath, append>> /\ Page
<1>1. stage = "route" /\ System(apiPath) /\ UNCHANGED <<req, conf>> /\ UNCHANGED vars
  BY DEF HandleSystem, request
<1>2. \A code \in {200, 303, 400, 401, 404} : Finish(code) => Goal
  BY DEF Finish, Page
<1>3. ASSUME IsUI, basicAuth, RepoDetail PROVE Goal
  <2>1. CASE Finish(400)
    BY <1>2, <2>1
  <2>2. CASE ~Finish(400)
    BY <1>3, <2>2 DEF RepoDetail, Page
  <2> QED BY <2>1, <2>2
<1>4. ASSUME IsUI, basicAuth, DeleteLock PROVE Goal
  <2> DEFINE p == SubSeq(UIRest, 1, Len(UIRest) - 1)
  <2>1. Finish(404) \/ Finish(400) \/ Finish(303)
        \/ (req.lock \in Hex /\ Acts("remove", repoParam(p), "locks", req.lock))
    BY <1>4 DEF DeleteLock
  <2>2. CASE req.lock \in Hex /\ Acts("remove", repoParam(p), "locks", req.lock)
    BY <1>4, <2>2 DEF Acts, Page
  <2> QED BY <1>2, <2>1, <2>2
<1>5. Goal
  <2> HIDE DEF Goal
  <2>1. \/ IsUI /\ basicAuth /\ (RepoDetail \/ DeleteLock)
        \/ \E code \in {200, 401, 404} : Finish(code)
    BY DEF HandleSystem
  <2> QED BY <1>2, <1>3, <1>4, <2>1
<1> QED BY <1>1, <1>5

\* A request that is past the API has its own path.
LEMMA PassedPath ==
  ASSUME AuthInv, System(apiPath), stage # "prefix"
  PROVE  apiPath \in Seq(STRING) /\ apiPath = req.path /\ System(req.path)
<1>1. AuthTypeOK /\ Taken
  BY DEF AuthInv
<1>2. ~System(<<>>)
  BY DEF System
<1>3. Passed
  BY <1>1, <1>2, DividedPath DEF Taken, Refused
<1> QED BY <1>1, <1>3, Typed DEF Passed

\* What follows /-/ui/repos/ in a path, and all of it but its last segment, are paths.
LEMMA UIRestTyped ==
  ASSUME apiPath \in Seq(STRING), IsUI
  PROVE  /\ UIRest \in Seq(STRING) /\ SubSeq(UIRest, 1, Len(UIRest) - 1) \in Seq(STRING)
BY DEF UIRest, IsUI

\* A page's step keeps the invariant.
LEMMA HandleSystemInv == ASSUME AuthInv, HandleSystem PROVE AuthInv'
<1>1. AclInv /\ AuthTypeOK /\ Undone /\ Taken
  BY DEF AuthInv
<1>2. /\ stage = "route" /\ System(apiPath) /\ stage' = "done"
      /\ status' \in {200, 303, 400, 401, 404}
      /\ UNCHANGED <<req, conf, prefix, apiPath, append>> /\ UNCHANGED vars
      /\ Page
  BY PageActs
<1>3. AclInv'
  BY <1>1, <1>2, EngineKept
<1>4. apiPath \in Seq(STRING)
  BY <1>2, PassedPath
<1>5. \A p \in Seq(STRING) : repoParam(p) \in Seq(STRING) /\ Clean(repoParam(p)) \in Seq(STRING)
  BY SplitSegments, CleanTyped DEF repoParam
<1>6. /\ effect' \in [do : Effects, repo : Seq(STRING), type : knownSegments \cup {""},
                      name : Hex \cup {""}]
      /\ row' \in Seq(Seq(STRING))
  <2>1. CASE UNCHANGED <<effect, row>>
    BY <1>1, <2>1, Typed
  <2>2. CASE /\ IsUI /\ row' = <<repoParam(UIRest)>>
             /\ effect' = [do |-> "list", repo |-> Clean(repoParam(UIRest)), type |-> "locks",
                           name |-> ""]
    <3>1. repoParam(UIRest) \in Seq(STRING) /\ Clean(repoParam(UIRest)) \in Seq(STRING)
      BY <1>4, <1>5, <2>2, UIRestTyped
    <3>2. row' \in Seq(Seq(STRING))
      BY <2>2, <3>1, Singleton
    <3>3. "list" \in Effects /\ "locks" \in knownSegments
      BY DEF Effects, knownSegments, Types
    <3> QED BY <2>2, <3>1, <3>2, <3>3
  <2>3. ASSUME IsUI, UNCHANGED row, req.lock \in Hex,
               effect' = [do |-> "remove",
                          repo |-> Clean(repoParam(SubSeq(UIRest, 1, Len(UIRest) - 1))),
                          type |-> "locks", name |-> req.lock]
        PROVE  /\ effect' \in [do : Effects, repo : Seq(STRING), type : knownSegments \cup {""},
                               name : Hex \cup {""}]
               /\ row' \in Seq(Seq(STRING))
    <3> DEFINE p == SubSeq(UIRest, 1, Len(UIRest) - 1)
    <3>1. Clean(repoParam(p)) \in Seq(STRING)
      BY <1>4, <1>5, <2>3, UIRestTyped
    <3>2. row' \in Seq(Seq(STRING))
      BY <1>1, <2>3, Typed
    <3>3. "remove" \in Effects /\ "locks" \in knownSegments
      BY DEF Effects, knownSegments, Types
    <3> QED BY <2>3, <3>1, <3>2, <3>3
  <2> QED BY <1>2, <2>1, <2>2, <2>3 DEF Page
<1>7. status' \in Nat
  <2>1. {200, 303, 400, 401, 404} \subseteq Nat
    OBVIOUS
  <2> QED BY <1>2, <2>1
<1>8. AuthTypeOK'
  BY <1>1, <1>2, <1>6, <1>7 DEF AuthTypeOK
<1>9. repoPath' = repoPath
  BY <1>2 DEF vars, inputs
<1>10. Taken'
  <2>1. Divided \/ Passed
    BY <1>1, <1>2 DEF Taken, Refused
  <2>2. Divided => Divided'
    BY <1>2, <1>9 DEF Divided
  <2>3. Passed => Passed'
    BY <1>2 DEF Passed
  <2> QED BY <2>1, <2>2, <2>3 DEF Taken
<1>11. Unasked' /\ Undone' /\ Waiting' /\ Decided'
  BY <1>2 DEF Unasked, Undone, Waiting, Decided
<1> QED BY <1>3, <1>8, <1>10, <1>11 DEF AuthInv

\* So does no step at all.
LEMMA AuthStays == ASSUME AuthInv, UNCHANGED authVars PROVE AuthInv'
<1>1. UNCHANGED vars /\ UNCHANGED <<req, conf, stage, prefix, apiPath, append, status, effect, row>>
  BY DEF authVars, request, mine
<1>2. UNCHANGED <<repoPath, pc, i, j, bestDepth, permsAtBest, result>>
  BY <1>1 DEF vars, inputs
<1>3. AclInv'
  BY <1>1, EngineKept DEF AuthInv
<1>4. AuthTypeOK' /\ Unasked' /\ Undone' /\ Waiting'
  BY <1>1, <1>2 DEF AuthInv, AuthTypeOK, Unasked, Undone, Waiting
<1>5. Taken'
  <2>1. Divided => Divided'
    BY <1>1, <1>2 DEF Divided
  <2>2. Passed => Passed'
    BY <1>1 DEF Passed
  <2>3. Refused => Refused'
    BY <1>1 DEF Refused
  <2> QED BY <1>1, <2>1, <2>2, <2>3 DEF AuthInv, Taken
<1>6. Decided'
  BY <1>1, <1>2 DEF AuthInv, Decided
<1> QED BY <1>3, <1>4, <1>5, <1>6 DEF AuthInv

\* Every step of a request keeps the invariant.
LEMMA AuthStepInv == AuthInv /\ [AuthNext]_authVars => AuthInv'
<1> SUFFICES ASSUME AuthInv, [AuthNext]_authVars PROVE AuthInv'
  OBVIOUS
<1>1. CASE RepoPrefix
  BY <1>1, RepoPrefixInv
<1>2. CASE Bypass \/ Resolve \/ Decide
  BY <1>2, MiddlewareInv
<1>3. CASE Handle
  BY <1>3, HandleInv
<1>4. CASE HandleSystem
  BY <1>4, HandleSystemInv
<1>5. CASE Served \/ UNCHANGED authVars
  BY <1>5, AuthStays DEF Served
<1> QED BY <1>1, <1>2, <1>3, <1>4, <1>5 DEF AuthNext

-----------------------------------------------------------------------------
\* Before the handlers nothing is done.
LEMMA Quiet ==
  ASSUME AuthInv, RepoPrefix \/ Bypass \/ Resolve \/ Decide
  PROVE  effect' = NoEffect /\ row' = <<>> /\ stage # "done"
<1>1. stage # "done"
  BY DEF RepoPrefix, Bypass, Resolve, Decide
<1>2. effect = NoEffect /\ row = <<>>
  BY <1>1 DEF AuthInv, Undone
<1>3. UNCHANGED <<effect, row>>
  BY DEF RepoPrefix, Bypass, Resolve, Decide, Finish, mine
<1> QED BY <1>1, <1>2, <1>3

\* Nothing follows from a request that did nothing.
LEMMA NothingDone ==
  /\ effect' = NoEffect => effect'.do = "none"
  /\ effect' = NoEffect => DecisionCoversEffect' /\ NoPartOfARepository'
<1>1. NoEffect.do = "none"
  BY DEF NoEffect
<1>2. effect' = NoEffect => effect'.do = "none"
  BY <1>1
<1>3. effect'.do = "none" => DecisionCoversEffect' /\ NoPartOfARepository'
  BY DEF DecisionCoversEffect, NoPartOfARepository
<1> QED BY <1>2, <1>3

\* At a handler of the API.
LEMMA AtHandler ==
  ASSUME AuthInv, Handle
  PROVE  /\ Divided /\ Clean(prefix) = prefix /\ repoPath = prefix
         /\ \A n \in 1 .. Len(prefix) : prefix[n] \notin knownSegments
         /\ pc = "done" /\ Allowed(result, Operation(req.method, apiPath))
         /\ append = (Operation(req.method, apiPath) = "write" /\ ~Allowed(result, "delete"))
<1>1. stage = "route" /\ ~System(apiPath)
  BY DEF Handle
<1>2. Divided
  BY <1>1 DEF AuthInv, Taken, Passed, Refused
<1>3. Clean(prefix) = prefix /\ \A n \in 1 .. Len(prefix) : prefix[n] \notin knownSegments
  BY <1>2, DividedPath DEF AuthInv
<1>4. repoPath = prefix
  BY <1>2 DEF Divided
<1> QED BY <1>1, <1>2, <1>3, <1>4 DEF AuthInv, Decided

\* What an allowed operation requires.
LEMMA AllowedPerm ==
  ASSUME NEW perm \in Permission, NEW op, Allowed(perm, op)
  PROVE  /\ op = "read" => perm >= ReadOnly
         /\ op = "write" => perm >= AppendOnly
         /\ op = "delete" => perm >= FullAccess
BY DEF Allowed

\* Only full access covers a delete.
LEMMA MayDelete ==
  ASSUME NEW perm \in Permission
  PROVE  Allowed(perm, "delete") <=> perm >= FullAccess
BY DEF Allowed

\* What classifyOperation makes of a method.
LEMMA Operations ==
  /\ \A path : Operation("GET", path) = "read" /\ Operation("HEAD", path) = "read"
  /\ \A path : Operation("POST", path) = "write"
  /\ \A path : path[1] = "locks" => Operation("DELETE", path) = "write"
  /\ \A path : path[1] # "locks" => Operation("DELETE", path) = "delete"
BY DEF Operation

\* What a handler of the API does is covered by the decision of the ACL.
LEMMA HandleCovers ==
  ASSUME AuthInv, Handle
  PROVE  DecisionCoversEffect'
<1> DEFINE op == Operation(req.method, apiPath)
<1>1. /\ ~System(apiPath) /\ UNCHANGED <<req, apiPath, append>> /\ UNCHANGED <<pc, result, repoPath>>
      /\ HandlerActs /\ stage = "route"
  BY HandleActs DEF AuthInv, vars, inputs
<1>2. /\ Clean(prefix) = prefix /\ repoPath = prefix /\ pc = "done" /\ Allowed(result, op)
      /\ append = (op = "write" /\ ~Allowed(result, "delete"))
  BY AtHandler
<1>3. result \in Permission /\ result \in Int
  BY DEF AuthInv, AclInv, TypeOK, Permission
<1>4. /\ op = "read" => result >= ReadOnly
      /\ op = "write" => result >= AppendOnly
      /\ op = "delete" => result >= FullAccess
  BY <1>2, <1>3, AllowedPerm
<1>5. result < FullAccess => ~Allowed(result, "delete")
  BY <1>3, MayDelete DEF FullAccess
<1> DEFINE Goal == /\ effect'.repo = prefix /\ result >= Needed'
                   /\ effect'.do = "save" /\ result < FullAccess => append
<1> HIDE DEF Goal
<1>6. ASSUME NEW type, NEW name, Acted("createRepo", type, name), req.method = "POST" PROVE Goal
  <2>1. op = "write"
    BY <1>6, Operations
  <2> QED BY <1>2, <1>4, <1>6, <2>1 DEF Acted, Goal, Needed
<1>7. ASSUME NEW type, NEW name, Acted("deleteRepo", type, name), req.method = "DELETE",
             apiPath = <<"">>
      PROVE Goal
  <2>1. op = "delete"
    <3>1. <<"">>[1] = ""
      OBVIOUS
    <3>2. apiPath[1] # "locks"
      BY <1>7, <3>1
    <3> QED BY <1>7, <3>2, Operations
  <2> QED BY <1>2, <1>4, <1>7, <2>1 DEF Acted, Goal, Needed
<1>8. ASSUME NEW type, NEW name, Acted("read", type, name), req.method \in {"GET", "HEAD"}
      PROVE Goal
  <2>1. op = "read"
    BY <1>8, Operations
  <2> QED BY <1>2, <1>4, <1>8, <2>1 DEF Acted, Goal, Needed
<1>9. ASSUME NEW type, NEW name, Acted("save", type, name), req.method = "POST" PROVE Goal
  <2>1. op = "write"
    BY <1>9, Operations
  <2>2. result < FullAccess => append
    BY <1>2, <1>5, <2>1
  <2> QED BY <1>2, <1>4, <1>9, <2>1, <2>2 DEF Acted, Goal, Needed
<1>10. ASSUME NEW type, NEW name, Acted("list", type, name), req.method = "GET" PROVE Goal
  <2>1. op = "read"
    BY <1>10, Operations
  <2> QED BY <1>2, <1>4, <1>10, <2>1 DEF Acted, Goal, Needed
<1>11. ASSUME NEW name, Acted("remove", apiPath[1], name), req.method = "DELETE" PROVE Goal
  <2>1. CASE apiPath[1] = "locks"
    <3>1. op = "write"
      BY <1>11, <2>1, Operations
    <3> QED BY <1>2, <1>4, <1>11, <2>1, <3>1 DEF Acted, Goal, Needed
  <2>2. CASE apiPath[1] # "locks"
    <3>1. op = "delete"
      BY <1>11, <2>2, Operations
    <3> QED BY <1>2, <1>4, <1>11, <2>2, <3>1 DEF Acted, Goal, Needed
  <2> QED BY <2>1, <2>2
<1>12. effect = NoEffect
  BY <1>1 DEF AuthInv, Undone
<1>13. effect' = NoEffect \/ Goal
  BY <1>1, <1>6, <1>7, <1>8, <1>9, <1>10, <1>11, <1>12 DEF HandlerActs
<1>14. CASE effect' = NoEffect
  BY <1>14 DEF NoEffect, DecisionCoversEffect
<1>15. CASE Goal
  <2>1. effect'.repo = repoPath' /\ result' >= Needed'
        /\ (effect'.do = "save" /\ result' < FullAccess => append')
    BY <1>1, <1>2, <1>15 DEF Goal
  <2> QED BY <1>1, <1>2, <2>1 DEF DecisionCoversEffect, System
<1> QED BY <1>13, <1>14, <1>15

\* Every answer covers what follows it.
LEMMA CoversStep ==
  AuthInv /\ DecisionCoversEffect /\ [AuthNext]_authVars => DecisionCoversEffect'
<1> SUFFICES ASSUME AuthInv, DecisionCoversEffect, [AuthNext]_authVars PROVE DecisionCoversEffect'
  OBVIOUS
<1>1. CASE RepoPrefix \/ Bypass \/ Resolve \/ Decide
  BY <1>1, Quiet, NothingDone
<1>2. CASE Handle
  BY <1>2, HandleCovers
<1>3. CASE HandleSystem
  <2>1. System(apiPath) /\ UNCHANGED <<req, conf, apiPath>> /\ Page /\ stage = "route"
    BY <1>3, PageActs
  <2>2. effect = NoEffect
    BY <2>1 DEF AuthInv, Undone
  <2>3. effect' = NoEffect \/ (effect'.type = "locks" /\ basicAuth)
    <3>1. CASE UNCHANGED <<effect, row>>
      BY <2>2, <3>1
    <3>2. CASE ~UNCHANGED <<effect, row>>
      <4>1. basicAuth /\ \E do, repo, name :
              effect' = [do |-> do, repo |-> repo, type |-> "locks", name |-> name]
        BY <2>1, <3>2 DEF Page
      <4> QED BY <4>1
    <3> QED BY <3>1, <3>2
  <2>4. System(apiPath)'
    BY <2>1 DEF System
  <2>5. basicAuth => basicAuth'
    BY <2>1 DEF basicAuth
  <2>6. CASE effect'.type = "locks" /\ basicAuth
    BY <2>4, <2>5, <2>6 DEF DecisionCoversEffect
  <2> QED BY <2>3, <2>6, NothingDone
<1>4. CASE Served \/ UNCHANGED authVars
  <2>1. UNCHANGED <<effect, apiPath, conf, req, pc, repoPath, result, append>>
    BY <1>4 DEF Served, authVars, vars, inputs, request, mine
  <2>2. /\ Needed' = Needed /\ (basicAuth => basicAuth')
        /\ System(apiPath)' <=> System(apiPath)
    BY <2>1 DEF Needed, basicAuth, System
  <2> QED BY <2>1, <2>2 DEF DecisionCoversEffect
<1> QED BY <1>1, <1>2, <1>3, <1>4 DEF AuthNext

\* A step does not take a part of a repository for a repository.
LEMMA NoPartStep ==
  AuthInv /\ NoPartOfARepository /\ [AuthNext]_authVars => NoPartOfARepository'
<1> SUFFICES ASSUME AuthInv, NoPartOfARepository, [AuthNext]_authVars PROVE NoPartOfARepository'
  OBVIOUS
<1>1. CASE RepoPrefix \/ Bypass \/ Resolve \/ Decide
  BY <1>1, Quiet, NothingDone
<1>2. CASE Handle
  <2>1. HandlerActs /\ stage = "route" /\ prefix \in Seq(STRING)
    BY <1>2, HandleActs, Typed DEF AuthInv
  <2>2. effect = NoEffect
    BY <2>1 DEF AuthInv, Undone
  <2>3. effect' = NoEffect \/ effect'.repo = prefix
    <3>1. Clean(prefix) = prefix
      BY <1>2, AtHandler
    <3>2. \A do, type, name : Acted(do, type, name) => effect'.repo = prefix
      BY <3>1 DEF Acted
    <3> QED BY <2>1, <2>2, <3>2 DEF HandlerActs
  <2>4. DOMAIN prefix = 1 .. Len(prefix)
    BY <2>1
  <2>5. \A n \in DOMAIN prefix : prefix[n] \notin knownSegments
    BY <1>2, <2>4, AtHandler
  <2>6. CASE effect'.repo = prefix
    BY <2>5, <2>6 DEF NoPartOfARepository
  <2> QED BY <2>3, <2>6, NothingDone
<1>3. CASE HandleSystem
  <2>1. System(apiPath')
    BY <1>3, PageActs
  <2> QED BY <2>1 DEF NoPartOfARepository
<1>4. CASE Served \/ UNCHANGED authVars
  BY <1>4 DEF Served, authVars, mine, NoPartOfARepository
<1> QED BY <1>1, <1>2, <1>3, <1>4 DEF AuthNext

\* A step of a page finds the row of its repository.
LEMMA RowStep == AuthInv /\ RowFound /\ [AuthNext]_authVars => RowFound'
<1> SUFFICES ASSUME AuthInv, RowFound, [AuthNext]_authVars PROVE RowFound'
  OBVIOUS
<1>0. DOMAIN <<>> = {}
  OBVIOUS
<1>1. CASE row' = <<>>
  BY <1>0, <1>1 DEF RowFound
<1>2. CASE RepoPrefix \/ Bypass \/ Resolve \/ Decide
  BY <1>1, <1>2, Quiet
<1>3. CASE Handle
  <2>1. row' = row /\ stage = "route"
    BY <1>3, HandleActs DEF AuthInv
  <2>2. row = <<>>
    BY <2>1 DEF AuthInv, Undone
  <2> QED BY <1>1, <2>1, <2>2
<1>4. CASE HandleSystem
  <2>1. System(apiPath) /\ UNCHANGED apiPath /\ Page /\ stage = "route"
    BY <1>4, PageActs
  <2>2. row = <<>>
    BY <2>1 DEF AuthInv, Undone
  <2>3. row' = <<>> \/ (IsUI /\ ~Rejected(UIRest) /\ row' = <<repoParam(UIRest)>>)
    BY <2>1, <2>2 DEF Page
  <2>4. CASE IsUI /\ ~Rejected(UIRest) /\ row' = <<repoParam(UIRest)>>
    <3>1. UIRest \in Seq(STRING)
      BY <2>1, <2>4, PassedPath, UIRestTyped
    <3>2. Clean(UIRest) = repoParam(UIRest)
      BY <2>4, <3>1, CleanSplits DEF repoParam
    <3>3. UIRest' = UIRest
      BY <2>1 DEF UIRest
    <3>4. \A n \in DOMAIN row' : row'[n] = repoParam(UIRest)
      BY <2>4
    <3>5. Clean(UIRest') = repoParam(UIRest)
      BY <3>2, <3>3
    <3> QED BY <3>4, <3>5 DEF RowFound, recorded
  <2> QED BY <1>1, <2>3, <2>4
<1>5. CASE Served \/ UNCHANGED authVars
  <2>1. row' = row /\ apiPath' = apiPath
    BY <1>5 DEF Served, authVars, mine
  <2>2. UIRest' = UIRest
    BY <2>1 DEF UIRest
  <2> QED BY <2>1, <2>2 DEF RowFound
<1> QED BY <1>2, <1>3, <1>4, <1>5 DEF AuthNext

-----------------------------------------------------------------------------
\* The first m segments of s are the prefix of a repository.
Proper(s, m) ==
  LET p == SubSeq(s, 1, m) IN ~Rejected(p) /\ \A q \in DOMAIN p : p[q] \notin knownSegments

Strange == {".", ".."} \cup Bad

ObjectRequest ==
  LET s == SplitRepoPath(req.path)
      n == Len(s)
  IN /\ n >= 2 /\ Proper(s, n - 2) /\ s[n - 1] \in Types /\ s[n] \in Hex
     /\ ~(req.path[Len(req.path)] = "")
     /\ req.method \in {"GET", "HEAD", "POST", "DELETE"}

ObjectServed ==
  LET s == SplitRepoPath(req.path)
      n == Len(s)
  IN /\ effect.repo = SubSeq(s, 1, n - 2) /\ effect.type = s[n - 1] /\ effect.name = s[n]
     /\ effect.do \in {"read", "save", "remove"}

ListRequest ==
  LET s == SplitRepoPath(req.path)
      n == Len(s)
  IN /\ n >= 1 /\ Proper(s, n - 1) /\ s[n] \in Types /\ req.path[Len(req.path)] = ""
     /\ req.method = "GET"

ListServed ==
  LET s == SplitRepoPath(req.path)
      n == Len(s)
  IN effect = [do |-> "list", repo |-> SubSeq(s, 1, n - 1), type |-> s[n], name |-> ""]

\* Serves is what it says of objects and what it says of listings.
LEMMA ServesParts ==
  Serves <=> (stage = "done" /\ status # 403 /\ ~System(req.path) =>
                (ObjectRequest => ObjectServed) /\ (ListRequest => ListServed))
BY DEF Serves, ObjectRequest, ObjectServed, ListRequest, ListServed, Proper

\* The segments of a proper prefix are neither known to the API nor strange.
LEMMA ProperSegments ==
  ASSUME NEW s \in Seq(STRING), NEW m \in 0 .. Len(s), Proper(s, m)
  PROVE  \A q \in 1 .. m : s[q] \notin knownSegments /\ s[q] \notin Strange
<1> DEFINE p == SubSeq(s, 1, m)
<1>1. DOMAIN p = 1 .. m /\ \A q \in 1 .. m : p[q] = s[q]
  OBVIOUS
<1>2. ~Rejected(p) /\ \A q \in DOMAIN p : p[q] \notin knownSegments
  BY DEF Proper
<1> HIDE DEF p
<1> QED BY <1>1, <1>2 DEF Rejected, Strange

\* A path is not rejected if its split has no strange segment.
LEMMA NotRejected ==
  ASSUME NEW path \in Seq(STRING), NEW s, s = SplitRepoPath(path),
         \A q \in 1 .. Len(s) : s[q] \notin Strange
  PROVE  ~Rejected(path)
<1> SUFFICES ASSUME NEW n \in DOMAIN path, path[n] \in Strange PROVE FALSE
  BY DEF Rejected, Strange
<1>1. n \in 1 .. Len(path)
  OBVIOUS
<1>2. path[n] # ""
  BY SegmentAssumption DEF Strange
<1>3. PICK m \in 1 .. Len(s) : s[m] = path[n]
  BY <1>1, <1>2, SplitSegments DEF SegmentsOf
<1> QED BY <1>3

\* The first known segment of a path is the only first one.
LEMMA OnlyKnown ==
  ASSUME NEW s \in Seq(STRING), NEW m \in 1 .. Len(s), s[m] \in knownSegments,
         \A q \in 1 .. (m - 1) : s[q] \notin knownSegments
  PROVE  FirstKnown(s) = {m}
<1>1. DOMAIN s = 1 .. Len(s) /\ Len(s) \in Nat
  OBVIOUS
<1>2. m \in FirstKnown(s)
  BY <1>1 DEF FirstKnown
<1>3. ASSUME NEW x \in FirstKnown(s) PROVE x = m
  <2>1. x \in 1 .. Len(s) /\ s[x] \in knownSegments
        /\ \A q \in 1 .. (x - 1) : s[q] \notin knownSegments
    BY <1>1 DEF FirstKnown
  <2>2. ~(x \in 1 .. (m - 1)) /\ ~(m \in 1 .. (x - 1))
    BY <2>1
  <2> QED BY <1>1, <2>1, <2>2
<1> QED BY <1>2, <1>3

\* The segments of a request for an object, and of one for a listing.
LEMMA ObjectSegments ==
  ASSUME AuthTypeOK, ObjectRequest, NEW s, s = SplitRepoPath(req.path), NEW n, n = Len(s)
  PROVE  /\ s \in Seq(STRING) /\ n \in Nat /\ n >= 2 /\ ~Rejected(req.path)
         /\ FirstKnown(s) = {n - 1} /\ s[n - 1] \in Types /\ s[n] \in Hex /\ s[n] # ""
         /\ Rest(s, n - 1, req.path) = SubSeq(s, n - 1, n) \o <<>>
<1>1. req.path \in Seq(STRING)
  BY Typed
<1>2. s \in Seq(STRING) /\ n \in Nat /\ n >= 2
  <2>1. s \in Seq(STRING)
    BY <1>1, SplitSegments
  <2>2. n >= 2
    BY DEF ObjectRequest
  <2> QED BY <2>1, <2>2
<1>3. Proper(s, n - 2) /\ s[n - 1] \in Types /\ s[n] \in Hex
      /\ ~(req.path[Len(req.path)] = "")
  BY DEF ObjectRequest
<1>4. \A q \in 1 .. (n - 2) : s[q] \notin knownSegments /\ s[q] \notin Strange
  <2>1. n - 2 \in 0 .. Len(s)
    BY <1>2
  <2> QED BY <1>2, <1>3, <2>1, ProperSegments
<1>5. s[n - 1] \in knownSegments /\ s[n - 1] \notin Strange
  <2>1. s[n - 1] \in knownSegments
    BY <1>3 DEF knownSegments
  <2>2. s[n - 1] \notin {".", ".."}
    BY <1>3 DEF Types
  <2>3. s[n - 1] \notin Bad
    BY <2>1, SegmentAssumption
  <2> QED BY <2>1, <2>2, <2>3 DEF Strange
<1>6. s[n] \notin Strange /\ s[n] # ""
  BY <1>3, SegmentAssumption DEF Strange
<1>7. \A q \in 1 .. n : q \in 1 .. (n - 2) \/ q = n - 1 \/ q = n
  BY <1>2
<1>8. ~Rejected(req.path)
  BY <1>1, <1>4, <1>5, <1>6, <1>7, NotRejected
<1>9. FirstKnown(s) = {n - 1}
  <2>1. n - 1 \in 1 .. Len(s) /\ (n - 1) - 1 = n - 2
    BY <1>2
  <2> QED BY <1>2, <1>4, <1>5, <2>1, OnlyKnown
<1>10. Rest(s, n - 1, req.path) = SubSeq(s, n - 1, n) \o <<>>
  BY <1>3 DEF Rest
<1> QED BY <1>2, <1>3, <1>6, <1>8, <1>9, <1>10

\* The segments of a request for a listing.
LEMMA ListSegments ==
  ASSUME AuthTypeOK, ListRequest, NEW s, s = SplitRepoPath(req.path), NEW n, n = Len(s)
  PROVE  /\ s \in Seq(STRING) /\ n \in Nat /\ n >= 1 /\ ~Rejected(req.path)
         /\ FirstKnown(s) = {n} /\ s[n] \in Types
         /\ Rest(s, n, req.path) = SubSeq(s, n, n) \o <<"">>
<1>1. req.path \in Seq(STRING)
  BY Typed
<1>2. s \in Seq(STRING) /\ n \in Nat /\ n >= 1
  <2>1. s \in Seq(STRING)
    BY <1>1, SplitSegments
  <2>2. n >= 1
    BY DEF ListRequest
  <2> QED BY <2>1, <2>2
<1>3. Proper(s, n - 1) /\ s[n] \in Types /\ req.path[Len(req.path)] = ""
  BY DEF ListRequest
<1>4. \A q \in 1 .. (n - 1) : s[q] \notin knownSegments /\ s[q] \notin Strange
  <2>1. n - 1 \in 0 .. Len(s)
    BY <1>2
  <2> QED BY <1>2, <1>3, <2>1, ProperSegments
<1>5. s[n] \in knownSegments /\ s[n] \notin Strange
  <2>1. s[n] \in knownSegments
    BY <1>3 DEF knownSegments
  <2>2. s[n] \notin {".", ".."}
    BY <1>3 DEF Types
  <2>3. s[n] \notin Bad
    BY <2>1, SegmentAssumption
  <2> QED BY <2>1, <2>2, <2>3 DEF Strange
<1>6. \A q \in 1 .. n : q \in 1 .. (n - 1) \/ q = n
  BY <1>2
<1>7. ~Rejected(req.path)
  BY <1>1, <1>4, <1>5, <1>6, NotRejected
<1>8. FirstKnown(s) = {n}
  <2>1. n \in 1 .. Len(s)
    BY <1>2
  <2> QED BY <1>2, <1>4, <1>5, <2>1, OnlyKnown
<1>9. Rest(s, n, req.path) = SubSeq(s, n, n) \o <<"">>
  BY <1>3 DEF Rest
<1> QED BY <1>2, <1>3, <1>7, <1>8, <1>9

\* The last two segments of a path.
LEMMA LastTwo ==
  ASSUME NEW s \in Seq(STRING), Len(s) >= 2
  PROVE  LET a == SubSeq(s, Len(s) - 1, Len(s)) \o <<>>
         IN Len(a) = 2 /\ a[1] = s[Len(s) - 1] /\ a[2] = s[Len(s)]
<1> DEFINE b == SubSeq(s, Len(s) - 1, Len(s))
<1>1. b \in Seq(STRING) /\ Len(b) = 2 /\ b[1] = s[Len(s) - 1] /\ b[2] = s[Len(s)]
  OBVIOUS
<1> HIDE DEF b
<1>2. b \o <<>> = b
  BY <1>1
<1> QED BY <1>1, <1>2 DEF b

\* Two sequences of one, joined.
LEMMA JoinTwo ==
  ASSUME NEW S, NEW b \in Seq(S), NEW t \in Seq(S), Len(b) = 1, Len(t) = 1
  PROVE  Len(b \o t) = 2 /\ (b \o t)[1] = b[1] /\ (b \o t)[2] = t[1]
<1>1. /\ Len(b \o t) = Len(b) + Len(t)
      /\ \A q \in 1 .. (Len(b) + Len(t)) :
           (b \o t)[q] = IF q <= Len(b) THEN b[q] ELSE t[q - Len(b)]
  BY ConcatProperties
<1>2. Len(b) + Len(t) = 2 /\ 1 \in 1 .. (Len(b) + Len(t)) /\ 1 <= Len(b)
      /\ 2 \in 1 .. (Len(b) + Len(t)) /\ ~(2 <= Len(b)) /\ 2 - Len(b) = 1
  OBVIOUS
<1>3. (b \o t)[1] = b[1]
  BY <1>1, <1>2
<1>4. (b \o t)[2] = t[2 - Len(b)]
  BY <1>1, <1>2
<1> QED BY <1>1, <1>2, <1>3, <1>4

\* The last segment of a path and its slash.
LEMMA LastAndSlash ==
  ASSUME NEW s \in Seq(STRING), Len(s) >= 1
  PROVE  LET a == SubSeq(s, Len(s), Len(s)) \o <<"">>
         IN Len(a) = 2 /\ a[1] = s[Len(s)] /\ a[2] = ""
<1> DEFINE b == SubSeq(s, Len(s), Len(s))
           t == <<"">>
<1>1. b \in Seq(STRING) /\ Len(b) = 1 /\ b[1] = s[Len(s)]
  OBVIOUS
<1>2. t \in Seq(Segment)
  BY Slash
<1>3. Len(t) = 1 /\ t[1] = ""
  OBVIOUS
<1> HIDE DEF b, t
<1>4. b \in Seq(Segment)
  BY <1>1, StringsAreSegments
<1>5. Len(b \o t) = 2 /\ (b \o t)[1] = b[1] /\ (b \o t)[2] = t[1]
  BY <1>1, <1>2, <1>3, <1>4, JoinTwo
<1> QED BY <1>1, <1>3, <1>5 DEF b, t

\* A request for an object that reaches its handler is served.
LEMMA ObjectHandled ==
  ASSUME AuthInv, Handle, ObjectRequest
  PROVE  ObjectServed'
<1> DEFINE s == SplitRepoPath(req.path)
           n == Len(s)
<1>1. AuthTypeOK /\ Divided /\ Clean(prefix) = prefix /\ req' = req
  BY AtHandler, HandleActs DEF AuthInv
<1>0. n \in Nat /\ n >= 2
  BY <1>1, ObjectSegments
<1>2. /\ s \in Seq(STRING) /\ n \in Nat /\ n >= 2 /\ FirstKnown(s) = {n - 1}
      /\ s[n - 1] \in Types /\ s[n] \in Hex /\ s[n] # ""
      /\ Rest(s, n - 1, req.path) = SubSeq(s, n - 1, n) \o <<>>
  BY <1>1, ObjectSegments
<1>3. /\ \/ \E x \in FirstKnown(s) : prefix = SubSeq(s, 1, x - 1) /\ apiPath = Rest(s, x, req.path)
         \/ FirstKnown(s) = {} /\ prefix = s /\ apiPath = <<"">>
  BY <1>1 DEF Divided
<1> HIDE DEF s, n
<1>4. prefix = SubSeq(s, 1, n - 2) /\ apiPath = SubSeq(s, n - 1, n) \o <<>>
  <2>1. PICK x \in FirstKnown(s) :
          prefix = SubSeq(s, 1, x - 1) /\ apiPath = Rest(s, x, req.path)
    BY <1>2, <1>3
  <2>2. x = n - 1
    BY <1>2
  <2>3. x - 1 = n - 2
    BY <1>0, <2>2
  <2> QED BY <1>2, <2>1, <2>2, <2>3
<1>5. Len(apiPath) = 2 /\ apiPath[1] = s[n - 1] /\ apiPath[2] = s[n]
  BY <1>2, <1>4, LastTwo DEF n
<1>6. req.method # "PUT"
  BY DEF ObjectRequest
<1>7. BlobRoute
  <2>1. Len(<<"">>) = 1 /\ Len(<<"config">>) = 1
    OBVIOUS
  <2>6. 2 # 1
    OBVIOUS
  <2>2. Len(apiPath) # 1
    BY <1>5, <2>6
  <2>5. apiPath # <<"">> /\ apiPath # <<"config">>
    BY <2>1, <2>2
  <2>3. ~RepoRoute /\ ~ConfigRoute /\ ~NoRoute
    BY <2>2, <2>5 DEF RepoRoute, ConfigRoute, NoRoute
  <2>4. ~ListRoute
    BY <1>2, <1>5 DEF ListRoute
  <2> QED BY <2>3, <2>4 DEF Handle
<1>8. PICK do \in {"read", "save", "remove"} : Acts(do, prefix, apiPath[1], apiPath[2])
  BY <1>2, <1>5, <1>6, <1>7 DEF BlobRoute
<1>9. effect' = [do |-> do, repo |-> prefix, type |-> s[n - 1], name |-> s[n]]
  BY <1>1, <1>5, <1>8 DEF Acts
<1> QED BY <1>1, <1>4, <1>9 DEF ObjectServed, s, n

\* So is a request for a listing.
LEMMA ListHandled ==
  ASSUME AuthInv, Handle, ListRequest
  PROVE  ListServed'
<1> DEFINE s == SplitRepoPath(req.path)
           n == Len(s)
<1>1. AuthTypeOK /\ Divided /\ Clean(prefix) = prefix /\ req' = req
  BY AtHandler, HandleActs DEF AuthInv
<1>2. /\ s \in Seq(STRING) /\ n \in Nat /\ n >= 1 /\ FirstKnown(s) = {n} /\ s[n] \in Types
      /\ Rest(s, n, req.path) = SubSeq(s, n, n) \o <<"">>
  BY <1>1, ListSegments
<1>3. /\ \/ \E x \in FirstKnown(s) : prefix = SubSeq(s, 1, x - 1) /\ apiPath = Rest(s, x, req.path)
         \/ FirstKnown(s) = {} /\ prefix = s /\ apiPath = <<"">>
  BY <1>1 DEF Divided
<1> HIDE DEF s, n
<1>4. prefix = SubSeq(s, 1, n - 1) /\ apiPath = SubSeq(s, n, n) \o <<"">>
  BY <1>2, <1>3
<1>5. Len(apiPath) = 2 /\ apiPath[1] = s[n] /\ apiPath[2] = ""
  BY <1>2, <1>4, LastAndSlash DEF n
<1>6. req.method = "GET"
  BY DEF ListRequest
<1>7. ListRoute
  <2>1. Len(<<"">>) = 1 /\ Len(<<"config">>) = 1
    OBVIOUS
  <2>6. 2 # 1
    OBVIOUS
  <2>2. Len(apiPath) # 1
    BY <1>5, <2>6
  <2>5. apiPath # <<"">> /\ apiPath # <<"config">>
    BY <2>1, <2>2
  <2>3. ~RepoRoute /\ ~ConfigRoute /\ ~NoRoute
    BY <2>2, <2>5 DEF RepoRoute, ConfigRoute, NoRoute
  <2>4. ~BlobRoute
    BY <1>2, <1>5 DEF BlobRoute
  <2> QED BY <2>3, <2>4 DEF Handle
<1>8. Acts("list", prefix, apiPath[1], "")
  BY <1>2, <1>5, <1>6, <1>7 DEF ListRoute
<1>9. effect' = [do |-> "list", repo |-> prefix, type |-> s[n], name |-> ""]
  BY <1>1, <1>5, <1>8 DEF Acts
<1> QED BY <1>1, <1>4, <1>9 DEF ListServed, s, n

\* No step refuses what must be served.
LEMMA ServesStep == AuthInv /\ Serves /\ [AuthNext]_authVars => Serves'
<1> SUFFICES ASSUME AuthInv, Serves, [AuthNext]_authVars,
                    stage' = "done", status' # 403, ~System(req'.path)
             PROVE  (ObjectRequest' => ObjectServed') /\ (ListRequest' => ListServed')
  BY DEF Serves, ObjectRequest, ObjectServed, ListRequest, ListServed, Proper
<1>1. AuthTypeOK
  BY DEF AuthInv
<1>2. req' = req => (ObjectRequest' <=> ObjectRequest) /\ (ListRequest' <=> ListRequest)
  BY DEF ObjectRequest, ListRequest
<1>3. CASE RepoPrefix
  <2>1. Rejected(req.path) /\ req' = req
    BY <1>3 DEF RepoPrefix, request
  <2> QED BY <1>1, <1>2, <2>1, ObjectSegments, ListSegments
<1>4. CASE Bypass \/ Resolve \/ Decide
  BY <1>4 DEF Bypass, Resolve, Decide, Finish, mine
<1>5. CASE Handle
  BY <1>2, <1>5, ObjectHandled, ListHandled, HandleActs DEF AuthInv
<1>6. CASE HandleSystem
  BY <1>6, PageActs, PassedPath
<1>7. CASE Served \/ UNCHANGED authVars
  <2>1. UNCHANGED <<req, stage, status, effect>>
    BY <1>7 DEF Served, authVars, request, mine
  <2>2. (ObjectServed' <=> ObjectServed) /\ (ListServed' <=> ListServed)
    BY <2>1 DEF ObjectServed, ListServed
  <2> QED BY <1>2, <2>1, <2>2, ServesParts
<1> QED BY <1>3, <1>4, <1>5, <1>6, <1>7 DEF AuthNext

-----------------------------------------------------------------------------

\* The invariant of a request on its way: whatever its path, the prefix that the ACL is
\* asked about, the one that the handler uses and what is left of the path are the parts of
\* one division of its URL, and it reaches a handler of the API only when the ACL allows it.
THEOREM AuthInvariant == AuthSpec => []AuthInv
BY AuthInitInv, AuthStepInv, PTL DEF AuthSpec

\* Every variable keeps its type, whatever the request.
THEOREM AuthTyped == AuthSpec => []AuthTypeOK
<1>1. AuthInv => AuthTypeOK
  BY DEF AuthInv
<1> QED BY <1>1, AuthInvariant, PTL

\* The engine's answer to the middleware comes from the deepest matching level, for every
\* prefix that a URL can give.
THEOREM AuthAnswers == AuthSpec => []ResultFromDeepest
<1>1. AuthInv => ResultFromDeepest
  BY AclInvAnswers DEF AuthInv
<1> QED BY <1>1, AuthInvariant, PTL

\* A request that arrives has got nothing done yet.
LEMMA AuthStarts == AuthInit => DecisionCoversEffect /\ NoPartOfARepository /\ Serves /\ RowFound
<1> SUFFICES ASSUME AuthInit PROVE DecisionCoversEffect /\ NoPartOfARepository /\ Serves /\ RowFound
  OBVIOUS
<1>1. NoEffect.do = "none" /\ DOMAIN <<>> = {}
  BY DEF NoEffect
<1>2. effect.do = "none" /\ DOMAIN row = {} /\ stage # "done"
  BY <1>1 DEF AuthInit
<1> QED BY <1>2 DEF DecisionCoversEffect, NoPartOfARepository, Serves, RowFound

\* Whatever its URL and method, what a request does to the storage was allowed, of the very
\* repository that it does it in: classifyOperation, the router and the handlers agree.
THEOREM AuthCovers == AuthSpec => []DecisionCoversEffect
BY AuthInvariant, AuthStarts, CoversStep, PTL DEF AuthSpec

\* No request of the API acts in a directory that is a part of a repository.
THEOREM AuthNoPart == AuthSpec => []NoPartOfARepository
BY AuthInvariant, AuthStarts, NoPartStep, PTL DEF AuthSpec

\* A proper request for an object or a listing is served unless the ACL denies it, with any
\* number of slashes in its URL.
THEOREM AuthServes == AuthSpec => []Serves
BY AuthInvariant, AuthStarts, ServesStep, PTL DEF AuthSpec

\* A repository's page looks up the row in which its traffic is recorded; that of the
\* repository at the root looks up the empty key, under which nothing is recorded.
THEOREM AuthRows == AuthSpec => []RowFound
BY AuthInvariant, AuthStarts, RowStep, PTL DEF AuthSpec
=============================================================================
