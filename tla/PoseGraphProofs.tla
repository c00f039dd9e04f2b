-------------------------- MODULE PoseGraphProofs ---------------------------
(***************************************************************************)
(* Proofs about the pose graph, for every number of keyframes and of loops *)
(* in flight.                                                              *)
(***************************************************************************)
EXTENDS PoseGraph, SequenceTheorems, TLAPS

\* What is underway concerns keyframes that exist.
Existing ==
  /\ tpc = "loop" => found \in Loops /\ found.current = latest
  /\ bpc = "adjust" => loop \in Loops /\ loop.current <= latest
  /\ \A i \in 1 .. Len(tasks) : tasks[i].current <= latest

\* Two backend keyframes make a link.
LEMMA LinkTyped ==
  ASSUME NEW a \in Backend, NEW b \in Backend
  PROVE  {a, b} \in Links
BY DEF Links

\* So do the pairs of a set of pairs of backend keyframes.
LEMMA PairsTyped ==
  ASSUME NEW K \in SUBSET Backend, NEW P \in SUBSET (K \X K)
  PROVE  Joined(P) \subseteq Links
<1>1. \A p \in P : p[1] \in Backend /\ p[2] \in Backend
  OBVIOUS
<1>2. \A p \in P : {p[1], p[2]} \in Links
  BY <1>1, LinkTyped
<1> QED
  BY <1>2 DEF Joined

\* The adjusted loop's constraints join keyframes that exist.
LEMMA AdjustTyped ==
  ASSUME TypeOK, Existing, Adjust
  PROVE  pack' \in Packs
<1>1. loop \in Loops /\ loop.current \in Backend
  BY DEF Existing, Adjust, Loops
<1>2. 1 .. loop.current \subseteq Backend
  BY <1>1, LastKeyframeAssumption DEF Backend
<1>3. PICK C, H \in SUBSET (1 .. loop.current) :
        \E T \in TopLinks(C, H), J \in OptimisedPairs(H) :
          pack' = [links |-> T \cup Joined(Consecutive(C)) \cup Joined(J),
                   odometry |-> Removals(C, J), icp |-> TaskIcp]
  BY DEF Adjust
<1>4. PICK T \in TopLinks(C, H), J \in OptimisedPairs(H) :
        pack' = [links |-> T \cup Joined(Consecutive(C)) \cup Joined(J),
                 odometry |-> Removals(C, J), icp |-> TaskIcp]
  BY <1>3
<1>5. C \subseteq Backend /\ H \subseteq Backend
  BY <1>2
<1>6. T \subseteq Links
  <2>1. PICK top \in [C -> H] : T = {{top[c], c} : c \in C}
    BY <1>4 DEF TopLinks
  <2>2. \A c \in C : top[c] \in Backend /\ c \in Backend
    BY <1>5, <2>1
  <2>3. \A c \in C : {top[c], c} \in Links
    BY <2>2, LinkTyped
  <2> QED
    BY <2>1, <2>3
<1>7. Joined(Consecutive(C)) \subseteq Links
  BY <1>5, PairsTyped DEF Consecutive
<1>8. Joined(J) \subseteq Links
  <2>1. J \subseteq H \X H
    BY <1>4 DEF OptimisedPairs, Consecutive
  <2> QED
    BY <1>5, <2>1, PairsTyped
<1>9. Removals(C, J) \subseteq Backend
  <2>1. Removals(C, J) \subseteq odometry
    BY DEF Removals
  <2>2. odometry \subseteq 1 .. latest /\ latest \in 0 .. LastKeyframe
    BY DEF TypeOK, Keyframes
  <2>3. 1 .. latest \subseteq Backend
    BY <2>2, LastKeyframeAssumption DEF Backend
  <2> QED
    BY <2>1, <2>2, <2>3
<1> QED
  BY <1>1, <1>4, <1>6, <1>7, <1>8, <1>9 DEF Packs, TaskIcp

\* A sequence of keyframes up to n is one of keyframes up to n + 1 or more.
LEMMA LongerRange ==
  ASSUME NEW m \in Nat, NEW n \in Nat, m <= n, NEW s \in Seq(1 .. m)
  PROVE  s \in Seq(1 .. n)
<1>1. 1 .. m \subseteq 1 .. n
  OBVIOUS
<1>2. s \in [1 .. Len(s) -> 1 .. m] /\ Len(s) \in Nat
  BY LenProperties
<1>3. s \in [1 .. Len(s) -> 1 .. n]
  BY <1>1, <1>2
<1> QED
  BY <1>2, <1>3, SeqDef

\* The rebuilt search tree holds keyframes that exist.
LEMMA RebuiltTyped ==
  ASSUME latest \in Nat
  PROVE  RebuiltTree \in Seq(1 .. latest)
<1>1. RebuiltTree \in [1 .. latest -> 1 .. latest]
  BY DEF RebuiltTree
<1> QED
  BY <1>1, SeqDef

\* A new keyframe, with or without a loop, keeps the types.
LEMMA KeyframeTyped ==
  ASSUME TypeOK, Existing, AddKeyframe \/ AddKeyframeScanToMap \/ AddKeyframeStrictLoop
  PROVE  TypeOK' /\ Existing'
<1> USE LastKeyframeAssumption
<1>1. latest \in Nat /\ latest' = latest + 1 /\ latest' \in Backend /\ latest' \in Keyframes
  BY DEF TypeOK, Keyframes, Backend, AddKeyframe, AddKeyframeScanToMap,
     AddKeyframeStrictLoop
<1>2. AddOdometry(latest')
  BY <1>1 DEF AddKeyframe, AddKeyframeScanToMap, AddKeyframeStrictLoop
<1>3. odometry' \subseteq 1 .. latest' /\ skip' \in -1 .. latest'
  <2>1. odometry \subseteq 1 .. latest /\ skip \in -1 .. latest
    BY DEF TypeOK
  <2>2. 1 .. latest \subseteq 1 .. latest' /\ latest' \in 1 .. latest'
    BY <1>1
  <2>3. odometry' \subseteq odometry \cup {latest'} /\ skip' \in {skip, -1}
    BY <1>2 DEF AddOdometry
  <2>4. -1 \in -1 .. latest' /\ skip \in -1 .. latest'
    BY <1>1, <2>1
  <2> QED
    BY <2>1, <2>2, <2>3, <2>4
<1>4. tree \in Seq(1 .. latest') /\ \A i \in 1 .. Len(tree) : tree[i] \in Backend
  <2>1. tree \in Seq(1 .. latest') /\ tree \in Seq(1 .. latest)
    BY <1>1, LongerRange DEF TypeOK
  <2>2. \A i \in 1 .. Len(tree) : tree[i] \in 1 .. latest
    BY <2>1, ElementOfSeq
  <2>3. 1 .. latest \subseteq Backend
    BY <1>1 DEF Backend
  <2> QED
    BY <2>1, <2>2, <2>3
<1>5. tree' \in Seq(1 .. latest')
  <2>1. latest' \in 1 .. latest'
    BY <1>1
  <2>2. Append(tree, latest') \in Seq(1 .. latest')
    BY <1>4, <2>1, AppendProperties
  <2> QED
    BY <1>1, <1>4, <2>2 DEF AddKeyframe, AddKeyframeScanToMap, AddKeyframeStrictLoop
<1>6. links' \subseteq Links
  <2>1. \A i \in 1 .. Len(tree) : {tree[i], latest + 1} \in Links
    BY <1>1, <1>4 DEF Links
  <2> QED
    BY <2>1 DEF TypeOK, AddKeyframe, AddKeyframeScanToMap, AddKeyframeStrictLoop
<1>7. /\ icp' \subseteq Loops /\ lastIcp' \in Loops \cup {NoLoop} /\ assoc' \subseteq Loops
      /\ found' \in Loops \cup {NoLoop}
      /\ tpc' \in {"frame", "loop"}
      /\ tpc' = "loop" => found' \in Loops /\ found'.current = latest'
  <2>1. CASE AddKeyframe \/ AddKeyframeScanToMap
    BY <2>1 DEF TypeOK, AddKeyframe, AddKeyframeScanToMap
  <2>2. CASE AddKeyframeStrictLoop
    <3>1. PICK i \in 1 .. Len(tree) : found' = [current |-> latest + 1, history |-> tree[i]]
      BY <2>2 DEF AddKeyframeStrictLoop
    <3>2. found' \in Loops /\ found'.current = latest'
      BY <1>1, <1>4, <3>1 DEF Loops
    <3> QED
      BY <2>2, <3>2 DEF AddKeyframeStrictLoop, TypeOK
  <2> QED
    BY <2>1, <2>2
<1>8. closed' \subseteq 1 .. latest' /\ tasks' = tasks /\ tasks \in Seq(Loops)
  <2>1. closed \subseteq 1 .. latest /\ tasks \in Seq(Loops)
    BY DEF TypeOK
  <2>2. 1 .. latest \subseteq 1 .. latest'
    BY <1>1
  <2> QED
    BY <2>1, <2>2 DEF AddKeyframe, AddKeyframeScanToMap, AddKeyframeStrictLoop
<1>9. UNCHANGED workerVars
  BY DEF AddKeyframe, AddKeyframeScanToMap, AddKeyframeStrictLoop
<1>10. TypeOK'
  BY <1>1, <1>3, <1>5, <1>6, <1>7, <1>8, <1>9 DEF TypeOK, workerVars
<1>11. \A i \in 1 .. Len(tasks') : tasks'[i].current <= latest'
  <2> SUFFICES ASSUME NEW i \in 1 .. Len(tasks) PROVE tasks[i].current <= latest'
    BY <1>8
  <2>1. tasks[i] \in Loops
    BY <1>8, ElementOfSeq
  <2> QED
    BY <1>1, <2>1 DEF Existing, Loops, Backend
<1>12. bpc' = "adjust" => loop' \in Loops /\ loop'.current <= latest'
  <2> SUFFICES ASSUME bpc' = "adjust" PROVE loop' \in Loops /\ loop'.current <= latest'
    OBVIOUS
  <2>1. loop' = loop /\ loop \in Loops /\ loop.current <= latest
    BY <1>9 DEF Existing, workerVars
  <2>2. loop.current \in Nat
    BY <2>1 DEF Loops, Backend
  <2> QED
    BY <1>1, <2>1, <2>2
<1> QED
  BY <1>7, <1>10, <1>11, <1>12 DEF Existing
\* The variables have their types, and what is underway exists.
LEMMA TypeExisting == Spec => [](TypeOK /\ Existing)
<1>1. Init => TypeOK /\ Existing
  <2> SUFFICES ASSUME Init PROVE TypeOK /\ Existing
    OBVIOUS
  <2>1. tree \in Seq(1 .. latest) /\ tasks \in Seq(Loops) /\ Len(tasks) = 0
    BY EmptySeq DEF Init
  <2>2. pack \in Packs
    BY DEF Init, NoPack, Packs
  <2>3. latest \in Keyframes /\ skip \in -1 .. latest
    BY LastKeyframeAssumption DEF Init, Keyframes
  <2> QED
    BY <2>1, <2>2, <2>3 DEF Init, TypeOK, Existing
<1>2. TypeOK /\ Existing /\ [Next]_vars => (TypeOK /\ Existing)'
  <2> SUFFICES ASSUME TypeOK, Existing, [Next]_vars
               PROVE  (TypeOK /\ Existing)'
    OBVIOUS
  <2> USE DEF graphVars, workerVars
  <2>0. latest \in Nat
    BY LastKeyframeAssumption DEF TypeOK, Keyframes
  <2>1. CASE UNCHANGED vars
    BY <2>1 DEF vars, TypeOK, Existing
  <2>2. CASE AddKeyframe \/ AddKeyframeScanToMap \/ AddKeyframeStrictLoop
    BY <2>2, KeyframeTyped
  <2>3. CASE Stage1
    <3>1. found \in Loops /\ found.current = latest
      BY <2>3 DEF Stage1, Existing
    <3>2. /\ Append(tasks, found) \in Seq(Loops)
          /\ Len(Append(tasks, found)) = Len(tasks) + 1 /\ Len(tasks) \in Nat
          /\ Append(tasks, found)[Len(tasks) + 1] = found
          /\ \A i \in 1 .. Len(tasks) : Append(tasks, found)[i] = tasks[i]
      BY <3>1 DEF TypeOK
    <3>3. \A i \in 1 .. Len(tasks') : tasks'[i].current <= latest'
      BY <2>0, <2>3, <3>1, <3>2 DEF Stage1, Existing
    <3>4. latest \in 1 .. latest
      BY <2>0, <3>1, LastKeyframeAssumption DEF Loops, Backend
    <3>5. closed' \subseteq 1 .. latest /\ skip' \in -1 .. latest
      BY <2>0, <2>3, <3>1, <3>4 DEF Stage1, TypeOK
    <3>6. tree' \in Seq(1 .. latest)
      BY <2>0, <2>3, RebuiltTyped DEF Stage1
    <3>7. TypeOK'
      BY <2>3, <3>2, <3>5, <3>6 DEF Stage1, TypeOK
    <3> QED
      BY <2>3, <3>3, <3>7 DEF Stage1, Existing
  <2>4. CASE Stage3
    <3>1. tree' \in Seq(1 .. latest)
      BY <2>0, <2>4, RebuiltTyped DEF Stage3
    <3>2. links' \subseteq Links
      BY <2>4 DEF Stage3, TypeOK, Packs
    <3>3. NoPack \in Packs
      BY DEF NoPack, Packs
    <3>4. TypeOK'
      BY <2>4, <3>1, <3>2, <3>3 DEF Stage3, SharedUpTo, TypeOK
    <3> QED
      BY <2>4, <3>4 DEF Stage3, Existing
  <2>5. CASE BeginAdjustment
    <3>1. /\ Head(tasks) = tasks[1] /\ tasks[1] \in Loops /\ Tail(tasks) \in Seq(Loops)
          /\ Len(tasks) \in Nat \ {0} /\ Len(Tail(tasks)) = Len(tasks) - 1
          /\ \A i \in 1 .. Len(tasks) - 1 : Tail(tasks)[i] = tasks[i + 1]
      BY <2>5, EmptySeq, HeadTailProperties DEF BeginAdjustment, TypeOK
    <3>2. TypeOK'
      BY <2>5, <3>1 DEF BeginAdjustment, TypeOK
    <3>3. tasks[1].current <= latest
      BY <3>1 DEF Existing
    <3>4. \A i \in 1 .. Len(tasks') : tasks'[i].current <= latest'
      BY <2>5, <3>1 DEF BeginAdjustment, Existing
    <3> QED
      BY <2>5, <3>1, <3>2, <3>3, <3>4 DEF BeginAdjustment, Existing
  <2>6. CASE Adjust
    <3>1. pack' \in Packs
      BY <2>6, AdjustTyped
    <3> QED
      BY <2>6, <3>1 DEF Adjust, TypeOK, Existing
  <2> QED
    BY <2>1, <2>2, <2>3, <2>4, <2>5, <2>6 DEF Next
<1> QED
  BY <1>1, <1>2, PTL DEF Spec

\* The variables always have their types.
THEOREM TypeCorrect == Spec => []TypeOK
BY TypeExisting, PTL

-----------------------------------------------------------------------------
(* Constraints are replaced, never just removed                            *)

\* Whatever the adjustment wants removed is still there when stage 3 removes it:
\* between the two nothing else removes odometry constraints.
LEMMA RemovalsStayFresh == Spec => []RemovalsFresh
<1>1. Init => RemovalsFresh
  BY DEF Init, RemovalsFresh, NoPack
<1>2. RemovalsFresh /\ [Next]_vars => RemovalsFresh'
  <2> SUFFICES ASSUME RemovalsFresh, [Next]_vars
               PROVE  RemovalsFresh'
    OBVIOUS
  <2> USE DEF RemovalsFresh, graphVars, workerVars
  <2>1. CASE AddKeyframe \/ AddKeyframeScanToMap \/ AddKeyframeStrictLoop
    BY <2>1 DEF AddKeyframe, AddKeyframeScanToMap, AddKeyframeStrictLoop, AddOdometry
  <2>2. CASE Stage1 \/ BeginAdjustment \/ UNCHANGED vars
    BY <2>2 DEF Stage1, BeginAdjustment, vars
  <2>3. CASE Stage3
    BY <2>3 DEF Stage3, NoPack
  <2>4. CASE Adjust
    <3>1. PICK C, J : pack'.odometry = Removals(C, J)
      BY <2>4 DEF Adjust
    <3> QED
      BY <2>4, <3>1 DEF Adjust, Removals
  <2> QED
    BY <2>1, <2>2, <2>3, <2>4 DEF Next
<1> QED
  BY <1>1, <1>2, PTL DEF Spec

\* The latest keyframe is marked once it closed a strict loop, and a pack brings
\* for every constraint it removes one that joins the keyframe to an older one.
Replacing ==
  /\ latest \in closed => skip = latest
  /\ skip \in closed \cup {-1}
  /\ \A k \in pack.odometry : \E j \in 1 .. k - 1 : {j, k} \in pack.links

\* What an adjustment removes it also replaces.
LEMMA AdjustReplaces ==
  ASSUME TypeOK, Existing, Adjust
  PROVE  \A k \in pack'.odometry : \E j \in 1 .. k - 1 : {j, k} \in pack'.links
<1>1. loop.current \in Nat
  BY DEF Existing, Adjust, Loops, Backend
<1>2. PICK C, H \in SUBSET (1 .. loop.current) :
        \E T \in TopLinks(C, H), J \in OptimisedPairs(H) :
          pack' = [links |-> T \cup Joined(Consecutive(C)) \cup Joined(J),
                   odometry |-> Removals(C, J), icp |-> TaskIcp]
  BY DEF Adjust
<1>3. PICK T \in TopLinks(C, H), J \in OptimisedPairs(H) :
        pack' = [links |-> T \cup Joined(Consecutive(C)) \cup Joined(J),
                 odometry |-> Removals(C, J), icp |-> TaskIcp]
  BY <1>2
<1>4. \A p \in Consecutive(C) \cup J :
        p[1] \in 1 .. loop.current /\ p[2] \in 1 .. loop.current /\ p[1] < p[2]
  <2>1. J \subseteq Consecutive(H)
    BY <1>3 DEF OptimisedPairs
  <2> QED
    BY <1>2, <2>1 DEF Consecutive
<1>5. SUFFICES ASSUME NEW k \in pack'.odometry
               PROVE  \E j \in 1 .. k - 1 : {j, k} \in pack'.links
  OBVIOUS
<1>6. PICK p \in Consecutive(C) \cup J : k = p[2]
  BY <1>3 DEF Removals
<1>7. {p[1], p[2]} \in pack'.links
  BY <1>3 DEF Joined
<1>8. p[1] \in 1 .. k - 1
  BY <1>1, <1>4, <1>6
<1> QED
  BY <1>6, <1>7, <1>8

\* Packs replace what they remove, and the mark stays with the latest keyframe.
LEMMA ReplacingKept == Spec => [](Replacing /\ TypeOK)
<1>1. Init => Replacing
  BY DEF Init, Replacing, NoPack
<1>2. TypeOK /\ Existing /\ Replacing /\ [Next]_vars => Replacing'
  <2> SUFFICES ASSUME TypeOK, Existing, Replacing, [Next]_vars
               PROVE  Replacing'
    OBVIOUS
  <2> USE DEF Replacing, graphVars, workerVars
  <2>0. latest \in Nat /\ closed \subseteq 1 .. latest
    BY LastKeyframeAssumption DEF TypeOK, Keyframes
  <2>1. CASE AddKeyframe \/ AddKeyframeScanToMap \/ AddKeyframeStrictLoop
    <3>1. latest + 1 \notin closed
      BY <2>0
    <3> QED
      BY <2>1, <3>1
      DEF AddKeyframe, AddKeyframeScanToMap, AddKeyframeStrictLoop, AddOdometry
  <2>2. CASE Stage1
    BY <2>2 DEF Stage1, Existing
  <2>3. CASE BeginAdjustment \/ UNCHANGED vars
    BY <2>3 DEF BeginAdjustment, vars
  <2>4. CASE Stage3
    BY <2>4 DEF Stage3, NoPack
  <2>5. CASE Adjust
    BY <2>5, AdjustReplaces DEF Adjust
  <2> QED
    BY <2>1, <2>2, <2>3, <2>4, <2>5 DEF Next
<1> QED
  BY <1>1, <1>2, TypeExisting, PTL DEF Spec

\* The motion from the keyframe of a strict loop to the next one never becomes a
\* constraint, and the mark that says so is used before it is set again.
THEOREM SkipsHonoured == Spec => []SkipHonoured
<1>1. Init => SkipHonoured
  BY DEF Init, SkipHonoured
<1>2. TypeOK /\ Existing /\ Replacing /\ SkipHonoured /\ [Next]_vars => SkipHonoured'
  <2> SUFFICES ASSUME TypeOK, Existing, Replacing, SkipHonoured, [Next]_vars
               PROVE  SkipHonoured'
    OBVIOUS
  <2> USE DEF SkipHonoured, graphVars, workerVars
  <2>0. latest \in Nat /\ closed \subseteq 1 .. latest /\ odometry \subseteq 1 .. latest
    BY LastKeyframeAssumption DEF TypeOK, Keyframes
  <2>1. CASE AddKeyframe \/ AddKeyframeScanToMap \/ AddKeyframeStrictLoop
    <3>1. AddOdometry(latest + 1) /\ latest' = latest + 1 /\ closed' = closed
      BY <2>1 DEF AddKeyframe, AddKeyframeScanToMap, AddKeyframeStrictLoop
    <3>2. CASE skip = latest
      BY <2>0, <3>1, <3>2 DEF AddOdometry
    <3>3. CASE skip = -1 /\ skip # latest
      <4>1. odometry' = odometry \cup {latest + 1} /\ skip' = -1
        BY <2>0, <3>1, <3>3 DEF AddOdometry
      <4>2. \A k \in closed : k \in 1 .. latest /\ k # latest
        BY <2>0, <3>3 DEF Replacing
      <4> QED
        BY <2>0, <3>1, <4>1, <4>2
    <3> QED
      BY <3>2, <3>3
  <2>2. CASE Stage1
    BY <2>0, <2>2 DEF Stage1, Existing
  <2>3. CASE BeginAdjustment \/ Adjust \/ UNCHANGED vars
    BY <2>3 DEF BeginAdjustment, Adjust, vars
  <2>4. CASE Stage3
    BY <2>4 DEF Stage3
  <2> QED
    BY <2>1, <2>2, <2>3, <2>4 DEF Next
<1> QED
  BY <1>1, <1>2, TypeExisting, ReplacingKept, PTL DEF Spec

\* However constraints are replaced, every keyframe stays joined to an older one,
\* but for those that start a stretch after a strict loop.
THEOREM KeyframesStayRooted == Spec => []Rooted
<1>1. Init => Rooted
  BY DEF Init, Rooted
<1>2. TypeOK /\ Replacing /\ Rooted /\ [Next]_vars => Rooted'
  <2> SUFFICES ASSUME TypeOK, Replacing, Rooted, [Next]_vars
               PROVE  Rooted'
    OBVIOUS
  <2> USE DEF Rooted, graphVars, workerVars
  <2>0. latest \in Nat
    BY LastKeyframeAssumption DEF TypeOK, Keyframes
  <2>1. CASE AddKeyframe \/ AddKeyframeScanToMap \/ AddKeyframeStrictLoop
    <3>1. /\ AddOdometry(latest + 1) /\ latest' = latest + 1 /\ closed' = closed
          /\ links \subseteq links'
      BY <2>1 DEF AddKeyframe, AddKeyframeScanToMap, AddKeyframeStrictLoop
    <3>2. odometry \subseteq odometry'
      BY <3>1 DEF AddOdometry
    <3>3. latest + 1 \in odometry' \/ latest \in closed
      BY <2>0, <3>1 DEF AddOdometry, Replacing
    <3>4. \A k \in 1 .. latest' : k \in 1 .. latest \/ k = latest + 1
      BY <2>0, <3>1
    <3> SUFFICES ASSUME NEW k \in 1 .. latest'
                 PROVE  \/ k - 1 \in closed'
                        \/ k \in odometry'
                        \/ \E j \in 1 .. k - 1 : {j, k} \in links'
      OBVIOUS
    <3>5. CASE k = latest + 1
      <4>1. k - 1 = latest
        BY <2>0, <3>5
      <4> QED
        BY <3>1, <3>3, <3>5, <4>1
    <3>6. CASE k \in 1 .. latest
      <4>1. \/ k - 1 \in closed \/ k \in odometry
            \/ \E j \in 1 .. k - 1 : {j, k} \in links
        BY <3>6
      <4> QED
        BY <3>1, <3>2, <4>1
    <3> QED
      BY <3>4, <3>5, <3>6
  <2>2. CASE Stage1
    BY <2>2 DEF Stage1
  <2>3. CASE BeginAdjustment \/ Adjust \/ UNCHANGED vars
    BY <2>3 DEF BeginAdjustment, Adjust, vars
  <2>4. CASE Stage3
    <3>1. links' = links \cup pack.links /\ odometry' = odometry \ pack.odometry
          /\ closed' = closed /\ latest' = latest
      BY <2>4 DEF Stage3
    <3>2. \A k \in pack.odometry : \E j \in 1 .. k - 1 : {j, k} \in links'
      BY <3>1 DEF Replacing
    <3> QED
      BY <3>1, <3>2
  <2> QED
    BY <2>1, <2>2, <2>3, <2>4 DEF Next
<1> QED
  BY <1>1, <1>2, ReplacingKept, PTL DEF Spec

-----------------------------------------------------------------------------
(* Loops in flight                                                         *)

\* Loops are adjusted in the order of their keyframes: the one being adjusted is
\* older than those in the queue, and all are older than the one just found.
InOrder ==
  /\ bpc = "idle" => loop = NoLoop
  /\ bpc = "wait" => pack.icp = loop
  /\ bpc # "idle" => loop \in Loops /\ loop.current <= latest
  /\ tpc = "frame" => found = NoLoop
  /\ tpc = "loop" => (bpc # "idle" => loop.current < latest)
  /\ \A i \in 1 .. Len(tasks) :
       /\ bpc # "idle" => loop.current < tasks[i].current
       /\ tpc = "loop" => tasks[i].current < latest
       /\ \A j \in 1 .. i - 1 : tasks[j].current < tasks[i].current

\* The queue holds loops of keyframes.
LEMMA TasksTyped ==
  ASSUME TypeOK
  PROVE  /\ Len(tasks) \in Nat /\ latest \in Nat
         /\ \A i \in 1 .. Len(tasks) : tasks[i] \in Loops /\ tasks[i].current \in Nat
<1>1. tasks \in Seq(Loops) /\ latest \in Nat
  BY LastKeyframeAssumption DEF TypeOK, Keyframes
<1>2. \A l \in Loops : l.current \in Nat
  BY DEF Loops, Backend
<1> QED
  BY <1>1, <1>2, ElementOfSeq

\* The queue without its first loop, and with one more.
LEMMA TasksMoved ==
  ASSUME TypeOK
  PROVE  /\ tasks # <<>> => /\ Head(tasks) = tasks[1] /\ Len(tasks) \in Nat \ {0}
                            /\ Len(Tail(tasks)) = Len(tasks) - 1
                            /\ \A i \in 1 .. Len(tasks) - 1 : Tail(tasks)[i] = tasks[i + 1]
         /\ \A l \in Loops :
              /\ Len(Append(tasks, l)) = Len(tasks) + 1
              /\ Append(tasks, l)[Len(tasks) + 1] = l
              /\ \A i \in 1 .. Len(tasks) : Append(tasks, l)[i] = tasks[i]
<1>1. tasks \in Seq(Loops)
  BY DEF TypeOK
<1>2. ASSUME tasks # <<>>
      PROVE  /\ Head(tasks) = tasks[1] /\ Len(tasks) \in Nat \ {0}
             /\ Len(Tail(tasks)) = Len(tasks) - 1
             /\ \A i \in 1 .. Len(tasks) - 1 : Tail(tasks)[i] = tasks[i + 1]
  BY <1>1, <1>2, EmptySeq, HeadTailProperties
<1>3. ASSUME NEW l \in Loops
      PROVE  /\ Len(Append(tasks, l)) = Len(tasks) + 1
             /\ Append(tasks, l)[Len(tasks) + 1] = l
             /\ \A i \in 1 .. Len(tasks) : Append(tasks, l)[i] = tasks[i]
  BY <1>1
<1> QED
  BY <1>2, <1>3

\* Loops stay in the order of their keyframes.
LEMMA InOrderKept == Spec => [](InOrder /\ TypeOK /\ Existing)
<1>1. Init => InOrder
  BY EmptySeq DEF Init, InOrder
<1>2. TypeOK /\ Existing /\ InOrder /\ [Next]_vars => InOrder'
  <2> SUFFICES ASSUME TypeOK, Existing, InOrder, [Next]_vars
               PROVE  InOrder'
    OBVIOUS
  <2> USE DEF graphVars, workerVars
  <2>0. /\ Len(tasks) \in Nat /\ latest \in Nat
        /\ \A i \in 1 .. Len(tasks) : tasks[i] \in Loops /\ tasks[i].current \in Nat
    BY TasksTyped
  <2>00. \A l \in Loops : l.current \in Nat
    BY DEF Loops, Backend
  <2>1. CASE AddKeyframe \/ AddKeyframeScanToMap
    <3>1. latest' = latest + 1 /\ tpc' = "frame" /\ UNCHANGED <<found, tasks, workerVars>>
          /\ tpc = "frame"
      BY <2>1 DEF AddKeyframe, AddKeyframeScanToMap
    <3>2. bpc' # "idle" => loop'.current <= latest'
      BY <2>0, <2>00, <3>1 DEF InOrder
    <3> QED
      BY <3>1, <3>2 DEF InOrder
  <2>2. CASE AddKeyframeStrictLoop
    <3>1. latest' = latest + 1 /\ tpc' = "loop" /\ UNCHANGED <<tasks, workerVars>>
      BY <2>2 DEF AddKeyframeStrictLoop
    <3>2. bpc # "idle" => loop.current < latest + 1 /\ loop.current <= latest + 1
      BY <2>0, <2>00 DEF InOrder
    <3>3. \A i \in 1 .. Len(tasks) : tasks[i].current < latest + 1
      BY <2>0 DEF Existing
    <3> QED
      BY <3>1, <3>2, <3>3 DEF InOrder
  <2>3. CASE Stage1
    <3>1. found \in Loops /\ found.current = latest /\ tpc' = "frame" /\ found' = NoLoop
          /\ tasks' = Append(tasks, found) /\ UNCHANGED <<latest, workerVars>> /\ tpc = "loop"
      BY <2>3 DEF Stage1, Existing
    <3>2. /\ Len(tasks') = Len(tasks) + 1 /\ tasks'[Len(tasks) + 1] = found
          /\ \A i \in 1 .. Len(tasks) : tasks'[i] = tasks[i]
      BY <3>1, TasksMoved
    <3>3. ASSUME NEW i \in 1 .. Len(tasks')
          PROVE  /\ bpc # "idle" => loop.current < tasks'[i].current
                 /\ \A j \in 1 .. i - 1 : tasks'[j].current < tasks'[i].current
      <4>1. CASE i = Len(tasks) + 1
        <5>1. \A j \in 1 .. i - 1 : tasks'[j].current < latest
          BY <2>0, <3>1, <3>2, <4>1 DEF InOrder
        <5> QED
          BY <3>1, <3>2, <4>1, <5>1 DEF InOrder
      <4>2. CASE i \in 1 .. Len(tasks)
        <5>1. \A j \in 1 .. i - 1 : j \in 1 .. Len(tasks)
          BY <2>0, <4>2
        <5> QED
          BY <3>2, <4>2, <5>1 DEF InOrder
      <4> QED
        BY <2>0, <3>2, <4>1, <4>2
    <3> QED
      BY <3>1, <3>3 DEF InOrder
  <2>4. CASE Stage3
    <3>1. bpc' = "idle" /\ loop' = NoLoop /\ UNCHANGED <<tpc, latest, found, tasks>>
      BY <2>4 DEF Stage3
    <3> QED
      BY <3>1 DEF InOrder
  <2>5. CASE BeginAdjustment
    <3>1. /\ loop' = tasks[1] /\ tasks' = Tail(tasks) /\ bpc' = "adjust"
          /\ UNCHANGED <<tpc, latest, found, pack>>
          /\ Len(tasks) \in Nat \ {0} /\ Len(tasks') = Len(tasks) - 1
          /\ \A i \in 1 .. Len(tasks') : tasks'[i] = tasks[i + 1]
      BY <2>5, TasksMoved DEF BeginAdjustment
    <3>2. \A i \in 1 .. Len(tasks') :
            /\ i + 1 \in 1 .. Len(tasks) /\ 1 \in 1 .. i + 1 - 1
            /\ \A j \in 1 .. i - 1 : j + 1 \in 1 .. i + 1 - 1 /\ j \in 1 .. Len(tasks')
      BY <3>1
    <3>3. \A i \in 1 .. Len(tasks') :
            /\ tasks[1].current < tasks'[i].current
            /\ tpc = "loop" => tasks'[i].current < latest
            /\ \A j \in 1 .. i - 1 : tasks'[j].current < tasks'[i].current
      BY <3>1, <3>2 DEF InOrder
    <3>4. tasks[1] \in Loops /\ tasks[1].current <= latest
          /\ (tpc = "loop" => tasks[1].current < latest)
      BY <2>0, <3>1 DEF InOrder, Existing
    <3> QED
      BY <3>1, <3>3, <3>4 DEF InOrder
  <2>6. CASE Adjust
    <3>1. bpc = "adjust" /\ bpc' = "wait" /\ pack'.icp = loop
          /\ UNCHANGED <<tpc, latest, found, tasks, loop>>
      BY <2>6 DEF Adjust, TaskIcp
    <3> QED
      BY <3>1 DEF InOrder
  <2>7. CASE UNCHANGED vars
    BY <2>7 DEF vars, InOrder
  <2> QED
    BY <2>1, <2>2, <2>3, <2>4, <2>5, <2>6, <2>7 DEF Next
<1> QED
  BY <1>1, <1>2, TypeExisting, PTL DEF Spec

\* InFlight, told by where a loop is.
LEMMA InFlightIs ==
  ASSUME TypeOK
  PROVE  \A l : l \in InFlight <=> \/ \E i \in 1 .. Len(tasks) : l = tasks[i]
                                   \/ l \in {found, loop} /\ l # NoLoop
BY DEF InFlight

\* What is owned by a loop in flight is owned by exactly these.
LEMMA OwnedKept == Spec => [](IcpOwned /\ AssociationsOwned)
<1>1. Init => IcpOwned /\ AssociationsOwned
  BY EmptySeq DEF Init, IcpOwned, AssociationsOwned, InFlight
<1>2. TypeOK /\ Existing /\ InOrder /\ IcpOwned /\ AssociationsOwned /\ [Next]_vars
        => IcpOwned' /\ AssociationsOwned'
  <2> SUFFICES ASSUME TypeOK, Existing, InOrder, IcpOwned, AssociationsOwned, [Next]_vars
               PROVE  IcpOwned' /\ AssociationsOwned'
    OBVIOUS
  <2> USE DEF graphVars, workerVars
  <2>0. /\ Len(tasks) \in Nat /\ latest \in Nat
        /\ \A i \in 1 .. Len(tasks) : tasks[i] \in Loops /\ tasks[i].current \in Nat
    BY TasksTyped
  <2>00. NoLoop \notin Loops /\ \A l \in Loops : l.current \in Nat
    BY DEF Loops, Backend, NoLoop
  <2>1. CASE UNCHANGED <<icp, lastIcp, assoc, found, loop, tasks>>
    BY <2>1 DEF IcpOwned, AssociationsOwned, InFlight
  <2>2. CASE AddKeyframe \/ AddKeyframeScanToMap
    BY <2>1, <2>2 DEF AddKeyframe, AddKeyframeScanToMap, AddOdometry
  <2>3. CASE AddKeyframeStrictLoop
    <3>1. /\ found = NoLoop /\ UNCHANGED <<loop, tasks>>
          /\ icp' = icp \cup {found'} /\ lastIcp' = found' /\ assoc' = assoc \cup {found'}
      BY <2>3 DEF AddKeyframeStrictLoop, InOrder
    <3>2. found' # NoLoop
      BY <2>0, <2>3 DEF AddKeyframeStrictLoop, NoLoop
    <3>3. InFlight' = InFlight \cup {found'}
      BY <3>1, <3>2 DEF InFlight
    <3> QED
      BY <3>1, <3>3 DEF IcpOwned, AssociationsOwned
  <2>4. CASE Stage1
    <3>1. found \in Loops /\ found' = NoLoop /\ tasks' = Append(tasks, found)
          /\ UNCHANGED <<icp, lastIcp, assoc, loop>>
      BY <2>4 DEF Stage1, Existing
    <3>2. /\ Len(tasks') = Len(tasks) + 1 /\ tasks'[Len(tasks) + 1] = found
          /\ \A i \in 1 .. Len(tasks) : tasks'[i] = tasks[i]
      BY <3>1, TasksMoved
    <3>3. {tasks'[i] : i \in 1 .. Len(tasks')} = {tasks[i] : i \in 1 .. Len(tasks)} \cup {found}
      <4>1. ASSUME NEW i \in 1 .. Len(tasks')
            PROVE  tasks'[i] \in {tasks[j] : j \in 1 .. Len(tasks)} \cup {found}
        BY <2>0, <3>2
      <4>2. ASSUME NEW i \in 1 .. Len(tasks)
            PROVE  tasks[i] \in {tasks'[j] : j \in 1 .. Len(tasks')}
        BY <2>0, <3>2
      <4>3. found \in {tasks'[j] : j \in 1 .. Len(tasks')}
        BY <2>0, <3>2
      <4> QED
        BY <4>1, <4>2, <4>3
    <3>4. InFlight' = InFlight
      BY <2>00, <3>1, <3>3 DEF InFlight
    <3> QED
      BY <3>1, <3>4 DEF IcpOwned, AssociationsOwned
  <2>5. CASE BeginAdjustment
    <3>1. /\ loop = NoLoop /\ loop' = tasks[1] /\ tasks' = Tail(tasks)
          /\ UNCHANGED <<icp, lastIcp, assoc, found>>
          /\ Len(tasks) \in Nat \ {0} /\ Len(tasks') = Len(tasks) - 1
          /\ \A i \in 1 .. Len(tasks') : tasks'[i] = tasks[i + 1]
      BY <2>5, TasksMoved DEF BeginAdjustment, InOrder
    <3>2. {tasks[i] : i \in 1 .. Len(tasks)} = {tasks'[i] : i \in 1 .. Len(tasks')} \cup {tasks[1]}
      <4>1. ASSUME NEW i \in 1 .. Len(tasks)
            PROVE  tasks[i] \in {tasks'[j] : j \in 1 .. Len(tasks')} \cup {tasks[1]}
        <5>1. CASE i = 1
          BY <5>1
        <5>2. CASE i # 1
          <6>1. i - 1 \in 1 .. Len(tasks') /\ (i - 1) + 1 = i
            BY <3>1, <5>2
          <6>2. tasks'[i - 1] = tasks[i]
            BY <3>1, <6>1
          <6> QED
            BY <6>1, <6>2
        <5> QED
          BY <5>1, <5>2
      <4>2. ASSUME NEW i \in 1 .. Len(tasks')
            PROVE  tasks'[i] \in {tasks[j] : j \in 1 .. Len(tasks)}
        BY <3>1
      <4>3. tasks[1] \in {tasks[j] : j \in 1 .. Len(tasks)}
        BY <3>1
      <4> QED
        BY <4>1, <4>2, <4>3
    <3>3. tasks[1] # NoLoop
      BY <2>0, <2>00, <3>1
    <3>4. InFlight' = InFlight
      BY <3>1, <3>2, <3>3 DEF InFlight
    <3> QED
      BY <3>1, <3>4 DEF IcpOwned, AssociationsOwned
  <2>6. CASE Adjust
    BY <2>1, <2>6 DEF Adjust
  <2>7. CASE Stage3
    <3>1. /\ pack.icp = loop /\ loop \in Loops /\ loop' = NoLoop
          /\ icp' = icp \ {loop} /\ lastIcp' \in {lastIcp, NoLoop} /\ lastIcp' # loop
          /\ assoc' = {a \in assoc : a.current > loop.current}
          /\ UNCHANGED <<found, tasks>>
      BY <2>00, <2>7 DEF Stage3, SharedUpTo, InOrder
    <3>2. \A i \in 1 .. Len(tasks) : loop.current < tasks[i].current
      BY <2>7 DEF Stage3, InOrder
    <3>3. found = NoLoop \/ (found \in Loops /\ loop.current < found.current)
      BY <2>7 DEF Stage3, InOrder, Existing, TypeOK
    <3>4. ASSUME NEW l
          PROVE  /\ l \in InFlight' <=> l \in InFlight /\ l # loop
                 /\ l \in InFlight /\ l # loop <=> l \in InFlight /\ l.current > loop.current
      <4>1. CASE \E i \in 1 .. Len(tasks) : l = tasks[i]
        BY <2>0, <2>00, <3>1, <3>2, <4>1 DEF InFlight
      <4>2. CASE l = found /\ found # NoLoop
        BY <2>00, <3>1, <3>3, <4>2 DEF InFlight
      <4>3. CASE l = loop
        BY <2>0, <2>00, <3>1, <3>2, <3>3, <4>3 DEF InFlight
      <4>4. CASE /\ ~ \E i \in 1 .. Len(tasks) : l = tasks[i]
                 /\ ~ (l = found /\ found # NoLoop) /\ l # loop
        BY <3>1, <4>4 DEF InFlight
      <4> QED
        BY <4>1, <4>2, <4>3, <4>4
    <3> QED
      BY <3>1, <3>4 DEF IcpOwned, AssociationsOwned
  <2>8. CASE UNCHANGED vars
    BY <2>1, <2>8 DEF vars
  <2> QED
    BY <2>2, <2>3, <2>4, <2>5, <2>6, <2>7, <2>8 DEF Next
<1> QED
  BY <1>1, <1>2, InOrderKept, PTL DEF Spec

\* detect_loop_for_keyframe, strict_lc_worker, apply_pending_ba_pose_graph_updates and
\* apply_pending_associated_patches_updates_up_to_frame: the ICP constraints in the
\* graph and the pairs whose patches wait to be shared are those of the loops in
\* flight, each gone in the stage 3 of its own loop, and every odometry constraint a
\* worker scheduled for removal is still the one in the graph.
THEOREM LoopConstraintsOwned == Spec => []LoopsOwned
BY OwnedKept, RemovalsStayFresh, PTL DEF LoopsOwned

-----------------------------------------------------------------------------
(* The search tree                                                         *)

\* The backend keyframes up to n, in order.
UpTo(n) == [i \in 1 .. n |-> i]

\* Entering the next keyframe at the end keeps the order.
LEMMA EnterNext ==
  ASSUME NEW n \in Nat
  PROVE  Append(UpTo(n), n + 1) = UpTo(n + 1) /\ Len(UpTo(n)) = n
<1>1. UpTo(n) \in Seq(Nat) /\ UpTo(n + 1) \in Seq(Nat)
  BY SeqDef DEF UpTo
<1>2. Len(UpTo(n)) = n /\ Len(UpTo(n + 1)) = n + 1
  BY <1>1, LenProperties DEF UpTo
<1>3. Append(UpTo(n), n + 1) \in Seq(Nat) /\ Len(Append(UpTo(n), n + 1)) = n + 1
  BY <1>1, <1>2, AppendProperties
<1>4. ASSUME NEW i \in 1 .. n + 1
      PROVE  Append(UpTo(n), n + 1)[i] = UpTo(n + 1)[i]
  <2>1. UpTo(n + 1)[i] = i
    BY DEF UpTo
  <2>2. CASE i = n + 1
    <3>1. i = Len(UpTo(n)) + 1
      BY <1>2, <2>2
    <3>2. Append(UpTo(n), n + 1)[i] = n + 1
      BY <1>1, <3>1, AppendProperties
    <3> QED
      BY <2>1, <2>2, <3>2
  <2>3. CASE i \in 1 .. n
    <3>1. Append(UpTo(n), n + 1)[i] = UpTo(n)[i]
      BY <1>1, <1>2, <2>3, AppendProperties
    <3> QED
      BY <2>1, <2>3, <3>1 DEF UpTo
  <2>4. i = n + 1 \/ i \in 1 .. n
    OBVIOUS
  <2> QED
    BY <2>2, <2>3, <2>4, Zenon
<1>5. Append(UpTo(n), n + 1) = UpTo(n + 1)
  BY <1>1, <1>2, <1>3, <1>4, SeqEqual
<1> QED
  BY <1>2, <1>5

\* Only the keyframe of a strict loop that waits for stage 1 may be missing from
\* the tree, and is unless a stage 3 came in between.
Entered ==
  /\ tpc = "frame" => tree = UpTo(latest)
  /\ tpc = "loop" => latest > 0 /\ tree \in {UpTo(latest), UpTo(latest - 1)}

\* The search tree holds every backend keyframe once, in its place, whichever way
\* the keyframe came in and whatever rebuilt the tree in between.
THEOREM TreeStaysExact == Spec => []TreeExact
<1>1. Init => Entered
  BY DEF Init, Entered, UpTo
<1>2. TypeOK /\ Entered /\ [Next]_vars => Entered'
  <2> SUFFICES ASSUME TypeOK, Entered, [Next]_vars
               PROVE  Entered'
    OBVIOUS
  <2>1. latest \in Nat
    BY DEF TypeOK, Keyframes
  <2>2. CASE AddKeyframe \/ AddKeyframeScanToMap
    <3>1. /\ tpc = "frame" /\ tpc' = tpc /\ latest' = latest + 1
          /\ tree' = Append(tree, latest + 1)
      BY <2>2 DEF AddKeyframe, AddKeyframeScanToMap
    <3>2. tree' = UpTo(latest')
      BY <2>1, <3>1, EnterNext DEF Entered
    <3> QED
      BY <3>1, <3>2 DEF Entered
  <2>3. CASE AddKeyframeStrictLoop
    <3>1. /\ tpc = "frame" /\ tpc' = "loop" /\ latest' = latest + 1 /\ tree' = tree
      BY <2>3 DEF AddKeyframeStrictLoop
    <3>2. tree' = UpTo(latest' - 1) /\ latest' > 0
      BY <2>1, <3>1 DEF Entered
    <3> QED
      BY <3>1, <3>2 DEF Entered
  <2>4. CASE Stage1 \/ Stage3
    <3>1. tree' = UpTo(latest') /\ latest' = latest
      BY <2>4 DEF Stage1, Stage3, RebuiltTree, UpTo
    <3>2. tpc' = "frame" \/ tpc' = tpc
      BY <2>4 DEF Stage1, Stage3
    <3> QED
      BY <3>1, <3>2 DEF Entered
  <2>5. CASE BeginAdjustment \/ Adjust \/ UNCHANGED vars
    BY <2>5 DEF BeginAdjustment, Adjust, vars, Entered
  <2> QED
    BY <2>2, <2>3, <2>4, <2>5 DEF Next
<1>3. TypeOK /\ Entered => TreeExact
  <2> SUFFICES ASSUME TypeOK, Entered PROVE TreeExact
    OBVIOUS
  <2>1. latest \in Nat /\ tpc \in {"frame", "loop"}
    BY DEF TypeOK, Keyframes
  <2>2. \E n \in {latest, latest - 1} \cap Nat : tree = UpTo(n)
    BY <2>1 DEF Entered
  <2>3. tpc = "frame" => Len(tree) = latest
    BY <2>1, EnterNext DEF Entered
  <2> QED
    BY <2>2, <2>3 DEF TreeExact, UpTo
<1> QED
  BY <1>1, <1>2, <1>3, TypeCorrect, PTL DEF Spec
=============================================================================
