---------------------------- MODULE SandboxProofs ----------------------------
(***************************************************************************)
(* Proofs about Sandbox, for any number of patches, edits, versions of the  *)
(* source and crashes.                                                      *)
(***************************************************************************)
EXTENDS Sandbox, TLAPS

\* The fields of a workspace.
LEMMA ContentShape ==
    /\ NoWorkspace \in Content
    /\ \A w \in Content : /\ w = [tree |-> w.tree, base |-> w.base, edits |-> w.edits,
                                  junk |-> w.junk, moved |-> w.moved]
                          /\ w.tree \in 0 .. (MaxTree + 1) /\ w.base \in 0 .. (MaxTree + 1)
                          /\ w.edits \subseteq Edit /\ w.junk \in BOOLEAN /\ w.moved \in BOOLEAN
  BY BoundAssumption DEF Content, NoWorkspace, Unversioned

\* The fields of the graph state.
LEMMA ProgressShape ==
    /\ Fresh \in Progress
    /\ \A h \in Progress : /\ h = [node |-> h.node, patches |-> h.patches, first |-> h.first,
                                   last |-> h.last]
                           /\ h.node \in Node /\ h.patches \in 0 .. MaxPatches
                           /\ h.first \in 0 .. (MaxTree + 1) /\ h.last \in 0 .. (MaxTree + 1)
  BY BoundAssumption DEF Progress, Fresh, Node, Unversioned

\* A change of one field of a workspace.
LEMMA ChangeField ==
    ASSUME NEW w \in Content
    PROVE  /\ [w EXCEPT !.moved = TRUE] \in Content /\ [w EXCEPT !.junk = TRUE] \in Content
           /\ \A b \in 0 .. (MaxTree + 1) : [w EXCEPT !.base = b] \in Content
           /\ \A e \in SUBSET Edit : [w EXCEPT !.edits = e] \in Content
           /\ \A v \in 0 .. (MaxTree + 1) : [w EXCEPT !.tree = v] \in Content
<1>1. [w EXCEPT !.moved = TRUE] \in Content
  BY DEF Content
<1>2. [w EXCEPT !.junk = TRUE] \in Content
  BY DEF Content
<1>3. \A b \in 0 .. (MaxTree + 1) : [w EXCEPT !.base = b] \in Content
  BY DEF Content
<1>4. \A e \in SUBSET Edit : [w EXCEPT !.edits = e] \in Content
  BY DEF Content
<1>5. \A v \in 0 .. (MaxTree + 1) : [w EXCEPT !.tree = v] \in Content
  BY DEF Content
<1>6. QED
  BY <1>1, <1>2, <1>3, <1>4, <1>5

\* The edits of a patch are edits, and there is no patch 0.
LEMMA EditsShape ==
    /\ \A p \in Patch : EditsOf(p) \subseteq Edit
    /\ ~(EditsOf(0) \subseteq Edit)
<1>1. <<0, 1>> \in EditsOf(0) /\ <<0, 1>> \notin Edit
  BY BoundAssumption DEF EditsOf, Edit, Patch
<1>2. QED
  BY <1>1 DEF EditsOf, Edit

\* A move through the graph, and a new patch.
LEMMA NextProgress ==
    ASSUME NEW h \in Progress
    PROVE  /\ \A n \in Node : [h EXCEPT !.node = n] \in Progress
           /\ \A p \in Patch, b, c \in 0 .. (MaxTree + 1) :
                  [node |-> "run_tests", patches |-> p, first |-> b, last |-> c] \in Progress
  BY BoundAssumption DEF Progress, Node, Patch

\* What was exported stays.
LEMMA ArtifactKept ==
    ASSUME Inv, UNCHANGED <<setup, artifact>>
    PROVE  ArtifactIsTested' /\ PatchKeepsItsBase' /\ ProtectedBaseIsCommit'
  BY DEF Inv, ArtifactIsTested, PatchKeepsItsBase, ProtectedBaseIsCommit, Exported

\* Somebody edits the source: a copy being made has been overtaken.
LEMMA EditSourceInv == ASSUME Inv, EditSource PROVE Inv'
<1> USE DEF EditSource, Overtaken, Version, source, graph, tests, litter
<1>1. TypeOK'
  <2>1. ws' \in Content
    BY ContentShape, ChangeField, EditsShape, BoundAssumption DEF Inv, TypeOK
  <2>2. QED
    BY <2>1, ContentShape, ProgressShape, BoundAssumption DEF Inv, TypeOK
<1>2. CopyingInv'
  BY ContentShape, ProgressShape DEF Inv, CopyingInv
<1>3. EnterInv'
  BY ContentShape, ProgressShape DEF Inv, EnterInv, Whole, Settled
<1>4. WorkInv'
  BY ContentShape, ProgressShape DEF Inv, WorkInv, Whole, Settled
<1>5. LitterIsExplained'
  BY DEF Inv, LitterIsExplained, EnterInv
<1>6. QED
  BY <1>1, <1>2, <1>3, <1>4, <1>5, ArtifactKept DEF Inv

\* Somebody commits: HEAD is the working tree again.
LEMMA CommitSourceInv == ASSUME Inv, CommitSource PROVE Inv'
<1> USE DEF CommitSource, Overtaken, Version, source, graph, tests, litter
<1>1. TypeOK'
  <2>1. ws' \in Content
    BY ContentShape, ChangeField, EditsShape, BoundAssumption DEF Inv, TypeOK
  <2>2. QED
    BY <2>1, ContentShape, ProgressShape, BoundAssumption DEF Inv, TypeOK
<1>2. CopyingInv'
  BY ContentShape, ProgressShape DEF Inv, CopyingInv
<1>3. EnterInv'
  BY ContentShape, ProgressShape DEF Inv, EnterInv, Whole, Settled
<1>4. WorkInv'
  BY ContentShape, ProgressShape DEF Inv, WorkInv, Whole, Settled
<1>5. LitterIsExplained'
  BY DEF Inv, LitterIsExplained, EnterInv
<1>6. QED
  BY <1>1, <1>2, <1>3, <1>4, <1>5, ArtifactKept DEF Inv

\* Somebody pulls: a new HEAD with its tree.
LEMMA PullSourceInv == ASSUME Inv, PullSource PROVE Inv'
<1> USE DEF PullSource, Overtaken, Version, source, graph, tests, litter
<1>1. TypeOK'
  <2>1. ws' \in Content
    BY ContentShape, ChangeField, EditsShape, BoundAssumption DEF Inv, TypeOK
  <2>2. QED
    BY <2>1, ContentShape, ProgressShape, BoundAssumption DEF Inv, TypeOK
<1>2. CopyingInv'
  BY ContentShape, ProgressShape DEF Inv, CopyingInv
<1>3. EnterInv'
  BY ContentShape, ProgressShape DEF Inv, EnterInv, Whole, Settled
<1>4. WorkInv'
  BY ContentShape, ProgressShape DEF Inv, WorkInv, Whole, Settled
<1>5. LitterIsExplained'
  BY DEF Inv, LitterIsExplained, EnterInv
<1>6. QED
  BY <1>1, <1>2, <1>3, <1>4, <1>5, ArtifactKept DEF Inv

\* The copy is of the source as it is.
LEMMA CopyInv == ASSUME Inv, Copy PROVE Inv'
<1> USE DEF Copy, Running, source, graph, tests, litter
<1>1. TypeOK'
  <2>1. tree \in 0 .. (MaxTree + 1)
    BY BoundAssumption DEF Inv, TypeOK, Version
  <2>2. ws' \in Content
    BY <2>1, ContentShape, ChangeField
  <2>3. QED
    BY <2>2 DEF Inv, TypeOK
<1>2. CopyingInv'
  BY ContentShape, ProgressShape DEF CopyingInv, NoWorkspace
<1>3. EnterInv'
  BY ContentShape, ProgressShape DEF EnterInv
<1>4. WorkInv'
  BY ContentShape, ProgressShape DEF WorkInv
<1>5. LitterIsExplained'
  BY DEF Inv, LitterIsExplained
<1>6. QED
  BY <1>1, <1>2, <1>3, <1>4, <1>5, ArtifactKept DEF Inv

\* The base is HEAD as it is, or there is none.
LEMMA ReadHeadInv == ASSUME Inv, ReadHead PROVE Inv'
<1> USE DEF ReadHead, source, graph, tests, litter
<1>1. TypeOK'
  <2>1. head \in 0 .. (MaxTree + 1) /\ 0 \in 0 .. (MaxTree + 1)
    BY BoundAssumption DEF Inv, TypeOK, Version
  <2>2. ws' \in Content
    BY <2>1, ChangeField DEF Inv, TypeOK, Unversioned
  <2>3. QED
    BY <2>2 DEF Inv, TypeOK
<1>2. CopyingInv'
  BY ContentShape, ProgressShape DEF Inv, TypeOK, CopyingInv
<1>3. EnterInv'
  BY ContentShape, ProgressShape DEF Inv, EnterInv
<1>4. WorkInv'
  BY ContentShape, ProgressShape DEF WorkInv
<1>5. LitterIsExplained'
  BY DEF Inv, LitterIsExplained, EnterInv
<1>6. QED
  BY <1>1, <1>2, <1>3, <1>4, <1>5, ArtifactKept DEF Inv

\* A clean status makes the base that of the copy, unless the source moved.
LEMMA AfterStatusInv == ASSUME Inv, AfterStatus PROVE Inv'
<1> USE DEF AfterStatus, source, graph, tests, litter
<1> DEFINE base == IF Dirty THEN Unversioned ELSE ws.base
<1>1. /\ base \in 0 .. (MaxTree + 1) /\ ws \in Content
      /\ \A n \in Node : [g EXCEPT !.node = n] \in Progress
  BY ContentShape, NextProgress, BoundAssumption DEF Inv, TypeOK, Unversioned
<1>2. /\ op = "named" /\ ws.edits = {} /\ ~ws.junk /\ (ws.moved \/ ws.tree = tree)
      /\ g.node \in {"create_sandbox", "generate_patch", "run_tests", "export"}
      /\ box = "none"
  BY ProgressShape DEF Inv, TypeOK, CopyingInv, LitterIsExplained, Node
<1>3. CASE Refused \/ ~BaseAccepted(base)
  <2>1. /\ op' = "enter" /\ ws' = NoWorkspace /\ g' = [g EXCEPT !.node = "over"] /\ dirs' = dirs
    BY <1>3 DEF End, GoTo
  <2>2. TypeOK'
    BY <1>1, <2>1, ContentShape DEF Inv, TypeOK, Node
  <2>3. CopyingInv' /\ EnterInv' /\ WorkInv'
    BY <2>1 DEF CopyingInv, EnterInv, WorkInv
  <2>4. LitterIsExplained'
    BY <1>2, <2>1 DEF Inv, LitterIsExplained
  <2>5. QED
    BY <2>2, <2>3, <2>4, ArtifactKept DEF Inv
<1>4. CASE ~Refused /\ BaseAccepted(base)
  <2>1. /\ ws' = [ws EXCEPT !.base = base] /\ dirs' = dirs
        /\ CASE g.node = "create_sandbox" -> GoTo("generate_patch")
             [] g.node = "generate_patch" -> op' = "patch" /\ UNCHANGED g
             [] OTHER -> op' = "replay" /\ UNCHANGED g
    BY <1>4
  <2>2. /\ ws' \in Content /\ ws'.base = base /\ ws'.tree = ws.tree /\ ws'.moved = ws.moved
        /\ ws'.edits = {} /\ ~ws'.junk
    BY <1>1, <1>2, <2>1, ChangeField, ContentShape
  <2>3. Settled(ws)'
    <3>1. setup.git => ws.base \in Version /\ (ws.moved \/ ws.base = head)
      BY <1>2 DEF Inv, CopyingInv
    <3>2. ~setup.git => ws.base = Unversioned
      BY <1>2 DEF Inv, CopyingInv
    <3>3. setup.protected /\ setup.git => ~Dirty
      BY <1>4 DEF Refused
    <3>4. \A v \in Version : v # Unversioned
      BY BoundAssumption DEF Version, Unversioned
    <3>5. QED
      BY <1>2, <2>2, <3>1, <3>2, <3>3, <3>4 DEF Settled, Dirty
  <2>4. CASE g.node = "create_sandbox"
    <3>1. op' = "enter" /\ g' = [g EXCEPT !.node = "generate_patch"]
      BY <2>1, <2>4 DEF GoTo
    <3>2. g' \in Progress /\ g'.node = "generate_patch"
      BY <1>1, <3>1 DEF Node
    <3>3. TypeOK'
      BY <2>1, <2>2, <3>1, <3>2 DEF Inv, TypeOK
    <3>4. CopyingInv' /\ EnterInv' /\ WorkInv'
      BY <2>2, <2>3, <3>1, <3>2 DEF CopyingInv, EnterInv, WorkInv
    <3>5. LitterIsExplained'
      BY <1>2, <2>1, <3>2 DEF Inv, LitterIsExplained
    <3>6. QED
      BY <3>3, <3>4, <3>5, ArtifactKept DEF Inv
  <2>5. CASE g.node = "generate_patch"
    <3>1. op' = "patch" /\ g' = g
      BY <2>1, <2>5
    <3>2. TypeOK'
      BY <2>1, <2>2, <3>1 DEF Inv, TypeOK
    <3>3. CopyingInv' /\ EnterInv' /\ WorkInv'
      BY <2>2, <2>3, <2>5, <3>1 DEF CopyingInv, EnterInv, WorkInv
    <3>4. LitterIsExplained'
      BY <1>2, <2>1, <2>5, <3>1 DEF Inv, LitterIsExplained
    <3>5. QED
      BY <3>2, <3>3, <3>4, ArtifactKept DEF Inv
  <2>6. CASE g.node \in {"run_tests", "export"}
    <3>1. op' = "replay" /\ g' = g /\ base = g.last
      BY <1>4, <2>1, <2>6 DEF BaseAccepted
    <3>2. TypeOK'
      BY <2>1, <2>2, <3>1 DEF Inv, TypeOK
    <3>3. CopyingInv' /\ EnterInv' /\ WorkInv'
      BY <2>2, <2>3, <2>6, <3>1 DEF CopyingInv, EnterInv, WorkInv
    <3>4. LitterIsExplained'
      BY <1>2, <2>1, <2>6, <3>1 DEF Inv, LitterIsExplained
    <3>5. QED
      BY <3>2, <3>3, <3>4, ArtifactKept DEF Inv
  <2>7. QED
    BY <1>2, <2>4, <2>5, <2>6
<1>5. QED
  BY <1>3, <1>4

\* The workspace is still there, as the node before left it.
LEMMA UseWorkspaceInv == ASSUME Inv, UseWorkspace PROVE Inv'
<1> USE DEF UseWorkspace, NeedsWorkspace, Running, source, graph, tests, litter
<1>1. TypeOK'
  BY ContentShape, ProgressShape, BoundAssumption DEF Inv, TypeOK
<1>2. CopyingInv'
  BY ContentShape, ProgressShape DEF CopyingInv
<1>3. EnterInv'
  BY ContentShape, ProgressShape DEF EnterInv
<1>4. WorkInv'
  BY ContentShape, ProgressShape DEF Inv, TypeOK, EnterInv, WorkInv, Whole, Settled
<1>5. LitterIsExplained'
  BY DEF Inv, LitterIsExplained
<1>6. QED
  BY <1>1, <1>2, <1>3, <1>4, <1>5, ArtifactKept DEF Inv

\* One more edit of the patch.
LEMMA ApplyEditInv == ASSUME Inv, ApplyEdit PROVE Inv'
<1> USE DEF ApplyEdit, PatchNo, Missing, source, graph, tests, litter
<1>1. TypeOK'
  <2>1. PICK e \in Missing : ws' = [ws EXCEPT !.edits = @ \cup {e}]
    OBVIOUS
  <2>2. ws.edits \cup {e} \in SUBSET Edit
    BY <2>1, ContentShape, EditsShape DEF Inv, TypeOK
  <2>3. ws' \in Content
    BY <2>1, <2>2, ChangeField DEF Inv, TypeOK
  <2>4. QED
    BY <2>3 DEF Inv, TypeOK
<1>2. CopyingInv'
  BY ContentShape, ProgressShape DEF CopyingInv
<1>3. EnterInv'
  BY ContentShape, ProgressShape DEF Inv, EnterInv
<1>4. WorkInv'
  BY ContentShape, ProgressShape DEF Inv, WorkInv, Settled
<1>5. LitterIsExplained'
  BY DEF Inv, LitterIsExplained, EnterInv
<1>6. QED
  BY <1>1, <1>2, <1>3, <1>4, <1>5, ArtifactKept DEF Inv

\* All edits of the patch.
LEMMA ApplyDiffInv == ASSUME Inv, ApplyDiff PROVE Inv'
<1> USE DEF ApplyDiff, PatchNo, Missing, source, graph, tests, litter
<1>1. TypeOK'
  <2>1. ws' \in Content
    BY ContentShape, ChangeField, EditsShape, BoundAssumption DEF Inv, TypeOK
  <2>2. QED
    BY <2>1, ContentShape, ProgressShape, BoundAssumption DEF Inv, TypeOK
<1>2. CopyingInv'
  BY ContentShape, ProgressShape DEF CopyingInv
<1>3. EnterInv'
  BY ContentShape, ProgressShape DEF Inv, EnterInv
<1>4. WorkInv'
  BY ContentShape, ProgressShape DEF Inv, WorkInv, Settled
<1>5. LitterIsExplained'
  BY DEF Inv, LitterIsExplained, EnterInv
<1>6. QED
  BY <1>1, <1>2, <1>3, <1>4, <1>5, ArtifactKept DEF Inv

\* A patch that does not apply ends the graph.
LEMMA ApplyFailsInv == ASSUME Inv, ApplyFails PROVE Inv'
<1> USE DEF ApplyFails, End, GoTo, source, graph, tests, litter
<1>1. TypeOK'
  <2>1. ws' \in Content
    BY ContentShape, ChangeField, EditsShape, BoundAssumption
  <2>2. g' \in Progress
    BY ContentShape, ProgressShape, NextProgress, BoundAssumption DEF Inv, TypeOK, Node
  <2>3. QED
    BY <2>1, <2>2, ContentShape, ProgressShape, BoundAssumption DEF Inv, TypeOK
<1>2. CopyingInv'
  BY ContentShape, ProgressShape DEF CopyingInv
<1>3. EnterInv'
  BY ContentShape, ProgressShape DEF EnterInv
<1>4. WorkInv'
  BY ContentShape, ProgressShape DEF WorkInv
<1>5. LitterIsExplained'
  BY DEF Inv, LitterIsExplained
<1>6. QED
  BY <1>1, <1>2, <1>3, <1>4, <1>5, ArtifactKept DEF Inv

\* The copy has the whole patch, and the base of a new patch is that of the copy.
LEMMA PatchAppliedInv == ASSUME Inv, PatchApplied PROVE Inv'
<1> USE DEF PatchApplied, PatchNo, Missing, source, graph, tests, litter
<1>1. TypeOK'
  <2>1. /\ g.first \in 0 .. (MaxTree + 1) /\ ws.base \in 0 .. (MaxTree + 1)
        /\ op = "patch" => g.patches + 1 \in Patch
    BY ProgressShape, ContentShape DEF Inv, TypeOK
  <2>2. g' \in Progress
    BY <2>1, NextProgress DEF Inv, TypeOK
  <2>3. QED
    BY <2>2 DEF Inv, TypeOK
<1>2. CopyingInv'
  BY ContentShape, ProgressShape DEF CopyingInv
<1>3. EnterInv'
  BY ContentShape, ProgressShape DEF Inv, TypeOK, CopyingInv, EnterInv, WorkInv, Whole, Settled,
     Unversioned, NoWorkspace
<1>4. WorkInv'
  BY ContentShape, ProgressShape DEF Inv, TypeOK, CopyingInv, EnterInv, WorkInv, Whole, Settled,
     Unversioned, NoWorkspace
<1>5. LitterIsExplained'
  BY DEF Inv, LitterIsExplained
<1>6. QED
  BY <1>1, <1>2, <1>3, <1>4, <1>5, ArtifactKept DEF Inv

\* The tests start on the copy, or the graph ends.
LEMMA StartTestsInv == ASSUME Inv, StartTests PROVE Inv'
<1> USE DEF StartTests, End, GoTo, source, graph, tests, litter
<1>1. TypeOK'
  <2>1. \A n \in Node : [g EXCEPT !.node = n] \in Progress
    BY NextProgress DEF Inv, TypeOK
  <2>2. ws' \in Content /\ g' \in Progress /\ dirs' = dirs
    BY <2>1, ContentShape DEF Inv, TypeOK, Node
  <2>3. cli' \in BOOLEAN /\ box' \in {"none", "asked", "created", "running"}
    BY DEF Inv, TypeOK
  <2>4. QED
    BY <2>2, <2>3 DEF Inv, TypeOK
<1>2. CopyingInv'
  BY ContentShape, ProgressShape DEF CopyingInv
<1>3. EnterInv'
  BY ContentShape, ProgressShape DEF Inv, EnterInv
<1>4. WorkInv'
  BY ContentShape, ProgressShape DEF Inv, WorkInv, Whole, Settled
<1>5. LitterIsExplained'
  BY DEF Inv, LitterIsExplained
<1>6. QED
  BY <1>1, <1>2, <1>3, <1>4, <1>5, ArtifactKept DEF Inv

\* Local tests change the copy.
LEMMA ScribbleInv == ASSUME Inv, Scribble PROVE Inv'
<1> USE DEF Scribble, source, graph, tests, litter
<1>1. TypeOK'
  <2>1. ws' \in Content
    BY ContentShape, ChangeField, EditsShape, BoundAssumption DEF Inv, TypeOK
  <2>2. QED
    BY <2>1, ContentShape, ProgressShape, BoundAssumption DEF Inv, TypeOK
<1>2. CopyingInv'
  BY ContentShape, ProgressShape DEF CopyingInv
<1>3. EnterInv'
  BY ContentShape, ProgressShape DEF Inv, EnterInv
<1>4. WorkInv'
  BY ContentShape, ProgressShape DEF Inv, WorkInv, Whole, Settled
<1>5. LitterIsExplained'
  BY DEF Inv, LitterIsExplained, EnterInv
<1>6. QED
  BY <1>1, <1>2, <1>3, <1>4, <1>5, ArtifactKept DEF Inv

\* Tests that changed the copy have not passed.
LEMMA TestsExitInv == ASSUME Inv, NEW passed \in BOOLEAN, TestsExit(passed) PROVE Inv'
<1> USE DEF TestsExit, Verdict, source, graph, tests, litter
<1>1. TypeOK'
  BY ContentShape, ProgressShape, BoundAssumption DEF Inv, TypeOK
<1>2. CopyingInv'
  BY ContentShape, ProgressShape DEF CopyingInv
<1>3. EnterInv'
  BY ContentShape, ProgressShape DEF Inv, EnterInv
<1>4. WorkInv'
  BY ContentShape, ProgressShape DEF Inv, WorkInv, Whole, Settled
<1>5. LitterIsExplained'
  BY DEF Inv, LitterIsExplained
<1>6. QED
  BY <1>1, <1>2, <1>3, <1>4, <1>5, ArtifactKept DEF Inv

\* Stopped tests have not passed.
LEMMA StopTestsInv == ASSUME Inv, StopTests PROVE Inv'
<1> USE DEF StopTests, source, graph, tests, litter
<1>1. TypeOK'
  BY ContentShape, ProgressShape, BoundAssumption DEF Inv, TypeOK
<1>2. CopyingInv'
  BY ContentShape, ProgressShape DEF CopyingInv
<1>3. EnterInv'
  BY ContentShape, ProgressShape DEF Inv, EnterInv
<1>4. WorkInv'
  BY ContentShape, ProgressShape DEF Inv, WorkInv, Whole, Settled
<1>5. LitterIsExplained'
  BY DEF Inv, LitterIsExplained
<1>6. QED
  BY <1>1, <1>2, <1>3, <1>4, <1>5, ArtifactKept DEF Inv

\* What the node makes of the tests; only passed tests keep the copy for the export.
LEMMA JudgedInv ==
    ASSUME Inv, op = "removing", Judged
    PROVE  /\ ws' \in Content /\ tested' \in Content /\ g' \in Progress /\ dirs' = dirs
           /\ op' = "enter" /\ (g'.node \in {"parked", "over"} => ws' = NoWorkspace)
           /\ CopyingInv' /\ WorkInv'
           /\ setup' = setup => EnterInv'
<1> USE DEF GoTo, End
<1>1. /\ \A n \in Node : [g EXCEPT !.node = n] \in Progress
      /\ \A n \in Node : [g EXCEPT !.node = n].node = n
      /\ \A n \in Node : /\ [g EXCEPT !.node = n].patches = g.patches
                         /\ [g EXCEPT !.node = n].last = g.last
      /\ ws \in Content /\ tested \in Content /\ g \in Progress
  BY NextProgress, ProgressShape DEF Inv, TypeOK
<1>2. /\ op' = "enter" /\ dirs' = dirs
      /\ \/ outcome = "ok" /\ g' = [g EXCEPT !.node = "export"] /\ tested' = ws /\ ws' = ws
         \/ /\ g' = [g EXCEPT !.node = "generate_patch"] /\ tested' = tested /\ ws' = ws
            /\ g.node = "run_tests" /\ outcome = "failed"
         \/ g' = [g EXCEPT !.node = "over"] /\ tested' = tested /\ ws' = NoWorkspace
  BY DEF Judged
<1>3. g.node \in {"run_tests", "export"} /\ Whole(ws) /\ (outcome = "ok" => ~ws.junk)
  BY DEF Inv, WorkInv
<1>4. g.patches # 0
  BY <1>1, <1>3, ContentShape, EditsShape DEF Whole
<1>5. CASE /\ outcome = "ok" /\ g' = [g EXCEPT !.node = "export"] /\ tested' = ws /\ ws' = ws
  <2>1. g' \in Progress /\ g'.node = "export" /\ g'.patches = g.patches /\ g'.last = g.last
    BY <1>1, <1>5 DEF Node
  <2>2. CopyingInv' /\ WorkInv'
    BY <1>2, <2>1 DEF CopyingInv, WorkInv
  <2>3. setup' = setup => EnterInv'
    BY <1>2, <1>3, <1>5, <2>1 DEF EnterInv, Whole, Settled
  <2>4. QED
    BY <1>1, <1>2, <1>5, <2>1, <2>2, <2>3
<1>6. CASE /\ g' = [g EXCEPT !.node = "generate_patch"] /\ tested' = tested /\ ws' = ws
  <2>1. g' \in Progress /\ g'.node = "generate_patch" /\ g'.patches = g.patches
    BY <1>1, <1>6 DEF Node
  <2>2. CopyingInv' /\ WorkInv'
    BY <1>2, <2>1 DEF CopyingInv, WorkInv
  <2>3. setup' = setup => EnterInv'
    BY <1>2, <1>3, <1>4, <1>6, <2>1 DEF EnterInv, Whole, Settled
  <2>4. QED
    BY <1>1, <1>2, <1>6, <2>1, <2>2, <2>3
<1>7. CASE /\ g' = [g EXCEPT !.node = "over"] /\ tested' = tested /\ ws' = NoWorkspace
  <2>1. g' \in Progress /\ g'.node = "over"
    BY <1>1, <1>7 DEF Node
  <2>2. CopyingInv' /\ WorkInv' /\ EnterInv'
    BY <1>2, <1>7, <2>1 DEF CopyingInv, WorkInv, EnterInv
  <2>3. QED
    BY <1>1, <1>2, <1>7, <2>1, <2>2, ContentShape
<1>8. QED
  BY <1>2, <1>5, <1>6, <1>7

\* The container is gone unless the daemon had not made it; the node decides.
LEMMA RemoveInv == ASSUME Inv, Remove PROVE Inv'
<1> USE DEF Remove, source
<1>1. /\ ws' \in Content /\ tested' \in Content /\ g' \in Progress /\ dirs' = dirs
      /\ op' = "enter" /\ (g'.node \in {"parked", "over"} => ws' = NoWorkspace)
      /\ CopyingInv' /\ WorkInv' /\ EnterInv'
  BY JudgedInv
<1>2. /\ strays' \subseteq {"asked", "created", "running"}
      /\ cut' \subseteq {"early", "removal", "crash"}
  BY DEF Inv, TypeOK
<1>3. TypeOK'
  BY <1>1, <1>2 DEF Inv, TypeOK
<1>4. LitterIsExplained'
  BY <1>1 DEF Inv, LitterIsExplained
<1>5. QED
  BY <1>1, <1>3, <1>4, ArtifactKept DEF Inv

\* The container is left as it is.
LEMMA RemoveFailsInv == ASSUME Inv, RemoveFails PROVE Inv'
<1> USE DEF RemoveFails, End, GoTo, source, graph, tests, litter
<1>1. TypeOK'
  <2>1. ws' \in Content
    BY ContentShape, ChangeField, EditsShape, BoundAssumption
  <2>2. g' \in Progress
    BY ContentShape, ProgressShape, NextProgress, BoundAssumption DEF Inv, TypeOK, Node
  <2>3. QED
    BY <2>1, <2>2, ContentShape, ProgressShape, BoundAssumption DEF Inv, TypeOK
<1>2. CopyingInv'
  BY ContentShape, ProgressShape DEF CopyingInv
<1>3. EnterInv'
  BY ContentShape, ProgressShape DEF EnterInv
<1>4. WorkInv'
  BY ContentShape, ProgressShape DEF WorkInv
<1>5. LitterIsExplained'
  BY DEF Inv, LitterIsExplained
<1>6. QED
  BY <1>1, <1>2, <1>3, <1>4, <1>5, ArtifactKept DEF Inv

LEMMA DaemonCreatesInv == ASSUME Inv, DaemonCreates PROVE Inv'
<1> USE DEF DaemonCreates, source, graph, tests, litter
<1>1. TypeOK'
  BY ContentShape, ProgressShape, BoundAssumption DEF Inv, TypeOK
<1>2. CopyingInv'
  BY ContentShape, ProgressShape DEF Inv, CopyingInv
<1>3. EnterInv'
  BY ContentShape, ProgressShape DEF Inv, EnterInv, Whole, Settled
<1>4. WorkInv'
  BY ContentShape, ProgressShape DEF Inv, WorkInv, Whole, Settled
<1>5. LitterIsExplained'
  BY DEF Inv, LitterIsExplained
<1>6. QED
  BY <1>1, <1>2, <1>3, <1>4, <1>5, ArtifactKept DEF Inv

LEMMA DaemonStartsInv == ASSUME Inv, DaemonStarts PROVE Inv'
<1> USE DEF DaemonStarts, source, graph, tests, litter
<1>1. TypeOK'
  BY ContentShape, ProgressShape, BoundAssumption DEF Inv, TypeOK
<1>2. CopyingInv'
  BY ContentShape, ProgressShape DEF Inv, CopyingInv
<1>3. EnterInv'
  BY ContentShape, ProgressShape DEF Inv, EnterInv, Whole, Settled
<1>4. WorkInv'
  BY ContentShape, ProgressShape DEF Inv, WorkInv, Whole, Settled
<1>5. LitterIsExplained'
  BY DEF Inv, LitterIsExplained
<1>6. QED
  BY <1>1, <1>2, <1>3, <1>4, <1>5, ArtifactKept DEF Inv

\* The artifact names the tested copy, which is the one exported.
LEMMA ExportInv == ASSUME Inv, Export PROVE Inv'
<1> USE DEF Export, GoTo, NeedsWorkspace, Running, source, graph, tests, litter
<1>1. TypeOK'
  <2>1. ws' \in Content
    BY ContentShape, ChangeField, EditsShape, BoundAssumption
  <2>2. g' \in Progress
    BY ContentShape, ProgressShape, NextProgress, BoundAssumption DEF Inv, TypeOK, Node
  <2>3. QED
    BY <2>1, <2>2, ContentShape, ProgressShape, BoundAssumption DEF Inv, TypeOK
<1>2. CopyingInv'
  BY ContentShape, ProgressShape DEF CopyingInv
<1>3. EnterInv'
  BY ContentShape, ProgressShape DEF EnterInv
<1>4. WorkInv'
  BY ContentShape, ProgressShape DEF WorkInv
<1>5. LitterIsExplained'
  BY DEF Inv, LitterIsExplained
<1>6. ArtifactIsTested' /\ PatchKeepsItsBase' /\ ProtectedBaseIsCommit'
  BY ContentShape, ProgressShape DEF Inv, ArtifactIsTested, PatchKeepsItsBase,
     ProtectedBaseIsCommit, EnterInv, Whole, Settled
<1>7. QED
  BY <1>1, <1>2, <1>3, <1>4, <1>5, <1>6 DEF Inv

LEMMA SaveInv == ASSUME Inv, Save PROVE Inv'
<1> USE DEF Save, Running, source, graph, tests, litter
<1>1. TypeOK'
  BY ContentShape, ProgressShape, BoundAssumption DEF Inv, TypeOK
<1>2. CopyingInv'
  BY ContentShape, ProgressShape DEF CopyingInv
<1>3. EnterInv'
  BY ContentShape, ProgressShape DEF Inv, EnterInv, Whole, Settled
<1>4. WorkInv'
  BY ContentShape, ProgressShape DEF WorkInv
<1>5. LitterIsExplained'
  BY DEF Inv, LitterIsExplained
<1>6. QED
  BY <1>1, <1>2, <1>3, <1>4, <1>5, ArtifactKept DEF Inv

\* The process loses its workspace and leaves a directory and a container.
LEMMA CrashInv == ASSUME Inv, Crash PROVE Inv'
<1> USE DEF Crash, Running, source, graph, tests, litter
<1>1. TypeOK'
  <2>1. dirs \in 0 .. crashes /\ crashes \in 0 .. MaxCrashes
    BY DEF Inv, TypeOK, LitterIsExplained
  <2>2. crashes' \in 0 .. MaxCrashes /\ dirs' \in 0 .. MaxCrashes
    BY <2>1, BoundAssumption
  <2>3. strays' \subseteq {"asked", "created", "running"}
        /\ cut' \subseteq {"early", "removal", "crash"}
    BY DEF Inv, TypeOK
  <2>4. QED
    BY <2>2, <2>3, ContentShape DEF Inv, TypeOK
<1>2. CopyingInv'
  BY ContentShape, ProgressShape DEF CopyingInv
<1>3. EnterInv'
  BY ContentShape, ProgressShape DEF EnterInv
<1>4. WorkInv'
  BY ContentShape, ProgressShape DEF WorkInv
<1>5. LitterIsExplained'
  BY DEF Inv, TypeOK, LitterIsExplained
<1>6. QED
  BY <1>1, <1>2, <1>3, <1>4, <1>5, ArtifactKept DEF Inv

\* The new process has no workspace.
LEMMA RestartInv == ASSUME Inv, Restart PROVE Inv'
<1> USE DEF Restart, Fresh, source, graph, tests, litter
<1>1. TypeOK'
  <2>1. g' \in Progress
    BY ContentShape, ProgressShape, NextProgress, BoundAssumption DEF Inv, TypeOK
  <2>2. QED
    BY <2>1, ContentShape, ProgressShape, BoundAssumption DEF Inv, TypeOK
<1>2. CopyingInv'
  BY ContentShape, ProgressShape DEF CopyingInv
<1>3. EnterInv'
  BY ContentShape, ProgressShape DEF Inv, EnterInv
<1>4. WorkInv'
  BY ContentShape, ProgressShape DEF WorkInv
<1>5. LitterIsExplained'
  BY DEF Inv, LitterIsExplained, EnterInv
<1>6. QED
  BY <1>1, <1>2, <1>3, <1>4, <1>5, ArtifactKept DEF Inv

\* The daemon serves, or drops, a request nobody waits for.
LEMMA StrayInv ==
    ASSUME Inv, StrayCreated \/ StrayDropped \/ StrayEnds
    PROVE  Inv'
<1> USE DEF StrayCreated, StrayDropped, StrayEnds, StrayMoves, source, graph, tests
<1>1. TypeOK'
  BY DEF Inv, TypeOK
<1>2. CopyingInv' /\ EnterInv' /\ WorkInv'
  BY DEF Inv, CopyingInv, EnterInv, WorkInv, Whole, Settled
<1>3. LitterIsExplained'
  BY DEF Inv, LitterIsExplained
<1>4. QED
  BY <1>1, <1>2, <1>3, ArtifactKept DEF Inv

\* Nothing was copied yet.
LEMMA InitInv == Init => Inv
<1> SUFFICES ASSUME Init PROVE Inv
  OBVIOUS
<1> USE DEF Init
<1>1. TypeOK
  <2>1. artifact \in [patch : 0 .. MaxPatches, base : 0 .. (MaxTree + 1),
                       builtFor : 0 .. (MaxTree + 1), tested : Content]
    BY ContentShape, BoundAssumption DEF NoArtifact, Unversioned
  <2>2. g \in Progress /\ saved \in Progress /\ ws \in Content /\ tested \in Content
    BY ContentShape, ProgressShape
  <2>3. 1 \in Version /\ 0 \in 0 .. MaxCrashes
    BY BoundAssumption DEF Version
  <2>4. QED
    BY <2>1, <2>2, <2>3 DEF TypeOK
<1>2. CopyingInv /\ EnterInv /\ WorkInv
  BY DEF CopyingInv, EnterInv, WorkInv
<1>3. ArtifactIsTested /\ PatchKeepsItsBase /\ ProtectedBaseIsCommit
  BY DEF ArtifactIsTested, PatchKeepsItsBase, ProtectedBaseIsCommit, Exported
<1>4. LitterIsExplained
  BY DEF LitterIsExplained
<1>5. QED
  BY <1>1, <1>2, <1>3, <1>4 DEF Inv

LEMMA NextInv == Inv /\ [Next]_vars => Inv'
<1> SUFFICES ASSUME Inv, [Next]_vars PROVE Inv'
  OBVIOUS
<1>1. CASE Source
  BY <1>1, EditSourceInv, CommitSourceInv, PullSourceInv DEF Source
<1>2. CASE Workspace
  BY <1>2, CopyInv, ReadHeadInv, AfterStatusInv, UseWorkspaceInv DEF Workspace
<1>3. CASE Apply
  BY <1>3, ApplyEditInv, ApplyDiffInv, ApplyFailsInv, PatchAppliedInv DEF Apply
<1>4. CASE Test
  BY <1>4, StartTestsInv, ScribbleInv, StopTestsInv, RemoveInv, RemoveFailsInv, TestsExitInv DEF
     Test
<1>5. CASE Daemon
  BY <1>5, DaemonCreatesInv, DaemonStartsInv, StrayInv DEF Daemon
<1>6. CASE Process
  BY <1>6, ExportInv, SaveInv, CrashInv, RestartInv DEF Process
<1>7. CASE UNCHANGED vars
  <2>1. TypeOK' /\ CopyingInv' /\ EnterInv' /\ WorkInv'
    BY <1>7 DEF vars, Inv, TypeOK, CopyingInv, EnterInv, WorkInv, Whole, Settled
  <2>2. LitterIsExplained'
    BY <1>7 DEF vars, Inv, LitterIsExplained
  <2>3. QED
    BY <1>7, <2>1, <2>2, ArtifactKept DEF vars, Inv
<1>8. QED
  BY <1>1, <1>2, <1>3, <1>4, <1>5, <1>6, <1>7 DEF Next

\* The inductive invariant holds in every reachable state.
THEOREM InvHolds == Spec => []Inv
<1>1. QED
  BY InitInv, NextInv, PTL DEF Spec

\* The graph state, the workspace, the test run and its litter keep their types; there are
\* never more directories left than crashes.
THEOREM TypesHold == Spec => []TypeOK
<1>1. Inv => TypeOK
  BY DEF Inv
<1>2. QED
  BY <1>1, InvHolds, PTL

\* What export_patch_artifact hands to a human is the whole patch that was tested, and
\* nothing else, on the commit it names.
THEOREM ArtifactsAreTested == Spec => []ArtifactIsTested
<1>1. Inv => ArtifactIsTested
  BY DEF Inv
<1>2. QED
  BY <1>1, InvHolds, PTL

\* A replayed patch is exported for the base it was generated on.
THEOREM PatchesKeepTheirBase == Spec => []PatchKeepsItsBase
<1>1. Inv => PatchKeepsItsBase
  BY DEF Inv
<1>2. QED
  BY <1>1, InvHolds, PTL

\* create_workspace() of a protected environment never lets a patch of a Git repository out
\* that has no base commit.
THEOREM ProtectedBasesAreCommits == Spec => []ProtectedBaseIsCommit
<1>1. Inv => ProtectedBaseIsCommit
  BY DEF Inv
<1>2. QED
  BY <1>1, InvHolds, PTL

\* Every container and directory that is left has one of the causes the code cannot prevent.
THEOREM LitterHasACause == Spec => []LitterIsExplained
<1>1. Inv => LitterIsExplained
  BY DEF Inv
<1>2. QED
  BY <1>1, InvHolds, PTL
=============================================================================
