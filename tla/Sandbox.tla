------------------------------ MODULE Sandbox ------------------------------
(***************************************************************************)
(* The sandbox of one run (sandbox/manager.py, sandbox/process.py) and the *)
(* graph nodes that drive it (agent/graph.py): a copy of the reference     *)
(* repository with the commit it is taken to be, patches applied to the    *)
(* copy edit by edit, tests in a container or a local process group, and   *)
(* the artifact exported from them.                                        *)
(*                                                                         *)
(* Around it the model has what the code does not control: somebody edits, *)
(* commits or pulls in the source repository, the Docker daemon acts on a  *)
(* request after its client is dead, tests hang or scribble, and the       *)
(* worker process crashes and starts again from a checkpoint.              *)
(*                                                                         *)
(* The content of a copy is the version of the source tree it was made     *)
(* from and the edits written to it; <<p, e>> is the e-th edit of the p-th *)
(* patch of the run.                                                       *)
(***************************************************************************)
EXTENDS Naturals, FiniteSets

CONSTANTS MaxPatches,   \* max_patch_attempts
          Edits,        \* edits of a simple_replace patch (bound)
          MaxTree,      \* versions of the source tree (bound)
          MaxCrashes    \* crashes of the worker (bound)

ASSUME BoundAssumption == /\ MaxPatches \in Nat \ {0}
                          /\ Edits \in Nat \ {0}
                          /\ MaxTree \in Nat
                          /\ MaxCrashes \in Nat

VARIABLES
    setup,      \* settings and source that never change: git, protected, docker
    head, tree, \* the source repository: version of HEAD, of the working tree
    g,          \* the graph state: next node, patches made, their base commits
    saved,      \* the last checkpoint of it
    op,         \* where the process is inside the node
    ws,         \* the workspace of the manager in runtime
    cli,        \* the child process of run_process() is alive
    box,        \* the container of the current test run
    outcome,    \* what run_tests_async() will return or raise after its finally
    tested,     \* the content the last successful tests ran on
    artifact,   \* the exported artifact
    strays,     \* states of containers no test run owns any more
    dirs,       \* temporary directories left by processes that died
    cut,        \* why a container may have been left: history, not in the code
    crashes

source == <<setup, head, tree>>
graph == <<g, saved, artifact, tested>>
tests == <<cli, box, outcome>>
litter == <<strays, dirs, cut, crashes>>
vars == <<setup, head, tree, g, saved, op, ws, cli, box, outcome, tested, artifact,
          strays, dirs, cut, crashes>>

Unversioned == 0
Version == 1 .. (MaxTree + 1)
Patch == 1 .. MaxPatches
Edit == Patch \X (1 .. Edits)
NoWorkspace == [tree |-> 0, base |-> Unversioned, edits |-> {}, junk |-> FALSE, moved |-> FALSE]
NoArtifact == [patch |-> 0, base |-> Unversioned, builtFor |-> Unversioned, tested |-> NoWorkspace]
EditsOf(p) == {p} \X (1 .. Edits)

\* first and last are the base commits of the first and of the latest patch.
Fresh == [node |-> "create_sandbox", patches |-> 0, first |-> Unversioned,
          last |-> Unversioned]
Node == {"create_sandbox", "generate_patch", "run_tests", "export", "parked", "over"}
Running == g.node \notin {"parked", "over"} /\ op # "down"

Init == /\ setup \in [git : BOOLEAN, protected : BOOLEAN, docker : BOOLEAN]
        /\ head = 1 /\ tree = 1
        /\ g = Fresh /\ saved = Fresh
        /\ op = "enter"
        /\ ws = NoWorkspace
        /\ cli = FALSE /\ box = "none" /\ outcome = "none"
        /\ tested = NoWorkspace /\ artifact = NoArtifact
        /\ strays = {} /\ dirs = 0 /\ cut = {} /\ crashes = 0

\* ------------------------------------------------------------------------
\* The source repository.

\* The copy being made is no longer what the repository holds.
Overtaken == ws' = IF op \in {"copied", "named"} THEN [ws EXCEPT !.moved = TRUE] ELSE ws

EditSource == /\ tree <= MaxTree /\ tree' = tree + 1 /\ Overtaken
              /\ UNCHANGED <<setup, head, graph, op, tests, litter>>

CommitSource == /\ head # tree /\ head' = tree /\ Overtaken
                /\ UNCHANGED <<setup, tree, graph, op, tests, litter>>

PullSource == /\ tree <= MaxTree /\ tree' = tree + 1 /\ head' = tree + 1 /\ Overtaken
              /\ UNCHANGED <<setup, graph, op, tests, litter>>

\* ------------------------------------------------------------------------
\* Moving through the graph.

GoTo(node) == g' = [g EXCEPT !.node = node] /\ op' = "enter"

\* Variant: the manager is dropped without destroy_workspace().
EndLittering == /\ GoTo("over")
                /\ ws' = NoWorkspace
                /\ dirs' = dirs + (IF ws = NoWorkspace THEN 0 ELSE 1)

\* A node ends the graph; its finally clause destroys every workspace.
End == /\ GoTo("over")
       /\ ws' = NoWorkspace
       /\ UNCHANGED dirs

\* ------------------------------------------------------------------------
\* create_workspace().

\* Variant: a further patch goes on top of the one that failed.
NeedsWorkspaceOnce == ws = NoWorkspace /\ g.node \in {"create_sandbox", "generate_patch",
                                                      "run_tests", "export"}

\* create_sandbox makes a workspace, generate_patch a new one for every further
\* patch, and ensure_workspace() one wherever a recovered process has none.
NeedsWorkspace == \/ g.node = "create_sandbox"
                  \/ g.node = "generate_patch" /\ g.patches > 0
                  \/ ws = NoWorkspace

\* The previous directory is destroyed and the source tree copied.
Copy == /\ Running /\ op = "enter"
        /\ NeedsWorkspace
        /\ ws' = [NoWorkspace EXCEPT !.tree = tree]
        /\ op' = "copied"
        /\ UNCHANGED <<source, graph, tests, litter>>

\* git rev-parse HEAD, in the source.
ReadHead == /\ op = "copied"
            /\ ws' = [ws EXCEPT !.base = IF setup.git THEN head ELSE Unversioned]
            /\ op' = "named"
            /\ UNCHANGED <<source, graph, tests, litter>>

Dirty == setup.git /\ tree # head

\* Variant: a recovered patch is replayed on whatever the source is now.
BaseAcceptedAlways(base) == base \in Nat

\* generate_patch keeps to the base of the first patch, a replay to that of the
\* patch it replays.
BaseAccepted(base) ==
    CASE g.node = "generate_patch" -> g.patches = 0 \/ base = g.first
      [] g.node \in {"run_tests", "export"} -> base = g.last
      [] OTHER -> TRUE

\* Variant: a dirty tree is accepted everywhere.
RefusedNever == FALSE

Refused == Dirty /\ setup.protected

\* git status: a dirty tree has no commit, and protected environments refuse it.
\* Then the node that asked for the workspace goes on.
AfterStatus == LET base == IF Dirty THEN Unversioned ELSE ws.base IN
    /\ op = "named"
    /\ IF Refused \/ ~BaseAccepted(base)
       THEN End
       ELSE /\ ws' = [ws EXCEPT !.base = base]
            /\ CASE g.node = "create_sandbox" -> GoTo("generate_patch")
                 [] g.node = "generate_patch" -> op' = "patch" /\ UNCHANGED g
                 [] OTHER -> op' = "replay" /\ UNCHANGED g
            /\ UNCHANGED dirs
    /\ UNCHANGED <<source, saved, artifact, tested, tests, strays, cut, crashes>>

\* The workspace of this process is still there.
UseWorkspace == /\ Running /\ op = "enter"
                /\ ~NeedsWorkspace
                /\ g.node \in {"generate_patch", "run_tests"}
                /\ op' = IF g.node = "generate_patch" THEN "patch" ELSE "start"
                /\ UNCHANGED <<source, graph, ws, tests, litter>>

\* ------------------------------------------------------------------------
\* apply_patch(), of a new patch or of the one being replayed.

PatchNo == IF op = "patch" THEN g.patches + 1 ELSE g.patches
Missing == EditsOf(PatchNo) \ ws.edits

\* simple_replace: one file is rewritten.
ApplyEdit == /\ op \in {"patch", "replay"}
             /\ PatchNo \in Patch
             /\ \E e \in Missing :
                    /\ \A f \in Missing : e[2] <= f[2]
                    /\ ws' = [ws EXCEPT !.edits = @ \cup {e}]
             /\ UNCHANGED <<source, graph, op, tests, litter>>

\* A unified diff: git apply --check, then git apply, all or nothing.
ApplyDiff == /\ op \in {"patch", "replay"}
             /\ PatchNo \in Patch
             /\ Missing = EditsOf(PatchNo)
             /\ ws' = [ws EXCEPT !.edits = @ \cup Missing]
             /\ UNCHANGED <<source, graph, op, tests, litter>>

\* The text to find is missing, the paths changed are not the ones declared, the
\* model gave no patch, or there were too many: possibly after some edits.
ApplyFails == /\ op \in {"patch", "replay"}
              /\ End
              /\ UNCHANGED <<source, saved, artifact, tested, tests, strays, cut, crashes>>

\* The snapshots before and after differ in the declared paths.
PatchApplied ==
    /\ op \in {"patch", "replay"}
    /\ PatchNo \in Patch
    /\ Missing = {}
    /\ IF op = "replay"
       THEN op' = "start" /\ UNCHANGED g
       ELSE /\ g' = [node |-> "run_tests", patches |-> g.patches + 1,
                     first |-> IF g.patches = 0 THEN ws.base ELSE g.first,
                     last |-> ws.base]
            /\ op' = "enter"
    /\ UNCHANGED <<source, saved, artifact, tested, ws, tests, litter>>

\* ------------------------------------------------------------------------
\* run_tests_async() and run_process().

\* docker run, or the interpreter in a session of its own.  A protected
\* environment without Docker refuses instead.
StartTests ==
    /\ op = "start"
    /\ UNCHANGED <<source, saved, artifact, tested, outcome, strays, cut, crashes>>
    /\ IF setup.protected /\ ~setup.docker
       THEN End /\ UNCHANGED <<cli, box>>
       ELSE /\ cli' = TRUE
            /\ box' = IF setup.docker THEN "asked" ELSE "none"
            /\ op' = "testing"
            /\ UNCHANGED <<g, ws, dirs>>

\* Local tests may write to the workspace; in the container it is read-only.
Scribble == /\ op = "testing" /\ ~setup.docker
            /\ ws' = [ws EXCEPT !.junk = TRUE]
            /\ UNCHANGED <<source, graph, op, tests, litter>>

\* Exit code 0 is success, unless the tests changed what they were to judge.
Verdict(passed) == IF ws.junk THEN "error" ELSE IF passed THEN "ok" ELSE "failed"

\* The child ended.  Without a container that is docker run itself failing, which
\* counts as failed tests.
TestsExit(passed) ==
    /\ op = "testing"
    /\ setup.docker /\ box # "running" => ~passed /\ box = "asked"
    /\ cli' = FALSE
    /\ box' = "none"
    /\ outcome' = Verdict(passed)
    /\ op' = "removing"
    /\ UNCHANGED <<source, graph, ws, litter>>

\* Variant: the clock starts with the container.
StopTestsWhenRunning == /\ op = "testing"
                        /\ box = "running"
                        /\ cli' = FALSE
                        /\ outcome' = "error"
                        /\ op' = "removing"
                        /\ UNCHANGED <<source, graph, ws, box, litter>>

\* The timeout, the output limit or a cancellation: the process group is killed,
\* which kills the Docker client but not its container.
StopTests == /\ op = "testing"
             /\ cli' = FALSE
             /\ outcome' = "error"
             /\ op' = "removing"
             /\ UNCHANGED <<source, graph, ws, box, litter>>

\* run_tests_async() returned or raised; the node decides.
Judged == CASE outcome = "ok" ->
                   GoTo("export") /\ tested' = ws /\ UNCHANGED <<ws, dirs>>
            [] outcome = "failed" /\ g.node = "run_tests" /\ g.patches < MaxPatches ->
                   GoTo("generate_patch") /\ UNCHANGED <<tested, ws, dirs>>
            [] OTHER -> End /\ UNCHANGED tested

\* Variant: no finally clause.
RemoveNothing == /\ op = "removing"
                 /\ strays' = IF box = "none" THEN strays ELSE strays \cup {box}
                 /\ cut' = cut
                 /\ box' = "none"
                 /\ outcome' = "none"
                 /\ Judged
                 /\ UNCHANGED <<source, saved, artifact, cli, crashes>>

\* finally: docker rm -f.  A container the daemon has not created yet is not found,
\* and may be created afterwards.
Remove == /\ op = "removing"
          /\ strays' = IF box = "asked" THEN strays \cup {"asked"} ELSE strays
          /\ cut' = IF box = "asked" THEN cut \cup {"early"} ELSE cut
          /\ box' = "none"
          /\ outcome' = "none"
          /\ Judged
          /\ UNCHANGED <<source, saved, artifact, cli, crashes>>

\* docker rm is cancelled or takes more than its 15 s: its error replaces the
\* result, and the container is left as it is.
RemoveFails == /\ op = "removing"
               /\ setup.docker
               /\ strays' = IF box = "none" THEN strays ELSE strays \cup {box}
               /\ cut' = cut \cup {"removal"}
               /\ box' = "none"
               /\ outcome' = "none"
               /\ End
               /\ UNCHANGED <<source, saved, artifact, tested, cli, crashes>>

\* The daemon serves the current request, and the requests nobody waits for; a
\* container whose client is dead is never started.
DaemonCreates == /\ box = "asked" /\ box' = "created"
                 /\ UNCHANGED <<source, graph, op, ws, cli, outcome, litter>>
DaemonStarts == /\ box = "created" /\ cli /\ box' = "running"
                /\ UNCHANGED <<source, graph, op, ws, cli, outcome, litter>>
StrayMoves(from, to) ==
    /\ from \in strays
    /\ strays' = (strays \ {from}) \cup to
    /\ UNCHANGED <<source, graph, op, ws, tests, dirs, cut, crashes>>
StrayCreated == StrayMoves("asked", {"created"})
StrayDropped == StrayMoves("asked", {})
StrayEnds == StrayMoves("running", {})

\* ------------------------------------------------------------------------
\* export_patch_artifact, and the end of the process.

\* A recovered process has no workspace here and runs the tests again first.
Export == /\ Running /\ op = "enter"
          /\ g.node = "export"
          /\ ~NeedsWorkspace
          /\ artifact' = [patch |-> g.patches, base |-> ws.base, builtFor |-> g.last,
                          tested |-> tested]
          /\ ws' = NoWorkspace
          /\ GoTo("parked")
          /\ UNCHANGED <<source, saved, tested, tests, litter>>

\* The checkpointer saves in the background.
Save == /\ Running /\ op = "enter"
        /\ saved' = g
        /\ UNCHANGED <<source, g, artifact, tested, op, ws, tests, litter>>

\* The worker dies; directories, containers and requests to the daemon do not.
Crash == /\ Running
         /\ crashes < MaxCrashes
         /\ crashes' = crashes + 1
         /\ dirs' = dirs + (IF ws = NoWorkspace THEN 0 ELSE 1)
         /\ strays' = IF box = "none" THEN strays ELSE strays \cup {box}
         /\ cut' = cut \cup {"crash"}
         /\ ws' = NoWorkspace
         /\ tested' = NoWorkspace
         /\ cli' = FALSE /\ box' = "none" /\ outcome' = "none"
         /\ op' = "down"
         /\ UNCHANGED <<source, g, saved, artifact>>

\* The next attempt recovers from the checkpoint or begins again.
Restart == /\ op = "down"
           /\ g' \in {saved, Fresh}
           /\ saved' = g'
           /\ op' = "enter"
           /\ UNCHANGED <<source, artifact, tested, ws, tests, litter>>

\* ------------------------------------------------------------------------

Source == EditSource \/ CommitSource \/ PullSource
Workspace == Copy \/ ReadHead \/ AfterStatus \/ UseWorkspace
Apply == ApplyEdit \/ ApplyDiff \/ ApplyFails \/ PatchApplied
Test == StartTests \/ Scribble \/ StopTests \/ Remove \/ RemoveFails
        \/ \E passed \in BOOLEAN : TestsExit(passed)
Daemon == DaemonCreates \/ DaemonStarts \/ StrayCreated \/ StrayDropped \/ StrayEnds
Process == Export \/ Save \/ Crash \/ Restart

Next == Source \/ Workspace \/ Apply \/ Test \/ Daemon \/ Process

Spec == Init /\ [][Next]_vars

\* asyncio.timeout() fires and the removal returns or times out; nothing makes the
\* tests themselves end.
Fairness == WF_vars(StopTests) /\ WF_vars(Remove \/ RemoveFails)

FairSpec == Spec /\ Fairness

\* ------------------------------------------------------------------------
\* Properties.

Content == [tree : 0 .. (MaxTree + 1), base : 0 .. (MaxTree + 1), edits : SUBSET Edit,
            junk : BOOLEAN, moved : BOOLEAN]
Progress == [node : Node, patches : 0 .. MaxPatches, first : 0 .. (MaxTree + 1),
             last : 0 .. (MaxTree + 1)]

\* Types of the graph state, the workspace, the test run and what it leaves behind.
TypeOK == /\ setup \in [git : BOOLEAN, protected : BOOLEAN, docker : BOOLEAN]
          /\ head \in Version /\ tree \in Version
          /\ g \in Progress /\ saved \in Progress
          /\ op \in {"enter", "copied", "named", "patch", "replay", "start", "testing",
                     "removing", "down"}
          /\ ws \in Content /\ tested \in Content
          /\ cli \in BOOLEAN
          /\ box \in {"none", "asked", "created", "running"}
          /\ outcome \in {"none", "ok", "failed", "error"}
          /\ artifact \in [patch : 0 .. MaxPatches, base : 0 .. (MaxTree + 1),
                           builtFor : 0 .. (MaxTree + 1), tested : Content]
          /\ strays \subseteq {"asked", "created", "running"}
          /\ dirs \in 0 .. MaxCrashes
          /\ cut \subseteq {"early", "removal", "crash"}
          /\ crashes \in 0 .. MaxCrashes

Exported == artifact # NoArtifact

\* What a human is asked to approve is what was tested: the whole of the exported
\* patch and nothing else, on a copy the tests did not change, whose tree is that of
\* the base commit, unless the source had none or moved while it was copied.
ArtifactIsTested ==
    Exported => /\ artifact.tested.edits = EditsOf(artifact.patch)
                /\ ~artifact.tested.junk
                /\ artifact.tested.base = artifact.base
                /\ artifact.base = Unversioned \/ artifact.tested.moved
                       \/ artifact.tested.tree = artifact.base

\* A patch is exported for the base it was written for, also when a recovered
\* process had to copy the source again and replay it.
PatchKeepsItsBase == Exported => artifact.base = artifact.builtFor

\* A protected environment exports nothing without a base commit; only a source
\* that is no Git repository at all passes (the status check needs rev-parse).
ProtectedBaseIsCommit ==
    Exported /\ setup.protected => artifact.base # Unversioned \/ ~setup.git

\* A container outlives the call that ran it only if the worker crashed, docker rm
\* did not finish, or rm came before the daemon had created it; only the first two
\* leave one running.  A temporary directory is left only by a crash.
LitterIsExplained ==
    /\ box # "none" => op \in {"testing", "removing"}
    /\ strays # {} => cut # {}
    /\ "running" \in strays => cut \cap {"crash", "removal"} # {}
    /\ dirs <= crashes
    /\ g.node \in {"parked", "over"} => ws = NoWorkspace

\* A test run ends and is cleaned up, even if the tests hang.
TestRunEnds == op = "testing" ~> op \notin {"testing", "removing"}

\* ------------------------------------------------------------------------
\* The inductive invariant.

\* The status check names the base commit only if the copy is of it, and in a
\* protected environment it names one.
Settled(w) == /\ w.base = Unversioned \/ w.moved \/ w.tree = w.base
              /\ setup.protected /\ setup.git => w.base # Unversioned

\* The copy is the source as it is now, unless that moved.
CopyingInv ==
    /\ op \in {"copied", "named"} =>
           /\ g.node \notin {"parked", "over"}
           /\ ws.edits = {} /\ ~ws.junk
           /\ ws.moved \/ ws.tree = tree
    /\ op = "named" => IF setup.git
                       THEN ws.base \in Version /\ (ws.moved \/ ws.base = head)
                       ELSE ws.base = Unversioned

\* The whole latest patch and nothing else, on the base it was written for.
Whole(w) == Settled(w) /\ w.edits = EditsOf(g.patches) /\ w.base = g.last

\* Between two nodes, and after a crash: what the next node may rely on.
EnterInv ==
    /\ op = "enter" => \/ ws = NoWorkspace
                       \/ /\ Settled(ws)
                          /\ g.node = "generate_patch" /\ g.patches = 0 =>
                                 ws.edits = {} /\ ~ws.junk
                          /\ g.node \in {"run_tests", "export"} => Whole(ws) /\ ~ws.junk
                          /\ g.node = "export" => tested = ws
    /\ op = "down" => ws = NoWorkspace
    /\ g.node \in {"parked", "over"} => op = "enter" /\ ws = NoWorkspace

\* Inside a node.
WorkInv ==
    /\ op = "patch" => /\ g.node = "generate_patch"
                       /\ Settled(ws) /\ ~ws.junk
                       /\ ws.edits \subseteq EditsOf(g.patches + 1)
    /\ op \in {"replay", "start", "testing", "removing"} => g.node \in {"run_tests", "export"}
    /\ op = "replay" => /\ Settled(ws) /\ ~ws.junk
                        /\ ws.edits \subseteq EditsOf(g.patches) /\ ws.base = g.last
    /\ op \in {"start", "testing", "removing"} => Whole(ws)
    /\ op = "start" => ~ws.junk
    /\ op = "removing" /\ outcome = "ok" => ~ws.junk

Inv == /\ TypeOK
       /\ CopyingInv /\ EnterInv /\ WorkInv
       /\ ArtifactIsTested /\ PatchKeepsItsBase /\ ProtectedBaseIsCommit /\ LitterIsExplained
=============================================================================
