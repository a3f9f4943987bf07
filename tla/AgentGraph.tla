----------------------------- MODULE AgentGraph -----------------------------
(***************************************************************************)
(* The investigation of one run (agent/graph.py): the LangGraph workflow,  *)
(* its checkpoints, the sandbox and the rows it writes, over the attempts  *)
(* of the run.  An attempt may die at any point; the next one recovers     *)
(* from the checkpoint, or starts afresh if the run was queued again.      *)
(*                                                                         *)
(* workflow_lock keeps the attempts of a run apart, so one executes at a   *)
(* time; LeaseQueue has their claims.  The answers of the model and of the *)
(* tools are choices; evidence is the set of its distinct contents, and    *)
(* the patches of an investigation have numbers for their diffs.           *)
(***************************************************************************)
EXTENDS Integers, Sequences, FiniteSets, ToolCalls

CONSTANTS MaxSteps,         \* max_investigation_steps
          MaxToolCalls,     \* max_tool_calls
          MaxPatches,       \* max_patch_attempts
          MaxAttempts,      \* max_job_attempts
          MaxHead,          \* bound: commits of the reference repository
          Observation,      \* contents of tool results
          Source            \* the tool that returns each of them

ASSUME LimitsAssumption == /\ MaxSteps \in Nat /\ MaxToolCalls \in Nat
                           /\ MaxPatches \in Nat /\ MaxAttempts \in Nat
                           /\ MaxHead \in Nat \ {0}
ASSUME SourceAssumption == DOMAIN Source = Observation

VARIABLES
    row,        \* agent_runs.status
    result,     \* agent_runs.result.patch_artifact_id (0: none)
    attempt,    \* agent_runs.attempt_count
    pc,         \* the node the attempt is about to run, or where it is in one
    s,          \* the graph state, AgentState
    budget,     \* gateway.budget
    sandbox,    \* base commit of the manager in runtime (0: no manager)
    ckpt,       \* the last checkpoint saved
    head,       \* HEAD of the reference repository
    nextTest,   \* source of fresh test_run_ids
    artifacts,  \* patch_artifacts rows
    tests,      \* test_runs rows
    evidence    \* evidence rows

process == <<pc, s, budget, sandbox>>
tables == <<artifacts, tests, evidence>>
vars == <<row, result, attempt, pc, s, budget, sandbox, ckpt, head, nextTest,
          artifacts, tests, evidence>>

\* status; tool_calls with its length and the sum of their attempt_counts;
\* result.investigation_steps; evidence; how many hypotheses are REJECTED;
\* root_cause; patch_attempts; result.test_run_id; result.patch_artifact_id.
\* taken counts the steps of the finished collect nodes (history, not in the code).
Fresh == [status |-> "RUNNING", calls |-> 0, spent |-> 0, steps |-> 0, taken |-> 0,
          evidence |-> {}, rejected |-> 0, cause |-> FALSE,
          patches |-> <<>>, test |-> 0, artifact |-> 0]

NoSandbox == 0
NoBudget == [calls |-> 0, steps |-> 0]
NoCheckpoint == [next |-> "none", s |-> Fresh]

Node == {"plan", "collect", "form", "verify", "create", "generate", "tests",
         "reflect", "export", "wait", "human", "end"}
InNode == {"collecting", "exported"}
Graph == Node \cup InNode
Claimed == {"claimed", "recovering"}
Live == Claimed \cup Graph \cup {"persist", "mark"}
Terminal == {"INSUFFICIENT_EVIDENCE", "NEEDS_HUMAN_INTERVENTION", "FAILED"}

Greater(m, n) == IF m > n THEN m ELSE n
Last(q) == q[Len(q)]
SetLast(q, r) == [q EXCEPT ![Len(q)] = r]
Halt(t, status) == [t EXCEPT !.status = status]

\* Variant: a recovered attempt trusts its own, new budget.
RebuiltNever == budget

\* The gateway of this attempt makes up for what the graph state says was used.
Rebuilt == [calls |-> Greater(budget.calls, s.spent),
            steps |-> Greater(budget.steps, s.steps)]

\* Variant: one step too many.
CanStepOnceMore(b) == b.steps <= MaxSteps

CanStep(b) == b.steps < MaxSteps

\* A node returns t; next is the node its edges lead to.
Return(t, next) == s' = t /\ pc' = next
StopOr(t, next) == IF t.status = "RUNNING" THEN next ELSE "end"

Init == /\ row = "PENDING"
        /\ result = 0
        /\ attempt = 0
        /\ pc = "idle"
        /\ s = Fresh
        /\ budget = NoBudget
        /\ sandbox = NoSandbox
        /\ ckpt = NoCheckpoint
        /\ head = 1
        /\ nextTest = 1
        /\ artifacts = {} /\ tests = {} /\ evidence = {}

\* ------------------------------------------------------------------------
\* The attempts.

\* A claim, as LeaseQueue describes it.  It recovers if the run was RUNNING.
Claim == /\ pc = "idle"
         /\ row \in {"PENDING", "RUNNING"}
         /\ attempt < MaxAttempts
         /\ attempt' = attempt + 1
         /\ row' = "RUNNING"
         /\ pc' = IF row = "RUNNING" THEN "recovering" ELSE "claimed"
         /\ UNCHANGED <<result, s, budget, sandbox, ckpt, head, nextTest, tables>>

\* The graph starts; a recovery continues from the checkpoint, if there is one.
Start == /\ pc \in Claimed
         /\ IF pc = "recovering" /\ ckpt # NoCheckpoint
            THEN s' = ckpt.s /\ pc' = ckpt.next
            ELSE s' = Fresh /\ pc' = "plan"
         /\ UNCHANGED <<row, result, attempt, budget, sandbox, ckpt, head, nextTest, tables>>

\* What a process has in memory goes with it.
Gone == pc' = "idle" /\ s' = Fresh /\ budget' = NoBudget /\ sandbox' = NoSandbox

\* The worker dies or loses its lease, which later expires.
Crash == /\ pc \in Live
         /\ Gone
         /\ UNCHANGED <<row, result, attempt, ckpt, head, nextTest, tables>>

\* retry_claim, after an error before the graph starts or after it has returned, or an
\* error of the heartbeat that cancels the graph in whatever node it is.
Requeue == /\ pc \in Live
           /\ Gone
           /\ row' = IF attempt >= MaxAttempts THEN "NEEDS_HUMAN_INTERVENTION" ELSE "PENDING"
           /\ UNCHANGED <<result, attempt, ckpt, head, nextTest, tables>>

Expire == /\ pc = "idle" /\ row = "RUNNING"
          /\ attempt >= MaxAttempts
          /\ row' = "NEEDS_HUMAN_INTERVENTION"
          /\ UNCHANGED <<result, attempt, process, ckpt, head, nextTest, tables>>

\* The checkpointer saves in the background, while the next node runs.
Save == /\ pc \in Node
        /\ ckpt' = [next |-> pc, s |-> s]
        /\ UNCHANGED <<row, result, attempt, process, head, nextTest, tables>>

MoveHead == /\ head < MaxHead
            /\ head' = head + 1
            /\ UNCHANGED <<row, result, attempt, process, ckpt, nextTest, tables>>

\* Any exception in the graph but a lost lease: the state the attempt began with
\* takes the place of the graph's.
GraphFails == /\ pc \in Graph
              /\ s' = Halt(Fresh, "FAILED")
              /\ pc' = "persist"
              /\ UNCHANGED <<row, result, attempt, budget, sandbox, ckpt, head, nextTest, tables>>

\* run_timeout_seconds.
TimeOut == /\ pc \in Live
           /\ row' = "NEEDS_HUMAN_INTERVENTION"
           /\ Gone
           /\ UNCHANGED <<result, attempt, ckpt, head, nextTest, tables>>

\* ------------------------------------------------------------------------
\* Investigation nodes.

Plan == /\ pc = "plan"
        /\ Return(s, "collect")
        /\ budget' = Rebuilt
        /\ UNCHANGED <<row, result, attempt, sandbox, ckpt, head, nextTest, tables>>

CollectBegins == /\ pc = "collect"
                 /\ pc' = "collecting"
                 /\ budget' = Rebuilt
                 /\ UNCHANGED <<row, result, attempt, s, sandbox, ckpt, head, nextTest, tables>>

\* What collect_evidence does after its loop.
Collected(t, b) ==
    LET u == [t EXCEPT !.steps = b.steps,
                       !.status = IF ~CanStep(b) /\ @ = "RUNNING"
                                  THEN "NEEDS_HUMAN_INTERVENTION" ELSE @]
        v == IF u.evidence = {}
             THEN [u EXCEPT !.status = "INSUFFICIENT_EVIDENCE", !.steps = 0]
             ELSE u
    IN Return(v, StopOr(v, "form"))

\* One iteration: the model stops, asks for a human, names a tool that is not
\* registered, or has a tool called.
CollectStep ==
    /\ pc = "collecting"
    /\ CanStep(budget)
    /\ LET b == [budget EXCEPT !.steps = @ + 1]
           t == [s EXCEPT !.taken = @ + 1]
       IN \/ /\ \/ Collected(t, b)
                \/ \E stop \in {"INSUFFICIENT_EVIDENCE", "NEEDS_HUMAN_INTERVENTION"} :
                       Collected(Halt(t, stop), b)
                \/ Collected(Halt([t EXCEPT !.calls = @ + 1], "NEEDS_HUMAN_INTERVENTION"), b)
             /\ budget' = b
          \/ \E r \in Results(MaxToolCalls - budget.calls), o \in Observation :
                LET c == [b EXCEPT !.calls = @ + r.tries]
                    u == [t EXCEPT !.calls = @ + 1,
                                   !.spent = @ + r.tries,
                                   !.evidence = IF r.ok THEN @ \cup {o} ELSE @]
                IN /\ budget' = c
                   /\ IF u.calls >= MaxToolCalls
                      THEN Collected(Halt(u, "NEEDS_HUMAN_INTERVENTION"), c)
                      ELSE s' = u /\ pc' = "collecting"
    /\ UNCHANGED <<row, result, attempt, sandbox, ckpt, head, nextTest, tables>>

CollectExhausted == /\ pc = "collecting"
                    /\ ~CanStep(budget)
                    /\ Collected(s, budget)
                    /\ UNCHANGED <<row, result, attempt, budget, sandbox, ckpt, head, nextTest, tables>>

\* Two contents at least, and a proposal that cites known evidence only.
FormHypothesis ==
    /\ pc = "form"
    /\ budget' = Rebuilt
    /\ \/ Return([Halt(s, "INSUFFICIENT_EVIDENCE") EXCEPT !.steps = 0], "end")
       \/ /\ Cardinality(s.evidence) >= 2
          /\ Return(s, "verify")
    /\ UNCHANGED <<row, result, attempt, sandbox, ckpt, head, nextTest, tables>>

\* Variant: any successful observation verifies.
SucceededOnly(r, o) == r.ok

Independent(r, o) == r.ok /\ o \notin s.evidence

\* The verification needs a new content; a conclusion must cite it and two sources.
VerifyHypothesis ==
    /\ pc = "verify"
    /\ LET b == Rebuilt IN
       \E r \in Results(MaxToolCalls - b.calls), o \in Observation :
          LET c == [b EXCEPT !.calls = @ + r.tries]
              t == [s EXCEPT !.calls = @ + 1, !.spent = @ + r.tries]
              u == [t EXCEPT !.evidence = @ \cup {o}]
              rejected == [u EXCEPT !.rejected = @ + 1, !.steps = 0]
          IN /\ budget' = c
             /\ \/ /\ ~Independent(r, o)
                   /\ Return(Halt(t, "INSUFFICIENT_EVIDENCE"), "end")
                \/ /\ Independent(r, o)
                   /\ \/ IF rejected.rejected >= 3 \/ ~CanStep(c)
                         THEN Return(Halt(rejected, "INSUFFICIENT_EVIDENCE"), "end")
                         ELSE Return(rejected, "collect")
                      \/ Return(Halt(u, "INSUFFICIENT_EVIDENCE"), "end")
                      \/ /\ \E e \in u.evidence : Source[e] # Source[o]
                         /\ Return([u EXCEPT !.cause = TRUE], "create")
    /\ UNCHANGED <<row, result, attempt, sandbox, ckpt, head, nextTest, tables>>

\* ------------------------------------------------------------------------
\* Patch nodes.

CreateSandbox ==
    /\ pc = "create"
    /\ budget' = Rebuilt
    /\ \/ sandbox' = head /\ Return(s, "generate")
       \/ sandbox' = NoSandbox /\ Return(Halt(s, "FAILED"), "end")
    /\ UNCHANGED <<row, result, attempt, ckpt, head, nextTest, tables>>

\* The workspace of this process, or a new one from what the repository is now.
Workspace == IF sandbox # NoSandbox THEN sandbox ELSE head

\* A first patch uses the workspace there is; every other one gets a new workspace,
\* which must have the base of the first (else the graph fails).
GeneratePatch ==
    /\ pc = "generate"
    /\ budget' = Rebuilt
    /\ \/ LET w == IF s.patches = <<>> THEN Workspace ELSE head
              t == [s EXCEPT !.patches = Append(@, [diff |-> Len(@) + 1, base |-> w,
                                                    test |-> 0, ok |-> FALSE])]
          IN /\ s.patches # <<>> => s.patches[1].base = w
             /\ sandbox' = w
             /\ IF Len(t.patches) > MaxPatches
                THEN Return(Halt(t, "NEEDS_HUMAN_INTERVENTION"), "human")
                ELSE \/ Return(t, "tests")
                     \/ Return(Halt(t, "FAILED"), "human")
       \/ /\ s.patches # <<>> \/ sandbox = NoSandbox
          /\ sandbox' = NoSandbox
          /\ Return(Halt(s, "FAILED"), "human")
    /\ UNCHANGED <<row, result, attempt, ckpt, head, nextTest, tables>>

\* The tests run under a fresh id.  A lost workspace is built again and the last patch
\* replayed on it, if the base is still the same (else the graph fails).
Tested(ok) == [s EXCEPT !.test = nextTest,
                        !.patches = SetLast(@, [Last(@) EXCEPT !.test = nextTest,
                                                               !.ok = ok,
                                                               !.base = Workspace])]

\* Variant: one reflection too many.
AfterTestsOnceMore(ok) == IF ok THEN "export"
                          ELSE IF Len(s.patches) <= MaxPatches THEN "reflect" ELSE "human"

AfterTests(ok) == IF ok THEN "export"
                  ELSE IF Len(s.patches) < MaxPatches THEN "reflect" ELSE "human"

RunTests ==
    /\ pc = "tests"
    /\ budget' = Rebuilt
    /\ \/ \E ok \in BOOLEAN :
             /\ Workspace = Last(s.patches).base
             /\ sandbox' = Workspace
             /\ nextTest' = nextTest + 1
             /\ Return(Tested(ok), AfterTests(ok))
       \/ /\ Return(Halt(s, "FAILED"), "end")
          /\ UNCHANGED <<sandbox, nextTest>>
    /\ UNCHANGED <<row, result, attempt, ckpt, head, tables>>

Reflect == /\ pc = "reflect"
           /\ Return(s, "generate")
           /\ budget' = Rebuilt
           /\ UNCHANGED <<row, result, attempt, sandbox, ckpt, head, nextTest, tables>>

\* The artifact of state t; it is inserted unless there is a row with its patch and test.
Artifact(t, base) == [diff |-> Last(t.patches).diff, test |-> t.test, base |-> base]

\* Variant: a lost workspace is not tested again.
ExportUntested ==
    /\ pc = "export"
    /\ budget' = Rebuilt
    /\ sandbox' = Workspace
    /\ artifacts' = artifacts \cup {Artifact(s, Workspace)}
    /\ Return(s, "exported")
    /\ UNCHANGED <<row, result, attempt, ckpt, head, nextTest, tests, evidence>>

\* A lost workspace means that the node is replayed: the tests run again first.
Export ==
    /\ pc = "export"
    /\ budget' = Rebuilt
    /\ \/ /\ sandbox # NoSandbox
          /\ artifacts' = artifacts \cup {Artifact(s, sandbox)}
          /\ Return(s, "exported")
          /\ UNCHANGED <<sandbox, nextTest>>
       \/ /\ sandbox = NoSandbox
          /\ Workspace = Last(s.patches).base
          /\ sandbox' = Workspace
          /\ nextTest' = nextTest + 1
          /\ \/ /\ artifacts' = artifacts \cup {Artifact(Tested(TRUE), Workspace)}
                /\ Return(Tested(TRUE), "exported")
             \/ /\ UNCHANGED artifacts
                /\ Return(Halt(Tested(FALSE), "FAILED"), "wait")
       \/ /\ sandbox = NoSandbox
          /\ Return(Halt(s, "FAILED"), "wait")
          /\ UNCHANGED <<sandbox, nextTest, artifacts>>
    /\ UNCHANGED <<row, result, attempt, ckpt, head, tests, evidence>>

ExportReturns == /\ pc = "exported"
                 /\ Return([Halt(s, "WAITING_APPROVAL") EXCEPT !.artifact = s.test], "wait")
                 /\ UNCHANGED <<row, result, attempt, budget, sandbox, ckpt, head, nextTest, tables>>

NeedsHuman == /\ pc = "human"
              /\ Return(IF s.status = "RUNNING" THEN Halt(s, "NEEDS_HUMAN_INTERVENTION") ELSE s,
                        "end")
              /\ UNCHANGED <<row, result, attempt, budget, sandbox, ckpt, head, nextTest, tables>>

\* ------------------------------------------------------------------------
\* The end of run_agent_workflow.

\* interrupt(), or the last node is done: the graph returns when all is saved.
GraphReturns == /\ pc \in {"wait", "end"}
                /\ ckpt' = [next |-> pc, s |-> s]
                /\ pc' = "persist"
                /\ UNCHANGED <<row, result, attempt, s, budget, sandbox, head, nextTest, tables>>

\* Rows that are there already are left alone.
Persist == /\ pc = "persist"
           /\ evidence' = evidence \cup s.evidence
           /\ tests' = tests \cup {s.patches[i] : i \in {j \in DOMAIN s.patches : s.patches[j].test # 0}}
           /\ pc' = "mark"
           /\ UNCHANGED <<row, result, attempt, s, budget, sandbox, ckpt, head, nextTest, artifacts>>

MarkStatus == /\ pc = "mark"
              /\ row' = s.status
              /\ result' = s.artifact
              /\ Gone
              /\ UNCHANGED <<attempt, ckpt, head, nextTest, tables>>

\* ------------------------------------------------------------------------

Progress == \/ Claim \/ Start \/ Expire
            \/ Plan \/ CollectBegins \/ CollectStep \/ CollectExhausted
            \/ FormHypothesis \/ VerifyHypothesis
            \/ CreateSandbox \/ GeneratePatch \/ RunTests \/ Reflect
            \/ Export \/ ExportReturns \/ NeedsHuman
            \/ GraphReturns \/ Persist \/ MarkStatus

Next == \/ Progress
        \/ Crash \/ Requeue \/ Save \/ MoveHead \/ GraphFails \/ TimeOut

Spec == Init /\ [][Next]_vars

\* ------------------------------------------------------------------------
\* Properties.

Patch == [diff : Nat, base : 1 .. MaxHead, test : Nat, ok : BOOLEAN]
State == [status : {"RUNNING", "WAITING_APPROVAL"} \cup Terminal,
          calls : Nat, spent : Nat, steps : 0 .. MaxSteps, taken : Nat,
          evidence : SUBSET Observation, rejected : 0 .. 3, cause : BOOLEAN,
          patches : Seq(Patch), test : Nat, artifact : Nat]
Budget == [calls : 0 .. MaxToolCalls, steps : 0 .. MaxSteps]
ArtifactRow == [diff : Nat, test : Nat, base : 1 .. MaxHead]

TypeOK == /\ row \in {"PENDING", "RUNNING", "WAITING_APPROVAL"} \cup Terminal
          /\ result \in Nat
          /\ attempt \in 0 .. MaxAttempts
          /\ pc \in Live \cup {"idle"}
          /\ s \in State
          /\ budget \in Budget
          /\ sandbox \in 0 .. MaxHead
          /\ ckpt \in [next : Node \cup {"none"}, s : State]
          /\ head \in 1 .. MaxHead
          /\ nextTest \in Nat \ {0}
          /\ artifacts \subseteq ArtifactRow
          /\ tests \subseteq Patch
          /\ evidence \subseteq Observation

\* Retries included, the tools are called MaxToolCalls times at most on the way to any
\* graph state, over all recoveries: "checkpoint recovery rebuilds the call budget".
ToolBudgetHolds == s.spent <= MaxToolCalls

\* The artifact that a parked run names can be approved: validated_artifact finds its
\* row and a passed test of the same patch on the same base, after any replay.
ParkedIsApprovable ==
    row = "WAITING_APPROVAL" =>
        \E a \in artifacts, t \in tests :
            /\ a.test = result /\ t.test = result
            /\ t.ok /\ t.diff = a.diff /\ t.base = a.base

\* A patch is only made for a verified root cause, which rests on three different
\* contents from two tools.
PatchNeedsEvidence ==
    s.patches # <<>> => /\ s.cause
                        /\ Cardinality(s.evidence) >= 3
                        /\ \E e, f \in s.evidence : Source[e] # Source[f]

\* All patches of a graph state have one base and there are MaxPatches of them at most, or
\* one if that is 0: the exit of generate_patch for more is never taken otherwise.
PatchesBounded == /\ Len(s.patches) <= Greater(MaxPatches, 1)
                  /\ \A i, j \in DOMAIN s.patches : s.patches[i].base = s.patches[j].base

\* "Checkpoint recovery rebuilds the number of investigation steps" (same report): the
\* finished collect nodes on the way to any graph state took MaxSteps steps at most.
StepBudgetHolds == s.taken <= MaxSteps

\* A run is not finished without the evidence that had been collected for it
\* (graph.py, comment on the order of the last two transactions).
FinishedRunKeepsEvidence ==
    [][pc = "mark" /\ row' \in Terminal => ckpt.s.evidence \subseteq evidence]_vars

\* ------------------------------------------------------------------------
\* The inductive invariant: what holds of any graph state, what a node may rely on when
\* the graph or the checkpoint is at it, and what the process knows besides.

\* A verified root cause.
Founded(t) == /\ t.cause
              /\ Cardinality(t.evidence) >= 3
              /\ \E e, f \in t.evidence : Source[e] # Source[f]

\* What parked the state t can be found in the rows "arts" when it is approved.
Parked(t, arts) ==
    /\ t.patches # <<>>
    /\ t.artifact # 0
    /\ Last(t.patches).ok /\ Last(t.patches).test = t.artifact
    /\ [diff |-> Last(t.patches).diff, test |-> t.artifact, base |-> Last(t.patches).base] \in arts

StateInv(t, arts) ==
    /\ t.spent <= MaxToolCalls
    /\ IsFiniteSet(t.evidence)
    /\ t.patches # <<>> => Founded(t)
    /\ Len(t.patches) <= Greater(MaxPatches, 1)
    /\ \A i, j \in DOMAIN t.patches : t.patches[i].base = t.patches[j].base
    /\ t.status = "WAITING_APPROVAL" => Parked(t, arts)

Unpatched == {"plan", "collect", "collecting", "form", "verify", "create"}
Patching == {"generate", "tests", "reflect", "export", "exported"}

At(p, t) ==
    /\ p \in Unpatched \cup Patching \cup {"human"} => t.status # "WAITING_APPROVAL"
    /\ p \in Unpatched => t.patches = <<>> /\ t.rejected <= 2
    /\ p = "verify" => Cardinality(t.evidence) >= 2
    /\ p \in Patching \cup {"create"} => Founded(t)
    /\ p \in {"generate", "reflect"} => Len(t.patches) < Greater(MaxPatches, 1)
    /\ p \in Patching \ {"generate"} => t.patches # <<>>
    /\ p \in {"export", "exported"} => /\ t.test # 0
                                       /\ Last(t.patches).ok /\ Last(t.patches).test = t.test
    /\ p \in {"wait", "end", "persist", "mark"} => t.status # "RUNNING"

ProcessInv ==
    /\ pc # "idle" => row = "RUNNING"
    /\ pc \in Claimed \cup {"idle"} => sandbox = NoSandbox /\ budget = NoBudget
    /\ pc = "collecting" => s.spent <= budget.calls
    /\ pc \in Patching \ {"generate"} /\ sandbox # NoSandbox => sandbox = Last(s.patches).base
    /\ pc = "exported" => Artifact(s, Last(s.patches).base) \in artifacts
    /\ pc = "mark" /\ s.status = "WAITING_APPROVAL" => Last(s.patches) \in tests

Inv == /\ TypeOK /\ ProcessInv /\ ParkedIsApprovable
       /\ StateInv(s, artifacts) /\ At(pc, s)
       /\ StateInv(ckpt.s, artifacts) /\ At(ckpt.next, ckpt.s)
       /\ ckpt.next = "none" => ckpt = NoCheckpoint

\* ------------------------------------------------------------------------
\* The row, and the end of the graph.

\* The row moves along the life cycle of a run that nobody has decided.
Lifecycle == INSTANCE RunLifecycle WITH
    Run <- {"run"}, Embedded <- FALSE,
    status <- [r \in {"run"} |-> row], decision <- [r \in {"run"} |-> "NONE"]
RowFollowsLifecycle == [][Lifecycle!Next]_(Lifecycle!vars)

\* How many nodes the graph can still run in this invocation: a hypothesis is tried
\* three times at most, each patch that is left costs a reflection, a patch and its tests.
NodesAt(p, t) ==
    LET hypotheses == 3 - t.rejected
        patches == Greater(MaxPatches, 1) - Len(t.patches)
        repair == 3 * Greater(MaxPatches, 1) + 2
    IN CASE p = "plan" -> 3 * hypotheses + repair + 1
         [] p \in {"collect", "collecting"} -> 3 * hypotheses + repair
         [] p = "form" -> 3 * hypotheses + repair - 1
         [] p = "verify" -> 3 * hypotheses + repair - 2
         [] p = "create" -> 3 * patches + 2
         [] p = "generate" -> 3 * patches + 1
         [] p = "tests" -> 3 * patches + 3
         [] p = "reflect" -> 3 * patches + 2
         [] p \in {"export", "exported"} -> 2
         [] p \in {"wait", "human"} -> 1
         [] OTHER -> 0

NodeLimit == 3 * Greater(MaxPatches, 1) + 12

\* However an invocation begins, it has NodeLimit nodes to run at most, which has to
\* stay below recursion_limit.
NodesBounded == pc \in Graph => NodesAt(pc, s) \in 0 .. NodeLimit

\* A step stays where it is while the checkpointer or somebody else moves, it takes another
\* step of the budget in the loop of collect_evidence or is in the middle of an export, or
\* it leaves fewer nodes to run.
Advance ==
    \/ UNCHANGED <<pc, s>>
    \/ /\ NodesAt(pc', s') = NodesAt(pc, s)
       /\ \/ pc = "collect" /\ pc' = "collecting"
          \/ pc = "collecting" /\ pc' = "collecting" /\ budget'.steps = budget.steps + 1
          \/ pc = "export" /\ pc' = "exported"
    \/ NodesAt(pc', s') < NodesAt(pc, s)

\* The graph never goes back, whatever the model and the tools answer.
GraphAdvances == [][{pc, pc'} \subseteq Graph => Advance]_vars
=============================================================================
