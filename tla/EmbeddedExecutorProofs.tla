----------------------- MODULE EmbeddedExecutorProofs -----------------------
(***************************************************************************)
(* Proofs about EmbeddedExecutor.  The inductive invariant is a conjunction *)
(* over runs, and every action but a crash and a start touches one run, so  *)
(* the proof that a step keeps it has one lemma per action, which proves    *)
(* RunInv' of that run part by part (OneRunChanges does the others).        *)
(***************************************************************************)
EXTENDS EmbeddedExecutor, TLAPS

\* Nothing of a run changes, except that somebody may give it up.
SameRun(q) ==
    /\ status'[q] = status[q] /\ decision'[q] = decision[q] /\ effect'[q] = effect[q]
    /\ request'[q] = request[q] /\ entry'[q] = entry[q]
    /\ phase'[q] = phase[q] /\ seen'[q] = seen[q]
    /\ q \in stranded => q \in stranded'

\* A step that leaves all other runs alone and keeps the process up has to be
\* examined for its own run only.
LEMMA OneRunChanges ==
    ASSUME Inv, TypeOK', up' = up, NEW r \in Run, RunInv(r)',
           \A q \in Run \ {r} : SameRun(q)
    PROVE  Inv'
<1>1. SUFFICES ASSUME NEW q \in Run \ {r} PROVE RunInv(q)'
  BY DEF Inv
<1>2. RunInv(q) /\ SameRun(q)
  BY DEF Inv
<1>3. QED
  BY <1>2 DEF RunInv, SameRun, DownIsEmpty, HaltsAreLegal, DecisionAgrees, DeliveryAgrees,
     ServedRun, DecisionRespectedBy, TableSound, Idle, Served, NeededTask, HaltTarget

\* A task that ends keeps the types of what it touches.
LEMMA FinishType ==
    ASSUME TypeOK, NEW r \in Run, NEW t \in Task, Finish(r, t)
    PROVE  /\ phase' \in [Run -> [Task -> Phase]]
           /\ seen' \in [Run -> [Task -> RowStatus \cup {Unread}]]
           /\ entry' \in [Run -> Task \cup {NoTask}]
  BY DEF TypeOK, Finish, SetPhase, Phase

\* So does one that gives its run up.
LEMMA FinishGivesUpType ==
    ASSUME TypeOK, NEW r \in Run, NEW t \in Task, Finish(r, t), GiveUp(r, t),
           UNCHANGED <<dbVars, processVars, request>>
    PROVE  TypeOK'
<1>1. stranded' \subseteq Run
  BY DEF GiveUp, TypeOK
<1>2. QED
  BY <1>1, FinishType DEF TypeOK, dbVars, processVars

\* The new row has nobody but its request.
LEMMA AdmitInv == ASSUME Inv, NEW r \in Run, Admit(r)
                PROVE  Inv'
<1> USE DEF Admit, SetStatus, dbVars, processVars, taskVars
<1>1. TypeOK'
  BY DEF Inv, TypeOK, Status, RowStatus
<1>2. \A q \in Run \ {r} : SameRun(q)
  BY DEF SameRun
<1>3. RunInv(r)'
  <2> USE DEF Inv, TypeOK, Task, Phase, Live, Working, Halting, Status, RowStatus, Terminal,
     Decision, Unread, NoTask, Active
  <2> RunInv(r)
    OBVIOUS
  <2>1. DownIsEmpty(r)' /\ TableSound(r)'
    BY DEF RunInv, DownIsEmpty, TableSound
  <2>2. HaltsAreLegal(r)'
    BY DEF RunInv, HaltsAreLegal, HaltTarget
  <2>3. DecisionAgrees(r)'
    BY DEF RunInv, DecisionAgrees, Idle
  <2>4. DeliveryAgrees(r)' /\ DecisionRespectedBy(r)'
    BY DEF RunInv, DeliveryAgrees, DecisionRespectedBy
  <2>5. ServedRun(r)'
    BY DEF ServedRun, Served
  <2>6. QED
    BY <2>1, <2>2, <2>3, <2>4, <2>5 DEF RunInv
<1>4. QED
  BY <1>1, <1>2, <1>3, OneRunChanges

\* The request hands the run over to the task its decision calls for.
LEMMA SubmitInv == ASSUME Inv, NEW r \in Run, Submit(r)
                PROVE  Inv'
<1> USE DEF Submit, Create, SetPhase, dbVars, processVars, taskVars
<1>1. TypeOK'
  BY DEF Inv, TypeOK, Task, Phase, Live
<1>2. \A q \in Run \ {r} : SameRun(q)
  BY DEF SameRun
<1>3. RunInv(r)'
  <2> USE DEF Inv, TypeOK, Task, Phase, Live, Working, Halting, Status, RowStatus, Terminal,
     Decision, Unread, NoTask, Active
  <2> RunInv(r)
    OBVIOUS
  <2>1. DownIsEmpty(r)' /\ TableSound(r)'
    BY DEF RunInv, DownIsEmpty, TableSound, DecisionAgrees, DecisionRespectedBy
  <2>2. HaltsAreLegal(r)'
    BY DEF RunInv, HaltsAreLegal, DecisionAgrees, HaltTarget, Idle
  <2>3. DecisionAgrees(r)'
    BY DEF RunInv, DecisionAgrees
  <2>4. DeliveryAgrees(r)' /\ DecisionRespectedBy(r)'
    BY DEF RunInv, DeliveryAgrees, DecisionAgrees, DecisionRespectedBy
  <2>5. ServedRun(r)'
    BY DEF RunInv, ServedRun, Served, NeededTask, DecisionAgrees
  <2>6. QED
    BY <2>1, <2>2, <2>3, <2>4, <2>5 DEF RunInv
<1>4. QED
  BY <1>1, <1>2, <1>3, OneRunChanges

\* A request that dies strands its run.
LEMMA RequestDiesInv == ASSUME Inv, NEW r \in Run, RequestDies(r)
                PROVE  Inv'
<1> USE DEF RequestDies, dbVars, processVars, taskVars
<1>1. TypeOK'
  BY DEF Inv, TypeOK
<1>2. \A q \in Run \ {r} : SameRun(q)
  BY DEF SameRun
<1>3. RunInv(r)'
  <2> USE DEF Inv, TypeOK, Task, Phase, Live, Working, Halting, Status, RowStatus, Terminal,
     Decision, Unread, NoTask, Active
  <2> RunInv(r)
    OBVIOUS
  <2>1. DownIsEmpty(r)' /\ TableSound(r)'
    BY DEF RunInv, DownIsEmpty, TableSound
  <2>2. HaltsAreLegal(r)'
    BY DEF RunInv, HaltsAreLegal, HaltTarget
  <2>3. DecisionAgrees(r)'
    BY DEF RunInv, DecisionAgrees
  <2>4. DeliveryAgrees(r)' /\ DecisionRespectedBy(r)'
    BY DEF RunInv, DeliveryAgrees, DecisionRespectedBy
  <2>5. ServedRun(r)'
    BY DEF ServedRun
  <2>6. QED
    BY <2>1, <2>2, <2>3, <2>4, <2>5 DEF RunInv
<1>4. QED
  BY <1>1, <1>2, <1>3, OneRunChanges

\* A parked run has no task that still investigates, so the decision binds every later one.
LEMMA DecideInv == ASSUME Inv, NEW r \in Run, NEW d \in {"APPROVE", "REJECT"}, Decide(r, d)
                PROVE  Inv'
<1> USE DEF Decide, SetStatus, dbVars, processVars, taskVars
<1>1. TypeOK'
  BY DEF Inv, TypeOK, Status, RowStatus, Terminal, Decision
<1>2. \A q \in Run \ {r} : SameRun(q)
  BY DEF SameRun
<1>3. RunInv(r)'
  <2> USE DEF Inv, TypeOK, Task, Phase, Live, Working, Halting, Status, RowStatus, Terminal,
     Decision, Unread, NoTask, Active
  <2> RunInv(r)
    OBVIOUS
  <2>1. DownIsEmpty(r)' /\ TableSound(r)'
    BY DEF RunInv, DownIsEmpty, TableSound
  <2>2. HaltsAreLegal(r)'
    BY DEF RunInv, HaltsAreLegal, HaltTarget
  <2>3. DecisionAgrees(r)'
    BY DEF RunInv, DecisionAgrees, DecisionRespectedBy
  <2>4. DeliveryAgrees(r)' /\ DecisionRespectedBy(r)'
    BY DEF RunInv, DeliveryAgrees, DecisionAgrees, DecisionRespectedBy
  <2>5. ServedRun(r)'
    BY DEF ServedRun, Served
  <2>6. QED
    BY <2>1, <2>2, <2>3, <2>4, <2>5 DEF RunInv
<1>4. QED
  BY <1>1, <1>2, <1>3, OneRunChanges

\* A task starts to work on an active run.
LEMMA MarkRunningInv == ASSUME Inv, NEW r \in Run, NEW t \in Task, MarkRunning(r, t)
                PROVE  Inv'
<1> USE DEF MarkRunning, SetStatus, SetPhase, dbVars, processVars, taskVars
<1>1. TypeOK'
  BY DEF Inv, TypeOK, Phase, Live, Working, Status, RowStatus
<1>2. \A q \in Run \ {r} : SameRun(q)
  BY DEF SameRun
<1>3. RunInv(r)'
  <2> USE DEF Inv, TypeOK, Task, Phase, Live, Working, Halting, Status, RowStatus, Terminal,
     Decision, Unread, NoTask, Active
  <2> RunInv(r)
    OBVIOUS
  <2>1. DownIsEmpty(r)' /\ TableSound(r)'
    BY DEF RunInv, DownIsEmpty, TableSound, Early, Idle
  <2>2. HaltsAreLegal(r)'
    BY DEF RunInv, HaltsAreLegal, HaltTarget
  <2>3. DecisionAgrees(r)'
    BY DEF RunInv, DecisionAgrees, Idle
  <2>4. DeliveryAgrees(r)' /\ DecisionRespectedBy(r)'
    BY DEF RunInv, DeliveryAgrees, DecisionRespectedBy, Early
  <2>5. ServedRun(r)'
    BY DEF RunInv, ServedRun, Served, NeededTask
  <2>6. QED
    BY <2>1, <2>2, <2>3, <2>4, <2>5 DEF RunInv
<1>4. QED
  BY <1>1, <1>2, <1>3, OneRunChanges

\* A task that fails is still the task of the run.
LEMMA FailInv == ASSUME Inv, NEW r \in Run, NEW t \in Task, Fail(r, t)
                PROVE  Inv'
<1> USE DEF Fail, SetPhase, dbVars, processVars, taskVars
<1>1. TypeOK'
  BY DEF Inv, TypeOK, Phase, Live, Halting
<1>2. \A q \in Run \ {r} : SameRun(q)
  BY DEF SameRun
<1>3. RunInv(r)'
  <2> USE DEF Inv, TypeOK, Task, Phase, Live, Working, Halting, Status, RowStatus, Terminal,
     Decision, Unread, NoTask, Active
  <2> RunInv(r)
    OBVIOUS
  <2>1. DownIsEmpty(r)' /\ TableSound(r)'
    BY DEF RunInv, DownIsEmpty, TableSound, Early, Idle
  <2>2. HaltsAreLegal(r)'
    BY DEF RunInv, HaltsAreLegal, HaltTarget
  <2>3. DecisionAgrees(r)'
    BY DEF RunInv, DecisionAgrees, Idle, Early
  <2>4. DeliveryAgrees(r)' /\ DecisionRespectedBy(r)'
    BY DEF RunInv, DeliveryAgrees, DecisionRespectedBy, Early
  <2>5. ServedRun(r)'
    BY DEF RunInv, ServedRun, Served, NeededTask
  <2>6. QED
    BY <2>1, <2>2, <2>3, <2>4, <2>5 DEF RunInv
<1>4. QED
  BY <1>1, <1>2, <1>3, OneRunChanges

\* So is one that timed out.
LEMMA TimeOutInv == ASSUME Inv, NEW r \in Run, NEW t \in Task, TimeOut(r, t)
                PROVE  Inv'
<1> USE DEF TimeOut, SetPhase, dbVars, processVars, taskVars
<1>0. seen[r][t] = Unread /\ phase' = [phase EXCEPT ![r][t] = "timedOut"] /\ seen' = seen
  BY DEF Inv, RunInv, HaltsAreLegal, Halting, Working
<1>1. TypeOK'
  BY DEF Inv, TypeOK, Phase, Live, Halting
<1>2. \A q \in Run \ {r} : SameRun(q)
  BY DEF SameRun
<1>3. RunInv(r)'
  <2> USE DEF Inv, TypeOK, Task, Phase, Live, Working, Halting, Status, RowStatus, Terminal,
     Decision, Unread, NoTask, Active
  <2> RunInv(r)
    OBVIOUS
  <2>1. DownIsEmpty(r)' /\ TableSound(r)'
    BY <1>0 DEF RunInv, DownIsEmpty, TableSound, Early, Idle
  <2>2. HaltsAreLegal(r)'
    BY <1>0 DEF RunInv, HaltsAreLegal, HaltTarget
  <2>3. DecisionAgrees(r)'
    BY <1>0 DEF RunInv, DecisionAgrees, DecisionRespectedBy, Idle, Early
  <2>4. DeliveryAgrees(r)' /\ DecisionRespectedBy(r)'
    BY <1>0 DEF RunInv, DeliveryAgrees, DecisionRespectedBy, Early
  <2>5. ServedRun(r)'
    BY <1>0 DEF RunInv, ServedRun, Served, NeededTask
  <2>6. QED
    BY <2>1, <2>2, <2>3, <2>4, <2>5 DEF RunInv
<1>4. QED
  BY <1>1, <1>2, <1>3, OneRunChanges

\* What a halt reads is only remembered if the table lets it write.
LEMMA HaltReadInv == ASSUME Inv, NEW r \in Run, NEW t \in Task, HaltRead(r, t)
                PROVE  Inv'
<1> USE DEF HaltRead, Finish, SetPhase, GiveUp, dbVars, processVars, taskVars
<1>1. TypeOK'
  <2>1. CASE <<status[r], HaltTarget(r, t)>> \in RunTransitions
    <3>1. status[r] \in RowStatus
      BY <2>1 DEF RunTransitions, RowStatus
    <3>2. seen' = [seen EXCEPT ![r][t] = status[r]] /\ UNCHANGED <<phase, entry, stranded>>
      BY <2>1
    <3>3. seen' \in [Run -> [Task -> RowStatus \cup {Unread}]]
      BY <3>1, <3>2 DEF Inv, TypeOK
    <3>4. QED
      BY <3>2, <3>3 DEF Inv, TypeOK
  <2>2. CASE <<status[r], HaltTarget(r, t)>> \notin RunTransitions
    BY <2>2, FinishGivesUpType DEF Inv
  <2>3. QED
    BY <2>1, <2>2
<1>2. \A q \in Run \ {r} : SameRun(q)
  BY DEF SameRun, Inv, TypeOK
<1>3. RunInv(r)'
  <2> USE DEF Inv, TypeOK, Task, Phase, Live, Working, Halting, Status, RowStatus, Terminal,
     Decision, Unread, NoTask, Active
  <2> RunInv(r)
    OBVIOUS
  <2>1. DownIsEmpty(r)' /\ TableSound(r)'
    BY DEF RunInv, DownIsEmpty, TableSound, DecisionRespectedBy, Early, Idle
  <2>2. HaltsAreLegal(r)'
    BY DEF RunInv, HaltsAreLegal, HaltTarget, RunTransitions
  <2>3. DecisionAgrees(r)'
    BY DEF RunInv, DecisionAgrees, Idle, Early
  <2>4. DeliveryAgrees(r)' /\ DecisionRespectedBy(r)'
    BY DEF RunInv, DeliveryAgrees, DecisionRespectedBy, Early
  <2>5. ServedRun(r)'
    BY DEF RunInv, ServedRun, Served, NeededTask
  <2>6. QED
    BY <2>1, <2>2, <2>3, <2>4, <2>5 DEF RunInv
<1>4. QED
  BY <1>1, <1>2, <1>3, OneRunChanges

\* The status is still the one read, so the halt makes a legal step.
LEMMA HaltWriteInv == ASSUME Inv, NEW r \in Run, NEW t \in Task, HaltWrite(r, t)
                PROVE  Inv'
<1> USE DEF HaltWrite, Finish, SetPhase, SetStatus, dbVars, processVars, taskVars
<1>0. /\ HaltTarget(r, t) \in {"FAILED", "NEEDS_HUMAN_INTERVENTION"}
     /\ <<status[r], HaltTarget(r, t)>> \in RunTransitions
     /\ phase[r][t] \in Halting
  BY DEF Inv, RunInv, HaltsAreLegal, HaltTarget
<1>1. TypeOK'
  BY <1>0, FinishType DEF Inv, TypeOK, Status, RowStatus, Terminal
<1>2. \A q \in Run \ {r} : SameRun(q)
  BY DEF SameRun
<1>3. RunInv(r)'
  <2> USE DEF Inv, TypeOK, Task, Phase, Live, Working, Halting, Status, RowStatus, Terminal,
     Decision, Unread, NoTask, Active
  <2> RunInv(r)
    OBVIOUS
  <2>1. DownIsEmpty(r)' /\ TableSound(r)'
    BY <1>0 DEF RunInv, DownIsEmpty, TableSound, DecisionRespectedBy, Early, Idle
  <2>2. HaltsAreLegal(r)'
    BY <1>0 DEF RunInv, HaltsAreLegal, DecisionAgrees, HaltTarget
  <2>3. DecisionAgrees(r)'
    BY <1>0 DEF RunInv, DecisionAgrees, Idle
  <2>4. DeliveryAgrees(r)' /\ DecisionRespectedBy(r)'
    BY <1>0 DEF RunInv, DeliveryAgrees, DecisionRespectedBy, Early
  <2>5. ServedRun(r)'
    BY <1>0 DEF ServedRun
  <2>6. QED
    BY <2>1, <2>2, <2>3, <2>4, <2>5 DEF RunInv
<1>4. QED
  BY <1>1, <1>2, <1>3, OneRunChanges

\* A halt that raises forgets what it read, or gives the run up.
LEMMA HaltRaisesInv == ASSUME Inv, NEW r \in Run, NEW t \in Task, HaltRaises(r, t)
                PROVE  Inv'
<1> USE DEF HaltRaises, Finish, SetPhase, GiveUp, dbVars, processVars, taskVars
<1>1. TypeOK'
  <2>1. CASE phase[r][t] = "timedOut"
    <3>1. /\ phase' = [phase EXCEPT ![r][t] = "crashed"]
          /\ seen' = [seen EXCEPT ![r][t] = Unread]
          /\ UNCHANGED <<entry, stranded>>
      BY <2>1
    <3> HIDE DEF HaltRaises, Finish, GiveUp
    <3>2. "crashed" \in Phase
      BY DEF Phase, Live, Halting
    <3>3. phase' \in [Run -> [Task -> Phase]]
      BY <3>1, <3>2 DEF Inv, TypeOK
    <3>4. seen' \in [Run -> [Task -> RowStatus \cup {Unread}]]
      BY <3>1 DEF Inv, TypeOK
    <3>5. UNCHANGED <<dbVars, processVars, request>>
      BY DEF HaltRaises
    <3>6. QED
      BY <3>1, <3>3, <3>4, <3>5 DEF Inv, TypeOK
  <2>2. CASE phase[r][t] # "timedOut"
    BY <2>2, FinishGivesUpType DEF Inv
  <2>3. QED
    BY <2>1, <2>2
<1>2. \A q \in Run \ {r} : SameRun(q)
  BY DEF SameRun, Inv, TypeOK
<1>3. RunInv(r)'
  <2> USE DEF Inv, TypeOK, Task, Phase, Live, Working, Halting, Status, RowStatus, Terminal,
     Decision, Unread, NoTask, Active
  <2> RunInv(r)
    OBVIOUS
  <2>1. DownIsEmpty(r)' /\ TableSound(r)'
    BY DEF RunInv, DownIsEmpty, TableSound, DecisionRespectedBy, Early, Idle
  <2>2. HaltsAreLegal(r)'
    BY DEF RunInv, HaltsAreLegal, HaltTarget
  <2>3. DecisionAgrees(r)'
    BY DEF RunInv, DecisionAgrees, Idle, Early
  <2>4. DeliveryAgrees(r)' /\ DecisionRespectedBy(r)'
    BY DEF RunInv, DeliveryAgrees, DecisionRespectedBy, Early
  <2>5. ServedRun(r)'
    BY DEF RunInv, ServedRun, Served, NeededTask
  <2>6. QED
    BY <2>1, <2>2, <2>3, <2>4, <2>5 DEF RunInv
<1>4. QED
  BY <1>1, <1>2, <1>3, OneRunChanges

\* The investigation goes on.
LEMMA PersistArtifactsInv == ASSUME Inv, NEW r \in Run, PersistArtifacts(r)
                PROVE  Inv'
<1> USE DEF PersistArtifacts, SetPhase, dbVars, processVars, taskVars
<1>1. TypeOK'
  BY DEF Inv, TypeOK, Phase, Live, Working
<1>2. \A q \in Run \ {r} : SameRun(q)
  BY DEF SameRun
<1>3. RunInv(r)'
  <2> USE DEF Inv, TypeOK, Task, Phase, Live, Working, Halting, Status, RowStatus, Terminal,
     Decision, Unread, NoTask, Active
  <2> RunInv(r)
    OBVIOUS
  <2>1. DownIsEmpty(r)' /\ TableSound(r)'
    BY DEF RunInv, DownIsEmpty, TableSound, Early
  <2>2. HaltsAreLegal(r)'
    BY DEF RunInv, HaltsAreLegal, HaltTarget
  <2>3. DecisionAgrees(r)'
    BY DEF RunInv, DecisionAgrees, Idle, Early
  <2>4. DeliveryAgrees(r)' /\ DecisionRespectedBy(r)'
    BY DEF RunInv, DeliveryAgrees, DecisionRespectedBy, Early
  <2>5. ServedRun(r)'
    BY DEF RunInv, ServedRun, Served, NeededTask
  <2>6. QED
    BY <2>1, <2>2, <2>3, <2>4, <2>5 DEF RunInv
<1>4. QED
  BY <1>1, <1>2, <1>3, OneRunChanges

\* An undecided run leaves RUNNING for good, or is parked with its task about to end.
LEMMA MarkOutcomeInv == ASSUME Inv, NEW r \in Run, MarkOutcome(r)
                PROVE  Inv'
<1> USE DEF MarkOutcome, SetPhase, SetStatus, WorkflowOutcome, dbVars, processVars, taskVars
<1>1. TypeOK'
  BY DEF Inv, TypeOK, Task, Phase, Live, Working, Status, RowStatus, Terminal
<1>2. \A q \in Run \ {r} : SameRun(q)
  BY DEF SameRun
<1>3. RunInv(r)'
  <2> USE DEF Inv, TypeOK, Task, Phase, Live, Working, Halting, Status, RowStatus, Terminal,
     Decision, Unread, NoTask, Active
  <2> RunInv(r)
    OBVIOUS
  <2>1. DownIsEmpty(r)' /\ TableSound(r)'
    BY DEF RunInv, DownIsEmpty, TableSound, Early
  <2>2. HaltsAreLegal(r)'
    BY DEF RunInv, HaltsAreLegal, HaltTarget
  <2>3. DecisionAgrees(r)'
    BY DEF RunInv, DecisionAgrees, DecisionRespectedBy, Early
  <2>4. DeliveryAgrees(r)' /\ DecisionRespectedBy(r)'
    BY DEF RunInv, DeliveryAgrees, DecisionRespectedBy, Early
  <2>5. ServedRun(r)'
    BY DEF ServedRun
  <2>6. QED
    BY <2>1, <2>2, <2>3, <2>4, <2>5 DEF RunInv
<1>4. QED
  BY <1>1, <1>2, <1>3, OneRunChanges

\* The task that parked the run pops the slot, also if the delivery holds it.
LEMMA AuditInv == ASSUME Inv, NEW r \in Run, Audit(r)
                PROVE  Inv'
<1> USE DEF Audit, Finish, SetPhase, dbVars, processVars, taskVars
<1>1. TypeOK'
  BY DEF Inv, TypeOK, Phase
<1>2. \A q \in Run \ {r} : SameRun(q)
  BY DEF SameRun
<1>3. RunInv(r)'
  <2> USE DEF Inv, TypeOK, Task, Phase, Live, Working, Halting, Status, RowStatus, Terminal,
     Decision, Unread, NoTask, Active
  <2> RunInv(r)
    OBVIOUS
  <2>1. DownIsEmpty(r)' /\ TableSound(r)'
    BY DEF RunInv, DownIsEmpty, TableSound, Early, Idle
  <2>2. HaltsAreLegal(r)'
    BY DEF RunInv, HaltsAreLegal, HaltTarget
  <2>3. DecisionAgrees(r)'
    BY DEF RunInv, DecisionAgrees, Idle, Early
  <2>4. DeliveryAgrees(r)' /\ DecisionRespectedBy(r)'
    BY DEF RunInv, DeliveryAgrees, DecisionRespectedBy, Early
  <2>5. ServedRun(r)'
    BY DEF RunInv, ServedRun, Served, NeededTask, DecisionAgrees
  <2>6. QED
    BY <2>1, <2>2, <2>3, <2>4, <2>5 DEF RunInv
<1>4. QED
  BY <1>1, <1>2, <1>3, OneRunChanges

\* A delivery enters with the effect it found or begun.
LEMMA EnterDeliveryInv == ASSUME Inv, NEW r \in Run, EnterDelivery(r)
                PROVE  Inv'
<1> USE DEF EnterDelivery, SetPhase, dbVars, processVars, taskVars
<1>1. TypeOK'
  <2>1. "resume" \in Task /\ {"recorded", "calling"} \subseteq Phase
    BY DEF Task, Phase, Live, Working
  <2>2. \/ phase' = [phase EXCEPT ![r]["resume"] = "recorded"]
        \/ phase' = [phase EXCEPT ![r]["resume"] = "calling"]
    OBVIOUS
  <2>3. effect' \in [Run -> {"NONE", "IN_PROGRESS", "FAILED", "COMPLETED"}]
    BY DEF Inv, TypeOK
  <2> HIDE DEF EnterDelivery
  <2>4. phase' \in [Run -> [Task -> Phase]]
    <3>1. phase \in [Run -> [Task -> Phase]]
      BY DEF Inv, TypeOK
    <3>2. CASE phase' = [phase EXCEPT ![r]["resume"] = "recorded"]
      BY <2>1, <3>1, <3>2
    <3>3. CASE phase' = [phase EXCEPT ![r]["resume"] = "calling"]
      BY <2>1, <3>1, <3>3
    <3>4. QED
      BY <2>2, <3>2, <3>3
  <2>5. QED
    BY <2>3, <2>4 DEF Inv, TypeOK, EnterDelivery
<1>2. \A q \in Run \ {r} : SameRun(q)
  BY DEF SameRun, Inv, TypeOK
<1>3. RunInv(r)'
  <2> USE DEF Inv, TypeOK, Task, Phase, Live, Working, Halting, Status, RowStatus, Terminal,
     Decision, Unread, NoTask, Active
  <2> RunInv(r)
    OBVIOUS
  <2>1. DownIsEmpty(r)' /\ TableSound(r)'
    BY DEF RunInv, DownIsEmpty, TableSound, Idle
  <2>2. HaltsAreLegal(r)'
    BY DEF RunInv, HaltsAreLegal, HaltTarget
  <2>3. DecisionAgrees(r)'
    BY DEF RunInv, DecisionAgrees
  <2>4. DeliveryAgrees(r)' /\ DecisionRespectedBy(r)'
    BY DEF RunInv, DeliveryAgrees, DecisionRespectedBy
  <2>5. ServedRun(r)'
    BY DEF RunInv, ServedRun, Served, NeededTask
  <2>6. QED
    BY <2>1, <2>2, <2>3, <2>4, <2>5 DEF RunInv
<1>4. QED
  BY <1>1, <1>2, <1>3, OneRunChanges

\* The answer is recorded with the effect.
LEMMA AnswerInv == ASSUME Inv, NEW r \in Run, Answer(r)
                PROVE  Inv'
<1> USE DEF Answer, SetPhase, dbVars, processVars, taskVars
<1>1. TypeOK'
  BY DEF Inv, TypeOK, Task, Phase, Live, Working, Halting
<1>2. \A q \in Run \ {r} : SameRun(q)
  BY DEF SameRun
<1>3. RunInv(r)'
  <2> USE DEF Inv, TypeOK, Task, Phase, Live, Working, Halting, Status, RowStatus, Terminal,
     Decision, Unread, NoTask, Active
  <2> RunInv(r)
    OBVIOUS
  <2>1. DownIsEmpty(r)' /\ TableSound(r)'
    BY DEF RunInv, DownIsEmpty, TableSound, Idle
  <2>2. HaltsAreLegal(r)'
    BY DEF RunInv, HaltsAreLegal, HaltTarget
  <2>3. DecisionAgrees(r)'
    BY DEF RunInv, DecisionAgrees, Idle
  <2>4. DeliveryAgrees(r)' /\ DecisionRespectedBy(r)'
    BY DEF RunInv, DeliveryAgrees, DecisionRespectedBy
  <2>5. ServedRun(r)'
    BY DEF RunInv, ServedRun, Served, NeededTask
  <2>6. QED
    BY <2>1, <2>2, <2>3, <2>4, <2>5 DEF RunInv
<1>4. QED
  BY <1>1, <1>2, <1>3, OneRunChanges

\* A run is resolved with its effect completed.
LEMMA MarkDeliveredInv == ASSUME Inv, NEW r \in Run, MarkDelivered(r)
                PROVE  Inv'
<1> USE DEF MarkDelivered, Finish, SetPhase, SetStatus, dbVars, processVars, taskVars
<1>1. TypeOK'
  BY DEF Inv, TypeOK, Phase, Status, RowStatus, Terminal
<1>2. \A q \in Run \ {r} : SameRun(q)
  BY DEF SameRun
<1>3. RunInv(r)'
  <2> USE DEF Inv, TypeOK, Task, Phase, Live, Working, Halting, Status, RowStatus, Terminal,
     Decision, Unread, NoTask, Active
  <2> RunInv(r)
    OBVIOUS
  <2>1. DownIsEmpty(r)' /\ TableSound(r)'
    BY DEF RunInv, DownIsEmpty, TableSound, DecisionRespectedBy, Idle
  <2>2. HaltsAreLegal(r)'
    BY DEF RunInv, HaltsAreLegal, DecisionAgrees, HaltTarget
  <2>3. DecisionAgrees(r)'
    BY DEF RunInv, DecisionAgrees
  <2>4. DeliveryAgrees(r)' /\ DecisionRespectedBy(r)'
    BY DEF RunInv, DeliveryAgrees, DecisionRespectedBy
  <2>5. ServedRun(r)'
    BY DEF ServedRun
  <2>6. QED
    BY <2>1, <2>2, <2>3, <2>4, <2>5 DEF RunInv
<1>4. QED
  BY <1>1, <1>2, <1>3, OneRunChanges

\* A crash empties the process; what the database says of each run stays.
LEMMA CrashInv == ASSUME Inv, Crash PROVE Inv'
<1> USE DEF Crash
<1>1. TypeOK'
  <2>1. /\ "none" \in Phase /\ Unread \in RowStatus \cup {Unread} /\ NoTask \in Task \cup {NoTask}
        /\ crashes' \in 0 .. MaxCrashes
    BY CrashAssumption DEF Phase, Inv, TypeOK
  <2>2. QED
    BY <2>1 DEF Inv, TypeOK
<1>2. SUFFICES ASSUME NEW r \in Run PROVE RunInv(r)'
  BY <1>1 DEF Inv
<1>3. RunInv(r)
  BY DEF Inv
<1>4. /\ request'[r] = "none" /\ entry'[r] = NoTask /\ ~up'
      /\ \A t \in Task : phase'[r][t] = "none" /\ seen'[r][t] = Unread
      /\ status' = status /\ decision' = decision /\ effect' = effect
  OBVIOUS
<1>5. phase'[r]["run"] = "none" /\ phase'[r]["resume"] = "none" /\ NoTask \notin Task
  BY <1>4 DEF Task, NoTask
<1> HIDE DEF Crash
<1>6. QED
  BY <1>3, <1>4, <1>5 DEF RunInv, DownIsEmpty, HaltsAreLegal, DecisionAgrees, DeliveryAgrees,
     ServedRun, DecisionRespectedBy, TableSound, Idle, Early, Live, Working, Halting

\* A start gives every active run the task its decision calls for, and no other.
LEMMA StartInv == ASSUME Inv, Start PROVE Inv'
<1> USE DEF Start, dbVars
<1>1. TypeOK'
  <2>1. {"none", "created"} \subseteq Phase
    BY DEF Phase, Live
  <2>2. \A r \in Run : RecoveryTask(r) \in Task \cup {NoTask}
    BY DEF RecoveryTask, Task
  <2>3. QED
    BY <2>1, <2>2 DEF Inv, TypeOK
<1>2. SUFFICES ASSUME NEW r \in Run PROVE RunInv(r)'
  BY <1>1 DEF Inv
<1>3. RunInv(r) /\ status[r] \in Status /\ decision[r] \in Decision
  BY DEF Inv, TypeOK
<1>4. /\ request'[r] = "none" /\ entry'[r] = RecoveryTask(r) /\ up'
      /\ \A t \in Task : /\ phase'[r][t] = IF t = RecoveryTask(r) THEN "created" ELSE "none"
                         /\ seen'[r][t] = Unread
      /\ status' = status /\ decision' = decision /\ effect' = effect
  BY <1>3 DEF RunInv, DownIsEmpty, Idle
<1> HIDE DEF Start
<1>5. CASE RecoveryTask(r) = NoTask
  <2>1. status[r] \notin Active
    BY <1>5 DEF RecoveryTask, NoTask
  <2>2. /\ phase'[r]["run"] = "none" /\ phase'[r]["resume"] = "none"
        /\ \A t \in Task : phase'[r][t] = "none"
    BY <1>4, <1>5 DEF Task, NoTask
  <2>3. QED
    BY <1>3, <1>4, <1>5, <2>1, <2>2 DEF RunInv, DownIsEmpty, HaltsAreLegal, DecisionAgrees,
       DeliveryAgrees, ServedRun, DecisionRespectedBy, TableSound, Idle, Early, Live, Working,
       Halting
<1>6. CASE RecoveryTask(r) = "resume"
  <2>1. decision[r] = "APPROVE" /\ status[r] \in Active
    BY <1>6 DEF RecoveryTask, NoTask
  <2>2. phase'[r]["run"] = "none" /\ phase'[r]["resume"] = "created"
    BY <1>4, <1>6 DEF Task
  <2>3. QED
    BY <1>3, <1>4, <1>6, <2>1, <2>2 DEF RunInv, DownIsEmpty, HaltsAreLegal, DecisionAgrees,
       DeliveryAgrees, ServedRun, Served, NeededTask, DecisionRespectedBy, TableSound, Early,
       Live, Working, Halting
<1>7. CASE RecoveryTask(r) = "run"
  <2>1. decision[r] = "NONE" /\ status[r] \in Active
    BY <1>3, <1>7 DEF RecoveryTask, NoTask, Decision, RunInv, DecisionAgrees, Active, Terminal
  <2>2. phase'[r]["run"] = "created" /\ phase'[r]["resume"] = "none"
    BY <1>4, <1>7 DEF Task
  <2>3. QED
    BY <1>3, <1>4, <1>7, <2>1, <2>2 DEF RunInv, DownIsEmpty, HaltsAreLegal, DecisionAgrees,
       DeliveryAgrees, ServedRun, Served, NeededTask, DecisionRespectedBy, TableSound, Active,
       Live, Working, Halting
<1>8. QED
  BY <1>5, <1>6, <1>7 DEF RecoveryTask

\* Nothing has been submitted when the process first starts.
LEMMA InitInv == Init => Inv
<1> SUFFICES ASSUME Init PROVE Inv
  OBVIOUS
<1>1. TypeOK
  BY CrashAssumption DEF Init, TypeOK, Status, Decision, Phase
<1>2. ASSUME NEW r \in Run PROVE RunInv(r)
  <2>1. /\ \A t \in Task : phase[r][t] = "none" /\ seen[r][t] = Unread
        /\ phase[r]["run"] = "none" /\ phase[r]["resume"] = "none"
        /\ status[r] = "ABSENT" /\ decision[r] = "NONE" /\ effect[r] = "NONE"
        /\ request[r] = "none" /\ entry[r] = NoTask /\ up
    BY DEF Init, Task
  <2>2. QED
    BY <2>1 DEF RunInv, DownIsEmpty, HaltsAreLegal, DecisionAgrees, DeliveryAgrees, ServedRun,
       DecisionRespectedBy, TableSound, Active, Idle, Early, Live, Working, Halting
<1>3. QED
  BY <1>1, <1>2 DEF Inv

\* Every step of the process, of its requests and of its tasks keeps the invariant.
LEMMA NextInv == Inv /\ [Next]_vars => Inv'
<1> SUFFICES ASSUME Inv, [Next]_vars PROVE Inv'
  OBVIOUS
<1>1. CASE Crash
  BY <1>1, CrashInv
<1>2. CASE Start
  BY <1>2, StartInv
<1>3. CASE \E r \in Run : Serve(r)
  BY <1>3, AdmitInv, SubmitInv, RequestDiesInv, DecideInv DEF Serve
<1>4. CASE \E r \in Run : Investigate(r)
  BY <1>4, PersistArtifactsInv, MarkOutcomeInv, AuditInv DEF Investigate
<1>5. CASE \E r \in Run : Deliver(r)
  BY <1>5, EnterDeliveryInv, AnswerInv, MarkDeliveredInv DEF Deliver
<1>6. CASE \E r \in Run, t \in Task : TaskStep(r, t)
  BY <1>6, MarkRunningInv, FailInv, TimeOutInv, HaltReadInv, HaltWriteInv, HaltRaisesInv DEF
     TaskStep, Halt
<1>7. CASE UNCHANGED vars
  BY <1>7 DEF vars, Inv, TypeOK, RunInv, DownIsEmpty, HaltsAreLegal, DecisionAgrees,
     DeliveryAgrees, ServedRun, Served, NeededTask, DecisionRespectedBy, TableSound, Idle,
     HaltTarget
<1>8. QED
  BY <1>1, <1>2, <1>3, <1>4, <1>5, <1>6, <1>7 DEF Next

\* The inductive invariant holds in every reachable state.
THEOREM InvHolds == Spec => []Inv
<1>1. QED
  BY InitInv, NextInv, PTL DEF Spec

\* The database and the memory of the process keep their types.
THEOREM TypesHold == Spec => []TypeOK
<1>1. Inv => TypeOK
  BY DEF Inv
<1>2. QED
  BY <1>1, InvHolds, PTL

\* A PENDING or RUNNING run of a live process has the task its decision calls for, or the
\* request that will create it, or was given up: recover_non_terminal() misses none.
THEOREM ActiveRunsAreServed == Spec => []ActiveRunIsServed
<1>1. Inv => ActiveRunIsServed
  BY DEF Inv, RunInv, ActiveRunIsServed
<1>2. QED
  BY <1>1, InvHolds, PTL

\* No restart makes an approved run investigate again, and nothing but an approval
\* lets a run reach the delivery.
THEOREM DecisionsAreRespected == Spec => []TasksRespectDecision
<1>1. Inv => TasksRespectDecision
  BY DEF Inv, RunInv, TasksRespectDecision
<1>2. QED
  BY <1>1, InvHolds, PTL

\* _tasks never names a task that ended, whichever of the two tasks of a run pops it.
THEOREM TaskTableIsSound == Spec => []TaskTableSound
<1>1. Inv => TaskTableSound
  BY DEF Inv, RunInv, TaskTableSound
<1>2. QED
  BY <1>1, InvHolds, PTL

\* A run is RESOLVED only after GitHub's answer was recorded, and a recorded delivery
\* never lets its run queue again.
THEOREM ResolvedRunsAreDelivered == Spec => []ResolvedIsDelivered
<1>1. Inv => ResolvedIsDelivered
  <2>1. SUFFICES ASSUME Inv, NEW r \in Run
                 PROVE  /\ status[r] = "RESOLVED" => effect[r] = "COMPLETED"
                        /\ effect[r] = "COMPLETED" => status[r] \in {"RUNNING", "RESOLVED", "FAILED",
                                                                     "NEEDS_HUMAN_INTERVENTION"}
    BY DEF ResolvedIsDelivered
  <2>2. status[r] \in Status /\ DeliveryAgrees(r)
    BY <2>1 DEF Inv, TypeOK, RunInv
  <2>3. QED
    BY <2>2 DEF DeliveryAgrees
<1>2. QED
  BY <1>1, InvHolds, PTL

\* ------------------------------------------------------------------------
\* The life cycle.

\* A halt ends an episode of work, or gives up a run that was queued or parked.
LEMMA HaltWriteRefines ==
    ASSUME Inv, NEW r \in Run, NEW t \in Task, HaltWrite(r, t)
    PROVE  \/ Lifecycle!Investigated(r) \/ Lifecycle!Delivered(r) \/ Lifecycle!Escalate(r)
           \/ Lifecycle!HaltQueued(r) \/ Lifecycle!HaltParked(r)
           \/ UNCHANGED <<status, decision>>
<1> USE DEF HaltWrite, SetStatus, Lifecycle!Become
<1>1. /\ status \in [Run -> Status] /\ decision[r] \in Decision
      /\ <<status[r], HaltTarget(r, t)>> \in RunTransitions
      /\ HaltTarget(r, t) \in {"FAILED", "NEEDS_HUMAN_INTERVENTION"}
      /\ decision[r] = "REJECT" => status[r] \in Terminal
  BY DEF Inv, TypeOK, RunInv, HaltsAreLegal, HaltTarget, DecisionAgrees
<1>2. CASE status[r] = "RUNNING" /\ HaltTarget(r, t) = "FAILED"
  BY <1>1, <1>2
     DEF Decision, Terminal, Lifecycle!Investigated, Lifecycle!Delivered,
     Lifecycle!WorkflowOutcome, Lifecycle!ResumeOutcome
<1>3. CASE status[r] = "RUNNING" /\ HaltTarget(r, t) = "NEEDS_HUMAN_INTERVENTION"
  BY <1>1, <1>3 DEF Lifecycle!Escalate
<1>4. CASE status[r] = "PENDING"
  BY <1>1, <1>4 DEF RunTransitions, Terminal, Lifecycle!HaltQueued
<1>5. CASE status[r] = "WAITING_APPROVAL"
  BY <1>1, <1>5 DEF RunTransitions, Terminal, Lifecycle!HaltParked
<1>6. CASE status[r] \in Terminal
  BY <1>1, <1>6 DEF RunTransitions, Terminal
<1>7. status[r] # "ABSENT"
  BY <1>1 DEF RunTransitions, Terminal
<1>8. QED
  BY <1>1, <1>2, <1>3, <1>4, <1>5, <1>6, <1>7 DEF Status, RowStatus

\* Every step of the process is a step of the life cycle of one run or leaves status
\* and decision alone.
LEMMA StepRefines ==
    ASSUME Inv, [Next]_vars
    PROVE  [Lifecycle!Next]_(Lifecycle!vars)
<1> USE DEF SetStatus, Lifecycle!Become
<1>1. status \in [Run -> Status]
  BY DEF Inv, TypeOK
<1>2. ASSUME NEW r \in Run, Serve(r)
      PROVE  Lifecycle!Admit(r) \/ Lifecycle!Decide(r) \/ UNCHANGED <<status, decision>>
  <2>1. CASE Admit(r)
    BY <2>1 DEF Admit, Lifecycle!Admit
  <2>2. CASE Submit(r) \/ RequestDies(r)
    BY <2>2 DEF Submit, RequestDies, dbVars
  <2>3. ASSUME NEW d \in {"APPROVE", "REJECT"}, Decide(r, d) PROVE Lifecycle!Decide(r)
    <3>1. decision[r] = "NONE"
      BY <2>3 DEF Decide, Inv, RunInv, DecisionAgrees
    <3>2. QED
      BY <2>3, <3>1 DEF Decide, Lifecycle!Decide
  <2>4. QED
    BY <1>2, <2>1, <2>2, <2>3 DEF Serve
<1>3. ASSUME NEW r \in Run, Investigate(r)
      PROVE  Lifecycle!Investigated(r) \/ UNCHANGED <<status, decision>>
  <2>1. CASE PersistArtifacts(r) \/ Audit(r)
    BY <2>1 DEF PersistArtifacts, Audit, dbVars
  <2>2. CASE MarkOutcome(r)
    <3>1. decision[r] = "NONE"
      BY <2>2 DEF MarkOutcome, Inv, RunInv, DecisionRespectedBy, Early
    <3>2. QED
      BY <2>2, <3>1
         DEF MarkOutcome, WorkflowOutcome, Lifecycle!Investigated, Lifecycle!WorkflowOutcome
  <2>3. QED
    BY <1>3, <2>1, <2>2 DEF Investigate
<1>4. ASSUME NEW r \in Run, Deliver(r)
      PROVE  Lifecycle!Delivered(r) \/ UNCHANGED <<status, decision>>
  <2>1. CASE EnterDelivery(r) \/ Answer(r)
    BY <2>1 DEF EnterDelivery, Answer
  <2>2. CASE MarkDelivered(r)
    <3>1. decision[r] = "APPROVE"
      BY <2>2 DEF MarkDelivered, Inv, RunInv, DecisionRespectedBy, Live, Working
    <3>2. QED
      BY <2>2, <3>1 DEF MarkDelivered, Lifecycle!Delivered, Lifecycle!ResumeOutcome
  <2>3. QED
    BY <1>4, <2>1, <2>2 DEF Deliver
<1>5. ASSUME NEW r \in Run, NEW t \in Task, TaskStep(r, t)
      PROVE  [Lifecycle!Next]_(Lifecycle!vars)
  <2>1. CASE MarkRunning(r, t)
    <3>1. Lifecycle!Start(r) \/ UNCHANGED <<status, decision>>
      BY <1>1, <2>1 DEF MarkRunning, Active, Lifecycle!Start
    <3>2. QED
      BY <3>1 DEF Lifecycle!Next, Lifecycle!Step, Lifecycle!vars
  <2>2. CASE HaltWrite(r, t)
    BY <2>2, HaltWriteRefines DEF Lifecycle!Next, Lifecycle!Step, Lifecycle!vars
  <2>3. CASE Fail(r, t) \/ TimeOut(r, t) \/ HaltRead(r, t) \/ HaltRaises(r, t)
    BY <2>3 DEF Fail, TimeOut, HaltRead, HaltRaises, dbVars, Lifecycle!vars
  <2>4. QED
    BY <1>5, <2>1, <2>2, <2>3 DEF TaskStep, Halt
<1>6. CASE Crash \/ Start \/ UNCHANGED vars
  BY <1>6 DEF Crash, Start, vars, dbVars, Lifecycle!vars
<1>7. QED
  BY <1>2, <1>3, <1>4, <1>5, <1>6 DEF Next, Lifecycle!Next, Lifecycle!Step, Lifecycle!vars

\* The process without a worker, with its requests, tasks, halts and restarts, implements
\* the life cycle its users see.
THEOREM ExecutorImplementsLifecycle == Spec => ImplementsLifecycle
<1>1. Init => Lifecycle!Init
  BY DEF Init, Lifecycle!Init
<1>2. Inv /\ [Next]_vars => [Lifecycle!Next]_(Lifecycle!vars)
  BY StepRefines
<1>3. QED
  BY <1>1, <1>2, InvHolds, PTL DEF Spec, ImplementsLifecycle, Lifecycle!Spec

Promise == INSTANCE RunLifecycleProofs WITH Embedded <- TRUE

\* The theorems about the life cycle speak of the executor.
LEMMA ExecutorKeepsPromises == Spec => Promise!Spec
<1>1. Lifecycle!Init <=> Promise!Init
  BY DEF Lifecycle!Init, Promise!Init
<1>2. [Lifecycle!Next]_(Lifecycle!vars) <=> [Promise!Next]_(Promise!vars)
  BY DEF Lifecycle!Next, Promise!Next, Lifecycle!vars, Promise!vars,
     Lifecycle!EscalateAll, Promise!EscalateAll, Lifecycle!Step, Promise!Step,
     Lifecycle!Admit, Promise!Admit, Lifecycle!Start, Promise!Start,
     Lifecycle!Requeue, Promise!Requeue, Lifecycle!Escalate, Promise!Escalate,
     Lifecycle!Investigated, Promise!Investigated, Lifecycle!Delivered, Promise!Delivered,
     Lifecycle!Decide, Promise!Decide, Lifecycle!HaltQueued, Promise!HaltQueued,
     Lifecycle!HaltParked, Promise!HaltParked, Lifecycle!Become, Promise!Become,
     Lifecycle!WorkflowOutcome, Promise!WorkflowOutcome,
     Lifecycle!ResumeOutcome, Promise!ResumeOutcome
<1>3. QED
  BY <1>1, <1>2, ExecutorImplementsLifecycle, PTL
     DEF ImplementsLifecycle, Lifecycle!Spec, Promise!Spec

\* Whichever task of a run writes last, RUN_TRANSITIONS is obeyed.
THEOREM TransitionsAreLegal == Spec => LegalTransitions
<1>1. [\A r \in Run : status[r] \notin {"ABSENT", status'[r]} =>
           <<status[r], status'[r]>> \in Promise!RunTransitions]_(Promise!vars) =>
      [\A r \in Run : status[r] \notin {"ABSENT", status'[r]} =>
           <<status[r], status'[r]>> \in RunTransitions]_vars
  BY DEF vars, Promise!vars, Promise!RunTransitions, RunTransitions, Promise!Terminal, Terminal
<1>2. QED
  BY <1>1, ExecutorKeepsPromises, Promise!TransitionsAreLegal, PTL
     DEF LegalTransitions, Promise!LegalTransitions

\* A decision is made once and about a waiting run, terminal runs stay as they are, and a
\* decided run never waits for a human again, though both of its tasks and a request write
\* without a lease.
THEOREM DecidedAndEndedRunsStay ==
    Spec => Promise!DecidedOnce /\ Promise!TerminalIsFinal /\ Promise!DecidedNeverAsksAgain
<1>1. QED
  BY ExecutorKeepsPromises, Promise!DecisionsAreMadeOnce, Promise!TerminalRunsStay,
     Promise!DecidedRunsNeverAskAgain, PTL

\* ------------------------------------------------------------------------
\* Tasks and effects never go back.

\* Every task of every run stays, ends, or goes on.
Onward == \A q \in Run, u \in Task : \/ phase'[q][u] \in {"none", phase[q][u]}
                                     \/ Rank(phase[q][u]) < Rank(phase'[q][u])

\* A step that writes the phase of one task has to be examined for that task only.
LEMMA OneTaskGoes ==
    ASSUME TypeOK, NEW r \in Run, NEW t \in Task, NEW p, SetPhase(r, t, p),
           p = "none" \/ Rank(phase[r][t]) < Rank(p)
    PROVE  Onward
<1>1. phase \in [Run -> [Task -> Phase]]
  BY DEF TypeOK
<1>2. \A q \in Run, u \in Task : phase'[q][u] = IF q = r /\ u = t THEN p ELSE phase[q][u]
  BY <1>1 DEF SetPhase
<1>3. QED
  BY <1>2 DEF Onward

\* submit() and submit_resume() find no task of the run they would replace.
LEMMA SubmitGoesOn == ASSUME Inv, NEW r \in Run, Submit(r) PROVE Onward
<1>1. TypeOK /\ DecisionAgrees(r) /\ request[r] \in {"admitted", "approved"}
  BY DEF Inv, TypeOK, RunInv, Submit
<1>2. CASE request[r] = "admitted"
  <2>1. SetPhase(r, "run", "created") /\ phase[r]["run"] = "none"
    BY <1>1, <1>2 DEF Submit, Create, DecisionAgrees, Idle, Task
  <2>2. QED
    BY <1>1, <2>1, OneTaskGoes DEF Rank, Task
<1>3. CASE request[r] = "approved"
  <2>1. SetPhase(r, "resume", "created") /\ phase[r]["resume"] = "none"
    BY <1>1, <1>3 DEF Submit, Create, DecisionAgrees
  <2>2. QED
    BY <1>1, <2>1, OneTaskGoes DEF Rank, Task
<1>4. QED
  BY <1>1, <1>2, <1>3

\* Steps both tasks have: each goes on, to a halt, or ends.
LEMMA TaskStepGoesOn == ASSUME Inv, NEW r \in Run, NEW t \in Task, TaskStep(r, t) PROVE Onward
<1>1. TypeOK
  BY DEF Inv
<1>2. CASE UNCHANGED phase
  BY <1>2 DEF Onward
<1>3. CASE MarkRunning(r, t)
  <2>1. phase[r][t] = "created" /\ (SetPhase(r, t, "graph") \/ SetPhase(r, t, "resuming"))
    BY <1>3 DEF MarkRunning
  <2>2. QED
    BY <1>1, <2>1, OneTaskGoes DEF Rank
<1>4. CASE Fail(r, t)
  BY <1>1, <1>4, OneTaskGoes DEF Fail, Working, Rank
<1>5. CASE TimeOut(r, t)
  BY <1>1, <1>5, OneTaskGoes DEF TimeOut, Working, Rank
<1>6. CASE Finish(r, t)
  BY <1>1, <1>6, OneTaskGoes DEF Finish
<1>7. CASE HaltRead(r, t) \/ HaltWrite(r, t)
  BY <1>2, <1>6, <1>7 DEF HaltRead, HaltWrite
<1>8. CASE HaltRaises(r, t)
  <2>1. CASE phase[r][t] = "timedOut"
    BY <1>1, <1>8, <2>1, OneTaskGoes DEF HaltRaises, Rank
  <2>2. CASE phase[r][t] # "timedOut"
    BY <1>6, <1>8, <2>2 DEF HaltRaises
  <2>3. QED
    BY <2>1, <2>2
<1>9. QED
  BY <1>3, <1>4, <1>5, <1>7, <1>8 DEF TaskStep, Halt

\* No task is replaced, though submit() does not look for one: a request that creates a
\* task, a restart, a timeout and the task that is ending never meet in the same slot of
\* the same kind.
THEOREM TasksStayTheirOwn == Spec => TasksAreNotReplaced
<1>1. ASSUME Inv, [Next]_vars PROVE Onward
  <2>1. TypeOK
    BY <1>1 DEF Inv
  <2>2. CASE UNCHANGED phase
    BY <2>2 DEF Onward
  <2>3. CASE Crash
    BY <2>3 DEF Crash, Onward
  <2>4. CASE Start
    <3>1. \A q \in Run, u \in Task : phase[q][u] = "none" /\ phase'[q][u] \in {"none", "created"}
      BY <1>1, <2>4 DEF Inv, RunInv, DownIsEmpty, Idle, Start
    <3>2. QED
      BY <3>1 DEF Onward, Rank
  <2>5. ASSUME NEW r \in Run, Serve(r) PROVE Onward
    BY <1>1, <2>2, <2>5, SubmitGoesOn DEF Serve, Admit, RequestDies, Decide, taskVars
  <2>6. ASSUME NEW r \in Run, Investigate(r) PROVE Onward
    BY <2>1, <2>6, OneTaskGoes
       DEF Investigate, PersistArtifacts, MarkOutcome, Audit, Finish, Rank, Task
  <2>7. ASSUME NEW r \in Run, Deliver(r) PROVE Onward
    <3>1. CASE EnterDelivery(r)
      <4>1. /\ phase[r]["resume"] = "resuming"
            /\ SetPhase(r, "resume", "recorded") \/ SetPhase(r, "resume", "calling")
        BY <3>1 DEF EnterDelivery
      <4>2. QED
        BY <2>1, <4>1, OneTaskGoes DEF Rank, Task
    <3>2. CASE Answer(r)
      BY <2>1, <3>2, OneTaskGoes DEF Answer, Rank, Task
    <3>3. CASE MarkDelivered(r)
      BY <2>1, <3>3, OneTaskGoes DEF MarkDelivered, Finish, Task
    <3>4. QED
      BY <2>7, <3>1, <3>2, <3>3 DEF Deliver
  <2>8. ASSUME NEW r \in Run, NEW t \in Task, TaskStep(r, t) PROVE Onward
    BY <1>1, <2>8, TaskStepGoesOn
  <2>9. QED
    BY <1>1, <2>2, <2>3, <2>4, <2>5, <2>6, <2>7, <2>8 DEF Next, vars
<1>2. Onward => [\A r \in Run, t \in Task : phase'[r][t] \in {"none", phase[r][t]}
                     \/ Rank(phase[r][t]) < Rank(phase'[r][t])]_vars
  BY DEF Onward
<1>3. QED
  BY <1>1, <1>2, InvHolds, PTL DEF Spec, TasksAreNotReplaced

\* What GitHub was told once is not told again: while a task is in its request the effect
\* is IN_PROGRESS, so that no answer is ever written over a recorded delivery.
THEOREM CompletedEffectIsFinal == Spec => CompletedIsFinal
<1>1. ASSUME Inv, [Next]_vars, NEW q \in Run, effect[q] = "COMPLETED"
      PROVE  effect'[q] = "COMPLETED"
  <2>1. effect \in [Run -> {"NONE", "IN_PROGRESS", "FAILED", "COMPLETED"}]
    BY <1>1 DEF Inv, TypeOK
  <2>2. CASE UNCHANGED effect
    BY <1>1, <2>2
  <2>3. ASSUME NEW r \in Run, EnterDelivery(r) PROVE effect'[q] = "COMPLETED"
    BY <1>1, <2>1, <2>3 DEF EnterDelivery
  <2>4. ASSUME NEW r \in Run, Answer(r) PROVE effect'[q] = "COMPLETED"
    <3>1. effect[r] = "IN_PROGRESS"
      BY <1>1, <2>4 DEF Inv, RunInv, DeliveryAgrees, Answer
    <3>2. QED
      BY <1>1, <2>1, <2>4, <3>1 DEF Answer
  <2>5. ASSUME NEW r \in Run, Serve(r) \/ Investigate(r) \/ MarkDelivered(r)
        PROVE  UNCHANGED effect
    BY <2>5 DEF Serve, Admit, Submit, RequestDies, Decide, Investigate, PersistArtifacts,
       MarkOutcome, Audit, MarkDelivered, dbVars
  <2>6. ASSUME NEW r \in Run, NEW t \in Task, TaskStep(r, t) PROVE UNCHANGED effect
    BY <2>6 DEF TaskStep, MarkRunning, Fail, TimeOut, Halt, HaltRead, HaltWrite, HaltRaises,
       dbVars
  <2>7. CASE Crash \/ Start \/ UNCHANGED vars
    BY <2>2, <2>7 DEF Crash, Start, vars, dbVars
  <2>8. QED
    BY <1>1, <2>2, <2>3, <2>4, <2>5, <2>6, <2>7 DEF Next, Deliver
<1>2. Inv /\ [Next]_vars =>
          [\A r \in Run : effect[r] = "COMPLETED" => effect'[r] = "COMPLETED"]_vars
  BY <1>1
<1>3. QED
  BY <1>2, InvHolds, PTL DEF Spec, CompletedIsFinal
=============================================================================
