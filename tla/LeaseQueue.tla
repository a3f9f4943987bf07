----------------------------- MODULE LeaseQueue -----------------------------
(***************************************************************************)
(* The durable job queue of IncidentPilot: rows of agent_runs, the API     *)
(* that admits and decides them, and the workers that claim, renew, fence, *)
(* finish, retry and lose them (persistence/jobs.py, ownership.py,         *)
(* services/incidents.py, worker.py, agent/executor.py).                   *)
(*                                                                         *)
(* The columns of a row are functions of the run.  The n-th claim of a run *)
(* gets attempt_count = n, so <<run, attempt>> names a claim, the asyncio  *)
(* task that executes it and its heartbeat.  Time columns are timers: the  *)
(* ticks left until the instant they hold, 0 once it has passed, and       *)
(* NoTime for SQL NULL.  A transaction that begins with a fence holds the  *)
(* row lock from Fence until the step that commits or rolls it back.       *)
(***************************************************************************)
EXTENDS RunStatus, Integers, FiniteSets

CONSTANTS Run,          \* runs that may ever be submitted
          Worker,       \* worker processes (worker_id)
          NoWorker,     \* SQL NULL in worker_id
          MaxAttempts,  \* MAX_JOB_ATTEMPTS
          MaxQueued,    \* MAX_QUEUED_RUNS
          Concurrency,  \* WORKER_CONCURRENCY
          Lease,        \* JOB_LEASE_SECONDS, in ticks
          Heartbeat,    \* JOB_HEARTBEAT_SECONDS, in ticks
          MaxDelay      \* cap of the retry delay, in ticks

ASSUME RunAssumption == IsFiniteSet(Run)
ASSUME WorkerAssumption == NoWorker \notin Worker
ASSUME LimitAssumption == /\ MaxAttempts \in Nat \ {0}
                          /\ MaxQueued \in Nat \ {0}
                          /\ Concurrency \in Nat \ {0}
ASSUME TimeAssumption == /\ Lease \in Nat \ {0}
                         /\ Heartbeat \in Nat \ {0}
                         /\ MaxDelay \in Nat \ {0}

VARIABLES
    \* columns of agent_runs, and the decision column of approvals
    status, worker, attempt, lease, nextAttempt, decision,
    stored,     \* attempt whose investigation artifacts were committed last
    rowLock,    \* attempt whose open transaction locks the row, 0 if none
    admitting,  \* runs whose admission has counted the queue, not committed
    \* the task of each claim
    phase,      \* where the task of the claim is
    owner,      \* the worker that runs it
    beat        \* ticks since an unfinished renewal read the clock

rowVars == <<status, worker, attempt, lease, nextAttempt, decision, stored>>
taskVars == <<phase, owner, beat>>
vars == <<status, worker, attempt, lease, nextAttempt, decision, stored,
          rowLock, admitting, phase, owner, beat>>

NoTime == -1
NoBeat == -1
Attempt == 1 .. MaxAttempts

\* Phases in which _resume_or_execute runs.
Executing == {"claimed", "execute", "persisted", "resume", "marked", "halting"}
\* Phases whose next write is a transaction that begins with a fence.
Fenced == {"execute", "persisted", "resume", "halting", "invalid"}
\* Phases a task passes through after its execution ended.
Settling == {"returned", "failed", "invalid"}
Live == Executing \cup Settling
Phase == {"none", "done"} \cup Live

Smaller(m, n) == IF m <= n THEN m ELSE n

\* ------------------------------------------------------------------------
\* Predicates the WHERE clauses share.

\* Variant: the claim is recognised by its worker alone.
MatchesWorkerOnly(r, a) == worker[r] = owner[r][a]

\* worker_id and attempt_count of the row are those of claim <<r, a>>.
Matches(r, a) == worker[r] = owner[r][a] /\ attempt[r] = a

\* Variants: the fence checks the worker but not the attempt; the claim but not
\* the status.
OwnsByWorker(r, a) == worker[r] = owner[r][a] /\ status[r] = "RUNNING" /\ lease[r] > 0
OwnsAnyStatus(r, a) == Matches(r, a) /\ lease[r] > 0

\* What fence() and renew_lease() require of the row.
Owns(r, a) == Matches(r, a) /\ status[r] = "RUNNING" /\ lease[r] > 0

\* Variant: row locks are not respected (plain SELECT instead of FOR UPDATE).
UnlockedIgnored(r) == r \in Run

\* Nobody's open transaction has the row locked.
Unlocked(r) == rowLock[r] = 0

Pending == {r \in Run : status[r] = "PENDING"}

\* Variants: no attempt limit; a row with a retry time is never due.
EligibleForEver(r) ==
    \/ status[r] = "PENDING" /\ nextAttempt[r] \in {NoTime, 0}
    \/ status[r] = "RUNNING" /\ lease[r] = 0
EligibleNeverDue(r) ==
    /\ \/ status[r] = "PENDING" /\ nextAttempt[r] = NoTime
       \/ status[r] = "RUNNING" /\ lease[r] = 0
    /\ attempt[r] < MaxAttempts

\* claim_next_run: a due pending row, or a running row whose lease ran out.
Eligible(r) ==
    /\ \/ status[r] = "PENDING" /\ nextAttempt[r] \in {NoTime, 0}
       \/ status[r] = "RUNNING" /\ lease[r] = 0
    /\ attempt[r] < MaxAttempts

\* FOR UPDATE SKIP LOCKED with next_attempt_at ASC NULLS FIRST.
FirstInOrder(r) ==
    nextAttempt[r] = NoTime
    \/ \A q \in Run : Eligible(q) /\ Unlocked(q) => nextAttempt[q] # NoTime

ActiveTasks(w) ==
    {t \in Run \X Attempt : owner[t[1]][t[2]] = w /\ phase[t[1]][t[2]] \in Live}

\* min(30, 2 ** (attempt - 1)), in ticks.
RetryDelay(a) == Smaller(MaxDelay, 2 ^ (a - 1))

\* ------------------------------------------------------------------------
\* Effects the actions share.

SetStatus(r, s) == status' = [status EXCEPT ![r] = s]

\* worker_id = lease_expires_at = last_heartbeat_at = NULL
Disown(r) == /\ worker' = [worker EXCEPT ![r] = NoWorker]
             /\ lease' = [lease EXCEPT ![r] = NoTime]

SetPhase(r, a, p) == phase' = [phase EXCEPT ![r][a] = p]

\* The task is over: its heartbeat is cancelled, its identity forgotten.
EndTask(r, a) == /\ SetPhase(r, a, "done")
                 /\ owner' = [owner EXCEPT ![r][a] = NoWorker]
                 /\ beat' = [beat EXCEPT ![r][a] = NoBeat]

\* Cancellation or an exception rolls back the transaction the task has open.
Rollback(r, a) ==
    rowLock' = IF rowLock[r] = a THEN [rowLock EXCEPT ![r] = 0] ELSE rowLock

Init == /\ status = [r \in Run |-> "ABSENT"]
        /\ worker = [r \in Run |-> NoWorker]
        /\ attempt = [r \in Run |-> 0]
        /\ lease = [r \in Run |-> NoTime]
        /\ nextAttempt = [r \in Run |-> NoTime]
        /\ decision = [r \in Run |-> "NONE"]
        /\ stored = [r \in Run |-> 0]
        /\ rowLock = [r \in Run |-> 0]
        /\ admitting = {}
        /\ phase = [r \in Run |-> [a \in Attempt |-> "none"]]
        /\ owner = [r \in Run |-> [a \in Attempt |-> NoWorker]]
        /\ beat = [r \in Run |-> [a \in Attempt |-> NoBeat]]

\* ------------------------------------------------------------------------
\* The API: admission and decision.

\* Variant: requests count the queue without the advisory lock.
AdmissionUnserialized == admitting \subseteq Run

\* pg_advisory_xact_lock: one admission transaction at a time.
AdmissionLockFree == admitting = {}

\* Take the advisory lock and count the queue; a full queue rolls back and
\* answers QueueFullError, which changes nothing.
AdmitCount(r) == /\ status[r] = "ABSENT"
                 /\ AdmissionLockFree
                 /\ Cardinality(Pending) < MaxQueued
                 /\ admitting' = admitting \cup {r}
                 /\ UNCHANGED <<rowVars, rowLock, taskVars>>

\* Insert the incident with its PENDING run and commit.
AdmitCommit(r) == /\ r \in admitting
                  /\ admitting' = admitting \ {r}
                  /\ SetStatus(r, "PENDING")
                  /\ UNCHANGED <<worker, attempt, lease, nextAttempt, decision, stored,
                                 rowLock, taskVars>>

\* The request dies between the count and the commit.
AdmitAbort(r) == /\ r \in admitting
                 /\ admitting' = admitting \ {r}
                 /\ UNCHANGED <<rowVars, rowLock, taskVars>>

\* Variant: the UPDATE does not test the status.
DecideAnyStatus(r, d) ==
    /\ status[r] # "ABSENT"
    /\ Unlocked(r)
    /\ decision' = [decision EXCEPT ![r] = d]
    /\ SetStatus(r, IF d = "REJECT" THEN "NEEDS_HUMAN_INTERVENTION" ELSE "PENDING")
    /\ nextAttempt' = [nextAttempt EXCEPT ![r] = IF d = "REJECT" THEN NoTime ELSE 0]
    /\ Disown(r)
    /\ UNCHANGED <<attempt, stored, rowLock, admitting, taskVars>>

\* ApprovalService.decide: one conditional UPDATE and the approvals row.  A run
\* that is not waiting answers ApprovalConflict, which changes nothing.
Decide(r, d) ==
    /\ status[r] = "WAITING_APPROVAL"
    /\ Unlocked(r)
    /\ decision' = [decision EXCEPT ![r] = d]
    /\ SetStatus(r, IF d = "REJECT" THEN "NEEDS_HUMAN_INTERVENTION" ELSE "PENDING")
    /\ nextAttempt' = [nextAttempt EXCEPT ![r] = IF d = "REJECT" THEN NoTime ELSE 0]
    /\ Disown(r)
    /\ UNCHANGED <<attempt, stored, rowLock, admitting, taskVars>>

\* ------------------------------------------------------------------------
\* The worker loop: expire, claim, and the task of one claim.

\* Variant: one attempt too many before a run counts as exhausted.
ExhaustedLate == {r \in Run : /\ status[r] = "RUNNING"
                              /\ lease[r] = 0
                              /\ attempt[r] > MaxAttempts}

\* expire_exhausted_runs: one UPDATE over every exhausted row.
Exhausted == {r \in Run : /\ status[r] = "RUNNING"
                          /\ lease[r] = 0
                          /\ attempt[r] >= MaxAttempts}

ExpireExhausted ==
    /\ Exhausted # {}
    /\ \A r \in Exhausted : Unlocked(r)
    /\ status' = [r \in Run |-> IF r \in Exhausted THEN "NEEDS_HUMAN_INTERVENTION"
                                                   ELSE status[r]]
    /\ worker' = [r \in Run |-> IF r \in Exhausted THEN NoWorker ELSE worker[r]]
    /\ lease' = [r \in Run |-> IF r \in Exhausted THEN NoTime ELSE lease[r]]
    /\ UNCHANGED <<attempt, nextAttempt, decision, stored, rowLock, admitting, taskVars>>

Claim(w, r) ==
    /\ Cardinality(ActiveTasks(w)) < Concurrency
    /\ Eligible(r) /\ Unlocked(r) /\ FirstInOrder(r)
    /\ SetStatus(r, "RUNNING")
    /\ worker' = [worker EXCEPT ![r] = w]
    /\ attempt' = [attempt EXCEPT ![r] = @ + 1]
    /\ lease' = [lease EXCEPT ![r] = Lease]
    /\ nextAttempt' = [nextAttempt EXCEPT ![r] = NoTime]
    /\ SetPhase(r, attempt[r] + 1, "claimed")
    /\ owner' = [owner EXCEPT ![r][attempt[r] + 1] = w]
    /\ UNCHANGED <<decision, stored, rowLock, admitting, beat>>

\* Variant: the recorded decision is not consulted.
DispatchExecute(r, a) ==
    /\ phase[r][a] = "claimed"
    /\ SetPhase(r, a, "execute")
    /\ UNCHANGED <<rowVars, rowLock, admitting, owner, beat>>

\* _resume_or_execute: an approved run resumes, any other executes the graph.
\* mark_running follows; under a claim it only fences the row.
Dispatch(r, a) ==
    /\ phase[r][a] = "claimed"
    /\ SetPhase(r, a, IF decision[r] = "APPROVE" THEN "resume" ELSE "execute")
    /\ UNCHANGED <<rowVars, rowLock, admitting, owner, beat>>

\* fence(): the conditional UPDATE matched and locks the row until commit.
Fence(r, a) == /\ phase[r][a] \in Fenced
               /\ Unlocked(r)
               /\ Owns(r, a)
               /\ rowLock' = [rowLock EXCEPT ![r] = a]
               /\ UNCHANGED <<rowVars, admitting, taskVars>>

\* fence() matched no row: LostLeaseError.  Raised by the ValueError handler
\* itself it ends the task, elsewhere it is retried like any failure.
FenceFails(r, a) ==
    /\ phase[r][a] \in Fenced
    /\ rowLock[r] # a
    /\ ~Owns(r, a)
    /\ IF phase[r][a] = "invalid"
       THEN EndTask(r, a)
       ELSE SetPhase(r, a, "failed") /\ UNCHANGED <<owner, beat>>
    /\ UNCHANGED <<rowVars, rowLock, admitting>>

Unlock(r) == rowLock' = [rowLock EXCEPT ![r] = 0]

\* A guarded graph node or an authorize() call commits its fence; the columns
\* it refreshes (workflow_state, plan, counters) are not part of the model.
Progress(r, a) == /\ rowLock[r] = a
                  /\ phase[r][a] \in {"execute", "resume"}
                  /\ Unlock(r)
                  /\ UNCHANGED <<rowVars, admitting, taskVars>>

\* run_agent_workflow commits tool calls, evidence, hypotheses and tests.
PersistArtifacts(r, a) ==
    /\ rowLock[r] = a
    /\ phase[r][a] = "execute"
    /\ stored' = [stored EXCEPT ![r] = a]
    /\ SetPhase(r, a, "persisted")
    /\ Unlock(r)
    /\ UNCHANGED <<status, worker, attempt, lease, nextAttempt, decision, admitting, owner, beat>>

\* The statuses mark_status() is called with in each phase.
Outcomes(p) == CASE p = "persisted" -> WorkflowOutcome
                 [] p = "resume" -> ResumeOutcome
                 [] OTHER -> {"NEEDS_HUMAN_INTERVENTION"}

\* mark_status() by the execution, by _halt or by the ValueError handler: the
\* table allows it, the row is updated, a finished run drops its claim.
MarkStatus(r, a) == \E s \in Outcomes(phase[r][a]) :
    /\ rowLock[r] = a
    /\ phase[r][a] \in {"persisted", "resume", "halting", "invalid"}
    /\ <<status[r], s>> \in RunTransitions
    /\ SetStatus(r, s)
    /\ IF s \in Terminal THEN Disown(r) ELSE UNCHANGED <<worker, lease>>
    /\ Unlock(r)
    /\ CASE phase[r][a] = "invalid" -> EndTask(r, a)
         [] phase[r][a] = "halting" -> SetPhase(r, a, "returned") /\ UNCHANGED <<owner, beat>>
         [] OTHER -> SetPhase(r, a, "marked") /\ UNCHANGED <<owner, beat>>
    /\ UNCHANGED <<attempt, nextAttempt, decision, stored, admitting>>

\* The execution wrote its audit record and returned its result.
Return(r, a) == /\ phase[r][a] = "marked"
                /\ SetPhase(r, a, "returned")
                /\ UNCHANGED <<rowVars, rowLock, admitting, owner, beat>>

\* run_timeout_seconds ran out: the execution is cancelled and _halt begins.
TimeOut(r, a) == /\ phase[r][a] \in {"execute", "persisted", "resume", "marked"}
                 /\ SetPhase(r, a, "halting")
                 /\ Rollback(r, a)
                 /\ UNCHANGED <<rowVars, admitting, owner, beat>>

\* _halt finds a status it may not move to NEEDS_HUMAN_INTERVENTION.
HaltSkips(r, a) ==
    /\ phase[r][a] = "halting"
    /\ rowLock[r] # a
    /\ <<status[r], "NEEDS_HUMAN_INTERVENTION">> \notin RunTransitions
    /\ SetPhase(r, a, "returned")
    /\ UNCHANGED <<rowVars, rowLock, admitting, owner, beat>>

\* A database, network or remote error escapes the execution.
Fail(r, a) == /\ phase[r][a] \in Executing \cup {"returned"}
              /\ SetPhase(r, a, "failed")
              /\ Rollback(r, a)
              /\ UNCHANGED <<rowVars, admitting, owner, beat>>

\* A ValueError or TypeError does: missing checkpoint, changed binding, ...
RejectInput(r, a) == /\ phase[r][a] \in {"execute", "resume"}
                     /\ SetPhase(r, a, "invalid")
                     /\ Rollback(r, a)
                     /\ UNCHANGED <<rowVars, admitting, owner, beat>>

\* release_claim: clear the row if it still carries this claim.
Release(r, a) ==
    /\ phase[r][a] = "returned"
    /\ IF Matches(r, a) THEN Unlocked(r) /\ Disown(r) ELSE UNCHANGED <<worker, lease>>
    /\ EndTask(r, a)
    /\ UNCHANGED <<status, attempt, nextAttempt, decision, stored, rowLock, admitting>>

\* retry_claim on a row this claim still owns.
Retry(r, a) ==
    /\ phase[r][a] = "failed"
    /\ Owns(r, a)
    /\ Unlocked(r)
    /\ IF attempt[r] >= MaxAttempts
       THEN SetStatus(r, "NEEDS_HUMAN_INTERVENTION") /\ UNCHANGED nextAttempt
       ELSE /\ SetStatus(r, "PENDING")
            /\ nextAttempt' = [nextAttempt EXCEPT ![r] = RetryDelay(a)]
    /\ Disown(r)
    /\ EndTask(r, a)
    /\ UNCHANGED <<attempt, decision, stored, rowLock, admitting>>

\* retry_claim on any other row: LOST_LEASE, or its status is left as it is.
RetryTooLate(r, a) == /\ phase[r][a] = "failed"
                      /\ ~Owns(r, a)
                      /\ EndTask(r, a)
                      /\ UNCHANGED <<rowVars, rowLock, admitting>>

\* The process crashes or is stopped, or the failure handler itself fails: the
\* task is gone and the row keeps its claim until the lease runs out.
Abandon(r, a) == /\ phase[r][a] \in Live
                 /\ EndTask(r, a)
                 /\ Rollback(r, a)
                 /\ UNCHANGED <<rowVars, admitting>>

\* ------------------------------------------------------------------------
\* The heartbeat of a claim, and time.

\* renew_lease reads the database clock; its UPDATE runs later.
ReadClock(r, a) == /\ phase[r][a] \in Live
                   /\ beat[r][a] = NoBeat
                   /\ Owns(r, a)
                   /\ beat' = [beat EXCEPT ![r][a] = 0]
                   /\ UNCHANGED <<rowVars, rowLock, admitting, phase, owner>>

\* The UPDATE of renew_lease, once the row is not locked.  The lease had not
\* run out at the instant the clock was read, and is extended from there.
Renew(r, a) == /\ beat[r][a] # NoBeat
               /\ Matches(r, a) /\ status[r] = "RUNNING"
               /\ Unlocked(r)
               /\ lease' = [lease EXCEPT ![r] = Lease - beat[r][a]]
               /\ beat' = [beat EXCEPT ![r][a] = NoBeat]
               /\ UNCHANGED <<status, worker, attempt, nextAttempt, decision, stored,
                              rowLock, admitting, phase, owner>>

\* The heartbeat ends first: the renewal matched no row, or errors lasted until
\* one beat before the lease would run out.  The execution is cancelled.
HeartbeatEnds(r, a) == /\ phase[r][a] \in Executing
                       /\ Owns(r, a) => lease[r] <= Heartbeat
                       /\ SetPhase(r, a, "failed")
                       /\ beat' = [beat EXCEPT ![r][a] = NoBeat]
                       /\ Rollback(r, a)
                       /\ UNCHANGED <<rowVars, admitting, owner>>

CountDown(t) == IF t > 0 THEN t - 1 ELSE t

\* One tick: timers run down, unfinished renewals grow older.
Tick == /\ lease' = [r \in Run |-> CountDown(lease[r])]
        /\ nextAttempt' = [r \in Run |-> CountDown(nextAttempt[r])]
        /\ beat' = [r \in Run |-> [a \in Attempt |->
                       IF beat[r][a] \in 0 .. (Lease - 1) THEN beat[r][a] + 1
                                                           ELSE beat[r][a]]]
        /\ UNCHANGED <<status, worker, attempt, decision, stored,
                       rowLock, admitting, phase, owner>>

\* ------------------------------------------------------------------------

\* Steps that bring a task nearer to its end.
TaskStep(r, a) ==
    \/ Dispatch(r, a) \/ FenceFails(r, a) \/ TimeOut(r, a) \/ HaltSkips(r, a)
    \/ PersistArtifacts(r, a) \/ MarkStatus(r, a) \/ Return(r, a)
    \/ Fail(r, a) \/ RejectInput(r, a)
    \/ Release(r, a) \/ Retry(r, a) \/ RetryTooLate(r, a)

Api(r) == \/ AdmitCount(r) \/ AdmitCommit(r) \/ AdmitAbort(r)
          \/ \E d \in {"APPROVE", "REJECT"} : Decide(r, d)

Task(r, a) == \/ TaskStep(r, a) \/ Fence(r, a) \/ Progress(r, a) \/ Abandon(r, a)
              \/ ReadClock(r, a) \/ Renew(r, a) \/ HeartbeatEnds(r, a)

Next == \/ \E r \in Run : Api(r)
        \/ ExpireExhausted
        \/ \E w \in Worker, r \in Run : Claim(w, r)
        \/ \E r \in Run, a \in Attempt : Task(r, a)
        \/ Tick

Spec == Init /\ [][Next]_vars

\* Time passes, some worker keeps polling, an admission transaction ends, and a
\* task cannot stay for ever: run_timeout_seconds bounds the execution and the
\* rest of _execute_claim is a few statements.  Nothing makes a human decide.
Fairness == /\ WF_vars(Tick)
            /\ WF_vars(ExpireExhausted)
            /\ WF_vars(\E w \in Worker, r \in Run : Claim(w, r))
            /\ \A r \in Run : WF_vars(AdmitCommit(r) \/ AdmitAbort(r))
            /\ \A r \in Run, a \in Attempt : WF_vars(TaskStep(r, a) \/ Abandon(r, a))

FairSpec == Spec /\ Fairness

\* ------------------------------------------------------------------------
\* Properties.

\* Types of the columns, the locks and the task variables.
TypeOK ==
    /\ status \in [Run -> Status]
    /\ worker \in [Run -> Worker \cup {NoWorker}]
    /\ attempt \in [Run -> 0 .. MaxAttempts]
    /\ lease \in [Run -> NoTime .. Lease]
    /\ nextAttempt \in [Run -> NoTime .. MaxDelay]
    /\ decision \in [Run -> Decision]
    /\ stored \in [Run -> 0 .. MaxAttempts]
    /\ rowLock \in [Run -> 0 .. MaxAttempts]
    /\ admitting \subseteq Run
    /\ phase \in [Run -> [Attempt -> Phase]]
    /\ owner \in [Run -> [Attempt -> Worker \cup {NoWorker}]]
    /\ beat \in [Run -> [Attempt -> NoBeat .. Lease]]

\* A RUNNING row always carries a worker and a lease.  claim_next_run skips rows
\* whose lease is NULL, so a late release_claim that cleared the lease of a newer
\* claim would strand the run in RUNNING for ever.
NoStrandedRun ==
    \A r \in Run : status[r] = "RUNNING" => worker[r] # NoWorker /\ lease[r] # NoTime

\* While the transaction a fence opened is uncommitted, the row cannot change
\* hands: no claim, expiry, retry, release or decision slips in before its write
\* ("another claimer cannot interleave a final write", ownership.py).
LockedRowKeepsOwner ==
    \A r \in Run : rowLock[r] # 0 =>
        status[r] = "RUNNING" /\ attempt[r] = rowLock[r]
        /\ phase[r][rowLock[r]] \in Fenced /\ Matches(r, rowLock[r])

\* What a human is asked to approve was stored by the attempt that parked the
\* run, never by an earlier or a superseded one.
ParkedByArtifactWriter ==
    \A r \in Run : status[r] = "WAITING_APPROVAL" => stored[r] = attempt[r]

\* The status of a run agrees with the human decision: nothing is decided before
\* the run waits, a rejected run stays with the human, an approved run neither
\* waits nor investigates again, and only an approved run is resolved.
DecisionRespected ==
    \A r \in Run :
        /\ status[r] \in {"ABSENT", "WAITING_APPROVAL"} => decision[r] = "NONE"
        /\ decision[r] = "REJECT" => status[r] = "NEEDS_HUMAN_INTERVENTION"
        /\ decision[r] = "APPROVE" => status[r] \notin {"INVESTIGATION_COMPLETE",
                                                        "INSUFFICIENT_EVIDENCE"}
        /\ status[r] = "RESOLVED" => decision[r] = "APPROVE"

Fresh == {r \in Run : status[r] = "PENDING" /\ attempt[r] = 0}

\* Runs that were admitted and never claimed stay within MAX_QUEUED_RUNS, however
\* many requests count the queue at once.  (Requeued and approved runs come on top.)
FreshQueueBounded == Cardinality(Fresh) <= MaxQueued

\* A queued run that nobody has decided can still be claimed: no retry, crash or expiry
\* leaves it in the queue without an attempt.  (An approval may: see QueuedRunIsServed.)
UndecidedRunsAreClaimable ==
    \A r \in Run : status[r] = "PENDING" /\ decision[r] = "NONE" => attempt[r] < MaxAttempts

\* The inductive invariant.  RowInv adds to the properties of a row that artifacts
\* come from no later attempt than the current one and that a row past the queue
\* has been claimed.
RowInv(r) ==
    /\ attempt[r] = 0 => status[r] \in {"ABSENT", "PENDING"}
    /\ status[r] = "RUNNING" => worker[r] # NoWorker /\ lease[r] # NoTime
    /\ stored[r] <= attempt[r]
    /\ status[r] = "WAITING_APPROVAL" => stored[r] = attempt[r]
    /\ status[r] \in {"ABSENT", "WAITING_APPROVAL"} => decision[r] = "NONE"
    /\ decision[r] = "REJECT" => status[r] = "NEEDS_HUMAN_INTERVENTION"
    /\ decision[r] = "APPROVE" => status[r] \notin {"INVESTIGATION_COMPLETE",
                                                    "INSUFFICIENT_EVIDENCE"}
    /\ status[r] = "RESOLVED" => decision[r] = "APPROVE"
    /\ r \in admitting => status[r] = "ABSENT"

\* What the phase of the task of claim <<r, a>> implies about its row, as long as
\* no later claim was made.
TaskInv(r, a) ==
    /\ attempt[r] < a => phase[r][a] = "none"
    /\ phase[r][a] \in Live => owner[r][a] \in Worker
    /\ phase[r][a] = "resume" => decision[r] = "APPROVE"
    /\ rowLock[r] = a => /\ status[r] = "RUNNING"
                         /\ attempt[r] = a
                         /\ worker[r] = owner[r][a]
                         /\ phase[r][a] \in Fenced
    /\ attempt[r] = a =>
        /\ phase[r][a] \in {"marked", "returned"} => status[r] # "RUNNING"
        /\ phase[r][a] \in {"claimed", "execute"} => stored[r] < a
        /\ phase[r][a] = "persisted" => stored[r] = a
        /\ phase[r][a] \in {"execute", "persisted"} /\ status[r] = "RUNNING"
               => decision[r] = "NONE"

Inv == TypeOK /\ \A r \in Run : RowInv(r) /\ \A a \in Attempt : TaskInv(r, a)

\* The invariant of admission: the one transaction that has counted the queue
\* still has room for the run it will insert.
AdmissionInv ==
    /\ \A p, q \in admitting : p = q
    /\ admitting # {} => Cardinality(Fresh) < MaxQueued
    /\ Cardinality(Fresh) <= MaxQueued

\* A superseded attempt never commits artifacts: when stored changes, it becomes
\* the attempt that owns the row, and it never goes back to an earlier one.
ArtifactsFenced ==
    [][\A r \in Run : stored'[r] # stored[r] =>
           stored'[r] = attempt[r] /\ stored'[r] > stored[r]]_vars

\* A RUNNING row ends, parks or goes back to the queue in one way only: its current
\* attempt writes it as a step of its own task, or the last attempt has lost its lease.
\* No task of an earlier claim, no release and no request ever does it instead.
OnlyTheOwnerEnds ==
    [][\A r \in Run : status[r] = "RUNNING" /\ status'[r] # "RUNNING" =>
           \/ phase'[r][attempt[r]] # phase[r][attempt[r]]
           \/ lease[r] = 0 /\ attempt[r] = MaxAttempts]_vars

\* Every status change is one RUN_TRANSITIONS declares, also where the code does
\* not consult the table (claim, retry, expiry, decision); terminal is absorbing.
LegalTransitions ==
    [][\A r \in Run : status[r] \notin {"ABSENT", status'[r]} =>
           <<status[r], status'[r]>> \in RunTransitions]_vars

\* How far the task of a claim has come; a run is over after MaxAttempts tasks.
Rank(p) == CASE p = "none" -> 0
             [] p = "claimed" -> 1
             [] p \in {"execute", "resume"} -> 2
             [] p = "persisted" -> 3
             [] p = "marked" -> 4
             [] p = "halting" -> 5
             [] p \in {"returned", "invalid"} -> 6
             [] p = "failed" -> 7
             [] OTHER -> 8

\* A claim is worked on once: its task never goes back, whatever its execution, its
\* heartbeat, its time limit and its failure handlers do to one another, and the row
\* never goes back to an earlier claim.
TasksAdvance ==
    [][\A r \in Run : /\ attempt'[r] >= attempt[r]
                      /\ \A a \in Attempt : phase'[r][a] # phase[r][a] =>
                             Rank(phase[r][a]) < Rank(phase'[r][a])]_vars

\* The queue implements the life cycle its users see.
Lifecycle == INSTANCE RunLifecycle WITH Embedded <- FALSE
ImplementsLifecycle == Lifecycle!Spec

\* A run nobody has decided yet ends its investigation: it waits for a human or
\* is terminal, whatever crashes, lost leases and retries happen on the way.
InvestigationEnds ==
    \A r \in Run : status[r] = "PENDING" /\ decision[r] = "NONE"
                   ~> status[r] \in {"WAITING_APPROVAL"} \cup Terminal

\* An approved run that has an attempt left is delivered, fails, or goes back to a
\* human; approval does not leave it half done.
ApprovedRunEnds ==
    \A r \in Run : status[r] = "PENDING" /\ decision[r] = "APPROVE" /\ attempt[r] < MaxAttempts
                   ~> status[r] \in Terminal

\* A queued run does not stay queued: a worker claims it or, its attempts being
\* exhausted, it becomes NEEDS_HUMAN_INTERVENTION (docs/adr/012).
QueuedRunIsServed == \A r \in Run : status[r] = "PENDING" ~> status[r] # "PENDING"

\* A lease that ran out is not revived: it stays expired until the row is
\* claimed again or leaves RUNNING (tests/test_audit_reliability.py).
ExpiredLeaseStaysExpired ==
    [][\A r \in Run : lease[r] = 0 /\ attempt'[r] = attempt[r] => lease'[r] <= 0]_vars
=============================================================================
