--------------------------- MODULE MCDeployments ---------------------------
(***************************************************************************)
(* The API in its two deployments, for TLC: its own process runs what it   *)
(* admits (EmbeddedExecutor), or workers claim it from the queue           *)
(* (LeaseQueue).  The setting is read once, when the process starts; the   *)
(* executor or the queue that no request reaches stays as it is.           *)
(***************************************************************************)
EXTENDS EmbeddedExecutor

CONSTANTS QueuedRun, Worker, NoWorker, MaxAttempts, MaxQueued, Concurrency,
          Lease, Heartbeat, MaxDelay

VARIABLES embedded,   \* settings.embedded_worker_enabled
          rowStatus, rowDecision, worker, attempt, lease, nextAttempt, stored,
          rowLock, admitting, claimPhase, owner, beat

queueVars == <<rowStatus, rowDecision, worker, attempt, lease, nextAttempt, stored,
               rowLock, admitting, claimPhase, owner, beat>>

Queue == INSTANCE LeaseQueue WITH
    Run <- QueuedRun, status <- rowStatus, decision <- rowDecision, phase <- claimPhase

\* Workers and their leases need PostgreSQL.
DeploymentInit == /\ Init
                  /\ Queue!Init
                  /\ embedded \in BOOLEAN
                  /\ embedded \/ durable

DeploymentNext == /\ UNCHANGED embedded
                  /\ \/ embedded /\ Next /\ UNCHANGED queueVars
                     \/ ~embedded /\ Queue!Next /\ UNCHANGED vars

DeploymentSpec == /\ DeploymentInit
                  /\ [][DeploymentNext]_<<embedded, vars, queueVars>>
                  /\ Fairness
                  /\ Queue!Fairness

\* The properties of LeaseQueue that take two runs.
FreshQueueBounded == Queue!FreshQueueBounded
InvestigationEnds == Queue!InvestigationEnds
ApprovedRunEnds == Queue!ApprovedRunEnds
=============================================================================
