-------------------------- MODULE ApprovalDelivery --------------------------
(***************************************************************************)
(* Delivery of one approved run to GitHub (agent/approval_resume.py,       *)
(* github/integration.py): the attempts of the run, their transactions,    *)
(* the HTTP requests of the client and the remote repository.              *)
(*                                                                         *)
(* A transaction that begins with a fence is one step here: LeaseQueue     *)
(* shows (LockedRowKeepsOwner) that the row cannot change hands inside it. *)
(* The lease of the current attempt may run out at any time and, as        *)
(* LeaseQueue shows, a late renewal may revive it.  A commit is named by   *)
(* the attempt that created it; all of them carry the approved tree.       *)
(* People merge the pull request, with or without a merge commit, or close *)
(* it, and delete its branch; they do not reopen it or restore the branch. *)
(***************************************************************************)
EXTENDS Integers

CONSTANT MaxAttempts    \* attempts left to the run when it is approved

ASSUME AttemptAssumption == MaxAttempts \in Nat \ {0}

VARIABLES
    \* the control plane
    status,     \* agent_runs.status
    attempt,    \* agent_runs.attempt_count
    leased,     \* lease_expires_at lies in the future
    effect,     \* external_side_effects.status of this run
    holder,     \* attempt whose connection holds the workflow advisory lock
    \* the task of each attempt
    pc,         \* what it does next
    auth,       \* authorize() committed, the request it covers not yet sent
    seen,       \* head of the newest pull request its last query returned
    ref,        \* commit of the branch as it read it
    late,       \* requests it sent after it was superseded
    \* the remote repository
    branch,     \* commit the branch of the run points to
    pullHead,   \* head of the newest pull request from that branch
    pullState,
    moved,      \* main no longer points to the approved base commit
    wire        \* requests sent and not served yet

control == <<status, attempt, leased, effect>>
client == <<auth, seen, ref, late>>
remote == <<branch, pullHead, pullState, moved, wire>>
vars == <<status, attempt, leased, effect, holder, pc, auth, seen, ref, late,
          branch, pullHead, pullState, moved, wire>>

Attempt == 1 .. MaxAttempts
NoCommit == 0
Foreign == -1           \* a commit with another tree or parent
Commit == {NoCommit, Foreign} \cup Attempt

Terminal == {"RESOLVED", "FAILED", "NEEDS_HUMAN_INTERVENTION"}

\* Steps of the client that are followed by a mutating request.
Posting == {"prepare", "commit", "createRef", "openPull"}
Client == Posting \cup {"listPulls", "checkBase", "getRef", "refSent", "readRef", "verify",
                        "requery", "compare", "pullSent", "reconcile"}
\* Steps that are a transaction with a fence.
Fenced == {"entered", "delivered", "refused", "transient", "completed", "gaveUp", "halting"}
Executing == {"locking", "entered", "delivered", "refused", "transient", "completed", "gaveUp"}
             \cup Client
Phase == {"none", "failed", "halting", "done"} \cup Executing

\* What fence() requires.
Owns(a) == attempt = a /\ status = "RUNNING" /\ leased

\* The claim is gone for good: another attempt started or the run left RUNNING.
Superseded(a) == attempt # a \/ status # "RUNNING"

Goto(a, p) == pc' = [pc EXCEPT ![a] = p]

\* The task leaves the graph: its connection gives the advisory lock back.
Leave(a, p) == /\ Goto(a, p)
               /\ holder' = IF holder = a THEN 0 ELSE holder

Finish(s) == status' = s /\ leased' = FALSE

\* The run has been approved and queued.  The branch name may be taken.
Init == /\ status = "PENDING"
        /\ attempt = 0
        /\ leased = FALSE
        /\ effect = "ABSENT"
        /\ holder = 0
        /\ pc = [a \in Attempt |-> "none"]
        /\ auth = [a \in Attempt |-> FALSE]
        /\ seen = [a \in Attempt |-> NoCommit]
        /\ ref = [a \in Attempt |-> NoCommit]
        /\ late = [a \in Attempt |-> 0]
        /\ branch \in {NoCommit, Foreign}
        /\ pullHead = NoCommit
        /\ pullState = "none"
        /\ moved \in BOOLEAN
        /\ wire = {}

\* ------------------------------------------------------------------------
\* The claim, as LeaseQueue describes it.

\* Variant: the attempts are not counted.
ClaimForEver == /\ status = "PENDING" \/ (status = "RUNNING" /\ ~leased)
                /\ status' = "RUNNING"
                /\ attempt' = attempt + 1
                /\ leased' = TRUE
                /\ Goto(attempt + 1, "locking")
                /\ UNCHANGED <<effect, holder, client, remote>>

Claim == /\ status = "PENDING" \/ (status = "RUNNING" /\ ~leased)
         /\ attempt < MaxAttempts
         /\ status' = "RUNNING"
         /\ attempt' = attempt + 1
         /\ leased' = TRUE
         /\ Goto(attempt + 1, "locking")
         /\ UNCHANGED <<effect, holder, client, remote>>

\* The lease runs out, or a late renewal revives it.
LeaseChanges == /\ status = "RUNNING"
                /\ leased' = ~leased
                /\ UNCHANGED <<status, attempt, effect, holder, pc, client, remote>>

Exhausted == /\ status = "RUNNING" /\ ~leased
             /\ attempt >= MaxAttempts
             /\ Finish("NEEDS_HUMAN_INTERVENTION")
             /\ UNCHANGED <<attempt, effect, holder, pc, client, remote>>

\* ------------------------------------------------------------------------
\* The execution of one attempt, outside the client.

\* workflow_lock: the graph of a run runs on one connection at a time.
Lock(a) == /\ pc[a] = "locking"
           /\ holder = 0
           /\ holder' = a
           /\ Goto(a, "entered")
           /\ UNCHANGED <<control, client, remote>>

\* The connection that pins the lock breaks; nobody looks at it until the end.
LoseLock == /\ holder # 0
            /\ holder' = 0
            /\ UNCHANGED <<control, pc, client, remote>>

\* Variant: a completed effect is not recognised.
EnterAlways(a) == /\ pc[a] = "entered"
                  /\ Owns(a)
                  /\ effect' = "IN_PROGRESS"
                  /\ Goto(a, "listPulls")
                  /\ UNCHANGED <<status, attempt, leased, holder, client, remote>>

\* The transaction that looks the side effect up by its idempotency key.
Enter(a) == /\ pc[a] = "entered"
            /\ Owns(a)
            /\ IF effect = "COMPLETED"
               THEN Goto(a, "completed") /\ UNCHANGED effect
               ELSE Goto(a, "listPulls") /\ effect' = "IN_PROGRESS"
            /\ UNCHANGED <<status, attempt, leased, holder, client, remote>>

\* Variant: the result of the client is recorded without a fence.
RecordUnfenced(a) == /\ pc[a] \in {"delivered", "refused", "transient"}
                     /\ effect' = IF pc[a] = "delivered" THEN "COMPLETED" ELSE "FAILED"
                     /\ CASE pc[a] = "delivered" -> Goto(a, "completed") /\ UNCHANGED holder
                          [] pc[a] = "refused" -> Goto(a, "gaveUp") /\ UNCHANGED holder
                          [] pc[a] = "transient" -> Leave(a, "failed")
                     /\ UNCHANGED <<status, attempt, leased, client, remote>>

\* The transaction that records the client's result; a retryable failure then
\* raises ConnectionError.
Record(a) == /\ pc[a] \in {"delivered", "refused", "transient"}
             /\ Owns(a)
             /\ effect' = IF pc[a] = "delivered" THEN "COMPLETED" ELSE "FAILED"
             /\ CASE pc[a] = "delivered" -> Goto(a, "completed") /\ UNCHANGED holder
                  [] pc[a] = "refused" -> Goto(a, "gaveUp") /\ UNCHANGED holder
                  [] pc[a] = "transient" -> Leave(a, "failed")
             /\ UNCHANGED <<status, attempt, leased, client, remote>>

\* mark_status, the last transaction of the execution or of _halt.
Mark(a) == /\ Owns(a)
           /\ \/ pc[a] = "completed" /\ Finish("RESOLVED")
              \/ pc[a] = "gaveUp" /\ Finish("FAILED")
              \/ pc[a] = "halting" /\ Finish("NEEDS_HUMAN_INTERVENTION")
           /\ Leave(a, "done")
           /\ UNCHANGED <<attempt, effect, client, remote>>

\* LostLeaseError, from any of these transactions.
FenceFails(a) == /\ pc[a] \in Fenced
                 /\ ~Owns(a)
                 /\ Leave(a, "failed")
                 /\ UNCHANGED <<control, client, remote>>

\* The run timeout cancels the execution, or a ValueError (checkpoint missing,
\* binding changed) ends it; both hand the run to a human.
TimeOut(a) == /\ pc[a] \in Executing
              /\ Leave(a, "halting")
              /\ UNCHANGED <<control, client, remote>>

\* The heartbeat cancels the execution, or a database error escapes it.
Fail(a) == /\ pc[a] \in Executing \cup {"halting"}
           /\ Leave(a, "failed")
           /\ UNCHANGED <<control, client, remote>>

\* retry_claim.
Retry(a) == /\ pc[a] = "failed"
            /\ IF Owns(a)
               THEN Finish(IF attempt >= MaxAttempts THEN "NEEDS_HUMAN_INTERVENTION" ELSE "PENDING")
               ELSE UNCHANGED <<status, leased>>
            /\ Goto(a, "done")
            /\ UNCHANGED <<attempt, effect, holder, client, remote>>

\* The worker process dies.
Crash(a) == /\ pc[a] \notin {"none", "done"}
            /\ Leave(a, "done")
            /\ UNCHANGED <<control, client, remote>>

\* ------------------------------------------------------------------------
\* The HTTP client, acreate_pull_request.

\* GET pulls with state=all; the newest comes first.
ListPulls(a) == /\ pc[a] \in {"listPulls", "requery"}
                /\ seen' = [seen EXCEPT ![a] = pullHead]
                /\ Goto(a, IF pc[a] = "listPulls" THEN "checkBase" ELSE "compare")
                /\ UNCHANGED <<control, holder, auth, ref, late, remote>>

\* GET main: the approval holds for one base commit.
CheckBase(a) == /\ pc[a] = "checkBase"
                /\ Goto(a, IF moved THEN "refused" ELSE "prepare")
                /\ UNCHANGED <<control, holder, client, remote>>

\* Variant: authorize() does not fence.
AuthorizeAny(a) == /\ pc[a] \in Posting
                   /\ auth' = [auth EXCEPT ![a] = TRUE]
                   /\ UNCHANGED <<control, holder, pc, seen, ref, late, remote>>

\* authorize(): a fence of its own before every mutating request.
Authorize(a) == /\ pc[a] \in Posting
                /\ Owns(a)
                /\ auth' = [auth EXCEPT ![a] = TRUE]
                /\ UNCHANGED <<control, holder, pc, seen, ref, late, remote>>

\* The mutating requests.  Blobs, trees and commits are content-addressed and
\* refer to nothing, so only the ref and the pull request go over the wire.
Post(a) == /\ pc[a] \in Posting
           /\ auth[a]
           /\ auth' = [auth EXCEPT ![a] = FALSE]
           /\ late' = [late EXCEPT ![a] = IF Superseded(a) /\ @ < 2 THEN @ + 1 ELSE @]
           /\ CASE pc[a] = "prepare" ->
                     (Goto(a, "prepare") \/ Goto(a, "getRef")) /\ UNCHANGED wire
                [] pc[a] = "commit" -> Goto(a, "createRef") /\ UNCHANGED wire
                [] pc[a] = "createRef" -> Goto(a, "refSent") /\ wire' = wire \cup {<<a, "ref">>}
                [] pc[a] = "openPull" -> Goto(a, "pullSent") /\ wire' = wire \cup {<<a, "pull">>}
           /\ UNCHANGED <<control, holder, seen, ref, branch, pullHead, pullState, moved>>

\* GET the branch: 404 makes a commit and a ref, anything else is verified.
GetRef(a) == /\ pc[a] = "getRef"
             /\ ref' = [ref EXCEPT ![a] = branch]
             /\ Goto(a, IF branch = NoCommit THEN "commit" ELSE "verify")
             /\ UNCHANGED <<control, holder, auth, seen, late, remote>>

\* GET it again after POST refs, whatever that answered.
ReadRef(a) == /\ pc[a] = "readRef"
              /\ ref' = [ref EXCEPT ![a] = branch]
              /\ Goto(a, IF branch = NoCommit THEN "refused" ELSE "verify")
              /\ UNCHANGED <<control, holder, auth, seen, late, remote>>

\* Variant: pull requests are not queried again before one is opened.
VerifyOnly(a) == /\ pc[a] = "verify"
                 /\ Goto(a, IF ref[a] = Foreign THEN "refused" ELSE "compare")
                 /\ UNCHANGED <<control, holder, client, remote>>

\* The commit must have the approved tree and parent.  Pull requests are queried
\* again if there were none: another recovery may have completed meanwhile.
Verify(a) == /\ pc[a] = "verify"
             /\ Goto(a, IF ref[a] = Foreign THEN "refused"
                        ELSE IF seen[a] = NoCommit THEN "requery" ELSE "compare")
             /\ UNCHANGED <<control, holder, client, remote>>

\* An existing pull request must have the commit of the branch as its head.
Compare(a) == /\ pc[a] = "compare"
              /\ Goto(a, CASE seen[a] = NoCommit -> "openPull"
                           [] seen[a] = ref[a] -> "delivered"
                           [] OTHER -> "refused")
              /\ UNCHANGED <<control, holder, client, remote>>

\* After 422 the pull request that is there must have the right head.
Reconcile(a) == /\ pc[a] = "reconcile"
                /\ Goto(a, IF pullHead = ref[a] THEN "delivered" ELSE "refused")
                /\ UNCHANGED <<control, holder, client, remote>>

\* A timeout, a network error, 429 or 5xx: retryable.  The request may still be
\* on the wire or have been served.
Transient(a) == /\ pc[a] \in Client
                /\ Goto(a, "transient")
                /\ auth' = [auth EXCEPT ![a] = FALSE]
                /\ UNCHANGED <<control, holder, seen, ref, late, remote>>

\* Any other exception inside the client is a final refusal: a patch that does not
\* apply, a 4xx answer (the request was not carried out), a connection closed
\* without an answer (it may have been), but also a database error or a lost lease
\* that authorize() raises.
Refused(a) == /\ pc[a] \in Client
              /\ wire' \in {wire, wire \ {<<a, k>> : k \in {"ref", "pull"}}}
              /\ Goto(a, "refused")
              /\ auth' = [auth EXCEPT ![a] = FALSE]
              /\ UNCHANGED <<control, holder, seen, ref, late, branch, pullHead, pullState, moved>>

\* ------------------------------------------------------------------------
\* The remote repository.

\* The answer reaches the task only if it still waits for it.
Answer(a, waiting, next) == IF pc[a] = waiting THEN Goto(a, next) ELSE UNCHANGED pc

\* POST refs creates the branch, 201, or finds one, 422; the client reads it next.
ServeRef(a) == /\ <<a, "ref">> \in wire
               /\ wire' = wire \ {<<a, "ref">>}
               /\ branch' = IF branch = NoCommit THEN a ELSE branch
               /\ Answer(a, "refSent", "readRef")
               /\ UNCHANGED <<control, holder, client, pullHead, pullState, moved>>

\* POST pulls is refused, 422, if the branch is missing, has a pull request open, or
\* has no commit that main lacks, which a merge commit brings about and a squash does not.
CanOpen == /\ branch # NoCommit
           /\ pullState # "open"
           /\ pullState = "merged" => branch # pullHead

ServePull(a) == /\ <<a, "pull">> \in wire
                /\ wire' = wire \ {<<a, "pull">>}
                /\ IF CanOpen
                   THEN /\ pullHead' = branch
                        /\ pullState' = "open"
                        /\ Answer(a, "pullSent", "delivered")
                   ELSE /\ UNCHANGED <<pullHead, pullState>>
                        /\ Answer(a, "pullSent", "reconcile")
                /\ UNCHANGED <<control, holder, client, branch, moved>>

\* People merge the pull request, which moves main, or close it unmerged.
Merge == /\ pullState = "open"
         /\ pullState' \in {"merged", "squashed"}
         /\ moved' = TRUE
         /\ UNCHANGED <<control, holder, pc, client, branch, pullHead, wire>>

Close == /\ pullState = "open"
         /\ pullState' = "closed"
         /\ UNCHANGED <<control, holder, pc, client, branch, pullHead, moved, wire>>

\* People delete the branch of a pull request they have dealt with.
DeleteBranch == /\ pullState \in {"merged", "squashed", "closed"} /\ branch = pullHead
                /\ branch' = NoCommit
                /\ UNCHANGED <<control, holder, pc, client, pullHead, pullState, moved, wire>>

MainMoves == /\ ~moved
             /\ moved' = TRUE
             /\ UNCHANGED <<control, holder, pc, client, branch, pullHead, pullState, wire>>

\* ------------------------------------------------------------------------

ClientStep(a) == \/ ListPulls(a) \/ CheckBase(a) \/ Authorize(a) \/ Post(a)
                 \/ GetRef(a) \/ ReadRef(a) \/ Verify(a) \/ Compare(a) \/ Reconcile(a)
                 \/ Transient(a) \/ Refused(a)

Execution(a) == \/ Lock(a) \/ Enter(a) \/ Record(a) \/ Mark(a) \/ FenceFails(a)
                \/ TimeOut(a) \/ Fail(a) \/ Retry(a) \/ Crash(a)

Remote == \/ \E a \in Attempt : ServeRef(a) \/ ServePull(a)
          \/ Merge \/ Close \/ DeleteBranch \/ MainMoves

Next == \/ Claim \/ LeaseChanges \/ Exhausted \/ LoseLock
        \/ \E a \in Attempt : Execution(a) \/ ClientStep(a)
        \/ Remote

Spec == Init /\ [][Next]_vars

\* ------------------------------------------------------------------------
\* Properties.

TypeOK == /\ status \in {"PENDING", "RUNNING"} \cup Terminal
          /\ attempt \in 0 .. MaxAttempts
          /\ leased \in BOOLEAN
          /\ effect \in {"ABSENT", "IN_PROGRESS", "COMPLETED", "FAILED"}
          /\ holder \in 0 .. MaxAttempts
          /\ pc \in [Attempt -> Phase]
          /\ auth \in [Attempt -> BOOLEAN]
          /\ seen \in [Attempt -> Commit]
          /\ ref \in [Attempt -> Commit]
          /\ late \in [Attempt -> 0 .. 2]
          /\ branch \in Commit
          /\ pullHead \in Commit
          /\ pullState \in {"none", "open", "merged", "squashed", "closed"}
          /\ moved \in BOOLEAN
          /\ wire \subseteq Attempt \X {"ref", "pull"}

\* Attempts that will have a pull request opened, having found none: the request is on
\* the wire, or nothing but authorize() stands before it.
Opening == {a \in Attempt : \/ pc[a] = "compare" /\ seen[a] = NoCommit
                            \/ pc[a] = "openPull"
                            \/ <<a, "pull">> \in wire}

\* The approved commit is pushed to a free branch only, pull requests are opened for it
\* alone and by those alone who found none, and RESOLVED means that one exists: Delivery,
\* seen through the names of the commits.
Abstract == INSTANCE Delivery WITH
    outcome <- IF status \in Terminal THEN status ELSE "open",
    branch <- CASE branch = NoCommit -> "none"
                [] branch = Foreign -> "foreign"
                [] OTHER -> "approved",
    pull <- IF pullState = "squashed" THEN "merged" ELSE pullState,
    willing <- Opening
ImplementsDelivery == Abstract!Spec

\* The row moves along the life cycle of an approved run.
Lifecycle == INSTANCE RunLifecycle WITH
    Run <- {"run"}, Embedded <- FALSE,
    status <- [r \in {"run"} |-> status], decision <- [r \in {"run"} |-> "APPROVE"]
RowFollowsLifecycle == [][Lifecycle!Next]_(Lifecycle!vars)

\* "A stale worker no longer writes": authorize() before every mutating request
\* leaves a superseded attempt one request at most, the one already authorized.
AtMostOneLateRequest == \A a \in Attempt : late[a] <= 1

\* Once the effect is recorded as completed, no attempt that still owns the run is
\* inside the client: recovery recognises the effect and sends nothing.
NoRedelivery == effect = "COMPLETED" => \A a \in Attempt : Owns(a) => pc[a] \notin Client

\* A completed effect stays completed, whatever older attempts still record.
CompletedIsFinal == [][effect = "COMPLETED" => effect' = "COMPLETED"]_vars

\* A pull request that recovery finds with the approved commit as its head is
\* recovered, not given up: "remote branch/PR are queried first, then recovered"
\* (docs/ARCHITECTURE.md), also adr/012.
FoundPullIsRecovered ==
    [][status # "FAILED" /\ status' = "FAILED" =>
           seen[attempt] = NoCommit \/ seen[attempt] # branch]_vars
\* ------------------------------------------------------------------------
\* The inductive invariant, a conjunction over attempts.

\* The steps of the client after it has verified the commit of the branch.
Verified == {"requery", "compare", "openPull", "pullSent", "reconcile"}

\* Attempts that have not been claimed have done nothing.
Fresh(a) == a > attempt => pc[a] = "none" /\ ~auth[a] /\ late[a] = 0

\* Only an authorization from before the takeover leaves a request to a superseded attempt.
LateOnce(a) == /\ late[a] <= 1
               /\ auth[a] \/ ~Superseded(a) => late[a] = 0

\* The attempt that holds the run is past the client once the effect is completed.
PastClient(a) == effect = "COMPLETED" /\ ~Superseded(a) =>
                     pc[a] \notin Client \cup {"delivered", "refused", "transient"}

\* An attempt asks for a pull request once, at the end of the client.
AsksOnce(a) == <<a, "pull">> \in wire =>
                   pc[a] \notin {"none", "locking", "entered"} \cup (Client \ {"pullSent"})

\* What an attempt has read of the remote repository is still good for something:
\* a pull request stays, and a branch that somebody else's commit took stays taken.
ReadIsGood(a) ==
    /\ seen[a] # NoCommit => pullState # "none"
    /\ pc[a] = "verify" => ref[a] # NoCommit /\ (branch = Foreign => ref[a] = Foreign)
    /\ pc[a] \in Verified => ref[a] \in Attempt /\ branch # Foreign
    /\ <<a, "pull">> \in wire => branch # Foreign
    /\ pc[a] \in {"delivered", "completed"} => pullState # "none"

AttemptInv(a) == Fresh(a) /\ LateOnce(a) /\ PastClient(a) /\ AsksOnce(a) /\ ReadIsGood(a)

\* A pull request has a head, and a completed effect has a pull request.
RemoteAgrees == /\ pullHead = NoCommit <=> pullState = "none"
                /\ effect = "COMPLETED" => pullState # "none"

Inv == TypeOK /\ RemoteAgrees /\ \A a \in Attempt : AttemptInv(a)
=============================================================================
