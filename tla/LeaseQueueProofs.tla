-------------------------- MODULE LeaseQueueProofs --------------------------
(***************************************************************************)
(* Proofs about LeaseQueue, for every value of its constants: the          *)
(* inductive invariant Inv and what follows from it, the refinement of     *)
(* RunLifecycle, and the bound on the queue.  The invariant is a           *)
(* conjunction over runs and claims and each action touches one run, so    *)
(* the proof has one lemma per action, which shows the invariant of that   *)
(* run, and OneRunChanges, which extends it to all runs.                   *)
(***************************************************************************)
EXTENDS LeaseQueue, TLAPS, FiniteSetTheorems

\* The task of claim <<r, a>> moves to phase p and no other task moves.
Moves(r, a, p) ==
    /\ phase' \in [Run -> [Attempt -> Phase]]
    /\ phase'[r][a] = p
    /\ \A q \in Run, b \in Attempt : q # r \/ b # a => phase'[q][b] = phase[q][b]

\* Only the owner of the task of claim <<r, a>> changes, to w.
Owned(r, a, w) ==
    /\ owner' \in [Run -> [Attempt -> Worker \cup {NoWorker}]]
    /\ owner'[r][a] = w
    /\ \A q \in Run, b \in Attempt : q # r \/ b # a => owner'[q][b] = owner[q][b]

\* Heartbeats keep their type.
Beats(r, a) == beat' \in [Run -> [Attempt -> NoBeat .. Lease]]

\* What EndTask(r, a) does, in the form the invariant needs.
Ends(r, a) == Moves(r, a, "done") /\ Owned(r, a, NoWorker) /\ Beats(r, a)

\* Rollback(r, a) takes away at most the row lock of a.
Undone(r, a) ==
    /\ rowLock' \in [Run -> 0 .. MaxAttempts]
    /\ \A b \in Attempt : rowLock'[r] = b => rowLock[r] = b /\ b # a
    /\ \A q \in Run \ {r} : rowLock'[q] = rowLock[q]

\* Nothing the invariant says of run q is disturbed.
SameRun(q) ==
    /\ status'[q] = status[q] /\ worker'[q] = worker[q] /\ attempt'[q] = attempt[q]
    /\ lease'[q] = lease[q] /\ decision'[q] = decision[q]
    /\ stored'[q] = stored[q] /\ rowLock'[q] = rowLock[q]
    /\ q \in admitting' => q \in admitting
    /\ \A b \in Attempt : phase'[q][b] = phase[q][b] /\ owner'[q][b] = owner[q][b]

\* A power of two is a natural number: it is the size of a power set.  The retry
\* delay of worker.py is built from one.
LEMMA PowerNat == ASSUME NEW n \in Nat PROVE 2 ^ n \in Nat
<1>1. IsFiniteSet(1 .. n) /\ Cardinality(1 .. n) = n
  BY FS_Interval
<1>2. IsFiniteSet(SUBSET (1 .. n)) /\ Cardinality(SUBSET (1 .. n)) = 2 ^ n
  BY <1>1, FS_SUBSET
<1> QED
  BY <1>2, FS_CardinalityType

\* The retry delay min(30, 2 ** (attempt - 1)) stays within its cap.
LEMMA RetryDelayType ==
  ASSUME NEW x \in Attempt PROVE RetryDelay(x) \in 0 .. MaxDelay
<1>1. x - 1 \in Nat
  BY DEF Attempt
<1>2. 2 ^ (x - 1) \in Nat
  BY <1>1, PowerNat
<1>. DEFINE d == 2 ^ (x - 1)
<1>3. d \in Nat
  BY <1>2
<1>. HIDE DEF d
<1>4. Smaller(MaxDelay, d) \in 0 .. MaxDelay
  BY <1>3, TimeAssumption DEF Smaller
<1> QED
  BY <1>4 DEF RetryDelay, d

\* Writing one phase leaves every other task where it is.
LEMMA SetPhaseMoves ==
  ASSUME TypeOK, NEW r \in Run, NEW a \in Attempt, NEW p \in Phase,
         SetPhase(r, a, p)
  PROVE Moves(r, a, p)
<1>1. phase \in [Run -> [Attempt -> Phase]] /\ phase[r] \in [Attempt -> Phase]
  BY DEF TypeOK
<1>2. phase' = [phase EXCEPT ![r] = [phase[r] EXCEPT ![a] = p]]
  BY <1>1 DEF SetPhase
<1>3. [phase[r] EXCEPT ![a] = p] \in [Attempt -> Phase]
  BY <1>1
<1>4. phase' \in [Run -> [Attempt -> Phase]]
  BY <1>1, <1>2, <1>3
<1>5. QED
  BY <1>1, <1>2, <1>4 DEF Moves

\* Writing one owner leaves every other task with its owner.
LEMMA OwnerChanges ==
  ASSUME TypeOK, NEW r \in Run, NEW a \in Attempt, NEW w \in Worker \cup {NoWorker},
         owner' = [owner EXCEPT ![r][a] = w]
  PROVE Owned(r, a, w)
<1>1. /\ owner \in [Run -> [Attempt -> Worker \cup {NoWorker}]]
      /\ owner[r] \in [Attempt -> Worker \cup {NoWorker}]
  BY DEF TypeOK
<1>2. owner' = [owner EXCEPT ![r] = [owner[r] EXCEPT ![a] = w]]
  BY <1>1
<1>3. [owner[r] EXCEPT ![a] = w] \in [Attempt -> Worker \cup {NoWorker}]
  BY <1>1
<1>4. owner' \in [Run -> [Attempt -> Worker \cup {NoWorker}]]
  BY <1>1, <1>2, <1>3
<1>5. QED
  BY <1>1, <1>2, <1>4 DEF Owned

\* Writing one heartbeat keeps the type of heartbeats.
LEMMA BeatChanges ==
  ASSUME TypeOK, NEW r \in Run, NEW a \in Attempt, NEW t \in NoBeat .. Lease,
         beat' = [beat EXCEPT ![r][a] = t]
  PROVE Beats(r, a)
<1>1. beat \in [Run -> [Attempt -> NoBeat .. Lease]] /\ beat[r] \in [Attempt -> NoBeat .. Lease]
  BY DEF TypeOK
<1>2. beat' = [beat EXCEPT ![r] = [beat[r] EXCEPT ![a] = t]]
  BY <1>1
<1>3. [beat[r] EXCEPT ![a] = t] \in [Attempt -> NoBeat .. Lease]
  BY <1>1
<1>4. QED
  BY <1>1, <1>2, <1>3 DEF Beats

\* The end of a task touches that task alone.
LEMMA EndTaskEnds ==
  ASSUME TypeOK, NEW r \in Run, NEW a \in Attempt, EndTask(r, a)
  PROVE Ends(r, a)
<1>1. NoBeat \in NoBeat .. Lease
  BY TimeAssumption DEF NoBeat
<1>2. Moves(r, a, "done")
  BY SetPhaseMoves DEF EndTask, Phase
<1>3. Owned(r, a, NoWorker)
  BY OwnerChanges DEF EndTask
<1>4. Beats(r, a)
  BY <1>1, BeatChanges DEF EndTask
<1>5. QED
  BY <1>2, <1>3, <1>4 DEF Ends

\* A rollback releases the row lock of its own attempt and of no other.
LEMMA RollbackUndoes ==
  ASSUME TypeOK, NEW r \in Run, NEW a \in Attempt, Rollback(r, a)
  PROVE Undone(r, a)
<1>1. CASE rowLock[r] = a
  <2>1. rowLock' = [rowLock EXCEPT ![r] = 0]
    BY <1>1 DEF Rollback
  <2>2. QED
    BY <1>1, <2>1, LimitAssumption DEF TypeOK, Undone, Attempt
<1>2. CASE rowLock[r] # a
  <2>1. rowLock' = rowLock
    BY <1>2 DEF Rollback
  <2>2. QED
    BY <1>2, <2>1 DEF TypeOK, Undone
<1>3. QED
  BY <1>1, <1>2

\* An action that disturbs one run preserves the invariant if it does for that run:
\* rows and tasks of different runs share nothing but the admission lock.
LEMMA OneRunChanges ==
  ASSUME Inv, TypeOK', NEW r \in Run,
         \A q \in Run \ {r} : SameRun(q),
         RowInv(r)', \A b \in Attempt : TaskInv(r, b)'
  PROVE  Inv'
<1>1. ASSUME NEW q \in Run PROVE RowInv(q)'
  <2>1. CASE q = r
    BY <2>1
  <2>2. CASE q # r
    <3>1. RowInv(q) /\ SameRun(q)
      BY <2>2 DEF Inv
    <3>2. QED
      BY <3>1 DEF RowInv, SameRun
  <2>3. QED
    BY <2>1, <2>2
<1>2. ASSUME NEW q \in Run, NEW b \in Attempt PROVE TaskInv(q, b)'
  <2>1. CASE q = r
    BY <2>1
  <2>2. CASE q # r
    <3>1. TaskInv(q, b) /\ SameRun(q)
      BY <2>2 DEF Inv
    <3>2. QED
      BY <3>1 DEF TaskInv, SameRun
  <2>3. QED
    BY <2>1, <2>2
<1>3. QED
  BY <1>1, <1>2 DEF Inv

\* Counting the queue under the advisory lock admits an absent run only.
LEMMA AdmitCountKeeps ==
  ASSUME Inv, NEW r \in Run, AdmitCount(r)
  PROVE  Inv'
<1>0. TypeOK /\ RowInv(r)
  BY DEF Inv
<1>1. TypeOK'
  <2>1. admitting' \subseteq Run
    BY <1>0 DEF AdmitCount, AdmissionLockFree
  <2>. QED
    BY <1>0, <2>1 DEF TypeOK, AdmitCount, rowVars, taskVars
<1>2. ASSUME NEW q \in Run \ {r} PROVE SameRun(q)
  BY <1>0 DEF SameRun, AdmitCount, AdmissionLockFree, rowVars, taskVars
<1>3. RowInv(r)'
  BY <1>0 DEF RowInv, AdmitCount, AdmissionLockFree, rowVars, taskVars
<1>4. ASSUME NEW b \in Attempt PROVE TaskInv(r, b)'
  <2>1. TaskInv(r, b)
    BY DEF Inv
  <2>. QED
    BY <1>0, <2>1 DEF TaskInv, AdmitCount, AdmissionLockFree, rowVars, taskVars
<1> QED
  BY <1>1, <1>2, <1>3, <1>4, OneRunChanges

\* Inserting the PENDING row keeps the invariant.
LEMMA AdmitCommitKeeps ==
  ASSUME Inv, NEW r \in Run, AdmitCommit(r)
  PROVE  Inv'
<1>0. TypeOK /\ RowInv(r)
  BY DEF Inv
<1>1. TypeOK'
  <2>1. status' \in [Run -> Status]
    BY <1>0 DEF TypeOK, AdmitCommit, SetStatus, Status, RowStatus, Terminal
  <2>2. admitting' \subseteq Run
    BY <1>0 DEF TypeOK, AdmitCommit, SetStatus
  <2>. QED
    BY <1>0, <2>1, <2>2 DEF TypeOK, AdmitCommit, taskVars
<1>2. ASSUME NEW q \in Run \ {r} PROVE SameRun(q)
  BY <1>0 DEF SameRun, AdmitCommit, SetStatus, taskVars
<1>3. RowInv(r)'
  BY <1>0 DEF RowInv, AdmitCommit, SetStatus, taskVars
<1>4. ASSUME NEW b \in Attempt PROVE TaskInv(r, b)'
  <2>1. TaskInv(r, b)
    BY DEF Inv
  <2>. QED
    BY <1>0, <2>1 DEF RowInv, TaskInv, AdmitCommit, SetStatus, taskVars
<1> QED
  BY <1>1, <1>2, <1>3, <1>4, OneRunChanges

\* An admission that rolls back keeps the invariant.
LEMMA AdmitAbortKeeps ==
  ASSUME Inv, NEW r \in Run, AdmitAbort(r)
  PROVE  Inv'
<1>0. TypeOK /\ RowInv(r)
  BY DEF Inv
<1>1. TypeOK'
  <2>1. admitting' \subseteq Run
    BY <1>0 DEF TypeOK, AdmitAbort
  <2>. QED
    BY <1>0, <2>1 DEF TypeOK, AdmitAbort, rowVars, taskVars
<1>2. ASSUME NEW q \in Run \ {r} PROVE SameRun(q)
  BY <1>0 DEF SameRun, AdmitAbort, rowVars, taskVars
<1>3. RowInv(r)'
  BY <1>0 DEF RowInv, AdmitAbort, rowVars, taskVars
<1>4. ASSUME NEW b \in Attempt PROVE TaskInv(r, b)'
  <2>1. TaskInv(r, b)
    BY DEF Inv
  <2>. QED
    BY <1>0, <2>1 DEF TaskInv, AdmitAbort, rowVars, taskVars
<1> QED
  BY <1>1, <1>2, <1>3, <1>4, OneRunChanges

\* The conditional UPDATE of ApprovalService.decide finds a waiting, unlocked row, so
\* no task owns it.
LEMMA DecideKeeps ==
  ASSUME Inv, NEW r \in Run, NEW d \in {"APPROVE", "REJECT"}, Decide(r, d)
  PROVE  Inv'
<1>0. TypeOK /\ RowInv(r)
  BY DEF Inv
<1>1. TypeOK'
  <2>1. status' \in [Run -> Status]
    BY <1>0 DEF TypeOK, Decide, SetStatus, Disown, Unlocked, Status, RowStatus, Terminal
  <2>2. worker' \in [Run -> Worker \cup {NoWorker}]
    BY <1>0 DEF TypeOK, Decide, SetStatus, Disown, Unlocked
  <2>3. lease' \in [Run -> NoTime .. Lease]
    BY <1>0, TimeAssumption DEF TypeOK, Decide, SetStatus, Disown, Unlocked, NoTime
  <2>4. nextAttempt' \in [Run -> NoTime .. MaxDelay]
    BY <1>0, TimeAssumption DEF TypeOK, Decide, SetStatus, Disown, Unlocked, NoTime
  <2>5. decision' \in [Run -> Decision]
    BY <1>0 DEF TypeOK, Decide, SetStatus, Disown, Unlocked, Decision
  <2>. QED
    BY <1>0, <2>1, <2>2, <2>3, <2>4, <2>5 DEF TypeOK, Decide, taskVars
<1>2. ASSUME NEW q \in Run \ {r} PROVE SameRun(q)
  BY <1>0 DEF SameRun, Decide, SetStatus, Disown, Unlocked, taskVars
<1>3. RowInv(r)'
  BY <1>0 DEF TypeOK, RowInv, Decide, SetStatus, Disown, Unlocked, taskVars
<1>4. ASSUME NEW b \in Attempt PROVE TaskInv(r, b)'
  <2>1. TaskInv(r, b)
    BY DEF Inv
  <2>. QED
    BY <1>0, <2>1 DEF RowInv, TaskInv, Decide, SetStatus, Disown, Unlocked, taskVars
<1> QED
  BY <1>1, <1>2, <1>3, <1>4, OneRunChanges

\* The UPDATE of expire_exhausted_runs takes rows nobody has locked away from their
\* worker.
LEMMA ExpireExhaustedKeeps ==
  ASSUME Inv, ExpireExhausted
  PROVE  Inv'
<1>0. TypeOK
  BY DEF Inv
<1>1. TypeOK'
  <2>1. status' \in [Run -> Status]
    BY <1>0 DEF TypeOK, ExpireExhausted, Exhausted, Unlocked, Status, RowStatus, Terminal
  <2>2. worker' \in [Run -> Worker \cup {NoWorker}]
    BY <1>0 DEF TypeOK, ExpireExhausted, Exhausted, Unlocked
  <2>3. lease' \in [Run -> NoTime .. Lease]
    BY <1>0, TimeAssumption DEF TypeOK, ExpireExhausted, Exhausted, Unlocked, NoTime
  <2>. QED
    BY <1>0, <2>1, <2>2, <2>3 DEF TypeOK, ExpireExhausted, taskVars
<1>2. ASSUME NEW q \in Run PROVE RowInv(q)'
  <2>1. RowInv(q)
    BY DEF Inv
  <2>. QED
    BY <1>0, <2>1 DEF RowInv, ExpireExhausted, Exhausted, Unlocked, taskVars
<1>3. ASSUME NEW q \in Run, NEW b \in Attempt PROVE TaskInv(q, b)'
  <2>1. TypeOK /\ RowInv(q) /\ TaskInv(q, b)
    BY DEF Inv
  <2>2. CASE q \in Exhausted
    <3>1. status[q] = "RUNNING" /\ rowLock[q] = 0 /\ b # 0
      BY <2>2 DEF ExpireExhausted, Exhausted, Unlocked, Attempt
    <3>2. status'[q] # "RUNNING" /\ attempt' = attempt /\ decision' = decision /\ stored' = stored
      BY <2>2 DEF ExpireExhausted
    <3>3. rowLock' = rowLock /\ phase' = phase /\ owner' = owner
      BY DEF ExpireExhausted, taskVars
    <3>. QED
      BY <2>1, <3>1, <3>2, <3>3 DEF TaskInv
  <2>3. CASE q \notin Exhausted
    <3>1. status'[q] = status[q] /\ worker'[q] = worker[q]
      BY <2>3 DEF ExpireExhausted
    <3>. QED
      BY <2>1, <3>1 DEF ExpireExhausted, taskVars, TaskInv
  <2>. QED
    BY <2>2, <2>3
<1> QED
  BY <1>1, <1>2, <1>3 DEF Inv

\* claim_next_run opens the next attempt; every earlier task is superseded.
LEMMA ClaimKeeps ==
  ASSUME Inv, NEW w \in Worker, NEW r \in Run, Claim(w, r)
  PROVE  Inv'
<1>0. TypeOK /\ RowInv(r)
  BY DEF Inv
<1>q. attempt[r] + 1 \in Attempt /\ TaskInv(r, attempt[r] + 1)
  BY <1>0, LimitAssumption DEF Inv, TypeOK, Claim, Eligible, Attempt
<1>p. Moves(r, attempt[r] + 1, "claimed")
  BY <1>0, <1>q, SetPhaseMoves DEF Claim, Phase, Live, Executing
<1>r. attempt'[r] = attempt[r] + 1 /\ rowLock'[r] = 0
  BY <1>0 DEF Claim, TypeOK, Unlocked
<1>o. Owned(r, attempt[r] + 1, w)
  BY <1>0, <1>q, OwnerChanges DEF Claim
<1>1. TypeOK'
  <2>1. status' \in [Run -> Status]
    BY <1>0, <1>p, <1>q, <1>o, <1>r
       DEF TypeOK, Claim, Eligible, Unlocked, SetStatus, Status, RowStatus, Terminal
  <2>2. worker' \in [Run -> Worker \cup {NoWorker}]
    BY <1>0, <1>p, <1>q, <1>o, <1>r DEF TypeOK, Claim, Eligible, Unlocked, SetStatus
  <2>3. attempt' \in [Run -> 0 .. MaxAttempts]
    BY <1>0, <1>p, <1>q, <1>o, <1>r, LimitAssumption
       DEF TypeOK, Claim, Eligible, Unlocked, SetStatus
  <2>4. lease' \in [Run -> NoTime .. Lease]
    BY <1>0, <1>p, <1>q, <1>o, <1>r, TimeAssumption
       DEF TypeOK, Claim, Eligible, Unlocked, SetStatus, NoTime
  <2>5. nextAttempt' \in [Run -> NoTime .. MaxDelay]
    BY <1>0, <1>p, <1>q, <1>o, <1>r, TimeAssumption
       DEF TypeOK, Claim, Eligible, Unlocked, SetStatus, NoTime
  <2>. QED
    BY <1>0, <1>p, <1>q, <1>o, <1>r, <2>1, <2>2, <2>3, <2>4, <2>5
       DEF TypeOK, Claim, Moves, Owned
<1>2. ASSUME NEW q \in Run \ {r} PROVE SameRun(q)
  BY <1>0, <1>p, <1>q, <1>o, <1>r
     DEF SameRun, Claim, Eligible, Unlocked, SetStatus, Moves, Owned
<1>3. RowInv(r)'
  BY <1>0, <1>p, <1>q, <1>o, <1>r, WorkerAssumption, TimeAssumption
     DEF TypeOK, RowInv, Claim, Eligible, Unlocked, SetStatus, Moves, Owned, NoTime
<1>4. ASSUME NEW b \in Attempt PROVE TaskInv(r, b)'
  <2>1. TaskInv(r, b)
    BY DEF Inv
  <2>2. CASE b = attempt[r] + 1
    BY <1>0, <1>p, <1>q, <1>o, <1>r, <2>2
       DEF TypeOK, RowInv, TaskInv, Claim, Eligible, Unlocked, SetStatus, Moves, Owned
  <2>3. CASE b # attempt[r] + 1
    <3>1. phase'[r][b] = phase[r][b] /\ owner'[r][b] = owner[r][b] /\ decision' = decision
      BY <1>p, <1>o, <1>q, <2>3 DEF Moves, Owned, Claim
    <3>2. attempt[r] \in Nat /\ b \in Nat /\ b # 0
      BY <1>0 DEF TypeOK, Attempt
    <3>3. QED
      BY <1>r, <2>1, <2>3, <3>1, <3>2 DEF TaskInv
  <2>. QED
    BY <2>2, <2>3
<1> QED
  BY <1>1, <1>2, <1>3, <1>4, OneRunChanges

\* _resume_or_execute chooses the branch the recorded decision asks for.
LEMMA DispatchKeeps ==
  ASSUME Inv, NEW r \in Run, NEW a \in Attempt, Dispatch(r, a)
  PROVE  Inv'
<1>0. TypeOK /\ RowInv(r) /\ TaskInv(r, a)
  BY DEF Inv
<1>p. Moves(r, a, IF decision[r] = "APPROVE" THEN "resume" ELSE "execute")
  BY <1>0, SetPhaseMoves DEF Dispatch, Phase, Live, Executing, Settling
<1>1. TypeOK'
  <2>. QED
    BY <1>0, <1>p DEF TypeOK, Dispatch, Moves, rowVars
<1>2. ASSUME NEW q \in Run \ {r} PROVE SameRun(q)
  BY <1>0, <1>p DEF SameRun, Dispatch, Moves, rowVars
<1>3. RowInv(r)'
  BY <1>0, <1>p DEF RowInv, Dispatch, Moves, rowVars
<1>4. ASSUME NEW b \in Attempt PROVE TaskInv(r, b)'
  <2>1. TaskInv(r, b)
    BY DEF Inv
  <2>2. CASE b = a
    <3>1. \/ phase'[r][a] = "resume" /\ decision[r] = "APPROVE"
          \/ phase'[r][a] = "execute" /\ decision[r] # "APPROVE"
      <4>1. CASE decision[r] = "APPROVE"
        BY <1>p, <4>1 DEF Moves
      <4>2. CASE decision[r] # "APPROVE"
        BY <1>p, <4>2 DEF Moves
      <4>3. QED
        BY <4>1, <4>2
    <3>2. QED
      BY <1>0, <2>2, <3>1
         DEF TypeOK, RowInv, TaskInv, Decision, Dispatch, rowVars, Fenced, Settling,
         Executing, Live
  <2>3. CASE b # a
    BY <1>0, <1>p, <2>1, <2>3 DEF TaskInv, Dispatch, Moves, rowVars
  <2>. QED
    BY <2>2, <2>3
<1> QED
  BY <1>1, <1>2, <1>3, <1>4, OneRunChanges

\* A fence that matches no row changes no row.
LEMMA FenceFailsKeeps ==
  ASSUME Inv, NEW r \in Run, NEW a \in Attempt, FenceFails(r, a)
  PROVE  Inv'
<1>0. TypeOK /\ RowInv(r) /\ TaskInv(r, a)
  BY DEF Inv
<1>p. Ends(r, a) \/ (Moves(r, a, "failed") /\ UNCHANGED <<owner, beat>>)
  <2>1. CASE phase[r][a] = "invalid"
    <3>1. EndTask(r, a)
      BY <2>1 DEF FenceFails
    <3>2. Ends(r, a)
      BY <1>0, <3>1, EndTaskEnds
    <3>3. QED
      BY <3>2
  <2>2. CASE phase[r][a] # "invalid"
    <3>1. SetPhase(r, a, "failed") /\ UNCHANGED <<owner, beat>>
      BY <2>2 DEF FenceFails
    <3>2. Moves(r, a, "failed")
      BY <1>0, <3>1, SetPhaseMoves DEF Phase, Live, Settling
    <3>3. QED
      BY <3>1, <3>2
  <2>3. QED
    BY <2>1, <2>2
<1>1. TypeOK'
  <2>. QED
    BY <1>0, <1>p DEF TypeOK, FenceFails, Moves, Ends, Owned, Beats, rowVars
<1>2. ASSUME NEW q \in Run \ {r} PROVE SameRun(q)
  BY <1>0, <1>p DEF SameRun, FenceFails, Moves, Ends, Owned, Beats, rowVars
<1>3. RowInv(r)'
  BY <1>0, <1>p DEF RowInv, FenceFails, Moves, Ends, Owned, Beats, rowVars
<1>4. ASSUME NEW b \in Attempt PROVE TaskInv(r, b)'
  <2>1. TaskInv(r, b)
    BY DEF Inv
  <2>2. CASE b = a
    BY <1>0, <1>p, <2>2, WorkerAssumption, LimitAssumption, TimeAssumption
       DEF TaskInv, FenceFails, Moves, Ends, Owned, Beats, rowVars, Fenced, Settling,
       Executing, Live
  <2>3. CASE b # a
    BY <1>0, <1>p, <2>1, <2>3, WorkerAssumption, LimitAssumption, TimeAssumption
       DEF TaskInv, FenceFails, Moves, Ends, Owned, Beats, rowVars
  <2>. QED
    BY <2>2, <2>3
<1> QED
  BY <1>1, <1>2, <1>3, <1>4, OneRunChanges

\* A fence locks a row the claim owns.
LEMMA FenceKeeps ==
  ASSUME Inv, NEW r \in Run, NEW a \in Attempt, Fence(r, a)
  PROVE  Inv'
<1>0. TypeOK /\ RowInv(r) /\ TaskInv(r, a)
  BY DEF Inv
<1>1. TypeOK'
  <2>1. rowLock' \in [Run -> 0 .. MaxAttempts]
    BY <1>0 DEF TypeOK, Fence, Unlocked, Owns, Matches
  <2>. QED
    BY <1>0, <2>1 DEF TypeOK, Fence, rowVars, taskVars
<1>2. ASSUME NEW q \in Run \ {r} PROVE SameRun(q)
  BY <1>0 DEF SameRun, Fence, Unlocked, Owns, Matches, rowVars, taskVars
<1>3. RowInv(r)'
  BY <1>0 DEF RowInv, Fence, Unlocked, Owns, Matches, rowVars, taskVars
<1>4. ASSUME NEW b \in Attempt PROVE TaskInv(r, b)'
  <2>1. TaskInv(r, b)
    BY DEF Inv
  <2>2. CASE b = a
    BY <1>0, <2>2 DEF TaskInv, Fence, Unlocked, Owns, Matches, rowVars, taskVars
  <2>3. CASE b # a
    BY <1>0, <2>1, <2>3 DEF TaskInv, Fence, Unlocked, Owns, Matches, rowVars, taskVars
  <2>. QED
    BY <2>2, <2>3
<1> QED
  BY <1>1, <1>2, <1>3, <1>4, OneRunChanges

\* A guarded node that commits releases the lock and nothing else.
LEMMA ProgressKeeps ==
  ASSUME Inv, NEW r \in Run, NEW a \in Attempt, Progress(r, a)
  PROVE  Inv'
<1>0. TypeOK /\ RowInv(r) /\ TaskInv(r, a)
  BY DEF Inv
<1>1. TypeOK'
  <2>1. rowLock' \in [Run -> 0 .. MaxAttempts]
    BY <1>0, LimitAssumption DEF TypeOK, Progress, Unlock
  <2>. QED
    BY <1>0, <2>1 DEF TypeOK, Progress, rowVars, taskVars
<1>2. ASSUME NEW q \in Run \ {r} PROVE SameRun(q)
  BY <1>0 DEF SameRun, Progress, Unlock, rowVars, taskVars
<1>3. RowInv(r)'
  BY <1>0 DEF RowInv, Progress, Unlock, rowVars, taskVars
<1>4. ASSUME NEW b \in Attempt PROVE TaskInv(r, b)'
  <2>1. TaskInv(r, b)
    BY DEF Inv
  <2>2. CASE b = a
    BY <1>0, <2>2 DEF TaskInv, Progress, Unlock, rowVars, taskVars
  <2>3. CASE b # a
    BY <1>0, <2>1, <2>3 DEF TaskInv, Progress, Unlock, rowVars, taskVars, Attempt
  <2>. QED
    BY <2>2, <2>3
<1> QED
  BY <1>1, <1>2, <1>3, <1>4, OneRunChanges

\* run_agent_workflow commits artifacts under the lock of its fence, so they are
\* those of the current attempt.
LEMMA PersistArtifactsKeeps ==
  ASSUME Inv, NEW r \in Run, NEW a \in Attempt, PersistArtifacts(r, a)
  PROVE  Inv'
<1>0. TypeOK /\ RowInv(r) /\ TaskInv(r, a)
  BY DEF Inv
<1>p. Moves(r, a, "persisted")
  BY <1>0, SetPhaseMoves DEF PersistArtifacts, Phase, Live, Executing, Settling
<1>1. TypeOK'
  <2>1. stored' \in [Run -> 0 .. MaxAttempts]
    BY <1>0, <1>p DEF TypeOK, PersistArtifacts, Unlock
  <2>2. rowLock' \in [Run -> 0 .. MaxAttempts]
    BY <1>0, <1>p, LimitAssumption DEF TypeOK, PersistArtifacts, Unlock
  <2>. QED
    BY <1>0, <1>p, <2>1, <2>2 DEF TypeOK, PersistArtifacts, Moves
<1>2. ASSUME NEW q \in Run \ {r} PROVE SameRun(q)
  BY <1>0, <1>p DEF SameRun, PersistArtifacts, Unlock, Moves
<1>3. RowInv(r)'
  BY <1>0, <1>p DEF TypeOK, RowInv, TaskInv, PersistArtifacts, Unlock, Moves
<1>4. ASSUME NEW b \in Attempt PROVE TaskInv(r, b)'
  <2>1. TaskInv(r, b)
    BY DEF Inv
  <2>2. CASE b = a
    BY <1>0, <1>p, <2>2
       DEF TypeOK, TaskInv, PersistArtifacts, Unlock, Moves, Settling, Executing, Live
  <2>3. CASE b # a
    BY <1>0, <1>p, <2>1, <2>3 DEF TaskInv, PersistArtifacts, Unlock, Moves, Attempt
  <2>. QED
    BY <2>2, <2>3
<1> QED
  BY <1>1, <1>2, <1>3, <1>4, OneRunChanges

\* The execution returns after its status was written.
LEMMA ReturnKeeps ==
  ASSUME Inv, NEW r \in Run, NEW a \in Attempt, Return(r, a)
  PROVE  Inv'
<1>0. TypeOK /\ RowInv(r) /\ TaskInv(r, a)
  BY DEF Inv
<1>p. Moves(r, a, "returned")
  BY <1>0, SetPhaseMoves DEF Return, Phase, Live, Executing, Settling
<1>1. TypeOK'
  <2>. QED
    BY <1>0, <1>p DEF TypeOK, Return, Moves, rowVars
<1>2. ASSUME NEW q \in Run \ {r} PROVE SameRun(q)
  BY <1>0, <1>p DEF SameRun, Return, Moves, rowVars
<1>3. RowInv(r)'
  BY <1>0, <1>p DEF RowInv, Return, Moves, rowVars
<1>4. ASSUME NEW b \in Attempt PROVE TaskInv(r, b)'
  <2>1. TaskInv(r, b)
    BY DEF Inv
  <2>2. CASE b = a
    BY <1>0, <1>p, <2>2 DEF TaskInv, Return, Moves, rowVars, Settling, Executing, Live
  <2>3. CASE b # a
    BY <1>0, <1>p, <2>1, <2>3 DEF TaskInv, Return, Moves, rowVars
  <2>. QED
    BY <2>2, <2>3
<1> QED
  BY <1>1, <1>2, <1>3, <1>4, OneRunChanges

\* A timeout rolls back the open transaction and starts _halt.
LEMMA TimeOutKeeps ==
  ASSUME Inv, NEW r \in Run, NEW a \in Attempt, TimeOut(r, a)
  PROVE  Inv'
<1>0. TypeOK /\ RowInv(r) /\ TaskInv(r, a)
  BY DEF Inv
<1>p. Moves(r, a, "halting")
  BY <1>0, SetPhaseMoves DEF TimeOut, Phase, Live, Executing, Settling
<1>k. Undone(r, a)
  BY <1>0, RollbackUndoes DEF TimeOut
<1>1. TypeOK'
  <2>. QED
    BY <1>0, <1>p, <1>k DEF TypeOK, TimeOut, Moves, Undone, rowVars
<1>2. ASSUME NEW q \in Run \ {r} PROVE SameRun(q)
  BY <1>0, <1>p, <1>k DEF SameRun, TimeOut, Moves, Undone, rowVars
<1>3. RowInv(r)'
  BY <1>0, <1>p, <1>k DEF RowInv, TimeOut, Moves, Undone, rowVars
<1>4. ASSUME NEW b \in Attempt PROVE TaskInv(r, b)'
  <2>1. TaskInv(r, b)
    BY DEF Inv
  <2>2. CASE b = a
    BY <1>0, <1>p, <1>k, <2>2
       DEF TaskInv, TimeOut, Moves, Undone, rowVars, Settling, Executing, Live
  <2>3. CASE b # a
    BY <1>0, <1>p, <1>k, <2>1, <2>3 DEF TaskInv, TimeOut, Moves, Undone, rowVars
  <2>. QED
    BY <2>2, <2>3
<1> QED
  BY <1>1, <1>2, <1>3, <1>4, OneRunChanges

\* _halt leaves a run alone that may not need a human any more.
LEMMA HaltSkipsKeeps ==
  ASSUME Inv, NEW r \in Run, NEW a \in Attempt, HaltSkips(r, a)
  PROVE  Inv'
<1>0. TypeOK /\ RowInv(r) /\ TaskInv(r, a)
  BY DEF Inv
<1>p. Moves(r, a, "returned")
  BY <1>0, SetPhaseMoves DEF HaltSkips, Phase, Live, Executing, Settling
<1>1. TypeOK'
  <2>. QED
    BY <1>0, <1>p DEF TypeOK, HaltSkips, Moves, rowVars
<1>2. ASSUME NEW q \in Run \ {r} PROVE SameRun(q)
  BY <1>0, <1>p DEF SameRun, HaltSkips, RunTransitions, Terminal, Moves, rowVars
<1>3. RowInv(r)'
  BY <1>0, <1>p DEF RowInv, HaltSkips, RunTransitions, Terminal, Moves, rowVars
<1>4. ASSUME NEW b \in Attempt PROVE TaskInv(r, b)'
  <2>1. TaskInv(r, b)
    BY DEF Inv
  <2>2. CASE b = a
    BY <1>0, <1>p, <2>2
       DEF TaskInv, HaltSkips, RunTransitions, Terminal, Moves, rowVars, Settling,
       Executing, Live
  <2>3. CASE b # a
    BY <1>0, <1>p, <2>1, <2>3
       DEF TaskInv, HaltSkips, RunTransitions, Terminal, Moves, rowVars
  <2>. QED
    BY <2>2, <2>3
<1> QED
  BY <1>1, <1>2, <1>3, <1>4, OneRunChanges

\* An error rolls back the open transaction of its own task.
LEMMA FailKeeps ==
  ASSUME Inv, NEW r \in Run, NEW a \in Attempt, Fail(r, a)
  PROVE  Inv'
<1>0. TypeOK /\ RowInv(r) /\ TaskInv(r, a)
  BY DEF Inv
<1>p. Moves(r, a, "failed")
  BY <1>0, SetPhaseMoves DEF Fail, Phase, Live, Executing, Settling
<1>k. Undone(r, a)
  BY <1>0, RollbackUndoes DEF Fail
<1>1. TypeOK'
  <2>. QED
    BY <1>0, <1>p, <1>k DEF TypeOK, Fail, Moves, Undone, rowVars
<1>2. ASSUME NEW q \in Run \ {r} PROVE SameRun(q)
  BY <1>0, <1>p, <1>k DEF SameRun, Fail, Moves, Undone, rowVars
<1>3. RowInv(r)'
  BY <1>0, <1>p, <1>k DEF RowInv, Fail, Moves, Undone, rowVars
<1>4. ASSUME NEW b \in Attempt PROVE TaskInv(r, b)'
  <2>1. TaskInv(r, b)
    BY DEF Inv
  <2>2. CASE b = a
    BY <1>0, <1>p, <1>k, <2>2
       DEF TaskInv, Fail, Moves, Undone, rowVars, Settling, Executing, Live
  <2>3. CASE b # a
    BY <1>0, <1>p, <1>k, <2>1, <2>3 DEF TaskInv, Fail, Moves, Undone, rowVars
  <2>. QED
    BY <2>2, <2>3
<1> QED
  BY <1>1, <1>2, <1>3, <1>4, OneRunChanges

\* A ValueError or TypeError does the same.
LEMMA RejectInputKeeps ==
  ASSUME Inv, NEW r \in Run, NEW a \in Attempt, RejectInput(r, a)
  PROVE  Inv'
<1>0. TypeOK /\ RowInv(r) /\ TaskInv(r, a)
  BY DEF Inv
<1>p. Moves(r, a, "invalid")
  BY <1>0, SetPhaseMoves DEF RejectInput, Phase, Live, Executing, Settling
<1>k. Undone(r, a)
  BY <1>0, RollbackUndoes DEF RejectInput
<1>1. TypeOK'
  <2>. QED
    BY <1>0, <1>p, <1>k DEF TypeOK, RejectInput, Moves, Undone, rowVars
<1>2. ASSUME NEW q \in Run \ {r} PROVE SameRun(q)
  BY <1>0, <1>p, <1>k DEF SameRun, RejectInput, Moves, Undone, rowVars
<1>3. RowInv(r)'
  BY <1>0, <1>p, <1>k DEF RowInv, RejectInput, Moves, Undone, rowVars
<1>4. ASSUME NEW b \in Attempt PROVE TaskInv(r, b)'
  <2>1. TaskInv(r, b)
    BY DEF Inv
  <2>2. CASE b = a
    BY <1>0, <1>p, <1>k, <2>2
       DEF TaskInv, RejectInput, Moves, Undone, rowVars, Settling, Executing, Live
  <2>3. CASE b # a
    BY <1>0, <1>p, <1>k, <2>1, <2>3 DEF TaskInv, RejectInput, Moves, Undone, rowVars
  <2>. QED
    BY <2>2, <2>3
<1> QED
  BY <1>1, <1>2, <1>3, <1>4, OneRunChanges

\* release_claim clears a row only if it still carries this claim, which by then
\* is no longer RUNNING.
LEMMA ReleaseKeeps ==
  ASSUME Inv, NEW r \in Run, NEW a \in Attempt, Release(r, a)
  PROVE  Inv'
<1>0. TypeOK /\ RowInv(r) /\ TaskInv(r, a)
  BY DEF Inv
<1>p. Ends(r, a)
  BY <1>0, EndTaskEnds DEF Release
<1>1. TypeOK'
  <2>1. worker' \in [Run -> Worker \cup {NoWorker}]
    BY <1>0, <1>p, WorkerAssumption, LimitAssumption, TimeAssumption
       DEF TypeOK, Release, Matches, Unlocked, Disown
  <2>2. lease' \in [Run -> NoTime .. Lease]
    BY <1>0, <1>p, LimitAssumption, TimeAssumption
       DEF TypeOK, Release, Matches, Unlocked, Disown, NoTime
  <2>. QED
    BY <1>0, <1>p, <2>1, <2>2 DEF TypeOK, Release, Moves, Ends, Owned, Beats, Release
<1>2. ASSUME NEW q \in Run \ {r} PROVE SameRun(q)
  BY <1>0, <1>p
     DEF TypeOK, SameRun, Release, Matches, Unlocked, Disown, Moves, Ends, Owned, Beats
<1>3. RowInv(r)'
  BY <1>0, <1>p
     DEF RowInv, TaskInv, Release, Matches, Unlocked, Disown, Moves, Ends, Owned, Beats
<1>4. ASSUME NEW b \in Attempt PROVE TaskInv(r, b)'
  <2>1. TaskInv(r, b)
    BY DEF Inv
  <2>2. CASE b = a
    BY <1>0, <1>p, <2>2
       DEF TaskInv, Release, Matches, Unlocked, Disown, Moves, Ends, Owned, Beats, Settling,
       Executing, Live
  <2>3. CASE b # a
    BY <1>0, <1>p, <2>1, <2>3
       DEF TaskInv, Release, Matches, Unlocked, Disown, Moves, Ends, Owned, Beats
  <2>. QED
    BY <2>2, <2>3
<1> QED
  BY <1>1, <1>2, <1>3, <1>4, OneRunChanges

\* retry_claim requeues or escalates a row this claim still owns.
LEMMA RetryKeeps ==
  ASSUME Inv, NEW r \in Run, NEW a \in Attempt, Retry(r, a)
  PROVE  Inv'
<1>0. TypeOK /\ RowInv(r) /\ TaskInv(r, a)
  BY DEF Inv
<1>p. Ends(r, a)
  BY <1>0, EndTaskEnds DEF Retry
<1>s. PICK s \in {"PENDING", "NEEDS_HUMAN_INTERVENTION"}, t \in NoTime .. MaxDelay :
         /\ status' = [status EXCEPT ![r] = s]
         /\ nextAttempt' = [nextAttempt EXCEPT ![r] = t]
  <2>1. CASE attempt[r] >= MaxAttempts
    BY <1>0, <2>1 DEF Retry, SetStatus, TypeOK
  <2>2. CASE ~(attempt[r] >= MaxAttempts)
    BY <1>0, <2>2, RetryDelayType DEF Retry, SetStatus, NoTime
  <2>. QED
    BY <2>1, <2>2
<1>1. TypeOK'
  <2>1. status' \in [Run -> Status]
    BY <1>0, <1>p, <1>s
       DEF TypeOK, Retry, Owns, Matches, Unlocked, Disown, Status, RowStatus, Terminal
  <2>2. worker' \in [Run -> Worker \cup {NoWorker}]
    BY <1>0, <1>p, <1>s DEF TypeOK, Retry, Owns, Matches, Unlocked, Disown
  <2>3. lease' \in [Run -> NoTime .. Lease]
    BY <1>0, <1>p, <1>s, TimeAssumption
       DEF TypeOK, Retry, Owns, Matches, Unlocked, Disown, NoTime
  <2>4. nextAttempt' \in [Run -> NoTime .. MaxDelay]
    BY <1>0, <1>p, <1>s DEF TypeOK, Retry, Owns, Matches, Unlocked, Disown
  <2>. QED
    BY <1>0, <1>p, <1>s, <2>1, <2>2, <2>3, <2>4 DEF TypeOK, Retry, Moves, Ends, Owned, Beats
<1>2. ASSUME NEW q \in Run \ {r} PROVE SameRun(q)
  BY <1>0, <1>p, <1>s
     DEF SameRun, Retry, Owns, Matches, Unlocked, Disown, Moves, Ends, Owned, Beats
<1>3. RowInv(r)'
  BY <1>0, <1>p, <1>s
     DEF TypeOK, RowInv, Retry, Owns, Matches, Unlocked, Disown, Moves, Ends, Owned, Beats
<1>4. ASSUME NEW b \in Attempt PROVE TaskInv(r, b)'
  <2>1. TaskInv(r, b)
    BY DEF Inv
  <2>2. CASE b = a
    BY <1>0, <1>p, <1>s, <2>2
       DEF TaskInv, Retry, Owns, Matches, Unlocked, Disown, Moves, Ends, Owned, Beats,
       Fenced, Settling, Executing, Live
  <2>3. CASE b # a
    BY <1>0, <1>p, <1>s, <2>1, <2>3
       DEF TaskInv, Retry, Owns, Matches, Unlocked, Disown, Moves, Ends, Owned, Beats
  <2>. QED
    BY <2>2, <2>3
<1> QED
  BY <1>1, <1>2, <1>3, <1>4, OneRunChanges

\* retry_claim leaves any other row alone.
LEMMA RetryTooLateKeeps ==
  ASSUME Inv, NEW r \in Run, NEW a \in Attempt, RetryTooLate(r, a)
  PROVE  Inv'
<1>0. TypeOK /\ RowInv(r) /\ TaskInv(r, a)
  BY DEF Inv
<1>p. Ends(r, a)
  BY <1>0, EndTaskEnds DEF RetryTooLate
<1>1. TypeOK'
  <2>. QED
    BY <1>0, <1>p DEF TypeOK, RetryTooLate, Moves, Ends, Owned, Beats, rowVars
<1>2. ASSUME NEW q \in Run \ {r} PROVE SameRun(q)
  BY <1>0, <1>p DEF SameRun, RetryTooLate, Moves, Ends, Owned, Beats, rowVars
<1>3. RowInv(r)'
  BY <1>0, <1>p DEF RowInv, RetryTooLate, Moves, Ends, Owned, Beats, rowVars
<1>4. ASSUME NEW b \in Attempt PROVE TaskInv(r, b)'
  <2>1. TaskInv(r, b)
    BY DEF Inv
  <2>2. CASE b = a
    BY <1>0, <1>p, <2>2
       DEF TaskInv, RetryTooLate, Moves, Ends, Owned, Beats, rowVars, Fenced, Settling,
       Executing, Live
  <2>3. CASE b # a
    BY <1>0, <1>p, <2>1, <2>3 DEF TaskInv, RetryTooLate, Moves, Ends, Owned, Beats, rowVars
  <2>. QED
    BY <2>2, <2>3
<1> QED
  BY <1>1, <1>2, <1>3, <1>4, OneRunChanges

\* A crash releases the locks of its own transactions.
LEMMA AbandonKeeps ==
  ASSUME Inv, NEW r \in Run, NEW a \in Attempt, Abandon(r, a)
  PROVE  Inv'
<1>0. TypeOK /\ RowInv(r) /\ TaskInv(r, a)
  BY DEF Inv
<1>p. Ends(r, a)
  BY <1>0, EndTaskEnds DEF Abandon
<1>k. Undone(r, a)
  BY <1>0, RollbackUndoes DEF Abandon
<1>1. TypeOK'
  <2>. QED
    BY <1>0, <1>p, <1>k DEF TypeOK, Abandon, Moves, Ends, Undone, Owned, Beats, rowVars
<1>2. ASSUME NEW q \in Run \ {r} PROVE SameRun(q)
  BY <1>0, <1>p, <1>k DEF SameRun, Abandon, Moves, Ends, Undone, Owned, Beats, rowVars
<1>3. RowInv(r)'
  BY <1>0, <1>p, <1>k DEF RowInv, Abandon, Moves, Ends, Undone, Owned, Beats, rowVars
<1>4. ASSUME NEW b \in Attempt PROVE TaskInv(r, b)'
  <2>1. TaskInv(r, b)
    BY DEF Inv
  <2>2. CASE b = a
    BY <1>0, <1>p, <1>k, <2>2
       DEF TaskInv, Abandon, Moves, Ends, Undone, Owned, Beats, rowVars, Settling,
       Executing, Live
  <2>3. CASE b # a
    BY <1>0, <1>p, <1>k, <2>1, <2>3
       DEF TaskInv, Abandon, Moves, Ends, Undone, Owned, Beats, rowVars
  <2>. QED
    BY <2>2, <2>3
<1> QED
  BY <1>1, <1>2, <1>3, <1>4, OneRunChanges

\* A renewal that has read the clock has changed nothing yet.
LEMMA ReadClockKeeps ==
  ASSUME Inv, NEW r \in Run, NEW a \in Attempt, ReadClock(r, a)
  PROVE  Inv'
<1>0. TypeOK /\ RowInv(r) /\ TaskInv(r, a)
  BY DEF Inv
<1>b. Beats(r, a)
  <2>1. 0 \in NoBeat .. Lease
    BY TimeAssumption DEF NoBeat
  <2>. QED
    BY <1>0, <2>1, BeatChanges DEF ReadClock
<1>1. TypeOK'
  <2>. QED
    BY <1>0, <1>b DEF TypeOK, ReadClock, Beats, rowVars
<1>2. ASSUME NEW q \in Run \ {r} PROVE SameRun(q)
  BY <1>0, <1>b DEF SameRun, ReadClock, Beats, rowVars
<1>3. RowInv(r)'
  BY <1>0, <1>b DEF RowInv, ReadClock, Beats, rowVars
<1>4. ASSUME NEW b \in Attempt PROVE TaskInv(r, b)'
  <2>1. TaskInv(r, b)
    BY DEF Inv
  <2>2. CASE b = a
    BY <1>0, <1>b, <2>2 DEF TaskInv, ReadClock, Beats, rowVars
  <2>3. CASE b # a
    BY <1>0, <1>b, <2>1, <2>3 DEF TaskInv, ReadClock, Beats, rowVars
  <2>. QED
    BY <2>2, <2>3
<1> QED
  BY <1>1, <1>2, <1>3, <1>4, OneRunChanges

\* A renewal extends the lease of a RUNNING row; its type needs that the instant it
\* read lies at most one lease in the past.
LEMMA RenewKeeps ==
  ASSUME Inv, NEW r \in Run, NEW a \in Attempt, Renew(r, a)
  PROVE  Inv'
<1>0. TypeOK /\ RowInv(r) /\ TaskInv(r, a)
  BY DEF Inv
<1>b. Beats(r, a)
  <2>1. NoBeat \in NoBeat .. Lease
    BY TimeAssumption DEF NoBeat
  <2>. QED
    BY <1>0, <2>1, BeatChanges DEF Renew
<1>1. TypeOK'
  <2>1. lease' \in [Run -> NoTime .. Lease]
    BY <1>0, <1>b, WorkerAssumption, LimitAssumption, TimeAssumption
       DEF TypeOK, Renew, Matches, NoTime, NoBeat
  <2>. QED
    BY <1>0, <1>b, <2>1 DEF TypeOK, Renew, Beats
<1>2. ASSUME NEW q \in Run \ {r} PROVE SameRun(q)
  BY <1>0, <1>b DEF SameRun, Renew, Matches, Beats
<1>3. RowInv(r)'
  BY <1>0, <1>b, LimitAssumption, TimeAssumption
     DEF TypeOK, RowInv, Renew, Matches, Beats, NoTime
<1>4. ASSUME NEW b \in Attempt PROVE TaskInv(r, b)'
  <2>1. TaskInv(r, b)
    BY DEF Inv
  <2>2. CASE b = a
    BY <1>0, <1>b, <2>2 DEF TaskInv, Renew, Matches, Beats
  <2>3. CASE b # a
    BY <1>0, <1>b, <2>1, <2>3 DEF TaskInv, Renew, Matches, Beats
  <2>. QED
    BY <2>2, <2>3
<1> QED
  BY <1>1, <1>2, <1>3, <1>4, OneRunChanges

\* A heartbeat that gives up cancels its own execution only.
LEMMA HeartbeatEndsKeeps ==
  ASSUME Inv, NEW r \in Run, NEW a \in Attempt, HeartbeatEnds(r, a)
  PROVE  Inv'
<1>0. TypeOK /\ RowInv(r) /\ TaskInv(r, a)
  BY DEF Inv
<1>p. Moves(r, a, "failed")
  BY <1>0, SetPhaseMoves DEF HeartbeatEnds, Phase, Live, Executing, Settling
<1>k. Undone(r, a)
  BY <1>0, RollbackUndoes DEF HeartbeatEnds
<1>b. Beats(r, a)
  <2>1. NoBeat \in NoBeat .. Lease
    BY TimeAssumption DEF NoBeat
  <2>. QED
    BY <1>0, <2>1, BeatChanges DEF HeartbeatEnds
<1>1. TypeOK'
  <2>. QED
    BY <1>0, <1>p, <1>k, <1>b DEF TypeOK, HeartbeatEnds, Moves, Undone, Beats, rowVars
<1>2. ASSUME NEW q \in Run \ {r} PROVE SameRun(q)
  BY <1>0, <1>p, <1>k, <1>b DEF SameRun, HeartbeatEnds, Moves, Undone, Beats, rowVars
<1>3. RowInv(r)'
  BY <1>0, <1>p, <1>k, <1>b DEF RowInv, HeartbeatEnds, Moves, Undone, Beats, rowVars
<1>4. ASSUME NEW b \in Attempt PROVE TaskInv(r, b)'
  <2>1. TaskInv(r, b)
    BY DEF Inv
  <2>2. CASE b = a
    BY <1>0, <1>p, <1>k, <1>b, <2>2
       DEF TaskInv, HeartbeatEnds, Moves, Undone, Beats, rowVars, Settling, Executing, Live
  <2>3. CASE b # a
    BY <1>0, <1>p, <1>k, <1>b, <2>1, <2>3
       DEF TaskInv, HeartbeatEnds, Moves, Undone, Beats, rowVars
  <2>. QED
    BY <2>2, <2>3
<1> QED
  BY <1>1, <1>2, <1>3, <1>4, OneRunChanges

\* Time changes no row.
LEMMA TickKeeps ==
  ASSUME Inv, Tick
  PROVE  Inv'
<1>0. TypeOK
  BY DEF Inv
<1>1. TypeOK'
  <2>1. lease' \in [Run -> NoTime .. Lease]
    BY <1>0, TimeAssumption DEF TypeOK, Tick, CountDown, NoTime
  <2>2. nextAttempt' \in [Run -> NoTime .. MaxDelay]
    BY <1>0, TimeAssumption DEF TypeOK, Tick, CountDown, NoTime
  <2>3. beat' \in [Run -> [Attempt -> NoBeat .. Lease]]
    BY <1>0, TimeAssumption DEF TypeOK, Tick, CountDown, NoBeat
  <2>. QED
    BY <1>0, <2>1, <2>2, <2>3 DEF TypeOK, Tick
<1>2. ASSUME NEW q \in Run PROVE RowInv(q)'
  <2>1. RowInv(q)
    BY DEF Inv
  <2>. QED
    BY <1>0, <2>1 DEF RowInv, Tick, CountDown, NoTime
<1>3. ASSUME NEW q \in Run, NEW b \in Attempt PROVE TaskInv(q, b)'
  <2>1. RowInv(q) /\ TaskInv(q, b)
    BY DEF Inv
  <2>. QED
    BY <1>0, <2>1 DEF TaskInv, Tick, CountDown
<1> QED
  BY <1>1, <1>2, <1>3 DEF Inv

\* mark_status writes, under the lock of its fence, a status its phase may write;
\* a decided run is resumed, an undecided one investigated.
LEMMA MarkStatusKeeps ==
  ASSUME Inv, NEW r \in Run, NEW a \in Attempt, MarkStatus(r, a)
  PROVE  Inv'
<1>0. TypeOK /\ RowInv(r) /\ TaskInv(r, a)
  BY DEF Inv
<1>1. /\ rowLock[r] = a /\ status[r] = "RUNNING" /\ attempt[r] = a
      /\ phase[r][a] \in {"persisted", "resume", "halting", "invalid"}
  BY <1>0 DEF MarkStatus, TaskInv
<1>2. PICK s \in Outcomes(phase[r][a]) :
         /\ status' = [status EXCEPT ![r] = s]
         /\ IF s \in Terminal THEN Disown(r) ELSE UNCHANGED <<worker, lease>>
  BY DEF MarkStatus, SetStatus
<1>3. /\ s \in Terminal \cup {"WAITING_APPROVAL"}
      /\ s = "WAITING_APPROVAL" => phase[r][a] = "persisted"
      /\ s \in {"INVESTIGATION_COMPLETE", "INSUFFICIENT_EVIDENCE"} => phase[r][a] = "persisted"
      /\ s = "RESOLVED" => phase[r][a] = "resume"
  BY <1>1, <1>2 DEF Outcomes, WorkflowOutcome, ResumeOutcome, Terminal
<1>4. PICK p \in {"marked", "returned", "done"} :
         Moves(r, a, p) /\ (Ends(r, a) \/ UNCHANGED <<owner, beat>>)
  <2>1. CASE phase[r][a] = "invalid"
    <3>1. EndTask(r, a)
      BY <2>1 DEF MarkStatus
    <3>2. Ends(r, a)
      BY <1>0, <3>1, EndTaskEnds
    <3>. QED
      BY <3>2 DEF Ends
  <2>2. CASE phase[r][a] = "halting"
    <3>1. SetPhase(r, a, "returned") /\ UNCHANGED <<owner, beat>>
      BY <2>2 DEF MarkStatus
    <3>2. Moves(r, a, "returned")
      BY <1>0, <3>1, SetPhaseMoves DEF Phase, Live, Settling
    <3>. QED
      BY <3>1, <3>2
  <2>3. CASE phase[r][a] \in {"persisted", "resume"}
    <3>1. SetPhase(r, a, "marked") /\ UNCHANGED <<owner, beat>>
      BY <2>3 DEF MarkStatus
    <3>2. Moves(r, a, "marked")
      BY <1>0, <3>1, SetPhaseMoves DEF Phase, Live, Executing
    <3>. QED
      BY <3>1, <3>2
  <2>. QED
    BY <1>1, <2>1, <2>2, <2>3
<1>5. /\ rowLock' = [rowLock EXCEPT ![r] = 0]
      /\ UNCHANGED <<attempt, nextAttempt, decision, stored, admitting>>
  BY DEF MarkStatus, Unlock
<1>6. /\ worker' \in [Run -> Worker \cup {NoWorker}]
      /\ lease' \in [Run -> NoTime .. Lease]
      /\ \A q \in Run \ {r} : worker'[q] = worker[q] /\ lease'[q] = lease[q]
  <2>1. CASE s \in Terminal
    <3>1. Disown(r)
      BY <1>2, <2>1
    <3>. QED
      BY <1>0, <3>1, TimeAssumption DEF Disown, TypeOK, NoTime
  <2>2. CASE s \notin Terminal
    BY <1>0, <1>2, <2>2 DEF TypeOK
  <2>. QED
    BY <2>1, <2>2
<1>7. TypeOK'
  <2>1. status' \in [Run -> Status]
    BY <1>0, <1>2, <1>3 DEF TypeOK, Status, RowStatus
  <2>2. rowLock' \in [Run -> 0 .. MaxAttempts]
    BY <1>0, <1>5, LimitAssumption DEF TypeOK
  <2>. QED
    BY <1>0, <1>4, <1>5, <1>6, <2>1, <2>2 DEF TypeOK, Moves, Ends, Owned, Beats
<1>8. ASSUME NEW q \in Run \ {r} PROVE SameRun(q)
  BY <1>0, <1>2, <1>4, <1>5, <1>6 DEF SameRun, Moves, Ends, Owned
<1>9. RowInv(r)'
  <2>1. status'[r] = s
    BY <1>0, <1>2 DEF TypeOK
  <2>2. phase[r][a] = "persisted" => stored[r] = attempt[r] /\ decision[r] = "NONE"
    BY <1>0, <1>1 DEF TaskInv
  <2>3. decision[r] # "REJECT" /\ (phase[r][a] = "resume" => decision[r] = "APPROVE")
    BY <1>0, <1>1 DEF RowInv, TaskInv
  <2>4. s \notin {"ABSENT", "PENDING", "RUNNING"}
    BY <1>3 DEF Terminal
  <2>5. attempt[r] # 0 /\ stored[r] <= attempt[r] /\ r \notin admitting
    BY <1>0, <1>1 DEF RowInv
  <2>. QED
    BY <1>1, <1>3, <1>5, <2>1, <2>2, <2>3, <2>4, <2>5 DEF RowInv
<1>10. ASSUME NEW b \in Attempt PROVE TaskInv(r, b)'
  <2>1. rowLock'[r] = 0 /\ b # 0 /\ status'[r] # "RUNNING"
    BY <1>0, <1>2, <1>3, <1>5 DEF TypeOK, Attempt, Terminal
  <2>2. CASE b = a
    <3>1. phase'[r][a] = p /\ (p = "done" \/ owner' = owner)
      BY <1>4 DEF Ends, Moves
    <3>2. owner[r][a] \in Worker
      BY <1>0, <1>1 DEF TaskInv, Live, Executing, Settling
    <3>. QED
      BY <1>1, <1>4, <1>5, <2>1, <2>2, <3>1, <3>2
         DEF TaskInv, Attempt, Live, Executing, Settling
  <2>3. CASE b # a
    <3>1. phase'[r][b] = phase[r][b] /\ owner'[r][b] = owner[r][b] /\ TaskInv(r, b)
      BY <1>4, <2>3 DEF Moves, Ends, Owned, Inv
    <3>. QED
      BY <1>1, <1>5, <2>1, <2>3, <3>1 DEF TaskInv
  <2>. QED
    BY <2>2, <2>3
<1> QED
  BY <1>7, <1>8, <1>9, <1>10, OneRunChanges

\* An empty queue satisfies the invariant.
LEMMA InitInv == Init => Inv
<1> SUFFICES ASSUME Init PROVE Inv
  OBVIOUS
<1>1. TypeOK
  BY LimitAssumption, TimeAssumption
     DEF Init, TypeOK, Status, Decision, Phase, NoTime, NoBeat
<1>2. ASSUME NEW r \in Run PROVE RowInv(r)
  BY DEF Init, RowInv
<1>3. ASSUME NEW r \in Run, NEW a \in Attempt PROVE TaskInv(r, a)
  BY DEF Init, TaskInv, Attempt, Live, Executing, Settling
<1> QED
  BY <1>1, <1>2, <1>3 DEF Inv

\* Every step preserves the invariant.
LEMMA NextInv == Inv /\ [Next]_vars => Inv'
<1> SUFFICES ASSUME Inv, [Next]_vars PROVE Inv'
  OBVIOUS
<1>1. CASE Tick
  BY <1>1, TickKeeps
<1>2. CASE ExpireExhausted
  BY <1>2, ExpireExhaustedKeeps
<1>3. ASSUME NEW w \in Worker, NEW r \in Run, Claim(w, r) PROVE Inv'
  BY <1>3, ClaimKeeps
<1>4. ASSUME NEW r \in Run, Api(r) PROVE Inv'
  BY <1>4, AdmitCountKeeps, AdmitCommitKeeps, AdmitAbortKeeps, DecideKeeps DEF Api
<1>5. ASSUME NEW r \in Run, NEW a \in Attempt, Task(r, a) PROVE Inv'
  <2>1. CASE TaskStep(r, a)
    BY <2>1, DispatchKeeps, FenceFailsKeeps, TimeOutKeeps, HaltSkipsKeeps,
       PersistArtifactsKeeps, MarkStatusKeeps, ReturnKeeps, FailKeeps, RejectInputKeeps,
       ReleaseKeeps, RetryKeeps, RetryTooLateKeeps
       DEF TaskStep
  <2>2. CASE Fence(r, a) \/ Progress(r, a) \/ Abandon(r, a)
    BY <2>2, FenceKeeps, ProgressKeeps, AbandonKeeps
  <2>3. CASE ReadClock(r, a) \/ Renew(r, a) \/ HeartbeatEnds(r, a)
    BY <2>3, ReadClockKeeps, RenewKeeps, HeartbeatEndsKeeps
  <2>. QED
    BY <1>5, <2>1, <2>2, <2>3 DEF Task
<1>6. CASE UNCHANGED vars
  BY <1>6 DEF Inv, TypeOK, RowInv, TaskInv, vars
<1> QED
  BY <1>1, <1>2, <1>3, <1>4, <1>5, <1>6 DEF Next

\* The inductive invariant holds in every reachable state, for any number of runs
\* and workers, attempts, lease and heartbeat lengths.
THEOREM Invariance == Spec => []Inv
  BY InitInv, NextInv, PTL DEF Spec

\* Columns, locks and task variables keep their types; in particular attempt_count
\* never exceeds MAX_JOB_ATTEMPTS.
THEOREM TypeCorrect == Spec => []TypeOK
<1>1. Inv => TypeOK
  BY DEF Inv
<1> QED
  BY <1>1, Invariance, PTL

\* No RUNNING row ever loses its worker or its lease: a late release_claim or
\* retry_claim of a superseded attempt cannot strand a run.
THEOREM RunsNotStranded == Spec => []NoStrandedRun
<1>1. Inv => NoStrandedRun
  BY DEF Inv, RowInv, NoStrandedRun
<1> QED
  BY <1>1, Invariance, PTL

\* Between the UPDATE of fence() and the end of its transaction the row stays with
\* the claim that fenced it.
THEOREM FencedRowsKeepOwner == Spec => []LockedRowKeepsOwner
<1>1. ASSUME Inv, NEW r \in Run, rowLock[r] # 0
      PROVE  /\ status[r] = "RUNNING" /\ attempt[r] = rowLock[r]
             /\ phase[r][rowLock[r]] \in Fenced /\ Matches(r, rowLock[r])
  <2>1. rowLock[r] \in Attempt
    BY <1>1 DEF Inv, TypeOK, Attempt
  <2>2. TaskInv(r, rowLock[r])
    BY <1>1, <2>1 DEF Inv
  <2>. QED
    BY <2>2 DEF TaskInv, Matches
<1>2. Inv => LockedRowKeepsOwner
  BY <1>1 DEF LockedRowKeepsOwner
<1> QED
  BY <1>2, Invariance, PTL

\* A run waits for approval only with the artifacts of the attempt that parked it.
THEOREM ParkedRunsHaveArtifacts == Spec => []ParkedByArtifactWriter
<1>1. Inv => ParkedByArtifactWriter
  BY DEF Inv, RowInv, ParkedByArtifactWriter
<1> QED
  BY <1>1, Invariance, PTL

\* The status of a run agrees with the human decision at all times.
THEOREM DecisionsAreRespected == Spec => []DecisionRespected
<1>1. Inv => DecisionRespected
  BY DEF Inv, RowInv, DecisionRespected
<1> QED
  BY <1>1, Invariance, PTL

\* Every step of the queue is a step of the life cycle or leaves status and decision
\* alone.
LEMMA StepRefines ==
  ASSUME Inv, [Next]_vars
  PROVE  [Lifecycle!Next]_(Lifecycle!vars)
<1>0. TypeOK
  BY DEF Inv
<1>1. ASSUME NEW r \in Run, AdmitCommit(r) PROVE Lifecycle!Admit(r)
  BY <1>1 DEF Inv, RowInv, AdmitCommit, SetStatus, Lifecycle!Admit, Lifecycle!Become
<1>2. ASSUME NEW r \in Run, NEW d \in {"APPROVE", "REJECT"}, Decide(r, d)
      PROVE  Lifecycle!Decide(r)
  BY <1>2 DEF Inv, RowInv, Decide, SetStatus, Lifecycle!Decide, Lifecycle!Become
<1>3. ASSUME ExpireExhausted PROVE Lifecycle!EscalateAll
  BY <1>3 DEF ExpireExhausted, Exhausted, Lifecycle!EscalateAll
<1>4. ASSUME NEW w \in Worker, NEW r \in Run, Claim(w, r)
      PROVE  Lifecycle!Start(r) \/ UNCHANGED <<status, decision>>
  <2>1. CASE status[r] = "PENDING"
    BY <1>4, <2>1 DEF Claim, SetStatus, Lifecycle!Start, Lifecycle!Become
  <2>2. CASE status[r] = "RUNNING"
    BY <1>0, <1>4, <2>2 DEF Claim, SetStatus, TypeOK
  <2>. QED
    BY <1>4, <2>1, <2>2 DEF Claim, Eligible
<1>5. ASSUME NEW r \in Run, NEW a \in Attempt, MarkStatus(r, a)
      PROVE  Lifecycle!Investigated(r) \/ Lifecycle!Delivered(r) \/ Lifecycle!Escalate(r)
  <2>1. /\ status[r] = "RUNNING" /\ attempt[r] = a /\ TaskInv(r, a)
        /\ phase[r][a] \in {"persisted", "resume", "halting", "invalid"}
        /\ decision' = decision
    BY <1>5 DEF Inv, TaskInv, MarkStatus
  <2>2. PICK s \in Outcomes(phase[r][a]) : status' = [status EXCEPT ![r] = s]
    BY <1>5 DEF MarkStatus, SetStatus
  <2>3. CASE phase[r][a] = "persisted"
    <3>1. s \in WorkflowOutcome /\ decision[r] = "NONE"
      BY <2>1, <2>2, <2>3 DEF Outcomes, TaskInv
    <3>. QED
      BY <2>1, <2>2, <3>1
         DEF Lifecycle!Investigated, Lifecycle!Become, WorkflowOutcome,
         Lifecycle!WorkflowOutcome
  <2>4. CASE phase[r][a] = "resume"
    <3>1. s \in ResumeOutcome /\ decision[r] = "APPROVE"
      BY <2>1, <2>2, <2>4 DEF Outcomes, TaskInv
    <3>. QED
      BY <2>1, <2>2, <3>1
         DEF Lifecycle!Delivered, Lifecycle!Become, ResumeOutcome, Lifecycle!ResumeOutcome
  <2>5. CASE phase[r][a] \in {"halting", "invalid"}
    BY <2>1, <2>2, <2>5 DEF Outcomes, Lifecycle!Escalate, Lifecycle!Become
  <2>. QED
    BY <2>1, <2>3, <2>4, <2>5
<1>6. ASSUME NEW r \in Run, NEW a \in Attempt, Retry(r, a)
      PROVE  Lifecycle!Escalate(r) \/ Lifecycle!Requeue(r)
  <2>1. CASE attempt[r] >= MaxAttempts
    BY <1>6, <2>1 DEF Retry, Owns, SetStatus, Lifecycle!Escalate, Lifecycle!Become
  <2>2. CASE ~(attempt[r] >= MaxAttempts)
    BY <1>6, <2>2 DEF Retry, Owns, SetStatus, Lifecycle!Requeue, Lifecycle!Become
  <2>. QED
    BY <2>1, <2>2
<1>7. ASSUME NEW r \in Run, NEW a \in Attempt, Task(r, a)
      PROVE  MarkStatus(r, a) \/ Retry(r, a) \/ UNCHANGED <<status, decision>>
  BY <1>7
     DEF Task, TaskStep, Dispatch, FenceFails, TimeOut, HaltSkips, PersistArtifacts, Return,
     Fail, RejectInput, Release, RetryTooLate, Fence, Progress, Abandon, ReadClock, Renew,
     HeartbeatEnds, rowVars
<1>8. ASSUME NEW r \in Run, AdmitCount(r) \/ AdmitAbort(r) PROVE UNCHANGED <<status, decision>>
  BY <1>8 DEF AdmitCount, AdmitAbort, rowVars
<1>9. CASE Tick \/ UNCHANGED vars
  BY <1>9 DEF Tick, vars, Lifecycle!vars
<1> QED
  BY <1>1, <1>2, <1>3, <1>4, <1>5, <1>6, <1>7, <1>8, <1>9
     DEF Next, Api, Lifecycle!Next, Lifecycle!Step, Lifecycle!vars

\* The queue, with its workers, leases, crashes and retries, implements the life
\* cycle its users see.
THEOREM QueueImplementsLifecycle == Spec => ImplementsLifecycle
<1>1. Init => Lifecycle!Init
  BY DEF Init, Lifecycle!Init
<1>2. Inv /\ [Next]_vars => [Lifecycle!Next]_(Lifecycle!vars)
  BY StepRefines
<1> QED
  BY <1>1, <1>2, Invariance, PTL DEF Spec, ImplementsLifecycle, Lifecycle!Spec

\* ------------------------------------------------------------------------
\* What the queue inherits from the life cycle it implements.

Promise == INSTANCE RunLifecycleProofs WITH Embedded <- FALSE

\* The theorems about the life cycle speak of the queue.
LEMMA QueueKeepsPromises == Spec => Promise!Spec
<1>1. Lifecycle!Init <=> Promise!Init
  BY DEF Lifecycle!Init, Promise!Init
<1>2. [Lifecycle!Next]_(Lifecycle!vars) <=> [Promise!Next]_(Promise!vars)
  BY DEF Lifecycle!Next, Promise!Next, Lifecycle!vars, Promise!vars,
     Lifecycle!EscalateAll, Promise!EscalateAll, Lifecycle!Step, Promise!Step,
     Lifecycle!Admit, Promise!Admit, Lifecycle!Start, Promise!Start,
     Lifecycle!Requeue, Promise!Requeue, Lifecycle!Escalate, Promise!Escalate,
     Lifecycle!Investigated, Promise!Investigated, Lifecycle!Delivered, Promise!Delivered,
     Lifecycle!Decide, Promise!Decide, Lifecycle!HaltQueued, Promise!HaltQueued,
     Lifecycle!HaltParked, Promise!HaltParked, Lifecycle!Become, Promise!Become,
     Lifecycle!WorkflowOutcome, Promise!WorkflowOutcome,
     Lifecycle!ResumeOutcome, Promise!ResumeOutcome
<1> QED
  BY <1>1, <1>2, QueueImplementsLifecycle, PTL
     DEF ImplementsLifecycle, Lifecycle!Spec, Promise!Spec

\* Every status change of the queue is in RUN_TRANSITIONS, also those of claim,
\* retry, expiry and decision, whose SQL does not consult the table.
THEOREM TransitionsAreLegal == Spec => LegalTransitions
<1>1. [\A r \in Run : status[r] \notin {"ABSENT", status'[r]} =>
           <<status[r], status'[r]>> \in Promise!RunTransitions]_(Promise!vars) =>
      [\A r \in Run : status[r] \notin {"ABSENT", status'[r]} =>
           <<status[r], status'[r]>> \in RunTransitions]_vars
  BY DEF vars, Promise!vars, Promise!RunTransitions, RunTransitions, Promise!Terminal, Terminal
<1> QED
  BY <1>1, QueueKeepsPromises, Promise!TransitionsAreLegal, PTL
     DEF LegalTransitions, Promise!LegalTransitions

\* A decision is made once and about a waiting run, terminal runs stay as they are, and a
\* decided run never waits for a human again: no crash, retry or late write of a worker
\* takes any of this back.
THEOREM DecidedAndEndedRunsStay ==
    Spec => Promise!DecidedOnce /\ Promise!TerminalIsFinal /\ Promise!DecidedNeverAsksAgain
<1> QED
  BY QueueKeepsPromises, Promise!DecisionsAreMadeOnce, Promise!TerminalRunsStay,
     Promise!DecidedRunsNeverAskAgain, PTL

\* Artifacts are only ever committed by the attempt that owns the row, and a later
\* attempt's are never replaced by an earlier one's.
THEOREM StaleArtifactsAreFenced == Spec => ArtifactsFenced
<1>1. ASSUME Inv, [Next]_vars
      PROVE  [\A r \in Run : stored'[r] # stored[r] =>
                 stored'[r] = attempt[r] /\ stored'[r] > stored[r]]_vars
  <2>1. ASSUME NEW q \in Run, NEW a \in Attempt, PersistArtifacts(q, a),
               NEW r \in Run, stored'[r] # stored[r]
        PROVE  stored'[r] = attempt[r] /\ stored'[r] > stored[r]
    <3>1. TypeOK /\ TaskInv(q, a)
      BY <1>1 DEF Inv
    <3>2. q = r /\ stored'[r] = a
      BY <2>1, <3>1 DEF PersistArtifacts
    <3>3. attempt[r] = a /\ stored[r] < a
      BY <2>1, <3>1, <3>2 DEF PersistArtifacts, TaskInv
    <3>. QED
      BY <3>1, <3>2, <3>3
  <2>2. ASSUME NEW q \in Run, NEW a \in Attempt, Task(q, a)
        PROVE  PersistArtifacts(q, a) \/ stored' = stored
    BY <2>2
       DEF Task, TaskStep, Dispatch, FenceFails, TimeOut, HaltSkips, MarkStatus, Return,
       Fail, RejectInput, Release, Retry, RetryTooLate, Fence, Progress, Abandon, ReadClock,
       Renew, HeartbeatEnds, rowVars
  <2>3. ASSUME \/ Tick \/ ExpireExhausted \/ UNCHANGED vars
               \/ \E w \in Worker, q \in Run : Claim(w, q)
               \/ \E q \in Run : Api(q)
        PROVE  stored' = stored
    BY <2>3
       DEF Tick, ExpireExhausted, Claim, Api, AdmitCount, AdmitCommit, AdmitAbort, Decide,
       rowVars, vars
  <2>. QED
    BY <1>1, <2>1, <2>2, <2>3 DEF Next
<1> QED
  BY <1>1, Invariance, PTL DEF Spec, ArtifactsFenced

\* The set of admitted runs no worker has claimed yet is finite.
LEMMA FreshIsFinite == IsFiniteSet(Fresh) /\ Cardinality(Fresh) \in Nat
<1>1. Fresh \in SUBSET Run
  BY DEF Fresh
<1> QED
  BY <1>1, RunAssumption, FS_Subset, FS_CardinalityType

\* Nothing but the commit of an admission adds a never claimed run to the queue:
\* retry_claim and decide requeue runs that were claimed before.
LEMMA FreshNeverGrowsOtherwise ==
  ASSUME Inv, [Next]_vars, \A r \in Run : ~AdmitCommit(r)
  PROVE  Fresh' \subseteq Fresh
<1>0. TypeOK
  BY DEF Inv
<1>1. ASSUME NEW r \in Run, status'[r] = "PENDING", attempt'[r] = 0,
             ~(status[r] = "PENDING" /\ attempt[r] = 0)
      PROVE  FALSE
  <2>1. CASE UNCHANGED <<status, attempt>>
    BY <1>1, <2>1
  <2>2. ASSUME NEW q \in Run, NEW d \in {"APPROVE", "REJECT"}, Decide(q, d) PROVE FALSE
    BY <1>0, <1>1, <2>2 DEF Inv, RowInv, Decide, SetStatus
  <2>3. CASE ExpireExhausted
    BY <1>1, <2>3 DEF ExpireExhausted
  <2>4. ASSUME NEW w \in Worker, NEW q \in Run, Claim(w, q) PROVE FALSE
    BY <1>0, <1>1, <2>4 DEF TypeOK, Claim, SetStatus
  <2>5. ASSUME NEW q \in Run, NEW a \in Attempt, MarkStatus(q, a) PROVE FALSE
    <3>1. PICK s \in Outcomes(phase[q][a]) : status' = [status EXCEPT ![q] = s]
      BY <2>5 DEF MarkStatus, SetStatus
    <3>2. s # "PENDING"
      BY <3>1 DEF Outcomes, WorkflowOutcome, ResumeOutcome
    <3>. QED
      BY <1>0, <1>1, <2>5, <3>1, <3>2 DEF MarkStatus
  <2>6. ASSUME NEW q \in Run, NEW a \in Attempt, Retry(q, a) PROVE FALSE
    <3>1. attempt[q] # 0 /\ attempt' = attempt
      BY <2>6 DEF Retry, Owns, Matches, Attempt
    <3>2. \A p \in Run \ {q} : status'[p] = status[p]
      BY <1>0, <2>6 DEF Retry, SetStatus, TypeOK
    <3>. QED
      BY <1>1, <3>1, <3>2
  <2>7. ASSUME NEW q \in Run, NEW a \in Attempt, Task(q, a)
        PROVE  MarkStatus(q, a) \/ Retry(q, a) \/ UNCHANGED <<status, attempt>>
    BY <2>7
       DEF Task, TaskStep, Dispatch, FenceFails, TimeOut, HaltSkips, PersistArtifacts,
       Return, Fail, RejectInput, Release, RetryTooLate, Fence, Progress, Abandon,
       ReadClock, Renew, HeartbeatEnds, rowVars
  <2>8. ASSUME NEW q \in Run, AdmitCount(q) \/ AdmitAbort(q) PROVE UNCHANGED <<status, attempt>>
    BY <2>8 DEF AdmitCount, AdmitAbort, rowVars
  <2>9. CASE Tick \/ UNCHANGED vars
    BY <2>1, <2>9 DEF Tick, vars
  <2>. QED
    BY <2>1, <2>2, <2>3, <2>4, <2>5, <2>6, <2>7, <2>8, <2>9 DEF Next, Api
<1> QED
  BY <1>1 DEF Fresh

\* The advisory lock makes count and insert one step for other admissions, so runs
\* admitted and never claimed stay within MAX_QUEUED_RUNS.
THEOREM FreshQueueStaysBounded == Spec => []FreshQueueBounded
<1>1. Init => AdmissionInv
  <2>1. Init => Fresh = {} /\ admitting = {}
    BY DEF Init, Fresh
  <2>. QED
    BY <2>1, FS_EmptySet, LimitAssumption DEF AdmissionInv
<1>2. Inv /\ AdmissionInv /\ [Next]_vars => AdmissionInv'
  <2> SUFFICES ASSUME Inv, AdmissionInv, [Next]_vars PROVE AdmissionInv'
    OBVIOUS
  <2>1. ASSUME NEW r \in Run, AdmitCommit(r) PROVE AdmissionInv'
    <3>1. admitting' = {} /\ Cardinality(Fresh) < MaxQueued
      BY <2>1 DEF AdmissionInv, AdmitCommit
    <3>2. Fresh' = Fresh \cup {r} \/ Fresh' = Fresh
      BY <2>1 DEF Inv, AdmitCommit, SetStatus, Fresh
    <3>3. Cardinality(Fresh \cup {r}) <= Cardinality(Fresh) + 1
      <4>1. Cardinality(Fresh \cup {r}) = IF r \in Fresh THEN Cardinality(Fresh)
                                                       ELSE Cardinality(Fresh) + 1
        BY FreshIsFinite, FS_AddElement
      <4>2. CASE r \in Fresh
        BY <4>1, <4>2, FreshIsFinite
      <4>3. CASE r \notin Fresh
        BY <4>1, <4>3, FreshIsFinite
      <4>. QED
        BY <4>2, <4>3
    <3>4. Cardinality(Fresh') <= MaxQueued
      <4>1. Cardinality(Fresh \cup {r}) \in Nat
        BY FreshIsFinite, FS_AddElement, FS_CardinalityType
      <4>2. CASE Fresh' = Fresh \cup {r}
        BY <3>1, <3>3, <4>1, <4>2, FreshIsFinite, LimitAssumption
      <4>3. CASE Fresh' = Fresh
        BY <3>1, <4>3, FreshIsFinite, LimitAssumption
      <4>. QED
        BY <3>2, <4>2, <4>3
    <3>. QED
      BY <3>1, <3>4 DEF AdmissionInv
  <2>2. ASSUME \A r \in Run : ~AdmitCommit(r) PROVE AdmissionInv'
    <3>1. Fresh' \in SUBSET Fresh
      BY <2>2, FreshNeverGrowsOtherwise
    <3>2. Cardinality(Fresh') \in Nat /\ Cardinality(Fresh') <= Cardinality(Fresh)
      BY <3>1, FreshIsFinite, FS_Subset, FS_CardinalityType
    <3>3. ASSUME NEW r \in Run, AdmitCount(r) PROVE AdmissionInv'
      <4>1. admitting' = {r} /\ Cardinality(Pending) < MaxQueued
        BY <3>3 DEF AdmitCount, AdmissionLockFree
      <4>2. Fresh \in SUBSET Pending /\ Pending \in SUBSET Run
        BY DEF Fresh, Pending
      <4>3. Cardinality(Fresh) <= Cardinality(Pending) /\ Cardinality(Pending) \in Nat
        BY <4>2, RunAssumption, FS_Subset, FS_CardinalityType
      <4>. QED
        BY <3>2, <4>1, <4>3, FreshIsFinite, LimitAssumption DEF AdmissionInv
    <3>4. CASE \A r \in Run : ~AdmitCount(r)
      <4>1. admitting' \subseteq admitting
        <5>1. ASSUME NEW r \in Run, NEW a \in Attempt, Task(r, a) PROVE admitting' = admitting
          BY <5>1
             DEF Task, TaskStep, Dispatch, FenceFails, TimeOut, HaltSkips, PersistArtifacts,
             MarkStatus, Return, Fail, RejectInput, Release, Retry, RetryTooLate, Fence,
             Progress, Abandon, ReadClock, Renew, HeartbeatEnds
        <5>2. ASSUME NEW r \in Run, Api(r) PROVE admitting' \subseteq admitting
          BY <2>2, <3>4, <5>2 DEF Api, AdmitAbort, Decide
        <5>3. ASSUME \/ Tick \/ ExpireExhausted \/ UNCHANGED vars
                     \/ \E w \in Worker, r \in Run : Claim(w, r)
              PROVE  admitting' = admitting
          BY <5>3 DEF Tick, ExpireExhausted, Claim, vars
        <5>. QED
          BY <5>1, <5>2, <5>3 DEF Next
      <4>. QED
        BY <3>2, <4>1, FreshIsFinite, LimitAssumption DEF AdmissionInv
    <3>. QED
      BY <3>3, <3>4
  <2>. QED
    BY <2>1, <2>2
<1>3. AdmissionInv => FreshQueueBounded
  BY DEF AdmissionInv, FreshQueueBounded
<1> QED
  BY <1>1, <1>2, <1>3, Invariance, PTL DEF Spec

\* ------------------------------------------------------------------------
\* Claims are used up and never come back.

\* A row that was never admitted was never claimed, and no undecided run is queued
\* without an attempt.
Claimable == /\ \A r \in Run : status[r] = "ABSENT" => attempt[r] = 0
             /\ UndecidedRunsAreClaimable

\* retry_claim requeues only while attempts are left, expire_exhausted_runs ends the
\* others, and an admission starts from none: a run without a decision is never left in
\* the queue by a WHERE clause that no longer matches it.
THEOREM UndecidedRunsStayClaimable == Spec => []UndecidedRunsAreClaimable
<1>1. Init => Claimable
  BY LimitAssumption DEF Init, Claimable, UndecidedRunsAreClaimable
<1>2. Inv /\ Claimable /\ [Next]_vars => Claimable'
  <2> SUFFICES ASSUME Inv, Claimable, [Next]_vars PROVE Claimable'
    OBVIOUS
  <2>0. TypeOK
    BY DEF Inv
  <2>1. ASSUME NEW q \in Run, AdmitCommit(q) PROVE Claimable'
    <3>1. attempt[q] = 0
      BY <2>1 DEF Claimable, Inv, RowInv, AdmitCommit
    <3>. QED
      BY <2>0, <2>1, <3>1, LimitAssumption
         DEF Claimable, UndecidedRunsAreClaimable, AdmitCommit, SetStatus, TypeOK
  <2>2. ASSUME NEW q \in Run, NEW d \in {"APPROVE", "REJECT"}, Decide(q, d) PROVE Claimable'
    BY <2>0, <2>2 DEF Claimable, UndecidedRunsAreClaimable, Decide, SetStatus, TypeOK
  <2>3. CASE ExpireExhausted
    BY <2>0, <2>3 DEF Claimable, UndecidedRunsAreClaimable, ExpireExhausted, TypeOK
  <2>4. ASSUME NEW w \in Worker, NEW q \in Run, Claim(w, q) PROVE Claimable'
    BY <2>0, <2>4 DEF Claimable, UndecidedRunsAreClaimable, Claim, SetStatus, TypeOK
  <2>5. ASSUME NEW q \in Run, NEW a \in Attempt, MarkStatus(q, a) PROVE Claimable'
    <3>1. PICK s \in Outcomes(phase[q][a]) : status' = [status EXCEPT ![q] = s]
      BY <2>5 DEF MarkStatus, SetStatus
    <3>2. s \notin {"ABSENT", "PENDING"}
      BY <3>1 DEF Outcomes, WorkflowOutcome, ResumeOutcome
    <3>3. attempt' = attempt /\ decision' = decision
      BY <2>5 DEF MarkStatus
    <3>. QED
      BY <2>0, <3>1, <3>2, <3>3 DEF Claimable, UndecidedRunsAreClaimable, TypeOK
  <2>6. ASSUME NEW q \in Run, NEW a \in Attempt, Retry(q, a) PROVE Claimable'
    <3>1. attempt' = attempt /\ decision' = decision
      BY <2>6 DEF Retry
    <3>2. CASE attempt[q] >= MaxAttempts
      <4>1. status' = [status EXCEPT ![q] = "NEEDS_HUMAN_INTERVENTION"]
        BY <2>6, <3>2 DEF Retry, SetStatus
      <4>. QED
        BY <2>0, <3>1, <4>1 DEF Claimable, UndecidedRunsAreClaimable, TypeOK
    <3>3. CASE ~(attempt[q] >= MaxAttempts)
      <4>1. status' = [status EXCEPT ![q] = "PENDING"]
        BY <2>6, <3>3 DEF Retry, SetStatus
      <4>2. attempt[q] < MaxAttempts
        BY <2>0, <3>3, LimitAssumption DEF TypeOK
      <4>. QED
        BY <2>0, <3>1, <4>1, <4>2 DEF Claimable, UndecidedRunsAreClaimable, TypeOK
    <3>. QED
      BY <3>2, <3>3
  <2>7. CASE UNCHANGED <<status, attempt, decision>>
    BY <2>7 DEF Claimable, UndecidedRunsAreClaimable
  <2>8. ASSUME NEW q \in Run, NEW a \in Attempt, Task(q, a) PROVE Claimable'
    <3>1. MarkStatus(q, a) \/ Retry(q, a) \/ UNCHANGED <<status, attempt, decision>>
      BY <2>8
         DEF Task, TaskStep, Dispatch, FenceFails, TimeOut, HaltSkips, PersistArtifacts,
         Return, Fail, RejectInput, Release, RetryTooLate, Fence, Progress, Abandon,
         ReadClock, Renew, HeartbeatEnds, rowVars
    <3>. QED
      BY <2>5, <2>6, <2>7, <3>1
  <2>9. ASSUME \/ Tick \/ UNCHANGED vars
               \/ \E q \in Run : AdmitCount(q) \/ AdmitAbort(q)
        PROVE  Claimable'
    BY <2>7, <2>9 DEF Tick, AdmitCount, AdmitAbort, rowVars, vars
  <2>. QED
    BY <2>1, <2>2, <2>3, <2>4, <2>8, <2>9 DEF Next, Api
<1>3. Claimable => UndecidedRunsAreClaimable
  BY DEF Claimable
<1> QED
  BY <1>1, <1>2, <1>3, Invariance, PTL DEF Spec

\* The row keeps its attempt, and every task stays where it is or goes further.
Forward ==
    /\ attempt' = attempt
    /\ \A q \in Run, b \in Attempt :
           phase'[q][b] # phase[q][b] => Rank(phase[q][b]) < Rank(phase'[q][b])

\* A phase that is written once and further on makes the task advance.
LEMMA MovesAdvance ==
  ASSUME NEW r \in Run, NEW a \in Attempt, NEW p \in Phase, Moves(r, a, p),
         attempt' = attempt, Rank(phase[r][a]) < Rank(p)
  PROVE  Forward
  BY DEF Moves, Forward

\* Every step of a task, of its heartbeat and of its transactions leaves the task where
\* it is or takes it further.
LEMMA TaskAdvances ==
  ASSUME TypeOK, NEW r \in Run, NEW a \in Attempt, Task(r, a)
  PROVE  Forward
<1>1. CASE UNCHANGED <<attempt, phase>>
  BY <1>1 DEF Forward
<1>2. ASSUME NEW p \in Phase, SetPhase(r, a, p), attempt' = attempt,
             Rank(phase[r][a]) < Rank(p)
      PROVE  Forward
  BY <1>2, SetPhaseMoves, MovesAdvance
<1>3. CASE Dispatch(r, a)
  <2>1. SetPhase(r, a, "resume") \/ SetPhase(r, a, "execute")
    BY <1>3 DEF Dispatch
  <2>. QED
    BY <1>2, <1>3, <2>1 DEF Dispatch, rowVars, Rank, Phase, Live, Executing
<1>4. ASSUME EndTask(r, a), phase[r][a] \in Live, attempt' = attempt PROVE Forward
  BY <1>2, <1>4 DEF EndTask, Rank, Phase, Live, Executing, Settling
<1>5. CASE FenceFails(r, a)
  <2>1. CASE phase[r][a] = "invalid"
    BY <1>4, <1>5, <2>1 DEF FenceFails, rowVars, Live, Settling
  <2>2. CASE phase[r][a] # "invalid"
    <3>1. SetPhase(r, a, "failed") /\ phase[r][a] \in Fenced /\ attempt' = attempt
      BY <1>5, <2>2 DEF FenceFails, rowVars
    <3>. QED
      BY <1>2, <2>2, <3>1 DEF Fenced, Rank, Phase, Live, Settling
  <2>. QED
    BY <2>1, <2>2
<1>6. CASE TimeOut(r, a)
  BY <1>2, <1>6 DEF TimeOut, rowVars, Rank, Phase, Live, Executing
<1>7. CASE HaltSkips(r, a)
  BY <1>2, <1>7 DEF HaltSkips, rowVars, Rank, Phase, Live, Settling
<1>8. CASE PersistArtifacts(r, a)
  BY <1>2, <1>8 DEF PersistArtifacts, Rank, Phase, Live, Executing
<1>9. CASE MarkStatus(r, a)
  <2>0. attempt' = attempt /\ phase[r][a] \in {"persisted", "resume", "halting", "invalid"}
    BY <1>9 DEF MarkStatus
  <2>1. CASE phase[r][a] = "invalid"
    BY <1>4, <1>9, <2>0, <2>1 DEF MarkStatus, Live, Settling
  <2>2. CASE phase[r][a] = "halting"
    <3>1. SetPhase(r, a, "returned")
      BY <1>9, <2>2 DEF MarkStatus
    <3>. QED
      BY <1>2, <2>0, <2>2, <3>1 DEF Rank, Phase, Live, Settling
  <2>3. CASE phase[r][a] \in {"persisted", "resume"}
    <3>1. SetPhase(r, a, "marked")
      BY <1>9, <2>3 DEF MarkStatus
    <3>. QED
      BY <1>2, <2>0, <2>3, <3>1 DEF Rank, Phase, Live, Executing
  <2>. QED
    BY <2>0, <2>1, <2>2, <2>3
<1>10. CASE Return(r, a)
  BY <1>2, <1>10 DEF Return, rowVars, Rank, Phase, Live, Settling
<1>11. CASE Fail(r, a)
  BY <1>2, <1>11 DEF Fail, rowVars, Rank, Phase, Live, Executing, Settling
<1>12. CASE RejectInput(r, a)
  BY <1>2, <1>12 DEF RejectInput, rowVars, Rank, Phase, Live, Settling
<1>13. CASE HeartbeatEnds(r, a)
  BY <1>2, <1>13 DEF HeartbeatEnds, rowVars, Rank, Phase, Live, Executing, Settling
<1>14. CASE Release(r, a) \/ Retry(r, a) \/ RetryTooLate(r, a) \/ Abandon(r, a)
  BY <1>4, <1>14 DEF Release, Retry, RetryTooLate, Abandon, rowVars, Live, Settling
<1>15. CASE Fence(r, a) \/ Progress(r, a) \/ ReadClock(r, a) \/ Renew(r, a)
  BY <1>1, <1>15 DEF Fence, Progress, ReadClock, Renew, rowVars, taskVars
<1> QED
  BY <1>3, <1>5, <1>6, <1>7, <1>8, <1>9, <1>10, <1>11, <1>12, <1>13, <1>14, <1>15
     DEF Task, TaskStep

\* A claim is worked on once.  A late heartbeat, a time limit that fires during the last
\* write, a failure handler that fails itself: none takes a task back to a phase it left,
\* and no claim counts a row's attempts down.
THEOREM TasksNeverGoBack == Spec => TasksAdvance
<1>1. ASSUME Inv, [Next]_vars
      PROVE  [\A r \in Run : /\ attempt'[r] >= attempt[r]
                             /\ \A a \in Attempt : phase'[r][a] # phase[r][a] =>
                                    Rank(phase[r][a]) < Rank(phase'[r][a])]_vars
  <2>0. TypeOK
    BY <1>1 DEF Inv
  <2>1. ASSUME NEW q \in Run, attempt'[q] = attempt[q] PROVE attempt'[q] >= attempt[q]
    BY <2>0, <2>1 DEF TypeOK
  <2>2. ASSUME NEW r \in Run, NEW a \in Attempt, Task(r, a)
        PROVE  Forward
    BY <2>0, <2>2, TaskAdvances
  <2>3. ASSUME NEW w \in Worker, NEW r \in Run, Claim(w, r), NEW q \in Run
        PROVE  /\ attempt'[q] >= attempt[q]
               /\ \A b \in Attempt : phase'[q][b] # phase[q][b] =>
                      Rank(phase[q][b]) < Rank(phase'[q][b])
    <3>1. PICK n \in 0 .. MaxAttempts : n = attempt[r] /\ n < MaxAttempts
      BY <2>0, <2>3 DEF TypeOK, Claim, Eligible
    <3>2. n + 1 \in Attempt
      BY <3>1, LimitAssumption DEF Attempt
    <3>3. phase[r][n + 1] = "none"
      BY <1>1, <3>1, <3>2 DEF Inv, TaskInv
    <3>4. Moves(r, n + 1, "claimed")
      BY <2>0, <2>3, <3>1, <3>2, SetPhaseMoves DEF Claim, Phase, Live, Executing
    <3>5. attempt'[q] >= attempt[q]
      BY <2>0, <2>3 DEF TypeOK, Claim
    <3>6. Rank("none") < Rank("claimed")
      BY DEF Rank
    <3>. QED
      BY <3>2, <3>3, <3>4, <3>5, <3>6 DEF Moves
  <2>4. ASSUME Tick \/ ExpireExhausted \/ \E r \in Run : Api(r)
        PROVE  UNCHANGED <<attempt, phase>>
    BY <2>4 DEF Tick, ExpireExhausted, Api, AdmitCount, AdmitCommit, AdmitAbort, Decide,
       rowVars, taskVars
  <2>. QED
    BY <1>1, <2>1, <2>2, <2>3, <2>4 DEF Next, Forward
<1> QED
  BY <1>1, Invariance, PTL DEF Spec, TasksAdvance

\* The end of a RUNNING status is a step of the current attempt's task or the expiry of
\* the last attempt: however late a superseded worker, a renewal or a request is, it does
\* not take the run from the attempt that owns it.
THEOREM OnlyOwnersEnd == Spec => OnlyTheOwnerEnds
<1>1. ASSUME Inv, [Next]_vars, NEW r \in Run, status[r] = "RUNNING", status'[r] # "RUNNING"
      PROVE  \/ phase'[r][attempt[r]] # phase[r][attempt[r]]
             \/ lease[r] = 0 /\ attempt[r] = MaxAttempts
  <2>0. TypeOK
    BY <1>1 DEF Inv
  <2>1. ASSUME NEW q \in Run, NEW a \in Attempt, MarkStatus(q, a)
        PROVE  phase'[r][attempt[r]] # phase[r][attempt[r]]
    <3>1. q = r
      BY <1>1, <2>0, <2>1 DEF MarkStatus, SetStatus, TypeOK
    <3>2. attempt[r] = a
      BY <1>1, <2>1, <3>1 DEF Inv, TaskInv, MarkStatus
    <3>3. \E p \in {"done", "returned", "marked"} :
              /\ SetPhase(r, a, p)
              /\ phase[r][a] \in {"persisted", "resume", "halting", "invalid"}
      BY <2>1, <3>1 DEF MarkStatus, EndTask
    <3>4. \E p \in {"done", "returned", "marked"} : Moves(r, a, p) /\ phase[r][a] # p
      BY <2>0, <3>3, SetPhaseMoves DEF Phase, Live, Executing, Settling
    <3>. QED
      BY <3>2, <3>4 DEF Moves
  <2>2. ASSUME NEW q \in Run, NEW a \in Attempt, Retry(q, a)
        PROVE  phase'[r][attempt[r]] # phase[r][attempt[r]]
    <3>1. q = r
      <4>1. \A p \in Run \ {q} : status'[p] = status[p]
        BY <2>0, <2>2 DEF Retry, SetStatus, TypeOK
      <4>. QED
        BY <1>1, <4>1
    <3>2. attempt[r] = a /\ phase[r][a] = "failed" /\ SetPhase(r, a, "done")
      BY <2>2, <3>1 DEF Retry, Owns, Matches, EndTask
    <3>3. Moves(r, a, "done")
      BY <2>0, <3>2, SetPhaseMoves DEF Phase
    <3>. QED
      BY <3>2, <3>3 DEF Moves
  <2>3. CASE ExpireExhausted
    <3>1. r \in Exhausted
      BY <1>1, <2>3 DEF ExpireExhausted
    <3>2. lease[r] = 0 /\ attempt[r] >= MaxAttempts
      BY <3>1 DEF Exhausted
    <3>3. attempt[r] \in 0..MaxAttempts
      BY <2>0 DEF TypeOK
    <3>4. attempt[r] = MaxAttempts
      BY <3>2, <3>3, LimitAssumption
    <3>. QED
      BY <3>2, <3>4
  <2>4. ASSUME NEW q \in Run, Api(q) PROVE status'[r] = "RUNNING"
    <3>1. q \in admitting => status[q] = "ABSENT"
      BY <1>1 DEF Inv, RowInv
    <3>. QED
      BY <1>1, <2>0, <2>4, <3>1 DEF Api, AdmitCount, AdmitCommit, AdmitAbort, Decide,
         SetStatus, TypeOK, rowVars
  <2>5. ASSUME NEW w \in Worker, NEW q \in Run, Claim(w, q) PROVE status'[r] = "RUNNING"
    BY <1>1, <2>0, <2>5 DEF Claim, SetStatus, TypeOK
  <2>6. ASSUME NEW q \in Run, NEW a \in Attempt, Task(q, a)
        PROVE  MarkStatus(q, a) \/ Retry(q, a) \/ status' = status
    BY <2>6 DEF Task, TaskStep, Dispatch, FenceFails, TimeOut, HaltSkips, PersistArtifacts,
       Return, Fail, RejectInput, Release, RetryTooLate, Fence, Progress, Abandon,
       ReadClock, Renew, HeartbeatEnds, rowVars
  <2>7. CASE Tick \/ UNCHANGED vars
    BY <1>1, <2>7 DEF Tick, vars
  <2>. QED
    BY <1>1, <2>1, <2>2, <2>3, <2>4, <2>5, <2>6, <2>7 DEF Next
<1>2. Inv /\ [Next]_vars =>
          [\A r \in Run : status[r] = "RUNNING" /\ status'[r] # "RUNNING" =>
               \/ phase'[r][attempt[r]] # phase[r][attempt[r]]
               \/ lease[r] = 0 /\ attempt[r] = MaxAttempts]_vars
  BY <1>1
<1> QED
  BY <1>2, Invariance, PTL DEF Spec, OnlyTheOwnerEnds
=============================================================================
