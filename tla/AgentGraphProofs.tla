-------------------------- MODULE AgentGraphProofs --------------------------
(***************************************************************************)
(* Proofs about AgentGraph, for any limits.  What has to be known of the    *)
(* graph state (StateInv) has to be known of the checkpoint as well,        *)
(* because a recovery puts it back; At says what is special about a state   *)
(* at a node, and ProcessInv what only the living process knows.  One       *)
(* lemma per action; a node that only changes the graph state is reduced    *)
(* to that state by NodeKeepsInv, and a halt by EndKeeps.                   *)
(***************************************************************************)
EXTENDS AgentGraph, TLAPS, FiniteSetTheorems

\* What a step that is not the last of run_agent_workflow leaves alone stays true.
LEMMA RestKept ==
    ASSUME Inv, UNCHANGED <<row, result, ckpt>>, artifacts \subseteq artifacts',
           tests \subseteq tests'
    PROVE  /\ ParkedIsApprovable'
           /\ StateInv(ckpt.s, artifacts)' /\ At(ckpt.next, ckpt.s)'
           /\ (ckpt.next = "none" => ckpt = NoCheckpoint)'
<1>1. ParkedIsApprovable'
  BY DEF Inv, ParkedIsApprovable
<1>2. /\ StateInv(ckpt.s, artifacts)' /\ At(ckpt.next, ckpt.s)'
      /\ (ckpt.next = "none" => ckpt = NoCheckpoint)'
  BY DEF Inv, StateInv, Parked
<1>3. QED
  BY <1>1, <1>2

\* A node changes the graph state and the process; it has to be examined for these only.
LEMMA NodeKeepsInv ==
    ASSUME Inv, UNCHANGED <<row, result, attempt, ckpt, head, tests, evidence>>,
           s' \in State, StateInv(s, artifacts)', At(pc, s)', pc' \in Live, ProcessInv',
           budget' \in Budget, sandbox' \in 0 .. MaxHead, nextTest' \in Nat \ {0},
           artifacts' \subseteq ArtifactRow, artifacts \subseteq artifacts'
    PROVE  Inv'
<1>1. TypeOK'
  BY DEF Inv, TypeOK
<1>2. QED
  BY <1>1, RestKept DEF Inv

\* A new state with the same evidence and patches is as good.
LEMMA SameFoundation ==
    ASSUME NEW t, NEW u, NEW arts, StateInv(t, arts), u.status # "WAITING_APPROVAL",
           u.spent = t.spent, u.evidence = t.evidence, u.patches = t.patches, u.cause = t.cause
    PROVE  StateInv(u, arts)
  BY DEF StateInv, Founded

\* A graph state that is given a status and a number of steps keeps what it rests on.
LEMMA EndKeeps ==
    ASSUME NEW t \in State, NEW st \in {"RUNNING"} \cup Terminal, NEW n \in 0 .. MaxSteps,
           NEW arts, StateInv(t, arts)
    PROVE  /\ [Halt(t, st) EXCEPT !.steps = n] \in State
           /\ StateInv([Halt(t, st) EXCEPT !.steps = n], arts)
           /\ [Halt(t, st) EXCEPT !.steps = n].status = st
<1> DEFINE u == [Halt(t, st) EXCEPT !.steps = n]
<1>1. u \in State
  BY DEF Halt, State
<1>2. /\ u.status = st /\ st # "WAITING_APPROVAL" /\ u.spent = t.spent /\ u.evidence = t.evidence
      /\ u.patches = t.patches /\ u.cause = t.cause
  BY DEF Halt, Terminal
<1>3. QED
  BY <1>1, <1>2, SameFoundation

\* A graph state that ends keeps what it rests on.
LEMMA HaltKeeps ==
    ASSUME NEW t \in State, NEW st \in {"RUNNING"} \cup Terminal, NEW arts, StateInv(t, arts)
    PROVE  Halt(t, st) \in State /\ StateInv(Halt(t, st), arts) /\ Halt(t, st).status = st
<1>1. Halt(t, st) \in State
  BY DEF Halt, State
<1>2. /\ Halt(t, st).status = st /\ st # "WAITING_APPROVAL"
      /\ Halt(t, st).spent = t.spent /\ Halt(t, st).evidence = t.evidence
      /\ Halt(t, st).patches = t.patches /\ Halt(t, st).cause = t.cause
  BY DEF Halt, Terminal
<1>3. QED
  BY <1>1, <1>2, SameFoundation

\* The rebuilt budget is a budget, and covers what the graph state has spent.
LEMMA RebuiltIsGood ==
    ASSUME TypeOK, StateInv(s, artifacts)
    PROVE  Rebuilt \in Budget /\ s.spent <= Rebuilt.calls
<1>1. s.spent \in 0 .. MaxToolCalls /\ s.steps \in 0 .. MaxSteps
  BY LimitsAssumption DEF TypeOK, State, StateInv
<1>2. budget.calls \in 0 .. MaxToolCalls /\ budget.steps \in 0 .. MaxSteps
  BY DEF TypeOK, Budget
<1>3. QED
  BY <1>1, <1>2, LimitsAssumption DEF Rebuilt, Budget, Greater

\* The state an attempt begins with.
LEMMA FreshIsGood == Fresh \in State /\ \A arts : StateInv(Fresh, arts) /\ At("plan", Fresh)
<1>1. Fresh \in State
  BY LimitsAssumption DEF Fresh, State
<1>2. \A arts : StateInv(Fresh, arts)
  BY LimitsAssumption, FS_EmptySet DEF Fresh, StateInv, Greater
<1>3. At("plan", Fresh)
  BY DEF At, Fresh, Patching
<1>4. QED
  BY <1>1, <1>2, <1>3

\* The plan sets the budget up.
LEMMA PlanInv == ASSUME Inv, Plan PROVE Inv'
<1> USE DEF Plan, Return, tables
<1> TypeOK /\ ProcessInv /\ StateInv(s, artifacts) /\ At(pc, s)
  BY DEF Inv
<1>1. budget' \in Budget /\ pc' \in Live
  BY RebuiltIsGood DEF Live, Node, Graph, Claimed
<1>2. At(pc, s)' /\ ProcessInv'
  BY DEF At, Unpatched, Patching, ProcessInv, Claimed
<1>3. QED
  BY <1>1, <1>2, NodeKeepsInv DEF TypeOK

\* From here on the budget covers what the state has spent.
LEMMA CollectBeginsInv == ASSUME Inv, CollectBegins PROVE Inv'
<1> USE DEF CollectBegins, tables
<1> TypeOK /\ ProcessInv /\ StateInv(s, artifacts) /\ At(pc, s)
  BY DEF Inv
<1>1. budget' \in Budget /\ pc' \in Live /\ s.spent <= budget'.calls
  BY RebuiltIsGood DEF Live, InNode, Graph, Claimed
<1>2. At(pc, s)' /\ ProcessInv'
  BY <1>1 DEF At, Unpatched, Patching, ProcessInv, Claimed
<1>3. QED
  BY <1>1, <1>2, NodeKeepsInv DEF TypeOK

\* The last statements of collect_evidence only end the run or pass it on.
LEMMA CollectedKeeps ==
    ASSUME NEW t \in State, NEW b \in Budget, Collected(t, b), UNCHANGED artifacts,
           StateInv(t, artifacts), t.status # "WAITING_APPROVAL", t.patches = <<>>, t.rejected <= 2
    PROVE  /\ s' \in State /\ StateInv(s, artifacts)' /\ At(pc, s)'
           /\ pc' \in {"form", "end"}
<1> DEFINE st == IF ~CanStep(b) /\ t.status = "RUNNING" THEN "NEEDS_HUMAN_INTERVENTION" ELSE t.status
           u == [t EXCEPT !.steps = b.steps, !.status = st]
           v == IF u.evidence = {} THEN [u EXCEPT !.status = "INSUFFICIENT_EVIDENCE", !.steps = 0]
                                   ELSE u
<1>1. s' = v /\ pc' = StopOr(v, "form")
  BY DEF Collected, Return
<1>2. st \in {"RUNNING"} \cup Terminal /\ b.steps \in 0 .. MaxSteps /\ 0 \in 0 .. MaxSteps
  BY LimitsAssumption DEF State, Terminal, Budget
<1> HIDE DEF st
<1>3. u \in State /\ v \in State
  BY <1>2 DEF State, Terminal
<1>4. /\ u.spent = t.spent /\ u.evidence = t.evidence /\ u.patches = t.patches
      /\ u.cause = t.cause /\ u.rejected = t.rejected /\ u.status = st
  OBVIOUS
<1>5. /\ v.spent = t.spent /\ v.evidence = t.evidence /\ v.patches = t.patches
      /\ v.cause = t.cause /\ v.rejected = t.rejected /\ v.status # "WAITING_APPROVAL"
  BY <1>2, <1>3, <1>4 DEF Terminal
<1> HIDE DEF u, v
<1>6. StateInv(v, artifacts)
  BY <1>5, SameFoundation
<1>7. pc' \in {"form", "end"}
  BY <1>1 DEF StopOr
<1>8. At(pc', v)
  BY <1>1, <1>5, <1>7 DEF At, Patching, StopOr
<1>9. QED
  BY <1>1, <1>3, <1>6, <1>7, <1>8

\* The loop of collect_evidence ends.
LEMMA CollectExhaustedInv == ASSUME Inv, CollectExhausted PROVE Inv'
<1> USE DEF CollectExhausted, tables
<1> TypeOK /\ ProcessInv /\ StateInv(s, artifacts) /\ At(pc, s)
  BY DEF Inv
<1>1. s' \in State /\ StateInv(s, artifacts)' /\ At(pc, s)' /\ pc' \in {"form", "end"}
  BY CollectedKeeps DEF TypeOK, At, Unpatched
<1>2. pc' \in Live /\ ProcessInv'
  BY <1>1 DEF Live, Node, ProcessInv, Patching, Graph, Claimed
<1>3. QED
  BY <1>1, <1>2, NodeKeepsInv DEF TypeOK

\* A state and a budget that count the same call: the one stays below the other.
LEMMA CallIsCounted ==
    ASSUME NEW t \in State, StateInv(t, artifacts), NEW b \in Budget, t.spent <= b.calls,
           NEW r \in Results(MaxToolCalls - b.calls)
    PROVE  /\ r.tries \in Nat /\ r.ok \in BOOLEAN
           /\ b.calls + r.tries \in 0 .. MaxToolCalls
           /\ t.spent + r.tries \in 0 .. MaxToolCalls
           /\ t.spent + r.tries <= b.calls + r.tries
<1>1. r.tries \in Nat /\ r.ok \in BOOLEAN /\ (r.tries = 0 \/ r.tries <= MaxToolCalls - b.calls)
  <2>1. CASE r \in [ok : {FALSE}, tries : {0}]
    <3>1. r.ok \in {FALSE} /\ r.tries \in {0}
      BY <2>1
    <3>2. r.ok \in BOOLEAN
      BY <3>1
    <3>3. r.tries \in Nat /\ r.tries = 0
      BY <3>1
    <3>4. QED
      BY <3>2, <3>3
  <2>2. CASE r \in [ok : BOOLEAN, tries : {n \in 1 .. MaxTries : n <= MaxToolCalls - b.calls}]
    <3>1. r.ok \in BOOLEAN /\ r.tries \in {n \in 1 .. MaxTries : n <= MaxToolCalls - b.calls}
      BY <2>2
    <3>2. QED
      BY <3>1, TriesAssumption
  <2>3. QED
    BY <2>1, <2>2 DEF Results
<1>2. t.spent \in Nat /\ b.calls \in 0 .. MaxToolCalls
  BY DEF State, Budget
<1>3. QED
  BY <1>1, <1>2, LimitsAssumption

\* Each iteration counts its step and its calls in the state and in the budget.
LEMMA CollectStepInv == ASSUME Inv, CollectStep PROVE Inv'
<1> USE DEF tables
<1>0. /\ pc = "collecting" /\ CanStep(budget)
      /\ UNCHANGED <<row, result, attempt, sandbox, ckpt, head, nextTest, tables>>
  BY DEF CollectStep
<1> TypeOK /\ ProcessInv /\ StateInv(s, artifacts) /\ At(pc, s)
  BY DEF Inv
<1> row' = "RUNNING"
  BY <1>0 DEF ProcessInv
<1>1. /\ s \in State /\ s.status # "WAITING_APPROVAL" /\ s.patches = <<>> /\ s.rejected <= 2
      /\ budget \in Budget /\ s.spent <= budget.calls
  BY <1>0 DEF TypeOK, At, Unpatched, ProcessInv, Claimed
<1> DEFINE b == [budget EXCEPT !.steps = @ + 1]
           t == [s EXCEPT !.taken = @ + 1]
           called == [t EXCEPT !.calls = @ + 1]
<1>2. b \in Budget /\ b.calls = budget.calls
  BY <1>0, <1>1, LimitsAssumption DEF Budget, CanStep
<1>3. /\ t \in State /\ t.status = s.status /\ t.spent = s.spent /\ t.evidence = s.evidence
      /\ t.patches = s.patches /\ t.cause = s.cause /\ t.rejected = s.rejected
  BY <1>1 DEF State
<1>4. StateInv(t, artifacts)
  BY <1>1, <1>3, SameFoundation
<1>5. /\ called \in State /\ called.rejected = s.rejected /\ called.patches = s.patches
      /\ StateInv(called, artifacts)
  <2>1. /\ called \in State /\ called.status = s.status /\ called.spent = s.spent
        /\ called.evidence = s.evidence /\ called.patches = s.patches
        /\ called.cause = s.cause /\ called.rejected = s.rejected
    <3> HIDE DEF t
    <3>1. t.calls + 1 \in Nat
      BY <1>3 DEF State
    <3>2. called = [t EXCEPT !.calls = t.calls + 1]
      OBVIOUS
    <3> HIDE DEF called
    <3>3. QED
      BY <1>3, <3>1, <3>2 DEF State
  <2>2. QED
    BY <1>1, <2>1, SameFoundation
<1>6. ASSUME NEW u \in State, StateInv(u, artifacts), u.rejected <= 2, u.patches = <<>>,
             NEW st \in {"RUNNING"} \cup Terminal
      PROVE  /\ Halt(u, st) \in State /\ StateInv(Halt(u, st), artifacts)
             /\ Halt(u, st).status # "WAITING_APPROVAL"
             /\ Halt(u, st).rejected <= 2 /\ Halt(u, st).patches = <<>>
  <2>1. /\ Halt(u, st).status = st /\ Halt(u, st).rejected = u.rejected
        /\ Halt(u, st).patches = u.patches /\ st # "WAITING_APPROVAL"
    BY DEF Halt, Terminal
  <2>2. QED
    BY <1>6, <2>1, HaltKeeps
<1>7. CASE /\ \/ Collected(t, b)
              \/ \E stop \in {"INSUFFICIENT_EVIDENCE", "NEEDS_HUMAN_INTERVENTION"} :
                     Collected(Halt(t, stop), b)
              \/ Collected(Halt(called, "NEEDS_HUMAN_INTERVENTION"), b)
           /\ budget' = b
  <2>1. PICK u \in State : /\ Collected(u, b) /\ StateInv(u, artifacts)
                           /\ u.status # "WAITING_APPROVAL" /\ u.patches = <<>> /\ u.rejected <= 2
    <3> HIDE DEF b, t, called
    <3>1. CASE Collected(t, b)
      BY <1>1, <1>3, <1>4, <3>1
    <3>2. ASSUME NEW stop \in {"INSUFFICIENT_EVIDENCE", "NEEDS_HUMAN_INTERVENTION"},
                 Collected(Halt(t, stop), b)
          PROVE  \E u \in State : /\ Collected(u, b) /\ StateInv(u, artifacts)
                                  /\ u.status # "WAITING_APPROVAL" /\ u.patches = <<>> /\ u.rejected <= 2
      <4>1. stop \in {"RUNNING"} \cup Terminal
        BY DEF Terminal
      <4>2. QED
        BY <1>1, <1>3, <1>4, <1>6, <3>2, <4>1
    <3>3. CASE Collected(Halt(called, "NEEDS_HUMAN_INTERVENTION"), b)
      <4>1. "NEEDS_HUMAN_INTERVENTION" \in {"RUNNING"} \cup Terminal
        BY DEF Terminal
      <4>2. QED
        BY <1>1, <1>5, <1>6, <3>3, <4>1
    <3>4. QED
      BY <1>7, <3>1, <3>2, <3>3
  <2> HIDE DEF b, t, called
  <2>2. s' \in State /\ StateInv(s, artifacts)' /\ At(pc, s)' /\ pc' \in {"form", "end"}
    BY <1>0, <1>2, <2>1, CollectedKeeps
  <2>3. pc' \in Live /\ ProcessInv'
    BY <2>2 DEF Live, Node, ProcessInv, Patching, Graph, Claimed
  <2>4. QED
    BY <1>0, <1>2, <1>7, <2>2, <2>3, NodeKeepsInv DEF TypeOK
<1>8. ASSUME NEW r \in Results(MaxToolCalls - budget.calls), NEW o \in Observation,
             LET c == [b EXCEPT !.calls = @ + r.tries]
                 u == [t EXCEPT !.calls = @ + 1,
                                !.spent = @ + r.tries,
                                !.evidence = IF r.ok THEN @ \cup {o} ELSE @]
             IN /\ budget' = c
                /\ IF u.calls >= MaxToolCalls
                   THEN Collected(Halt(u, "NEEDS_HUMAN_INTERVENTION"), c)
                   ELSE s' = u /\ pc' = "collecting"
      PROVE  Inv'
  <2> DEFINE c == [b EXCEPT !.calls = @ + r.tries]
             ev == IF r.ok THEN s.evidence \cup {o} ELSE s.evidence
             u == [t EXCEPT !.calls = @ + 1, !.spent = @ + r.tries,
                            !.evidence = IF r.ok THEN @ \cup {o} ELSE @]
  <2>1. /\ r.tries \in Nat /\ budget.calls + r.tries \in 0 .. MaxToolCalls
        /\ s.spent + r.tries \in 0 .. MaxToolCalls
        /\ s.spent + r.tries <= budget.calls + r.tries
    BY <1>1, CallIsCounted
  <2>2. c \in Budget /\ c.calls = budget.calls + r.tries
    <3> HIDE DEF b
    <3>1. c = [calls |-> b.calls + r.tries, steps |-> b.steps]
      BY <1>2 DEF Budget
    <3>2. QED
      BY <1>2, <2>1, <3>1 DEF Budget
  <2>3. /\ u \in State /\ u.spent = s.spent + r.tries /\ u.evidence = ev
        /\ u.patches = s.patches /\ u.rejected = s.rejected /\ u.status = s.status
    <3> HIDE DEF t
    <3>1. ev \in SUBSET Observation
      BY <1>1 DEF State
    <3>2. u = [t EXCEPT !.calls = @ + 1, !.spent = @ + r.tries, !.evidence = ev]
      BY <1>3
    <3> HIDE DEF ev, u
    <3>3. t.calls + 1 \in Nat /\ s.spent + r.tries \in Nat
      BY <1>3, <2>1 DEF State
    <3>4. u \in State
      BY <1>3, <3>1, <3>2, <3>3 DEF State
    <3>5. QED
      BY <1>3, <3>2, <3>4
  <2>4. IsFiniteSet(ev)
    BY FS_AddElement DEF StateInv
  <2> HIDE DEF ev, u, c
  <2>5. StateInv(u, artifacts)
    BY <1>1, <2>1, <2>3, <2>4 DEF StateInv
  <2>6. CASE Collected(Halt(u, "NEEDS_HUMAN_INTERVENTION"), c) /\ budget' = c
    <3>1. "NEEDS_HUMAN_INTERVENTION" \in {"RUNNING"} \cup Terminal
      BY DEF Terminal
    <3>2. s' \in State /\ StateInv(s, artifacts)' /\ At(pc, s)' /\ pc' \in {"form", "end"}
      BY <1>0, <1>1, <1>6, <2>2, <2>3, <2>5, <2>6, <3>1, CollectedKeeps
    <3>3. pc' \in Live /\ ProcessInv'
      BY <3>2 DEF Live, Node, ProcessInv, Patching, Graph, Claimed
    <3>4. QED
      BY <1>0, <2>2, <2>6, <3>2, <3>3, NodeKeepsInv DEF TypeOK
  <2>7. CASE s' = u /\ pc' = "collecting" /\ budget' = c
    <3>1. At(pc, s)' /\ ProcessInv' /\ pc' \in Live
      BY <1>1, <2>1, <2>2, <2>3, <2>7 DEF At, Patching, ProcessInv, Live, InNode, Graph, Claimed
    <3>2. QED
      BY <1>0, <2>2, <2>3, <2>5, <2>7, <3>1, NodeKeepsInv DEF TypeOK
  <2>8. QED
    BY <1>8, <2>6, <2>7 DEF u, c
<1>9. QED
  BY <1>7, <1>8 DEF CollectStep

\* Two contents are needed to go on.
LEMMA FormHypothesisInv == ASSUME Inv, FormHypothesis PROVE Inv'
<1> USE DEF tables
<1>0. /\ pc = "form" /\ budget' = Rebuilt
      /\ UNCHANGED <<row, result, attempt, sandbox, ckpt, head, nextTest, tables>>
  BY DEF FormHypothesis
<1> TypeOK /\ ProcessInv /\ StateInv(s, artifacts) /\ At(pc, s)
  BY DEF Inv
<1> row' = "RUNNING"
  BY <1>0 DEF ProcessInv
<1>1. budget' \in Budget
  BY <1>0, RebuiltIsGood
<1>2. CASE s' = [Halt(s, "INSUFFICIENT_EVIDENCE") EXCEPT !.steps = 0] /\ pc' = "end"
  <2>1. "INSUFFICIENT_EVIDENCE" \in {"RUNNING"} \cup Terminal /\ 0 \in 0 .. MaxSteps
    BY LimitsAssumption DEF Terminal
  <2>2. s' \in State /\ StateInv(s, artifacts)' /\ s'.status = "INSUFFICIENT_EVIDENCE"
    BY <1>0, <1>2, <2>1, EndKeeps DEF TypeOK
  <2>3. At(pc, s)' /\ ProcessInv' /\ pc' \in Live
    BY <1>2, <2>2 DEF At, Unpatched, Patching, ProcessInv, Live, Node, Graph, Claimed
  <2>4. QED
    BY <1>0, <1>1, <2>2, <2>3, NodeKeepsInv DEF TypeOK
<1>3. CASE Cardinality(s.evidence) >= 2 /\ s' = s /\ pc' = "verify"
  <2>1. At(pc, s)' /\ ProcessInv' /\ pc' \in Live
    BY <1>0, <1>3 DEF At, Unpatched, Patching, ProcessInv, Live, Node, Graph, Claimed
  <2>2. QED
    BY <1>0, <1>1, <1>3, <2>1, NodeKeepsInv DEF TypeOK
<1>4. QED
  BY <1>2, <1>3 DEF FormHypothesis, Return

\* A conclusion rests on the new content and those before it; a rejection leaves at most
\* two behind when the graph goes on.
LEMMA VerifyHypothesisInv == ASSUME Inv, VerifyHypothesis PROVE Inv'
<1> USE DEF tables
<1>0. /\ pc = "verify"
      /\ UNCHANGED <<row, result, attempt, sandbox, ckpt, head, nextTest, tables>>
  BY DEF VerifyHypothesis
<1> TypeOK /\ ProcessInv /\ StateInv(s, artifacts) /\ At(pc, s)
  BY DEF Inv
<1> row' = "RUNNING"
  BY <1>0 DEF ProcessInv
<1>1. /\ s \in State /\ s.status # "WAITING_APPROVAL" /\ s.patches = <<>> /\ s.rejected <= 2
      /\ Cardinality(s.evidence) >= 2 /\ IsFiniteSet(s.evidence)
  BY <1>0 DEF TypeOK, At, Unpatched, StateInv
<1>2. Rebuilt \in Budget /\ s.spent <= Rebuilt.calls
  BY RebuiltIsGood
<1> DEFINE t(r) == [s EXCEPT !.calls = @ + 1, !.spent = @ + r.tries]
           u(r, o) == [t(r) EXCEPT !.evidence = @ \cup {o}]
           rejected(r, o) == [u(r, o) EXCEPT !.rejected = @ + 1, !.steps = 0]
           c(r) == [Rebuilt EXCEPT !.calls = @ + r.tries]
<1>3. PICK r \in Results(MaxToolCalls - Rebuilt.calls), o \in Observation :
         /\ budget' = c(r)
         /\ \/ /\ ~Independent(r, o)
               /\ Return(Halt(t(r), "INSUFFICIENT_EVIDENCE"), "end")
            \/ /\ Independent(r, o)
               /\ \/ IF rejected(r, o).rejected >= 3 \/ ~CanStep(c(r))
                     THEN Return(Halt(rejected(r, o), "INSUFFICIENT_EVIDENCE"), "end")
                     ELSE Return(rejected(r, o), "collect")
                  \/ Return(Halt(u(r, o), "INSUFFICIENT_EVIDENCE"), "end")
                  \/ /\ \E e \in u(r, o).evidence : Source[e] # Source[o]
                     /\ Return([u(r, o) EXCEPT !.cause = TRUE], "create")
  BY DEF VerifyHypothesis
<1>4. /\ r.tries \in Nat /\ Rebuilt.calls + r.tries \in 0 .. MaxToolCalls
      /\ s.spent + r.tries \in 0 .. MaxToolCalls
  BY <1>1, <1>2, CallIsCounted
<1>5. c(r) \in Budget
  <2>1. c(r) = [calls |-> Rebuilt.calls + r.tries, steps |-> Rebuilt.steps]
    BY <1>2 DEF Budget
  <2>2. QED
    BY <1>2, <1>4, <2>1 DEF Budget
<1> DEFINE T == t(r)  U == u(r, o)  R == rejected(r, o)  C == [U EXCEPT !.cause = TRUE]
<1>6. /\ T \in State /\ T.spent = s.spent + r.tries /\ T.evidence = s.evidence
      /\ T.patches = <<>> /\ T.status = s.status /\ T.rejected = s.rejected
  <2>1. s.calls + 1 \in Nat /\ s.spent + r.tries \in Nat
    BY <1>1, <1>4 DEF State
  <2>2. T = [s EXCEPT !.calls = s.calls + 1, !.spent = s.spent + r.tries]
    BY <1>1
  <2> HIDE DEF T, t
  <2>3. QED
    BY <1>1, <2>1, <2>2 DEF State
<1> HIDE DEF t
<1>7. /\ U \in State /\ U.spent = T.spent /\ U.evidence = s.evidence \cup {o}
      /\ U.patches = <<>> /\ U.status = s.status /\ U.rejected = s.rejected
  <2>1. T.evidence \cup {o} \in SUBSET Observation
    BY <1>6 DEF State
  <2>2. U = [T EXCEPT !.evidence = T.evidence \cup {o}]
    OBVIOUS
  <2> HIDE DEF U, T
  <2>3. QED
    BY <1>6, <2>1, <2>2 DEF State
<1> HIDE DEF u
<1>8. /\ R \in State /\ R.spent = U.spent /\ R.evidence = U.evidence /\ R.rejected = s.rejected + 1
      /\ R.patches = <<>> /\ R.status = s.status
  <2>1. s.rejected + 1 \in 0 .. 3 /\ 0 \in 0 .. MaxSteps
    BY <1>1, LimitsAssumption DEF State
  <2>2. R = [U EXCEPT !.rejected = s.rejected + 1, !.steps = 0]
    BY <1>7
  <2> HIDE DEF U, R
  <2>3. QED
    BY <1>7, <2>1, <2>2 DEF State
<1>9. /\ C \in State /\ C.spent = U.spent /\ C.evidence = U.evidence /\ C.cause = TRUE
      /\ C.patches = <<>> /\ C.status = s.status /\ C.rejected = s.rejected
  <2> HIDE DEF U
  <2>1. QED
    BY <1>7 DEF State
<1> HIDE DEF rejected, T, U, R, C
<1>10. IsFiniteSet(s.evidence \cup {o})
  BY <1>1, FS_AddElement
<1>11. /\ StateInv(T, artifacts) /\ StateInv(U, artifacts)
       /\ StateInv(R, artifacts) /\ StateInv(C, artifacts)
  BY <1>1, <1>4, <1>6, <1>7, <1>8, <1>9, <1>10 DEF StateInv
<1>12. ASSUME NEW x \in State, StateInv(x, artifacts), s' = Halt(x, "INSUFFICIENT_EVIDENCE"), pc' = "end"
       PROVE  Inv'
  <2>1. "INSUFFICIENT_EVIDENCE" \in {"RUNNING"} \cup Terminal
    BY DEF Terminal
  <2>2. s' \in State /\ StateInv(s, artifacts)' /\ s'.status = "INSUFFICIENT_EVIDENCE"
    BY <1>0, <1>12, <2>1, HaltKeeps
  <2>3. At(pc, s)' /\ ProcessInv' /\ pc' \in Live
    BY <1>12, <2>2 DEF At, Unpatched, Patching, ProcessInv, Live, Node, Graph, Claimed
  <2>4. QED
    BY <1>0, <1>3, <1>5, <2>2, <2>3, NodeKeepsInv DEF TypeOK
<1>13. CASE s' = R /\ pc' = "collect" /\ ~(R.rejected >= 3)
  <2>1. R.rejected <= 2
    BY <1>8, <1>13 DEF State
  <2>2. At(pc, s)' /\ ProcessInv' /\ pc' \in Live
    BY <1>1, <1>8, <1>13, <2>1 DEF At, Patching, ProcessInv, Live, Node, Graph, Claimed
  <2>3. QED
    BY <1>0, <1>3, <1>5, <1>8, <1>11, <1>13, <2>2, NodeKeepsInv DEF TypeOK
<1>14. CASE /\ Independent(r, o) /\ (\E e \in U.evidence : Source[e] # Source[o])
            /\ s' = C /\ pc' = "create"
  <2>1. o \notin s.evidence
    BY <1>14 DEF Independent
  <2>2. Cardinality(s.evidence \cup {o}) = Cardinality(s.evidence) + 1
    BY <1>1, <2>1, FS_AddElement
  <2>3. Cardinality(s.evidence) \in Nat
    BY <1>1, FS_CardinalityType
  <2>4. Founded(C)
    BY <1>1, <1>7, <1>9, <1>14, <2>2, <2>3 DEF Founded
  <2>5. At(pc, s)' /\ ProcessInv' /\ pc' \in Live
    BY <1>1, <1>9, <1>14, <2>4 DEF At, Patching, ProcessInv, Live, Node, Graph, Claimed
  <2>6. QED
    BY <1>0, <1>3, <1>5, <1>9, <1>11, <1>14, <2>5, NodeKeepsInv DEF TypeOK
<1>15. QED
  BY <1>3, <1>6, <1>7, <1>8, <1>11, <1>12, <1>13, <1>14 DEF Return, T, U, R, C

\* A node that ends the run with its graph state as it is.
LEMMA HaltingNode ==
    ASSUME Inv, NEW st \in Terminal, s' = Halt(s, st), pc # "idle", pc' \in {"end", "human"},
           UNCHANGED <<row, result, attempt, ckpt, head, tests, evidence, artifacts>>,
           budget' \in Budget, sandbox' \in 0 .. MaxHead, nextTest' \in Nat \ {0}
    PROVE  Inv'
<1> TypeOK /\ ProcessInv /\ StateInv(s, artifacts)
  BY DEF Inv
<1>1. s' \in State /\ StateInv(s, artifacts)' /\ s'.status = st
  BY HaltKeeps DEF TypeOK
<1>2. At(pc, s)' /\ ProcessInv' /\ pc' \in Live
  BY <1>1 DEF At, Unpatched, Patching, ProcessInv, Live, Node, Terminal, Graph, Claimed
<1>3. QED
  BY <1>1, <1>2, NodeKeepsInv DEF TypeOK

\* The sandbox is made from the commit the repository is at.
LEMMA CreateSandboxInv == ASSUME Inv, CreateSandbox PROVE Inv'
<1> USE DEF tables
<1>0. /\ pc = "create" /\ budget' = Rebuilt
      /\ UNCHANGED <<row, result, attempt, ckpt, head, nextTest, tables>>
  BY DEF CreateSandbox
<1> TypeOK /\ ProcessInv /\ StateInv(s, artifacts) /\ At(pc, s)
  BY DEF Inv
<1> row' = "RUNNING"
  BY <1>0 DEF ProcessInv
<1>1. budget' \in Budget
  BY <1>0, RebuiltIsGood
<1>2. CASE sandbox' = head /\ s' = s /\ pc' = "generate"
  <2>1. sandbox' \in 0 .. MaxHead /\ Len(<<>>) = 0
    BY <1>2 DEF TypeOK
  <2>2. At(pc, s)' /\ ProcessInv' /\ pc' \in Live
    BY <1>0, <1>2, <2>1, LimitsAssumption DEF At, Unpatched, ProcessInv, Live, Node, Greater, Graph, Claimed
  <2>3. QED
    BY <1>0, <1>1, <1>2, <2>1, <2>2, NodeKeepsInv DEF TypeOK
<1>3. CASE sandbox' = NoSandbox /\ s' = Halt(s, "FAILED") /\ pc' = "end"
  <2>1. "FAILED" \in Terminal /\ NoSandbox \in 0 .. MaxHead
    BY LimitsAssumption DEF Terminal, NoSandbox
  <2>2. QED
    BY <1>0, <1>1, <1>3, <2>1, HaltingNode DEF TypeOK
<1>4. QED
  BY <1>2, <1>3 DEF CreateSandbox, Return

\* Nothing but the node changes.
LEMMA ReflectInv == ASSUME Inv, Reflect PROVE Inv'
<1> USE DEF tables
<1> TypeOK /\ ProcessInv /\ StateInv(s, artifacts) /\ At(pc, s)
  BY DEF Inv
<1>1. budget' \in Budget
  BY RebuiltIsGood DEF Reflect
<1>2. At(pc, s)' /\ ProcessInv' /\ pc' \in Live
  BY DEF Reflect, Return, At, Unpatched, Patching, ProcessInv, Live, Node, Graph, Claimed
<1>3. QED
  BY <1>1, <1>2, NodeKeepsInv DEF Reflect, Return, TypeOK

\* A run that did not end is handed to a human.
LEMMA NeedsHumanInv == ASSUME Inv, NeedsHuman PROVE Inv'
<1> USE DEF tables
<1>0. /\ pc = "human" /\ pc' = "end"
      /\ UNCHANGED <<row, result, attempt, budget, sandbox, ckpt, head, nextTest, tables>>
  BY DEF NeedsHuman, Return
<1> TypeOK /\ ProcessInv /\ StateInv(s, artifacts) /\ At(pc, s)
  BY DEF Inv
<1> row' = "RUNNING"
  BY <1>0 DEF ProcessInv
<1>1. CASE s' = Halt(s, "NEEDS_HUMAN_INTERVENTION")
  <2>1. "NEEDS_HUMAN_INTERVENTION" \in Terminal
    BY DEF Terminal
  <2>2. QED
    BY <1>0, <1>1, <2>1, HaltingNode DEF TypeOK
<1>2. CASE s' = s /\ s.status # "RUNNING"
  <2>1. At(pc, s)' /\ ProcessInv' /\ pc' \in Live
    BY <1>0, <1>2 DEF At, Unpatched, Patching, ProcessInv, Live, Node, Graph, Claimed
  <2>2. QED
    BY <1>0, <1>2, <2>1, NodeKeepsInv DEF TypeOK
<1>3. QED
  BY <1>1, <1>2 DEF NeedsHuman, Return

\* The state an attempt began with takes the place of the graph's.
LEMMA GraphFailsInv == ASSUME Inv, GraphFails PROVE Inv'
<1> USE DEF tables
<1> TypeOK /\ ProcessInv
  BY DEF Inv
<1>1. "FAILED" \in {"RUNNING"} \cup Terminal /\ Fresh \in State /\ StateInv(Fresh, artifacts)
  BY FreshIsGood DEF Terminal
<1>2. s' \in State /\ StateInv(s, artifacts)' /\ s'.status = "FAILED"
  BY <1>1, HaltKeeps DEF GraphFails
<1>3. At(pc, s)' /\ ProcessInv' /\ pc' \in Live
  BY <1>2 DEF GraphFails, At, Unpatched, Patching, ProcessInv, Live, Graph, Node, InNode, Claimed
<1>4. QED
  BY <1>2, <1>3, NodeKeepsInv DEF GraphFails, TypeOK

\* A patch is put behind the others.
LEMMA AppendPatch ==
    ASSUME NEW q \in Seq(Patch), NEW p \in Patch
    PROVE  /\ Append(q, p) \in Seq(Patch) /\ Append(q, p) # <<>>
           /\ Len(Append(q, p)) = Len(q) + 1 /\ Last(Append(q, p)) = p
           /\ \A i \in DOMAIN Append(q, p) : Append(q, p)[i] = p \/ (i \in DOMAIN q /\ Append(q, p)[i] = q[i])
<1>1. /\ Append(q, p) \in Seq(Patch) /\ Len(q) \in Nat /\ Len(Append(q, p)) = Len(q) + 1
      /\ Append(q, p)[Len(q) + 1] = p /\ \A i \in 1 .. Len(q) : Append(q, p)[i] = q[i]
  OBVIOUS
<1>2. DOMAIN q = 1 .. Len(q) /\ DOMAIN Append(q, p) = 1 .. Len(q) + 1
  BY <1>1
<1>3. Append(q, p) # <<>> /\ Last(Append(q, p)) = p
  BY <1>1 DEF Last
<1>4. ASSUME NEW i \in 1 .. Len(q) + 1
      PROVE  Append(q, p)[i] = p \/ (i \in 1 .. Len(q) /\ Append(q, p)[i] = q[i])
  <2>1. i = Len(q) + 1 \/ i \in 1 .. Len(q)
    BY <1>1
  <2>2. QED
    BY <1>1, <2>1
<1>5. QED
  BY <1>1, <1>2, <1>3, <1>4

\* The last patch is replaced.
LEMMA SetLastPatch ==
    ASSUME NEW q \in Seq(Patch), q # <<>>, NEW p \in Patch
    PROVE  /\ SetLast(q, p) \in Seq(Patch) /\ SetLast(q, p) # <<>>
           /\ Len(SetLast(q, p)) = Len(q) /\ Last(SetLast(q, p)) = p
           /\ \A i \in DOMAIN SetLast(q, p) : i \in DOMAIN q /\ (SetLast(q, p)[i] = p \/ SetLast(q, p)[i] = q[i])
<1>1. Len(q) \in Nat \ {0} /\ DOMAIN q = 1 .. Len(q)
  OBVIOUS
<1>2. SetLast(q, p) \in Seq(Patch) /\ Len(SetLast(q, p)) = Len(q)
  BY <1>1 DEF SetLast
<1>3. SetLast(q, p)[Len(q)] = p /\ DOMAIN SetLast(q, p) = DOMAIN q
  BY <1>1 DEF SetLast
<1>4. \A i \in DOMAIN q : SetLast(q, p)[i] = p \/ SetLast(q, p)[i] = q[i]
  BY <1>1 DEF SetLast
<1>5. QED
  BY <1>1, <1>2, <1>3, <1>4 DEF Last

\* The workspace is one of the repository's commits.
LEMMA WorkspaceIsCommit == TypeOK => Workspace \in 1 .. MaxHead
  BY LimitsAssumption DEF TypeOK, Workspace, NoSandbox

\* A patch is only generated within the bound, and on the base of the first.
LEMMA GeneratePatchInv == ASSUME Inv, GeneratePatch PROVE Inv'
<1> USE DEF tables
<1>0. /\ pc = "generate" /\ budget' = Rebuilt
      /\ UNCHANGED <<row, result, attempt, ckpt, head, nextTest, tables>>
  BY DEF GeneratePatch
<1> TypeOK /\ ProcessInv /\ StateInv(s, artifacts) /\ At(pc, s)
  BY DEF Inv
<1> row' = "RUNNING"
  BY <1>0 DEF ProcessInv
<1>1. budget' \in Budget /\ "FAILED" \in Terminal /\ "NEEDS_HUMAN_INTERVENTION" \in Terminal
  BY <1>0, RebuiltIsGood DEF Terminal
<1>2. CASE sandbox' = NoSandbox /\ s' = Halt(s, "FAILED") /\ pc' = "human"
  <2>1. NoSandbox \in 0 .. MaxHead
    BY LimitsAssumption DEF NoSandbox
  <2>2. QED
    BY <1>0, <1>1, <1>2, <2>1, HaltingNode DEF TypeOK
<1> DEFINE w == IF s.patches = <<>> THEN Workspace ELSE head
           p == [diff |-> Len(s.patches) + 1, base |-> w, test |-> 0, ok |-> FALSE]
           t == [s EXCEPT !.patches = Append(@, p)]
<1>3. CASE /\ s.patches # <<>> => s.patches[1].base = w
           /\ sandbox' = w
           /\ \/ s' = t /\ pc' = "tests"
              \/ s' = Halt(t, "FAILED") /\ pc' = "human"
              \/ s' = Halt(t, "NEEDS_HUMAN_INTERVENTION") /\ pc' = "human"
  <2>1. w \in 1 .. MaxHead
    BY WorkspaceIsCommit DEF TypeOK
  <2> HIDE DEF w
  <2>2. s \in State /\ s.patches \in Seq(Patch) /\ s.status # "WAITING_APPROVAL" /\ Founded(s)
    BY <1>0 DEF TypeOK, State, At, Patching
  <2>3. p \in Patch
    BY <2>1, <2>2 DEF Patch
  <2>4. p.base = w
    OBVIOUS
  <2> HIDE DEF p
  <2>5. /\ Append(s.patches, p) \in Seq(Patch) /\ Append(s.patches, p) # <<>>
        /\ Len(Append(s.patches, p)) = Len(s.patches) + 1 /\ Last(Append(s.patches, p)) = p
        /\ \A i \in DOMAIN Append(s.patches, p) :
              \/ Append(s.patches, p)[i] = p
              \/ i \in DOMAIN s.patches /\ Append(s.patches, p)[i] = s.patches[i]
    BY <2>2, <2>3, AppendPatch
  <2>6. /\ t \in State /\ t.spent = s.spent /\ t.evidence = s.evidence /\ t.cause = s.cause
        /\ t.status = s.status /\ t.patches = Append(s.patches, p)
    BY <2>2, <2>5 DEF State
  <2> HIDE DEF t
  <2>7. \A i \in DOMAIN s.patches : s.patches[i].base = w
    <3>1. SUFFICES ASSUME NEW i \in DOMAIN s.patches PROVE s.patches[i].base = w
      OBVIOUS
    <3>2. 1 \in DOMAIN s.patches /\ s.patches # <<>>
      BY <2>2
    <3>3. QED
      BY <1>3, <3>2 DEF StateInv
  <2>8. \A i, j \in DOMAIN t.patches : t.patches[i].base = t.patches[j].base
    BY <2>4, <2>5, <2>6, <2>7
  <2>9. Len(t.patches) <= Greater(MaxPatches, 1)
    <3>1. Len(s.patches) \in Nat /\ Len(s.patches) < Greater(MaxPatches, 1)
      BY <1>0, <2>2 DEF At
    <3>2. QED
      BY <2>5, <2>6, <3>1, LimitsAssumption DEF Greater
  <2>10. StateInv(t, artifacts) /\ Founded(t)
    BY <2>2, <2>6, <2>8, <2>9 DEF StateInv, Founded
  <2>11. sandbox' \in 0 .. MaxHead
    BY <1>3, <2>1
  <2>12. CASE s' = t /\ pc' = "tests"
    <3>1. At(pc, s)' /\ ProcessInv' /\ pc' \in Live
      BY <1>3, <2>2, <2>4, <2>5, <2>6, <2>10, <2>12 DEF At, Unpatched, ProcessInv, Live, Node, Graph, Claimed
    <3>2. QED
      BY <1>0, <1>1, <2>6, <2>10, <2>11, <2>12, <3>1, NodeKeepsInv DEF TypeOK
  <2>13. ASSUME NEW st \in Terminal, s' = Halt(t, st), pc' = "human" PROVE Inv'
    <3>1. s' \in State /\ StateInv(s, artifacts)' /\ s'.status = st
      <4>1. Halt(t, st).status = st
        BY <2>6 DEF Halt
      <4>2. QED
        BY <1>0, <2>6, <2>10, <2>13, <4>1, HaltKeeps
    <3>2. At(pc, s)' /\ ProcessInv' /\ pc' \in Live
      BY <2>13, <3>1 DEF At, Unpatched, Patching, ProcessInv, Live, Node, Terminal, Graph, Claimed
    <3>3. QED
      BY <1>0, <1>1, <2>11, <2>13, <3>1, <3>2, NodeKeepsInv DEF TypeOK
  <2>14. QED
    BY <1>1, <1>3, <2>12, <2>13
<1>4. QED
  <2> HIDE DEF w
  <2>1. QED
    BY <1>2, <1>3 DEF GeneratePatch, Return, w

\* A state whose last patch has been tested, on the base it was made on.
LEMMA TestedKeeps ==
    ASSUME TypeOK, StateInv(s, artifacts), s.patches # <<>>, s.status # "WAITING_APPROVAL",
           Founded(s), Workspace = Last(s.patches).base, NEW ok \in BOOLEAN
    PROVE  /\ Tested(ok) \in State /\ StateInv(Tested(ok), artifacts) /\ Founded(Tested(ok))
           /\ Tested(ok).status = s.status /\ Tested(ok).test = nextTest
           /\ Tested(ok).patches # <<>> /\ Len(Tested(ok).patches) = Len(s.patches)
           /\ Last(Tested(ok).patches).test = nextTest
           /\ Last(Tested(ok).patches).ok = ok
           /\ Last(Tested(ok).patches).base = Workspace
<1> DEFINE p == [Last(s.patches) EXCEPT !.test = nextTest, !.ok = ok, !.base = Workspace]
           q == SetLast(s.patches, p)
<1>1. s \in State /\ s.patches \in Seq(Patch) /\ nextTest \in Nat /\ Workspace \in 1 .. MaxHead
  BY WorkspaceIsCommit DEF TypeOK, State
<1>2. Last(s.patches) \in Patch
  BY <1>1 DEF Last
<1>3. p \in Patch /\ p.test = nextTest /\ p.ok = ok /\ p.base = Workspace
  BY <1>1, <1>2 DEF Patch
<1> HIDE DEF p
<1>4. /\ q \in Seq(Patch) /\ q # <<>> /\ Len(q) = Len(s.patches) /\ Last(q) = p
      /\ \A i \in DOMAIN q : i \in DOMAIN s.patches /\ (q[i] = p \/ q[i] = s.patches[i])
  BY <1>1, <1>3, SetLastPatch
<1> HIDE DEF q
<1>5. Tested(ok) = [s EXCEPT !.test = nextTest, !.patches = q]
  BY <1>1 DEF Tested, p, q
<1>6. /\ Tested(ok) \in State /\ Tested(ok).patches = q /\ Tested(ok).test = nextTest
      /\ Tested(ok).status = s.status /\ Tested(ok).spent = s.spent
      /\ Tested(ok).evidence = s.evidence /\ Tested(ok).cause = s.cause
  BY <1>1, <1>4, <1>5 DEF State
<1>7. \A i \in DOMAIN s.patches : s.patches[i].base = Workspace
  <2>1. Len(s.patches) \in DOMAIN s.patches
    BY <1>1
  <2>2. QED
    BY <2>1 DEF StateInv, Last
<1>8. \A i, j \in DOMAIN q : q[i].base = q[j].base
  BY <1>3, <1>4, <1>7
<1>9. StateInv(Tested(ok), artifacts) /\ Founded(Tested(ok))
  BY <1>4, <1>6, <1>8 DEF StateInv, Founded
<1>10. QED
  BY <1>3, <1>4, <1>6, <1>9

\* The tests run on the base of the patch, under an id of their own.
LEMMA RunTestsInv == ASSUME Inv, RunTests PROVE Inv'
<1> USE DEF tables
<1>0. /\ pc = "tests" /\ budget' = Rebuilt
      /\ UNCHANGED <<row, result, attempt, ckpt, head, tables>>
  BY DEF RunTests
<1> TypeOK /\ ProcessInv /\ StateInv(s, artifacts) /\ At(pc, s)
  BY DEF Inv
<1> row' = "RUNNING"
  BY <1>0 DEF ProcessInv
<1>1. budget' \in Budget /\ "FAILED" \in Terminal
  BY <1>0, RebuiltIsGood DEF Terminal
<1>2. CASE s' = Halt(s, "FAILED") /\ pc' = "end" /\ UNCHANGED <<sandbox, nextTest>>
  BY <1>0, <1>1, <1>2, HaltingNode DEF TypeOK
<1>3. ASSUME NEW ok \in BOOLEAN, Workspace = Last(s.patches).base, sandbox' = Workspace,
             nextTest' = nextTest + 1, s' = Tested(ok), pc' = AfterTests(ok)
      PROVE  Inv'
  <2>1. s.patches # <<>> /\ s.status # "WAITING_APPROVAL" /\ Founded(s)
    BY <1>0 DEF At, Patching
  <2>2. /\ s' \in State /\ StateInv(s, artifacts)' /\ Founded(s')
        /\ s'.status # "WAITING_APPROVAL" /\ s'.test = nextTest
        /\ s'.patches # <<>> /\ Len(s'.patches) = Len(s.patches)
        /\ Last(s'.patches).test = nextTest /\ Last(s'.patches).ok = ok
        /\ Last(s'.patches).base = Workspace
    BY <1>0, <1>3, <2>1, TestedKeeps
  <2>3. /\ pc' \in {"export", "reflect", "human"} /\ (pc' = "export" => ok)
        /\ pc' = "reflect" => Len(s'.patches) < MaxPatches
    BY <1>3, <2>2 DEF AfterTests
  <2>4. Len(s'.patches) \in Nat
    BY <2>2
  <2>5. At(pc, s)'
    BY <2>2, <2>3, <2>4, LimitsAssumption DEF At, Unpatched, Greater, TypeOK
  <2>6. ProcessInv' /\ pc' \in Live
    BY <1>3, <2>2, <2>3 DEF ProcessInv, Live, Node, Graph, Claimed
  <2>7. sandbox' \in 0 .. MaxHead /\ nextTest' \in Nat \ {0}
    BY <1>3, WorkspaceIsCommit DEF TypeOK
  <2>8. QED
    BY <1>0, <1>1, <2>2, <2>5, <2>6, <2>7, NodeKeepsInv DEF TypeOK
<1>4. QED
  BY <1>2, <1>3 DEF RunTests, Return

\* The artifact names the test that passed last, on the base of the last patch.
LEMMA ExportInv == ASSUME Inv, Export PROVE Inv'
<1> USE DEF tables
<1>0. /\ pc = "export" /\ budget' = Rebuilt
      /\ UNCHANGED <<row, result, attempt, ckpt, head, tests, evidence>>
  BY DEF Export
<1> TypeOK /\ ProcessInv /\ StateInv(s, artifacts) /\ At(pc, s)
  BY DEF Inv
<1> row' = "RUNNING"
  BY <1>0 DEF ProcessInv
<1>1. budget' \in Budget /\ "FAILED" \in {"RUNNING"} \cup Terminal /\ Workspace \in 1 .. MaxHead
  BY <1>0, RebuiltIsGood, WorkspaceIsCommit DEF Terminal
<1>2. /\ s \in State /\ s.patches # <<>> /\ s.status # "WAITING_APPROVAL" /\ Founded(s)
      /\ s.test # 0 /\ Last(s.patches).ok /\ Last(s.patches).test = s.test
  BY <1>0 DEF At, Patching, TypeOK
<1>3. ASSUME NEW t \in State, t.patches # <<>>, NEW base \in 1 .. MaxHead
      PROVE  Artifact(t, base) \in ArtifactRow
  <2>1. Last(t.patches) \in Patch /\ t.test \in Nat
    BY <1>3 DEF State, Last
  <2>2. QED
    BY <2>1 DEF Artifact, ArtifactRow, Patch
<1>4. ASSUME NEW t \in State, StateInv(t, artifacts), t.patches # <<>>, t.status # "WAITING_APPROVAL",
             Founded(t), t.test # 0, Last(t.patches).ok, Last(t.patches).test = t.test,
             s' = t, pc' = "exported", sandbox' = Last(t.patches).base, sandbox' \in 1 .. MaxHead,
             artifacts' = artifacts \cup {Artifact(t, sandbox')}, nextTest' \in Nat \ {0}
      PROVE  Inv'
  <2>1. artifacts' \subseteq ArtifactRow /\ Artifact(t, Last(t.patches).base) \in artifacts'
    BY <1>3, <1>4 DEF TypeOK
  <2>2. At(pc, s)' /\ ProcessInv' /\ pc' \in Live
    BY <1>4, <2>1 DEF At, Unpatched, ProcessInv, Live, InNode, Graph, Claimed
  <2>3. StateInv(s, artifacts)'
    BY <1>4 DEF StateInv
  <2>4. sandbox' \in 0 .. MaxHead
    BY <1>4
  <2>5. QED
    BY <1>0, <1>1, <1>4, <2>1, <2>2, <2>3, <2>4, NodeKeepsInv
<1>5. CASE /\ sandbox # NoSandbox
           /\ artifacts' = artifacts \cup {Artifact(s, sandbox)}
           /\ s' = s /\ pc' = "exported"
           /\ UNCHANGED <<sandbox, nextTest>>
  <2>1. sandbox = Last(s.patches).base /\ sandbox \in 1 .. MaxHead /\ nextTest \in Nat \ {0}
    BY <1>0, <1>5 DEF ProcessInv, Patching, TypeOK, NoSandbox, Claimed
  <2>2. QED
    BY <1>2, <1>4, <1>5, <2>1
<1>6. CASE /\ Workspace = Last(s.patches).base
           /\ sandbox' = Workspace
           /\ nextTest' = nextTest + 1
           /\ artifacts' = artifacts \cup {Artifact(Tested(TRUE), Workspace)}
           /\ s' = Tested(TRUE) /\ pc' = "exported"
  <2>1. nextTest' \in Nat \ {0} /\ nextTest # 0
    BY <1>6 DEF TypeOK
  <2>2. /\ Tested(TRUE) \in State /\ StateInv(Tested(TRUE), artifacts) /\ Founded(Tested(TRUE))
        /\ Tested(TRUE).status = s.status /\ Tested(TRUE).test = nextTest
        /\ Tested(TRUE).patches # <<>>
        /\ Last(Tested(TRUE).patches).test = nextTest
        /\ Last(Tested(TRUE).patches).ok = TRUE
        /\ Last(Tested(TRUE).patches).base = Workspace
    BY <1>2, <1>6, TestedKeeps
  <2>3. QED
    BY <1>1, <1>2, <1>4, <1>6, <2>1, <2>2
<1>7. ASSUME NEW t \in State, StateInv(t, artifacts), s' = Halt(t, "FAILED"), pc' = "wait",
             artifacts' = artifacts, nextTest' \in Nat \ {0}, sandbox' \in 0 .. MaxHead
      PROVE  Inv'
  <2>1. s' \in State /\ StateInv(s, artifacts)' /\ s'.status = "FAILED"
    BY <1>1, <1>7, HaltKeeps
  <2>2. At(pc, s)' /\ ProcessInv' /\ pc' \in Live
    BY <1>7, <2>1 DEF At, Unpatched, Patching, ProcessInv, Live, Node, Graph, Claimed
  <2>3. QED
    BY <1>0, <1>1, <1>7, <2>1, <2>2, NodeKeepsInv DEF TypeOK
<1>8. CASE /\ Workspace = Last(s.patches).base
           /\ sandbox' = Workspace
           /\ nextTest' = nextTest + 1
           /\ UNCHANGED artifacts
           /\ s' = Halt(Tested(FALSE), "FAILED") /\ pc' = "wait"
  <2>1. nextTest' \in Nat \ {0} /\ sandbox' \in 0 .. MaxHead
    BY <1>1, <1>8 DEF TypeOK
  <2>2. Tested(FALSE) \in State /\ StateInv(Tested(FALSE), artifacts)
    BY <1>2, <1>8, TestedKeeps
  <2>3. QED
    BY <1>7, <1>8, <2>1, <2>2
<1>9. CASE s' = Halt(s, "FAILED") /\ pc' = "wait" /\ UNCHANGED <<sandbox, nextTest, artifacts>>
  BY <1>2, <1>7, <1>9 DEF TypeOK
<1>10. QED
  BY <1>5, <1>6, <1>8, <1>9 DEF Export, Return

\* The run is about to be parked with the artifact just inserted.
LEMMA ExportReturnsInv == ASSUME Inv, ExportReturns PROVE Inv'
<1> USE DEF tables
<1>0. /\ pc = "exported" /\ pc' = "wait"
      /\ s' = [Halt(s, "WAITING_APPROVAL") EXCEPT !.artifact = s.test]
      /\ UNCHANGED <<row, result, attempt, budget, sandbox, ckpt, head, nextTest, tables>>
  BY DEF ExportReturns, Return
<1> TypeOK /\ ProcessInv /\ StateInv(s, artifacts) /\ At(pc, s)
  BY DEF Inv
<1> row' = "RUNNING"
  BY <1>0 DEF ProcessInv
<1>1. s' \in State
  BY <1>0 DEF TypeOK, State, Halt
<1>2. /\ s'.spent = s.spent /\ s'.evidence = s.evidence /\ s'.patches = s.patches
      /\ s'.cause = s.cause /\ s'.artifact = s.test /\ s'.status = "WAITING_APPROVAL"
  BY <1>0 DEF Halt, TypeOK, State
<1>3. Parked(s', artifacts)
  BY <1>0, <1>2 DEF Parked, At, Patching, ProcessInv, Artifact, Claimed
<1>4. StateInv(s, artifacts)'
  BY <1>0, <1>2, <1>3 DEF StateInv, Founded
<1>5. At(pc, s)' /\ ProcessInv' /\ pc' \in Live
  BY <1>0, <1>2 DEF At, Unpatched, Patching, ProcessInv, Live, Node, Graph, Claimed
<1>6. QED
  BY <1>0, <1>1, <1>4, <1>5, NodeKeepsInv DEF TypeOK

\* What a process that is gone leaves satisfies all that the process knows.
LEMMA GoneKeeps ==
    ASSUME Inv, Gone, UNCHANGED <<ckpt, head, nextTest, artifacts, tests, evidence>>,
           row' \in {"PENDING", "RUNNING", "WAITING_APPROVAL"} \cup Terminal,
           result' \in Nat, attempt' \in 0 .. MaxAttempts, ParkedIsApprovable'
    PROVE  Inv'
<1>1. s' \in State /\ StateInv(s, artifacts)' /\ At(pc, s)' /\ ProcessInv'
  BY FreshIsGood DEF Gone, At, Unpatched, Patching, ProcessInv, Claimed
<1>2. NoBudget \in Budget /\ NoSandbox \in 0 .. MaxHead
  BY LimitsAssumption DEF NoBudget, NoSandbox, Budget
<1>3. TypeOK'
  BY <1>1, <1>2 DEF Gone, Inv, TypeOK
<1>4. /\ StateInv(ckpt.s, artifacts)' /\ At(ckpt.next, ckpt.s)'
      /\ (ckpt.next = "none" => ckpt = NoCheckpoint)'
  BY DEF Inv
<1>5. QED
  BY <1>1, <1>3, <1>4 DEF Inv

\* A claim has nothing in memory yet.
LEMMA ClaimInv == ASSUME Inv, Claim PROVE Inv'
<1> USE DEF Claim, tables
<1> TypeOK /\ ProcessInv /\ StateInv(s, artifacts) /\ At(pc, s)
  BY DEF Inv
<1>1. attempt' \in 0 .. MaxAttempts /\ pc' \in Claimed
  BY LimitsAssumption DEF TypeOK, Claimed
<1>2. TypeOK'
  BY <1>1 DEF TypeOK, Live, Graph, Claimed
<1>3. ProcessInv' /\ StateInv(s, artifacts)' /\ At(pc, s)'
  BY <1>1 DEF ProcessInv, Claimed, At, Unpatched, Patching
<1>4. ParkedIsApprovable' /\ StateInv(ckpt.s, artifacts)' /\ At(ckpt.next, ckpt.s)'
      /\ (ckpt.next = "none" => ckpt = NoCheckpoint)'
  BY DEF Inv, ParkedIsApprovable
<1>5. QED
  BY <1>2, <1>3, <1>4 DEF Inv

\* The graph begins at the checkpoint, or at the beginning, with nothing else in memory.
LEMMA StartInv == ASSUME Inv, Start PROVE Inv'
<1> USE DEF Start, tables
<1> TypeOK /\ ProcessInv /\ StateInv(ckpt.s, artifacts) /\ At(ckpt.next, ckpt.s)
  BY DEF Inv
<1>1. sandbox = NoSandbox /\ budget = NoBudget /\ row = "RUNNING"
  BY DEF ProcessInv, Claimed
<1>2. ckpt.next \in Node \cup {"none"} /\ ckpt.s \in State
  BY DEF TypeOK
<1>3. /\ s' \in State /\ StateInv(s, artifacts)' /\ At(pc, s)'
      /\ pc' \in Node \cup {"none"}
  BY <1>2, FreshIsGood DEF Node
<1>4. pc' \in Node
  BY <1>2, <1>3 DEF Inv
<1>5. ProcessInv'
  BY <1>1, <1>4 DEF ProcessInv, Node, Claimed
<1>6. QED
  BY <1>3, <1>4, <1>5, NodeKeepsInv DEF TypeOK, Live, Graph

\* The worker dies; what it had committed stays.
LEMMA CrashInv == ASSUME Inv, Crash PROVE Inv'
<1>1. ParkedIsApprovable'
  BY DEF Crash, tables, Inv, ParkedIsApprovable
<1>2. QED
  BY <1>1, GoneKeeps DEF Crash, tables, Inv, TypeOK

\* retry_claim never leaves the run parked.
LEMMA RequeueInv == ASSUME Inv, Requeue PROVE Inv'
<1> TypeOK
  BY DEF Inv
<1>1. Gone /\ UNCHANGED <<result, ckpt, head, nextTest, artifacts, tests, evidence>>
  BY DEF Requeue, tables
<1>2. row' \in {"PENDING", "NEEDS_HUMAN_INTERVENTION"} /\ attempt' \in 0 .. MaxAttempts
  BY LimitsAssumption DEF Requeue, TypeOK
<1>3. ParkedIsApprovable'
  BY <1>2 DEF ParkedIsApprovable
<1>4. QED
  BY <1>1, <1>2, <1>3, GoneKeeps DEF TypeOK, Terminal

\* The run timeout ends the run.
LEMMA TimeOutInv == ASSUME Inv, TimeOut PROVE Inv'
<1> TypeOK
  BY DEF Inv
<1>1. ParkedIsApprovable'
  BY DEF TimeOut, ParkedIsApprovable
<1>2. QED
  BY <1>1, GoneKeeps DEF TimeOut, tables, TypeOK, Terminal

\* Expiry touches the row only.
LEMMA ExpireInv == ASSUME Inv, Expire PROVE Inv'
<1> USE DEF Expire, process, tables
<1>1. TypeOK'
  BY DEF Inv, TypeOK, Terminal
<1>2. ParkedIsApprovable'
  BY DEF ParkedIsApprovable
<1>3. ProcessInv' /\ StateInv(s, artifacts)' /\ At(pc, s)'
  BY DEF Inv, ProcessInv, Claimed
<1>4. StateInv(ckpt.s, artifacts)' /\ At(ckpt.next, ckpt.s)' /\ (ckpt.next = "none" => ckpt = NoCheckpoint)'
  BY DEF Inv
<1>5. QED
  BY <1>1, <1>2, <1>3, <1>4 DEF Inv

\* The checkpoint is the graph state the process has.
LEMMA SaveInv == ASSUME Inv, Save PROVE Inv'
<1> USE DEF Save, process, tables
<1>1. ckpt' = [next |-> pc, s |-> s] /\ pc \in Node /\ pc # "none"
  BY DEF Node
<1>2. TypeOK'
  BY <1>1 DEF Inv, TypeOK
<1>3. ParkedIsApprovable' /\ ProcessInv' /\ StateInv(s, artifacts)' /\ At(pc, s)'
  BY DEF Inv, ParkedIsApprovable, ProcessInv, Claimed
<1>4. StateInv(ckpt.s, artifacts)' /\ At(ckpt.next, ckpt.s)' /\ (ckpt.next = "none" => ckpt = NoCheckpoint)'
  BY <1>1 DEF Inv
<1>5. QED
  BY <1>2, <1>3, <1>4 DEF Inv

\* The repository moves on; nobody has promised anything about it.
LEMMA MoveHeadInv == ASSUME Inv, MoveHead PROVE Inv'
<1> USE DEF MoveHead, process, tables
<1>1. head' \in 1 .. MaxHead
  BY LimitsAssumption DEF Inv, TypeOK
<1>2. TypeOK'
  BY <1>1 DEF Inv, TypeOK
<1>3. ProcessInv' /\ StateInv(s, artifacts)' /\ At(pc, s)'
  BY DEF Inv, ProcessInv, Claimed
<1>4. QED
  BY <1>2, <1>3, RestKept DEF Inv

\* What the graph returns is the last checkpoint.
LEMMA GraphReturnsInv == ASSUME Inv, GraphReturns PROVE Inv'
<1> USE DEF GraphReturns, tables
<1>1. ckpt' = [next |-> pc, s |-> s] /\ pc \in Node /\ pc # "none"
  BY DEF Node
<1>2. TypeOK'
  BY <1>1 DEF Inv, TypeOK, Live, Graph, Claimed
<1>3. ParkedIsApprovable' /\ ProcessInv' /\ StateInv(s, artifacts)' /\ At(pc, s)'
  BY DEF Inv, ParkedIsApprovable, ProcessInv, At, Unpatched, Patching, Claimed
<1>4. StateInv(ckpt.s, artifacts)' /\ At(ckpt.next, ckpt.s)' /\ (ckpt.next = "none" => ckpt = NoCheckpoint)'
  BY <1>1 DEF Inv
<1>5. QED
  BY <1>2, <1>3, <1>4 DEF Inv

\* The test that passed last is among the rows from here on.
LEMMA PersistInv == ASSUME Inv, Persist PROVE Inv'
<1> USE DEF Persist
<1> TypeOK /\ ProcessInv /\ StateInv(s, artifacts) /\ At(pc, s)
  BY DEF Inv
<1> DEFINE run == {s.patches[i] : i \in {j \in DOMAIN s.patches : s.patches[j].test # 0}}
<1>1. s \in State /\ s.patches \in Seq(Patch) /\ s.evidence \subseteq Observation
  BY DEF TypeOK, State
<1>2. run \subseteq Patch
  BY <1>1
<1>3. s.status = "WAITING_APPROVAL" => Last(s.patches) \in tests'
  <2>1. SUFFICES ASSUME s.status = "WAITING_APPROVAL" PROVE Last(s.patches) \in run
    OBVIOUS
  <2>2. s.patches # <<>> /\ Last(s.patches).test # 0
    BY <2>1 DEF StateInv, Parked
  <2>3. Len(s.patches) \in DOMAIN s.patches
    BY <1>1, <2>2
  <2>4. QED
    BY <2>2, <2>3 DEF Last
<1> HIDE DEF run
<1>4. TypeOK'
  BY <1>1, <1>2 DEF TypeOK, Live, Graph, Claimed
<1>5. ProcessInv' /\ StateInv(s, artifacts)' /\ At(pc, s)'
  BY <1>3 DEF ProcessInv, At, Unpatched, Patching, Claimed
<1>6. QED
  BY <1>4, <1>5, RestKept DEF Inv

\* The run is parked with rows that an approval will find.
LEMMA MarkStatusInv == ASSUME Inv, MarkStatus PROVE Inv'
<1> USE DEF MarkStatus, tables
<1> TypeOK /\ ProcessInv /\ StateInv(s, artifacts)
  BY DEF Inv
<1>1. s.status \in {"RUNNING", "WAITING_APPROVAL"} \cup Terminal /\ s.artifact \in Nat
  BY DEF TypeOK, State
<1>2. ParkedIsApprovable'
  <2>1. SUFFICES ASSUME s.status = "WAITING_APPROVAL"
                 PROVE  \E a \in artifacts, t \in tests :
                            /\ a.test = s.artifact /\ t.test = s.artifact
                            /\ t.ok /\ t.diff = a.diff /\ t.base = a.base
    BY DEF ParkedIsApprovable
  <2>2. Last(s.patches) \in tests /\ Parked(s, artifacts)
    BY <2>1 DEF ProcessInv, StateInv, Claimed
  <2>3. QED
    BY <2>2 DEF Parked
<1>3. QED
  BY <1>1, <1>2, GoneKeeps DEF TypeOK

\* Before the first attempt nothing has been investigated.
LEMMA InitInv == Init => Inv
<1> SUFFICES ASSUME Init PROVE Inv
  OBVIOUS
<1> USE DEF Init
<1>1. s \in State /\ StateInv(s, artifacts) /\ ckpt.s = Fresh /\ ckpt.next = "none"
  BY FreshIsGood DEF NoCheckpoint
<1>2. ckpt \in [next : Node \cup {"none"}, s : State] /\ StateInv(ckpt.s, artifacts)
  BY FreshIsGood DEF NoCheckpoint
<1>3. NoBudget \in Budget /\ NoSandbox \in 0 .. MaxHead /\ 0 \in 0 .. MaxAttempts /\ 1 \in 1 .. MaxHead
  BY LimitsAssumption DEF NoBudget, NoSandbox, Budget
<1>4. TypeOK
  BY <1>1, <1>2, <1>3 DEF TypeOK
<1>5. At(pc, s) /\ At(ckpt.next, ckpt.s) /\ ProcessInv /\ ParkedIsApprovable
  BY <1>1 DEF At, Unpatched, Patching, ProcessInv, ParkedIsApprovable, Claimed
<1>6. QED
  BY <1>1, <1>2, <1>4, <1>5 DEF Inv

\* Every step of the attempts keeps the invariant.
LEMMA NextInv == Inv /\ [Next]_vars => Inv'
<1> SUFFICES ASSUME Inv, [Next]_vars PROVE Inv'
  OBVIOUS
<1>1. CASE Progress
  BY <1>1, ClaimInv, StartInv, ExpireInv, PlanInv, CollectBeginsInv, CollectStepInv, CollectExhaustedInv,
     FormHypothesisInv, VerifyHypothesisInv, CreateSandboxInv, GeneratePatchInv, RunTestsInv,
     ReflectInv, ExportInv, ExportReturnsInv, NeedsHumanInv, GraphReturnsInv, PersistInv,
     MarkStatusInv DEF Progress
<1>2. CASE Crash \/ Requeue \/ Save \/ MoveHead \/ GraphFails \/ TimeOut
  BY <1>2, CrashInv, RequeueInv, SaveInv, MoveHeadInv, GraphFailsInv, TimeOutInv
<1>3. CASE UNCHANGED vars
  <2> USE <1>3 DEF vars
  <2>1. TypeOK' /\ ProcessInv' /\ StateInv(s, artifacts)' /\ At(pc, s)'
    BY DEF Inv, TypeOK, ProcessInv, Claimed
  <2>2. QED
    BY <2>1, RestKept DEF Inv
<1>4. QED
  BY <1>1, <1>2, <1>3 DEF Next

\* The inductive invariant holds in every reachable state, for any limits.
THEOREM InvHolds == Spec => []Inv
<1>1. QED
  BY InitInv, NextInv, PTL DEF Spec

\* The graph state, the checkpoint and the rows keep their types; the budget stays within
\* its limits, also when it is rebuilt.
THEOREM TypesHold == Spec => []TypeOK
<1>1. Inv => TypeOK
  BY DEF Inv
<1>2. QED
  BY <1>1, InvHolds, PTL

\* Over all recoveries the tools are called max_tool_calls times at most on the way to any
\* graph state.
THEOREM ToolBudgetIsKept == Spec => []ToolBudgetHolds
<1>1. Inv => ToolBudgetHolds
  BY DEF Inv, StateInv, ToolBudgetHolds
<1>2. QED
  BY <1>1, InvHolds, PTL

\* A parked run names an artifact that an approval can validate, whatever was replayed.
THEOREM ParkedRunsAreApprovable == Spec => []ParkedIsApprovable
<1>1. Inv => ParkedIsApprovable
  BY DEF Inv
<1>2. QED
  BY <1>1, InvHolds, PTL

\* Patches are made for verified root causes only.
THEOREM PatchesNeedEvidence == Spec => []PatchNeedsEvidence
<1>1. Inv => PatchNeedsEvidence
  BY DEF Inv, StateInv, Founded, PatchNeedsEvidence
<1>2. QED
  BY <1>1, InvHolds, PTL

\* The patches of a run have one base, and there are not more of them than allowed.
THEOREM PatchesAreBounded == Spec => []PatchesBounded
<1>1. Inv => PatchesBounded
  BY DEF Inv, StateInv, PatchesBounded
<1>2. QED
  BY <1>1, InvHolds, PTL

\* The row of the run moves along the life cycle of an undecided run, whatever happens to
\* its attempts: no status of the graph, crash or timeout takes it elsewhere.
THEOREM RowsFollowLifecycle == Spec => RowFollowsLifecycle
<1>1. ASSUME Inv, [Next]_vars PROVE [Lifecycle!Next]_(Lifecycle!vars)
  <2> USE DEF Lifecycle!Next, Lifecycle!Step, Lifecycle!vars
  <2>1. TypeOK /\ (pc # "idle" => row = "RUNNING") /\ At(pc, s)
    BY <1>1 DEF Inv, ProcessInv
  <2>2. CASE row' = row
    BY <2>2
  <2>3. CASE row = "PENDING" /\ row' = "RUNNING"
    BY <2>3 DEF Lifecycle!Start, Lifecycle!Become
  <2>4. CASE row = "RUNNING" /\ row' = "PENDING"
    BY <2>4 DEF Lifecycle!Requeue, Lifecycle!Become
  <2>5. CASE row = "RUNNING" /\ row' = "NEEDS_HUMAN_INTERVENTION"
    BY <2>5 DEF Lifecycle!Escalate, Lifecycle!Become
  <2>6. CASE MarkStatus
    <3>1. row = "RUNNING" /\ row' \in Lifecycle!WorkflowOutcome
      BY <2>1, <2>6
         DEF MarkStatus, TypeOK, State, At, Terminal, Live, Lifecycle!WorkflowOutcome
    <3>2. QED
      BY <3>1 DEF Lifecycle!Investigated, Lifecycle!Become
  <2>7. CASE Claim \/ Requeue \/ Expire \/ TimeOut
    <3>1. pc \in Live => pc # "idle"
      BY DEF Live, Claimed, Graph, Node, InNode
    <3>2. pc \in Claimed \cup {"persist", "mark"} => pc # "idle"
      BY DEF Claimed
    <3>3. QED
      BY <2>1, <2>2, <2>3, <2>4, <2>5, <2>7, <3>1, <3>2 DEF Claim, Requeue, Expire, TimeOut
  <2>8. CASE \/ Start \/ Plan \/ CollectBegins \/ CollectStep \/ CollectExhausted
             \/ FormHypothesis \/ VerifyHypothesis \/ CreateSandbox \/ GeneratePatch
             \/ RunTests \/ Reflect \/ Export \/ ExportReturns \/ NeedsHuman
             \/ GraphReturns \/ Persist \/ Crash \/ Save \/ MoveHead \/ GraphFails
             \/ UNCHANGED vars
    <3>1. row' = row
      BY <2>8
         DEF Start, Plan, CollectBegins, CollectStep, CollectExhausted, FormHypothesis,
         VerifyHypothesis, CreateSandbox, GeneratePatch, RunTests, Reflect, Export,
         ExportReturns, NeedsHuman, GraphReturns, Persist, Crash, Save, MoveHead,
         GraphFails, vars
    <3>2. QED
      BY <2>2, <3>1
  <2>9. QED
    BY <1>1, <2>6, <2>7, <2>8 DEF Next, Progress
<1>2. QED
  BY <1>1, InvHolds, PTL DEF Spec, RowFollowsLifecycle

\* ------------------------------------------------------------------------
\* The end of the graph.

\* t has h rejected hypotheses and n patches, of G at most.
Counts(t, h, n, G) == t.rejected = h /\ Len(t.patches) = n /\ Greater(MaxPatches, 1) = G

\* The nodes that are left, without the case distinction.
LEMMA NodesLeft ==
    ASSUME NEW t, NEW h \in Int, NEW n \in Int, NEW G \in Int, Counts(t, h, n, G)
    PROVE  /\ NodesAt("plan", t) = 3 * G - 3 * h + 12
           /\ NodesAt("collect", t) = 3 * G - 3 * h + 11
           /\ NodesAt("collecting", t) = 3 * G - 3 * h + 11
           /\ NodesAt("form", t) = 3 * G - 3 * h + 10
           /\ NodesAt("verify", t) = 3 * G - 3 * h + 9
           /\ NodesAt("create", t) = 3 * G - 3 * n + 2
           /\ NodesAt("generate", t) = 3 * G - 3 * n + 1
           /\ NodesAt("tests", t) = 3 * G - 3 * n + 3
           /\ NodesAt("reflect", t) = 3 * G - 3 * n + 2
           /\ NodesAt("export", t) = 2 /\ NodesAt("exported", t) = 2
           /\ NodesAt("wait", t) = 1 /\ NodesAt("human", t) = 1
           /\ NodesAt("end", t) = 0
<1>1. /\ NodesAt("plan", t) = 3 * G - 3 * h + 12
      /\ NodesAt("collect", t) = 3 * G - 3 * h + 11
      /\ NodesAt("collecting", t) = 3 * G - 3 * h + 11
      /\ NodesAt("form", t) = 3 * G - 3 * h + 10
      /\ NodesAt("verify", t) = 3 * G - 3 * h + 9
  BY DEF NodesAt, Counts
<1>2. /\ NodesAt("create", t) = 3 * G - 3 * n + 2
      /\ NodesAt("generate", t) = 3 * G - 3 * n + 1
      /\ NodesAt("tests", t) = 3 * G - 3 * n + 3
      /\ NodesAt("reflect", t) = 3 * G - 3 * n + 2
  BY DEF NodesAt, Counts
<1>3. /\ NodesAt("export", t) = 2 /\ NodesAt("exported", t) = 2
      /\ NodesAt("wait", t) = 1 /\ NodesAt("human", t) = 1
      /\ NodesAt("end", t) = 0
  BY DEF NodesAt
<1>4. QED
  BY <1>1, <1>2, <1>3

\* What the graph state counts, at each node.
LEMMA CountsAreBounded ==
    ASSUME Inv
    PROVE  \E h \in 0 .. 3, n \in Nat, G \in Nat \ {0} :
              /\ Counts(s, h, n, G) /\ n <= G
              /\ pc \in Unpatched => h <= 2 /\ n = 0
              /\ pc \in {"generate", "reflect"} => n < G
              /\ pc \in Patching \ {"generate"} => n >= 1
<1>1. s.rejected \in 0 .. 3 /\ s.patches \in Seq(Patch)
  BY DEF Inv, TypeOK, State
<1>2. Greater(MaxPatches, 1) \in Nat \ {0}
  BY LimitsAssumption DEF Greater
<1>3. /\ pc \in Unpatched => s.patches = <<>> /\ s.rejected <= 2
      /\ pc \in {"generate", "reflect"} => Len(s.patches) < Greater(MaxPatches, 1)
      /\ pc \in Patching \ {"generate"} => s.patches # <<>>
      /\ Len(s.patches) <= Greater(MaxPatches, 1)
  BY DEF Inv, At, StateInv
<1>4. QED
  BY <1>1, <1>2, <1>3 DEF Counts

\* An invocation runs 3 * max(max_patch_attempts, 1) + 12 nodes at most, wherever it begins.
THEOREM NodesAreBounded == Spec => []NodesBounded
<1>1. Inv => NodesBounded
  <2>1. SUFFICES ASSUME Inv, pc \in Graph PROVE NodesAt(pc, s) \in 0 .. NodeLimit
    BY DEF NodesBounded
  <2>2. PICK h \in 0 .. 3, n \in Nat, G \in Nat \ {0} :
           /\ Counts(s, h, n, G) /\ n <= G
           /\ pc \in Unpatched => h <= 2 /\ n = 0
           /\ pc = "tests" => n >= 1
    BY <2>1, CountsAreBounded DEF Patching
  <2>3. NodeLimit = 3 * G + 12
    BY <2>2 DEF Counts, NodeLimit
  <2>4. CASE pc \in Unpatched
    BY <2>2, <2>3, <2>4, NodesLeft DEF Unpatched
  <2>5. CASE pc = "tests"
    BY <2>2, <2>3, <2>5, NodesLeft
  <2>6. CASE pc \in {"generate", "reflect", "export", "exported", "wait", "human", "end"}
    BY <2>2, <2>3, <2>6, NodesLeft
  <2>7. QED
    BY <2>1, <2>4, <2>5, <2>6 DEF Graph, Node, InNode, Unpatched
<1>2. QED
  BY <1>1, InvHolds, PTL

\* The end of collect_evidence leaves the rejected hypotheses alone.
LEMMA CollectedAdvances ==
    ASSUME Inv, pc = "collecting", NEW t \in State, NEW b, t.rejected = s.rejected, Collected(t, b)
    PROVE  Advance
<1>1. s'.rejected = s.rejected /\ s'.patches = t.patches /\ pc' \in {"form", "end"}
  BY DEF Collected, Return, StopOr, State
<1>2. PICK h \in 0 .. 3, n \in Nat, G \in Nat \ {0} : Counts(s, h, n, G) /\ h <= 2
  BY CountsAreBounded DEF Unpatched
<1>3. Len(s'.patches) \in Nat /\ Counts(s', h, Len(s'.patches), G)
  BY <1>1, <1>2 DEF State, Counts
<1>4. QED
  BY <1>1, <1>2, <1>3, NodesLeft DEF Advance

\* The loop of collect_evidence counts its steps.
LEMMA CollectAdvances ==
    ASSUME Inv, CollectBegins \/ CollectStep \/ CollectExhausted
    PROVE  Advance
<1>1. s \in State /\ budget \in Budget
  BY DEF Inv, TypeOK
<1>2. ASSUME NEW t \in State, t.rejected = s.rejected
      PROVE  /\ NodesAt("collecting", t) = NodesAt("collecting", s)
             /\ NodesAt("collecting", t) = NodesAt("collect", s)
  <2>1. PICK h \in 0 .. 3, n \in Nat, G \in Nat \ {0} : Counts(s, h, n, G)
    BY CountsAreBounded
  <2>2. Len(t.patches) \in Nat /\ Counts(t, h, Len(t.patches), G)
    BY <1>2, <2>1 DEF State, Counts
  <2>3. QED
    BY <2>1, <2>2, NodesLeft
<1>3. CASE CollectBegins
  BY <1>1, <1>2, <1>3 DEF CollectBegins, Advance
<1>4. CASE CollectExhausted
  BY <1>1, <1>4, CollectedAdvances DEF CollectExhausted
<1>5. CASE CollectStep
  <2> DEFINE t == [s EXCEPT !.taken = @ + 1]
             b == [budget EXCEPT !.steps = @ + 1]
             called == [t EXCEPT !.calls = @ + 1]
  <2>1. pc = "collecting"
    BY <1>5, Zenon DEF CollectStep
  <2>2. t \in State /\ t.rejected = s.rejected /\ t.calls + 1 \in Nat
    BY <1>1 DEF State
  <2>3. b.steps = budget.steps + 1 /\ DOMAIN b = {"calls", "steps"}
    BY <1>1 DEF Budget
  <2>4. called \in State /\ called.rejected = s.rejected
    <3> HIDE DEF t
    <3>1. QED
      BY <2>2 DEF State
  <2>5. ASSUME NEW u \in State, u.rejected = s.rejected,
               NEW stop \in {"INSUFFICIENT_EVIDENCE", "NEEDS_HUMAN_INTERVENTION"}
        PROVE  Halt(u, stop) \in State /\ Halt(u, stop).rejected = s.rejected
    BY <2>5 DEF Halt, State, Terminal
  <2> HIDE DEF t, b, called
  <2>6. CASE \/ Collected(t, b)
             \/ \E stop \in {"INSUFFICIENT_EVIDENCE", "NEEDS_HUMAN_INTERVENTION"} :
                    Collected(Halt(t, stop), b)
             \/ Collected(Halt(called, "NEEDS_HUMAN_INTERVENTION"), b)
    BY <2>1, <2>2, <2>4, <2>5, <2>6, CollectedAdvances
  <2>7. ASSUME NEW r \in Results(MaxToolCalls - budget.calls), NEW o \in Observation,
               LET c == [b EXCEPT !.calls = @ + r.tries]
                   u == [t EXCEPT !.calls = @ + 1, !.spent = @ + r.tries,
                                  !.evidence = IF r.ok THEN @ \cup {o} ELSE @]
               IN /\ budget' = c
                  /\ IF u.calls >= MaxToolCalls
                     THEN Collected(Halt(u, "NEEDS_HUMAN_INTERVENTION"), c)
                     ELSE s' = u /\ pc' = "collecting"
        PROVE  Advance
    <3> DEFINE c == [b EXCEPT !.calls = @ + r.tries]
               ev == IF r.ok THEN t.evidence \cup {o} ELSE t.evidence
               u == [t EXCEPT !.calls = @ + 1, !.spent = @ + r.tries,
                              !.evidence = IF r.ok THEN @ \cup {o} ELSE @]
    <3>1. r.tries \in Nat
      <4>1. r.tries \in {0} \cup (1 .. MaxTries)
        BY DEF Results
      <4>2. QED
        BY <4>1, TriesAssumption
    <3>2. ev \in SUBSET Observation /\ t.spent + r.tries \in Nat
      BY <2>2, <3>1 DEF State
    <3>3. u = [t EXCEPT !.calls = t.calls + 1, !.spent = t.spent + r.tries, !.evidence = ev]
      OBVIOUS
    <3>4. c.steps = budget.steps + 1
      BY <2>3
    <3> HIDE DEF c, ev, u
    <3>5. u \in State /\ u.rejected = s.rejected
      BY <2>2, <3>2, <3>3 DEF State
    <3>6. CASE Collected(Halt(u, "NEEDS_HUMAN_INTERVENTION"), c)
      BY <2>1, <2>5, <3>5, <3>6, CollectedAdvances
    <3>7. CASE s' = u /\ pc' = "collecting" /\ budget' = c
      BY <1>2, <2>1, <3>4, <3>5, <3>7 DEF Advance
    <3>8. QED
      BY <2>7, <3>6, <3>7 DEF c, u
  <2>8. QED
    BY <1>5, <2>6, <2>7 DEF CollectStep, t, b, called
<1>6. QED
  BY <1>3, <1>4, <1>5

\* A hypothesis is formed, and rejected or confirmed.
LEMMA HypothesisAdvances ==
    ASSUME Inv, Plan \/ FormHypothesis \/ VerifyHypothesis
    PROVE  Advance
<1>1. s \in State /\ s.patches \in Seq(Patch)
  BY DEF Inv, TypeOK, State
<1>2. PICK h \in 0 .. 3, n \in Nat, G \in Nat \ {0} : Counts(s, h, n, G) /\ h <= 2 /\ n = 0
  BY CountsAreBounded DEF Plan, FormHypothesis, VerifyHypothesis, Unpatched
<1>3. CASE Plan
  BY <1>2, <1>3, NodesLeft DEF Plan, Return, Advance
<1>4. CASE FormHypothesis
  <2>1. pc = "form" /\ pc' \in {"end", "verify"} /\ s'.rejected = s.rejected /\ s'.patches = s.patches
    BY <1>1, <1>4 DEF FormHypothesis, Return, Halt, State
  <2>2. Counts(s', h, n, G)
    BY <1>2, <2>1 DEF Counts
  <2>3. QED
    BY <1>2, <2>1, <2>2, NodesLeft DEF Advance
<1>5. CASE VerifyHypothesis
  <2> DEFINE t(r) == [s EXCEPT !.calls = @ + 1, !.spent = @ + r.tries]
             u(r, o) == [t(r) EXCEPT !.evidence = @ \cup {o}]
             rejected(r, o) == [u(r, o) EXCEPT !.rejected = @ + 1, !.steps = 0]
  <2>1. PICK r \in Results(MaxToolCalls - Rebuilt.calls), o \in Observation :
          \/ /\ pc' = "end"
             /\ \E x \in {t(r), u(r, o), rejected(r, o)} : s' = Halt(x, "INSUFFICIENT_EVIDENCE")
          \/ s' = rejected(r, o) /\ pc' = "collect"
          \/ s' = [u(r, o) EXCEPT !.cause = TRUE] /\ pc' = "create"
    BY <1>5, ZenonT(60) DEF VerifyHypothesis, Return
  <2> DEFINE Kept(x) == x.patches = s.patches /\ x.rejected = s.rejected
             Rejects(x) == x.patches = s.patches /\ x.rejected = s.rejected + 1
  <2>2. /\ Kept(t(r)) /\ Kept(u(r, o)) /\ Kept([u(r, o) EXCEPT !.cause = TRUE])
        /\ Rejects(rejected(r, o))
        /\ Kept(Halt(t(r), "INSUFFICIENT_EVIDENCE")) /\ Kept(Halt(u(r, o), "INSUFFICIENT_EVIDENCE"))
        /\ Rejects(Halt(rejected(r, o), "INSUFFICIENT_EVIDENCE"))
    BY <1>1 DEF State, Halt
  <2> HIDE DEF t, u, rejected
  <2>3. /\ s'.patches = s.patches
        /\ \/ pc' = "end" /\ s'.rejected \in {s.rejected, s.rejected + 1}
           \/ pc' = "collect" /\ s'.rejected = s.rejected + 1
           \/ pc' = "create" /\ s'.rejected = s.rejected
    BY <2>1, <2>2
  <2>4. PICK i \in {h, h + 1} : /\ Counts(s', i, n, G)
                                /\ pc' \in {"end", "collect", "create"}
                                /\ pc' = "collect" => i = h + 1
    BY <1>2, <2>3 DEF Counts
  <2>5. pc = "verify"
    BY <1>5, Zenon DEF VerifyHypothesis
  <2>6. QED
    BY <1>2, <2>4, <2>5, NodesLeft DEF Advance
<1>6. QED
  BY <1>3, <1>4, <1>5

\* A patch is generated, tested and exported, or reflected on.
LEMMA RepairAdvances ==
    ASSUME Inv, \/ CreateSandbox \/ GeneratePatch \/ RunTests \/ Reflect
                \/ Export \/ ExportReturns \/ NeedsHuman
    PROVE  Advance
<1>1. s \in State /\ s.patches \in Seq(Patch) /\ s.rejected \in Nat
  BY DEF Inv, TypeOK, State
<1>2. PICK h \in 0 .. 3, n \in Nat, G \in Nat \ {0} :
         /\ Counts(s, h, n, G) /\ n <= G
         /\ pc \in {"generate", "reflect"} => n < G
  BY CountsAreBounded
<1>3. CASE CreateSandbox \/ Reflect
  <2>1. /\ pc \in {"create", "reflect"} /\ pc' \in {"end", "generate"}
        /\ s'.rejected = s.rejected /\ s'.patches = s.patches
    BY <1>1, <1>3 DEF CreateSandbox, Reflect, Return, Halt, State
  <2>2. Counts(s', h, n, G)
    BY <1>2, <2>1 DEF Counts
  <2>3. QED
    BY <1>2, <2>1, <2>2, NodesLeft DEF Advance
<1>4. CASE GeneratePatch
  <2>1. /\ pc = "generate" /\ pc' \in {"human", "tests"}
        /\ s'.rejected = s.rejected
        /\ Len(s'.patches) \in {Len(s.patches), Len(s.patches) + 1}
        /\ pc' = "tests" => Len(s'.patches) = Len(s.patches) + 1
    <3>1. ASSUME NEW w, NEW t,
                 t = [s EXCEPT !.patches = Append(@, [diff |-> Len(@) + 1, base |-> w,
                                                      test |-> 0, ok |-> FALSE])]
          PROVE  /\ t.rejected = s.rejected /\ Len(t.patches) = Len(s.patches) + 1
                 /\ \A st : /\ Halt(t, st).rejected = s.rejected
                            /\ Len(Halt(t, st).patches) = Len(s.patches) + 1
      BY <1>1, <3>1 DEF State, Halt
    <3>2. \A st : Halt(s, st).rejected = s.rejected /\ Halt(s, st).patches = s.patches
      BY <1>1 DEF State, Halt
    <3>3. QED
      BY <1>4, <3>1, <3>2 DEF GeneratePatch, Return
  <2>2. PICK m \in {n, n + 1} : Counts(s', h, m, G) /\ (pc' = "tests" => m = n + 1)
    BY <1>2, <2>1 DEF Counts
  <2>3. QED
    BY <1>2, <2>1, <2>2, NodesLeft DEF Advance
<1>5. CASE RunTests
  <2>1. /\ pc = "tests" /\ pc' \in {"export", "reflect", "human", "end"}
        /\ s'.rejected = s.rejected /\ Len(s'.patches) = Len(s.patches)
    <3>1. ASSUME NEW ok \in BOOLEAN
          PROVE  Tested(ok).rejected = s.rejected /\ Len(Tested(ok).patches) = Len(s.patches)
      BY <1>1 DEF Tested, SetLast, State
    <3>2. \A st : Halt(s, st).rejected = s.rejected /\ Halt(s, st).patches = s.patches
      BY <1>1 DEF State, Halt
    <3>3. QED
      BY <1>5, <3>1, <3>2 DEF RunTests, Return, AfterTests
  <2>2. Counts(s', h, n, G)
    BY <1>2, <2>1 DEF Counts
  <2>3. QED
    BY <1>2, <2>1, <2>2, NodesLeft DEF Advance
<1>6. CASE Export \/ ExportReturns \/ NeedsHuman
  <2>1. \/ pc = "export" /\ pc' \in {"exported", "wait"}
        \/ pc = "exported" /\ pc' = "wait"
        \/ pc = "human" /\ pc' = "end"
    BY <1>6 DEF Export, ExportReturns, NeedsHuman, Return
  <2>2. \A t : /\ NodesAt("export", t) = 2 /\ NodesAt("exported", t) = 2
               /\ NodesAt("wait", t) = 1 /\ NodesAt("human", t) = 1
               /\ NodesAt("end", t) = 0
    BY DEF NodesAt
  <2>3. QED
    BY <2>1, <2>2 DEF Advance
<1>7. QED
  BY <1>3, <1>4, <1>5, <1>6

\* No answer of the model or of a tool makes the graph go back: every node it finishes
\* leaves fewer to run.
THEOREM GraphNeverGoesBack == Spec => GraphAdvances
<1>1. ASSUME Inv, [Next]_vars PROVE [{pc, pc'} \subseteq Graph => Advance]_vars
  <2>1. CASE Save \/ MoveHead \/ UNCHANGED vars
    BY <2>1 DEF Save, MoveHead, process, vars, Advance
  <2>2. CASE \/ Claim \/ Start \/ Expire \/ Crash \/ Requeue \/ TimeOut
             \/ GraphFails \/ GraphReturns \/ Persist \/ MarkStatus
    <3>1. \/ pc \in {"idle", "persist", "mark"} \cup Claimed
          \/ pc' \in {"idle", "persist"}
      BY <2>2
         DEF Claim, Start, Expire, Crash, Requeue, TimeOut, Gone, GraphFails, GraphReturns,
         Persist, MarkStatus
    <3>2. QED
      BY <3>1 DEF Graph, Node, InNode, Claimed
  <2>3. QED
    BY <1>1, <2>1, <2>2, CollectAdvances, HypothesisAdvances, RepairAdvances DEF Next, Progress
<1>2. QED
  BY <1>1, InvHolds, PTL DEF Spec, GraphAdvances
=============================================================================
