---------------------------- MODULE CallProofs ----------------------------
(***************************************************************************)
(* The contracts of the two kinds of calls an investigation makes: what a  *)
(* tool call takes from the budget, and what a structured call of the      *)
(* model costs, for any budget, any number of tries, rounds and requests.  *)
(***************************************************************************)
EXTENDS ToolGateway, ModelProvider, TLAPS

\* ------------------------------------------------------------------------
\* ToolGateway.call.

\* A gateway that was just built satisfies the invariant.
LEMMA InitInv == Init => Inv
  BY BudgetAssumption, TriesAssumption
     DEF Init, Inv, TypeOK, Category, Retryable

\* A call that has begun is either denied without a try or admitted with its first
\* try paid for.
LEMMA BeginKeeps == ASSUME Inv, Deny \/ Admit PROVE Inv'
  BY BudgetAssumption, TriesAssumption
     DEF Inv, TypeOK, Deny, Admit, Begin, CanCall, Category, Retryable

\* The outcome of a try: done, or asleep with a try left.
LEMMA TryKeeps == ASSUME Inv, Succeed \/ FailTry PROVE Inv'
  <1> USE BudgetAssumption, TriesAssumption DEF Inv, TypeOK
  <1>1. CASE Succeed
    BY <1>1 DEF Succeed, Category, Retryable
  <1>2. CASE FailTry
    <2>1. PICK c \in Category : category' = c
      BY <1>2 DEF FailTry
    <2>2. pc' = "sleeping" => tries + 1 < attempts
      BY <1>2, <2>1 DEF FailTry, LastTry
    <2>3. QED
      BY <1>2, <2>1, <2>2 DEF FailTry
  <1>3. QED
    BY <1>1, <1>2

\* A retry takes its call from the budget, or the budget ends the call.
LEMMA RetryKeeps == ASSUME Inv, Retry PROVE Inv'
  BY BudgetAssumption, TriesAssumption DEF Inv, TypeOK, Retry, CanCall

LEMMA NextInv == Inv /\ [Next]_vars => Inv'
  <1> SUFFICES ASSUME Inv, [Next]_vars PROVE Inv'
    OBVIOUS
  <1>1. CASE Deny \/ Admit
    BY <1>1, BeginKeeps
  <1>2. CASE Succeed \/ FailTry
    BY <1>2, TryKeeps
  <1>3. CASE Retry
    BY <1>3, RetryKeeps
  <1>4. CASE UNCHANGED vars
    BY <1>4 DEF Inv, TypeOK, vars
  <1>5. QED
    BY <1>1, <1>2, <1>3, <1>4 DEF Next

\* The tries of the agent's calls, retries included, never exceed max_tool_calls, and
\* no call makes more than max_retries + 1 of them.
THEOREM BudgetIsRespected == Spec => []TypeOK
  <1>1. Inv => TypeOK
    BY DEF Inv
  <1>2. QED
    BY <1>1, InitInv, NextInv, PTL DEF Spec

\* A call that is done took its tries from the budget that was left when it began.
LEMMA ContractFollows == Inv => KeepsContract
  <1> SUFFICES ASSUME Inv, pc = "done" PROVE KeepsContract
    BY DEF KeepsContract
  <1>1. used = before + tries /\ tries \in 0 .. MaxTries /\ before \in Nat /\ used <= MaxToolCalls
    BY BudgetAssumption DEF Inv, TypeOK
  <1>2. tries <= MaxToolCalls - before
    BY <1>1, BudgetAssumption, TriesAssumption
  <1>3. DEFINE ok == category = "none" /\ tries > 0
               left == MaxToolCalls - before
  <1>4. ok \in BOOLEAN
    OBVIOUS
  <1>5. tries = 0 => ok = FALSE
    OBVIOUS
  <1>6. tries # 0 => tries \in {n \in 1 .. MaxTries : n <= left}
    BY <1>1, <1>2, TriesAssumption
  <1>7. HIDE DEF ok, left
  <1>8. [ok |-> ok, tries |-> tries] \in Results(left)
    BY <1>4, <1>5, <1>6 DEF Results
  <1>9. QED
    BY <1>1, <1>8 DEF KeepsContract, Answer, ok, left

\* What a call returns and what it takes from the budget agree with the contract that
\* AgentGraph assumes (the attempt_count that guarded() adds up in a recovery).
THEOREM CallsKeepContract == Spec => []KeepsContract
  <1>1. Inv => KeepsContract
    BY ContractFollows
  <1>2. QED
    BY <1>1, InitInv, NextInv, PTL DEF Spec

\* ------------------------------------------------------------------------
\* The provider.

\* The requests of a answered rounds, each with at most k - 1 lost ones before its answer.
LEMMA RoundsCost ==
    ASSUME NEW a \in Nat, NEW k \in Nat \ {0}, NEW r \in Nat, a <= r
    PROVE  /\ a * (k - 1) \in Nat
           /\ (a + 1) * (k - 1) = a * (k - 1) + (k - 1)
           /\ a + a * (k - 1) = a * k
           /\ a * k <= r * k
           /\ r * k = (r - 1) * k + k
<1>1. k - 1 \in Nat /\ r - a \in Nat
  OBVIOUS
<1>2. a * (k - 1) \in Nat /\ (r - a) * k \in Nat
  BY <1>1
<1>3. r * k = a * k + (r - a) * k
  BY <1>1
<1>4. QED
  BY <1>1, <1>2, <1>3

\* What the counters of a call can be.
LEMMA Counters ==
    ASSUME ModelTypeOK
    PROVE  /\ Rounds \in Nat \ {0} /\ RetryAttempts \in Nat \ {0}
           /\ round \in 1 .. Rounds /\ attempt \in 1 .. RetryAttempts
           /\ answers \in 0 .. Rounds /\ lost \in Nat
  BY ProviderAssumption DEF ModelTypeOK

\* No call was made yet.
LEMMA ModelInitInv == ModelInit => ModelInv
  BY ProviderAssumption, RoundsCost
     DEF ModelInit, ModelInv, ModelTypeOK, ModelCallKeepsContract, Errors

\* A call begins with nothing spent, or is refused before its first request.
LEMMA AskInv == ASSUME ModelInv, Ask PROVE ModelInv'
<1>1. ModelTypeOK'
  BY ProviderAssumption DEF ModelInv, ModelTypeOK, Ask, Compose, Errors
<1>2. /\ round' = 1 /\ attempt' = 1 /\ answers' = 0 /\ lost' = 0
      /\ verdict' \in {"none", "overBudget"} /\ (asking' # "idle" => verdict' = "none")
      /\ asking' # "backoff"
  BY DEF Ask, Compose
<1>3. 0 <= Rounds * RetryAttempts /\ 0 * (RetryAttempts - 1) = 0
  BY ProviderAssumption, RoundsCost
<1>4. ModelCallKeepsContract'
  BY <1>2, <1>3, ProviderAssumption DEF ModelCallKeepsContract
<1>5. QED
  BY <1>1, <1>2, <1>3, <1>4, ProviderAssumption DEF ModelInv

\* An answer ends the call, or a round.
LEMMA ReadAnswerInv == ASSUME ModelInv, ReadAnswer PROVE ModelInv'
<1> USE ProviderAssumption
<1>0. Rounds \in Nat \ {0} /\ RetryAttempts \in Nat \ {0}
  OBVIOUS
<1>1. /\ answers = round - 1 /\ answers \in Nat /\ answers + 1 <= Rounds
      /\ lost \in Nat /\ lost <= answers * (RetryAttempts - 1) + (attempt - 1)
      /\ attempt \in 1 .. RetryAttempts /\ round \in 1 .. Rounds
  BY Counters DEF ModelInv, ReadAnswer
<1>2. answers' = answers + 1 /\ lost' = lost
  BY DEF ReadAnswer
<1>3. /\ answers' * (RetryAttempts - 1) = answers * (RetryAttempts - 1) + (RetryAttempts - 1)
      /\ answers * (RetryAttempts - 1) \in Nat
      /\ answers' + answers' * (RetryAttempts - 1) = answers' * RetryAttempts
      /\ answers' * RetryAttempts <= Rounds * RetryAttempts
      /\ answers' * (RetryAttempts - 1) \in Nat
  BY <1>0, <1>1, <1>2, RoundsCost
<1>4. lost' <= answers' * (RetryAttempts - 1)
  BY <1>1, <1>2, <1>3
<1>5. answers' + lost' <= Rounds * RetryAttempts
  BY <1>1, <1>2, <1>3, <1>4
<1>6. CASE Return("ok")
  <2>1. ModelTypeOK'
    BY <1>1, <1>2, <1>6 DEF ModelInv, ModelTypeOK, Return
  <2>2. QED
    BY <1>1, <1>2, <1>4, <1>5, <1>6, <2>1 DEF ModelInv, ModelCallKeepsContract, Return
<1>7. CASE Repair
  <2>1. CASE round = Rounds
    <3>1. ModelTypeOK'
      BY <1>1, <1>2, <1>7, <2>1 DEF ModelInv, ModelTypeOK, Return, Repair, Errors
    <3>2. QED
      BY <1>1, <1>2, <1>5, <1>7, <2>1, <3>1
         DEF ModelInv, ModelCallKeepsContract, Return, Repair
  <2>2. CASE round # Rounds
    <3>1. ModelTypeOK'
      BY <1>1, <1>2, <1>7, <2>2 DEF ModelInv, ModelTypeOK, Compose, Repair, Errors
    <3>2. /\ round' = round + 1 /\ attempt' = 1 /\ verdict' \in {"none", "overBudget"}
          /\ asking' # "backoff" /\ (asking' # "idle" => verdict' = "none")
      BY <1>7, <2>2 DEF Repair, Compose
    <3>3. ModelCallKeepsContract'
      BY <1>5, <3>2 DEF ModelCallKeepsContract
    <3>4. QED
      BY <1>1, <1>2, <1>4, <3>1, <3>2, <3>3 DEF ModelInv
  <2>3. QED
    BY <2>1, <2>2
<1>8. QED
  BY <1>6, <1>7 DEF ReadAnswer

\* A request without an answer is one more loss, and the last of its round ends the call.
LEMMA FailInv == ASSUME ModelInv, LoseRequest \/ RefuseRequest PROVE ModelInv'
<1> USE ProviderAssumption
<1>0. Rounds \in Nat \ {0} /\ RetryAttempts \in Nat \ {0}
  OBVIOUS
<1>1. /\ answers = round - 1 /\ answers \in Nat /\ answers + 1 <= Rounds
      /\ lost \in Nat /\ lost <= answers * (RetryAttempts - 1) + (attempt - 1)
      /\ lost >= attempt - 1 /\ verdict = "none"
      /\ attempt \in 1 .. RetryAttempts /\ round \in 1 .. Rounds
  BY Counters DEF ModelInv, LoseRequest, RefuseRequest
<1>2. answers' = answers /\ lost' = lost + 1
  BY DEF LoseRequest, RefuseRequest
<1>3. /\ answers + answers * (RetryAttempts - 1) = answers * RetryAttempts
      /\ answers * (RetryAttempts - 1) \in Nat
      /\ (answers + 1) * RetryAttempts <= Rounds * RetryAttempts
      /\ (answers + 1) * RetryAttempts = answers * RetryAttempts + RetryAttempts
  BY <1>0, <1>1, RoundsCost
<1>4. answers' + lost' <= Rounds * RetryAttempts
  BY <1>0, <1>1, <1>2, <1>3
<1>5. CASE LoseRequest /\ attempt # RetryAttempts
  <2>1. /\ asking' = "backoff" /\ attempt' = attempt /\ round' = round /\ verdict' = "none"
        /\ attempt < RetryAttempts
    BY <1>1, <1>5 DEF LoseRequest, GivesUp
  <2>2. ModelTypeOK'
    BY <1>1, <1>2, <2>1 DEF ModelTypeOK
  <2>3. ModelCallKeepsContract'
    BY <1>4, <2>1 DEF ModelCallKeepsContract
  <2>4. QED
    BY <1>1, <1>2, <2>1, <2>2, <2>3 DEF ModelInv
<1>6. CASE LoseRequest /\ attempt = RetryAttempts
  <2>1. asking' = "idle" /\ attempt' = attempt /\ round' = round /\ verdict' = "unreachable"
    BY <1>6 DEF LoseRequest, GivesUp, Return
  <2>2. ModelTypeOK'
    BY <1>1, <1>2, <2>1 DEF ModelTypeOK, Errors
  <2>3. ModelCallKeepsContract'
    BY <1>1, <1>2, <1>4, <1>6, <2>1 DEF ModelCallKeepsContract
  <2>4. QED
    BY <2>1, <2>2, <2>3 DEF ModelInv
<1>7. CASE RefuseRequest
  <2>1. asking' = "idle" /\ attempt' = attempt /\ round' = round /\ verdict' = "refused"
    BY <1>7 DEF RefuseRequest, Return
  <2>2. ModelTypeOK'
    BY <1>1, <1>2, <2>1 DEF ModelTypeOK, Errors
  <2>3. ModelCallKeepsContract'
    BY <1>4, <2>1 DEF ModelCallKeepsContract
  <2>4. QED
    BY <2>1, <2>2, <2>3 DEF ModelInv
<1>8. QED
  BY <1>5, <1>6, <1>7

\* The next request of a round.
LEMMA ResendInv == ASSUME ModelInv, Resend PROVE ModelInv'
<1>1. /\ attempt \in 1 .. RetryAttempts /\ attempt < RetryAttempts
      /\ attempt' = attempt + 1 /\ asking = "backoff" /\ asking' = "request"
      /\ UNCHANGED <<round, answers, lost, verdict>>
  BY Counters DEF ModelInv, Resend
<1>2. ModelTypeOK'
  BY <1>1, ProviderAssumption DEF ModelInv, ModelTypeOK
<1>3. ModelCallKeepsContract'
  BY <1>1 DEF ModelInv, ModelCallKeepsContract
<1>4. attempt' - 1 = attempt
  BY <1>1, ProviderAssumption
<1>5. QED
  BY <1>1, <1>2, <1>3, <1>4 DEF ModelInv

LEMMA ModelNextInv == ModelInv /\ [ModelNext]_modelVars => ModelInv'
<1> SUFFICES ASSUME ModelInv, [ModelNext]_modelVars PROVE ModelInv'
  OBVIOUS
<1>1. CASE ModelNext
  BY <1>1, AskInv, ReadAnswerInv, FailInv, ResendInv DEF ModelNext
<1>2. CASE UNCHANGED modelVars
  BY <1>2 DEF modelVars, ModelInv, ModelTypeOK, ModelCallKeepsContract
<1>3. QED
  BY <1>1, <1>2

\* complete_structured() makes at most Rounds * RETRY_ATTEMPTS requests, and each way it can
\* end says what it says: see ModelCallKeepsContract.
THEOREM ModelCallsKeepContract == ModelSpec => []ModelCallKeepsContract
<1>1. ModelInv => ModelCallKeepsContract
  BY DEF ModelInv
<1>2. QED
  BY <1>1, ModelInitInv, ModelNextInv, PTL DEF ModelSpec
=============================================================================
