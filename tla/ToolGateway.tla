---------------------------- MODULE ToolGateway ----------------------------
(***************************************************************************)
(* ToolGateway.call (tools/gateway.py): one call after the other by one    *)
(* agent, each with its retry loop, and the budget they share.  What a     *)
(* handler does is a choice over the error categories; audit records,      *)
(* latencies and redaction are left out.                                   *)
(***************************************************************************)
EXTENDS ToolCalls

CONSTANT MaxToolCalls   \* BudgetTracker.max_tool_calls

ASSUME BudgetAssumption == MaxToolCalls \in Nat

VARIABLES used,     \* budget.tool_call_count
          pc,       \* where the call is
          attempts, \* max_retries + 1 of the tool
          tries,    \* executed_attempts
          category, \* final_category, "none" for a success
          before    \* used when the call began (history, not in the code)

vars == <<used, pc, attempts, tries, category, before>>

CanCall == used < MaxToolCalls

Retryable == {"timeout", "connection", "rate_limit", "server"}

\* classify_tool_error, and the ValueError raised for an incomplete output.
Category == Retryable \cup {"http_permanent", "permission", "validation", "permanent"}

\* No call was made yet.
Init == /\ used = 0
        /\ pc = "done"
        /\ attempts = 1
        /\ tries = 0
        /\ category = "none"
        /\ before = 0

\* A call begins; what happens to it before its first try.
Begin == /\ pc = "done"
         /\ attempts' \in 1 .. MaxTries
         /\ tries' = 0
         /\ before' = used

\* The tool is not registered; the budget is used up; the input is not valid.
Deny == /\ Begin
        /\ \/ category' = "permission"
           \/ ~CanCall /\ category' = "budget"
           \/ CanCall /\ category' = "validation"
        /\ UNCHANGED <<used, pc>>

Admit == /\ Begin
         /\ CanCall
         /\ used' = used + 1
         /\ pc' = "trying"
         /\ category' = "none"

Succeed == /\ pc = "trying"
           /\ tries' = tries + 1
           /\ category' = "none"
           /\ pc' = "done"
           /\ UNCHANGED <<used, attempts, before>>

\* Variant: one retry too many.
LastTryLate(c) == c \notin Retryable \/ tries + 1 > attempts

LastTry(c) == c \notin Retryable \/ tries + 1 >= attempts

FailTry == /\ pc = "trying"
           /\ tries' = tries + 1
           /\ category' \in Category
           /\ pc' = IF LastTry(category') THEN "done" ELSE "sleeping"
           /\ UNCHANGED <<used, attempts, before>>

\* Variant: only the call itself is recorded, not its retries.
RetryForFree == /\ pc = "sleeping"
                /\ pc' = "trying"
                /\ UNCHANGED <<used, attempts, tries, category, before>>

\* The back-off is over: the retry needs a call of the budget for itself.
Retry == /\ pc = "sleeping"
         /\ IF CanCall
            THEN used' = used + 1 /\ pc' = "trying" /\ UNCHANGED category
            ELSE pc' = "done" /\ category' = "budget" /\ UNCHANGED used
         /\ UNCHANGED <<attempts, tries, before>>

Next == Deny \/ Admit \/ Succeed \/ FailTry \/ Retry

Spec == Init /\ [][Next]_vars

\* ------------------------------------------------------------------------
\* Properties.

TypeOK == /\ used \in 0 .. MaxToolCalls
          /\ pc \in {"trying", "sleeping", "done"}
          /\ attempts \in 1 .. MaxTries
          /\ tries \in 0 .. MaxTries
          /\ category \in Category \cup {"none", "budget"}
          /\ before \in 0 .. MaxToolCalls

\* The ToolResult of the call that has returned; only a success has no category.
Answer == [ok |-> category = "none" /\ tries > 0, tries |-> tries]

\* What AgentGraph relies on: a call returns one of the Results of the budget that was
\* left when it began, and takes exactly its attempt_count from that budget.
KeepsContract == pc = "done" => /\ Answer \in Results(MaxToolCalls - before)
                                /\ used = before + tries

\* The inductive invariant: the budget pays for a try before it is made.
Inv == /\ TypeOK
       /\ before <= used
       /\ pc = "trying" => used = before + tries + 1 /\ tries < attempts
       /\ pc = "sleeping" => used = before + tries /\ tries \in 1 .. (attempts - 1)
       /\ pc = "done" => used = before + tries
=============================================================================
