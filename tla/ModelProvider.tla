---------------------------- MODULE ModelProvider ----------------------------
(***************************************************************************)
(* OpenAICompatibleProvider.complete_structured (llm/provider.py): one     *)
(* structured answer of the model, asked for in rounds; a round repairs    *)
(* the answer of the one before, and each has its own retries of the HTTP  *)
(* request.  What the model and its gateway answer is a choice.            *)
(***************************************************************************)
EXTENDS Integers

CONSTANTS Rounds,        \* answers asked for before StructuredOutputError
          RetryAttempts  \* RETRY_ATTEMPTS, requests of one round

ASSUME ProviderAssumption == Rounds \in Nat \ {0} /\ RetryAttempts \in Nat \ {0}

VARIABLES asking,   \* where the call is
          round,    \* of the repair loop
          attempt,  \* of the request loop
          answers,  \* answers read in this call (history)
          lost,     \* requests of this call that brought none (history)
          verdict   \* how the last call ended

modelVars == <<asking, round, attempt, answers, lost, verdict>>

\* StructuredOutputError, the HTTP error that was not retried, or a ValueError:
\* each leaves complete_structured() and the graph.
Errors == {"invalid", "unreachable", "refused", "overBudget"}

ModelInit == /\ asking = "idle"
             /\ round = 1
             /\ attempt = 1
             /\ answers = 0
             /\ lost = 0
             /\ verdict = "none"

Return(v) == asking' = "idle" /\ verdict' = v /\ UNCHANGED <<round, attempt>>

\* _complete() begins: the messages fit into the context, or ValueError is raised.
Compose == \/ asking' = "request" /\ verdict' = "none"
           \/ asking' = "idle" /\ verdict' = "overBudget"

\* A node asks for a decision.
Ask == /\ asking = "idle"
       /\ verdict \notin Errors
       /\ round' = 1
       /\ attempt' = 1
       /\ answers' = 0
       /\ lost' = 0
       /\ Compose

\* The content does not match the schema: the next round quotes it and the error.
Repair == IF round = Rounds
          THEN Return("invalid")
          ELSE round' = round + 1 /\ attempt' = 1 /\ Compose

\* 2xx with a JSON body.
ReadAnswer == /\ asking = "request"
              /\ answers' = answers + 1
              /\ Return("ok") \/ Repair
              /\ UNCHANGED lost

\* Variant: the last attempt is not the last.
GivesUpLate == attempt > RetryAttempts

GivesUp == attempt = RetryAttempts

\* No answer, or a 5xx.
LoseRequest == /\ asking = "request"
               /\ lost' = lost + 1
               /\ IF GivesUp
                  THEN Return("unreachable")
                  ELSE asking' = "backoff" /\ UNCHANGED <<round, attempt, verdict>>
               /\ UNCHANGED answers

\* A 4xx, or a body that is not JSON: not retried.
RefuseRequest == /\ asking = "request"
                 /\ lost' = lost + 1
                 /\ Return("refused")
                 /\ UNCHANGED answers

Resend == /\ asking = "backoff"
          /\ asking' = "request"
          /\ attempt' = attempt + 1
          /\ UNCHANGED <<round, answers, lost, verdict>>

ModelNext == Ask \/ ReadAnswer \/ LoseRequest \/ RefuseRequest \/ Resend

ModelSpec == ModelInit /\ [][ModelNext]_modelVars

\* ------------------------------------------------------------------------
\* Properties.

ModelTypeOK == /\ asking \in {"idle", "request", "backoff"}
               /\ round \in 1 .. Rounds
               /\ attempt \in 1 .. RetryAttempts
               /\ answers \in 0 .. Rounds
               /\ lost \in Nat
               /\ verdict \in {"none", "ok"} \cup Errors

\* What a structured call costs and what its end means, over all its rounds and
\* retries: StructuredOutputError only after the model was really heard Rounds times,
\* an unreachable model only after RETRY_ATTEMPTS requests of one round were lost, and
\* a call that succeeds lost fewer than RETRY_ATTEMPTS requests a round.
ModelCallKeepsContract ==
    /\ answers + lost <= Rounds * RetryAttempts
    /\ verdict = "invalid" => answers = Rounds
    /\ verdict = "unreachable" => lost >= RetryAttempts /\ answers < Rounds
    /\ verdict = "ok" => /\ answers \in 1 .. Rounds
                         /\ lost <= answers * (RetryAttempts - 1)

\* The inductive invariant: every round before this one was answered.
ModelInv == /\ ModelTypeOK
            /\ asking = "request" \/ asking = "backoff" =>
                   /\ verdict = "none"
                   /\ answers = round - 1
                   /\ lost <= answers * (RetryAttempts - 1)
                              + (IF asking = "request" THEN attempt - 1 ELSE attempt)
                   /\ lost >= (IF asking = "request" THEN attempt - 1 ELSE attempt)
            /\ asking = "backoff" => attempt < RetryAttempts
            /\ ModelCallKeepsContract
=============================================================================
