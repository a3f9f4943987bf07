------------------------------ MODULE Delivery ------------------------------
(***************************************************************************)
(* What an approved run promises about the remote repository: the approved *)
(* commit goes to a branch of its own, never over somebody else's branch;  *)
(* a pull request is opened for it only by an attempt that looked for one  *)
(* when there was none, and by each such attempt once; the run is RESOLVED *)
(* only when a pull request exists.  ApprovalDelivery implements this      *)
(* module.                                                                 *)
(***************************************************************************)
CONSTANT Attempt

VARIABLES outcome,  \* "open" until the run is terminal
          branch,   \* what the branch of the run points to
          pull,     \* the newest pull request of that branch
          willing   \* attempts that found no pull request and will open one

vars == <<outcome, branch, pull, willing>>

\* The name of the branch may be taken before the run starts.
Init == /\ outcome = "open"
        /\ branch \in {"none", "foreign"}
        /\ pull = "none"
        /\ willing = {}

PushBranch == /\ branch = "none"
              /\ branch' = "approved"
              /\ UNCHANGED <<outcome, pull, willing>>

FindNone(a) == /\ pull = "none"
               /\ willing' = willing \cup {a}
               /\ UNCHANGED <<outcome, branch, pull>>

\* The attempt ends, or it finds its request refused.
Withdraw(a) == /\ willing' = willing \ {a}
               /\ UNCHANGED <<outcome, branch, pull>>

\* People may have dealt with an earlier pull request meanwhile.
OpenPull(a) == /\ a \in willing
               /\ branch = "approved"
               /\ pull # "open"
               /\ pull' = "open"
               /\ willing' = willing \ {a}
               /\ UNCHANGED <<outcome, branch>>

\* People merge the pull request or close it, and may delete its branch then.
SettlePull == /\ pull = "open"
              /\ pull' \in {"merged", "closed"}
              /\ UNCHANGED <<outcome, branch, willing>>

DeleteBranch == /\ pull \in {"merged", "closed"}
                /\ branch' = "none"
                /\ UNCHANGED <<outcome, pull, willing>>

Resolve == /\ outcome = "open"
           /\ pull # "none"
           /\ outcome' = "RESOLVED"
           /\ UNCHANGED <<branch, pull, willing>>

GiveUp == /\ outcome = "open"
          /\ outcome' \in {"FAILED", "NEEDS_HUMAN_INTERVENTION"}
          /\ UNCHANGED <<branch, pull, willing>>

Next == \/ PushBranch \/ SettlePull \/ DeleteBranch \/ Resolve \/ GiveUp
        \/ \E a \in Attempt : FindNone(a) \/ Withdraw(a) \/ OpenPull(a)

Spec == Init /\ [][Next]_vars

\* ------------------------------------------------------------------------
\* What everything that implements the delivery inherits.

\* A branch that was somebody else's has no pull request of this run, and RESOLVED means
\* that there is one.
PullsAgree == /\ branch = "foreign" => pull = "none"
              /\ outcome = "RESOLVED" => pull # "none"

\* Nobody writes to a branch that was somebody else's.
ForeignIsLeftAlone == [][branch = "foreign" => branch' = "foreign"]_vars

\* Once there is a pull request nobody new sets out to open one, whatever people do to it,
\* and each that had set out before opens one at most.
OnlyEarlierOnesOpen ==
    [][/\ pull # "none" => willing' \subseteq willing
       /\ pull # "open" /\ pull' = "open" => \E a \in willing : willing' = willing \ {a}]_vars

\* The outcome is final, also for what reaches the repository late.
OutcomeIsFinal == [][outcome # "open" => outcome' = outcome]_vars
=============================================================================
