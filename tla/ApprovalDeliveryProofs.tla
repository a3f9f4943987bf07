----------------------- MODULE ApprovalDeliveryProofs -----------------------
(***************************************************************************)
(* Proofs about ApprovalDelivery, for any number of attempts and whatever   *)
(* people do to the pull request and its branch.  One lemma per action      *)
(* shows that it keeps the types, what is known of the remote repository,   *)
(* and, for every attempt, the five parts of AttemptInv; the refinement of  *)
(* Delivery rests on the last two of them, AsksOnce and ReadIsGood.         *)
(***************************************************************************)
EXTENDS ApprovalDelivery, TLAPS

\* The next attempt starts at the lock; those before it stay superseded.
LEMMA ClaimInv == ASSUME Inv, Claim PROVE Inv'
<1> USE DEF Claim, Goto, control, client, remote
<1> TypeOK /\ RemoteAgrees /\ \A b \in Attempt : AttemptInv(b)
  BY DEF Inv
<1>a. attempt \in Nat /\ MaxAttempts \in Nat /\ attempt < MaxAttempts
  BY AttemptAssumption DEF TypeOK
<1>b. attempt + 1 \in Attempt
  BY <1>a DEF Attempt
<1>0. /\ attempt + 1 \in Attempt /\ attempt \in Nat /\ attempt' = attempt + 1
      /\ pc' = [pc EXCEPT ![attempt + 1] = "locking"] /\ status' = "RUNNING"
  BY <1>a, <1>b
<1>1. TypeOK'
  <2>1. pc' \in [Attempt -> Phase]
    BY <1>0 DEF TypeOK, Phase, Executing
  <2>2. attempt' \in 0 .. MaxAttempts
    BY <1>0 DEF Attempt
  <2>3. QED
    BY <1>0, <2>1, <2>2 DEF TypeOK
<1>2. RemoteAgrees'
  BY <1>0 DEF RemoteAgrees
<1>3. ASSUME NEW b \in Attempt PROVE AttemptInv(b)'
  <2> AttemptInv(b)
    OBVIOUS
  <2> USE AttemptAssumption DEF TypeOK, Attempt, AttemptInv, Superseded
  <2>1. Fresh(b)' /\ LateOnce(b)'
    BY <1>0 DEF Fresh, LateOnce
  <2>2. PastClient(b)'
    BY <1>0 DEF PastClient, Posting, Client
  <2>3. ReadIsGood(b)'
    BY <1>0 DEF ReadIsGood, Verified
  <2>4. AsksOnce(b)'
    BY <1>0 DEF Fresh, AsksOnce, Posting, Client, Executing
  <2>5. QED
    BY <2>1, <2>2, <2>3, <2>4
<1>4. QED
  BY <1>1, <1>2, <1>3 DEF Inv

\* A lease that runs out or comes back hands the run to nobody.
LEMMA LeaseChangesInv == ASSUME Inv, LeaseChanges PROVE Inv'
<1> USE DEF LeaseChanges, control, client, remote
<1> TypeOK /\ RemoteAgrees /\ \A b \in Attempt : AttemptInv(b)
  BY DEF Inv
<1>1. TypeOK'
  BY AttemptAssumption DEF TypeOK
<1>2. RemoteAgrees'
  BY DEF RemoteAgrees
<1>3. ASSUME NEW b \in Attempt PROVE AttemptInv(b)'
  <2> AttemptInv(b)
    OBVIOUS
  <2> USE AttemptAssumption DEF TypeOK, Attempt, AttemptInv, Superseded
  <2>1. Fresh(b)' /\ LateOnce(b)'
    BY DEF Fresh, LateOnce
  <2>2. PastClient(b)'
    BY DEF PastClient
  <2>3. ReadIsGood(b)'
    BY DEF ReadIsGood
  <2>4. AsksOnce(b)'
    BY DEF AsksOnce, Posting, Client, Executing
  <2>5. QED
    BY <2>1, <2>2, <2>3, <2>4
<1>4. QED
  BY <1>1, <1>2, <1>3 DEF Inv

\* A run that leaves RUNNING supersedes its last attempt.
LEMMA ExhaustedInv == ASSUME Inv, Exhausted PROVE Inv'
<1> USE DEF Exhausted, Finish, control, client, remote
<1> TypeOK /\ RemoteAgrees /\ \A b \in Attempt : AttemptInv(b)
  BY DEF Inv
<1>1. TypeOK'
  BY AttemptAssumption DEF TypeOK, Terminal
<1>2. RemoteAgrees'
  BY DEF RemoteAgrees
<1>3. ASSUME NEW b \in Attempt PROVE AttemptInv(b)'
  <2> AttemptInv(b)
    OBVIOUS
  <2> USE AttemptAssumption DEF TypeOK, Attempt, AttemptInv, Superseded
  <2>1. Fresh(b)' /\ LateOnce(b)'
    BY DEF Fresh, LateOnce
  <2>2. PastClient(b)'
    BY DEF PastClient
  <2>3. ReadIsGood(b)'
    BY DEF ReadIsGood
  <2>4. AsksOnce(b)'
    BY DEF AsksOnce, Posting, Client, Executing
  <2>5. QED
    BY <2>1, <2>2, <2>3, <2>4
<1>4. QED
  BY <1>1, <1>2, <1>3 DEF Inv

\* The lock says nothing about what the attempts know.
LEMMA LoseLockInv == ASSUME Inv, LoseLock PROVE Inv'
<1> USE DEF LoseLock, control, client, remote
<1> TypeOK /\ RemoteAgrees /\ \A b \in Attempt : AttemptInv(b)
  BY DEF Inv
<1>1. TypeOK'
  BY AttemptAssumption DEF TypeOK
<1>2. RemoteAgrees'
  BY DEF RemoteAgrees
<1>3. ASSUME NEW b \in Attempt PROVE AttemptInv(b)'
  <2> AttemptInv(b)
    OBVIOUS
  <2> USE AttemptAssumption DEF TypeOK, Attempt, AttemptInv, Superseded
  <2>1. Fresh(b)' /\ LateOnce(b)'
    BY DEF Fresh, LateOnce
  <2>2. PastClient(b)'
    BY DEF PastClient
  <2>3. ReadIsGood(b)'
    BY DEF ReadIsGood
  <2>4. AsksOnce(b)'
    BY DEF AsksOnce, Posting, Client, Executing
  <2>5. QED
    BY <2>1, <2>2, <2>3, <2>4
<1>4. QED
  BY <1>1, <1>2, <1>3 DEF Inv

\* The attempt that gets the lock has not looked at anything yet.
LEMMA LockInv == ASSUME Inv, NEW a \in Attempt, Lock(a) PROVE Inv'
<1> USE DEF Lock, Goto, control, client, remote
<1> TypeOK /\ RemoteAgrees /\ \A b \in Attempt : AttemptInv(b)
  BY DEF Inv
<1>1. TypeOK'
  BY AttemptAssumption DEF TypeOK, Attempt, Executing, Phase
<1>2. RemoteAgrees'
  BY DEF RemoteAgrees
<1>3. ASSUME NEW b \in Attempt PROVE AttemptInv(b)'
  <2> AttemptInv(b)
    OBVIOUS
  <2> USE AttemptAssumption DEF TypeOK, Attempt, AttemptInv, Superseded
  <2>1. Fresh(b)' /\ LateOnce(b)'
    BY DEF Fresh, LateOnce
  <2>2. PastClient(b)'
    BY DEF PastClient, Posting, Client
  <2>3. ReadIsGood(b)'
    BY DEF ReadIsGood, Verified
  <2>4. AsksOnce(b)'
    BY DEF AsksOnce, Posting, Client, Executing
  <2>5. QED
    BY <2>1, <2>2, <2>3, <2>4
<1>4. QED
  BY <1>1, <1>2, <1>3 DEF Inv

\* A completed effect is recognised before the client starts.
LEMMA EnterInv == ASSUME Inv, NEW a \in Attempt, Enter(a) PROVE Inv'
<1> USE DEF Enter, Goto, Owns, control, client, remote
<1> TypeOK /\ RemoteAgrees /\ \A b \in Attempt : AttemptInv(b)
  BY DEF Inv
<1>1. TypeOK'
  BY AttemptAssumption DEF TypeOK, Client, Executing, Phase
<1>2. RemoteAgrees'
  BY DEF RemoteAgrees
<1>3. ASSUME NEW b \in Attempt PROVE AttemptInv(b)'
  <2> AttemptInv(b)
    OBVIOUS
  <2> USE AttemptAssumption DEF TypeOK, Attempt, AttemptInv, Superseded
  <2>1. Fresh(b)' /\ LateOnce(b)'
    BY DEF Fresh, LateOnce
  <2>2. PastClient(b)'
    BY DEF PastClient, Posting, Client
  <2>3. ReadIsGood(b)'
    BY DEF RemoteAgrees, ReadIsGood, Verified
  <2>4. AsksOnce(b)'
    BY DEF AsksOnce, Posting, Client, Executing
  <2>5. QED
    BY <2>1, <2>2, <2>3, <2>4
<1>4. QED
  BY <1>1, <1>2, <1>3 DEF Inv

\* A result is recorded by the attempt that holds the run, after the pull request exists.
LEMMA RecordInv == ASSUME Inv, NEW a \in Attempt, Record(a) PROVE Inv'
<1> USE DEF Record, Goto, Leave, Owns, control, client, remote
<1> TypeOK /\ RemoteAgrees /\ \A b \in Attempt : AttemptInv(b)
  BY DEF Inv
<1>0. /\ pc[a] \in {"delivered", "refused", "transient"}
      /\ \/ pc' = [pc EXCEPT ![a] = "completed"] /\ pc[a] = "delivered" /\ effect' = "COMPLETED"
         \/ pc' = [pc EXCEPT ![a] = "gaveUp"] /\ effect' = "FAILED"
         \/ pc' = [pc EXCEPT ![a] = "failed"] /\ effect' = "FAILED"
  <2>1. CASE pc[a] = "delivered"
    BY <2>1
  <2>2. CASE pc[a] = "refused"
    BY <2>2
  <2>3. CASE pc[a] = "transient"
    BY <2>3
  <2>4. QED
    BY <2>1, <2>2, <2>3
<1>a. holder' \in {holder, 0}
  OBVIOUS
<1>1. TypeOK'
  <2>1. /\ pc' \in [Attempt -> Phase] /\ effect' \in {"COMPLETED", "FAILED"}
        /\ holder' \in 0 .. MaxAttempts
    BY <1>0, <1>a, AttemptAssumption DEF TypeOK, Phase, Executing
  <2>2. QED
    BY <2>1 DEF TypeOK
<1>2. RemoteAgrees'
  BY <1>0 DEF RemoteAgrees, AttemptInv, ReadIsGood
<1>3. ASSUME NEW b \in Attempt PROVE AttemptInv(b)'
  <2> AttemptInv(b)
    OBVIOUS
  <2> USE AttemptAssumption DEF TypeOK, Attempt, AttemptInv, Superseded
  <2>1. Fresh(b)' /\ LateOnce(b)'
    BY <1>0 DEF Fresh, LateOnce
  <2>2. PastClient(b)'
    BY <1>0 DEF PastClient, Posting, Client
  <2>3. ReadIsGood(b)'
    BY <1>0 DEF ReadIsGood, Verified
  <2>4. AsksOnce(b)'
    BY <1>0 DEF AsksOnce, Posting, Client, Executing
  <2>5. QED
    BY <2>1, <2>2, <2>3, <2>4
<1>4. QED
  BY <1>1, <1>2, <1>3 DEF Inv

\* The run ends.
LEMMA MarkInv == ASSUME Inv, NEW a \in Attempt, Mark(a) PROVE Inv'
<1> USE DEF Mark, Goto, Leave, Owns, Finish, control, client, remote
<1> TypeOK /\ RemoteAgrees /\ \A b \in Attempt : AttemptInv(b)
  BY DEF Inv
<1>0. /\ status' \in Terminal /\ leased' = FALSE /\ holder' \in {holder, 0}
      /\ pc' = [pc EXCEPT ![a] = "done"]
  BY DEF Terminal
<1>1. TypeOK'
  <2>1. pc' \in [Attempt -> Phase] /\ holder' \in 0 .. MaxAttempts
    BY <1>0, AttemptAssumption DEF TypeOK, Phase
  <2>2. QED
    BY <1>0, <2>1 DEF TypeOK
<1>2. RemoteAgrees'
  BY <1>0 DEF RemoteAgrees
<1>3. ASSUME NEW b \in Attempt PROVE AttemptInv(b)'
  <2> AttemptInv(b)
    OBVIOUS
  <2> USE AttemptAssumption DEF TypeOK, Attempt, AttemptInv, Superseded
  <2>1. Fresh(b)' /\ LateOnce(b)'
    BY <1>0 DEF Fresh, LateOnce
  <2>2. PastClient(b)'
    BY <1>0 DEF PastClient
  <2>3. ReadIsGood(b)'
    BY <1>0 DEF ReadIsGood, Verified
  <2>4. AsksOnce(b)'
    BY <1>0 DEF AsksOnce, Posting, Client, Executing
  <2>5. QED
    BY <2>1, <2>2, <2>3, <2>4
<1>4. QED
  BY <1>1, <1>2, <1>3 DEF Inv

\* A lost lease ends the execution with all it knows.
LEMMA FenceFailsInv == ASSUME Inv, NEW a \in Attempt, FenceFails(a) PROVE Inv'
<1> USE DEF FenceFails, Goto, Leave, control, client, remote
<1> TypeOK /\ RemoteAgrees /\ \A b \in Attempt : AttemptInv(b)
  BY DEF Inv
<1>1. TypeOK'
  BY AttemptAssumption DEF TypeOK, Phase
<1>2. RemoteAgrees'
  BY DEF RemoteAgrees
<1>3. ASSUME NEW b \in Attempt PROVE AttemptInv(b)'
  <2> AttemptInv(b)
    OBVIOUS
  <2> USE AttemptAssumption DEF TypeOK, Attempt, AttemptInv, Superseded
  <2>1. Fresh(b)' /\ LateOnce(b)'
    BY DEF Fresh, LateOnce, Fenced
  <2>2. PastClient(b)'
    BY DEF PastClient, Posting, Client
  <2>3. ReadIsGood(b)'
    BY DEF ReadIsGood, Verified
  <2>4. AsksOnce(b)'
    BY DEF AsksOnce, Posting, Client, Executing
  <2>5. QED
    BY <2>1, <2>2, <2>3, <2>4
<1>4. QED
  BY <1>1, <1>2, <1>3 DEF Inv

\* The timeout takes the attempt out of the client.
LEMMA TimeOutInv == ASSUME Inv, NEW a \in Attempt, TimeOut(a) PROVE Inv'
<1> USE DEF TimeOut, Goto, Leave, control, client, remote
<1> TypeOK /\ RemoteAgrees /\ \A b \in Attempt : AttemptInv(b)
  BY DEF Inv
<1>1. TypeOK'
  BY AttemptAssumption DEF TypeOK, Phase
<1>2. RemoteAgrees'
  BY DEF RemoteAgrees
<1>3. ASSUME NEW b \in Attempt PROVE AttemptInv(b)'
  <2> AttemptInv(b)
    OBVIOUS
  <2> USE AttemptAssumption DEF TypeOK, Attempt, AttemptInv, Superseded
  <2>1. Fresh(b)' /\ LateOnce(b)'
    BY DEF Fresh, LateOnce, Posting, Client, Executing
  <2>2. PastClient(b)'
    BY DEF PastClient, Posting, Client
  <2>3. ReadIsGood(b)'
    BY DEF ReadIsGood, Verified
  <2>4. AsksOnce(b)'
    BY DEF AsksOnce, Posting, Client, Executing
  <2>5. QED
    BY <2>1, <2>2, <2>3, <2>4
<1>4. QED
  BY <1>1, <1>2, <1>3 DEF Inv

\* So does an error or the heartbeat.
LEMMA FailInv == ASSUME Inv, NEW a \in Attempt, Fail(a) PROVE Inv'
<1> USE DEF Fail, Goto, Leave, control, client, remote
<1> TypeOK /\ RemoteAgrees /\ \A b \in Attempt : AttemptInv(b)
  BY DEF Inv
<1>1. TypeOK'
  BY AttemptAssumption DEF TypeOK, Phase
<1>2. RemoteAgrees'
  BY DEF RemoteAgrees
<1>3. ASSUME NEW b \in Attempt PROVE AttemptInv(b)'
  <2> AttemptInv(b)
    OBVIOUS
  <2> USE AttemptAssumption DEF TypeOK, Attempt, AttemptInv, Superseded
  <2>1. Fresh(b)' /\ LateOnce(b)'
    BY DEF Fresh, LateOnce, Posting, Client, Executing
  <2>2. PastClient(b)'
    BY DEF PastClient, Posting, Client
  <2>3. ReadIsGood(b)'
    BY DEF ReadIsGood, Verified
  <2>4. AsksOnce(b)'
    BY DEF AsksOnce, Posting, Client, Executing
  <2>5. QED
    BY <2>1, <2>2, <2>3, <2>4
<1>4. QED
  BY <1>1, <1>2, <1>3 DEF Inv

\* Only the attempt that holds the run hands it back.
LEMMA RetryInv == ASSUME Inv, NEW a \in Attempt, Retry(a) PROVE Inv'
<1> USE DEF Retry, Goto, Owns, Finish, control, client, remote
<1> TypeOK /\ RemoteAgrees /\ \A b \in Attempt : AttemptInv(b)
  BY DEF Inv
<1>1. TypeOK'
  BY AttemptAssumption DEF TypeOK, Phase, Executing, Terminal
<1>2. RemoteAgrees'
  BY DEF RemoteAgrees
<1>3. ASSUME NEW b \in Attempt PROVE AttemptInv(b)'
  <2> AttemptInv(b)
    OBVIOUS
  <2> USE AttemptAssumption DEF TypeOK, Attempt, AttemptInv, Superseded
  <2>1. Fresh(b)' /\ LateOnce(b)'
    BY DEF Fresh, LateOnce
  <2>2. PastClient(b)'
    BY DEF PastClient, Posting, Client
  <2>3. ReadIsGood(b)'
    BY DEF ReadIsGood, Verified
  <2>4. AsksOnce(b)'
    BY DEF AsksOnce, Posting, Client, Executing
  <2>5. QED
    BY <2>1, <2>2, <2>3, <2>4
<1>4. QED
  BY <1>1, <1>2, <1>3 DEF Inv

\* A worker that dies leaves its requests on the wire.
LEMMA CrashInv == ASSUME Inv, NEW a \in Attempt, Crash(a) PROVE Inv'
<1> USE DEF Crash, Goto, Leave, control, client, remote
<1> TypeOK /\ RemoteAgrees /\ \A b \in Attempt : AttemptInv(b)
  BY DEF Inv
<1>1. TypeOK'
  BY AttemptAssumption DEF TypeOK, Phase
<1>2. RemoteAgrees'
  BY DEF RemoteAgrees
<1>3. ASSUME NEW b \in Attempt PROVE AttemptInv(b)'
  <2> AttemptInv(b)
    OBVIOUS
  <2> USE AttemptAssumption DEF TypeOK, Attempt, AttemptInv, Superseded
  <2>1. Fresh(b)' /\ LateOnce(b)'
    BY DEF Fresh, LateOnce
  <2>2. PastClient(b)'
    BY DEF PastClient, Posting, Client
  <2>3. ReadIsGood(b)'
    BY DEF ReadIsGood, Verified
  <2>4. AsksOnce(b)'
    BY DEF AsksOnce, Posting, Client, Executing
  <2>5. QED
    BY <2>1, <2>2, <2>3, <2>4
<1>4. QED
  BY <1>1, <1>2, <1>3 DEF Inv

\* A pull request once seen exists for good.
LEMMA ListPullsInv == ASSUME Inv, NEW a \in Attempt, ListPulls(a) PROVE Inv'
<1> USE DEF ListPulls, Goto, control, client, remote
<1> TypeOK /\ RemoteAgrees /\ \A b \in Attempt : AttemptInv(b)
  BY DEF Inv
<1>1. TypeOK'
  BY AttemptAssumption DEF TypeOK, Client, Executing, Phase
<1>2. RemoteAgrees'
  BY DEF RemoteAgrees
<1>3. ASSUME NEW b \in Attempt PROVE AttemptInv(b)'
  <2> AttemptInv(b)
    OBVIOUS
  <2> USE AttemptAssumption DEF TypeOK, Attempt, AttemptInv, Superseded
  <2>1. Fresh(b)' /\ LateOnce(b)'
    BY DEF Fresh, LateOnce
  <2>2. PastClient(b)'
    BY DEF PastClient, Executing, Phase
  <2>3. ReadIsGood(b)'
    BY DEF RemoteAgrees, ReadIsGood, Verified
  <2>4. AsksOnce(b)'
    BY DEF AsksOnce, Posting, Client, Executing
  <2>5. QED
    BY <2>1, <2>2, <2>3, <2>4
<1>4. QED
  BY <1>1, <1>2, <1>3 DEF Inv

\* The base is compared before anything is sent.
LEMMA CheckBaseInv == ASSUME Inv, NEW a \in Attempt, CheckBase(a) PROVE Inv'
<1> USE DEF CheckBase, Goto, control, client, remote
<1> TypeOK /\ RemoteAgrees /\ \A b \in Attempt : AttemptInv(b)
  BY DEF Inv
<1>1. TypeOK'
  BY AttemptAssumption DEF TypeOK, Posting, Client, Executing, Phase
<1>2. RemoteAgrees'
  BY DEF RemoteAgrees
<1>3. ASSUME NEW b \in Attempt PROVE AttemptInv(b)'
  <2> AttemptInv(b)
    OBVIOUS
  <2> USE AttemptAssumption DEF TypeOK, Attempt, AttemptInv, Superseded
  <2>1. Fresh(b)' /\ LateOnce(b)'
    BY DEF Fresh, LateOnce
  <2>2. PastClient(b)'
    BY DEF PastClient, Executing, Phase
  <2>3. ReadIsGood(b)'
    BY DEF ReadIsGood, Verified
  <2>4. AsksOnce(b)'
    BY DEF AsksOnce, Posting, Client, Executing
  <2>5. QED
    BY <2>1, <2>2, <2>3, <2>4
<1>4. QED
  BY <1>1, <1>2, <1>3 DEF Inv

\* Only the attempt that holds the run is authorized.
LEMMA AuthorizeInv == ASSUME Inv, NEW a \in Attempt, Authorize(a) PROVE Inv'
<1> USE DEF Authorize, Owns, control, client, remote
<1> TypeOK /\ RemoteAgrees /\ \A b \in Attempt : AttemptInv(b)
  BY DEF Inv
<1>1. TypeOK'
  BY AttemptAssumption DEF TypeOK
<1>2. RemoteAgrees'
  BY DEF RemoteAgrees
<1>3. ASSUME NEW b \in Attempt PROVE AttemptInv(b)'
  <2> AttemptInv(b)
    OBVIOUS
  <2> USE AttemptAssumption DEF TypeOK, Attempt, AttemptInv, Superseded
  <2>1. Fresh(b)' /\ LateOnce(b)'
    BY DEF Fresh, LateOnce
  <2>2. PastClient(b)'
    BY DEF PastClient
  <2>3. ReadIsGood(b)'
    BY DEF ReadIsGood
  <2>4. AsksOnce(b)'
    BY DEF AsksOnce, Posting, Client, Executing
  <2>5. QED
    BY <2>1, <2>2, <2>3, <2>4
<1>4. QED
  BY <1>1, <1>2, <1>3 DEF Inv

\* Whatever was authorized in time is sent once.
LEMMA PostInv == ASSUME Inv, NEW a \in Attempt, Post(a) PROVE Inv'
<1> USE DEF Post, Goto, control, client, remote
<1> TypeOK /\ RemoteAgrees /\ \A b \in Attempt : AttemptInv(b)
  BY DEF Inv
<1>0. \/ /\ pc[a] = "prepare" /\ wire' = wire
         /\ pc' = [pc EXCEPT ![a] = "prepare"] \/ pc' = [pc EXCEPT ![a] = "getRef"]
      \/ /\ pc[a] = "commit" /\ wire' = wire /\ pc' = [pc EXCEPT ![a] = "createRef"]
      \/ /\ pc[a] = "createRef" /\ wire' = wire \cup {<<a, "ref">>}
         /\ pc' = [pc EXCEPT ![a] = "refSent"]
      \/ /\ pc[a] = "openPull" /\ wire' = wire \cup {<<a, "pull">>}
         /\ pc' = [pc EXCEPT ![a] = "pullSent"]
  BY DEF Posting
<1>a. /\ auth[a] /\ auth' = [auth EXCEPT ![a] = FALSE]
      /\ late' = [late EXCEPT ![a] = IF Superseded(a) /\ @ < 2 THEN @ + 1 ELSE @]
      /\ UNCHANGED <<control, holder, seen, ref, branch, pullHead, pullState, moved>>
  OBVIOUS
<1> HIDE DEF Post
<1>b. Fresh(a) /\ LateOnce(a) /\ PastClient(a) /\ ReadIsGood(a)
  BY DEF AttemptInv
<1>c. late[a] = 0 /\ late' = [late EXCEPT ![a] = IF Superseded(a) THEN 1 ELSE 0]
  BY <1>a, <1>b DEF LateOnce, TypeOK
<1>d. a \in Nat /\ attempt \in Nat /\ a <= attempt
  BY <1>a, <1>b, AttemptAssumption DEF Attempt, TypeOK, Fresh
<1>1. TypeOK'
  <2>1. pc' \in [Attempt -> Phase]
    <3>1. {"prepare", "getRef", "createRef", "refSent", "pullSent"} \subseteq Phase
      BY DEF Phase, Executing, Client, Posting
    <3>2. QED
      BY <1>0, <3>1 DEF TypeOK
  <2>2. wire' \subseteq Attempt \X {"ref", "pull"}
    <3>1. wire' \subseteq wire \cup {<<a, "ref">>, <<a, "pull">>}
      BY <1>0
    <3>2. QED
      BY <3>1 DEF TypeOK
  <2>3. late' \in [Attempt -> 0 .. 2] /\ auth' \in [Attempt -> BOOLEAN]
    BY <1>a, <1>c DEF TypeOK
  <2>4. QED
    BY <1>a, <2>1, <2>2, <2>3 DEF TypeOK
<1>2. RemoteAgrees'
  BY <1>0, <1>a, <1>b, <1>c, <1>d DEF RemoteAgrees
<1>3. ASSUME NEW b \in Attempt PROVE AttemptInv(b)'
  <2> AttemptInv(b)
    OBVIOUS
  <2> USE AttemptAssumption DEF TypeOK, Attempt, AttemptInv, Superseded
  <2>1. Fresh(b)' /\ LateOnce(b)'
    BY <1>0, <1>a, <1>b, <1>c, <1>d DEF Fresh, LateOnce
  <2>2. PastClient(b)'
    BY <1>0, <1>a, <1>b, <1>c, <1>d DEF PastClient, Posting, Client
  <2>3. ReadIsGood(b)'
    <3>1. UNCHANGED <<seen, ref, branch, pullState>>
      BY <1>a
    <3>2. CASE b # a
      <4>1. pc'[b] = pc[b] /\ (<<b, "pull">> \in wire' <=> <<b, "pull">> \in wire)
        BY <1>0, <3>2
      <4>2. QED
        BY <3>1, <4>1 DEF ReadIsGood
    <3>3. CASE b = a
      <4>1. pc'[a] \in {"prepare", "getRef", "createRef", "refSent", "pullSent"}
        BY <1>0
      <4>2. <<a, "pull">> \in wire' => <<a, "pull">> \in wire \/ pc[a] = "openPull"
        BY <1>0
      <4>3. pc'[a] = "pullSent" => pc[a] = "openPull"
        BY <1>0
      <4>4. QED
        BY <1>b, <3>1, <3>3, <4>1, <4>2, <4>3 DEF ReadIsGood, Verified
    <3>4. QED
      BY <3>2, <3>3
  <2>4. AsksOnce(b)'
    BY <1>0, <1>a, <1>b, <1>c, <1>d DEF AsksOnce, Posting, Client, Executing
  <2>5. QED
    BY <2>1, <2>2, <2>3, <2>4
<1>4. QED
  BY <1>1, <1>2, <1>3 DEF Inv

\* What is read of the branch is free, somebody else's, or an attempt's.
LEMMA GetRefInv == ASSUME Inv, NEW a \in Attempt, GetRef(a) PROVE Inv'
<1> USE DEF GetRef, Goto, control, client, remote
<1> TypeOK /\ RemoteAgrees /\ \A b \in Attempt : AttemptInv(b)
  BY DEF Inv
<1>1. TypeOK'
  BY AttemptAssumption DEF TypeOK, Posting, Client, Executing, Phase
<1>2. RemoteAgrees'
  BY DEF RemoteAgrees
<1>3. ASSUME NEW b \in Attempt PROVE AttemptInv(b)'
  <2> AttemptInv(b)
    OBVIOUS
  <2> USE AttemptAssumption DEF TypeOK, Attempt, AttemptInv, Superseded
  <2>1. Fresh(b)' /\ LateOnce(b)'
    BY DEF Fresh, LateOnce
  <2>2. PastClient(b)'
    BY DEF PastClient, Executing, Phase
  <2>3. ReadIsGood(b)'
    BY DEF ReadIsGood, Verified
  <2>4. AsksOnce(b)'
    BY DEF AsksOnce, Posting, Client, Executing
  <2>5. QED
    BY <2>1, <2>2, <2>3, <2>4
<1>4. QED
  BY <1>1, <1>2, <1>3 DEF Inv

\* After POST refs the branch is only verified if it is there.
LEMMA ReadRefInv == ASSUME Inv, NEW a \in Attempt, ReadRef(a) PROVE Inv'
<1> USE DEF ReadRef, Goto, control, client, remote
<1> TypeOK /\ RemoteAgrees /\ \A b \in Attempt : AttemptInv(b)
  BY DEF Inv
<1>1. TypeOK'
  BY AttemptAssumption DEF TypeOK, Client, Executing, Phase
<1>2. RemoteAgrees'
  BY DEF RemoteAgrees
<1>3. ASSUME NEW b \in Attempt PROVE AttemptInv(b)'
  <2> AttemptInv(b)
    OBVIOUS
  <2> USE AttemptAssumption DEF TypeOK, Attempt, AttemptInv, Superseded
  <2>1. Fresh(b)' /\ LateOnce(b)'
    BY DEF Fresh, LateOnce
  <2>2. PastClient(b)'
    BY DEF PastClient, Executing, Phase
  <2>3. ReadIsGood(b)'
    BY DEF ReadIsGood, Verified
  <2>4. AsksOnce(b)'
    BY DEF AsksOnce, Posting, Client, Executing
  <2>5. QED
    BY <2>1, <2>2, <2>3, <2>4
<1>4. QED
  BY <1>1, <1>2, <1>3 DEF Inv

\* Past the verification the branch is not somebody else's.
LEMMA VerifyInv == ASSUME Inv, NEW a \in Attempt, Verify(a) PROVE Inv'
<1> USE DEF Verify, Goto, control, client, remote
<1> TypeOK /\ RemoteAgrees /\ \A b \in Attempt : AttemptInv(b)
  BY DEF Inv
<1>1. TypeOK'
  BY AttemptAssumption DEF TypeOK, Client, Executing, Phase
<1>2. RemoteAgrees'
  BY DEF RemoteAgrees
<1>3. ASSUME NEW b \in Attempt PROVE AttemptInv(b)'
  <2> AttemptInv(b)
    OBVIOUS
  <2> USE AttemptAssumption DEF TypeOK, Attempt, AttemptInv, Superseded
  <2>1. Fresh(b)' /\ LateOnce(b)'
    BY DEF Fresh, LateOnce
  <2>2. PastClient(b)'
    BY DEF PastClient, Executing, Phase
  <2>3. ReadIsGood(b)'
    BY DEF ReadIsGood, Verified, Commit
  <2>4. AsksOnce(b)'
    BY DEF AsksOnce, Posting, Client, Executing
  <2>5. QED
    BY <2>1, <2>2, <2>3, <2>4
<1>4. QED
  BY <1>1, <1>2, <1>3 DEF Inv

\* The pull request seen is the one delivered.
LEMMA CompareInv == ASSUME Inv, NEW a \in Attempt, Compare(a) PROVE Inv'
<1> USE DEF Compare, Goto, control, client, remote
<1> TypeOK /\ RemoteAgrees /\ \A b \in Attempt : AttemptInv(b)
  BY DEF Inv
<1>1. TypeOK'
  BY AttemptAssumption DEF TypeOK, Posting, Client, Executing, Phase
<1>2. RemoteAgrees'
  BY DEF RemoteAgrees
<1>3. ASSUME NEW b \in Attempt PROVE AttemptInv(b)'
  <2> AttemptInv(b)
    OBVIOUS
  <2> USE AttemptAssumption DEF TypeOK, Attempt, AttemptInv, Superseded
  <2>1. Fresh(b)' /\ LateOnce(b)'
    BY DEF Fresh, LateOnce
  <2>2. PastClient(b)'
    BY DEF PastClient, Executing, Phase
  <2>3. ReadIsGood(b)'
    BY DEF ReadIsGood, Verified, NoCommit
  <2>4. AsksOnce(b)'
    BY DEF AsksOnce, Posting, Client, Executing
  <2>5. QED
    BY <2>1, <2>2, <2>3, <2>4
<1>4. QED
  BY <1>1, <1>2, <1>3 DEF Inv

\* A pull request with the head of the branch is a delivery.
LEMMA ReconcileInv == ASSUME Inv, NEW a \in Attempt, Reconcile(a) PROVE Inv'
<1> USE DEF Reconcile, Goto, control, client, remote
<1> TypeOK /\ RemoteAgrees /\ \A b \in Attempt : AttemptInv(b)
  BY DEF Inv
<1>1. TypeOK'
  BY AttemptAssumption DEF TypeOK, Executing, Phase
<1>2. RemoteAgrees'
  BY DEF RemoteAgrees
<1>3. ASSUME NEW b \in Attempt PROVE AttemptInv(b)'
  <2> AttemptInv(b)
    OBVIOUS
  <2> USE AttemptAssumption DEF TypeOK, Attempt, AttemptInv, Superseded
  <2>1. Fresh(b)' /\ LateOnce(b)'
    BY DEF Fresh, LateOnce
  <2>2. PastClient(b)'
    BY DEF PastClient, Executing, Phase
  <2>3. ReadIsGood(b)'
    BY DEF RemoteAgrees, ReadIsGood, Verified, NoCommit
  <2>4. AsksOnce(b)'
    BY DEF AsksOnce, Posting, Client, Executing
  <2>5. QED
    BY <2>1, <2>2, <2>3, <2>4
<1>4. QED
  BY <1>1, <1>2, <1>3 DEF Inv

\* A transient failure takes the attempt out of the client and forgets its authorization.
LEMMA TransientInv == ASSUME Inv, NEW a \in Attempt, Transient(a) PROVE Inv'
<1> USE DEF Transient, Goto, control, client, remote
<1> TypeOK /\ RemoteAgrees /\ \A b \in Attempt : AttemptInv(b)
  BY DEF Inv
<1>1. TypeOK'
  BY AttemptAssumption DEF TypeOK, Executing, Phase
<1>2. RemoteAgrees'
  BY DEF RemoteAgrees
<1>3. ASSUME NEW b \in Attempt PROVE AttemptInv(b)'
  <2> AttemptInv(b)
    OBVIOUS
  <2> USE AttemptAssumption DEF TypeOK, Attempt, AttemptInv, Superseded
  <2>1. Fresh(b)' /\ LateOnce(b)'
    BY DEF Fresh, LateOnce, Posting, Client
  <2>2. PastClient(b)'
    BY DEF PastClient
  <2>3. ReadIsGood(b)'
    BY DEF ReadIsGood, Verified
  <2>4. AsksOnce(b)'
    BY DEF AsksOnce, Posting, Client, Executing
  <2>5. QED
    BY <2>1, <2>2, <2>3, <2>4
<1>4. QED
  BY <1>1, <1>2, <1>3 DEF Inv

\* So does a final refusal; a request it refuses leaves the wire.
LEMMA RefusedInv == ASSUME Inv, NEW a \in Attempt, Refused(a) PROVE Inv'
<1> USE DEF Refused, Goto, control, client, remote
<1> TypeOK /\ RemoteAgrees /\ \A b \in Attempt : AttemptInv(b)
  BY DEF Inv
<1>1. TypeOK'
  BY AttemptAssumption DEF TypeOK, Executing, Phase
<1>2. RemoteAgrees'
  BY DEF RemoteAgrees
<1>3. ASSUME NEW b \in Attempt PROVE AttemptInv(b)'
  <2> AttemptInv(b)
    OBVIOUS
  <2> USE AttemptAssumption DEF TypeOK, Attempt, AttemptInv, Superseded
  <2>1. Fresh(b)' /\ LateOnce(b)'
    BY DEF Fresh, LateOnce, Posting, Client
  <2>2. PastClient(b)'
    BY DEF PastClient
  <2>3. ReadIsGood(b)'
    BY DEF ReadIsGood, Verified
  <2>4. AsksOnce(b)'
    BY DEF AsksOnce, Posting, Client, Executing
  <2>5. QED
    BY <2>1, <2>2, <2>3, <2>4
<1>4. QED
  BY <1>1, <1>2, <1>3 DEF Inv

\* A branch is created only where there is none.
LEMMA ServeRefInv == ASSUME Inv, NEW a \in Attempt, ServeRef(a) PROVE Inv'
<1> USE DEF ServeRef, Answer, Goto, control, client, remote
<1> TypeOK /\ RemoteAgrees /\ \A b \in Attempt : AttemptInv(b)
  BY DEF Inv
<1>1. TypeOK'
  BY AttemptAssumption DEF TypeOK, Commit, Client, Executing, Phase
<1>2. RemoteAgrees'
  BY DEF RemoteAgrees
<1>3. ASSUME NEW b \in Attempt PROVE AttemptInv(b)'
  <2> AttemptInv(b)
    OBVIOUS
  <2> USE AttemptAssumption DEF TypeOK, Attempt, AttemptInv, Superseded
  <2>1. Fresh(b)' /\ LateOnce(b)'
    BY DEF Fresh, LateOnce
  <2>2. PastClient(b)'
    BY DEF PastClient, Executing, Phase
  <2>3. ReadIsGood(b)'
    BY DEF Fresh, ReadIsGood, Verified, Foreign
  <2>4. AsksOnce(b)'
    BY DEF AsksOnce, Posting, Client, Executing
  <2>5. QED
    BY <2>1, <2>2, <2>3, <2>4
<1>4. QED
  BY <1>1, <1>2, <1>3 DEF Inv

\* The pull request gets the commit of the branch.
LEMMA ServePullInv == ASSUME Inv, NEW a \in Attempt, ServePull(a) PROVE Inv'
<1> USE DEF ServePull, Answer, Goto, CanOpen, control, client, remote
<1> TypeOK /\ RemoteAgrees /\ \A b \in Attempt : AttemptInv(b)
  BY DEF Inv
<1>1. TypeOK'
  BY AttemptAssumption DEF TypeOK, Client, Executing, Phase
<1>2. RemoteAgrees'
  BY DEF RemoteAgrees
<1>3. ASSUME NEW b \in Attempt PROVE AttemptInv(b)'
  <2> AttemptInv(b)
    OBVIOUS
  <2> USE AttemptAssumption DEF TypeOK, Attempt, AttemptInv, Superseded
  <2>1. Fresh(b)' /\ LateOnce(b)'
    BY DEF Fresh, LateOnce
  <2>2. PastClient(b)'
    BY DEF PastClient, Executing, Phase
  <2>3. ReadIsGood(b)'
    BY DEF ReadIsGood, Verified
  <2>4. AsksOnce(b)'
    BY DEF AsksOnce, Posting, Client, Executing
  <2>5. QED
    BY <2>1, <2>2, <2>3, <2>4
<1>4. QED
  BY <1>1, <1>2, <1>3 DEF Inv

\* A merged pull request still exists.
LEMMA MergeInv == ASSUME Inv, Merge PROVE Inv'
<1> USE DEF Merge, control, client, remote
<1> TypeOK /\ RemoteAgrees /\ \A b \in Attempt : AttemptInv(b)
  BY DEF Inv
<1>1. TypeOK'
  BY AttemptAssumption DEF TypeOK
<1>2. RemoteAgrees'
  BY DEF RemoteAgrees
<1>3. ASSUME NEW b \in Attempt PROVE AttemptInv(b)'
  <2> AttemptInv(b)
    OBVIOUS
  <2> USE AttemptAssumption DEF TypeOK, Attempt, AttemptInv, Superseded
  <2>1. Fresh(b)' /\ LateOnce(b)'
    BY DEF Fresh, LateOnce
  <2>2. PastClient(b)'
    BY DEF PastClient
  <2>3. ReadIsGood(b)'
    BY DEF ReadIsGood
  <2>4. AsksOnce(b)'
    BY DEF AsksOnce, Posting, Client, Executing
  <2>5. QED
    BY <2>1, <2>2, <2>3, <2>4
<1>4. QED
  BY <1>1, <1>2, <1>3 DEF Inv

\* So does one that was closed.
LEMMA CloseInv == ASSUME Inv, Close PROVE Inv'
<1> USE DEF Close, control, client, remote
<1> TypeOK /\ RemoteAgrees /\ \A b \in Attempt : AttemptInv(b)
  BY DEF Inv
<1>1. TypeOK'
  BY AttemptAssumption DEF TypeOK
<1>2. RemoteAgrees'
  BY DEF RemoteAgrees
<1>3. ASSUME NEW b \in Attempt PROVE AttemptInv(b)'
  <2> AttemptInv(b)
    OBVIOUS
  <2> USE AttemptAssumption DEF TypeOK, Attempt, AttemptInv, Superseded
  <2>1. Fresh(b)' /\ LateOnce(b)'
    BY DEF Fresh, LateOnce
  <2>2. PastClient(b)'
    BY DEF PastClient
  <2>3. ReadIsGood(b)'
    BY DEF ReadIsGood
  <2>4. AsksOnce(b)'
    BY DEF AsksOnce, Posting, Client, Executing
  <2>5. QED
    BY <2>1, <2>2, <2>3, <2>4
<1>4. QED
  BY <1>1, <1>2, <1>3 DEF Inv

\* Only the branch of a pull request people have dealt with goes.
LEMMA DeleteBranchInv == ASSUME Inv, DeleteBranch PROVE Inv'
<1> USE DEF DeleteBranch, control, client, remote
<1> TypeOK /\ RemoteAgrees /\ \A b \in Attempt : AttemptInv(b)
  BY DEF Inv
<1>1. TypeOK'
  BY AttemptAssumption DEF TypeOK, Commit
<1>2. RemoteAgrees'
  BY DEF RemoteAgrees
<1>3. ASSUME NEW b \in Attempt PROVE AttemptInv(b)'
  <2> AttemptInv(b)
    OBVIOUS
  <2> USE AttemptAssumption DEF TypeOK, Attempt, AttemptInv, Superseded
  <2>1. Fresh(b)' /\ LateOnce(b)'
    BY DEF Fresh, LateOnce
  <2>2. PastClient(b)'
    BY DEF PastClient
  <2>3. ReadIsGood(b)'
    BY DEF ReadIsGood, NoCommit, Foreign
  <2>4. AsksOnce(b)'
    BY DEF AsksOnce, Posting, Client, Executing
  <2>5. QED
    BY <2>1, <2>2, <2>3, <2>4
<1>4. QED
  BY <1>1, <1>2, <1>3 DEF Inv

\* Nobody remembers where main was.
LEMMA MainMovesInv == ASSUME Inv, MainMoves PROVE Inv'
<1> USE DEF MainMoves, control, client, remote
<1> TypeOK /\ RemoteAgrees /\ \A b \in Attempt : AttemptInv(b)
  BY DEF Inv
<1>1. TypeOK'
  BY AttemptAssumption DEF TypeOK
<1>2. RemoteAgrees'
  BY DEF RemoteAgrees
<1>3. ASSUME NEW b \in Attempt PROVE AttemptInv(b)'
  <2> AttemptInv(b)
    OBVIOUS
  <2> USE AttemptAssumption DEF TypeOK, Attempt, AttemptInv, Superseded
  <2>1. Fresh(b)' /\ LateOnce(b)'
    BY DEF Fresh, LateOnce
  <2>2. PastClient(b)'
    BY DEF PastClient
  <2>3. ReadIsGood(b)'
    BY DEF ReadIsGood
  <2>4. AsksOnce(b)'
    BY DEF AsksOnce, Posting, Client, Executing
  <2>5. QED
    BY <2>1, <2>2, <2>3, <2>4
<1>4. QED
  BY <1>1, <1>2, <1>3 DEF Inv

\* The run has just been approved and nothing has been sent.
LEMMA InitInv == Init => Inv
<1> SUFFICES ASSUME Init PROVE Inv
  OBVIOUS
<1> USE AttemptAssumption
<1>1. TypeOK
  <2>1. "none" \in Phase /\ {NoCommit, Foreign} \subseteq Commit
    BY DEF Phase, Commit
  <2>2. 0 \in 0 .. MaxAttempts /\ 0 \in 0 .. 2
    OBVIOUS
  <2>3. QED
    BY <2>1, <2>2 DEF Init, TypeOK
<1>2. RemoteAgrees
  BY DEF Init, RemoteAgrees
<1>3. ASSUME NEW a \in Attempt PROVE AttemptInv(a)
  BY DEF Init, AttemptInv, Fresh, LateOnce, PastClient, AsksOnce, ReadIsGood, Verified
<1>4. QED
  BY <1>1, <1>2, <1>3 DEF Inv

\* Every step of the attempts, of the queue and of the remote repository keeps the invariant.
LEMMA NextInv == Inv /\ [Next]_vars => Inv'
<1> SUFFICES ASSUME Inv, [Next]_vars PROVE Inv'
  OBVIOUS
<1>1. CASE Claim \/ LeaseChanges \/ Exhausted \/ LoseLock
  BY <1>1, ClaimInv, LeaseChangesInv, ExhaustedInv, LoseLockInv
<1>2. ASSUME NEW a \in Attempt, Execution(a) PROVE Inv'
  BY <1>2, LockInv, EnterInv, RecordInv, MarkInv, FenceFailsInv, TimeOutInv, FailInv, RetryInv,
     CrashInv DEF Execution
<1>3. ASSUME NEW a \in Attempt, ClientStep(a) PROVE Inv'
  BY <1>3, ListPullsInv, CheckBaseInv, AuthorizeInv, PostInv, GetRefInv, ReadRefInv, VerifyInv,
     CompareInv, ReconcileInv, TransientInv, RefusedInv DEF ClientStep
<1>4. CASE Remote
  BY <1>4, ServeRefInv, ServePullInv, MergeInv, CloseInv, DeleteBranchInv, MainMovesInv DEF Remote
<1>5. CASE UNCHANGED vars
  BY <1>5 DEF vars, Inv, TypeOK, RemoteAgrees, AttemptInv, Fresh, LateOnce, PastClient,
     AsksOnce, ReadIsGood, Superseded
<1>6. QED
  BY <1>1, <1>2, <1>3, <1>4, <1>5 DEF Next

\* The inductive invariant holds in every reachable state, for any number of attempts.
THEOREM InvHolds == Spec => []Inv
<1>1. QED
  BY InitInv, NextInv, PTL DEF Spec

\* The control plane, the clients and the remote repository keep their types.
THEOREM TypesHold == Spec => []TypeOK
<1>1. Inv => TypeOK
  BY DEF Inv
<1>2. QED
  BY <1>1, InvHolds, PTL

\* However many takeovers there are, an attempt that lost its run sends at most the one
\* mutating request that authorize() had covered before.
THEOREM OneLateRequest == Spec => []AtMostOneLateRequest
<1>1. Inv => AtMostOneLateRequest
  BY DEF Inv, AttemptInv, LateOnce, AtMostOneLateRequest
<1>2. QED
  BY <1>1, InvHolds, PTL

\* An attempt that finds the effect completed never enters the client again.
THEOREM NothingIsRedelivered == Spec => []NoRedelivery
<1>1. Inv => NoRedelivery
  BY DEF Inv, AttemptInv, PastClient, NoRedelivery, Owns, Superseded
<1>2. QED
  BY <1>1, InvHolds, PTL

\* No transaction of an older attempt takes a completed effect back.
LEMMA CompletedStays == ASSUME Inv, [Next]_vars, effect = "COMPLETED" PROVE effect' = "COMPLETED"
<1>1. ASSUME NEW a \in Attempt, Enter(a) PROVE effect' = "COMPLETED"
  BY <1>1 DEF Enter
<1>2. ASSUME NEW a \in Attempt, Record(a) PROVE effect' = "COMPLETED"
  BY <1>2 DEF Record, Owns, Inv, AttemptInv, PastClient, Superseded
<1>3. CASE Claim \/ LeaseChanges \/ Exhausted \/ LoseLock \/ Remote \/ UNCHANGED vars
  BY <1>3 DEF Claim, LeaseChanges, Exhausted, LoseLock, Remote, ServeRef, ServePull, Merge,
     Close, DeleteBranch, MainMoves, control, vars
<1>4. ASSUME NEW a \in Attempt, ClientStep(a) PROVE effect' = "COMPLETED"
  BY <1>4 DEF ClientStep, ListPulls, CheckBase, Authorize, Post, GetRef, ReadRef, Verify,
     Compare, Reconcile, Transient, Refused, control
<1>5. ASSUME NEW a \in Attempt, Execution(a) PROVE effect' = "COMPLETED"
  BY <1>1, <1>2, <1>5 DEF Execution, Lock, Mark, FenceFails, TimeOut, Fail, Retry, Crash,
     control
<1>6. QED
  BY <1>3, <1>4, <1>5 DEF Next

\* A delivery once recorded stays recorded.
THEOREM CompletedEffectIsFinal == Spec => CompletedIsFinal
<1>1. Inv /\ [Next]_vars => [effect = "COMPLETED" => effect' = "COMPLETED"]_vars
  BY CompletedStays
<1>2. QED
  BY <1>1, InvHolds, PTL DEF Spec, CompletedIsFinal

\* Before anything is sent the branch is free or somebody else's, and no pull request exists.
LEMMA InitImplements == Init => Abstract!Init
<1> SUFFICES ASSUME Init PROVE Abstract!Init
  OBVIOUS
<1>1. Opening = {}
  BY DEF Init, Opening
<1>2. QED
  BY <1>1 DEF Init, Abstract!Init, Terminal

\* Whether an attempt will open a pull request depends on that attempt alone.
LEMMA OthersOpen ==
    ASSUME NEW a \in Attempt,
           \A b \in Attempt : b # a =>
               /\ pc'[b] = pc[b] /\ seen'[b] = seen[b]
               /\ <<b, "pull">> \in wire' <=> <<b, "pull">> \in wire
    PROVE  Opening' \ {a} = Opening \ {a}
  BY DEF Opening

\* A step that changes neither the branch, nor the pull request, nor whether and how the
\* run ended is invisible to the abstract delivery, unless an attempt changes its mind about
\* opening a pull request; it may set out to open one when there is none.
LEMMA OnlyWilling ==
    ASSUME NEW a \in Attempt,
           Opening' \ {a} = Opening \ {a},
           a \in Opening' => a \in Opening \/ pullState = "none",
           UNCHANGED <<branch, pullState>>,
           status' = status \/ (status \notin Terminal /\ status' \notin Terminal)
    PROVE  [Abstract!Next]_(Abstract!vars)
<1>1. CASE Opening' = Opening
  BY <1>1 DEF Abstract!vars
<1>2. CASE a \notin Opening'
  <2>1. Opening' = Opening \ {a}
    BY <1>2
  <2>2. Abstract!Withdraw(a)
    BY <2>1 DEF Abstract!Withdraw
  <2>3. QED
    BY <2>2 DEF Abstract!Next
<1>3. CASE a \in Opening' /\ Opening' # Opening
  <2>1. Opening' = Opening \cup {a} /\ a \notin Opening
    BY <1>3
  <2>2. Abstract!FindNone(a)
    BY <2>1 DEF Abstract!FindNone
  <2>3. QED
    BY <2>2 DEF Abstract!Next
<1>4. QED
  BY <1>1, <1>2, <1>3

\* A step of the client is seen only in whether its attempt will open a pull request.
LEMMA ClientImplements ==
    ASSUME Inv, NEW a \in Attempt, ClientStep(a) PROVE [Abstract!Next]_(Abstract!vars)
<1>0. TypeOK /\ RemoteAgrees
  BY DEF Inv
<1>1. UNCHANGED <<branch, pullState, status>>
  BY DEF ClientStep, ListPulls, CheckBase, Authorize, Post, GetRef, ReadRef, Verify, Compare,
     Reconcile, Transient, Refused, control, remote
<1>2. CASE ListPulls(a)
  <2>1. Opening' \ {a} = Opening \ {a}
    BY <1>0, <1>2, OthersOpen DEF ListPulls, Goto, remote, TypeOK
  <2>2. a \in Opening' => a \in Opening \/ pullState = "none"
    BY <1>0, <1>2 DEF ListPulls, Goto, remote, TypeOK, RemoteAgrees, Opening
  <2>3. QED
    BY <1>1, <2>1, <2>2, OnlyWilling
<1>3. CASE CheckBase(a) \/ GetRef(a) \/ ReadRef(a) \/ Reconcile(a) \/ Transient(a)
  <2>1. Opening' \ {a} = Opening \ {a} /\ UNCHANGED <<seen, wire>>
    BY <1>0, <1>3, OthersOpen DEF CheckBase, GetRef, ReadRef, Reconcile, Transient, Goto, client,
       remote, TypeOK
  <2>2. pc'[a] \notin {"compare", "openPull"}
    BY <1>0, <1>3 DEF CheckBase, GetRef, ReadRef, Reconcile, Transient, Goto, TypeOK
  <2>3. a \in Opening' => a \in Opening
    BY <2>1, <2>2 DEF Opening
  <2>4. QED
    BY <1>1, <2>1, <2>3, OnlyWilling
<1>4. CASE Verify(a) \/ Compare(a)
  <2>1. Opening' \ {a} = Opening \ {a}
    BY <1>0, <1>4, OthersOpen DEF Verify, Compare, Goto, client, remote, TypeOK
  <2>2. a \in Opening' => a \in Opening
    BY <1>0, <1>4 DEF Verify, Compare, Goto, client, remote, TypeOK, Opening
  <2>3. QED
    BY <1>1, <2>1, <2>2, OnlyWilling
<1>5. CASE Authorize(a)
  <2>1. Opening' = Opening
    BY <1>5 DEF Authorize, remote, Opening
  <2>2. QED
    BY <1>1, <2>1, OnlyWilling
<1>6. CASE Post(a)
  <2>1. /\ seen' = seen
        /\ \/ pc' = [pc EXCEPT ![a] = "prepare"] /\ wire' = wire
           \/ pc' = [pc EXCEPT ![a] = "getRef"] /\ wire' = wire
           \/ pc' = [pc EXCEPT ![a] = "createRef"] /\ wire' = wire
           \/ pc' = [pc EXCEPT ![a] = "refSent"] /\ wire' = wire \cup {<<a, "ref">>}
           \/ /\ pc[a] = "openPull" /\ pc' = [pc EXCEPT ![a] = "pullSent"]
              /\ wire' = wire \cup {<<a, "pull">>}
    BY <1>6 DEF Post, Posting, Goto
  <2>2. Opening' \ {a} = Opening \ {a}
    BY <1>0, <2>1, OthersOpen DEF TypeOK
  <2>3. a \in Opening' => a \in Opening
    BY <1>0, <2>1 DEF TypeOK, Opening
  <2>4. QED
    BY <1>1, <2>2, <2>3, OnlyWilling
<1>7. CASE Refused(a)
  <2>1. Opening' \ {a} = Opening \ {a}
    BY <1>0, <1>7, OthersOpen DEF Refused, Goto, TypeOK
  <2>2. a \in Opening' => a \in Opening
    BY <1>0, <1>7 DEF Refused, Goto, TypeOK, Opening
  <2>3. QED
    BY <1>1, <2>1, <2>2, OnlyWilling
<1>8. QED
  BY <1>2, <1>3, <1>4, <1>5, <1>6, <1>7 DEF ClientStep

\* Outside the client an attempt only ends the run, or gives up what it was about to open.
LEMMA ExecutionImplements ==
    ASSUME Inv, NEW a \in Attempt, Execution(a) PROVE [Abstract!Next]_(Abstract!vars)
<1>0. TypeOK /\ ReadIsGood(a)
  BY DEF Inv, AttemptInv
<1>1. /\ UNCHANGED <<branch, pullState, seen, wire>>
      /\ \E p \in Phase \ {"compare", "openPull"} : pc' = [pc EXCEPT ![a] = p]
  <2>1. UNCHANGED <<branch, pullState, seen, wire>>
    BY DEF Execution, Lock, Enter, Record, Mark, FenceFails, TimeOut, Fail, Retry, Crash, client,
       remote
  <2>2. {"entered", "completed", "listPulls", "gaveUp", "failed", "done", "halting"}
            \subseteq Phase \ {"compare", "openPull"}
    BY DEF Phase, Executing, Client, Posting
  <2>3. \E p \in {"entered", "completed", "listPulls", "gaveUp", "failed", "done", "halting"} :
            pc' = [pc EXCEPT ![a] = p]
    BY DEF Execution, Lock, Enter, Record, Mark, FenceFails, TimeOut, Fail, Retry, Crash, Goto,
       Leave
  <2>4. QED
    BY <2>1, <2>2, <2>3
<1>2. Opening' \ {a} = Opening \ {a} /\ (a \in Opening' => a \in Opening)
  <2>1. Opening' \ {a} = Opening \ {a}
    BY <1>0, <1>1, OthersOpen DEF TypeOK
  <2>2. a \in Opening' => a \in Opening
    BY <1>0, <1>1 DEF TypeOK, Opening
  <2>3. QED
    BY <2>1, <2>2
<1>3. CASE status' = status \/ (status \notin Terminal /\ status' \notin Terminal)
  BY <1>1, <1>2, <1>3, OnlyWilling
<1>4. CASE status' # status /\ ~(status \notin Terminal /\ status' \notin Terminal)
  <2>1. /\ status \notin Terminal /\ status' \in Terminal
        /\ status' = "RESOLVED" => pullState # "none"
        /\ pc[a] \notin {"compare", "openPull"}
    BY <1>0, <1>4 DEF Execution, Lock, Enter, Record, Mark, FenceFails, TimeOut, Fail, Retry,
       Crash, Owns, Finish, control, Terminal, ReadIsGood
  <2>2. Opening' = Opening
    <3>1. a \in Opening => a \in Opening'
      BY <1>1, <2>1 DEF Opening
    <3>2. QED
      BY <1>2, <3>1
  <2>3. CASE status' = "RESOLVED"
    <3>1. Abstract!Resolve
      BY <1>1, <2>1, <2>2, <2>3 DEF Abstract!Resolve
    <3>2. QED
      BY <3>1 DEF Abstract!Next
  <2>4. CASE status' # "RESOLVED"
    <3>1. Abstract!GiveUp
      BY <1>1, <2>1, <2>2, <2>4 DEF Abstract!GiveUp, Terminal
    <3>2. QED
      BY <3>1 DEF Abstract!Next
  <2>5. QED
    BY <2>3, <2>4
<1>5. QED
  BY <1>3, <1>4

\* POST refs pushes the approved commit to a branch that is not there, and only then.
LEMMA RefImplements ==
    ASSUME Inv, NEW a \in Attempt, ServeRef(a) PROVE [Abstract!Next]_(Abstract!vars)
<1>0. TypeOK
  BY DEF Inv
<1>1. UNCHANGED <<status, pullState>> /\ branch' = IF branch = NoCommit THEN a ELSE branch
  BY DEF ServeRef, control
<1>2. Opening' = Opening
  <2>1. /\ seen' = seen /\ wire' = wire \ {<<a, "ref">>}
        /\ pc' = pc \/ (pc[a] = "refSent" /\ pc' = [pc EXCEPT ![a] = "readRef"])
    BY DEF ServeRef, Answer, Goto, client
  <2>2. QED
    BY <1>0, <2>1 DEF TypeOK, Opening
<1>3. CASE branch # NoCommit
  BY <1>1, <1>2, <1>3 DEF Abstract!vars
<1>4. CASE branch = NoCommit
  <2>1. a # NoCommit /\ a # Foreign
    BY AttemptAssumption DEF Attempt, NoCommit, Foreign
  <2>2. Abstract!PushBranch
    BY <1>1, <1>2, <1>4, <2>1 DEF Abstract!PushBranch, NoCommit, Foreign
  <2>3. QED
    BY <2>2 DEF Abstract!Next
<1>5. QED
  BY <1>3, <1>4

\* POST pulls opens a pull request for an attempt that found none, or is refused.
LEMMA PullImplements ==
    ASSUME Inv, NEW a \in Attempt, ServePull(a) PROVE [Abstract!Next]_(Abstract!vars)
<1>0. TypeOK /\ ReadIsGood(a) /\ AsksOnce(a)
  BY DEF Inv, AttemptInv
<1>1. UNCHANGED <<status, branch>>
  BY DEF ServePull, control
<1>2. a \in Opening /\ Opening' = Opening \ {a}
  <2>1. /\ seen' = seen /\ <<a, "pull">> \in wire /\ wire' = wire \ {<<a, "pull">>}
        /\ \/ pc' = pc
           \/ pc' = [pc EXCEPT ![a] = "delivered"] \/ pc' = [pc EXCEPT ![a] = "reconcile"]
    BY DEF ServePull, Answer, Goto, client
  <2>2. pc[a] \notin {"compare", "openPull"}
    BY <1>0, <2>1 DEF AsksOnce, Client, Posting
  <2>3. QED
    BY <1>0, <2>1, <2>2 DEF TypeOK, Opening
<1>3. CASE ~CanOpen
  <2>1. pullState' = pullState
    BY <1>3 DEF ServePull
  <2>2. QED
    BY <1>1, <1>2, <2>1, OnlyWilling
<1>4. CASE CanOpen
  <2>1. pullState' = "open" /\ pullState # "open"
    BY <1>4 DEF ServePull, CanOpen
  <2>2. branch # NoCommit /\ branch # Foreign
    BY <1>0, <1>4 DEF ServePull, CanOpen, ReadIsGood
  <2>3. Abstract!OpenPull(a)
    BY <1>1, <1>2, <2>1, <2>2 DEF Abstract!OpenPull
  <2>4. QED
    BY <2>3 DEF Abstract!Next
<1>5. QED
  BY <1>3, <1>4

\* A step of the real delivery is a step of the abstract one or changes nothing it sees.
LEMMA StepImplements ==
    ASSUME Inv, [Next]_vars PROVE [Abstract!Next]_(Abstract!vars)
<1>0. TypeOK
  BY DEF Inv
<1>1. CASE LeaseChanges \/ LoseLock \/ MainMoves \/ UNCHANGED vars
  BY <1>1 DEF LeaseChanges, LoseLock, MainMoves, control, client, remote, vars, Abstract!vars,
     Opening
<1>2. CASE Claim
  <2>0. attempt + 1 \in Attempt
    BY <1>0, <1>2, AttemptAssumption DEF Claim, TypeOK, Attempt
  <2>1. /\ UNCHANGED <<branch, pullState, seen, wire>>
        /\ status \notin Terminal /\ status' \notin Terminal
        /\ pc' = [pc EXCEPT ![attempt + 1] = "locking"]
    BY <1>2 DEF Claim, Goto, client, remote, Terminal
  <2>2. Opening' \ {attempt + 1} = Opening \ {attempt + 1}
    BY <1>0, <2>0, <2>1, OthersOpen DEF TypeOK
  <2>3. attempt + 1 \in Opening' => attempt + 1 \in Opening
    BY <1>0, <2>0, <2>1 DEF TypeOK, Opening
  <2>4. QED
    BY <2>0, <2>1, <2>2, <2>3, OnlyWilling
<1>3. CASE Exhausted
  <2>1. Abstract!GiveUp
    BY <1>3 DEF Exhausted, Finish, Abstract!GiveUp, client, remote, Terminal, Opening
  <2>2. QED
    BY <2>1 DEF Abstract!Next
<1>4. CASE Merge \/ Close
  <2>1. Abstract!SettlePull
    BY <1>4 DEF Merge, Close, control, client, Abstract!SettlePull, Opening
  <2>2. QED
    BY <2>1 DEF Abstract!Next
<1>5. CASE DeleteBranch
  <2>1. Abstract!DeleteBranch
    BY <1>5 DEF DeleteBranch, control, client, Abstract!DeleteBranch, NoCommit, Foreign, Opening
  <2>2. QED
    BY <2>1 DEF Abstract!Next
<1>6. QED
  BY <1>1, <1>2, <1>3, <1>4, <1>5, ClientImplements, ExecutionImplements, RefImplements,
     PullImplements DEF Next, Remote

\* Whatever requests are lost, late or repeated, the delivery does what Delivery promises.
THEOREM DeliveryIsImplemented == Spec => ImplementsDelivery
<1>1. Inv /\ [Next]_vars => [Abstract!Next]_(Abstract!vars)
  BY StepImplements
<1>2. QED
  BY <1>1, InvHolds, InitImplements, PTL DEF Spec, ImplementsDelivery, Abstract!Spec

\* ------------------------------------------------------------------------
\* What the delivery inherits from the promise it implements.

\* The promise keeps a foreign branch without a pull request, and RESOLVED with one.
LEMMA PullsAgreeStays ==
  /\ Abstract!Init => Abstract!PullsAgree
  /\ Abstract!PullsAgree /\ [Abstract!Next]_(Abstract!vars) => Abstract!PullsAgree'
<1>1. Abstract!Init => Abstract!PullsAgree
  BY DEF Abstract!Init, Abstract!PullsAgree
<1>2. ASSUME Abstract!PullsAgree,
             \/ Abstract!PushBranch \/ Abstract!SettlePull \/ Abstract!DeleteBranch
             \/ UNCHANGED Abstract!vars
      PROVE  Abstract!PullsAgree'
  BY <1>2 DEF Abstract!PullsAgree, Abstract!vars, Abstract!PushBranch, Abstract!SettlePull,
     Abstract!DeleteBranch
<1>3. ASSUME Abstract!PullsAgree, Abstract!Resolve \/ Abstract!GiveUp
      PROVE  Abstract!PullsAgree'
  BY <1>3 DEF Abstract!PullsAgree, Abstract!Resolve, Abstract!GiveUp
<1>4. ASSUME Abstract!PullsAgree, NEW a \in Attempt,
             Abstract!FindNone(a) \/ Abstract!Withdraw(a) \/ Abstract!OpenPull(a)
      PROVE  Abstract!PullsAgree'
  BY <1>4 DEF Abstract!PullsAgree, Abstract!FindNone, Abstract!Withdraw, Abstract!OpenPull
<1> QED
  BY <1>1, <1>2, <1>3, <1>4 DEF Abstract!Next

\* No request, repeated, late or lost, opens a pull request from a branch that carries
\* somebody else's commit, and no run is RESOLVED without one.
THEOREM PullRequestsAgree == Spec => []Abstract!PullsAgree
  BY PullsAgreeStays, DeliveryIsImplemented, PTL DEF ImplementsDelivery, Abstract!Spec

\* A branch whose name was taken keeps its commit: the run gives up instead.
THEOREM ForeignBranchesAreLeftAlone == Spec => Abstract!ForeignIsLeftAlone
<1>1. Abstract!PullsAgree /\ [Abstract!Next]_(Abstract!vars)
          => [(CASE branch = NoCommit -> "none"
                 [] branch = Foreign -> "foreign"
                 [] OTHER -> "approved") = "foreign" =>
              (CASE branch = NoCommit -> "none"
                 [] branch = Foreign -> "foreign"
                 [] OTHER -> "approved")' = "foreign"]_(Abstract!vars)
  BY DEF Abstract!PullsAgree, Abstract!Next, Abstract!PushBranch, Abstract!FindNone,
     Abstract!Withdraw, Abstract!OpenPull, Abstract!SettlePull, Abstract!DeleteBranch,
     Abstract!Resolve, Abstract!GiveUp
<1> QED
  BY <1>1, PullRequestsAgree, DeliveryIsImplemented, PTL DEF ImplementsDelivery, Abstract!Spec,
     Abstract!ForeignIsLeftAlone

\* A second pull request can be opened only by an attempt that had found none before the
\* first was there and was overtaken: once one exists, whatever people do to it, every
\* attempt that looks finds it, and nobody opens more than one.
THEOREM OnlyThoseWhoFoundNoneOpen == Spec => Abstract!OnlyEarlierOnesOpen
<1> DEFINE pull == IF pullState = "squashed" THEN "merged" ELSE pullState
<1>1. [Abstract!Next]_(Abstract!vars)
          => [/\ pull # "none" => Opening' \subseteq Opening
              /\ pull # "open" /\ pull' = "open" =>
                     \E a \in Opening : Opening' = Opening \ {a}]_(Abstract!vars)
  <2>1. ASSUME NEW a \in Attempt,
               Abstract!FindNone(a) \/ Abstract!Withdraw(a) \/ Abstract!OpenPull(a)
        PROVE  /\ pull # "none" => Opening' \subseteq Opening
               /\ pull # "open" /\ pull' = "open" => \E b \in Opening : Opening' = Opening \ {b}
    BY <2>1 DEF Abstract!FindNone, Abstract!Withdraw, Abstract!OpenPull
  <2>2. ASSUME \/ Abstract!PushBranch \/ Abstract!SettlePull \/ Abstract!DeleteBranch
               \/ Abstract!Resolve \/ Abstract!GiveUp
        PROVE  Opening' = Opening /\ (pull' = "open" => pull = "open")
    BY <2>2 DEF Abstract!PushBranch, Abstract!SettlePull, Abstract!DeleteBranch,
       Abstract!Resolve, Abstract!GiveUp
  <2>3. QED
    BY <2>1, <2>2 DEF Abstract!Next
<1> QED
  BY <1>1, DeliveryIsImplemented, PTL DEF ImplementsDelivery, Abstract!Spec,
     Abstract!OnlyEarlierOnesOpen

\* What users were told about the delivery stays true when older attempts answer late.
THEOREM OutcomesAreFinal == Spec => Abstract!OutcomeIsFinal
<1>1. [Abstract!Next]_(Abstract!vars)
          => [(IF status \in Terminal THEN status ELSE "open") # "open" =>
              (IF status \in Terminal THEN status ELSE "open")'
                  = IF status \in Terminal THEN status ELSE "open"]_(Abstract!vars)
  BY DEF Abstract!Next, Abstract!PushBranch, Abstract!FindNone, Abstract!Withdraw,
     Abstract!OpenPull, Abstract!SettlePull, Abstract!DeleteBranch, Abstract!Resolve,
     Abstract!GiveUp
<1> QED
  BY <1>1, DeliveryIsImplemented, PTL DEF ImplementsDelivery, Abstract!Spec,
     Abstract!OutcomeIsFinal

\* A write of the status moves the one row of the life cycle.
LEMMA RowMoves ==
  ASSUME \/ status = "PENDING" /\ status' = "RUNNING"
         \/ status = "RUNNING" /\ status' \in {"PENDING", "RESOLVED", "FAILED",
                                               "NEEDS_HUMAN_INTERVENTION"}
         \/ status' = status
  PROVE  [Lifecycle!Next]_(Lifecycle!vars)
<1>. DEFINE s == [r \in {"run"} |-> status]
            d == [r \in {"run"} |-> "APPROVE"]
<1>1. s["run"] = status /\ s' = [s EXCEPT !["run"] = status'] /\ d["run"] = "APPROVE" /\ d' = d
  OBVIOUS
<1>2. CASE status = "PENDING" /\ status' = "RUNNING"
  <2>1. Lifecycle!Start("run")
    BY <1>1, <1>2 DEF Lifecycle!Start, Lifecycle!Become
  <2>. QED
    BY <2>1 DEF Lifecycle!Next, Lifecycle!Step
<1>3. CASE status = "RUNNING" /\ status' = "PENDING"
  <2>1. Lifecycle!Requeue("run")
    BY <1>1, <1>3 DEF Lifecycle!Requeue, Lifecycle!Become
  <2>. QED
    BY <2>1 DEF Lifecycle!Next, Lifecycle!Step
<1>4. CASE status = "RUNNING" /\ status' = "NEEDS_HUMAN_INTERVENTION"
  <2>1. Lifecycle!Escalate("run")
    BY <1>1, <1>4 DEF Lifecycle!Escalate, Lifecycle!Become
  <2>. QED
    BY <2>1 DEF Lifecycle!Next, Lifecycle!Step
<1>5. CASE status = "RUNNING" /\ status' \in {"RESOLVED", "FAILED"}
  <2>1. Lifecycle!Delivered("run")
    BY <1>1, <1>5 DEF Lifecycle!Delivered, Lifecycle!Become, Lifecycle!ResumeOutcome
  <2>. QED
    BY <2>1 DEF Lifecycle!Next, Lifecycle!Step
<1>6. CASE status' = status
  BY <1>6 DEF Lifecycle!vars
<1> QED
  BY <1>2, <1>3, <1>4, <1>5, <1>6

\* The attempts of an approved run move its row along the life cycle, decided APPROVE all
\* the time: the delivery and the queue agree on what a claim, a retry, an expiry and the
\* last write of an attempt do to it.
THEOREM RowsFollowLifecycle == Spec => RowFollowsLifecycle
<1>1. Next => [Lifecycle!Next]_(Lifecycle!vars)
  <2>1. ASSUME Claim \/ Exhausted \/ \E a \in Attempt : Mark(a) \/ Retry(a)
        PROVE  [Lifecycle!Next]_(Lifecycle!vars)
    BY <2>1, RowMoves DEF Claim, Exhausted, Mark, Retry, Owns, Finish
  <2>2. ASSUME NEW a \in Attempt, Execution(a), ~Mark(a), ~Retry(a) PROVE status' = status
    BY <2>2 DEF Execution, Lock, Enter, Record, FenceFails, TimeOut, Fail, Crash, control
  <2>3. ASSUME NEW a \in Attempt, ClientStep(a) PROVE status' = status
    BY <2>3 DEF ClientStep, ListPulls, CheckBase, Authorize, Post, GetRef, ReadRef, Verify,
       Compare, Reconcile, Transient, Refused, control
  <2>4. ASSUME LeaseChanges \/ LoseLock \/ Remote PROVE status' = status
    BY <2>4 DEF LeaseChanges, LoseLock, Remote, ServeRef, ServePull, Merge, Close,
       DeleteBranch, MainMoves, control
  <2>. QED
    BY <2>1, <2>2, <2>3, <2>4, RowMoves DEF Next
<1>2. UNCHANGED vars => UNCHANGED Lifecycle!vars
  BY DEF vars, Lifecycle!vars
<1> QED
  BY <1>1, <1>2, PTL DEF Spec, RowFollowsLifecycle
=============================================================================
