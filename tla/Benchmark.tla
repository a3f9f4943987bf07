------------------------------ MODULE Benchmark ------------------------------
(***************************************************************************)
(* A benchmark of the real tiers (eval/harness.py) with everything it goes *)
(* through: the reference service whose fault it injects, the run that     *)
(* investigates the case with the gateway's loop (ToolGateway) and the     *)
(* model (ModelProvider), and the operations MCP server the gateway's      *)
(* handlers reach through a session of their own (tools/mcp_adapter.py,    *)
(* ops_mcp/ops_readonly/server.py).                                        *)
(*                                                                         *)
(* A request for orders is known by the case it was sent for and by the    *)
(* case whose fault was active when it was served, 0 for none.  The        *)
(* harness stops waiting for a request after 10 s, the service does not:   *)
(* it carries it out when it comes to it.                                  *)
(***************************************************************************)
EXTENDS ToolGateway, ModelProvider, Sequences

CONSTANTS Cases,          \* fault cases of the benchmark
          Baseline,       \* BASELINE_SAMPLES
          Faulted,        \* FAULTED_SAMPLES
          Limit,          \* log lines read_logs() returns
          Kept,           \* log lines it looks at, 128 000 bytes
          MaxRestarts     \* restarts of the reference service (bound)

ASSUME BenchmarkAssumption ==
    /\ Cases \in Nat \ {0} /\ Baseline \in Nat \ {0} /\ Faulted \in Nat \ {0}
    /\ Limit \in Nat \ {0} /\ Kept \in Nat /\ Kept >= Limit
    /\ MaxRestarts \in Nat

VARIABLES
    \* the harness
    case, stage, sampled, outcomes,
    \* the reference service
    fault,      \* FAULT_STATE: the case whose fault is active
    metrics,    \* requests for orders the registry has counted
    log,        \* the tail of orders.jsonl
    inflight,   \* requests it has still to carry out, their client has given up
    restarts,
    \* the run
    session,    \* the MCP session and the server process behind it
    observed,   \* the last successful read of telemetry
    raised,     \* execute() has raised
    \* history, not in the code
    strays,     \* server processes no session owns
    cut,        \* a connect() or disconnect() was cut short
    leaked,     \* a case ended without its fault being reset
    disturbed   \* what came between since the harness last set or reset the fault:
                \* a restart of the service, or a late request for or against a fault

harness == <<case, stage, sampled, outcomes, leaked>>
service == <<fault, metrics, log, inflight, restarts, disturbed>>
run == <<session, observed, raised, strays, cut>>
allVars == <<vars, modelVars, harness, service, run>>

Case == 1 .. Cases
Nobody == 0
Request == [of : 0 .. Cases, fault : 0 .. Cases, late : BOOLEAN]
GivenUp == [kind : {"order", "injection", "reset"}, of : 0 .. Cases, fault : 0 .. Cases]
Line == [kind : {"injection", "order", "other"}, request : Request]
NoRequest == [of |-> Nobody, fault |-> Nobody, late |-> FALSE]
NothingObserved == [source |-> "none", case |-> Nobody, requests |-> {}]

BenchmarkInit ==
    /\ Init /\ ModelInit
    /\ case = 1 /\ stage = "next" /\ sampled = 0 /\ outcomes = <<>>
    /\ fault = Nobody /\ metrics = {} /\ log = <<>> /\ inflight = {} /\ restarts = 0
    /\ session = "none" /\ observed = NothingObserved /\ raised = FALSE
    /\ strays = 0 /\ cut = FALSE /\ leaked = FALSE /\ disturbed = {}

\* ------------------------------------------------------------------------
\* The reference service.

Lines(kind, request) ==
    LET all == Append(log, [kind |-> kind, request |-> request])
    IN  SubSeq(all, IF Len(all) > Kept THEN 2 ELSE 1, Len(all))

\* The middleware: a request is counted and logged when it is answered.
Record(kind, request) == log' = Lines(kind, request)

\* GET /orders is answered.
AnswerOrders(request) == metrics' = metrics \cup {request} /\ Record("order", request)

\* Variant: the new window begins with what the registry holds.
ResetMetricsNever == UNCHANGED metrics

ResetMetrics == metrics' = {}

\* POST /admin/fault for the fault of case c.
SetFault(c) == ResetMetrics /\ fault' = c /\ Record("injection", NoRequest)

\* Its parameters are unusable: the metrics have been reset before it is refused.
RefuseFault == SetFault(fault)

\* POST /admin/fault/reset.
ResetFault == fault' = Nobody /\ Record("other", NoRequest)

\* The client gives up a request that the service has still to carry out.
GiveUp(kind, c) == inflight' = inflight \cup {[kind |-> kind, of |-> case, fault |-> c]}

\* It is carried out at last, in whatever case.
ServeLate(given) ==
    /\ given \in inflight
    /\ inflight' = inflight \ {given}
    /\ \/ /\ given.kind = "order"
          /\ AnswerOrders([of |-> given.of, fault |-> given.fault, late |-> TRUE])
          /\ UNCHANGED <<fault, disturbed>>
       \/ /\ given.kind = "injection"
          /\ SetFault(given.fault)
          /\ disturbed' = disturbed \cup {"injection"}
       \/ /\ given.kind = "reset"
          /\ ResetFault
          /\ disturbed' = disturbed \cup {"reset"}
          /\ UNCHANGED metrics
    /\ UNCHANGED <<vars, modelVars, harness, run, restarts>>

\* The service starts again: the registry and the fault lived in its process.
ServiceRestarts == /\ restarts < MaxRestarts
                   /\ restarts' = restarts + 1
                   /\ fault' = Nobody
                   /\ metrics' = {}
                   /\ inflight' = {}
                   /\ disturbed' = disturbed \cup {"restart"}
                   /\ UNCHANGED <<vars, modelVars, harness, run, log>>

\* ------------------------------------------------------------------------
\* The harness before the run: _setup_and_reproduce().

\* run() records the outcome of a case and goes on.
Conclude(outcome) == /\ outcomes' = Append(outcomes, outcome)
                     /\ case' = case + 1
                     /\ stage' = "next"
                     /\ sampled' = 0

StartCase == /\ stage = "next"
             /\ stage' = IF case \in Case THEN "baseline" ELSE "done"
             /\ UNCHANGED <<vars, modelVars, service, run, case, sampled, outcomes, leaked>>

Wanted == IF stage = "baseline" THEN Baseline ELSE Faulted

SampleOrders ==
    /\ stage \in {"baseline", "faulted"}
    /\ sampled < Wanted
    /\ sampled' = sampled + 1
    /\ AnswerOrders([of |-> case, fault |-> fault, late |-> FALSE])
    /\ UNCHANGED <<vars, modelVars, run, case, stage, outcomes, leaked, fault, inflight,
                   restarts, disturbed>>

\* The request fails, or takes more than 10 s: the case is over.
SampleFails ==
    /\ stage \in {"baseline", "faulted"}
    /\ sampled < Wanted
    /\ GiveUp("order", fault) \/ UNCHANGED inflight
    /\ Conclude("error")
    /\ leaked' = (leaked \/ stage = "faulted")
    /\ UNCHANGED <<vars, modelVars, run, fault, metrics, log, restarts, disturbed>>

Inject == /\ stage = "baseline"
          /\ sampled = Baseline
          /\ SetFault(case)
          /\ disturbed' = {}
          /\ stage' = "faulted"
          /\ sampled' = 0
          /\ leaked' = FALSE
          /\ UNCHANGED <<vars, modelVars, run, case, outcomes, inflight, restarts>>

\* Carried out without an answer, refused, never received, or not carried out yet.
InjectFails ==
    /\ stage = "baseline"
    /\ sampled = Baseline
    /\ \/ SetFault(case) /\ leaked' = TRUE /\ UNCHANGED inflight
       \/ RefuseFault /\ UNCHANGED <<leaked, inflight>>
       \/ UNCHANGED <<fault, metrics, log, leaked, inflight>>
       \/ GiveUp("injection", case) /\ UNCHANGED <<fault, metrics, log, leaked>>
    /\ Conclude("error")
    /\ UNCHANGED <<vars, modelVars, run, restarts, disturbed>>

\* The incident and its run are created, and execute() is called.
CreateRun == /\ stage = "faulted"
             /\ sampled = Faulted
             /\ stage' = "connect"
             /\ raised' = FALSE
             /\ UNCHANGED <<vars, modelVars, service, session, observed, strays, cut, case,
                            sampled, outcomes, leaked>>

\* The database is not there: nothing resets the fault.
CreateRunFails == /\ stage = "faulted"
                  /\ sampled = Faulted
                  /\ Conclude("error")
                  /\ leaked' = TRUE
                  /\ UNCHANGED <<vars, modelVars, service, run>>

\* ------------------------------------------------------------------------
\* The session of the run with the MCP server.

GoTo(s) == stage' = s /\ UNCHANGED <<case, sampled, outcomes, leaked>>

\* The server process is started.
Spawn == /\ stage = "connect"
         /\ session = "none"
         /\ session' = "spawned"
         /\ UNCHANGED <<vars, modelVars, service, harness, observed, raised, strays, cut>>

\* ClientSession.initialize().
Initialize == /\ session = "spawned"
              /\ session' = "open"
              /\ GoTo("graph")
              /\ UNCHANGED <<vars, modelVars, service, observed, raised, strays, cut>>

\* connect() raises, or the run's timeout cancels it; it stands before the try, so
\* nothing stops a server that was started.
ConnectFails == /\ stage = "connect"
                /\ strays' = IF session = "spawned" THEN strays + 1 ELSE strays
                /\ cut' = (cut \/ session = "spawned")
                /\ session' = "none"
                /\ raised' \in BOOLEAN
                /\ GoTo("reset")
                /\ UNCHANGED <<vars, modelVars, service, observed>>

ServerDies == /\ session = "open"
              /\ session' = "dead"
              /\ UNCHANGED <<vars, modelVars, service, harness, observed, raised, strays, cut>>

\* Variant: the session is dropped with the adapter.
DisconnectNothing == strays' = strays + 1 /\ session' = "none" /\ UNCHANGED cut

\* The session and then the server are closed.
Disconnect == UNCHANGED <<strays, cut>> /\ session' = "none"

\* Closing the session raises, so that the server is not closed.
DisconnectFails == /\ strays' = IF session = "open" THEN strays + 1 ELSE strays
                   /\ cut' = TRUE
                   /\ session' = "none"

\* execute() raises if its own writes fail.
EndSession == /\ stage = "disconnect"
              /\ Disconnect \/ DisconnectFails
              /\ raised' \in BOOLEAN
              /\ GoTo("reset")
              /\ UNCHANGED <<vars, modelVars, service, observed>>

\* A server without a client reads the end of its input.
StrayEnds == /\ strays > 0
             /\ strays' = strays - 1
             /\ UNCHANGED <<vars, modelVars, service, harness, session, observed, raised, cut>>

\* ------------------------------------------------------------------------
\* The investigation.

\* What one call leaves behind in its local variables is gone with the next.
ForgetModelCall == /\ asking' = "idle" /\ round' = 1 /\ attempt' = 1
                   /\ answers' = 0 /\ lost' = 0 /\ verdict' = "none"

ForgetToolCall == /\ pc' = "done" /\ attempts' = 1 /\ tries' = 0 /\ category' = "none"
                  /\ before' = used'

\* The gateway and the provider are objects of one run.
DropObjects == used' = 0 /\ ForgetToolCall /\ ForgetModelCall /\ observed' = NothingObserved

Investigating == stage = "graph"
ToolTurn == Investigating /\ asking = "idle" /\ verdict \notin Errors /\ ForgetModelCall
ModelTurn == Investigating /\ pc = "done" /\ UNCHANGED used /\ ForgetToolCall

NoInjectionAfter(i) == \A j \in DOMAIN log : j > i => log[j].kind # "injection"

\* The lines from the last injection on, all if there is none, and of these the last.
Incident == {log[i] : i \in {i \in DOMAIN log : NoInjectionAfter(i) /\ i > Len(log) - Limit}}

OrdersLogged == {line.request : line \in {l \in Incident : l.kind = "order"}}

\* read_metrics(): GET /metrics/json is itself a request.
ReadMetrics == /\ observed' = [source |-> "metrics", case |-> case, requests |-> metrics]
               /\ Record("other", NoRequest)

\* read_logs(): without a line it is an error.
ReadLogs ==
    /\ log # <<>>
    /\ observed' = [source |-> "logs", case |-> case, requests |-> OrdersLogged]
    /\ UNCHANGED log

\* The tools that read the repository and the database.
ReadOther == UNCHANGED <<observed, log>>

ToolSucceeds == /\ ToolTurn
                /\ session = "open"
                /\ Succeed
                /\ ReadMetrics \/ ReadLogs \/ ReadOther
                /\ UNCHANGED <<harness, fault, metrics, inflight, restarts, disturbed, session,
                               raised, strays, cut>>

\* What call_tool() makes of an answer with an error, an answer that is no complete
\* JSON object, and a session without a server.
SessionErrors == IF session = "open" THEN {"validation", "timeout"}
                                     ELSE {"permanent", "timeout"}

ToolFails == /\ ToolTurn
             /\ FailTry
             /\ category' \in SessionErrors
             /\ UNCHANGED <<harness, service, run>>

\* The gateway on its own.
ToolWaits == /\ ToolTurn
             /\ Deny \/ Admit \/ Retry
             /\ UNCHANGED <<harness, service, run>>

ModelWorks == /\ ModelTurn
              /\ ModelNext
              /\ UNCHANGED <<harness, service, run>>

\* The graph ends, parks or raises.
GraphEnds == /\ Investigating
             /\ pc = "done"
             /\ asking = "idle"
             /\ DropObjects
             /\ GoTo("disconnect")
             /\ UNCHANGED <<service, session, raised, strays, cut>>

\* Variant: only tool calls are under the timeout.
RunTimesOutOfTools == /\ Investigating
                      /\ pc # "done"
                      /\ DropObjects
                      /\ GoTo("disconnect")
                      /\ UNCHANGED <<service, session, raised, strays, cut>>

\* wait_for() of execute() cancels whatever the graph is doing.
RunTimesOut == /\ Investigating
               /\ DropObjects
               /\ GoTo("disconnect")
               /\ UNCHANGED <<service, session, raised, strays, cut>>

\* ------------------------------------------------------------------------
\* The harness after the run.

\* Variant: no finally clause.
ResetAfterSuccess == IF raised THEN UNCHANGED <<fault, log>> ELSE ResetFault

\* finally: _reset_fault().
Reset == ResetFault

\* The rows of the run are read and scored, unless that fails too.
EndCase == \E scored \in BOOLEAN :
    /\ stage = "reset"
    /\ Reset
    /\ Conclude(IF scored /\ ~raised THEN "run" ELSE "error")
    /\ leaked' = FALSE
    /\ disturbed' = {}
    /\ UNCHANGED <<vars, modelVars, run, metrics, inflight, restarts>>

\* The reset fails, its answer is lost or it is carried out later: its error replaces
\* the outcome.
ResetFails ==
    /\ stage = "reset"
    /\ \/ Reset /\ UNCHANGED inflight
       \/ UNCHANGED <<fault, log, inflight>>
       \/ GiveUp("reset", Nobody) /\ UNCHANGED <<fault, log>>
    /\ Conclude("error")
    /\ leaked' = TRUE
    /\ UNCHANGED <<vars, modelVars, run, metrics, restarts, disturbed>>

\* ------------------------------------------------------------------------

SetUp == StartCase \/ SampleOrders \/ SampleFails \/ Inject \/ InjectFails
         \/ CreateRun \/ CreateRunFails

Connect == Spawn \/ Initialize \/ ConnectFails

Investigate == ToolSucceeds \/ ToolFails \/ ToolWaits \/ ModelWorks \/ GraphEnds

Conclusion == EndSession \/ EndCase \/ ResetFails

Service == ServiceRestarts \/ \E given \in inflight : ServeLate(given)

BenchmarkNext == SetUp \/ Connect \/ Investigate \/ RunTimesOut \/ Conclusion
                 \/ Service \/ ServerDies \/ StrayEnds

BenchmarkSpec == BenchmarkInit /\ [][BenchmarkNext]_allVars

\* Every request of the harness has a timeout and so has execute(); closing the
\* session has the library's.  The graph need not end by itself.
Fairness == WF_allVars(SetUp \/ Connect \/ Conclusion) /\ WF_allVars(RunTimesOut)

FairBenchmarkSpec == BenchmarkSpec /\ Fairness

\* ------------------------------------------------------------------------
\* Properties.

\* Types of the harness, the service, the session, the gateway and the provider.
BenchmarkTypeOK ==
    /\ TypeOK /\ ModelTypeOK
    /\ case \in 1 .. (Cases + 1)
    /\ stage \in {"next", "baseline", "faulted", "connect", "graph", "disconnect",
                  "reset", "done"}
    /\ sampled \in 0 .. (Baseline + Faulted)
    /\ outcomes \in Seq({"run", "error"}) /\ Len(outcomes) = case - 1
    /\ fault \in 0 .. Cases
    /\ metrics \subseteq Request
    /\ log \in Seq(Line) /\ Len(log) <= Kept
    /\ inflight \subseteq GivenUp
    /\ restarts \in 0 .. MaxRestarts
    /\ session \in {"none", "spawned", "open", "dead"}
    /\ observed \in [source : {"none", "metrics", "logs"}, case : 0 .. Cases,
                     requests : SUBSET Request]
    /\ strays \in 0 .. Cases
    /\ raised \in BOOLEAN /\ cut \in BOOLEAN /\ leaked \in BOOLEAN
    /\ disturbed \subseteq {"restart", "injection", "reset"}

OfCase(request, c) == request.late \/ (request.of = c /\ request.fault \in {Nobody, c})

PrecedesFault(request, c) == request.of = c /\ request.fault = Nobody
ShowsFault(request, c) == request.of = c /\ request.fault = c

\* What an investigation reads of metrics and logs was sent for its own case and served
\* under its own fault or none: nothing of an earlier case, and nothing of its own that was
\* measured under a fault that outlived its case, unless a request that was given up is
\* finished late or an injection that was given up is carried out late.  And while the
\* fault is the one the harness set, the metrics do show it.
ObservationsAreOfTheCase ==
    /\ "injection" \notin disturbed =>
           \A request \in observed.requests : OfCase(request, observed.case)
    /\ observed.source = "metrics" /\ disturbed = {} =>
           \E request \in observed.requests : ShowsFault(request, observed.case)

\* The samples taken before the fault and those taken under it are there to be compared
\* when the investigation begins, in the metrics or in the lines read_logs() returns: what
\* harness.py:242 and test_benchmark_reproduction.py:56 take them for.
BeforeAndAfterAreLeft ==
    Investigating /\ disturbed = {} =>
        /\ \E request \in metrics \cup OrdersLogged : PrecedesFault(request, case)
        /\ \E request \in metrics \cup OrdersLogged : ShowsFault(request, case)

\* A fault is active between two cases, or under a baseline, only if a case ended before
\* its try or could not reset it, or an injection that was given up came late; a case
\* that is reported with its run has left none.
FaultEndsWithCase ==
    stage \in {"next", "baseline", "done"} /\ fault # Nobody =>
        \/ "injection" \in disturbed
        \/ leaked /\ (stage = "next" => outcomes[case - 1] = "error")

\* A server process without a session exists only if connect() was interrupted after
\* it started the process or the session could not be closed; and while cases come
\* and go no session is ever left open.
ServersStopped == /\ strays > 0 => cut
                  /\ session # "none" => stage \in {"connect", "graph", "disconnect"}

Order == [s \in {"next", "baseline", "faulted", "connect", "graph", "disconnect", "reset",
                  "done"} |->
             CASE s = "next" -> 0 [] s = "baseline" -> 1 [] s = "faulted" -> 2
               [] s = "connect" -> 3 [] s = "graph" -> 4 [] s = "disconnect" -> 5
               [] s = "reset" -> 6 [] OTHER -> 7]

\* The harness never repeats anything: a step goes to a later stage of the case, takes one
\* more of its samples, or ends the case with one outcome, behind those of the cases before
\* it.  With its fairness this is why a benchmark ends.
HarnessAdvances ==
    [][\/ UNCHANGED <<case, stage, sampled, outcomes>>
       \/ /\ UNCHANGED <<case, outcomes>>
          /\ \/ Order[stage] < Order[stage']
             \/ stage' = stage /\ sampled' = sampled + 1 /\ sampled' <= Wanted
       \/ /\ stage' = "next" /\ case' = case + 1
          /\ \E outcome \in {"run", "error"} : outcomes' = Append(outcomes, outcome)]_allVars

\* However the cases fail, the benchmark ends with an outcome for each of them.
BenchmarkEnds == <>(stage = "done" /\ Len(outcomes) = Cases)

\* ------------------------------------------------------------------------
\* The inductive invariant.

HarnessInv ==
    /\ stage \notin {"next", "done"} => case \in Case
    /\ stage \in {"next", "done"} => sampled = 0
    /\ stage \in {"baseline", "faulted"} => sampled <= Wanted
    /\ stage \in {"connect", "graph", "disconnect", "reset"} => sampled = Faulted

Injected == stage \in {"faulted", "connect", "graph", "disconnect", "reset"}

LogOfCase(c) == \A i \in DOMAIN log :
                    log[i].kind = "order" /\ NoInjectionAfter(i) => OfCase(log[i].request, c)

\* From the injection on the registry and the log have requests of this case only, and
\* the first sample is in the registry, as long as nothing came between.
ServiceInv ==
    Injected =>
        /\ "injection" \notin disturbed =>
               /\ fault \in {Nobody, case}
               /\ \A request \in metrics : OfCase(request, case)
               /\ LogOfCase(case)
        /\ disturbed = {} =>
               /\ fault = case
               /\ sampled > 0 => \E request \in metrics : ShowsFault(request, case)

\* A case loses one server process at most.
SessionInv ==
    /\ strays <= IF stage = "reset" THEN case ELSE case - 1
    /\ session = "spawned" => stage = "connect"
    /\ session \in {"open", "dead"} => stage \in {"graph", "disconnect"}

ObservedInv == observed # NothingObserved => stage = "graph" /\ observed.case = case

BenchmarkInv ==
    /\ BenchmarkTypeOK /\ Inv /\ ModelInv
    /\ HarnessInv /\ ServiceInv /\ SessionInv /\ ObservedInv
    /\ ObservationsAreOfTheCase /\ FaultEndsWithCase /\ ServersStopped
=============================================================================
