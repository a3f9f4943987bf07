--------------------------- MODULE BenchmarkProofs ---------------------------
(***************************************************************************)
(* Proofs about Benchmark, for any number of cases, samples, log lines and  *)
(* restarts, and for any limits of the gateway and the provider.  The       *)
(* gateway and the provider only take steps of their own specifications or  *)
(* are forgotten, so their invariants carry over; the rest of the invariant *)
(* is proved action by action.                                              *)
(***************************************************************************)
EXTENDS Benchmark, CallProofs, SequenceTheorems

\* ------------------------------------------------------------------------
\* The gateway and the provider.

\* Whatever happens, the gateway takes a step of its loop, or is forgotten.
LEMMA GatewaySteps ==
    ASSUME BenchmarkNext
    PROVE  [Next]_vars \/ (ForgetToolCall /\ used' \in {0, used})
<1> USE DEF harness, service, run
<1>1. CASE SetUp \/ Connect \/ Conclusion \/ Service \/ ServerDies \/ StrayEnds
  BY <1>1 DEF SetUp, StartCase, SampleOrders, SampleFails, Inject, InjectFails, CreateRun,
     CreateRunFails, Connect, Spawn, Initialize, ConnectFails, Conclusion, EndSession, EndCase,
     ResetFails, Service, ServiceRestarts, ServeLate, ServerDies, StrayEnds
<1>2. CASE Investigate
  BY <1>2 DEF Investigate, ToolSucceeds, ToolFails, ToolWaits, ModelWorks, ModelTurn,
     GraphEnds,
     DropObjects, Next
<1>3. CASE RunTimesOut
  BY <1>3 DEF RunTimesOut, DropObjects
<1>4. QED
  BY <1>1, <1>2, <1>3 DEF BenchmarkNext

\* The same of the provider.
LEMMA ModelSteps == ASSUME BenchmarkNext PROVE [ModelNext]_modelVars \/ ForgetModelCall
<1> USE DEF harness, service, run
<1>1. CASE SetUp \/ Connect \/ Conclusion \/ Service \/ ServerDies \/ StrayEnds
  BY <1>1 DEF SetUp, StartCase, SampleOrders, SampleFails, Inject, InjectFails, CreateRun,
     CreateRunFails, Connect, Spawn, Initialize, ConnectFails, Conclusion, EndSession, EndCase,
     ResetFails, Service, ServiceRestarts, ServeLate, ServerDies, StrayEnds
<1>2. CASE Investigate
  BY <1>2 DEF Investigate, ToolSucceeds, ToolFails, ToolWaits, ToolTurn, ModelWorks, GraphEnds,
     DropObjects
<1>3. CASE RunTimesOut
  BY <1>3 DEF RunTimesOut, DropObjects
<1>4. QED
  BY <1>1, <1>2, <1>3 DEF BenchmarkNext

\* An object that was just made, or whose last call is forgotten, satisfies its invariant.
LEMMA ObjectsKept == ASSUME Inv, ModelInv, BenchmarkNext PROVE Inv' /\ ModelInv'
<1>1. ASSUME ForgetToolCall, used' \in {0, used} PROVE Inv'
  <2>1. used \in 0 .. MaxToolCalls /\ MaxToolCalls \in Nat /\ MaxTries \in Nat \ {0}
    BY BudgetAssumption, TriesAssumption DEF Inv, TypeOK
  <2>2. used' \in 0 .. MaxToolCalls
    BY <1>1, <2>1
  <2>3. /\ pc' = "done" /\ attempts' = 1 /\ tries' = 0 /\ category' = "none"
        /\ before' = used'
    BY <1>1 DEF ForgetToolCall
  <2>4. TypeOK'
    BY <2>1, <2>2, <2>3 DEF TypeOK
  <2>5. \A n \in Nat : n <= n /\ n = n + 0
    OBVIOUS
  <2>6. used' \in Nat
    BY <2>1, <2>2
  <2>7. before' <= used' /\ used' = before' + tries'
    BY <2>3, <2>5, <2>6
  <2>8. QED
    BY <2>3, <2>4, <2>7 DEF Inv
<1>2. ASSUME ForgetModelCall PROVE ModelInv'
  <2>1. 0 <= Rounds * RetryAttempts /\ Rounds \in Nat \ {0} /\ RetryAttempts \in Nat \ {0}
    BY ProviderAssumption, RoundsCost
  <2>2. QED
    BY <1>2, <2>1 DEF ForgetModelCall, ModelInv, ModelTypeOK, ModelCallKeepsContract
<1>3. QED
  BY <1>1, <1>2, GatewaySteps, ModelSteps, NextInv, ModelNextInv

\* ------------------------------------------------------------------------
\* The log of the service.

\* A line more at the end, and maybe one fewer at the front.
LEMMA LinesShape ==
    ASSUME log \in Seq(Line), Len(log) <= Kept, NEW line \in Line,
           log' = Lines(line.kind, line.request)
    PROVE  /\ log' \in Seq(Line) /\ Len(log') \in 1 .. Kept /\ log'[Len(log')] = line
           /\ \E d \in {0, 1} : /\ Len(log') = Len(log) + 1 - d
                                /\ \A i \in 1 .. (Len(log') - 1) :
                                       i + d \in DOMAIN log /\ log'[i] = log[i + d]
<1> DEFINE all == Append(log, line)
           d == IF Len(all) > Kept THEN 1 ELSE 0
<1>1. [kind |-> line.kind, request |-> line.request] = line
  BY DEF Line
<1>2. log' = SubSeq(all, d + 1, Len(all))
  BY <1>1 DEF Lines
<1>3. /\ all \in Seq(Line) /\ Len(all) = Len(log) + 1 /\ Len(log) \in Nat /\ d \in {0, 1}
      /\ all[Len(all)] = line /\ \A i \in 1 .. Len(log) : all[i] = log[i]
      /\ Kept \in Nat \ {0} /\ DOMAIN log = 1 .. Len(log)
      /\ d = IF Len(all) > Kept THEN 1 ELSE 0
  BY BenchmarkAssumption
<1>4. HIDE DEF all, d
<1>5. /\ log' \in Seq(Line) /\ Len(log') = Len(all) - d
      /\ \A i \in 1 .. Len(log') : log'[i] = all[i + d]
  <2> DEFINE n == Len(all)
  <2>1. n \in Int /\ d + 1 \in Int /\ (d + 1 <= n => n - (d + 1) + 1 = n - d)
        /\ (d + 1 > n => n - d = 0) /\ n - (d + 1) + 1 = n - d
    BY <1>3
  <2>2. \A i \in (d + 1) .. n : all[i] \in Line
    BY <1>3
  <2>3. /\ log' \in Seq(Line)
        /\ Len(log') = IF d + 1 <= n THEN n - (d + 1) + 1 ELSE 0
        /\ \A i \in 1 .. (n - (d + 1) + 1) : log'[i] = all[(d + 1) + i - 1]
    <3> HIDE DEF n
    <3>1. log' = SubSeq(all, d + 1, n)
      BY <1>2 DEF n
    <3>2. QED
      BY <2>1, <2>2, <3>1, SubSeqProperties
  <2>4. Len(log') = n - d
    BY <2>1, <2>3
  <2>5. ASSUME NEW i \in 1 .. Len(log') PROVE log'[i] = all[i + d]
    <3>1. (d + 1) + i - 1 = i + d /\ i \in 1 .. (n - (d + 1) + 1)
      BY <1>3, <2>1, <2>4
    <3>2. log'[i] = all[(d + 1) + i - 1]
      BY <2>3, <3>1
    <3>3. QED
      BY <3>1, <3>2
  <2>6. QED
    BY <2>3, <2>4, <2>5
<1>6. Len(log') \in 1 .. Kept /\ Len(log') + d = Len(all)
  BY <1>3, <1>5
<1>7. log'[Len(log')] = line
  BY <1>3, <1>5, <1>6
<1>8. ASSUME NEW i \in 1 .. (Len(log') - 1)
      PROVE  i + d \in DOMAIN log /\ log'[i] = log[i + d]
  <2>1. i \in 1 .. Len(log') /\ i + d \in 1 .. Len(log)
    BY <1>3, <1>6
  <2>2. QED
    BY <1>3, <1>5, <2>1
<1>9. QED
  <2>1. Len(log') = Len(log) + 1 - d
    BY <1>3, <1>5
  <2>2. QED
    BY <1>3, <1>5, <1>6, <1>7, <1>8, <2>1

\* A line that belongs to the case keeps the log one of the case; an injection makes it one.
LEMMA LogKept ==
    ASSUME log \in Seq(Line), Len(log) <= Kept, NEW line \in Line,
           log' = Lines(line.kind, line.request), case' = case,
           \/ line.kind = "injection"
           \/ LogOfCase(case) /\ (line.kind = "order" => OfCase(line.request, case))
    PROVE  LogOfCase(case)'
<1>1. PICK d \in {0, 1} : /\ Len(log') = Len(log) + 1 - d
                          /\ \A i \in 1 .. (Len(log') - 1) :
                                 i + d \in DOMAIN log /\ log'[i] = log[i + d]
  BY LinesShape
<1>2. log' \in Seq(Line) /\ log'[Len(log')] = line /\ Len(log') \in Nat \ {0}
  BY LinesShape, BenchmarkAssumption
<1>3. SUFFICES ASSUME NEW i \in DOMAIN log', log'[i].kind = "order", NoInjectionAfter(i)'
               PROVE  OfCase(log[i].request, case)'
  BY DEF LogOfCase
<1>4. i \in 1 .. Len(log') /\ Len(log') \in DOMAIN log' /\ DOMAIN log = 1 .. Len(log)
      /\ Len(log) \in Nat
  BY <1>2
<1> \A j \in DOMAIN log' : j > i => log'[j].kind # "injection"
  BY <1>3 DEF NoInjectionAfter
<1>5. CASE i = Len(log')
  BY <1>2, <1>4, <1>3, <1>5 DEF OfCase
<1>6. CASE i # Len(log')
  <2>1. i \in 1 .. (Len(log') - 1) /\ Len(log') > i
    BY <1>2, <1>4, <1>6
  <2>2. line.kind # "injection"
    BY <1>2, <1>3, <1>4, <2>1
  <2>3. i + d \in DOMAIN log /\ log'[i] = log[i + d]
    BY <1>1, <2>1
  <2>4. ASSUME NEW j \in DOMAIN log, j > i + d PROVE log[j].kind # "injection"
    <3>1. j - d \in 1 .. (Len(log') - 1) /\ j - d > i /\ (j - d) + d = j
      BY <1>1, <1>4, <2>4
    <3>2. log'[j - d] = log[j] /\ j - d \in DOMAIN log'
      <4>1. log'[j - d] = log[(j - d) + d]
        BY <1>1, <3>1
      <4>2. j - d \in DOMAIN log'
        BY <1>2, <3>1
      <4>3. QED
        BY <3>1, <4>1, <4>2
    <3>3. QED
      BY <3>1, <3>2
  <2>5. OfCase(log[i + d].request, case)
    BY <1>3, <2>2, <2>3, <2>4 DEF LogOfCase, NoInjectionAfter
  <2>6. QED
    BY <2>3, <2>5 DEF OfCase
<1>7. QED
  BY <1>5, <1>6

\* The same with the kind and the request of the line.
LEMMA RecordKept ==
    ASSUME BenchmarkTypeOK, NEW k \in {"injection", "order", "other"}, NEW r \in Request,
           Record(k, r), case' = case
    PROVE  /\ log' \in Seq(Line) /\ Len(log') <= Kept
           /\ k = "injection" \/ (LogOfCase(case) /\ (k = "order" => OfCase(r, case)))
                  => LogOfCase(case)'
<1> DEFINE line == [kind |-> k, request |-> r]
<1>1. line \in Line /\ line.kind = k /\ line.request = r
  BY DEF Line
<1>2. log \in Seq(Line) /\ Len(log) <= Kept
  BY DEF BenchmarkTypeOK
<1>3. log' = Lines(line.kind, line.request)
  BY <1>1 DEF Record
<1> HIDE DEF line
<1>4. log' \in Seq(Line) /\ Len(log') <= Kept
  BY <1>1, <1>2, <1>3, LinesShape, BenchmarkAssumption
<1>5. QED
  BY <1>1, <1>2, <1>3, <1>4, LogKept

\* A line more leaves the log well-formed, also when the case ends with it.
LEMMA RecordShape ==
    ASSUME BenchmarkTypeOK, NEW k \in {"injection", "order", "other"}, NEW r \in Request,
           Record(k, r)
    PROVE  log' \in Seq(Line) /\ Len(log') <= Kept
<1> DEFINE line == [kind |-> k, request |-> r]
<1>1. line \in Line /\ line.kind = k /\ line.request = r
  BY DEF Line
<1>2. log \in Seq(Line) /\ Len(log) <= Kept
  BY DEF BenchmarkTypeOK
<1>3. log' = Lines(line.kind, line.request)
  BY <1>1 DEF Record
<1> HIDE DEF line
<1>4. QED
  BY <1>1, <1>2, <1>3, LinesShape, BenchmarkAssumption

\* A step that writes no line keeps the log one of the case.
LEMMA LogUnchanged == ASSUME LogOfCase(case), UNCHANGED <<log, case>> PROVE LogOfCase(case)'
  BY DEF LogOfCase, NoInjectionAfter, OfCase

\* The outcome of a case is the last one recorded.
LEMMA Concluded ==
    ASSUME BenchmarkTypeOK, case \in Case, NEW o \in {"run", "error"}, Conclude(o)
    PROVE  /\ outcomes' \in Seq({"run", "error"}) /\ Len(outcomes') = case' - 1
           /\ outcomes'[case' - 1] = o /\ case' \in 1 .. (Cases + 1)
           /\ case' = case + 1 /\ stage' = "next" /\ sampled' = 0
<1>1. /\ outcomes \in Seq({"run", "error"}) /\ Len(outcomes) = case - 1
      /\ outcomes' = Append(outcomes, o) /\ case' = case + 1 /\ case \in 1 .. Cases
      /\ Cases \in Nat /\ case' - 1 = Len(outcomes) + 1
  BY BenchmarkAssumption DEF BenchmarkTypeOK, Conclude, Case
<1>2. Append(outcomes, o)[Len(outcomes) + 1] = o
  BY <1>1
<1>3. QED
  BY <1>1, <1>2 DEF Conclude

\* NoRequest and the requests of the harness.
LEMMA RequestShape ==
    /\ NoRequest \in Request
    /\ \A c, f \in 0 .. Cases, l \in BOOLEAN :
           /\ [of |-> c, fault |-> f, late |-> l] \in Request
           /\ [of |-> c, fault |-> f, late |-> l].of = c
           /\ [of |-> c, fault |-> f, late |-> l].fault = f
           /\ [of |-> c, fault |-> f, late |-> l].late = l
  BY BenchmarkAssumption DEF NoRequest, Request, Nobody

\* A request its client gives up is one the service may still carry out.
LEMMA GivenUpShape ==
    ASSUME inflight \subseteq GivenUp, NEW k \in {"order", "injection", "reset"},
           NEW c \in 0 .. Cases, case \in 0 .. Cases, GiveUp(k, c)
    PROVE  inflight' \subseteq GivenUp
  BY DEF GivenUp, GiveUp

\* The next case begins, or the benchmark is over.
LEMMA StartCaseInv == ASSUME BenchmarkInv, Inv', ModelInv', StartCase PROVE BenchmarkInv'
<1> USE DEF StartCase, harness, service, run
<1> BenchmarkTypeOK /\ HarnessInv /\ SessionInv /\ restarts \in Nat /\ Cases \in Nat \ {0}
  BY BenchmarkAssumption DEF BenchmarkInv, BenchmarkTypeOK
<1> TypeOK' /\ ModelTypeOK'
  BY DEF Inv, ModelInv
<1>1. Injected' /\ "injection" \notin disturbed' => LogOfCase(case)'
  BY LogUnchanged, BenchmarkAssumption DEF Injected
<1>10. BenchmarkTypeOK'
  BY <1>1, BenchmarkAssumption DEF BenchmarkTypeOK
<1>11. HarnessInv'
  BY <1>1, BenchmarkAssumption DEF HarnessInv, Wanted
<1>12. ServiceInv'
  BY <1>1, BenchmarkAssumption DEF ServiceInv, Injected
<1>13. SessionInv'
  BY <1>1, BenchmarkAssumption DEF SessionInv
<1>14. ObservedInv'
  BY <1>1, BenchmarkAssumption DEF BenchmarkInv, ObservedInv
<1>15. ObservationsAreOfTheCase'
  BY <1>1, BenchmarkAssumption DEF BenchmarkInv, ObservationsAreOfTheCase, OfCase, ShowsFault
<1>16. FaultEndsWithCase'
  BY <1>1, BenchmarkAssumption DEF BenchmarkInv, FaultEndsWithCase
<1>17. ServersStopped'
  BY <1>1, BenchmarkAssumption DEF BenchmarkInv, ServersStopped
<1>20. QED
  BY <1>10, <1>11, <1>12, <1>13, <1>14, <1>15, <1>16, <1>17 DEF BenchmarkInv

\* A sample is recorded under the fault that is active.
LEMMA SampleOrdersInv == ASSUME BenchmarkInv, Inv', ModelInv', SampleOrders PROVE BenchmarkInv'
<1> USE DEF SampleOrders, AnswerOrders, harness, service, run
<1> BenchmarkTypeOK /\ HarnessInv /\ SessionInv /\ restarts \in Nat /\ Cases \in Nat \ {0}
  BY BenchmarkAssumption DEF BenchmarkInv, BenchmarkTypeOK
<1> TypeOK' /\ ModelTypeOK'
  BY DEF Inv, ModelInv
<1> DEFINE request == [of |-> case, fault |-> fault, late |-> FALSE]
<1>0. /\ fault \in 0 .. Cases /\ case \in 0 .. Cases
      /\ request \in Request /\ request.of = case /\ request.fault = fault
      /\ Record("order", request) /\ metrics' = metrics \cup {request}
  <2>1. /\ stage \in {"baseline", "faulted"} /\ fault \in 0 .. Cases
        /\ metrics' = metrics \cup {request} /\ Record("order", request)
    BY DEF BenchmarkTypeOK
  <2>2. case \in 0 .. Cases
    BY <2>1 DEF HarnessInv, Case
  <2>3. QED
    BY <2>1, <2>2, RequestShape
<1> HIDE DEF request
<1>2. Injected /\ "injection" \notin disturbed => OfCase(request, case)
  BY <1>0 DEF BenchmarkInv, ServiceInv, OfCase
<1>3. Injected /\ disturbed = {} => ShowsFault(request, case)
  BY <1>0 DEF BenchmarkInv, ServiceInv, ShowsFault
<1>1. /\ log' \in Seq(Line) /\ Len(log') <= Kept
      /\ (Injected' /\ "injection" \notin disturbed' => LogOfCase(case)')
  BY <1>0, <1>2, RecordKept DEF BenchmarkInv, ServiceInv, Injected
<1>5. sampled' \in 0 .. (Baseline + Faulted)
  BY BenchmarkAssumption DEF BenchmarkTypeOK, Wanted
<1>6. fault' \in 0 .. Cases /\ metrics' \subseteq Request
  BY <1>0, BenchmarkAssumption, RequestShape DEF BenchmarkTypeOK
<1>10. BenchmarkTypeOK'
  BY <1>0, <1>1, <1>2, <1>5, <1>6, BenchmarkAssumption DEF BenchmarkTypeOK
<1>11. HarnessInv'
  BY <1>0, <1>1, <1>2, <1>5, <1>6, BenchmarkAssumption DEF BenchmarkTypeOK, HarnessInv, Wanted
<1>12. ServiceInv'
  BY <1>0, <1>1, <1>2, <1>3, BenchmarkAssumption DEF BenchmarkInv, ServiceInv, Injected,
     OfCase, ShowsFault
<1>13. SessionInv'
  BY <1>0, <1>1, <1>2, <1>5, <1>6, BenchmarkAssumption DEF SessionInv
<1>14. ObservedInv'
  BY <1>0, <1>1, <1>2, <1>5, <1>6, BenchmarkAssumption DEF BenchmarkInv, ObservedInv
<1>15. ObservationsAreOfTheCase'
  BY <1>0, <1>1, <1>2, <1>5, <1>6, BenchmarkAssumption DEF BenchmarkInv,
     ObservationsAreOfTheCase, OfCase, ShowsFault
<1>16. FaultEndsWithCase'
  BY <1>0, <1>1, <1>2, <1>5, <1>6, BenchmarkAssumption DEF BenchmarkInv, FaultEndsWithCase
<1>17. ServersStopped'
  BY <1>0, <1>1, <1>2, <1>5, <1>6, BenchmarkAssumption DEF BenchmarkInv, ServersStopped
<1>20. QED
  BY <1>10, <1>11, <1>12, <1>13, <1>14, <1>15, <1>16, <1>17 DEF BenchmarkInv

LEMMA SampleFailsInv == ASSUME BenchmarkInv, Inv', ModelInv', SampleFails PROVE BenchmarkInv'
<1> USE DEF SampleFails, harness, service, run
<1> BenchmarkTypeOK /\ HarnessInv /\ SessionInv /\ restarts \in Nat /\ Cases \in Nat \ {0}
  BY BenchmarkAssumption DEF BenchmarkInv, BenchmarkTypeOK
<1> TypeOK' /\ ModelTypeOK'
  BY DEF Inv, ModelInv
<1>0. case \in Case
  BY DEF HarnessInv
<1>1. /\ outcomes' \in Seq({"run", "error"}) /\ Len(outcomes') = case' - 1
      /\ outcomes'[case' - 1] = "error" /\ case' \in 1 .. (Cases + 1)
      /\ case' = case + 1 /\ stage' = "next" /\ sampled' = 0
  BY <1>0, Concluded
<1>2. inflight' \subseteq GivenUp
  BY <1>0, GivenUpShape DEF BenchmarkTypeOK, Case
<1>10. BenchmarkTypeOK'
  BY <1>0, <1>1, <1>2, BenchmarkAssumption DEF BenchmarkTypeOK
<1>11. HarnessInv'
  BY <1>0, <1>1, BenchmarkAssumption DEF HarnessInv
<1>12. ServiceInv'
  BY <1>0, <1>1, BenchmarkAssumption DEF ServiceInv, Injected
<1>13. SessionInv'
  BY <1>0, <1>1, BenchmarkAssumption DEF BenchmarkTypeOK, SessionInv
<1>14. ObservedInv'
  BY <1>0, <1>1, BenchmarkAssumption DEF BenchmarkInv, ObservedInv
<1>15. ObservationsAreOfTheCase'
  BY <1>0, <1>1, BenchmarkAssumption DEF BenchmarkInv, ObservationsAreOfTheCase, OfCase,
     ShowsFault
<1>16. FaultEndsWithCase'
  BY <1>0, <1>1, BenchmarkAssumption DEF BenchmarkInv, FaultEndsWithCase
<1>17. ServersStopped'
  BY <1>0, <1>1, BenchmarkAssumption DEF BenchmarkInv, ServersStopped
<1>20. QED
  BY <1>10, <1>11, <1>12, <1>13, <1>14, <1>15, <1>16, <1>17 DEF BenchmarkInv

\* The injection begins the window of the case.
LEMMA InjectInv == ASSUME BenchmarkInv, Inv', ModelInv', Inject PROVE BenchmarkInv'
<1> USE DEF Inject, SetFault, ResetMetrics, harness, service, run
<1> BenchmarkTypeOK /\ HarnessInv /\ SessionInv /\ restarts \in Nat /\ Cases \in Nat \ {0}
  BY BenchmarkAssumption DEF BenchmarkInv, BenchmarkTypeOK
<1> TypeOK' /\ ModelTypeOK'
  BY DEF Inv, ModelInv
<1>1. log' \in Seq(Line) /\ Len(log') <= Kept /\ LogOfCase(case)'
  BY RecordKept, RequestShape
<1>5. sampled' \in 0 .. (Baseline + Faulted)
  BY BenchmarkAssumption
<1>6. fault' = case /\ fault' \in 0 .. Cases /\ metrics' \subseteq Request
  BY BenchmarkAssumption, RequestShape DEF HarnessInv, Case
<1>10. BenchmarkTypeOK'
  BY <1>1, <1>5, <1>6, BenchmarkAssumption DEF BenchmarkTypeOK
<1>11. HarnessInv'
  BY <1>1, <1>5, <1>6, BenchmarkAssumption DEF HarnessInv, Wanted
<1>12. ServiceInv'
  BY <1>1, <1>5, <1>6, BenchmarkAssumption DEF ServiceInv
<1>13. SessionInv'
  BY <1>1, <1>5, <1>6, BenchmarkAssumption DEF SessionInv
<1>14. ObservedInv'
  BY <1>1, <1>5, <1>6, BenchmarkAssumption DEF BenchmarkInv, ObservedInv
<1>15. ObservationsAreOfTheCase'
  <2>1. observed' = NothingObserved
    BY DEF BenchmarkInv, ObservedInv
  <2>2. QED
    BY <2>1 DEF ObservationsAreOfTheCase, NothingObserved
<1>16. FaultEndsWithCase'
  BY <1>1, <1>5, <1>6, BenchmarkAssumption DEF FaultEndsWithCase
<1>17. ServersStopped'
  BY <1>1, <1>5, <1>6, BenchmarkAssumption DEF BenchmarkInv, ServersStopped
<1>20. QED
  BY <1>10, <1>11, <1>12, <1>13, <1>14, <1>15, <1>16, <1>17 DEF BenchmarkInv

LEMMA InjectFailsInv == ASSUME BenchmarkInv, Inv', ModelInv', InjectFails PROVE BenchmarkInv'
<1> USE DEF InjectFails, SetFault, RefuseFault, ResetMetrics, harness, service, run
<1> BenchmarkTypeOK /\ HarnessInv /\ SessionInv /\ restarts \in Nat /\ Cases \in Nat \ {0}
  BY BenchmarkAssumption DEF BenchmarkInv, BenchmarkTypeOK
<1> TypeOK' /\ ModelTypeOK'
  BY DEF Inv, ModelInv
<1>0. case \in Case
  BY DEF HarnessInv
<1>1. Conclude("error")
  OBVIOUS
<1>2. /\ outcomes' \in Seq({"run", "error"}) /\ Len(outcomes') = case' - 1
      /\ outcomes'[case' - 1] = "error" /\ case' \in 1 .. (Cases + 1)
      /\ case' = case + 1 /\ stage' = "next" /\ sampled' = 0
  BY <1>0, <1>1, Concluded
<1>3. /\ log' \in Seq(Line) /\ Len(log') <= Kept
      /\ fault' \in {fault, case} /\ (fault' # fault => leaked') /\ (leaked => leaked')
      /\ leaked' \in BOOLEAN /\ metrics' \subseteq Request
  <2>1. CASE SetFault(case) /\ leaked' = TRUE
    BY <2>1, RecordShape, RequestShape
  <2>2. CASE RefuseFault /\ UNCHANGED leaked
    BY <2>2, RecordShape, RequestShape DEF BenchmarkTypeOK
  <2>3. CASE UNCHANGED <<fault, metrics, log, leaked>>
    BY <2>3 DEF BenchmarkTypeOK
  <2>4. QED
    BY <2>1, <2>2, <2>3
<1>4. inflight' \subseteq GivenUp
  BY <1>0, GivenUpShape DEF BenchmarkTypeOK, Case
<1>5. fault' \in 0 .. Cases /\ UNCHANGED <<run, restarts, disturbed>>
  BY <1>0, <1>3 DEF BenchmarkTypeOK, Case
<1>10. BenchmarkTypeOK'
  BY <1>2, <1>3, <1>4, <1>5, BenchmarkAssumption DEF BenchmarkTypeOK
<1>11. HarnessInv'
  BY <1>0, <1>1, <1>2, <1>3, BenchmarkAssumption DEF HarnessInv
<1>12. ServiceInv'
  BY <1>0, <1>1, <1>2, <1>3, BenchmarkAssumption DEF ServiceInv, Injected
<1>13. SessionInv'
  BY <1>0, <1>1, <1>2, <1>3, BenchmarkAssumption DEF BenchmarkTypeOK, SessionInv
<1>14. ObservedInv'
  BY <1>0, <1>1, <1>2, <1>3, BenchmarkAssumption DEF BenchmarkInv, ObservedInv
<1>15. ObservationsAreOfTheCase'
  BY <1>0, <1>1, <1>2, <1>3, BenchmarkAssumption DEF BenchmarkInv, ObservationsAreOfTheCase,
     OfCase, ShowsFault
<1>16. FaultEndsWithCase'
  BY <1>0, <1>1, <1>2, <1>3, BenchmarkAssumption DEF BenchmarkInv, FaultEndsWithCase
<1>17. ServersStopped'
  BY <1>0, <1>1, <1>2, <1>3, BenchmarkAssumption DEF BenchmarkInv, ServersStopped
<1>20. QED
  BY <1>10, <1>11, <1>12, <1>13, <1>14, <1>15, <1>16, <1>17 DEF BenchmarkInv

LEMMA CreateRunInv == ASSUME BenchmarkInv, Inv', ModelInv', CreateRun PROVE BenchmarkInv'
<1> USE DEF CreateRun, harness, service, run
<1> BenchmarkTypeOK /\ HarnessInv /\ SessionInv /\ restarts \in Nat /\ Cases \in Nat \ {0}
  BY BenchmarkAssumption DEF BenchmarkInv, BenchmarkTypeOK
<1> TypeOK' /\ ModelTypeOK'
  BY DEF Inv, ModelInv
<1>1. Injected' /\ "injection" \notin disturbed' => LogOfCase(case)'
  BY LogUnchanged, BenchmarkAssumption DEF BenchmarkInv, ServiceInv, Injected
<1>10. BenchmarkTypeOK'
  BY <1>1, BenchmarkAssumption DEF BenchmarkTypeOK
<1>11. HarnessInv'
  BY <1>1, BenchmarkAssumption DEF HarnessInv
<1>12. ServiceInv'
  BY <1>1, BenchmarkAssumption DEF BenchmarkInv, ServiceInv, Injected, OfCase, ShowsFault
<1>13. SessionInv'
  BY <1>1, BenchmarkAssumption DEF SessionInv
<1>14. ObservedInv'
  BY <1>1, BenchmarkAssumption DEF BenchmarkInv, ObservedInv
<1>15. ObservationsAreOfTheCase'
  BY <1>1, BenchmarkAssumption DEF BenchmarkInv, ObservationsAreOfTheCase, OfCase, ShowsFault
<1>16. FaultEndsWithCase'
  BY <1>1, BenchmarkAssumption DEF FaultEndsWithCase
<1>17. ServersStopped'
  BY <1>1, BenchmarkAssumption DEF BenchmarkInv, ServersStopped
<1>20. QED
  BY <1>10, <1>11, <1>12, <1>13, <1>14, <1>15, <1>16, <1>17 DEF BenchmarkInv

LEMMA CreateRunFailsInv == ASSUME BenchmarkInv, Inv', ModelInv', CreateRunFails PROVE BenchmarkInv'
<1> USE DEF CreateRunFails, harness, service, run
<1> BenchmarkTypeOK /\ HarnessInv /\ SessionInv /\ restarts \in Nat /\ Cases \in Nat \ {0}
  BY BenchmarkAssumption DEF BenchmarkInv, BenchmarkTypeOK
<1> TypeOK' /\ ModelTypeOK'
  BY DEF Inv, ModelInv
<1>0. case \in Case
  BY DEF HarnessInv
<1>1. /\ outcomes' \in Seq({"run", "error"}) /\ Len(outcomes') = case' - 1
      /\ outcomes'[case' - 1] = "error" /\ case' \in 1 .. (Cases + 1)
      /\ case' = case + 1 /\ stage' = "next" /\ sampled' = 0
  BY <1>0, Concluded
<1>10. BenchmarkTypeOK'
  BY <1>0, <1>1, BenchmarkAssumption DEF BenchmarkTypeOK
<1>11. HarnessInv'
  BY <1>0, <1>1, BenchmarkAssumption DEF HarnessInv
<1>12. ServiceInv'
  BY <1>0, <1>1, BenchmarkAssumption DEF ServiceInv, Injected
<1>13. SessionInv'
  BY <1>0, <1>1, BenchmarkAssumption DEF BenchmarkTypeOK, SessionInv
<1>14. ObservedInv'
  BY <1>0, <1>1, BenchmarkAssumption DEF BenchmarkInv, ObservedInv
<1>15. ObservationsAreOfTheCase'
  BY <1>0, <1>1, BenchmarkAssumption DEF BenchmarkInv, ObservationsAreOfTheCase, OfCase,
     ShowsFault
<1>16. FaultEndsWithCase'
  BY <1>0, <1>1, BenchmarkAssumption DEF FaultEndsWithCase
<1>17. ServersStopped'
  BY <1>0, <1>1, BenchmarkAssumption DEF BenchmarkInv, ServersStopped
<1>20. QED
  BY <1>10, <1>11, <1>12, <1>13, <1>14, <1>15, <1>16, <1>17 DEF BenchmarkInv

LEMMA SpawnInv == ASSUME BenchmarkInv, Inv', ModelInv', Spawn PROVE BenchmarkInv'
<1> USE DEF Spawn, harness, service, run
<1> BenchmarkTypeOK /\ HarnessInv /\ SessionInv /\ restarts \in Nat /\ Cases \in Nat \ {0}
  BY BenchmarkAssumption DEF BenchmarkInv, BenchmarkTypeOK
<1> TypeOK' /\ ModelTypeOK'
  BY DEF Inv, ModelInv
<1>1. Injected' /\ "injection" \notin disturbed' => LogOfCase(case)'
  BY LogUnchanged, BenchmarkAssumption DEF BenchmarkInv, ServiceInv, Injected
<1>10. BenchmarkTypeOK'
  BY <1>1, BenchmarkAssumption DEF BenchmarkTypeOK
<1>11. HarnessInv'
  BY <1>1, BenchmarkAssumption DEF HarnessInv
<1>12. ServiceInv'
  BY <1>1, BenchmarkAssumption DEF BenchmarkInv, ServiceInv, Injected, OfCase, ShowsFault
<1>13. SessionInv'
  BY <1>1, BenchmarkAssumption DEF SessionInv
<1>14. ObservedInv'
  BY <1>1, BenchmarkAssumption DEF BenchmarkInv, ObservedInv
<1>15. ObservationsAreOfTheCase'
  BY <1>1, BenchmarkAssumption DEF BenchmarkInv, ObservationsAreOfTheCase, OfCase, ShowsFault
<1>16. FaultEndsWithCase'
  BY <1>1, BenchmarkAssumption DEF FaultEndsWithCase
<1>17. ServersStopped'
  BY <1>1, BenchmarkAssumption DEF BenchmarkInv, ServersStopped
<1>20. QED
  BY <1>10, <1>11, <1>12, <1>13, <1>14, <1>15, <1>16, <1>17 DEF BenchmarkInv

LEMMA InitializeInv == ASSUME BenchmarkInv, Inv', ModelInv', Initialize PROVE BenchmarkInv'
<1> USE DEF Initialize, GoTo, harness, service, run
<1> BenchmarkTypeOK /\ HarnessInv /\ SessionInv /\ restarts \in Nat /\ Cases \in Nat \ {0}
  BY BenchmarkAssumption DEF BenchmarkInv, BenchmarkTypeOK
<1> TypeOK' /\ ModelTypeOK'
  BY DEF Inv, ModelInv
<1>0. stage = "connect" /\ stage' = "graph"
  BY DEF SessionInv
<1>1. Injected' /\ "injection" \notin disturbed' => LogOfCase(case)'
  BY <1>0, LogUnchanged, BenchmarkAssumption DEF BenchmarkInv, ServiceInv, Injected
<1>10. BenchmarkTypeOK'
  BY <1>0, <1>1, BenchmarkAssumption DEF BenchmarkTypeOK
<1>11. HarnessInv'
  BY <1>0, <1>1, BenchmarkAssumption DEF HarnessInv
<1>12. ServiceInv'
  BY <1>0, <1>1, BenchmarkAssumption DEF BenchmarkInv, ServiceInv, Injected, OfCase, ShowsFault
<1>13. SessionInv'
  BY <1>0, <1>1, BenchmarkAssumption DEF SessionInv
<1>14. ObservedInv'
  BY <1>0, <1>1, BenchmarkAssumption DEF BenchmarkInv, ObservedInv
<1>15. ObservationsAreOfTheCase'
  BY <1>0, <1>1, BenchmarkAssumption DEF BenchmarkInv, ObservationsAreOfTheCase, OfCase,
     ShowsFault
<1>16. FaultEndsWithCase'
  BY <1>0, <1>1, BenchmarkAssumption DEF FaultEndsWithCase
<1>17. ServersStopped'
  BY <1>0, <1>1, BenchmarkAssumption DEF BenchmarkInv, ServersStopped
<1>20. QED
  BY <1>10, <1>11, <1>12, <1>13, <1>14, <1>15, <1>16, <1>17 DEF BenchmarkInv

LEMMA ConnectFailsInv == ASSUME BenchmarkInv, Inv', ModelInv', ConnectFails PROVE BenchmarkInv'
<1> USE DEF ConnectFails, GoTo, harness, service, run
<1> BenchmarkTypeOK /\ HarnessInv /\ SessionInv /\ restarts \in Nat /\ Cases \in Nat \ {0}
  BY BenchmarkAssumption DEF BenchmarkInv, BenchmarkTypeOK
<1> TypeOK' /\ ModelTypeOK'
  BY DEF Inv, ModelInv
<1>1. Injected' /\ "injection" \notin disturbed' => LogOfCase(case)'
  BY LogUnchanged, BenchmarkAssumption DEF BenchmarkInv, ServiceInv, Injected
<1>2. stage \in {"connect", "disconnect"} /\ strays + 1 \in 0 .. Cases /\ strays + 1 <= case
      /\ strays \in 0 .. Cases /\ strays <= case
  BY DEF BenchmarkTypeOK, HarnessInv, SessionInv, Case
<1>3. strays' \in 0 .. Cases /\ strays' <= case /\ cut' \in BOOLEAN
  BY <1>2
<1>10. BenchmarkTypeOK'
  BY <1>1, <1>2, <1>3, BenchmarkAssumption DEF BenchmarkTypeOK
<1>11. HarnessInv'
  BY <1>1, <1>2, <1>3, BenchmarkAssumption DEF HarnessInv
<1>12. ServiceInv'
  BY <1>1, <1>2, <1>3, BenchmarkAssumption DEF BenchmarkInv, ServiceInv, Injected, OfCase,
     ShowsFault
<1>13. SessionInv'
  BY <1>1, <1>2, <1>3, BenchmarkAssumption DEF SessionInv
<1>14. ObservedInv'
  BY <1>1, <1>2, <1>3, BenchmarkAssumption DEF BenchmarkInv, ObservedInv
<1>15. ObservationsAreOfTheCase'
  BY <1>1, <1>2, <1>3, BenchmarkAssumption DEF BenchmarkInv, ObservationsAreOfTheCase,
     OfCase, ShowsFault
<1>16. FaultEndsWithCase'
  BY <1>1, <1>2, <1>3, BenchmarkAssumption DEF FaultEndsWithCase
<1>17. ServersStopped'
  BY <1>1, <1>2, <1>3, BenchmarkAssumption DEF BenchmarkInv, ServersStopped
<1>20. QED
  BY <1>10, <1>11, <1>12, <1>13, <1>14, <1>15, <1>16, <1>17 DEF BenchmarkInv

LEMMA EndSessionInv == ASSUME BenchmarkInv, Inv', ModelInv', EndSession PROVE BenchmarkInv'
<1> USE DEF EndSession, Disconnect, DisconnectFails, GoTo, harness, service, run
<1> BenchmarkTypeOK /\ HarnessInv /\ SessionInv /\ restarts \in Nat /\ Cases \in Nat \ {0}
  BY BenchmarkAssumption DEF BenchmarkInv, BenchmarkTypeOK
<1> TypeOK' /\ ModelTypeOK'
  BY DEF Inv, ModelInv
<1>1. Injected' /\ "injection" \notin disturbed' => LogOfCase(case)'
  BY LogUnchanged, BenchmarkAssumption DEF BenchmarkInv, ServiceInv, Injected
<1>2. stage \in {"connect", "disconnect"} /\ strays + 1 \in 0 .. Cases /\ strays + 1 <= case
      /\ strays \in 0 .. Cases /\ strays <= case
  BY DEF BenchmarkTypeOK, HarnessInv, SessionInv, Case
<1>3. strays' \in 0 .. Cases /\ strays' <= case /\ cut' \in BOOLEAN
  BY <1>2 DEF BenchmarkTypeOK
<1>10. BenchmarkTypeOK'
  BY <1>1, <1>2, <1>3, BenchmarkAssumption DEF BenchmarkTypeOK
<1>11. HarnessInv'
  BY <1>1, <1>2, <1>3, BenchmarkAssumption DEF HarnessInv
<1>12. ServiceInv'
  BY <1>1, <1>2, <1>3, BenchmarkAssumption DEF BenchmarkInv, ServiceInv, Injected, OfCase,
     ShowsFault
<1>13. SessionInv'
  BY <1>1, <1>2, <1>3, BenchmarkAssumption DEF SessionInv
<1>14. ObservedInv'
  BY <1>1, <1>2, <1>3, BenchmarkAssumption DEF BenchmarkInv, ObservedInv
<1>15. ObservationsAreOfTheCase'
  BY <1>1, <1>2, <1>3, BenchmarkAssumption DEF BenchmarkInv, ObservationsAreOfTheCase,
     OfCase, ShowsFault
<1>16. FaultEndsWithCase'
  BY <1>1, <1>2, <1>3, BenchmarkAssumption DEF FaultEndsWithCase
<1>17. ServersStopped'
  BY <1>1, <1>2, <1>3, BenchmarkAssumption DEF BenchmarkInv, ServersStopped
<1>20. QED
  BY <1>10, <1>11, <1>12, <1>13, <1>14, <1>15, <1>16, <1>17 DEF BenchmarkInv

LEMMA EndCaseInv == ASSUME BenchmarkInv, Inv', ModelInv', EndCase PROVE BenchmarkInv'
<1> USE DEF EndCase, Reset, ResetFault, harness, service, run
<1> BenchmarkTypeOK /\ HarnessInv /\ SessionInv /\ restarts \in Nat /\ Cases \in Nat \ {0}
  BY BenchmarkAssumption DEF BenchmarkInv, BenchmarkTypeOK
<1> TypeOK' /\ ModelTypeOK'
  BY DEF Inv, ModelInv
<1>0. case \in Case
  BY DEF HarnessInv
<1>1. PICK o \in {"run", "error"} : Conclude(o)
  OBVIOUS
<1>2. /\ outcomes' \in Seq({"run", "error"}) /\ Len(outcomes') = case' - 1
      /\ case' \in 1 .. (Cases + 1)
      /\ case' = case + 1 /\ stage' = "next" /\ sampled' = 0
  BY <1>0, <1>1, Concluded
<1>3. log' \in Seq(Line) /\ Len(log') <= Kept
  BY RecordShape, RequestShape
<1>4. /\ fault' \in 0 .. Cases /\ sampled' \in 0 .. (Baseline + Faulted) /\ leaked' = FALSE
      /\ disturbed' = {}
      /\ UNCHANGED <<metrics, inflight, restarts, session, observed, raised, strays, cut>>
  BY <1>2, BenchmarkAssumption DEF Nobody
<1>10. BenchmarkTypeOK'
  BY <1>2, <1>3, <1>4 DEF BenchmarkTypeOK
<1>11. HarnessInv'
  BY <1>0, <1>1, <1>2, <1>3, BenchmarkAssumption DEF HarnessInv
<1>12. ServiceInv'
  BY <1>0, <1>1, <1>2, <1>3, BenchmarkAssumption DEF ServiceInv, Injected
<1>13. SessionInv'
  BY <1>0, <1>1, <1>2, <1>3, BenchmarkAssumption DEF BenchmarkTypeOK, SessionInv
<1>14. ObservedInv'
  BY <1>0, <1>1, <1>2, <1>3, BenchmarkAssumption DEF BenchmarkInv, ObservedInv
<1>15. ObservationsAreOfTheCase'
  <2>1. observed' = NothingObserved
    BY DEF BenchmarkInv, ObservedInv
  <2>2. QED
    BY <2>1 DEF ObservationsAreOfTheCase, NothingObserved
<1>16. FaultEndsWithCase'
  BY <1>0, <1>1, <1>2, <1>3, BenchmarkAssumption DEF FaultEndsWithCase
<1>17. ServersStopped'
  BY <1>0, <1>1, <1>2, <1>3, BenchmarkAssumption DEF BenchmarkInv, ServersStopped
<1>20. QED
  BY <1>10, <1>11, <1>12, <1>13, <1>14, <1>15, <1>16, <1>17 DEF BenchmarkInv

LEMMA ResetFailsInv == ASSUME BenchmarkInv, Inv', ModelInv', ResetFails PROVE BenchmarkInv'
<1> USE DEF ResetFails, Reset, ResetFault, harness, service, run
<1> BenchmarkTypeOK /\ HarnessInv /\ SessionInv /\ restarts \in Nat /\ Cases \in Nat \ {0}
  BY BenchmarkAssumption DEF BenchmarkInv, BenchmarkTypeOK
<1> TypeOK' /\ ModelTypeOK'
  BY DEF Inv, ModelInv
<1>0. case \in Case
  BY DEF HarnessInv
<1>1. Conclude("error")
  OBVIOUS
<1>2. /\ outcomes' \in Seq({"run", "error"}) /\ Len(outcomes') = case' - 1
      /\ outcomes'[case' - 1] = "error" /\ case' \in 1 .. (Cases + 1)
      /\ case' = case + 1 /\ stage' = "next" /\ sampled' = 0
  BY <1>0, <1>1, Concluded
<1>3. log' \in Seq(Line) /\ Len(log') <= Kept
  BY RecordShape, RequestShape DEF BenchmarkTypeOK
<1>4. inflight' \subseteq GivenUp
  BY <1>0, GivenUpShape, BenchmarkAssumption DEF BenchmarkTypeOK, Case, Nobody
<1>5. fault' \in 0 .. Cases /\ leaked' = TRUE
      /\ UNCHANGED <<metrics, restarts, disturbed, run>>
  BY BenchmarkAssumption DEF BenchmarkTypeOK, Nobody
<1>10. BenchmarkTypeOK'
  BY <1>2, <1>3, <1>4, <1>5, BenchmarkAssumption DEF BenchmarkTypeOK, Nobody
<1>11. HarnessInv'
  BY <1>0, <1>1, <1>2, <1>3, BenchmarkAssumption DEF HarnessInv
<1>12. ServiceInv'
  BY <1>0, <1>1, <1>2, <1>3, BenchmarkAssumption DEF ServiceInv, Injected
<1>13. SessionInv'
  BY <1>0, <1>1, <1>2, <1>3, BenchmarkAssumption DEF BenchmarkTypeOK, SessionInv
<1>14. ObservedInv'
  BY <1>0, <1>1, <1>2, <1>3, BenchmarkAssumption DEF BenchmarkInv, ObservedInv
<1>15. ObservationsAreOfTheCase'
  BY <1>0, <1>1, <1>2, <1>3, BenchmarkAssumption DEF BenchmarkInv, ObservationsAreOfTheCase,
     OfCase, ShowsFault
<1>16. FaultEndsWithCase'
  BY <1>0, <1>1, <1>2, <1>3, BenchmarkAssumption DEF FaultEndsWithCase
<1>17. ServersStopped'
  BY <1>0, <1>1, <1>2, <1>3, BenchmarkAssumption DEF BenchmarkInv, ServersStopped
<1>20. QED
  BY <1>10, <1>11, <1>12, <1>13, <1>14, <1>15, <1>16, <1>17 DEF BenchmarkInv

\* The service forgets, and from now on the fault may be missing.
LEMMA ServiceRestartsInv == ASSUME BenchmarkInv, Inv', ModelInv', ServiceRestarts PROVE BenchmarkInv'
<1> USE DEF ServiceRestarts, harness, service, run
<1> BenchmarkTypeOK /\ HarnessInv /\ SessionInv /\ restarts \in Nat /\ Cases \in Nat \ {0}
  BY BenchmarkAssumption DEF BenchmarkInv, BenchmarkTypeOK
<1> TypeOK' /\ ModelTypeOK'
  BY DEF Inv, ModelInv
<1>1. Injected' /\ "injection" \notin disturbed' => LogOfCase(case)'
  BY LogUnchanged, BenchmarkAssumption DEF BenchmarkInv, ServiceInv, Injected
<1>2. /\ disturbed' = disturbed \cup {"restart"} /\ disturbed' # {}
      /\ ("injection" \notin disturbed' => "injection" \notin disturbed)
  OBVIOUS
<1>10. BenchmarkTypeOK'
  BY <1>1, <1>2, BenchmarkAssumption DEF BenchmarkTypeOK, Nobody
<1>11. HarnessInv'
  BY <1>1, <1>2, BenchmarkAssumption DEF HarnessInv, Wanted
<1>12. ServiceInv'
  BY <1>1, <1>2, BenchmarkAssumption DEF BenchmarkInv, ServiceInv, Injected
<1>13. SessionInv'
  BY <1>1, <1>2, BenchmarkAssumption DEF SessionInv
<1>14. ObservedInv'
  BY <1>1, <1>2, BenchmarkAssumption DEF BenchmarkInv, ObservedInv
<1>15. ObservationsAreOfTheCase'
  BY <1>1, <1>2, BenchmarkAssumption DEF BenchmarkInv, ObservationsAreOfTheCase, OfCase,
     ShowsFault
<1>16. FaultEndsWithCase'
  BY <1>1, <1>2, BenchmarkAssumption DEF BenchmarkInv, FaultEndsWithCase
<1>17. ServersStopped'
  BY <1>1, <1>2, BenchmarkAssumption DEF BenchmarkInv, ServersStopped
<1>20. QED
  BY <1>10, <1>11, <1>12, <1>13, <1>14, <1>15, <1>16, <1>17 DEF BenchmarkInv

\* Whatever a late request is for, it is recorded as late or excuses what follows.
LEMMA ServeLateInv ==
    ASSUME BenchmarkInv, Inv', ModelInv', NEW given \in inflight, ServeLate(given)
    PROVE  BenchmarkInv'
<1> USE DEF ServeLate, AnswerOrders, SetFault, ResetFault, ResetMetrics, harness, run
<1> DEFINE request == [of |-> given.of, fault |-> given.fault, late |-> TRUE]
<1> BenchmarkTypeOK /\ HarnessInv /\ SessionInv /\ restarts \in Nat /\ Cases \in Nat \ {0}
  BY BenchmarkAssumption DEF BenchmarkInv, BenchmarkTypeOK
<1> TypeOK' /\ ModelTypeOK'
  BY DEF Inv, ModelInv
<1>0. /\ given.of \in 0 .. Cases /\ given.fault \in 0 .. Cases /\ inflight' \subseteq GivenUp
      /\ case' = case /\ stage' = stage /\ sampled' = sampled /\ outcomes' = outcomes
      /\ leaked' = leaked /\ observed' = observed /\ restarts' = restarts
      /\ session' = session /\ strays' = strays /\ cut' = cut /\ raised' = raised
  BY DEF BenchmarkTypeOK, GivenUp
<1>1. request \in Request /\ OfCase(request, case)
  BY <1>0, RequestShape DEF OfCase
<1> HIDE DEF request
<1>2. \/ /\ metrics' = metrics \cup {request} /\ Record("order", request)
         /\ UNCHANGED <<fault, disturbed>>
      \/ /\ metrics' = {} /\ fault' = given.fault /\ Record("injection", NoRequest)
         /\ "injection" \in disturbed' /\ disturbed' = disturbed \cup {"injection"}
      \/ /\ metrics' = metrics /\ fault' = Nobody /\ Record("other", NoRequest)
         /\ disturbed' = disturbed \cup {"reset"}
  BY DEF request
<1>3. /\ log' \in Seq(Line) /\ Len(log') <= Kept
      /\ Injected' /\ "injection" \notin disturbed' => LogOfCase(case)'
  BY <1>0, <1>1, <1>2, RecordKept, RequestShape DEF BenchmarkInv, ServiceInv, Injected
<1>4. /\ fault' \in 0 .. Cases /\ metrics' \subseteq Request
      /\ disturbed' \subseteq {"restart", "injection", "reset"}
      /\ disturbed \subseteq disturbed'
  <2>1. /\ fault \in 0 .. Cases /\ metrics \subseteq Request /\ Nobody \in 0 .. Cases
        /\ disturbed \subseteq {"restart", "injection", "reset"}
    BY BenchmarkAssumption DEF BenchmarkTypeOK, Nobody
  <2>2. QED
    BY <1>0, <1>1, <1>2, <2>1
<1>10. BenchmarkTypeOK'
  BY <1>0, <1>3, <1>4, BenchmarkAssumption DEF BenchmarkTypeOK
<1>11. HarnessInv'
  BY <1>0, BenchmarkAssumption DEF HarnessInv, Wanted
<1>12. ServiceInv'
  BY <1>0, <1>1, <1>2, <1>3 DEF BenchmarkInv, ServiceInv, Injected, OfCase, ShowsFault
<1>13. SessionInv'
  BY <1>0 DEF SessionInv
<1>14. ObservedInv'
  BY <1>0 DEF BenchmarkInv, ObservedInv
<1>15. ObservationsAreOfTheCase'
  BY <1>0, <1>4 DEF BenchmarkInv, ObservationsAreOfTheCase, OfCase, ShowsFault
<1>16. FaultEndsWithCase'
  BY <1>0, <1>2 DEF BenchmarkInv, FaultEndsWithCase, Nobody
<1>17. ServersStopped'
  BY <1>0 DEF BenchmarkInv, ServersStopped
<1>20. QED
  BY <1>10, <1>11, <1>12, <1>13, <1>14, <1>15, <1>16, <1>17 DEF BenchmarkInv

LEMMA ServerDiesInv == ASSUME BenchmarkInv, Inv', ModelInv', ServerDies PROVE BenchmarkInv'
<1> USE DEF ServerDies, harness, service, run
<1> BenchmarkTypeOK /\ HarnessInv /\ SessionInv /\ restarts \in Nat /\ Cases \in Nat \ {0}
  BY BenchmarkAssumption DEF BenchmarkInv, BenchmarkTypeOK
<1> TypeOK' /\ ModelTypeOK'
  BY DEF Inv, ModelInv
<1>1. Injected' /\ "injection" \notin disturbed' => LogOfCase(case)'
  BY LogUnchanged, BenchmarkAssumption DEF BenchmarkInv, ServiceInv, Injected
<1>10. BenchmarkTypeOK'
  BY <1>1, BenchmarkAssumption DEF BenchmarkTypeOK
<1>11. HarnessInv'
  BY <1>1, BenchmarkAssumption DEF HarnessInv, Wanted
<1>12. ServiceInv'
  BY <1>1, BenchmarkAssumption DEF BenchmarkInv, ServiceInv, Injected, OfCase, ShowsFault
<1>13. SessionInv'
  BY <1>1, BenchmarkAssumption DEF SessionInv
<1>14. ObservedInv'
  BY <1>1, BenchmarkAssumption DEF BenchmarkInv, ObservedInv
<1>15. ObservationsAreOfTheCase'
  BY <1>1, BenchmarkAssumption DEF BenchmarkInv, ObservationsAreOfTheCase, OfCase, ShowsFault
<1>16. FaultEndsWithCase'
  BY <1>1, BenchmarkAssumption DEF BenchmarkInv, FaultEndsWithCase
<1>17. ServersStopped'
  BY <1>1, BenchmarkAssumption DEF BenchmarkInv, ServersStopped
<1>20. QED
  BY <1>10, <1>11, <1>12, <1>13, <1>14, <1>15, <1>16, <1>17 DEF BenchmarkInv

LEMMA StrayEndsInv == ASSUME BenchmarkInv, Inv', ModelInv', StrayEnds PROVE BenchmarkInv'
<1> USE DEF StrayEnds, harness, service, run
<1> BenchmarkTypeOK /\ HarnessInv /\ SessionInv /\ restarts \in Nat /\ Cases \in Nat \ {0}
  BY BenchmarkAssumption DEF BenchmarkInv, BenchmarkTypeOK
<1> TypeOK' /\ ModelTypeOK'
  BY DEF Inv, ModelInv
<1>1. Injected' /\ "injection" \notin disturbed' => LogOfCase(case)'
  BY LogUnchanged, BenchmarkAssumption DEF BenchmarkInv, ServiceInv, Injected
<1>10. BenchmarkTypeOK'
  BY <1>1, BenchmarkAssumption DEF BenchmarkTypeOK
<1>11. HarnessInv'
  BY <1>1, BenchmarkAssumption DEF HarnessInv, Wanted
<1>12. ServiceInv'
  BY <1>1, BenchmarkAssumption DEF BenchmarkInv, ServiceInv, Injected, OfCase, ShowsFault
<1>13. SessionInv'
  BY <1>1, BenchmarkAssumption DEF BenchmarkTypeOK, SessionInv
<1>14. ObservedInv'
  BY <1>1, BenchmarkAssumption DEF BenchmarkInv, ObservedInv
<1>15. ObservationsAreOfTheCase'
  BY <1>1, BenchmarkAssumption DEF BenchmarkInv, ObservationsAreOfTheCase, OfCase, ShowsFault
<1>16. FaultEndsWithCase'
  BY <1>1, BenchmarkAssumption DEF BenchmarkInv, FaultEndsWithCase
<1>17. ServersStopped'
  BY <1>1, BenchmarkAssumption DEF BenchmarkInv, ServersStopped
<1>20. QED
  BY <1>10, <1>11, <1>12, <1>13, <1>14, <1>15, <1>16, <1>17 DEF BenchmarkInv

\* A tool reads what the service has of the case.
LEMMA ToolSucceedsInv == ASSUME BenchmarkInv, Inv', ModelInv', ToolSucceeds PROVE BenchmarkInv'
<1> USE DEF ToolSucceeds, ReadMetrics, ReadLogs, ReadOther, ToolTurn, Investigating, harness, service, run
<1> BenchmarkTypeOK /\ HarnessInv /\ SessionInv /\ restarts \in Nat /\ Cases \in Nat \ {0}
  BY BenchmarkAssumption DEF BenchmarkInv, BenchmarkTypeOK
<1> TypeOK' /\ ModelTypeOK'
  BY DEF Inv, ModelInv
<1>0. stage = "graph" /\ UNCHANGED <<case, stage, sampled, outcomes, leaked, restarts, fault,
                                    disturbed>>
  OBVIOUS
<1>1. /\ log' \in Seq(Line) /\ Len(log') <= Kept
      /\ "injection" \notin disturbed => LogOfCase(case)'
  <2>1. "injection" \notin disturbed => LogOfCase(case)
    BY <1>0 DEF BenchmarkInv, ServiceInv, Injected
  <2>2. CASE UNCHANGED log
    BY <2>1, <2>2, LogUnchanged DEF BenchmarkTypeOK
  <2>3. CASE Record("other", NoRequest)
    BY <2>1, <2>3, RecordKept, RequestShape
  <2>4. QED
    BY <2>2, <2>3
<1>2. \/ observed' = observed
      \/ observed' = [source |-> "metrics", case |-> case, requests |-> metrics]
      \/ \E R \in SUBSET Request :
             /\ "injection" \notin disturbed => \A request \in R : OfCase(request, case)
             /\ observed' = [source |-> "logs", case |-> case, requests |-> R]
  <2>1. CASE ReadLogs
    <3> DEFINE R == OrdersLogged
    <3>1. \A l \in Incident :
              /\ l \in Line
              /\ "injection" \notin disturbed /\ l.kind = "order" => OfCase(l.request, case)
      <4>1. "injection" \notin disturbed => LogOfCase(case)
        BY <1>0 DEF BenchmarkInv, ServiceInv, Injected
      <4>2. QED
        BY <4>1 DEF Incident, LogOfCase, BenchmarkTypeOK
    <3>2. /\ R \in SUBSET Request
          /\ "injection" \notin disturbed => \A request \in R : OfCase(request, case)
      BY <3>1 DEF Line, OrdersLogged
    <3>3. QED
      BY <2>1, <3>2
  <2>2. QED
    BY <2>1
<1>3. metrics \subseteq Request /\ metrics' = metrics /\ case \in 0 .. Cases
  BY <1>0, BenchmarkAssumption DEF HarnessInv, BenchmarkTypeOK, Case
<1>10. BenchmarkTypeOK'
  BY <1>0, <1>1, <1>2, <1>3, BenchmarkAssumption DEF BenchmarkTypeOK
<1>11. HarnessInv'
  BY <1>0, <1>1, <1>2, <1>3, BenchmarkAssumption DEF HarnessInv
<1>12. ServiceInv'
  BY <1>0, <1>1, <1>2, <1>3, BenchmarkAssumption DEF BenchmarkInv, ServiceInv, Injected,
     OfCase, ShowsFault
<1>13. SessionInv'
  BY <1>0, <1>1, <1>2, <1>3, BenchmarkAssumption DEF SessionInv
<1>14. ObservedInv'
  BY <1>0, <1>1, <1>2, <1>3, BenchmarkAssumption DEF BenchmarkInv, ObservedInv
<1>15. ObservationsAreOfTheCase'
  <2>2. CASE observed' = observed
    BY <1>0, <2>2 DEF BenchmarkInv, ObservationsAreOfTheCase, OfCase, ShowsFault
  <2>3. CASE observed' = [source |-> "metrics", case |-> case, requests |-> metrics]
    <3>1. /\ "injection" \notin disturbed =>
                 \A request \in metrics : OfCase(request, case)
          /\ sampled > 0 /\ disturbed = {} =>
                 \E request \in metrics : ShowsFault(request, case)
      BY <1>0 DEF BenchmarkInv, ServiceInv, Injected
    <3>2. sampled > 0
      BY <1>0, BenchmarkAssumption DEF HarnessInv
    <3>3. /\ observed'.source = "metrics" /\ observed'.case = case
          /\ observed'.requests = metrics
      BY <2>3
    <3>4. QED
      BY <1>0, <3>1, <3>2, <3>3 DEF ObservationsAreOfTheCase, OfCase, ShowsFault
  <2>4. ASSUME NEW R \in SUBSET Request,
               "injection" \notin disturbed => \A request \in R : OfCase(request, case),
               observed' = [source |-> "logs", case |-> case, requests |-> R]
        PROVE  ObservationsAreOfTheCase'
    <3>1. /\ observed'.source = "logs" /\ observed'.case = case /\ observed'.requests = R
      BY <2>4
    <3>2. QED
      BY <1>0, <2>4, <3>1 DEF ObservationsAreOfTheCase, OfCase, ShowsFault
  <2>5. QED
    BY <1>2, <2>2, <2>3, <2>4
<1>16. FaultEndsWithCase'
  BY <1>0, <1>1, <1>2, <1>3, BenchmarkAssumption DEF FaultEndsWithCase
<1>17. ServersStopped'
  BY <1>0, <1>1, <1>2, <1>3, BenchmarkAssumption DEF BenchmarkInv, ServersStopped
<1>20. QED
  BY <1>10, <1>11, <1>12, <1>13, <1>14, <1>15, <1>16, <1>17 DEF BenchmarkInv

LEMMA GraphEndsInv == ASSUME BenchmarkInv, Inv', ModelInv', GraphEnds PROVE BenchmarkInv'
<1> USE DEF GraphEnds, DropObjects, GoTo, Investigating, harness, service, run
<1> BenchmarkTypeOK /\ HarnessInv /\ SessionInv /\ restarts \in Nat /\ Cases \in Nat \ {0}
  BY BenchmarkAssumption DEF BenchmarkInv, BenchmarkTypeOK
<1> TypeOK' /\ ModelTypeOK'
  BY DEF Inv, ModelInv
<1>1. Injected' /\ "injection" \notin disturbed' => LogOfCase(case)'
  BY LogUnchanged, BenchmarkAssumption DEF BenchmarkInv, ServiceInv, Injected
<1>10. BenchmarkTypeOK'
  BY <1>1, BenchmarkAssumption DEF BenchmarkTypeOK, Nobody, NothingObserved
<1>11. HarnessInv'
  BY <1>1, BenchmarkAssumption DEF HarnessInv
<1>12. ServiceInv'
  BY <1>1, BenchmarkAssumption DEF BenchmarkInv, ServiceInv, Injected, OfCase, ShowsFault
<1>13. SessionInv'
  BY <1>1, BenchmarkAssumption DEF SessionInv
<1>14. ObservedInv'
  BY <1>1, BenchmarkAssumption DEF ObservedInv
<1>15. ObservationsAreOfTheCase'
  BY <1>1, BenchmarkAssumption DEF ObservationsAreOfTheCase, NothingObserved
<1>16. FaultEndsWithCase'
  BY <1>1, BenchmarkAssumption DEF FaultEndsWithCase
<1>17. ServersStopped'
  BY <1>1, BenchmarkAssumption DEF BenchmarkInv, ServersStopped
<1>20. QED
  BY <1>10, <1>11, <1>12, <1>13, <1>14, <1>15, <1>16, <1>17 DEF BenchmarkInv

LEMMA RunTimesOutInv == ASSUME BenchmarkInv, Inv', ModelInv', RunTimesOut PROVE BenchmarkInv'
<1> USE DEF RunTimesOut, DropObjects, GoTo, Investigating, harness, service, run
<1> BenchmarkTypeOK /\ HarnessInv /\ SessionInv /\ restarts \in Nat /\ Cases \in Nat \ {0}
  BY BenchmarkAssumption DEF BenchmarkInv, BenchmarkTypeOK
<1> TypeOK' /\ ModelTypeOK'
  BY DEF Inv, ModelInv
<1>1. Injected' /\ "injection" \notin disturbed' => LogOfCase(case)'
  BY LogUnchanged, BenchmarkAssumption DEF BenchmarkInv, ServiceInv, Injected
<1>10. BenchmarkTypeOK'
  BY <1>1, BenchmarkAssumption DEF BenchmarkTypeOK, Nobody, NothingObserved
<1>11. HarnessInv'
  BY <1>1, BenchmarkAssumption DEF HarnessInv
<1>12. ServiceInv'
  BY <1>1, BenchmarkAssumption DEF BenchmarkInv, ServiceInv, Injected, OfCase, ShowsFault
<1>13. SessionInv'
  BY <1>1, BenchmarkAssumption DEF SessionInv
<1>14. ObservedInv'
  BY <1>1, BenchmarkAssumption DEF ObservedInv
<1>15. ObservationsAreOfTheCase'
  BY <1>1, BenchmarkAssumption DEF ObservationsAreOfTheCase, NothingObserved
<1>16. FaultEndsWithCase'
  BY <1>1, BenchmarkAssumption DEF FaultEndsWithCase
<1>17. ServersStopped'
  BY <1>1, BenchmarkAssumption DEF BenchmarkInv, ServersStopped
<1>20. QED
  BY <1>10, <1>11, <1>12, <1>13, <1>14, <1>15, <1>16, <1>17 DEF BenchmarkInv

\* The gateway and the provider work without touching anything else.
LEMMA QuietInv ==
    ASSUME BenchmarkInv, Inv', ModelInv', UNCHANGED <<harness, service, run>>
    PROVE  BenchmarkInv'
<1> USE DEF harness, service, run
<1>1. BenchmarkTypeOK' /\ HarnessInv' /\ SessionInv'
  BY DEF BenchmarkInv, BenchmarkTypeOK, HarnessInv, SessionInv, Inv, ModelInv, Wanted
<1>2. ServiceInv'
  BY DEF BenchmarkInv, ServiceInv, Injected, LogOfCase, NoInjectionAfter, OfCase,
     ShowsFault
<1>3. ObservedInv' /\ ObservationsAreOfTheCase'
  BY DEF BenchmarkInv, ObservedInv, ObservationsAreOfTheCase, OfCase, ShowsFault
<1>4. FaultEndsWithCase' /\ ServersStopped'
  BY DEF BenchmarkInv, FaultEndsWithCase, ServersStopped
<1>5. QED
  BY <1>1, <1>2, <1>3, <1>4 DEF BenchmarkInv

LEMMA BenchmarkInitInv == BenchmarkInit => BenchmarkInv
<1> SUFFICES ASSUME BenchmarkInit PROVE BenchmarkInv
  OBVIOUS
<1> USE DEF BenchmarkInit
<1>1. Inv /\ ModelInv
  BY InitInv, ModelInitInv
<1>2. TypeOK /\ ModelTypeOK
  BY <1>1 DEF Inv, ModelInv
<1>3. /\ outcomes \in Seq({"run", "error"}) /\ Len(outcomes) = 0
      /\ log \in Seq(Line) /\ Len(log) = 0
  OBVIOUS
<1>4. BenchmarkTypeOK
  <2>1. /\ case \in 1 .. (Cases + 1) /\ case - 1 = 0 /\ sampled \in 0 .. (Baseline + Faulted)
        /\ fault \in 0 .. Cases /\ strays \in 0 .. Cases /\ restarts \in 0 .. MaxRestarts
        /\ 0 <= Kept
    BY BenchmarkAssumption DEF Nobody
  <2>2. observed \in [source : {"none", "metrics", "logs"}, case : 0 .. Cases,
                      requests : SUBSET Request]
    BY BenchmarkAssumption DEF NothingObserved, Nobody
  <2>3. QED
    BY <1>2, <1>3, <2>1, <2>2 DEF BenchmarkTypeOK
<1>5. HarnessInv /\ ServiceInv /\ SessionInv /\ ObservedInv
  BY DEF HarnessInv, ServiceInv, SessionInv, ObservedInv, Injected
<1>6. ObservationsAreOfTheCase /\ FaultEndsWithCase /\ ServersStopped
  BY DEF ObservationsAreOfTheCase, FaultEndsWithCase, ServersStopped, NothingObserved
<1>7. QED
  BY <1>1, <1>4, <1>5, <1>6 DEF BenchmarkInv

LEMMA BenchmarkNextInv == BenchmarkInv /\ [BenchmarkNext]_allVars => BenchmarkInv'
<1> SUFFICES ASSUME BenchmarkInv, [BenchmarkNext]_allVars PROVE BenchmarkInv'
  OBVIOUS
<1>1. CASE BenchmarkNext
  <2>1. Inv' /\ ModelInv'
    BY <1>1, ObjectsKept DEF BenchmarkInv
  <2>2. CASE SetUp
    BY <2>1, <2>2, StartCaseInv, SampleOrdersInv, SampleFailsInv, InjectInv, InjectFailsInv,
       CreateRunInv, CreateRunFailsInv DEF SetUp
  <2>3. CASE Connect
    BY <2>1, <2>3, SpawnInv, InitializeInv, ConnectFailsInv DEF Connect
  <2>4. CASE Investigate
    <3>1. CASE ToolFails \/ ToolWaits \/ ModelWorks
      <4>1. UNCHANGED <<harness, service, run>>
        BY <3>1 DEF ToolFails, ToolWaits, ModelWorks
      <4>2. QED
        BY <2>1, <4>1, QuietInv
    <3>2. QED
      BY <2>1, <2>4, <3>1, ToolSucceedsInv, GraphEndsInv DEF Investigate
  <2>5. CASE RunTimesOut
    BY <2>1, <2>5, RunTimesOutInv
  <2>6. CASE Conclusion
    BY <2>1, <2>6, EndSessionInv, EndCaseInv, ResetFailsInv DEF Conclusion
  <2>7. CASE Service
    BY <2>1, <2>7, ServiceRestartsInv, ServeLateInv DEF Service
  <2>8. CASE ServerDies \/ StrayEnds
    BY <2>1, <2>8, ServerDiesInv, StrayEndsInv
  <2>9. QED
    BY <1>1, <2>2, <2>3, <2>4, <2>5, <2>6, <2>7, <2>8 DEF BenchmarkNext
<1>2. CASE UNCHANGED allVars
  <2>1. UNCHANGED <<harness, service, run, vars, modelVars>>
    BY <1>2 DEF allVars
  <2>2. Inv' /\ ModelInv'
    BY <2>1, NextInv, ModelNextInv DEF BenchmarkInv
  <2>3. QED
    BY <2>1, <2>2, QuietInv
<1>3. QED
  BY <1>1, <1>2

\* The inductive invariant holds in every reachable state.
THEOREM BenchmarkInvHolds == BenchmarkSpec => []BenchmarkInv
<1>1. QED
  BY BenchmarkInitInv, BenchmarkNextInv, PTL DEF BenchmarkSpec

\* The harness has one outcome for every case that is over, the log keeps within its tail,
\* and there are never more strays than cases.
THEOREM BenchmarkTypesHold == BenchmarkSpec => []BenchmarkTypeOK
<1>1. BenchmarkInv => BenchmarkTypeOK
  BY DEF BenchmarkInv
<1>2. QED
  BY <1>1, BenchmarkInvHolds, PTL

\* The session, its server and the timeout of execute() leave the contracts of
\* ToolGateway.call and of complete_structured() as they are.
THEOREM ContractsHoldInBenchmark ==
    BenchmarkSpec => [](KeepsContract /\ ModelCallKeepsContract)
<1>1. BenchmarkInv => KeepsContract /\ ModelCallKeepsContract
  BY ContractFollows DEF BenchmarkInv, ModelInv
<1>2. QED
  BY <1>1, BenchmarkInvHolds, PTL

\* read_metrics() and read_logs() show an investigation requests of its own case, served
\* under its fault or none, but for late ones and unless an injection came late; and
\* nothing that came between, its fault.
THEOREM ObservationsStayInTheCase == BenchmarkSpec => []ObservationsAreOfTheCase
<1>1. BenchmarkInv => ObservationsAreOfTheCase
  BY DEF BenchmarkInv
<1>2. QED
  BY <1>1, BenchmarkInvHolds, PTL

\* run_case() leaves a fault behind only where its finally clause was not reached or its
\* reset failed, and then reports an error.
THEOREM FaultsEndWithTheirCase == BenchmarkSpec => []FaultEndsWithCase
<1>1. BenchmarkInv => FaultEndsWithCase
  BY DEF BenchmarkInv
<1>2. QED
  BY <1>1, BenchmarkInvHolds, PTL

\* MCPReadonlyAdapter leaves a server process behind only if connect() or disconnect() was
\* interrupted.
THEOREM ServersAreStopped == BenchmarkSpec => []ServersStopped
<1>1. BenchmarkInv => ServersStopped
  BY DEF BenchmarkInv
<1>2. QED
  BY <1>1, BenchmarkInvHolds, PTL

\* The harness goes on, whatever the run and the service do: run_case() has no loop but the
\* one over its samples, and run() none but the one over the cases.
Advance ==
    \/ UNCHANGED <<case, stage, sampled, outcomes>>
    \/ /\ UNCHANGED <<case, outcomes>>
       /\ \/ Order[stage] < Order[stage']
          \/ stage' = stage /\ sampled' = sampled + 1 /\ sampled' <= Wanted
    \/ /\ stage' = "next" /\ case' = case + 1
       /\ \E outcome \in {"run", "error"} : outcomes' = Append(outcomes, outcome)

\* The stages of a case come one after the other.
LEMMA StagesAreOrdered ==
    /\ Order["next"] = 0 /\ Order["baseline"] = 1 /\ Order["faulted"] = 2
    /\ Order["connect"] = 3 /\ Order["graph"] = 4 /\ Order["disconnect"] = 5
    /\ Order["reset"] = 6 /\ Order["done"] = 7
  BY DEF Order

\* No step of the harness, of the run's session or of the service is taken twice in a case,
\* and an outcome once appended stays: a failure in the set-up, an interrupted connect(), a
\* timeout of the run and a failed reset each end in the one outcome of their case.
THEOREM HarnessNeverGoesBack == BenchmarkSpec => HarnessAdvances
<1>1. ASSUME BenchmarkInv, [BenchmarkNext]_allVars PROVE Advance
  <2>1. CASE UNCHANGED harness
    BY <2>1 DEF harness, Advance
  <2>2. ASSUME NEW outcome \in {"run", "error"}, Conclude(outcome) PROVE Advance
    BY <2>2 DEF Conclude, Advance
  <2>3. CASE SampleOrders
    <3>1. /\ UNCHANGED <<case, stage, outcomes>>
          /\ sampled' = sampled + 1 /\ sampled < Wanted
      BY <2>3 DEF SampleOrders
    <3>2. sampled \in Nat /\ Wanted \in Nat
      BY <1>1, BenchmarkAssumption DEF BenchmarkInv, BenchmarkTypeOK, Wanted
    <3>3. sampled + 1 <= Wanted
      BY <3>1, <3>2
    <3>4. QED
      BY <3>1, <3>3 DEF Advance
  <2>4. CASE StartCase \/ Inject \/ CreateRun
    <3>1. UNCHANGED <<case, outcomes>> /\ Order[stage] < Order[stage']
      <4>1. CASE StartCase
        <5>1. stage = "next" /\ stage' \in {"baseline", "done"} /\ UNCHANGED <<case, outcomes>>
          BY <4>1 DEF StartCase
        <5>2. QED
          BY <5>1, StagesAreOrdered
      <4>2. CASE Inject
        <5>1. stage = "baseline" /\ stage' = "faulted" /\ UNCHANGED <<case, outcomes>>
          BY <4>2 DEF Inject
        <5>2. QED
          BY <5>1, StagesAreOrdered
      <4>3. CASE CreateRun
        <5>1. stage = "faulted" /\ stage' = "connect" /\ UNCHANGED <<case, outcomes>>
          BY <4>3 DEF CreateRun
        <5>2. QED
          BY <5>1, StagesAreOrdered
      <4>4. QED
        BY <2>4, <4>1, <4>2, <4>3
    <3>2. QED
      BY <3>1 DEF Advance
  <2>5. CASE SampleFails \/ InjectFails \/ CreateRunFails
    BY <2>2, <2>5 DEF SampleFails, InjectFails, CreateRunFails
  <2>6. CASE Initialize \/ ConnectFails \/ EndSession \/ GraphEnds \/ RunTimesOut
    <3>1. session = "spawned" => stage = "connect"
      BY <1>1 DEF BenchmarkInv, SessionInv
    <3>2. UNCHANGED <<case, outcomes>> /\ Order[stage] < Order[stage']
      <4>1. CASE Initialize
        <5>1. stage = "connect" /\ stage' = "graph" /\ UNCHANGED <<case, outcomes>>
          BY <3>1, <4>1 DEF Initialize, GoTo
        <5>2. QED
          BY <5>1, StagesAreOrdered
      <4>2. CASE ConnectFails
        <5>1. stage = "connect" /\ stage' = "reset" /\ UNCHANGED <<case, outcomes>>
          BY <4>2 DEF ConnectFails, GoTo
        <5>2. QED
          BY <5>1, StagesAreOrdered
      <4>3. CASE EndSession
        <5>1. stage = "disconnect" /\ stage' = "reset" /\ UNCHANGED <<case, outcomes>>
          BY <4>3 DEF EndSession, GoTo
        <5>2. QED
          BY <5>1, StagesAreOrdered
      <4>4. CASE GraphEnds \/ RunTimesOut
        <5>1. stage = "graph" /\ stage' = "disconnect" /\ UNCHANGED <<case, outcomes>>
          BY <4>4 DEF GraphEnds, RunTimesOut, Investigating, GoTo
        <5>2. QED
          BY <5>1, StagesAreOrdered
      <4>5. QED
        BY <2>6, <4>1, <4>2, <4>3, <4>4
    <3>3. QED
      BY <3>2 DEF Advance
  <2>7. CASE EndCase \/ ResetFails
    BY <2>2, <2>7 DEF EndCase, ResetFails
  <2>8. CASE Spawn \/ ToolSucceeds \/ ToolFails \/ ToolWaits \/ ModelWorks \/ Service
             \/ ServerDies \/ StrayEnds \/ UNCHANGED allVars
    BY <2>1, <2>8 DEF Spawn, ToolSucceeds, ToolFails, ToolWaits, ModelWorks, Service,
       ServiceRestarts, ServeLate, ServerDies, StrayEnds, allVars
  <2>9. QED
    BY <1>1, <2>3, <2>4, <2>5, <2>6, <2>7, <2>8
       DEF BenchmarkNext, SetUp, Connect, Investigate, Conclusion
<1>2. BenchmarkInv /\ [BenchmarkNext]_allVars =>
          [\/ UNCHANGED <<case, stage, sampled, outcomes>>
           \/ /\ UNCHANGED <<case, outcomes>>
              /\ \/ Order[stage] < Order[stage']
                 \/ stage' = stage /\ sampled' = sampled + 1 /\ sampled' <= Wanted
           \/ /\ stage' = "next" /\ case' = case + 1
              /\ \E outcome \in {"run", "error"} : outcomes' = Append(outcomes, outcome)]_allVars
  BY <1>1 DEF Advance
<1>3. QED
  BY <1>2, BenchmarkInvHolds, PTL DEF BenchmarkSpec, HarnessAdvances
=============================================================================
