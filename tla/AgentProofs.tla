---------------------------- MODULE AgentProofs -----------------------------
(***************************************************************************)
(* Proofs about AgentRuntime, for every policy, every set of tools and     *)
(* every size of a batch of tool calls.                                    *)
(***************************************************************************)
EXTENDS AgentRuntime, FiniteSetTheorems, TLAPS

\* The transaction of a recorded step appends it to the trace, counts it and
\* does not touch the status of the run.
LEMMA RecordedStep ==
    ASSUME run \in Runs, trace \in Seq(Steps), step \in Steps, Recorded
    PROVE  /\ trace' \in Seq(Steps) /\ run' \in Runs
           /\ Len(trace') = Len(trace) + 1
           /\ trace'[Len(trace')] = step
           /\ \A i \in DOMAIN trace : trace'[i] = trace[i]
           /\ run'.status = run.status
           /\ run'.steps = IF run.steps > step.number THEN run.steps ELSE step.number
           /\ run'.tools = IF step.kind = "tool" THEN run.tools + 1 ELSE run.tools
<1> DEFINE s == IF run.steps > step.number THEN run.steps ELSE step.number
           t == IF step.kind = "tool" THEN run.tools + 1 ELSE run.tools
<1>1. trace' = Append(trace, step) /\ run' = [run EXCEPT !.steps = s, !.tools = t]
  BY DEF Recorded
<1>2. trace' \in Seq(Steps) /\ Len(trace') = Len(trace) + 1
      /\ trace'[Len(trace')] = step /\ \A i \in DOMAIN trace : trace'[i] = trace[i]
  BY <1>1
<1>3. s \in Nat /\ t \in Nat
  BY DEF Steps, Runs
<1> HIDE DEF s, t
<1>4. run' \in Runs /\ run'.status = run.status /\ run'.steps = s /\ run'.tools = t
  BY <1>1, <1>3 DEF Runs
<1> QED
  BY <1>2, <1>4 DEF s, t

\* Every step preserves the types.
LEMMA TypeStep == TypeOK /\ RunInv /\ [Next]_vars => TypeOK'
<1> SUFFICES ASSUME TypeOK, RunInv, [Next]_vars PROVE TypeOK'
  OBVIOUS
<1> USE AgentAssumption
    DEF TypeOK, Locations, Awaiting, Terminal, Goto, Raise, policy, counters, work, rows,
        Runs, Steps, Responses
<1>1. Recorded => trace' \in Seq(Steps) /\ run' \in Runs
  BY RecordedStep
<1>2. Completed \in Runs /\ Created \in Runs
  BY DEF Completed, Created
<1>3. CASE ResolveAllowedTools
  BY <1>3 DEF ResolveAllowedTools
<1>4. CASE CreateRun \/ CreateInterrupted
  BY <1>2, <1>4 DEF CreateRun, CreateInterrupted
<1>5. CASE Iterate
  BY <1>5 DEF Iterate
<1>6. CASE ModelResponds \/ ModelFails \/ ToolReturns
  BY <1>6 DEF ModelResponds, ModelFails, ToolReturns, Record
<1>7. CASE RecordStep
  <2>1. unanswered - Results \in Nat
    BY <1>7 DEF RecordStep, RunInv, AnswersInv, Results
  <2> QED
    BY <1>1, <1>7, <2>1 DEF RecordStep
<1>8. CASE Decide
  BY <1>8 DEF Decide
<1>9. CASE EndBatch
  BY <1>9 DEF EndBatch
<1>10. ASSUME NEW tool \in Tools, BeginCall(tool) PROVE TypeOK'
  BY <1>10 DEF BeginCall
<1>11. CASE CompleteRun
  BY <1>2, <1>11 DEF CompleteRun
<1>12. ASSUME NEW why \in {"error", "timeout", "cancel"}, Interrupted(why) PROVE TypeOK'
  BY <1>1, <1>2, <1>12 DEF Interrupted
<1>13. CASE SetTerminalStatus \/ TerminalInterrupted
  BY <1>13 DEF SetTerminalStatus, TerminalInterrupted, TerminalStatus
<1>14. CASE Crash
  BY <1>14 DEF Crash
<1>15. CASE UNCHANGED vars
  BY <1>15 DEF vars
<1> QED
  BY <1>3, <1>4, <1>5, <1>6, <1>7, <1>8, <1>9, <1>10, <1>11, <1>12, <1>13, <1>14, <1>15
     DEF Next, Advance, Expire, Disturb

-----------------------------------------------------------------------------
\* Every step keeps the counters of the loop, the budgets, the answers owed to
\* the model and the outcome in step with the committed rows.
LEMMA RunStep == TypeOK /\ RunInv /\ [Next]_vars => RunInv'
<1> SUFFICES ASSUME TypeOK, RunInv, [Next]_vars PROVE RunInv'
  OBVIOUS
<1> USE AgentAssumption
    DEF TypeOK, Locations, Awaiting, Terminal, Goto, Raise, policy, counters, work, rows,
        Runs, Steps, Responses, RunInv, LoopInv, BudgetInv, AnswersInv,
        OutcomeInv, PolicyInv, Results
<1>1. Recorded => /\ Len(trace') = Len(trace) + 1
                  /\ trace'[Len(trace')] = step
                  /\ run'.status = run.status
                  /\ run'.tools = run.tools + Results
                  /\ trace' # <<>>
  BY RecordedStep
<1>3. CASE ResolveAllowedTools
  BY <1>3 DEF ResolveAllowedTools
<1>4. CASE CreateRun \/ CreateInterrupted
  <2>1. Len(<<>>) = 0 /\ trace = <<>> /\ stepNumber = 0
    BY <1>4 DEF CreateRun, CreateInterrupted
  <2>2. LoopInv'
    BY <1>4, <2>1 DEF CreateRun, CreateInterrupted, Created
  <2>3. BudgetInv' /\ AnswersInv' /\ OutcomeInv' /\ PolicyInv'
    BY <1>4 DEF CreateRun, CreateInterrupted
  <2> QED
    BY <2>2, <2>3
<1>5. CASE Iterate
  <2>1. LoopInv'
    <3>1. CASE iteration = MaxSteps
      BY <1>5, <3>1 DEF Iterate
    <3>2. CASE iteration < MaxSteps
      <4>1. /\ pc = "iterate" /\ pc' = "generate" /\ stepNumber' = stepNumber + 1
            /\ iteration' = iteration + 1 /\ calls' = calls /\ run' = run /\ trace' = trace
        BY <1>5, <3>2 DEF Iterate
      <4> QED
        BY <4>1
    <3> QED
      BY <3>1, <3>2
  <2>2. BudgetInv' /\ AnswersInv'
    BY <1>5 DEF Iterate
  <2>3. OutcomeInv' /\ PolicyInv'
    BY <1>5 DEF Iterate
  <2> QED
    BY <2>1, <2>2, <2>3
<1>6. CASE ModelResponds \/ ModelFails \/ ToolReturns
  <2>1. LoopInv'
    <3>1. /\ pc' = "record" /\ step'.number = stepNumber
          /\ UNCHANGED <<iteration, stepNumber, calls, run, trace>>
          /\ \/ pc = "generate" /\ step'.kind = "model"
             \/ pc = "execute" /\ step'.kind = "tool"
      BY <1>6 DEF ModelResponds, ModelFails, ToolReturns, Record
    <3> QED
      BY <3>1
  <2>2. BudgetInv'
    BY <1>6 DEF ModelResponds, ModelFails, ToolReturns, Record
  <2>3. AnswersInv'
    BY <1>6 DEF ModelResponds, ModelFails, ToolReturns, Record
  <2>4. OutcomeInv' /\ PolicyInv'
    BY <1>6 DEF ModelResponds, ModelFails, ToolReturns, Record
  <2> QED
    BY <2>1, <2>2, <2>3, <2>4
<1>7. CASE RecordStep
  <2>1. LoopInv'
    BY <1>1, <1>7 DEF RecordStep
  <2>2. BudgetInv'
    BY <1>7 DEF RecordStep
  <2>3. AnswersInv'
    BY <1>7 DEF RecordStep
  <2>4. OutcomeInv' /\ PolicyInv'
    BY <1>1, <1>7 DEF RecordStep
  <2> QED
    BY <2>1, <2>2, <2>3, <2>4
<1>8. CASE Decide
  BY <1>8 DEF Decide, OverBudget
<1>9. CASE EndBatch
  BY <1>9 DEF EndBatch
<1>10. ASSUME NEW tool \in Tools, BeginCall(tool) PROVE RunInv'
  BY <1>10 DEF BeginCall, Results
<1>11. CASE CompleteRun
  BY <1>11 DEF CompleteRun, Completed
<1>12. ASSUME NEW why \in {"error", "timeout", "cancel"}, Interrupted(why) PROVE RunInv'
  BY <1>1, <1>12 DEF Interrupted, Completed
<1>13. CASE SetTerminalStatus \/ TerminalInterrupted
  BY <1>13 DEF SetTerminalStatus, TerminalInterrupted, TerminalStatus
<1>14. CASE Crash
  BY <1>14 DEF Crash
<1>15. CASE UNCHANGED vars
  BY <1>15 DEF vars
<1> QED
  BY <1>3, <1>4, <1>5, <1>6, <1>7, <1>8, <1>9, <1>10, <1>11, <1>12, <1>13, <1>14, <1>15
     DEF Next, Advance, Expire, Disturb

\* Reachable states are well typed, and the loop is where its rows say it is.
THEOREM RunSound == Spec => [](TypeOK /\ RunInv)
<1>1. Init => TypeOK
  <2> SUFFICES ASSUME Init PROVE TypeOK
    OBVIOUS
  <2>1. trace \in Seq(Steps)
    BY DEF Init
  <2>2. step \in Steps /\ run \in Runs /\ response \in Responses
    BY AgentAssumption DEF Init, Steps, Runs, Responses
  <2> QED
    BY AgentAssumption, <2>1, <2>2 DEF Init, TypeOK, Locations
<1>2. Init => RunInv
  <2>1. Len(<<>>) = 0
    OBVIOUS
  <2> QED
    BY AgentAssumption, <2>1
    DEF Init, Awaiting, RunInv, LoopInv, BudgetInv, AnswersInv, OutcomeInv, PolicyInv
<1> QED
  BY <1>1, <1>2, TypeStep, RunStep, PTL DEF Spec

\* The run, its rows and its trace keep their types, whatever the policy is.
THEOREM TypeCorrect == Spec => []TypeOK
BY RunSound, PTL

-----------------------------------------------------------------------------
\* Models, tool calls and recorded steps stay within the budgets of the policy,
\* whatever the model asks for.
THEOREM Budgets == Spec => []BudgetsHold
<1>1. TypeOK /\ RunInv => BudgetsHold
  BY AgentAssumption DEF TypeOK, RunInv, LoopInv, BudgetInv, BudgetsHold
<1> QED
  BY <1>1, RunSound, PTL

\* Only tools that are configured, registered and asked for are ever called.
THEOREM AllowList == Spec => []AllowListHolds
<1>1. Init => AllowListHolds
  BY DEF Init, AllowListHolds
<1>2. TypeOK /\ RunInv /\ AllowListHolds /\ [Next]_vars => AllowListHolds'
  <2> SUFFICES ASSUME RunInv, AllowListHolds, [Next]_vars PROVE AllowListHolds'
    OBVIOUS
  <2> USE DEF AllowListHolds, policy, vars
  <2>1. requested' = requested
    BY DEF Next, Advance, Expire, Disturb, ResolveAllowedTools, CreateRun, CreateInterrupted,
       Iterate, ModelResponds, ModelFails, ToolReturns, Record, RecordStep, Decide, EndBatch,
       BeginCall, CompleteRun, Interrupted, SetTerminalStatus, TerminalInterrupted, Crash
  <2>2. ASSUME NEW tool \in Tools, BeginCall(tool) PROVE AllowListHolds'
    BY <2>1, <2>2 DEF BeginCall, Permitted, RunInv, PolicyInv
  <2>3. ASSUME \A tool \in Tools : ~BeginCall(tool) PROVE invoked' = invoked
    BY <2>3
    DEF Next, Advance, Expire, Disturb, ResolveAllowedTools, CreateRun, CreateInterrupted,
        Iterate, ModelResponds, ModelFails, ToolReturns, Record, RecordStep, Decide, EndBatch,
        CompleteRun, Interrupted, SetTerminalStatus, TerminalInterrupted, Crash
  <2> QED
    BY <2>1, <2>2, <2>3
<1> QED
  BY <1>1, <1>2, RunSound, PTL DEF Spec

\* A model is never called with a tool call it has no result for.
THEOREM Answers == Spec => []EveryCallAnswered
<1>1. RunInv => EveryCallAnswered
  BY DEF RunInv, BudgetInv, AnswersInv, EveryCallAnswered
<1> QED
  BY <1>1, RunSound, PTL

-----------------------------------------------------------------------------
\* What a step does to the rows.
LEMMA RowsStep ==
    ASSUME TypeOK, RunInv, [Next]_vars
    PROVE  \/ rows' = rows
           \/ pc = "record" /\ Recorded /\ answered' = answered
           \/ pc = "complete" /\ run' = Completed /\ trace' = trace
           \/ pc = "create" /\ run' = Created /\ trace' = trace
           \/ /\ pc = "terminal" /\ run' = [run EXCEPT !.status = TerminalStatus]
              /\ trace' = trace
BY DEF Next, Advance, Expire, Disturb, ResolveAllowedTools, CreateRun, CreateInterrupted,
       Iterate, ModelResponds, ModelFails, ToolReturns, Record, RecordStep, Decide, EndBatch,
       BeginCall, CompleteRun, Interrupted, SetTerminalStatus, TerminalInterrupted, Crash,
       Goto, Raise, vars, rows

\* However a run is interrupted, its trace is gap-free and its counters agree
\* with its steps.
THEOREM Traces == Spec => []TraceMatchesRun
<1>1. Init => TraceMatchesRun
  BY FS_EmptySet DEF Init, TraceMatchesRun, ToolSteps
<1>2. TypeOK /\ RunInv /\ TraceMatchesRun /\ [Next]_vars => TraceMatchesRun'
  <2> SUFFICES ASSUME TypeOK, RunInv, TraceMatchesRun, [Next]_vars PROVE TraceMatchesRun'
    OBVIOUS
  <2>1. CASE rows' = rows
    BY <2>1 DEF rows, TraceMatchesRun, ToolSteps
  <2>2. CASE pc = "record" /\ Recorded
    <3>1. /\ trace \in Seq(Steps) /\ trace' \in Seq(Steps) /\ run \in Runs /\ step \in Steps
          /\ Len(trace') = Len(trace) + 1 /\ trace'[Len(trace')] = step
          /\ \A i \in DOMAIN trace : trace'[i] = trace[i]
          /\ run'.steps = IF run.steps > step.number THEN run.steps ELSE step.number
          /\ run'.tools = IF step.kind = "tool" THEN run.tools + 1 ELSE run.tools
      BY <2>2, RecordedStep DEF TypeOK
    <3>2. step.number = Len(trace) + 1 /\ run.steps = Len(trace)
      BY <2>2, <3>1 DEF RunInv, LoopInv, TraceMatchesRun
    <3>3. \A i \in DOMAIN trace' : trace'[i].number = i
      BY <3>1, <3>2 DEF TraceMatchesRun
    <3>4. run'.steps = Len(trace')
      BY <3>1, <3>2
    <3>5. ToolSteps' = IF step.kind = "tool" THEN ToolSteps \union {Len(trace) + 1} ELSE ToolSteps
      BY <3>1 DEF ToolSteps
    <3>6. IsFiniteSet(ToolSteps)
      <4>1. ToolSteps \subseteq 1..Len(trace) /\ Len(trace) \in Nat
        BY <3>1 DEF ToolSteps
      <4>2. IsFiniteSet(1..Len(trace))
        BY <4>1, FS_Interval
      <4> HIDE DEF ToolSteps
      <4> QED
        BY <4>1, <4>2, FS_Subset
    <3>7. Len(trace) + 1 \notin ToolSteps
      BY <3>1 DEF ToolSteps
    <3>8. run'.tools = Cardinality(ToolSteps')
      <4>1. run.tools = Cardinality(ToolSteps)
        BY DEF TraceMatchesRun
      <4>2. Cardinality(ToolSteps \union {Len(trace) + 1}) = Cardinality(ToolSteps) + 1
        BY <3>6, <3>7, FS_AddElement
      <4> QED
        BY <3>1, <3>5, <4>1, <4>2
    <3> QED
      BY <3>3, <3>4, <3>8 DEF TraceMatchesRun
  <2>3. CASE pc = "complete" /\ run' = Completed /\ trace' = trace
    <3>1. run'.steps = Len(trace) /\ run'.tools = run.tools
      BY <2>3 DEF Completed, RunInv, LoopInv
    <3> QED
      BY <2>3, <3>1 DEF TraceMatchesRun, ToolSteps
  <2>4. CASE pc = "create" /\ run' = Created /\ trace' = trace
    <3>1. trace = <<>> /\ run.tools = 0
      BY <2>4 DEF RunInv, LoopInv
    <3> QED
      BY <2>4, <3>1 DEF Created, TraceMatchesRun, ToolSteps
  <2>5. CASE run' = [run EXCEPT !.status = TerminalStatus] /\ trace' = trace
    <3>1. run'.steps = run.steps /\ run'.tools = run.tools
      BY <2>5 DEF TypeOK, Runs
    <3> QED
      BY <2>5, <3>1 DEF TraceMatchesRun, ToolSteps
  <2> QED
    BY <2>1, <2>2, <2>3, <2>4, <2>5, RowsStep
<1> QED
  BY <1>1, <1>2, RunSound, PTL DEF Spec

\* A caller that has a response has it of a run stored as completed.
THEOREM Outcomes == Spec => []AnsweredRunCompleted
<1>1. Init => AnsweredRunCompleted
  BY DEF Init, AnsweredRunCompleted
<1>2. TypeOK /\ RunInv /\ AnsweredRunCompleted /\ [Next]_vars => AnsweredRunCompleted'
  <2> SUFFICES ASSUME TypeOK, RunInv, AnsweredRunCompleted, [Next]_vars, answered'
               PROVE  AnsweredRunCompleted'
    BY DEF AnsweredRunCompleted
  <2>1. CASE CompleteRun
    BY <2>1 DEF CompleteRun, Completed, Goto, AnsweredRunCompleted, RunInv, OutcomeInv
  <2>2. CASE ~CompleteRun
    <3>1. answered
      BY <2>2
      DEF Next, Advance, Expire, Disturb, ResolveAllowedTools, CreateRun, CreateInterrupted,
          Iterate, ModelResponds, ModelFails, ToolReturns, Record, RecordStep, Decide, EndBatch,
          BeginCall, Interrupted, SetTerminalStatus, TerminalInterrupted, Crash, vars
    <3>2. rows' = rows
      BY <3>1, RowsStep DEF RunInv, OutcomeInv
    <3> QED
      BY <3>1, <3>2 DEF rows, AnsweredRunCompleted
  <2> QED
    BY <2>1, <2>2
<1> QED
  BY <1>1, <1>2, RunSound, PTL DEF Spec

\* A settled run stays settled and its trace closed; an outcome that was
\* reported is final.
THEOREM Settled == Spec => SettledStaysSettled
<1>1. TypeOK /\ RunInv /\ [Next]_vars =>
        [run.status \in Terminal =>
            run'.status \in Terminal /\ trace' = trace /\ (answered => run' = run)]_vars
  <2> SUFFICES ASSUME TypeOK, RunInv, [Next]_vars, run.status \in Terminal
               PROVE  run'.status \in Terminal /\ trace' = trace /\ (answered => run' = run)
    OBVIOUS
  <2>1. pc \notin {"record", "complete", "create"}
    BY DEF RunInv, LoopInv, Awaiting, Terminal
  <2>2. pc = "terminal" => ~answered
    BY DEF RunInv, OutcomeInv
  <2> QED
    BY <2>1, <2>2, RowsStep DEF rows, TypeOK, Runs, TerminalStatus, Terminal
<1> QED
  BY <1>1, RunSound, PTL DEF Spec, SettledStaysSettled
=============================================================================
