---------------------------- MODULE AgentRuntime ----------------------------
(***************************************************************************)
(* One run of the agent: the bounded loop of model and tool calls that     *)
(* answers a chat message in agent mode, and the rows of agent_runs and    *)
(* agent_steps it leaves (backend/app/agents/runtime.py, policy.py and     *)
(* tools/executor.py).                                                     *)
(*                                                                         *)
(* A run is one coroutine and shares its rows with nobody.  What makes it  *)
(* hard is that it may be interrupted at every await, by the whole-run     *)
(* timeout, a cancelled task or a failing query, and that a commit which   *)
(* is interrupted may nevertheless have happened.                          *)
(***************************************************************************)
EXTENDS Naturals, Sequences, FiniteSets

CONSTANTS
    Tools,        \* names a model may put into a tool call
    Registered,   \* those in the ToolRegistry
    Configured,   \* AgentPolicy.default_allowed_tools
    MaxSteps,     \* AgentPolicy.max_steps
    MaxToolCalls, \* AgentPolicy.max_tool_calls
    MaxBatch,     \* bound: tool calls in one model response
    Faults        \* the faults the environment may inject, see FaultKinds

(***************************************************************************)
(* provider  a model call raises                                           *)
(* cancel    the task is cancelled while it awaits                         *)
(* database  a statement or a commit fails; the commit may have happened   *)
(* crash     the process dies                                              *)
(***************************************************************************)
FaultKinds == {"provider", "cancel", "database", "crash"}

ASSUME AgentAssumption ==
    /\ Registered \subseteq Tools /\ Configured \subseteq Tools
    /\ MaxSteps \in Nat /\ MaxToolCalls \in Nat /\ MaxBatch \in Nat
    /\ Faults \subseteq FaultKinds

VARIABLES
    faults,      \* the faults this behaviour is exposed to
    requested,   \* agent_allowed_tools of the request, Configured if it has none
    allowed,     \* the allow-list of the run
    pc,          \* where the coroutine is
    iteration,   \* model_iteration
    stepNumber,  \* step_number
    calls,       \* tool_call_count
    response,    \* the last model response
    todo,        \* its tool calls that are still to be executed
    unanswered,  \* tool calls in the messages without a tool result after them
    step,        \* the step being recorded
    cause,       \* why the run is being failed or cancelled
    run,         \* the committed row of agent_runs
    trace,       \* the committed rows of agent_steps, in commit order
    invoked,     \* tools whose code was called
    answered     \* the caller was given a response

policy == <<faults, requested, allowed>>
counters == <<iteration, stepNumber, calls>>
work == <<response, todo, unanswered, step>>
rows == <<run, trace>>
vars == <<policy, pc, counters, work, cause, rows, invoked, answered>>

Terminal == {"completed", "failed", "cancelled"}
Runs == [status: {"absent", "running"} \union Terminal, steps: Nat, tools: Nat]
Steps == [number: Nat, kind: {"model", "tool"}, status: {"completed", "failed"}]
Responses == [calls: 0..MaxBatch, empty: BOOLEAN]
Awaiting == {"generate", "record", "execute", "complete"}
Locations == {"start", "create", "iterate", "decide", "nextCall", "terminal", "done"}
                 \union Awaiting

Init ==
    /\ faults \in SUBSET Faults
    /\ requested \in SUBSET Tools
    /\ allowed = {}
    /\ pc = "start"
    /\ iteration = 0 /\ stepNumber = 0 /\ calls = 0
    /\ response = [calls |-> 0, empty |-> FALSE]
    /\ todo = 0
    /\ unanswered = 0
    /\ step = [number |-> 0, kind |-> "model", status |-> "completed"]
    /\ cause = "error"
    /\ run = [status |-> "absent", steps |-> 0, tools |-> 0]
    /\ trace = <<>>
    /\ invoked = {}
    /\ answered = FALSE

Goto(from, to) == pc = from /\ pc' = to

\* An exception leaves the loop: run records why.
Raise(from, why) == Goto(from, "terminal") /\ cause' = why

-----------------------------------------------------------------------------
(* Starting.                                                               *)

\* resolve_allowed_tools: every configured tool must be registered and every
\* requested one configured and registered.
ResolveAllowedTools ==
    /\ IF Configured \subseteq Registered /\ requested \subseteq Registered \intersect Configured
       THEN Goto("start", "create") /\ allowed' = requested
       ELSE Goto("start", "done") /\ UNCHANGED allowed
    /\ UNCHANGED <<faults, requested, counters, work, cause, rows, invoked, answered>>

Created == [status |-> "running", steps |-> 0, tools |-> 0]

CreateRun ==
    /\ Goto("create", "iterate")
    /\ run' = Created
    /\ UNCHANGED <<policy, counters, work, cause, trace, invoked, answered>>

\* _create_run runs before the try: an interrupted commit is not followed up.
CreateInterrupted ==
    /\ faults \intersect {"cancel", "database"} # {}
    /\ Goto("create", "done")
    /\ run' \in {run, Created}
    /\ UNCHANGED <<policy, counters, work, cause, trace, invoked, answered>>

-----------------------------------------------------------------------------
(* The loop.                                                               *)

Iterate ==
    /\ \/ /\ iteration = MaxSteps
          /\ Raise("iterate", "error")
          /\ UNCHANGED counters
       \/ /\ iteration < MaxSteps
          /\ Goto("iterate", "generate")
          /\ iteration' = iteration + 1
          /\ stepNumber' = stepNumber + 1
          /\ UNCHANGED <<calls, cause>>
    /\ UNCHANGED <<policy, work, rows, invoked, answered>>

\* A step is recorded with the number the loop has reached.
Record(from, kind, status) ==
    /\ Goto(from, "record")
    /\ step' = [number |-> stepNumber, kind |-> kind, status |-> status]
    /\ UNCHANGED <<policy, counters, todo, unanswered, cause, rows, answered>>

ModelResponds ==
    /\ response' \in Responses
    /\ Record("generate", "model", "completed")
    /\ UNCHANGED invoked

ModelFails ==
    /\ "provider" \in faults
    /\ Record("generate", "model", "failed")
    /\ UNCHANGED <<response, invoked>>

\* MUTANT: failed tool calls are not counted.
RecordedIfCompleted ==
    /\ trace' = Append(trace, step)
    /\ run' = [run EXCEPT !.steps = IF @ > step.number THEN @ ELSE step.number,
                          !.tools = IF step.kind = "tool" /\ step.status = "completed"
                                    THEN @ + 1 ELSE @]

\* The transaction of _record_step.
Recorded ==
    /\ trace' = Append(trace, step)
    /\ run' = [run EXCEPT !.steps = IF @ > step.number THEN @ ELSE step.number,
                          !.tools = IF step.kind = "tool" THEN @ + 1 ELSE @]

\* MUTANT: the result of a failed tool call is not appended to the messages.
ResultsOfCompleted == IF step.kind = "tool" /\ step.status = "completed" THEN 1 ELSE 0

\* Tool results appended to the messages once the step is recorded.
Results == IF step.kind = "tool" THEN 1 ELSE 0

RecordStep ==
    /\ \/ step.kind = "tool" /\ Goto("record", "nextCall") /\ UNCHANGED cause
       \/ /\ step.kind = "model" /\ step.status = "completed"
          /\ Goto("record", "decide")
          /\ UNCHANGED cause
       \/ /\ step.kind = "model" /\ step.status = "failed"
          /\ Raise("record", "error")
    /\ Recorded
    /\ unanswered' = unanswered - Results
    /\ UNCHANGED <<policy, counters, response, todo, step, invoked, answered>>

\* MUTANT: the limit is tested against the calls already made.
OverBudgetAlready == calls >= MaxToolCalls

OverBudget == calls + response.calls > MaxToolCalls

\* What the loop makes of a model response.
Decide ==
    /\ \/ /\ response.calls = 0 /\ response.empty
          /\ Raise("decide", "error")
          /\ UNCHANGED <<todo, unanswered>>
       \/ /\ response.calls = 0 /\ ~response.empty
          /\ Goto("decide", "complete")
          /\ UNCHANGED <<todo, unanswered, cause>>
       \/ /\ response.calls > 0 /\ OverBudget
          /\ Raise("decide", "error")
          /\ UNCHANGED <<todo, unanswered>>
       \/ /\ response.calls > 0 /\ ~OverBudget
          /\ Goto("decide", "nextCall")
          /\ todo' = response.calls
          /\ unanswered' = unanswered + response.calls
          /\ UNCHANGED cause
    /\ UNCHANGED <<policy, counters, response, step, rows, invoked, answered>>

\* All tool calls of the response have a result: the loop goes on.
EndBatch ==
    /\ todo = 0
    /\ Goto("nextCall", "iterate")
    /\ UNCHANGED <<policy, counters, work, cause, rows, invoked, answered>>

\* MUTANT: the executor trusts the model to call the tools it was offered.
Resolvable(tool) == tool \in Registered

\* ToolExecutor.execute calls the tool: it is on the allow-list, and registered.
Permitted(tool) == tool \in allowed /\ tool \in Registered

\* The next tool call: the tool is called, or refused, which fails the step.
BeginCall(tool) ==
    /\ todo > 0
    /\ todo' = todo - 1
    /\ calls' = calls + 1
    /\ stepNumber' = stepNumber + 1
    /\ \/ /\ Permitted(tool)
          /\ Goto("nextCall", "execute")
          /\ invoked' = invoked \union {tool}
          /\ UNCHANGED step
       \/ /\ ~Permitted(tool)
          /\ Goto("nextCall", "record")
          /\ step' = [number |-> stepNumber', kind |-> "tool", status |-> "failed"]
          /\ UNCHANGED invoked
    /\ UNCHANGED <<policy, iteration, response, unanswered, cause, rows, answered>>

\* It returns, or whatever goes wrong, its hard timeout included, fails the step.
ToolReturns ==
    /\ \/ Record("execute", "tool", "completed")
       \/ Record("execute", "tool", "failed")
    /\ UNCHANGED <<response, invoked>>

\* MUTANTS: the completion is not committed; the loop goes on after it.
CompleteUncommitted ==
    /\ Goto("complete", "done")
    /\ answered' = TRUE
    /\ UNCHANGED <<policy, counters, work, cause, rows, invoked>>

Completed == [status |-> "completed", steps |-> stepNumber, tools |-> calls]

CompleteAndContinue ==
    /\ Goto("complete", "iterate")
    /\ run' = Completed
    /\ answered' = TRUE
    /\ UNCHANGED <<policy, counters, work, cause, trace, invoked>>

\* _complete_run, and the response is returned.
CompleteRun ==
    /\ Goto("complete", "done")
    /\ run' = Completed
    /\ answered' = TRUE
    /\ UNCHANGED <<policy, counters, work, cause, trace, invoked>>

-----------------------------------------------------------------------------
(* Interruptions.                                                          *)

\* An await of the loop raises.  If it was a commit, it may have happened.
Interrupted(why) ==
    /\ pc \in Awaiting
    /\ Raise(pc, why)
    /\ \/ UNCHANGED rows
       \/ pc = "record" /\ Recorded
       \/ pc = "complete" /\ run' = Completed /\ UNCHANGED trace
    /\ UNCHANGED <<policy, counters, work, invoked, answered>>

\* MUTANT: only the tools are under the timeout.
ExpireTools == pc = "execute" /\ Interrupted("timeout")

\* asyncio.timeout of the whole run.
Expire == Interrupted("timeout")

Disturb ==
    \/ "cancel" \in faults /\ Interrupted("cancel")
    \/ "database" \in faults /\ pc \in {"record", "complete"} /\ Interrupted("error")

\* MUTANT: the cause is stored as it is.
CauseAsStatus == cause

TerminalStatus == IF cause = "cancel" THEN "cancelled" ELSE "failed"

\* _set_terminal_status, for every cause.
SetTerminalStatus ==
    /\ Goto("terminal", "done")
    /\ run' = [run EXCEPT !.status = TerminalStatus]
    /\ UNCHANGED <<policy, counters, work, cause, trace, invoked, answered>>

\* It is not shielded: it may be interrupted in its turn.
TerminalInterrupted ==
    /\ faults \intersect {"cancel", "database"} # {}
    /\ Goto("terminal", "done")
    /\ \/ run' = [run EXCEPT !.status = TerminalStatus]
       \/ UNCHANGED run
    /\ UNCHANGED <<policy, counters, work, cause, trace, invoked, answered>>

\* The process dies.
Crash ==
    /\ "crash" \in faults
    /\ pc \notin {"start", "done"}
    /\ pc' = "done"
    /\ UNCHANGED <<policy, counters, work, cause, rows, invoked, answered>>

-----------------------------------------------------------------------------
\* What the coroutine does without waiting for a model.
Advance ==
    \/ ResolveAllowedTools \/ CreateRun
    \/ Iterate \/ RecordStep \/ Decide \/ EndBatch \/ CompleteRun
    \/ \E tool \in Tools : BeginCall(tool)
    \/ SetTerminalStatus

Next ==
    \/ Advance
    \/ ModelResponds \/ ModelFails \/ ToolReturns
    \/ Expire \/ Disturb
    \/ CreateInterrupted \/ TerminalInterrupted \/ Crash

Spec == Init /\ [][Next]_vars

\* The event loop runs the coroutine, the database answers and the timer of
\* the run fires.  A model or a tool need never answer.
FairSpec == Spec /\ WF_vars(Advance) /\ WF_vars(Expire)

-----------------------------------------------------------------------------
(* Properties.                                                             *)

\* Every variable and column keeps its type.
TypeOK ==
    /\ faults \subseteq Faults
    /\ requested \subseteq Tools /\ allowed \subseteq Tools /\ invoked \subseteq Tools
    /\ pc \in Locations
    /\ iteration \in Nat /\ stepNumber \in Nat /\ calls \in Nat
    /\ response \in Responses
    /\ todo \in Nat /\ unanswered \in Nat
    /\ step \in Steps
    /\ cause \in {"error", "timeout", "cancel"}
    /\ run \in Runs
    /\ trace \in Seq(Steps)
    /\ answered \in BOOLEAN

ToolSteps == {i \in DOMAIN trace : trace[i].kind = "tool"}

\* Wherever the run is interrupted, its steps are numbered without gap, in
\* the order they were taken, and the counters of its row agree with them.
TraceMatchesRun ==
    /\ \A i \in DOMAIN trace : trace[i].number = i
    /\ run.steps = Len(trace)
    /\ run.tools = Cardinality(ToolSteps)

\* The budgets of the policy bound the model calls, the tool calls and the
\* trace, for every size of a batch of tool calls.
BudgetsHold ==
    /\ iteration <= MaxSteps
    /\ calls <= MaxToolCalls
    /\ Len(trace) <= MaxSteps + MaxToolCalls

\* Whatever a model asks for, only tools that the policy configures and the
\* request asked for are called.
AllowListHolds == invoked \subseteq requested \intersect Configured \intersect Registered

\* The model is called again only when each of its tool calls has a result.
EveryCallAnswered == pc = "generate" => unanswered = 0

\* The caller has a response only of a run that is stored as completed, whose
\* last step is a model step, and so it stays.
AnsweredRunCompleted ==
    answered => /\ run.status = "completed"
                /\ Len(trace) > 0
                /\ trace[Len(trace)].kind = "model"
                /\ trace[Len(trace)].status = "completed"

\* A settled run is not taken up again, its trace is closed, and its outcome
\* is final once it was reported.
SettledStaysSettled ==
    [][run.status \in Terminal =>
          run'.status \in Terminal /\ trace' = trace /\ (answered => run' = run)]_vars

\* A run ends although a model or a tool hangs, and its row is settled unless
\* a fault hinders that: a cancellation, a failing query or a crash.
EveryRunEnds ==
    /\ pc # "start" ~> pc = "done"
    /\ run.status = "running" /\ faults \subseteq {"provider"} ~> run.status \in Terminal

\* A run that is over is not left running.
NoRunLeftRunning == pc = "done" => run.status # "running"

-----------------------------------------------------------------------------
(* The inductive invariant behind the theorems of AgentProofs.             *)

\* The row exists, is running and no step is missing while the loop runs.
LoopInv ==
    /\ pc \in {"start", "create"} =>
          /\ run.status = "absent" /\ run.tools = 0
          /\ stepNumber = 0 /\ todo = 0 /\ unanswered = 0
    /\ pc \in {"iterate", "decide", "nextCall"} \union Awaiting => run.status = "running"
    /\ pc \in {"iterate", "decide", "nextCall", "complete"} => Len(trace) = stepNumber
    /\ pc \in {"generate", "execute", "record"} => Len(trace) + 1 = stepNumber
    /\ pc = "record" => step.number = stepNumber
    /\ run.status = "absent" => trace = <<>> /\ pc \in {"start", "create", "done"}
    /\ stepNumber = iteration + calls
    /\ Len(trace) <= stepNumber
    /\ pc \in {"create", "iterate", "generate", "decide", "nextCall", "complete"} =>
          run.tools = calls
    /\ pc = "execute" => run.tools + 1 = calls
    /\ pc = "record" => run.tools + Results = calls

\* Calls accepted are within the budget.
BudgetInv ==
    /\ iteration <= MaxSteps
    /\ calls + (IF pc = "nextCall" THEN todo ELSE 0) <= MaxToolCalls
    /\ pc \in {"execute", "record"} => calls + todo <= MaxToolCalls
    /\ pc \in {"iterate", "generate", "decide", "complete"} => todo = 0

\* What is not answered is what is still to be executed or recorded.
AnswersInv ==
    /\ pc \in {"iterate", "generate", "decide", "nextCall", "complete"} => unanswered = todo
    /\ pc = "execute" => unanswered = todo + 1
    /\ pc = "record" => unanswered = todo + Results
    /\ pc = "record" /\ step.kind = "model" => todo = 0

\* The last step before a completion is a completed model step; a response is
\* given only once that completion is committed.
OutcomeInv ==
    /\ pc \in {"decide", "complete"} =>
          /\ Len(trace) > 0
          /\ trace[Len(trace)].kind = "model"
          /\ trace[Len(trace)].status = "completed"
    /\ pc # "done" => ~answered

\* The allow-list in force is one the policy accepted.
PolicyInv == allowed \subseteq requested \intersect Configured \intersect Registered

RunInv == LoopInv /\ BudgetInv /\ AnswersInv /\ OutcomeInv /\ PolicyInv
=============================================================================
