------------------------------- MODULE ToolStep -------------------------------
(***************************************************************************)
(* The tool calls of a step, and the prompts they wait on: the groups of a  *)
(* step, their parallel batches and the order of their results              *)
(* (executeStepTools.ts), the approval gate (toolApproval.ts), the question *)
(* of ask_question (agentQuestion.ts, tools/index.ts), Send now and cancel, *)
(* over the registry slot of module RunRegistry.                            *)
(*                                                                          *)
(* A call is named by its place in the step.  What a tool does is left out: *)
(* it returns, fails, sees the abort, or throws.  A tool that ignores the   *)
(* abort is one that has not returned; its deadline makes it return.        *)
(***************************************************************************)
EXTENDS RunRegistry, Sequences, FiniteSets

SX == INSTANCE SequencesExt

CONSTANTS
    Names,         \* tool names
    Paths,         \* workspace paths
    NoPath,        \* the call names no path, or a rooted one
    Steps,         \* the call lists a model may answer with
    ReadCap,       \* MAX_PARALLEL_READ_TOOLS
    MutationCap,   \* MAX_PARALLEL_MUTATION_TOOLS
    MaxSteps,      \* bound: steps with tool calls
    MaxSendNows,   \* bound: queued messages sent now
    MaxFaults      \* bound: calls that throw, rows that cannot be written

AskQuestion == "ask_question"
TodoWrite == "todo_write"

\* gate: what the rules of this run say before anybody is asked: nothing, ask unless granted,
\* ask whatever is granted (the command guard, an ask rule), or deny.
Call == [name : Names, class : {"read", "mutation", "spawn", "await", "serial"},
         path : Paths \cup {NoPath}, gate : {"open", "ask", "held", "deny"}]

ASSUME StepAssumption ==
    /\ NoPath \notin Paths
    /\ \A s \in Steps :
         s \in Seq(Call) /\ \A k \in DOMAIN s : s[k].name = AskQuestion => s[k].class = "serial"
    /\ ReadCap \in Nat \ {0} /\ MutationCap \in Nat \ {0}
    /\ MaxSteps \in Nat /\ MaxSendNows \in Nat /\ MaxFaults \in Nat

VARIABLES
    step,       \* of each invoke: its current step's executeStepToolCalls
    plan,       \* its calls, as they are executed
    groups,     \* groupStepToolCalls of them
    at,         \* how many of its groups have begun
    calls,      \* where each call is
    rows,       \* its results in messages.jsonl, in order
    soft,       \* its streamInterrupt is aborted
    allow,      \* sessionAllowlist and workspaceAllowlist of its approval gate
    granted,    \* names the user allowed for more than one call: handed to be saved
    sender,     \* the invoke whose window gets the prompts of the run, or NoSender
    yes,        \* history: calls of the step the user allowed
    steps, sendNows, faults    \* how much of each bound is used

workVars == <<step, plan, groups, at, calls, rows, soft>>
gateVars == <<allow, granted, yes>>
boundVars == <<steps, sendNows, faults>>
stepVars == <<workVars, gateVars, sender, boundVars>>
vars == <<regVars, stepVars>>

NoSender == 0
Open == {"asking", "question"}
Settled == {"result", "refused", "stopped", "held", "threw"}

Init ==
    /\ RegInit
    /\ step = [i \in Invoke |-> "none"]
    /\ plan = [i \in Invoke |-> <<>>] /\ groups = [i \in Invoke |-> <<>>]
    /\ at = [i \in Invoke |-> 0]
    /\ calls = [i \in Invoke |-> <<>>] /\ rows = [i \in Invoke |-> <<>>]
    /\ soft = [i \in Invoke |-> FALSE]
    /\ allow = [i \in Invoke |-> {}] /\ granted = {}
    /\ sender = NoSender
    /\ yes = [i \in Invoke |-> {}]
    /\ steps = 0 /\ sendNows = 0 /\ faults = 0

-----------------------------------------------------------------------------
(* Which calls of a step run together.                                      *)

\* The calls of some tools, in their order: a function over the prefixes of list so that it can
\* be proved about.
Selected(list, names) ==
    LET kept[n \in 0 .. Len(list)] ==
            IF n = 0 THEN <<>>
            ELSE IF list[n].name \in names THEN Append(kept[n - 1], list[n])
            ELSE kept[n - 1]
    IN kept[Len(list)]

\* todo_write goes first, the rest keep their order.
Hoisted(list) == Selected(list, {TodoWrite}) \o Selected(list, Names \ {TodoWrite})

Cap(class, list) ==
    CASE class = "read" -> ReadCap [] class = "mutation" -> MutationCap [] OTHER -> Len(list)

Chunks(batch, size) ==
    [k \in 1 .. (Len(batch) + size - 1) \div size |->
        SubSeq(batch, (k - 1) * size + 1, IF k * size < Len(batch) THEN k * size ELSE Len(batch))]

\* Mutant: two changes of one file may share a group.
SharesAnyPath(list, batch, n) == list[batch[1]].class = list[n].class
\* A call joins the batch before it when that is of its class and changes other files.
Shares(list, batch, n) ==
    /\ list[batch[1]].class = list[n].class
    /\ list[n].class = "mutation" => \A k \in DOMAIN batch : list[batch[k]].path # list[n].path

\* A serial call, or a change whose file is not known, is alone.
Alone(list, n) ==
    \/ list[n].class = "serial"
    \/ list[n].class = "mutation" /\ list[n].path = NoPath

\* flushBatch: the batch goes behind the groups, cut to the size of its class.
Flushed(list, acc) ==
    IF acc.batch = <<>> THEN acc.groups
    ELSE acc.groups \o Chunks(acc.batch, Cap(list[acc.batch[1]].class, list))

\* The next call: a group of its own, or the batch before it, or a new batch.
Add(list, acc, n) ==
    CASE Alone(list, n) -> [groups |-> Append(Flushed(list, acc), <<n>>), batch |-> <<>>]
      [] ~Alone(list, n) /\ acc.batch # <<>> /\ Shares(list, acc.batch, n) ->
            [acc EXCEPT !.batch = Append(@, n)]
      [] OTHER -> [groups |-> Flushed(list, acc), batch |-> <<n>>]

\* Consecutive calls that may run together.
GroupsOf(list) ==
    LET upTo[n \in 0 .. Len(list)] ==
            IF n = 0 THEN [groups |-> <<>>, batch |-> <<>>] ELSE Add(list, upTo[n - 1], n)
    IN Flushed(list, upTo[Len(list)])

Group(i) == SX!ToSet(groups[i][at[i]])
-----------------------------------------------------------------------------
\* ctx.signal: the run's abort, or the step's own.
Stopped(i) == soft[i] \/ (isCurrentInvoke(i) /\ slot.aborted)
Running(i) == step[i] = "running"

Put(i, c, state) == calls' = [calls EXCEPT ![i][c] = state]

\* Prompts are settled once, and leave the map of pending ones as they are.
Closed(invokesOf, kinds, state) ==
    [i \in Invoke |-> [c \in DOMAIN calls[i] |->
        IF i \in invokesOf /\ calls[i][c] \in kinds THEN state ELSE calls[i][c]]]

\* The model has answered with calls; the step has its own streamInterrupt.
StepBegins(i, list) ==
    /\ phase[i] = "stepping" /\ isCurrentInvoke(i) /\ ~slot.aborted
    /\ step[i] \in {"none", "settled"}
    /\ steps < MaxSteps
    /\ step' = [step EXCEPT ![i] = "running"]
    /\ plan' = [plan EXCEPT ![i] = Hoisted(list)]
    /\ groups' = [groups EXCEPT ![i] = GroupsOf(Hoisted(list))]
    /\ at' = [at EXCEPT ![i] = 0]
    /\ calls' = [calls EXCEPT ![i] = [c \in DOMAIN Hoisted(list) |-> "todo"]]
    /\ rows' = [rows EXCEPT ![i] = <<>>]
    /\ soft' = [soft EXCEPT ![i] = FALSE]
    /\ yes' = [yes EXCEPT ![i] = {}]
    /\ steps' = steps + 1
    /\ UNCHANGED <<regVars, allow, granted, sender, sendNows, faults>>

GroupIsSettled(i) == at[i] > 0 /\ \A c \in Group(i) : calls[i][c] \in Settled
\* The group before the next one has come back, and its results are on disk.
GroupIsWritten(i) ==
    at[i] > 0 => GroupIsSettled(i) /\ Group(i) \subseteq SX!ToSet(rows[i])

\* Mutant: nothing is held.
NeverHeld(i) == FALSE
\* heldForAnswer: an ask_question call of this step has come back.
HeldForAnswer(i) ==
    \E c \in DOMAIN plan[i] : plan[i][c].name = AskQuestion /\ calls[i][c] \in Settled

\* The calls of a group begin together, or none of them does.
StartGroup(i) ==
    /\ Running(i) /\ GroupIsWritten(i) /\ at[i] < Len(groups[i])
    /\ at' = [at EXCEPT ![i] = @ + 1]
    /\ LET next == SX!ToSet(groups[i][at[i] + 1])
           state == IF Stopped(i) THEN "stopped"
                    ELSE IF HeldForAnswer(i) THEN "held" ELSE "authorizing"
       IN calls' = [calls EXCEPT ![i] = [c \in DOMAIN @ |-> IF c \in next THEN state ELSE @[c]]]
    /\ UNCHANGED <<regVars, step, plan, groups, rows, soft, gateVars, sender, boundVars>>
-----------------------------------------------------------------------------
(* One call: the gate, the prompt, the tool.                                *)

\* Mutant: a standing grant covers what the guard holds.
MustAskUnlessGranted(i, c) ==
    plan[i][c].gate \in {"ask", "held"} /\ plan[i][c].name \notin allow[i]
MustAsk(i, c) ==
    \/ plan[i][c].gate = "held"
    \/ plan[i][c].gate = "ask" /\ plan[i][c].name \notin allow[i]

\* Mutant: an interrupted step still puts its card up.
AuthorizeUnaware(i, c) ==
    /\ calls[i][c] = "authorizing"
    /\ Put(i, c, IF plan[i][c].gate = "deny" THEN "refused"
                 ELSE IF ~MustAsk(i, c) THEN "cleared"
                 ELSE IF sender = NoSender THEN "refused" ELSE "asking")
    /\ UNCHANGED <<regVars, step, plan, groups, at, rows, soft, gateVars, sender, boundVars>>
\* authorize, past its await: a rule decides, or the window is asked; nobody is listening; the
\* step was stopped meanwhile.
Authorize(i, c) ==
    /\ calls[i][c] = "authorizing"
    /\ Put(i, c, IF plan[i][c].gate = "deny" THEN "refused"
                 ELSE IF ~MustAsk(i, c) THEN "cleared"
                 ELSE IF sender = NoSender THEN "refused"
                 ELSE IF Stopped(i) THEN "stopped" ELSE "asking")
    /\ UNCHANGED <<regVars, step, plan, groups, at, rows, soft, gateVars, sender, boundVars>>

\* The card is answered, or nobody answers it in the time the setting allows.  A call that is
\* held is allowed this once only.
Deny(i, c) ==
    /\ calls[i][c] = "asking"
    /\ Put(i, c, "refused")
    /\ UNCHANGED <<regVars, step, plan, groups, at, rows, soft, gateVars, sender, boundVars>>

Allow(i, c) ==
    /\ calls[i][c] = "asking"
    /\ Put(i, c, "cleared")
    /\ yes' = [yes EXCEPT ![i] = @ \cup {c}]
    /\ UNCHANGED <<regVars, step, plan, groups, at, rows, soft, allow, granted, sender, boundVars>>

\* Allow for this task, or always: siblings asked already stay asked.
AllowMore(i, c) ==
    /\ calls[i][c] = "asking" /\ plan[i][c].gate = "ask"
    /\ Put(i, c, "cleared")
    /\ allow' = [allow EXCEPT ![i] = @ \cup {plan[i][c].name}]
    /\ granted' = granted \cup {plan[i][c].name}
    /\ yes' = [yes EXCEPT ![i] = @ \cup {c}]
    /\ UNCHANGED <<regVars, step, plan, groups, at, rows, soft, sender, boundVars>>

\* A PreToolUse hook refuses the call.
HookBlocks(i, c) ==
    /\ calls[i][c] = "cleared"
    /\ Put(i, c, "refused")
    /\ UNCHANGED <<regVars, step, plan, groups, at, rows, soft, gateVars, sender, boundVars>>

\* executeTool and the handler of ask_question look at the signal before anything else.
Execute(i, c) ==
    /\ calls[i][c] = "cleared"
    /\ Put(i, c, IF Stopped(i) THEN "stopped"
                 ELSE IF plan[i][c].name # AskQuestion THEN "running"
                 ELSE IF sender = NoSender THEN "result" ELSE "question")
    /\ UNCHANGED <<regVars, step, plan, groups, at, rows, soft, gateVars, sender, boundVars>>

\* Mutant: no deadline; a tool that does not see the abort does not come back.
ToolReturnsInTime(i, c) ==
    /\ calls[i][c] = "running" /\ ~Stopped(i)
    /\ Put(i, c, "result")
    /\ UNCHANGED <<regVars, step, plan, groups, at, rows, soft, gateVars, sender, boundVars>>
\* The tool returns, or its deadline does.
ToolReturns(i, c) ==
    /\ calls[i][c] = "running"
    /\ Put(i, c, "result")
    /\ UNCHANGED <<regVars, step, plan, groups, at, rows, soft, gateVars, sender, boundVars>>

ToolStops(i, c) ==
    /\ calls[i][c] = "running" /\ Stopped(i)
    /\ Put(i, c, "stopped")
    /\ UNCHANGED <<regVars, step, plan, groups, at, rows, soft, gateVars, sender, boundVars>>

ToolThrows(i, c) ==
    /\ calls[i][c] = "running" /\ faults < MaxFaults
    /\ faults' = faults + 1
    /\ Put(i, c, "threw")
    /\ UNCHANGED <<regVars, step, plan, groups, at, rows, soft, gateVars, sender, steps, sendNows>>

\* The question is answered, or the window cannot show it.  There is no time limit.
AnswerQuestion(i, c) ==
    /\ calls[i][c] = "question"
    /\ Put(i, c, "result")
    /\ UNCHANGED <<regVars, step, plan, groups, at, rows, soft, gateVars, sender, boundVars>>

CallStep(i, c) ==
    \/ Authorize(i, c) \/ Deny(i, c) \/ Allow(i, c) \/ AllowMore(i, c) \/ HookBlocks(i, c)
    \/ Execute(i, c) \/ ToolReturns(i, c) \/ ToolStops(i, c) \/ ToolThrows(i, c)
    \/ AnswerQuestion(i, c)
-----------------------------------------------------------------------------
(* The results.                                                             *)

Threw(i) == {c \in Group(i) : calls[i][c] = "threw"}
Unwritten(i) == {c \in Group(i) \ Threw(i) : c \notin SX!ToSet(rows[i])}

\* collect: once the whole group is settled, a row for each in call order, on disk before the
\* next; a call that threw has none.
WriteNext(i) ==
    /\ Running(i) /\ GroupIsSettled(i) /\ Unwritten(i) # {}
    /\ rows' = [rows EXCEPT ![i] = Append(@, CHOOSE c \in Unwritten(i) : \A d \in Unwritten(i) : c <= d)]
    /\ UNCHANGED <<regVars, step, plan, groups, at, calls, soft, gateVars, sender, boundVars>>

End(i, how) ==
    /\ step' = [step EXCEPT ![i] = how]
    /\ UNCHANGED <<regVars, plan, groups, at, calls, rows, soft, gateVars, sender>>

WriteFails(i) ==
    /\ Running(i) /\ GroupIsSettled(i) /\ Unwritten(i) # {} /\ faults < MaxFaults
    /\ faults' = faults + 1
    /\ End(i, "unsaved")
    /\ UNCHANGED <<steps, sendNows>>

\* Mutant: the error comes before the results of the others.
StepThrowsAtOnce(i) ==
    /\ Running(i) /\ GroupIsSettled(i) /\ Threw(i) # {}
    /\ End(i, "threw")
    /\ UNCHANGED boundVars
\* The error of a call ends the step when the others of its group are written.
StepThrows(i) ==
    /\ Running(i) /\ GroupIsSettled(i) /\ Unwritten(i) = {} /\ Threw(i) # {}
    /\ End(i, "threw")
    /\ UNCHANGED boundVars

StepEnds(i) ==
    /\ Running(i) /\ GroupIsWritten(i) /\ at[i] = Len(groups[i])
    /\ End(i, "settled")
    /\ UNCHANGED boundVars
-----------------------------------------------------------------------------
(* What stops a step, and the invoke around it.                             *)

\* Mutant: Send now aborts the step and leaves the question to the user.
SendNowOnly(i) ==
    /\ Running(i) /\ isCurrentInvoke(i) /\ ~slot.aborted
    /\ sendNows < MaxSendNows
    /\ sendNows' = sendNows + 1
    /\ soft' = [soft EXCEPT ![i] = TRUE]
    /\ calls' = Closed({i}, {"asking"}, "stopped")
    /\ UNCHANGED <<regVars, step, plan, groups, at, rows, gateVars, sender, steps, faults>>
\* promoteFollowUp: the step is interrupted, an approval with it; a question is settled as
\* answered by the message.
SendNow(i) ==
    /\ Running(i) /\ isCurrentInvoke(i) /\ ~slot.aborted
    /\ sendNows < MaxSendNows
    /\ sendNows' = sendNows + 1
    /\ soft' = [soft EXCEPT ![i] = TRUE]
    /\ calls' = [j \in Invoke |-> [c \in DOMAIN calls[j] |->
                    IF j = i /\ calls[j][c] = "asking" THEN "stopped"
                    ELSE IF j = i /\ calls[j][c] = "question" THEN "result"
                    ELSE calls[j][c]]]
    /\ UNCHANGED <<regVars, step, plan, groups, at, rows, gateVars, sender, steps, faults>>

\* cancelRunCore closes every prompt of the run.
CancelRun ==
    /\ Cancel
    /\ soft' = [i \in Invoke |-> soft[i] \/ (Running(i) /\ isCurrentInvoke(i))]
    /\ calls' = Closed(Invoke, Open, "stopped")
    /\ UNCHANGED <<step, plan, groups, at, rows, gateVars, sender, boundVars>>

\* The prompts of a run belong to the window that started its newest invoke.
Launch ==
    /\ Register
    /\ sender' = invokes'
    /\ UNCHANGED <<workVars, gateVars, boundVars>>

\* The loop makes the gate of the invoke from the grants of the task and the workspace; one whose
\* write has not landed, or whose file cannot be read, is not among them.
LoopBegins(i) ==
    /\ Resume(i)
    /\ \E known \in SUBSET granted : allow' = [allow EXCEPT ![i] = known]
    /\ UNCHANGED <<workVars, granted, yes, sender, boundVars>>

\* Mutants: the tail takes the prompts of the run; it takes the window of whoever has it.
TailTakesAll(i) ==
    /\ EndTail(i)
    /\ sender' = IF sender = i THEN NoSender ELSE sender
    /\ calls' = Closed(Invoke, Open, "stopped")
    /\ UNCHANGED <<step, plan, groups, at, rows, soft, gateVars, boundVars>>
TailTakesWindow(i) ==
    /\ EndTail(i)
    /\ sender' = NoSender
    /\ calls' = Closed({i}, Open, "stopped")
    /\ UNCHANGED <<step, plan, groups, at, rows, soft, gateVars, boundVars>>
\* startAgentRun's finally gives back its own window and closes the prompts of its own invoke.
TailEnds(i) ==
    /\ EndTail(i)
    /\ sender' = IF sender = i THEN NoSender ELSE sender
    /\ calls' = Closed({i}, Open, "stopped")
    /\ UNCHANGED <<step, plan, groups, at, rows, soft, gateVars, boundVars>>

\* The loop goes on to its end only between steps, and a step that failed ends the run; its last
\* step and its gate are forgotten.
LeaveLoop(i) ==
    /\ ~Running(i)
    /\ \/ step[i] \in {"none", "settled"} /\ (CloseTurn(i) \/ Stop(i, "done"))
       \/ Stop(i, "error") \/ StopCancelled(i)
    /\ step' = [step EXCEPT ![i] = "none"]
    /\ plan' = [plan EXCEPT ![i] = <<>>] /\ groups' = [groups EXCEPT ![i] = <<>>]
    /\ at' = [at EXCEPT ![i] = 0] /\ calls' = [calls EXCEPT ![i] = <<>>]
    /\ rows' = [rows EXCEPT ![i] = <<>>] /\ soft' = [soft EXCEPT ![i] = FALSE]
    /\ yes' = [yes EXCEPT ![i] = {}] /\ allow' = [allow EXCEPT ![i] = {}]
    /\ UNCHANGED <<granted, sender, boundVars>>

RegistryOnly(i) ==
    /\ \/ RuntimeRefuses(i) \/ ResumeThrows(i) \/ WriteStep(i)
       \/ \E s \in {"done", "error"} : EndTurn(i, s)
       \/ FinallyFlushed(i) \/ FinallyFails(i) \/ ReleaseSlot(i)
    /\ UNCHANGED stepVars

ResultStep(i) ==
    \/ StartGroup(i) \/ WriteNext(i) \/ WriteFails(i) \/ StepThrows(i) \/ StepEnds(i)

Next ==
    \/ Launch \/ CancelRun
    \/ (ForceFinish \/ StatusLands) /\ UNCHANGED stepVars
    \/ \E i \in Invoke :
         \/ LoopBegins(i) \/ TailEnds(i) \/ LeaveLoop(i) \/ RegistryOnly(i)
         \/ (\E list \in Steps : StepBegins(i, list)) \/ ResultStep(i) \/ SendNow(i)
         \/ \E c \in DOMAIN calls[i] : CallStep(i, c)

Spec == Init /\ [][Next]_vars

\* A step goes on without the user: its awaits settle, its tools return or meet their deadline
\* (await_agent_instance has a limit of its own), its rows are written or fail.
Forward(i) ==
    \/ StartGroup(i) \/ WriteNext(i) \/ StepThrows(i) \/ StepEnds(i)
    \/ \E c \in DOMAIN calls[i] : Authorize(i, c) \/ Execute(i, c) \/ ToolReturns(i, c)

FairSpec == Spec /\ \A i \in Invoke : WF_vars(Forward(i))
-----------------------------------------------------------------------------
(* What a step promises.                                                    *)

Began(i) == {c \in DOMAIN calls[i] : calls[i][c] \in {"running", "question", "result", "threw"}}
Before(i, c) == {d \in DOMAIN calls[i] : d < c}

\* A gated call runs only on a yes to its own card or a standing grant of the user, a held one
\* only on its own yes, a denied one never; no late answer, grant of another call or restart of
\* the gate lets one through.
RunsOnYes ==
    \A i \in Invoke : \A c \in Began(i) :
        /\ plan[i][c].gate = "ask" => c \in yes[i] \/ plan[i][c].name \in granted
        /\ plan[i][c].gate = "held" => c \in yes[i]
        /\ plan[i][c].gate # "deny"

\* What was written before the user answered does not run after it (executeStepTools.ts: "running
\* it could act against the answer"), and no two calls at once change one file, or change one
\* while others read.
RunsInItsTurn ==
    \A i \in Invoke : \A c \in Began(i) :
        /\ \A d \in Before(i, c) : plan[i][d].name # AskQuestion
        /\ calls[i][c] = "running" =>
             \A d \in Before(i, c) : calls[i][d] = "running" =>
                /\ plan[i][c].class = plan[i][d].class /\ plan[i][c].class # "serial"
                /\ plan[i][c].class = "mutation" => plan[i][c].path # plan[i][d].path

\* The transcript has the results in the order of the calls, without a gap when the step ends
\* well; the work of a call is recorded even when a sibling fails ("siblings that already finished
\* wrote to disk"), and before a call of a later group begins ("before the next tool mutates the
\* workspace").
ResultsAreRecorded ==
    \A i \in Invoke :
        /\ \A j, k \in DOMAIN rows[i] : j < k => rows[i][j] < rows[i][k]
        /\ step[i] = "settled" => Len(rows[i]) = Len(plan[i])
        /\ step[i] = "threw" =>
             \A c \in DOMAIN calls[i] : calls[i][c] = "result" => c \in SX!ToSet(rows[i])
        /\ at[i] > 0 => \A c \in Group(i) : calls[i][c] \notin Settled =>
             \A d \in Before(i, c) \ Group(i) : d \in SX!ToSet(rows[i])

StepInOrder == RunsInItsTurn /\ ResultsAreRecorded

\* A card on the screen is of a step that waits for it: its run is neither cancelled nor
\* interrupted, and the window it is shown in is the one its answer comes from.  A loop that
\* works always has a window to ask.
PromptIsLive ==
    \A i \in Invoke :
        /\ \A c \in DOMAIN calls[i] : calls[i][c] \in Open => Running(i) /\ ~Stopped(i)
        /\ phase[i] \in InLoop => sender = i

\* Nothing but its own run's cancel or Send now takes a card away from the user: not the end of
\* the invoke before ("a prior turn's IPC finally cannot auto-abort the active follow-up turn").
PromptIsKept ==
    [][\A i \in Invoke : \A c \in DOMAIN calls[i] :
          calls[i][c] \in Open /\ calls'[i][c] = "stopped" => Stopped(i)']_vars

\* A step that is cancelled or interrupted comes to its end, whatever it was waiting for.
StepSettles == \A i \in Invoke : (Running(i) /\ Stopped(i)) ~> ~Running(i)
=============================================================================
