----------------------------- MODULE AutoStarts -----------------------------
(***************************************************************************)
(* What starts a run without the user: a goal relaunched after a resumable  *)
(* stop (startAgentRun.ts, goalRelaunchPlan.ts), goals and loops taken up   *)
(* again when the application starts (resumeActiveGoals.ts), and the loop   *)
(* timer of a run (runLoopScheduler.ts), over goal.json (runGoal.ts) and    *)
(* the registry of module RunRegistry, every step of which is composed with *)
(* what it does to the goal and the loop.                                   *)
(*                                                                          *)
(* Delays are left out: a timer that is armed may fire at any time.  The    *)
(* workspace of the run stays open.  A delayed relaunch needs the message   *)
(* of an open circuit breaker, and the breaker of this code never opens.    *)
(***************************************************************************)
EXTENDS RunRegistry

CONSTANTS
    GoalAutoResumeLimit,   \* GOAL_AUTO_RESUME_LIMIT
    MaxHolds,              \* bound: launches refused (no window, spent budget)
    MaxAsks                \* bound: goal and loop requests of the user

ASSUME AutoStartAssumption == GoalAutoResumeLimit \in Nat /\ MaxHolds \in Nat /\ MaxAsks \in Nat

VARIABLES
    goal,         \* status of goal.json; "inert" when there is none, or one the agent proposed
    autoResume,   \* its autoResumeCount
    why,          \* the kind of error status.json reports; meaningful while it reports one
    origin,       \* what started the newest invoke, until its turn begins
    ended,        \* terminalStatus of each invoke, until the finally of startAgentRun read it
    booted,       \* resumedOnce: the goals and loops of the last session were looked at
    loop,         \* status of loop.json
    meta,         \* the scheduler knows the run
    loopTimers,   \* loop timers armed
    prompts,      \* copies of the loop's prompt in the follow-up queue or its file
    unattended,   \* history: resumes at start-up since a turn that someone asked for
    holds, asks   \* how much of each bound is used

goalVars == <<goal, autoResume, unattended>>
endVars == <<why, origin, ended>>
loopVars == <<loop, meta, loopTimers>>
autoVars == <<goalVars, endVars, booted, loopVars, prompts, holds, asks>>
startVars == <<regVars, autoVars>>

\* Asked for by a user's turn, by a loop's prompt (the user's words), or by the goal itself.
Origin == {"user", "loop", "goal"}
Kind == {"plain", "resumable", "quota"}

AutoInit ==
    /\ RegInit
    /\ goal \in {"inert", "active", "paused"} /\ autoResume = 0 /\ unattended = 0
    /\ why = "plain" /\ origin = "user"
    /\ ended = [i \in Invoke |-> "none"]
    /\ booted = FALSE
    /\ loop \in {"none", "armed"} /\ meta = FALSE /\ loopTimers = 0 /\ prompts = 0
    /\ holds = 0 /\ asks = 0

-----------------------------------------------------------------------------
Unplanned(i) == phase[i] = "tail" /\ ended[i] # "none"
QuotaStop == diskStatus = "error" /\ why = "quota"

\* The run takes the slot for a message of this origin.
Launch(o) == Register /\ origin' = o
\* launchRunFollowUpOrStart finds no window, or the spending limits reached.
Held == holds < MaxHolds /\ holds' = holds + 1 /\ UNCHANGED <<regVars, origin>>
LaunchOrHeld(o) == (Launch(o) /\ UNCHANGED holds) \/ Held

\* Mutant: the timer that is still armed is forgotten, not cleared.
ScheduleKeeping == loopTimers' = loopTimers + 1
\* schedule(): the timer of the run is replaced.
Schedule == loopTimers' = 1

DisarmLoop == loop' = (IF loop = "armed" THEN "stopped" ELSE loop) /\ meta' = FALSE /\ loopTimers' = 0

-----------------------------------------------------------------------------
(* The life of an invoke.                                                    *)

UserStarts ==
    /\ Launch("user")
    /\ UNCHANGED <<goalVars, why, ended, booted, loopVars, prompts, holds, asks>>

\* Mutant: every turn counts as someone watching.
TurnBeginsAnyone(i) ==
    /\ Resume(i)
    /\ goal' \in IF origin # "goal" THEN {goal, "active"} ELSE {goal}
    /\ autoResume' = 0
    /\ unattended' = IF origin = "goal" THEN unattended ELSE 0
    /\ why' = "plain" /\ origin' = "user"
    /\ UNCHANGED <<ended, booted, loopVars, prompts, holds, asks>>

\* The run is resumed.  A turn of the user's (or the loop's) words proves that someone is
\* watching; `/goal` in it makes a new goal, active at once.
TurnBegins(i) ==
    /\ Resume(i)
    /\ goal' \in IF origin # "goal" THEN {goal, "active"} ELSE {goal}
    /\ autoResume' = IF origin = "goal" THEN autoResume ELSE 0
    /\ unattended' = IF origin = "goal" THEN unattended ELSE 0
    /\ why' = "plain" /\ origin' = "user"
    /\ UNCHANGED <<ended, booted, loopVars, prompts, holds, asks>>

\* The start fails before the loop, or in its resumeRun, which writes no status.
StartFails(i) ==
    /\ RuntimeRefuses(i) \/ ResumeThrows(i)
    /\ ended' = [ended EXCEPT ![i] = "error"]
    /\ UNCHANGED <<goalVars, why, origin, booted, loopVars, prompts, holds, asks>>

\* A step boundary applies what waits in the queue.
ApplyPrompt(i) ==
    /\ phase[i] = "stepping" /\ prompts > 0 /\ isCurrentInvoke(i) /\ ~slot.aborted
    /\ prompts' = prompts - 1
    /\ UNCHANGED <<regVars, goalVars, endVars, booted, loopVars, holds, asks>>

\* update_goal of the agent's tools, or Mark complete: the loop of the run ends with the goal.
CompleteGoal ==
    /\ present /\ goal # "complete"
    /\ goal' = "complete" /\ DisarmLoop
    /\ UNCHANGED <<regVars, autoResume, unattended, endVars, booted, prompts, holds>>
AgentCompletes(i) == phase[i] = "stepping" /\ CompleteGoal /\ UNCHANGED asks

\* update_goal of the agent's tools takes a paused goal up again.
AgentResumes(i) ==
    /\ phase[i] = "stepping" /\ present /\ goal = "paused"
    /\ goal' = "active"
    /\ UNCHANGED <<regVars, autoResume, unattended, endVars, booted, loopVars, prompts, holds, asks>>

\* create_goal: the goal is a new one, inert until the user starts it; it takes the place of
\* a goal that is over or that the agent had proposed.
ProposeGoal(i) ==
    /\ phase[i] = "stepping" /\ present /\ goal # "inert"
    /\ goal' = "inert" /\ autoResume' = 0
    /\ UNCHANGED <<regVars, unattended, endVars, booted, loopVars, prompts, holds, asks>>

\* The turn closes with nothing queued; the auto-continue budget may pause the goal.
TurnCloses(i) ==
    /\ prompts = 0 /\ CloseTurn(i)
    /\ goal' \in IF goal = "active" THEN {goal, "paused"} ELSE {goal}
    /\ UNCHANGED <<autoResume, unattended, endVars, booted, loopVars, prompts, holds, asks>>

\* The invoke ends as s; an error says of which kind.  A resumable stop keeps the queue for
\* the continue, the limits keep it or drop it, the other ends drop it.
Ends(i, s, kind) ==
    /\ ended' = [ended EXCEPT ![i] = s]
    /\ why' = IF s = "error" /\ isCurrentInvoke(i) THEN kind ELSE why
    /\ prompts' \in CASE s = "done" -> {0, prompts}
                      [] s = "error" /\ kind # "plain" -> {prompts}
                      [] OTHER -> {0}
    /\ UNCHANGED <<goalVars, origin, booted, loopVars, holds, asks>>
InvokeEnds(i) ==
    \/ EndTurn(i, "done") /\ Ends(i, "done", "plain")
    \/ EndTurn(i, "error") /\ Ends(i, "error", "plain")
    \/ Stop(i, "done") /\ Ends(i, "done", "plain")
    \/ \E kind \in Kind : Stop(i, "error") /\ Ends(i, "error", kind)
    \/ StopCancelled(i) /\ Ends(i, "cancelled", "plain")

\* Mutant: the relaunch looks at the event the invoke sent, not at the status it left.
RelaunchesOnEvent(i) == ended[i] = "error" /\ present /\ goal = "active" /\ ~isActive
\* planGoalRelaunch, asked in the callback that ends the invoke's generator.
Relaunches(i) ==
    /\ ended[i] = "error" /\ present /\ diskStatus = "error" /\ why = "resumable"
    /\ goal = "active" /\ ~isActive

\* Mutant: an error ends the goal's run for good.
PlanNothing(i) ==
    /\ Unplanned(i) /\ ended' = [ended EXCEPT ![i] = "none"]
    /\ UNCHANGED <<regVars, origin, holds>>
    /\ UNCHANGED <<goalVars, why, booted, loopVars, prompts, asks>>
Plan(i) ==
    /\ Unplanned(i) /\ ended' = [ended EXCEPT ![i] = "none"]
    /\ IF Relaunches(i) /\ invokes < MaxInvokes
       THEN LaunchOrHeld("goal")
       ELSE UNCHANGED <<regVars, origin, holds>>
    /\ UNCHANGED <<goalVars, why, booted, loopVars, prompts, asks>>

InvokeGoesOn(i) ==
    /\ \/ WriteStep(i) \/ Hang(i) \/ Unhang(i) \/ FinallyFlushed(i) \/ FinallyFails(i)
       \/ ReleaseSlot(i) \/ EndTail(i)
    /\ UNCHANGED autoVars

-----------------------------------------------------------------------------
(* Start-up, the loop timer, the user.                                       *)

\* bumpGoalAutoResume goes to disk before the launch.
BumpGoalAutoResume == autoResume' = autoResume + 1

GoalWaits ==
    present /\ goal = "active" /\ ~QuotaStop /\ ~isActive /\ autoResume < GoalAutoResumeLimit
\* resumeActiveGoalsAndLoops, once per process, when the window has painted.
Boot ==
    /\ ~booted /\ booted' = TRUE
    /\ IF present /\ loop = "armed" THEN meta' = TRUE /\ Schedule
                                    ELSE UNCHANGED <<meta, loopTimers>>
    /\ IF GoalWaits /\ invokes < MaxInvokes
       THEN /\ BumpGoalAutoResume
            /\ LaunchOrHeld("goal") /\ unattended' = unattended + 1
       ELSE UNCHANGED <<regVars, origin, holds, autoResume, unattended>>
    /\ UNCHANGED <<goal, why, ended, loop, prompts, asks>>

\* Mutant: the prompt is queued again at every tick.
QueuedAlreadyNever == FALSE
QueuedAlready == isActive /\ prompts > 0
\* enqueueFollowUp refuses a run that was cancelled or is finishing.
TakesFollowUp == isActive /\ ~slot.aborted /\ ~slot.turnComplete

\* onTick.  The loop is gone or over; it is held; its prompt is queued or waits already; it
\* starts the run; or nobody can take it yet and it is tried again.
OnTick ==
    /\ loopTimers > 0
    /\ \/ /\ ~present \/ loop # "armed" \/ goal = "complete"
          /\ meta' = FALSE /\ loopTimers' = loopTimers - 1
          /\ UNCHANGED <<regVars, origin, prompts, holds>>
       \/ /\ present /\ loop = "armed" /\ goal # "complete"
          /\ Schedule /\ UNCHANGED meta
          /\ \/ /\ goal = "paused" \/ QuotaStop
                /\ UNCHANGED <<regVars, origin, prompts, holds>>
             \/ /\ goal # "paused" /\ ~QuotaStop /\ isActive
                /\ prompts' = IF ~QueuedAlready /\ TakesFollowUp THEN prompts + 1 ELSE prompts
                /\ UNCHANGED <<regVars, origin, holds>>
             \/ /\ goal # "paused" /\ ~QuotaStop /\ ~isActive
                /\ LaunchOrHeld("loop") /\ UNCHANGED prompts
    /\ UNCHANGED <<goalVars, why, ended, booted, loop, asks>>

Asked == present /\ asks < MaxAsks /\ asks' = asks + 1

UserCompletes == CompleteGoal /\ Asked

PauseGoal ==
    /\ Asked /\ goal = "active" /\ goal' = "paused"
    /\ UNCHANGED <<regVars, autoResume, unattended, endVars, booted, loopVars, prompts, holds>>

\* activateGoalByUser; an idle run is started at once unless an armed loop will do it.
ResumeGoal ==
    /\ Asked /\ goal # "complete" /\ goal' = "active"
    /\ autoResume' = IF goal = "active" THEN autoResume ELSE 0
    /\ unattended' = IF goal = "active" THEN unattended ELSE 0
    /\ IF isActive \/ loop = "armed" THEN UNCHANGED <<regVars, origin, holds>>
                                      ELSE LaunchOrHeld("goal")
    /\ UNCHANGED <<why, ended, booted, loopVars, prompts>>

ArmLoop ==
    /\ Asked /\ loop' = "armed" /\ meta' = TRUE /\ Schedule
    /\ UNCHANGED <<regVars, goalVars, endVars, booted, prompts, holds>>
StopLoop ==
    /\ Asked /\ loop = "armed" /\ DisarmLoop
    /\ UNCHANGED <<regVars, goalVars, endVars, booted, prompts, holds>>

CancelRun ==
    /\ Cancel /\ prompts' = 0
    /\ UNCHANGED <<goalVars, endVars, booted, loopVars, holds, asks>>

OthersGoOn ==
    /\ \/ ForceFinish \/ StatusLands \/ SweepFindsOrphan \/ SweepWrites
       \/ DeleteBegins \/ DeleteDrained \/ DeleteMoves
    /\ UNCHANGED autoVars

ProcessDies ==
    /\ Crash
    /\ booted' = FALSE /\ meta' = FALSE /\ loopTimers' = 0
    /\ UNCHANGED <<goalVars, endVars, loop, prompts, holds, asks>>

-----------------------------------------------------------------------------
AutoInvokeStep(i) ==
    \/ TurnBegins(i) \/ StartFails(i) \/ ApplyPrompt(i) \/ AgentCompletes(i) \/ AgentResumes(i)
    \/ ProposeGoal(i) \/ TurnCloses(i) \/ InvokeEnds(i) \/ InvokeGoesOn(i)

\* The end of a generator and the decision about a relaunch are one turn of the event loop.
AutoNext ==
    \/ \E i \in Invoke : Plan(i)
    \/ /\ \A i \in Invoke : ~Unplanned(i)
       /\ \/ \E i \in Invoke : AutoInvokeStep(i)
          \/ UserStarts \/ Boot \/ OnTick
          \/ UserCompletes \/ PauseGoal \/ ResumeGoal \/ ArmLoop \/ StopLoop \/ CancelRun
          \/ OthersGoOn \/ ProcessDies

AutoSpec == AutoInit /\ [][AutoNext]_startVars

\* As in FollowUps: an invoke that does not hang goes on; the window paints after a start.
Goes(i) ==
    /\ \A k \in Invoke : ~Unplanned(k)
    /\ \/ TurnBegins(i) \/ TurnCloses(i) \/ ApplyPrompt(i) \/ InvokeEnds(i)
       \/ (FinallyFlushed(i) \/ FinallyFails(i) \/ ReleaseSlot(i) \/ EndTail(i)) /\ UNCHANGED autoVars
AutoFairSpec ==
    /\ AutoSpec
    /\ \A i \in Invoke : WF_startVars(Plan(i)) /\ WF_startVars(Goes(i))
    /\ WF_startVars(StatusLands /\ UNCHANGED autoVars /\ \A i \in Invoke : ~Unplanned(i))
    /\ WF_startVars((Boot \/ OnTick) /\ \A i \in Invoke : ~Unplanned(i))

-----------------------------------------------------------------------------
\* The shape of the state.
AutoTypeOK ==
    /\ RegTypeOK
    /\ goal \in {"inert", "active", "paused", "complete"}
    /\ autoResume \in 0..GoalAutoResumeLimit /\ unattended \in Nat
    /\ why \in Kind /\ origin \in Origin
    /\ ended \in [Invoke -> {"none", "done", "error", "cancelled"}]
    /\ booted \in BOOLEAN
    /\ loop \in {"none", "armed", "stopped"} /\ meta \in BOOLEAN
    /\ loopTimers \in Nat /\ prompts \in Nat
    /\ holds \in 0..MaxHolds /\ asks \in 0..MaxAsks

\* A goal is resumed at start-up at most GOAL_AUTO_RESUME_LIMIT times without a turn someone
\* asked for, however the process dies: between the count and the launch, or before the turn.
BootResumesBounded == unattended <= GoalAutoResumeLimit

\* One loop timer per run the scheduler knows and none for others, over starts, stops, goals
\* that end, deletions and re-arming: a loop neither doubles, nor leaks, nor dies in memory.
LoopIsTicking ==
    /\ loopTimers = IF meta THEN 1 ELSE 0
    /\ meta /\ present => loop = "armed"

\* The prompt of a loop waits at most once, however long the turn outlasts the interval, and
\* whether the copy is in memory or was kept on disk by a resumable stop.
PromptsNotStacked == prompts <= 1

\* A run that stopped on an exhausted plan is started only by the user.
QuotaWaitsForUser ==
    [][QuotaStop /\ invokes' > invokes => origin' = "user" \/ asks' > asks]_startVars

\* Only the user makes a goal active: by a request of the banner, or by `/goal` in a turn.
OnlyUserActivates ==
    [][goal # "active" /\ goal' = "active" =>
         asks' > asks \/ \E i \in Invoke : phase[i] = "starting" /\ phase'[i] = "stepping"]_startVars

\* An active goal whose run stopped resumably, or whose process died, is taken up again: by
\* the relaunch, at start-up, or by the tick of a loop the user did not stop.  A stop whose
\* status the finally could not write waits for the next start-up.
Owed ==
    /\ present /\ goal = "active" /\ loop # "stopped" /\ ~isActive /\ invokes < MaxInvokes
    /\ holds = 0 /\ refusals = 0 /\ autoResume < GoalAutoResumeLimit
    /\ (diskStatus = "error" /\ why = "resumable" /\ ~unsaved) \/ (~booted /\ ~QuotaStop)
GoalIsTakenUp == Owed ~> ~Owed
=============================================================================
