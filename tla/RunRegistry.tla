---------------------------- MODULE RunRegistry ----------------------------
(***************************************************************************)
(* The registry slot of one run and everything that races for it:          *)
(* src/main/agent/runRegistry.ts (the `active` map), the start and the     *)
(* tail of an invoke (launchRun.ts, startAgentRun.ts), the turn ends and    *)
(* the finally of the agent loop (loop.ts), the 30 s force-finish of a      *)
(* cancelled run (forceFinishCancelledRun.ts), the orphan sweep of a boot   *)
(* or a listing, and deleteRun (state.ts).                                  *)
(*                                                                          *)
(* Node runs one callback at a time: what the code does between two real    *)
(* awaits is one action here.  The run directory exists from the start (a   *)
(* run that was used before); status is the newest status patch the write   *)
(* queue accepted and diskStatus what status.json reads, the queue between  *)
(* them being module StatusWriteQueue.  A write of status.json may fail where *)
(* the code has a way on: in resumeRun and in the loop's finally.            *)
(***************************************************************************)
EXTENDS Naturals

CONSTANTS
    NoEntry,       \* active.get(runId) is undefined
    MaxInvokes,    \* bound: how many invokes of the run are registered
    MaxCrashes,    \* bound: how often the process dies
    MaxSweeps,     \* bound: how often a sweep finds the run orphaned
    MaxDeletes,    \* bound: how often the user deletes the run
    MaxRefusals,   \* bound: starts whose runtime or resume throws
    Permanent      \* deleteRun's opts.permanent: rmSync instead of the move

Invoke == 1 .. MaxInvokes

Entry == [invoke : Invoke, aborted : BOOLEAN, turnComplete : BOOLEAN]

ASSUME RegistryAssumption ==
    /\ MaxInvokes \in Nat /\ MaxCrashes \in Nat /\ MaxSweeps \in Nat
    /\ MaxDeletes \in Nat /\ MaxRefusals \in Nat
    /\ Permanent \in BOOLEAN
    /\ NoEntry \notin Entry

VARIABLES
    slot,          \* the entry of `active`: NoEntry or an Entry
    invokes,       \* how many invokes were registered (nextInvokeId - 1)
    phase,         \* where each invoke's async function is
    timer,         \* a force-finish timer is armed
    status,        \* the newest status handed to updateStatus
    diskStatus,    \* the status field of status.json
    sweep,         \* an orphan sweep is between its isActive check and its write
    deletion,      \* what deleteRun is awaiting
    present,       \* the run directory is in place
    unsaved,       \* ghost: the newest invoke ended and gave up on its status write
    crashes, sweeps, deletes, refusals    \* how much of each bound is used

slotVars == <<slot, invokes, phase, timer>>
dirVars  == <<status, diskStatus, present, unsaved>>
jobVars  == <<sweep, deletion>>
counts   == <<crashes, sweeps, deletes, refusals>>
regVars  == <<slotVars, dirVars, jobVars, counts>>

Terminal == {"done", "error", "cancelled"}
Status   == Terminal \cup {"running"}

\* starting: registered, runAgent has not reopened the run yet;  stepping: in
\* the step loop;  hung: in a tool wait that ignores the abort;  closing: the
\* turn is closed and its appends are being flushed;  unwinding, flushed: in the
\* loop's finally, before and after its flushes;  tail: the generator has
\* ended and startAgentRun's own finally runs;  over: nothing of it is left.
InLoop == {"starting", "stepping", "hung", "closing", "unwinding", "flushed"}
Phase  == InLoop \cup {"unused", "tail", "over"}

RegTypeOK ==
    /\ slot \in Entry \cup {NoEntry}
    /\ invokes \in 0 .. MaxInvokes
    /\ phase \in [Invoke -> Phase]
    /\ timer \in BOOLEAN
    /\ status \in Status
    /\ diskStatus \in Status
    /\ sweep \in BOOLEAN
    /\ deletion \in {"none", "draining", "moving"}
    /\ present \in BOOLEAN /\ unsaved \in BOOLEAN
    /\ crashes \in 0 .. MaxCrashes
    /\ sweeps \in 0 .. MaxSweeps
    /\ deletes \in 0 .. MaxDeletes
    /\ refusals \in 0 .. MaxRefusals

\* A run whose earlier turns are over, or that a dead process left running.
RegInit ==
    /\ slot = NoEntry
    /\ invokes = 0
    /\ phase = [i \in Invoke |-> "unused"]
    /\ timer = FALSE
    /\ status \in {"done", "running"}
    /\ diskStatus = status
    /\ sweep = FALSE
    /\ deletion = "none"
    /\ present = TRUE /\ unsaved = FALSE
    /\ crashes = 0 /\ sweeps = 0 /\ deletes = 0 /\ refusals = 0

----------------------------------------------------------------------------
(* The registry's own questions.                                            *)

isActive == slot # NoEntry

isCurrentInvoke(i) == isActive /\ slot.invoke = i

\* What the entry of invoke i becomes under markRunTurnComplete.
TurnComplete(i) ==
    IF isCurrentInvoke(i) THEN [slot EXCEPT !.turnComplete = TRUE] ELSE slot

\* writeStatus of the loop: a superseded invoke writes nothing.
StatusFrom(i, s) == IF isCurrentInvoke(i) THEN s ELSE status

MoveTo(i, p) == phase' = [phase EXCEPT ![i] = p]

\* Mutants: any invoke clears the slot; the timer outlives the entry.
ClearRunAbortOfAnyone(i) == slot' = NoEntry /\ timer' = FALSE
ClearRunAbortArmed(i) ==
    /\ slot' = IF isCurrentInvoke(i) THEN NoEntry ELSE slot
    /\ UNCHANGED timer

\* clearRunAbort(runId, invokeId): only the owner of the slot gives it up, and
\* its force-finish timer goes with the entry.
ClearRunAbort(i) ==
    IF isCurrentInvoke(i)
    THEN slot' = NoEntry /\ timer' = FALSE
    ELSE UNCHANGED <<slot, timer>>
----------------------------------------------------------------------------
(* The life of an invoke.                                                   *)

\* registerRunAbort's fresh entry.
NewEntry(i) == [invoke |-> i, aborted |-> FALSE, turnComplete |-> FALSE]

\* launchRunSync and launchRunFollowUpOrStart: runExists and isActive are read
\* and the slot is taken with no await in between.
Register ==
    /\ ~isActive
    /\ present
    /\ invokes < MaxInvokes
    /\ invokes' = invokes + 1
    /\ slot' = NewEntry(invokes + 1)
    /\ MoveTo(invokes + 1, "starting")
    /\ UNCHANGED <<timer, dirVars, jobVars, counts>>

\* The runtime cannot take the work: startAgentRun throws before the loop
\* exists, so the slot is still held, and open, when its finally begins.
RuntimeRefuses(i) ==
    /\ phase[i] = "starting"
    /\ refusals < MaxRefusals
    /\ refusals' = refusals + 1
    /\ MoveTo(i, "tail")
    /\ UNCHANGED <<slot, invokes, timer, dirVars, jobVars, crashes, sweeps, deletes>>

\* resumeRun throws: runDir is still null, so the loop's catch and finally write
\* nothing.  Its directory is gone; or something before its status write failed;
\* or the write itself, and then the queue keeps `running` and tries again.
ResumeThrows(i) ==
    /\ phase[i] = "starting"
    /\ IF present
       THEN /\ refusals < MaxRefusals /\ refusals' = refusals + 1
            /\ \/ UNCHANGED <<status, unsaved>>
               \/ status' = "running" /\ unsaved' = TRUE
       ELSE UNCHANGED <<refusals, status, unsaved>>
    /\ slot' = TurnComplete(i)
    /\ MoveTo(i, "flushed")
    /\ UNCHANGED <<invokes, timer, diskStatus, present, jobVars, crashes, sweeps, deletes>>

\* resumeRun: the sync write of `running` is on disk when the loop goes on.
Resume(i) ==
    /\ phase[i] = "starting"
    /\ present
    /\ status' = "running"
    /\ diskStatus' = "running"
    /\ unsaved' = FALSE
    /\ MoveTo(i, "stepping")
    /\ UNCHANGED <<slot, invokes, timer, present, jobVars, counts>>

\* Every step writes `running` again with its step number.
WriteStep(i) ==
    /\ phase[i] = "stepping"
    /\ isCurrentInvoke(i) /\ ~slot.aborted
    /\ status # "running"
    /\ status' = "running"
    /\ UNCHANGED <<slotVars, diskStatus, present, unsaved, jobVars, counts>>

\* A tool wait that will not see the abort, and its late return.
Hang(i) ==
    /\ phase[i] = "stepping"
    /\ isCurrentInvoke(i) /\ ~slot.aborted
    /\ MoveTo(i, "hung")
    /\ UNCHANGED <<slot, invokes, timer, dirVars, jobVars, counts>>

Unhang(i) ==
    /\ phase[i] = "hung"
    /\ MoveTo(i, "stepping")
    /\ UNCHANGED <<slot, invokes, timer, dirVars, jobVars, counts>>

\* tryBeginRunClosing answered 'closed' (a goal that keeps the run going has
\* reopened the turn by reopenRunTurn in the same callback: no step at all).
CloseTurn(i) ==
    /\ phase[i] = "stepping"
    /\ slot' = TurnComplete(i)
    /\ MoveTo(i, "closing")
    /\ UNCHANGED <<invokes, timer, dirVars, jobVars, counts>>

\* The appends of a closed turn are flushed: `done`, or a persist error.
EndTurn(i, s) ==
    /\ phase[i] = "closing"
    /\ status' = StatusFrom(i, s)
    /\ MoveTo(i, "unwinding")
    /\ UNCHANGED <<slot, invokes, timer, diskStatus, present, unsaved, jobVars, counts>>

\* The other ends: a failure (emitTerminalRunError), and the stops that finish
\* as `done` (step ceiling, spend limit).  The terminal event closes the turn
\* in the consumer before another callback can run.
Stop(i, s) ==
    /\ phase[i] = "stepping"
    /\ status' = StatusFrom(i, s)
    /\ slot' = TurnComplete(i)
    /\ MoveTo(i, "unwinding")
    /\ UNCHANGED <<invokes, timer, diskStatus, present, unsaved, jobVars, counts>>

\* The loop sees its signal aborted.
StopCancelled(i) ==
    /\ isCurrentInvoke(i) /\ slot.aborted
    /\ Stop(i, "cancelled")

\* Mutant: the slot is released without waiting for the status queue.
FinallyUnflushed(i) ==
    /\ phase[i] = "unwinding"
    /\ MoveTo(i, "flushed")
    /\ UNCHANGED <<slot, invokes, timer, dirVars, jobVars, counts>>

\* The loop's finally has awaited the append chains and the status queue.
FinallyFlushed(i) ==
    /\ phase[i] = "unwinding"
    /\ diskStatus = status \/ ~present
    /\ MoveTo(i, "flushed")
    /\ UNCHANGED <<slot, invokes, timer, dirVars, jobVars, counts>>

\* The flush failed, and its one retry as well: the finally logs it and goes on.
\* The queue keeps the status (a terminal one is retried until it lands).
FinallyFails(i) ==
    /\ phase[i] = "unwinding"
    /\ present /\ diskStatus # status
    /\ unsaved' = TRUE
    /\ MoveTo(i, "flushed")
    /\ UNCHANGED <<slot, invokes, timer, status, diskStatus, present, jobVars, counts>>

\* The rest of the finally, down to its clearRunAbort.
ReleaseSlot(i) ==
    /\ phase[i] = "flushed"
    /\ ClearRunAbort(i)
    /\ MoveTo(i, "tail")
    /\ UNCHANGED <<invokes, dirVars, jobVars, counts>>

\* Mutant: no safety net.
EndTailOnly(i) ==
    /\ phase[i] = "tail"
    /\ MoveTo(i, "over")
    /\ UNCHANGED <<slot, timer, invokes, dirVars, jobVars, counts>>

\* startAgentRun's finally ends with the safety-net clearRunAbort.
EndTail(i) ==
    /\ phase[i] = "tail"
    /\ ClearRunAbort(i)
    /\ MoveTo(i, "over")
    /\ UNCHANGED <<invokes, dirVars, jobVars, counts>>
----------------------------------------------------------------------------
(* What others do to the run.                                               *)

\* Mutant: the cancel trusts the loop to unwind.
CancelUnarmed ==
    /\ isActive
    /\ slot' = [slot EXCEPT !.aborted = TRUE, !.turnComplete = TRUE]
    /\ UNCHANGED <<invokes, phase, timer, dirVars, jobVars, counts>>

\* cancelRunCore: an already cancelled run is cancelled again.
Cancel ==
    /\ isActive
    /\ slot' = [slot EXCEPT !.aborted = TRUE, !.turnComplete = TRUE]
    /\ timer' = TRUE
    /\ UNCHANGED <<invokes, phase, dirVars, jobVars, counts>>

\* The timer fires: it asks for the run by its id alone, and reads status.json.
\* CANCEL_FORCE_FINISH_MS (30 s) outlasts the status queue's 250 ms flush: what
\* was handed to the queue before the cancel has landed by then, unless a write failed.
ForceFinish ==
    /\ timer
    /\ diskStatus = status \/ ~present \/ unsaved
    /\ timer' = FALSE
    /\ status' = IF isActive /\ present /\ diskStatus \notin Terminal
                 THEN "cancelled" ELSE status
    /\ UNCHANGED <<slot, invokes, phase, diskStatus, present, unsaved, jobVars, counts>>

\* The status queue lands its newest patch.
StatusLands ==
    /\ present
    /\ diskStatus # status
    /\ diskStatus' = status
    /\ UNCHANGED <<slotVars, status, present, unsaved, jobVars, counts>>

\* interruptOrphanRuns and reconcileStaleRuns ask isActive, then await reads,
\* repairs and a worktree cleanup before they write `cancelled`.
SweepFindsOrphan ==
    /\ sweeps < MaxSweeps
    /\ ~sweep
    /\ present /\ diskStatus = "running" /\ ~isActive
    /\ sweep' = TRUE
    /\ sweeps' = sweeps + 1
    /\ UNCHANGED <<slotVars, dirVars, deletion, crashes, deletes, refusals>>

SweepWrites ==
    /\ sweep
    /\ sweep' = FALSE
    /\ status' = IF present THEN "cancelled" ELSE status
    /\ UNCHANGED <<slotVars, diskStatus, present, unsaved, deletion, counts>>

\* deleteRun: refuse a live run, drain its writers, ask again, remove.
DeleteBegins ==
    /\ deletes < MaxDeletes
    /\ deletion = "none"
    /\ present /\ ~isActive
    /\ deletion' = "draining"
    /\ deletes' = deletes + 1
    /\ UNCHANGED <<slotVars, dirVars, sweep, crashes, sweeps, refusals>>

DeleteDrained ==
    /\ deletion = "draining"
    /\ CASE isActive -> deletion' = "none" /\ UNCHANGED present
         [] ~isActive /\ Permanent -> deletion' = "none" /\ present' = FALSE
         [] ~isActive /\ ~Permanent -> deletion' = "moving" /\ UNCHANGED present
    /\ UNCHANGED <<slotVars, status, diskStatus, unsaved, sweep, counts>>

\* moveRunToDeleted, past its own awaits.
DeleteMoves ==
    /\ deletion = "moving"
    /\ deletion' = "none"
    /\ present' = FALSE
    /\ UNCHANGED <<slotVars, status, diskStatus, unsaved, sweep, counts>>

\* The process dies: what it held in memory is gone, the next one boots empty.
Crash ==
    /\ crashes < MaxCrashes
    /\ crashes' = crashes + 1
    /\ slot' = NoEntry
    /\ timer' = FALSE
    /\ phase' = [i \in Invoke |-> IF phase[i] = "unused" THEN "unused" ELSE "over"]
    /\ status' = diskStatus
    /\ unsaved' = FALSE
    /\ sweep' = FALSE
    /\ deletion' = "none"
    /\ UNCHANGED <<invokes, diskStatus, present, sweeps, deletes, refusals>>

InvokeStep(i) ==
    \/ RuntimeRefuses(i) \/ ResumeThrows(i) \/ Resume(i)
    \/ WriteStep(i) \/ Hang(i) \/ Unhang(i)
    \/ CloseTurn(i)
    \/ \E s \in {"done", "error"} : EndTurn(i, s) \/ Stop(i, s)
    \/ StopCancelled(i)
    \/ FinallyFlushed(i) \/ FinallyFails(i) \/ ReleaseSlot(i) \/ EndTail(i)

Others ==
    \/ Cancel \/ ForceFinish \/ StatusLands
    \/ SweepFindsOrphan \/ SweepWrites
    \/ DeleteBegins \/ DeleteDrained \/ DeleteMoves
    \/ Crash

RegNext == Register \/ Others \/ \E i \in Invoke : InvokeStep(i)

RegSpec == RegInit /\ [][RegNext]_regVars

----------------------------------------------------------------------------
(* What the registry promises.                                              *)

\* Never two loops of one run: an invoke whose loop has not finished holds the
\* slot, to the end of its finally (registerRunAbort: "overlapping runAgent
\* finally blocks corrupt the same runDir").
OneLoopPerRun ==
    \A i \in Invoke : phase[i] \in InLoop => isCurrentInvoke(i)

\* A run in its step loop reads as running until someone cancels it, whatever the
\* tails, finallys and force-finish timers of earlier invokes still have in
\* flight.  As long as no orphan sweep found the run: a sweep asks isActive once,
\* before its awaits, and writes a run off that was started meanwhile (README).
LiveRunReadsRunning ==
    sweeps = 0 => \A i \in Invoke :
        phase[i] \in {"stepping", "hung", "closing"} /\ isActive /\ ~slot.aborted
            => status = "running"

\* deleteRun: "the directory is never deleted under a live run".
NeverDeletedUnderLiveRun == isActive => present

\* Once the slot is free the outcome of the last turn is on disk, so neither the
\* next start nor a crash finds a finished run `running` and calls it an orphan:
\* the finally flushes before it releases the slot.  Unless that flush and its
\* one retry both failed: the slot is freed all the same (AGENT_FINALLY_FLUSH:
\* "leaves status.json "running" -- a zombie").
ReleasedRunIsOnDisk ==
    ~isActive /\ status \in {"done", "error"} /\ present /\ ~unsaved => diskStatus = status

\* An invoke comes to its end.  The slot is given back, unless the loop hangs for
\* good: a frozen slot would refuse every later message ("Run is already active").
\* And a cancelled one does not stay in the slot with a status.json that says
\* `running`, even when its loop is frozen in a tool that ignores the abort: it
\* unwinds, or forceFinishCancelledRun writes what it never will.
SlotIsReleased ==
    /\ isActive ~> (~isActive \/ \E i \in Invoke : phase[i] = "hung")
    /\ \A i \in Invoke :
         (isCurrentInvoke(i) /\ slot.aborted)
             ~> (diskStatus \in Terminal \/ ~present \/ ~isCurrentInvoke(i))
=============================================================================
