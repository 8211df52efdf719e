# Formal models of the Vyotiq agent runtime

This directory holds TLA+ models of the part of Vyotiq that decides whether a
run is lost, doubled, stuck or misreported, and whether a tool runs without the
user's yes: the run registry, the follow-up queue, what starts runs without the
user, the tool calls of a step and the prompts they wait on, the instances a
task spawns and their worktrees, the writer of `status.json`, the transcript log, the index job queue (`src/main/agent`) and
the repeating tasks (`src/main/schedules`). The models are checked with TLC on
small instances and, where the prover reaches, proved with TLAPS for every value
of the constants.

    tlc -config index_queue.cfg MCIndexJobQueue.tla     a run
    tlapm RunRegistry_proofs.tla                        the proofs of a module

`PROJECT.json` lists the runs, the theorems, the lines of the source every
definition stands for, the hazards the properties are aimed at, and for every
property a mutated definition that breaks it.

## 1. Inventory of the system

Vyotiq is an Electron application. One Node process (the main process) owns
every run: an agent loop that talks to a model provider, calls tools and writes
a run directory. The renderer sends IPC requests and receives events. Node runs
one callback at a time, so the hard part is never a data race on memory: it is
what other callbacks do between two awaits of an `async` function, what is on
disk when the process dies there, and timers that fire for a run that has
changed hands.

| Part | State | Operations | Talks to | Hard behaviour | What makes it correct |
|---|---|---|---|---|---|
| run registry (`runRegistry.ts`) | `active`: one entry per live run with invoke id, abort signal, turn-complete flag, follow-up queue, force-finish timer | register, clear, cancel, close and reopen the turn | everything below | start against the finally of the previous invoke, cancel of a frozen tool, late timers | one loop per run, the slot comes back, a cancelled run terminates |
| start and tail of an invoke (`launchRun.ts`, `startAgentRun.ts`) | goal relaunch timers | launch, follow-up-or-start, background start, safety-net release | registry, loop, follow-ups on disk | start refused by the runtime, throw before the run directory is known | slot never leaked |
| agent loop (`loop.ts`) | messages, step number, usage | resume, steps, stops, close of the turn, the finally | all the queues below | a stop in every step, flush order in the finally | the outcome is on disk before the slot is free |
| status write queue (`statusWriteQueue.ts`) | per directory: pending patch, timer, retry count, promise chain; abandon marks | enqueue, immediate write, flush, retry, clear, allow | `atomicWrite.ts`, deleteRun | failing writes, writes behind writes, deletion | newest wins, nothing lost, a terminal status lands, no resurrection |
| follow-up queue (`runRegistry.ts`, `followUpStore.ts`, handlers in `ipc/register.ts`) | queue in memory, `followups.json` | enqueue, remove, promote, update, apply, drop, preserve, hydrate | loop, message append chain | crash between queue and transcript, two writers of one file | acknowledged means kept, called off means never applied |
| transcript and event logs (`messageAppendQueue.ts`, `eventAppendQueue.ts`, `jsonlRotation.ts`) | per-directory append chain, failure counts, tail checks, archives | append, rewrite, rotate, flush, stitched reads | loop, compaction, rewind | torn lines, crash inside a rotation, rewrites against appends | order, no loss without report, no duplicates |
| deletion and orphan sweeps (`state.ts`, `deletedRuns.ts`) | none of their own | deleteRun, move, restore, interruptOrphanRuns, reconcile | registry, status queue | a start while they await | never delete or write off a live run |
| goals (`runGoal.ts`, `startAgentRun.ts`, `goalRelaunchPlan.ts`, `resumeActiveGoals.ts`) | `goal.json` with its resume count | make, pause, resume, complete, relaunch after a resumable stop, resume at start-up | registry, loop scheduler | a goal that kills the process, a stop that repeats at once, a relaunch against a user's start | bounded resumes, an exhausted plan waits, a stopped goal is taken up |
| loop scheduler (`runLoopScheduler.ts`) | `loop.json`, a timer and a record per run | arm, stop, tick, re-arm at start-up | registry, follow-ups, goals | a turn longer than the interval, a run deleted under its timer | one timer, one waiting prompt |
| repeating tasks (`taskScheduler.ts`, `scheduleStore.ts`) | `schedules.json`, one timer, worktree starts by token | create, edit, delete, run now, turn, tidy, worktree opened | run start, git, window | sleep, restart, quit, late answers | one run at a time, missed times made up once, no start that never ends |
| stream retry, circuit breaker (`streamRetry.ts`, `circuitBreaker.ts`) | failures per provider | record, assert | loop | none left: the breaker never opens | |
| tool batches (`executeStepTools.ts`, `tools/classify.ts`) | groups of a step, results | group, run in parallel, collect in order | approval, tools, transcript | a sibling that throws, an abort between groups | results in call order, none lost, nothing after a question |
| tool approval, questions (`toolApproval.ts`, `agentQuestion.ts`, `taskApprovalStore.ts`) | parked prompts, grants of a gate, the window of a run | ask, answer, time out, close | tool batches, registry, renderer | Send now, cancel, the tail of the invoke before | nothing without its yes, no card of a step nobody continues, none taken away |
| agent instances (`agentInstances.ts`, `git/instanceWorktree.ts`) | links from child to task, waiters, checkouts with their branch, the mutex of the workspace | spawn, await, cancel, merge, finish, resume after a restart, prune | registry, start and tail, git | a stop, a restart or a prune while a worktree is made or finalized | the limit holds, a stop reaches every child, every wait is answered, no edit is lost |
| checkpoints and rewind (`checkpoints.ts`, `rewindRun.ts`) | journal of file states | record, rewind, redo | tools, transcript | interleaved runs on one workspace | rewind restores what was there |
| index jobs (`indexJobQueue.ts`) | one slot and one queue for all workspaces, promises and reruns by key | enqueue, join, preempt, requeue, drop, abort, rerun | code index | preemption against completion, joins of a running job, a full queue | single flight, most urgent first, everyone answered |
| quit (`quitFlush.ts`) | deadline | flush everything | all queues | quit while a run works | accepted writes reach the disk |

The rest is listed in `PROJECT.json` with its reason: user interface, provider
wire formats, voice pipelines, tools, git and MCP wrappers, code-index
algorithms, evaluation harnesses, marketplace, storage clean-up. They are I/O,
parsing or platform glue; where they touch a run they do so through the parts
above, and appear in the models as a step that may take long, fail or hang.

## 2. Modules

| Module | Models | Uses |
|---|---|---|
| `StatusWriteQueue` | the writer of `status.json` with deletion | |
| `RunRegistry` | the life of one run over many invokes | |
| `FollowUps` | the follow-up queue, its file and the append chain | EXTENDS RunRegistry, implements `RegSpec` |
| `AutoStarts` | goals, loops, relaunch, start-up | EXTENDS RunRegistry, implements `RegSpec` |
| `ToolStep` | tool batches, approval, questions, Send now | EXTENDS RunRegistry, implements `RegSpec` |
| `AgentInstances` | the instances of a task, their waits and worktrees | |
| `MessageLog` | the transcript with rotation and rewrites | |
| `IndexJobQueue` | the index job queue | implements `SingleFlight` |
| `SingleFlight` | what the index queue promises | |
| `TaskScheduler` | repeating tasks and their store | |

`RunRegistry` abstracts the status queue to `status` (newest accepted patch) and
`diskStatus` (what the file says). Each of the three modules that extend it
composes every step of the registry with what the step does to its own part, and
is shown to implement `RegSpec`, so what holds of the registry holds of each.
The `_proofs` modules hold the theorems, the `MC` modules the definitions TLC's
instances need.

**Grain.** A stretch of code between two real awaits is one action. A `yield` of
the loop's generator that only passes an event to `startAgentRun` costs
microtasks, no turn of the event loop, and is not a point where another callback
can run; the models rely on this where the loop drops the queue and then emits
its terminal event.

### 2.1 StatusWriteQueue (statusWriteQueue.ts, and deleteRun in state.ts)

One run directory; queues of different directories share nothing. A patch is a
function from keys to tickets, the ticket being its position among all accepted
patches, so "older" and "newer" are comparisons of numbers.

| Code | Model |
|---|---|
| `pendingByDir.get(dir)` | `cur`, one of the identities `Pendings` |
| `Pending.patch`, `.timer`, `.flushFailures` | `pend[e]` |
| `Pending.chain` | `chain[e]`, its first operation running or next; `op[e]` says where it stands |
| microtask order | `due`: the successor of a finished operation starts before any timer, I/O or IPC callback; `Quiet` guards those |
| `enqueueStatusPatch`, `writeStatusImmediate`, `flushStatusWrites`, timers | `EnqueueStatusPatch`, `WriteStatusImmediate`, `FlushStatusWrites`, `TimerFires` |
| `flushOp`: take the patch, read, write | `BeginFlush`, `StatusRead`, `StatusWritten` or `StatusWriteFails` |
| `requeueFailedPatch`, `scheduleStatusRetry` | `Requeued`, `WithRetry` inside `Fail` |
| `deleteRun`: drain, abandon, re-check, remove or move | `DeleteRun`, `AllowStatusWrites`, `DeletePermanently`, `BeginMove`, `EndMove` |

Left out: the list-cache flag, statistics, merging inside a key, a read that
fails although the file is there (`readStatusFile` answers with a fallback).
The three ghosts `latest`, `synced` and `terminal` record what was accepted and
are read by properties only.

### 2.2 RunRegistry (runRegistry.ts, launchRun.ts, startAgentRun.ts, loop.ts, forceFinishCancelledRun.ts, state.ts)

One run id. `slot` is its entry in `active`; `phase[i]` says where the async
function of invoke *i* is, from `starting` through `stepping`, `closing`,
`unwinding` and `flushed` to `tail` and `over`. A tool wait that ignores the
abort is the phase `hung`. `timer` is the 30 s force-finish timer. `sweep` and
`deletion` are the two jobs that look at the registry, await, and act. `unsaved`
is a ghost: the newest invoke ended and gave up on a write of its status.

| Code | Model |
|---|---|
| `launchRunSync` with `registerRunAbort` | `Register` |
| runtime refuses, `resumeRun` throws or returns | `RuntimeRefuses`, `ResumeThrows`, `Resume` |
| the step loop's status write; a frozen tool | `WriteStep`; `Hang`, `Unhang` |
| `tryBeginRunClosing`, end of the turn | `CloseTurn`, `EndTurn` |
| error, step ceiling, spend limit, abort | `Stop`, `StopCancelled` |
| finally of the loop: its flush, or the flush and its one retry fail; its `clearRunAbort`; safety net | `FinallyFlushed`, `FinallyFails`; `ReleaseSlot`; `EndTail` |
| `cancelRunCore`, its timer, `forceFinishCancelledRun` | `Cancel`, `ForceFinish` |
| `interruptOrphanRuns`, `interruptRunningRunOnDisk` | `SweepFindsOrphan`, `SweepWrites` |
| `deleteRun`, `moveRunToDeleted` | `DeleteBegins`, `DeleteDrained`, `DeleteMoves` |
| the process dies | `Crash` |

A goal that keeps the run going closes and reopens the turn in one callback: a
stutter. Writes of `status.json` may fail in two places. When the flush of the
finally and its retry both fail, the code logs it and frees the slot all the same
(loop.ts 5241-5262, 5328): `FinallyFails`. ReleasedRunIsOnDisk leaves that outcome
out, by name. When `resumeRun` throws, it may be its status write that failed;
the queue then keeps the patch `running` and lands it later, though the loop never
began: the second alternative of `ResumeThrows`. Every other write waits in the
queue until it lands, as `StatusWriteQueue` shows. `ForceFinish` reads
`status.json`; its guard `diskStatus = status` states a timing assumption, that
30 s outlast the 250 ms flush of a status handed over before the cancel; it does
not hold it back where a write failed. Left out: the pending mode and late-event
buffers. The stream interrupt is in `ToolStep`, the cancel cascade to a task's
instances in `AgentInstances`.

### 2.3 FollowUps (the same, with followUpStore.ts, ipc/register.ts, messageAppendQueue.ts)

`queue` is the entry's queue, `file` is `followups.json`, `chain` the append
chain of the run directory with the two jobs an apply puts there (append the
message, then rewrite the file), `copies` how often each follow-up stands in
the transcript. Two ghosts: `fate`, what the user was last told (queued,
applied, removed, cancelled, dropped, sent again), and `exposed`, the follow-ups
a write of the queue may have left in no file (`Overwrites`): their message waited
in the append chain, or a chip was removed when their turn was over.

Handlers change memory and mirror the file in one callback (`Enqueue`,
`Remove`, `Promote`, `Update`, `CancelRun`, `Launch`). The loop takes from
memory at once and from the file behind the append (`Apply`, `ChainStep`).
Stops drop the queue, preserve it on disk for a continue, or leave it to the
finally (`StopDropping`, `StopPreserving`, `StopLeaving`, `StopAborted`,
`StartThrows`, `EndUnsaved`, `Finish`). Update changes only words. Not in this
module: deletion of the run (`MaxDeletes` is 0, the directory stays), failing
appends and failing writes of `followups.json`.

### 2.4 MessageLog (messageAppendQueue.ts, appendRetry.ts, jsonlRotation.ts, state.ts, loop.ts, rewindRun.ts)

The transcript is what a stitched reader gets: `archives`, oldest first, then
`live`, without the lines that do not parse (`Junk`). A row is the ticket of its
append, so order is comparison of numbers. `chain` and `job` are the append in
progress, `run` is where the invoke stands, `plan` the rewrite it is in.

| Code | Model |
|---|---|
| `rotateJsonlIfNeeded`: two temporary files, two renames | `BeginRotation`, `ArchiveSwapped`, `LiveSwapped`, or `ArchiveSwapFails`, `LiveSwapFails` |
| `appendToRunLog`, its tail check and `tailChecked`; a tail that cannot be opened | `Write`, `checked`, `torn`; `TailUnread` |
| `withTransientAppendRetry`, `recordAppendError` | `AppendRetried`, `AppendFails` |
| `flushMessageAppends`; `failuresForFlush`, `pendingNotices` | `FlushPasses`, `FlushThrows`; `failures`, `notices` |
| `createRun` with its first rows | `CreateRun`, `RunCreated` |
| `resumeRun`, `appendOrphanToolStubs` | `ResumeRun`, `RepairStubs` |
| callers that read, edit and write back | `LoadToResume`, `LoadToRewind`, `LoadToAmend`, `LoadAfterBlock` |
| `syncMessagesAsync`: flush, replace, remove the archives | `TranscriptWritten` or `TranscriptWriteFails`, `ArchivesRemoved` |
| step boundary; end of turn; step ceiling and spend limit; other ends; the finally | `StepBoundary`; `EndTurn`; `EndAtLimit`; `Stop`; `Finish` |
| `loadRun`, an export | `ReaderFlush` |

A failed append leaves nothing or a fragment, a crash also a whole row without
its newline. Archives are removed in one step, and a reader sees all files at
one moment. `landed` (rows that reached the file, minus those a rewrite took
out on purpose), `lost` (rows of this invoke reported as failed) and `halved`
(two files were swapped half way) are ghosts. Left out: a run directory that
disappears (ENOENT), the content of rows.

### 2.5 AutoStarts (runGoal.ts, goalRelaunchPlan.ts, resumeActiveGoals.ts, runLoopScheduler.ts, startAgentRun.ts)

Everything that starts a run without the user. `goal` and `autoResume` are
`goal.json`; `loop`, `meta` and `loopTimers` are `loop.json`, the scheduler's
record and its timers; `prompts` counts the copies of the loop's prompt in the
queue or its file; `why` is the kind of error `status.json` reports; `unattended`
is a ghost, the resumes at start-up since a turn someone asked for.

| Code | Model |
|---|---|
| a turn begins: count reset, `/goal` | `TurnBegins` |
| `planGoalRelaunch`, asked when the generator ends | `Relaunches`, `Plan` |
| `resumeActiveGoalsAndLoops`, once per process | `Boot`, `BumpGoalAutoResume` |
| `onTick`, `schedule`, `armLoop`, `disarmLoop` | `OnTick`, `Schedule`, `ArmLoop`, `DisarmLoop` |
| `launchRunFollowUpOrStart` without a window or over the spending limit | `Held` |
| `update_goal`, `create_goal` of the agent | `AgentCompletes`, `AgentResumes`, `ProposeGoal` |
| Pause, Resume, Mark complete, Stop loop | `PauseGoal`, `ResumeGoal`, `UserCompletes`, `StopLoop` |

The end of a generator and the decision about a relaunch are one turn of the
event loop: `AutoNext` lets nothing between them. A loop's tick counts as a turn of
the user, because its prompt is the user's words (loop.ts:1494). Left out:
delays (an armed timer may fire at any time), the delayed relaunch (it needs an
open circuit breaker, and the breaker never opens), a closed workspace.

### 2.6 ToolStep (executeStepTools.ts, toolApproval.ts, agentQuestion.ts, taskApprovalStore.ts, tools/classify.ts)

The tool phase of a step. A call is named by its place in the step, and carries
what the code derives from its name and arguments: its batch class, its path and
what the rules say of it (nothing, ask unless granted, ask whatever is granted,
deny). `calls[i][c]` is where call *c* of invoke *i* is: `todo`, `authorizing`,
`asking`, `cleared`, `running`, `question`, or settled.

| Code | Model |
|---|---|
| `hoistTodoWriteCalls`, `groupStepToolCalls` | `Hoisted`, `GroupsOf` |
| the loop over the groups, `runParallelBatch` | `StartGroup`, `GroupIsSettled`, `StepThrows`, `StepEnds` |
| `collect`, in call order; a row that cannot be written | `WriteNext`; `WriteFails` |
| `authorize`, `askThroughRenderer` | `Authorize`, `MustAsk` |
| the answer of a card, its timeout | `Allow`, `AllowMore`, `Deny` |
| `executeTool`, `ask_question`, `raceToolDeadline` | `Execute`, `AnswerQuestion`, `ToolReturns`, `ToolStops`, `ToolThrows` |
| Send now (`promoteFollowUp`), cancel, the tail of an invoke | `SendNow`, `CancelRun`, `TailEnds` |
| the gate of an invoke with the grants of its task | `LoopBegins` |

Groups are consecutive calls of one class, cut to the limit of the class, so all
calls of a group begin at once; only `todo_write` is moved, to the front, and one
written after a question therefore runs before it. A prompt closes with the
answer, with its run (cancel), with its step (Send now; a question is settled as
answered by the message), or with its own invoke (the tail); the window of a run
is that of its newest invoke, and a tail gives back only its own. A grant is
written without an await, and the next gate may be made before it lands:
`LoopBegins` takes any subset of the grants, which costs one more card.

Left out: what tools do and return, the checks before an edit, how the rules
come to a verdict, deduplication and the poll guard, the setting that skips
questions, watchers and voice, the question about workspace hooks, and a tool
that works on after its deadline returned for it. One corner is left out too: a
message sent now while no stream is open (between the check of the queue and the
new interrupt) can let the next step begin and interrupt it at its first drain,
which closes no question; the model has the interrupt with the question closed.

### 2.7 IndexJobQueue and SingleFlight (indexJobQueue.ts)

One action per callback: `Enqueue` in its three paths (new, joined to a waiting
job, joined to a running one), `DropPendingByCoalesceKey`, `Abort`, `RunEnds`,
and `Finally`, the microtask of a settled promise, which runs before any other
callback. Jobs are numbered in the order their promises are made; `unseen` is a
ghost, the keys asked for since their last run began. `SingleFlight` knows only
which jobs wait, run or are settled and how urgent they are; `ServiceSpec` is
that specification under the mapping `PhaseOf`. A key may wait twice (dropped
while it runs, asked for again, then preempted), and the copy of a preempted job
is put back without a look at the limit; between two callbacks the queue is
never over it. What a job does is left out; it ends, fails or is preempted.

### 2.8 TaskScheduler (taskScheduler.ts, scheduleStore.ts)

The wall clock is a counter, and `dueTimer` the time left of the one timer;
`Sleep` moves the clock and no timer. Reading, deciding and writing are one
synchronous callback, so a turn (`RunDueSchedules`, with `Fire` for every due
schedule) is one action. A start that needs a worktree takes several:
`WorktreeMade` or `WorktreeFails`, `OpenTimesOut`, `ScheduledWorktreeOpened`,
by tokens that are taken once. `Exit` and `StartTaskScheduler` are a restart.
Left out: the limit on the number of schedules, the mark and the grace of
missed times, the model and the words of a task, a store that cannot be parsed,
a timetable with no next time.

### 2.9 AgentInstances (agentInstances.ts, git/instanceWorktree.ts, and state.ts, startAgentRun.ts, forceFinishCancelledRun.ts, index.ts around them)

One task, its children, one workspace. A child has an entry in the registry
(`entry`, `armed`), a link to its task (`linked`), a background run (`loop`), a
`status.json` (`disk`) and, when isolated, a checkout with its branch (`tree`:
out, pending, with edits, with commits no one merged). `gitq` is the promise
chain of `withGitWorktreeMutex`; its head runs as one step.

| Code | Model |
|---|---|
| `spawnAgentInstance` up to its first await; after the worktree; after the index copy | `SpawnShared`, `SpawnIsolated`; `Added`; `SpawnGoesOn`, `CreateRunThrows` |
| the run of a child; its tail | `ChildBegins` ... `ChildReleases`; `TailFinishes`, `TailFinalizes`, `Finished` |
| `notifyChildTerminal`, `waitForChildTerminal` | `Notify`, `Await` |
| `cancelRunCore` with its cascade, `cancelChildInstance`, the force-finish timer | `StopTask`, `CancelChild`, `ForceFinish` |
| `mergeAgentInstanceBranch` | `Merge`, `Merged` |
| `resumeInterruptedInstances` | `TaskStarts`, `ResumeSkips`, `ResumeReattaches`, `ResumeShared`, `ResumeIsOver` |
| add, reattach, commit, remove, drop the branch, finalize, prune | `Added`, `Reattached`, `Committed`, `Removed`, `BranchDropped`, `Finalized`, `Prunable` |
| a workspace is opened; the process dies and boots | `OpenWorkspace`, `Restart` |

`Restart` is one step: the next process sweeps before it has a window. The life
of a run between its slot and its file is `RunRegistry`; here a child that ends
has its outcome on disk before the slot is free (ReleasedRunIsOnDisk). An
`await` that the file answers at once changes nothing; its own time-out (ten
minutes) is left out, so WaitIsAnswered asks for more than the code needs. Left
out too: a locked path whose clean-up is deferred, the prune of old branches,
messages to a child and views of it; and failures half way of git commands other
than the commit, and of writes of a child's `status.json`. The commit of a
checkout may fail: `commitDirtyInstanceWorktree` logs it, and
`finalizeInstanceWorktreeUnlocked` removes the checkout all the same.

The ghosts are `taken`, `late`, `died`, and two of a tree: `lost`, edits went with
a checkout or a branch, and `unkept`, a commit of its edits failed. EditsSurvive
says of both checkout and branch that nothing is lost, unless git failed to commit
it, the instance was cancelled (its branch is dropped on purpose), or it had ended
when the process died, before its commit.

## 3. Runs

| Run | Checks | Shows |
|---|---|---|
| `status_writes` | NewestWins, NothingLost, TerminalLands, SyncNotReverted, NoResurrection | queued and immediate writes, more failing writes than the retry budget and a deletion in every phase: no accepted value is lost or put under an older one, a terminal status lands, an immediate write is not reverted, a removed directory stays removed |
| `followup_kept` | AckedFollowUpSurvives, AppliedOncePerLife, SettledStaysSettled, RegSpec | three follow-ups through every stop, a removed chip, a refused start and a crash: an acknowledged one is in the queue or its file, also after the crash (two writes of the queue excepted, below), what was called off stays off, nothing is applied twice in one life, the composition implements the registry |
| `followup_live` | OneLoopPerRun, ReleasedRunIsOnDisk, LiveRunReadsRunning, SlotIsReleased, AckedIsAnswered | three invokes under cancels, hung tools, timers, a refusal, a failing last flush, a sweep and a crash: one loop at a time, its outcome on disk before the slot is free unless that flush and its retry failed, a live run that reads `running` as long as no sweep found it, the slot given back unless a tool hangs for good, a cancelled run that stops reading `running` even then, every follow-up applied, answered for or waiting |
| `auto_starts` | BootResumesBounded, LoopIsTicking, PromptsNotStacked, QuotaWaitsForUser, GoalIsTakenUp | a goal and a loop over two invokes with a crash, a held launch, a deletion and a request of the user |
| `tool_step` | RunsOnYes, StepInOrder, PromptIsLive, PromptIsKept, StepSettles | two steps of two invokes under cancels, Send now, a throwing tool and a failing row: nothing runs without its yes or after a question, results in call order, cards close with what they belong to, a stopped step ends |
| `message_kept` | LandedSurvives, TranscriptInOrder, TurnDoneMeansSaved | three invokes, two faults of any kind, a look at the file that fails, an undeletable archive and a crash: no appended row goes missing, doubles or changes place, and a turn says `done` only with its rows appended |
| `index_queue` | WarmYields, AskedIsKept, ServiceSpec, EveryoneIsAnswered | four requests over a queue of two: a warm job yields, nothing asked for is forgotten, everyone is answered, the queue implements the service |
| `schedules` | NoOverlap, MadeUpOnce, GivenUpStaysGivenUp, DueIsServed, StartEnds | a schedule over two periods with a sleep, a restart, a quit and three calls at any moment, on a disk that does not fail: one run at a time, a missed time made up once and every one served, given-up starts stay given up, every start ends |
| `instances` | CapHolds, StopReachesChildren, EditsSurvive, WaitIsAnswered | two instances under a limit of one and two shocks (a stop, a dead process, a workspace opened) at any moment: the limit holds, a stop reaches all, no edit goes with its checkout or branch unless its commit failed, every wait is answered |
| `registry_move` (violation) | NeverDeletedUnderLiveRun | a run started while the move to Recently deleted awaits loses its directory |
| `goal_unpaused` (violation) | OnlyUserActivates | the agent's `update_goal` takes up a goal the user has paused |
| `instance_merge` (violation) | MergeTakesTheEdits | a merge right after a child's `done` takes a branch its edits are not committed to yet |

**Bounds.** Each constant `Max...` caps how often an environment event happens,
never a variable of the code; the limits of the code itself (retry cap,
`GoalAutoResumeLimit`, `MaxPending`, `ReadCap`, `MutationCap`) are taken as 1 or
2 so that they are passed within the events allowed.

- Status queue: three patches and two keys are what a reversal needs: an old
  value, a newer one, and one that forces the flush; two faults exceed the retry
  budget of one; two immediate writes meet the queue and each other in every
  order; two Pending identities are reached by a deletion between two writers.
  The chain holds two operations and the directory is deleted once; longer
  chains and repeated deletions are where two properties were found too strong
  (below), and what is left of them is proved for every use. Where a property
  holds of queued patches only, its premise is `QueueOnly`.
- Follow-ups: in `followup_kept` two invokes are one that stops or dies and one
  that takes up what it left, and three follow-ups, two of them spoken, a batch
  with and without a neighbour that must not join it; the two spoken ones are
  symmetric, which no step or property breaks. In `followup_live` three
  invokes are one whose timer or tail is late, one that follows it and one that
  follows a crash.
- AutoStarts: two invokes are a stop and what takes it up; one crash, hold,
  deletion (with its move) and request each, in any order. No start is refused:
  GoalIsTakenUp leaves refused starts out, and the other four properties are
  proved with any number of them.
- ToolStep: five call lists of up to three calls hold every case of grouping and
  of the gate (parallel reads over the limit with one that asks, two changes of
  one file and one of another, a question with what follows it, a held call
  after one of its name was allowed, a denied one, a change of an unknown file);
  two steps, so that a grant of the first meets the second; two invokes, so that
  a tail meets its successor; one Send now and one fault.
- Instances: two children under a limit of one are the one that runs and the one
  that must not yet; two shocks give a stop and a restart in either order, or a
  restart in the resume that a first one made necessary.
- Transcript: four rows with two kept live give one rotation and a second one with
  junk lines in the file (a line counts whether it parses or not), and so a rewrite
  over two archives; two faults and two attempts give a failed row and a row that
  lands on its retry; three invokes, one that tears a line, one that resumes
  over it and one that reads the result.
- Index queue: a queue of two is full with two warm jobs and displaced by a
  third; the fourth call joins, drops or aborts.
- Schedules: two periods of three ticks with a timer of one give a due time, a
  missed one and one made up; three calls give a schedule, an edit and a Run now.

Runs that end when their bounds are used up, as a program whose user stops
calling it does, switch deadlock checking off.

**Fairness.** Never for the user, crashes, the sweep, the deletion, or the
return of a hung tool.

- Status queue: Node runs every microtask, armed timer and completed I/O.
- `FollowUps!FairSpec`, which also carries the registry's liveness: an await of an
  invoke that does not hang settles (provider and tool timeouts bound a step and
  every turn has a ceiling), the armed timer fires, the status queue and the
  append chain move.
- `AutoStarts!AutoFairSpec`: the same for an invoke; the plan is made, the window
  paints, a loop timer fires.
- `ToolStep!FairSpec`: per invoke, its awaits settle, its tools return or meet
  their deadline (ten minutes, or the limit of `await_agent_instance`), its rows
  are written. Cards and questions are answered by nobody: StepSettles holds
  because a stop closes them.
- `QueueFairSpec`: the microtask runs, and the job in the slot ends.
  EveryoneIsAnswered therefore speaks of callers that pause: calls are bounded,
  and an endless stream of interactive jobs may well starve a warm one.
- `AgentInstances!FairSpec`: a child that does not hang begins, ends, gives its
  slot back and is finished, the mutex of the workspace is served (every git
  command has its time limit), an armed force-finish timer goes off.
- `TaskScheduler!FairSpec`: time passes, an armed timer and the time-out of a
  worktree start fire, a started process starts its scheduler, git ends (it has a
  time limit). No wake need ever come, a window may never answer and a run never
  end.

**Violations.** `registry_move` and `goal_unpaused` are disagreements between a
comment and the code, `instance_merge` one between the title of a test and what
the code does while the child is still being finalized; `PROJECT.json` quotes
them under "findings". OneLoop and
the other registry properties are checked in runs whose bounds keep the move out.

**Behaviours seen without a run.** Each is a step of a model, kept out of the runs
by a bound or by the premise of a property, or was met while reading.

*Follow-ups.* All three are steps of `followup_kept`. A second follow-up queued
while the append of a first is in the chain rewrites `followups.json` from the
queue in memory (register.ts:2398), and a crash then loses the first from both
stores, which loop.ts:616 says must not happen; a stop that drops or preserves a
queue does the same. Removing a chip after a stop that preserved the queue
(register.ts:2474) mirrors the empty memory queue over the preserved file.
AckedFollowUpSurvives excepts the follow-ups these writes leave out (`exposed`),
and no others. A `resumeRun` that
throws reports the queue dropped without a directory to clear it from, and the
next start applies it: SettledStaysSettled speaks of starts that are not refused.

*Status queue.* The retry of a failed flush can land after an immediate write
that did not carry the failed patch (SyncNotReverted speaks of steps before the
first fault). A flush that is queued ahead of two immediate writes takes the
patch of the later one with it, and the earlier one then puts its older value
over it until the later lands (`MaxSync = 2`, `MaxWrites = 4`, `MaxChain = 4`;
the exception `Coming`). An immediate write behind the drain of a deletion
recreates the directory (NoResurrection names it as its exception); with a
second deletion (`MaxDeletes = 2`) so does a flush that began after that
immediate write lifted the mark, while the directory was missing, and that the
second deletion overtakes (the premise on `lifted`). The flush ahead of two
immediate writes and the second deletion came out of attempts to prove the two
properties without these exceptions.

*Registry.* A run that starts while an orphan sweep awaits its repairs is written
off as `cancelled`: `isActive` is asked once, before the awaits. A deletion that
finds the run live again lifts the abandon mark, but the patch that was pending
when it drained the queue is gone. When the last flush of an invoke and its retry
fail the slot is free while `status.json` says something else, usually `running`
(`FinallyFails`; the code's own comment calls it a zombie): the next start begins
from it, an orphan sweep writes the finished run off as `cancelled`, and a goal
whose resumable error was not written is not relaunched before the next start-up.

*Transcript.* A blocked instruction rewrites the transcript from a read that
answers failure with no rows (loop.ts:1883), and the history is gone. The step
ceiling and the spend limit say `done` before anyone asked for lost rows
(loop.ts:2424, 2532). A reader that flushes takes the recorded failure, and the
end of the turn finds none. A tail that `endsWithTornLine` cannot open counts as
whole and as checked, and the next row runs into the fragment (`TailUnread`;
LandedSurvives leaves it out as it does a failing read). An archive that could not be removed shifts the
index by which a blocked instruction is taken out, and a row of an earlier turn
may go with it. A notice left by the end of one turn ends the next invoke at its
first step boundary. The properties of `message_kept` name these as premises.

*Goals and loops.* A refused start of a goal's run is never relaunched. A
`resumeRun` that throws with an old resumable error in `status.json` relaunches
at once, without a pause. A loop armed while its goal is complete is dropped at
its first tick while `loop.json` stays `armed`, and a later Resume launches
nothing. With a loop armed Resume launches nothing either, and stopping the
loop then leaves the goal idle (GoalIsTakenUp excludes stopped loops). A loop whose
workspace was not open at start-up is not armed again before a restart.

*Instances.* The resume of an interrupted task brings its instances back without
a look at the signal of the task: a stop in between does not reach those that
come after it (StopReachesChildren excludes them, as `late`). An instance just
brought back still reads `cancelled` until its loop begins, so the task's first
await answers at once, against agentInstances.ts:1185. A crash between the
`done` of a child and its finalization leaves a checkout that nothing protects,
and the prune at boot removes it with its edits (the premise `died` of
EditsSurvive). A git command of the commit that fails (no disk space, a lock, a
hook) is logged, and the checkout is force-removed with the edits
(instanceWorktree.ts 1257, 1381; the premise `unkept`).

*Schedules.* With one failing write of `schedules.json` (`MaxFaults = 1`) a run is
launched and not recorded, and a second one joins it: NoOverlap breaks, and with it
MadeUpOnce (scheduleStore.ts 10-12 says that no await can split a launch from its
record, which is so; a failing write can); the same
failure after a worktree start was noted makes every later turn skip until a
restart. Run now before `startTaskScheduler` lets the tidying of old starts mark
a live one failed. Editing or disabling a schedule does not stop its pending
worktree start. Run now while the application quits starts a run.

## 4. Proofs

| Theorem | States | Assuming |
|---|---|---|
| `StatusTypeCorrect` | TypeOK of the status queue | the ASSUMEs on the constants |
| `QueuedPatchesKept`, `QueuedPatchesInOrder` | NothingLost, NewestWins | none (both speak of queued patches) |
| `DeletedStaysDeleted` | NoResurrection | none |
| `ImmediateStays` | SyncNotReverted | none (it speaks of steps before the first fault and deletion) |
| `OneLoop` | RegTypeOK, OneLoopPerRun | none |
| `OutcomeIsOnDisk` | ReleasedRunIsOnDisk | none (it leaves out the outcome whose flush and retry failed) |
| `LiveRunIsRunning` | LiveRunReadsRunning | none (it speaks of runs no sweep found) |
| `PermanentDeletionIsSafe` | NeverDeletedUnderLiveRun | permanent deletion |
| `ImplementsRegistry`, `RegistryHoldsOfFollowUps` | FollowUps implements RegSpec, and so the invariants of the registry | none |
| `FollowUpTypes`, `InstructionsRunOnce` | TypeOK of the follow-ups, AppliedOncePerLife | none |
| `CalledOffStaysOff` | SettledStaysSettled | none (it speaks of starts that are not refused) |
| `AcknowledgedIsKept` | AckedFollowUpSurvives | none (its exceptions are in the property) |
| `StartsThroughTheRegistry`, `RegistryHoldsOfStarts`, `StatusHoldsOfStarts` | the same of AutoStarts | none |
| `AutoTypes`, `ResumesAreBounded`, `LoopKeepsTicking`, `PromptWaitsOnce`, `QuotaIsLeftToTheUser` | types, BootResumesBounded, LoopIsTicking, PromptsNotStacked, QuotaWaitsForUser | none |
| `StepsImplementRegistry` | ToolStep implements RegSpec | none |
| `CallsRunOnYes`, `PromptsAreLive`, `PromptsAreKept` | RunsOnYes, PromptIsLive, PromptIsKept | none |
| `StepsGoInOrder` | StepInOrder | `ask_question` is a serial call (classify.ts) |
| `TranscriptTypes` | TypeOK of the transcript | none |
| `AppendedSurvives`, `StitchedInOrder`, `DoneIsSaved` | LandedSurvives, TranscriptInOrder, TurnDoneMeansSaved | none (their premises are in the properties) |
| `QueueTypes`, `WarmAlwaysYields`, `NoPromiseIsOrphaned` | QueueTypeOK with the limit, WarmYields, NoOrphan | none |
| `AskedIsNeverLost` | AskedIsKept | none |
| `QueueIsSingleFlight` | the queue implements SingleFlight | none |
| `InstanceTypes`, `LimitHolds`, `StopsReachAll`, `NoEditIsLost` | TypeOK, CapHolds, StopReachesChildren, EditsSurvive | none (the exceptions of EditsSurvive are in the property) |
| `SchedulerTypes`, `NoStartComesBack` | TypeOK, GivenUpStaysGivenUp | none |
| `NoTwoRuns`, `MadeUpOnlyOnce`, `NoStartLeftBehind` | NoOverlap, MadeUpOnce, StartingIsPending | no write of `schedules.json` fails |

The invariants are seldom inductive as they stand.

- ReleasedRunIsOnDisk says nothing of an invoke that still runs, so a step that
  frees the slot needs to know that the flush came first, or failed and left its
  mark (`unsaved`): the clause of `LandedInv` over phases. LiveRunReadsRunning needs `RunningInv`: a timer is
  armed only for an aborted entry and goes with it.
- NothingLost and NewestWins need to know that a read-modify-write starts from what is on
  disk (`IInv`), which holds because one chain serializes the operations of a
  directory. The premise of both is a state predicate that, once false, stays
  false (`CountsGrow`), so the induction has to keep `IInv` only while it holds.
- NoResurrection needs to know when the mark stands (`MarkInv`: a flush that would
  create the directory began after the mark was lifted, one deletion drains at a
  time). SyncNotReverted needs the order of the values on the way (`CalmInv`: what
  a flush carries is newer than what is on disk, immediate writes stand on the
  chain in the order of their calls), as long as nothing fails.
- Follow-ups: an instruction runs once because its append and the rewrite of its
  file stand on the chain once, in that order, and the chain is empty where no
  loop is left to flush it (`OnceInv`, `FollowInv`). `SettledInv` adds that nothing
  queued or on disk was called off, `AckedInv` that an acknowledged follow-up is
  on disk, in memory as long as the run may still write the queue from memory, and
  in no rewrite to come; and that an applied one is on disk as long as its append
  waits, which is why a crash gives it back (`Owed`). For the latter its rewrite has
  to stand behind its append, and what is queued to be on disk (`Lined`).
- AutoStarts: `AutoInv` adds to the types that the count on disk of a goal that
  may be resumed is at least the resumes since a turn someone asked for
  (`BootInv`); the loop's two invariants are inductive with it. QuotaWaitsForUser goes action by action.
- ToolStep: `ToolInv` says that a call past its gate has its yes (`PastItsGate`),
  that a denied one is never at a card (`Asked`), that a call on its way is in the
  group of a running step and such a step in the loop of its invoke (`OnTheWay`,
  `StepIsInLoop`), and that the gate's grants are grants of the user (`Known`). One lemma (`CallMoves`)
  covers the ten moves of one call, one (`PromptsClose`) the three that close
  prompts.
- StepInOrder needs the grouping: `GroupsFit` says of every call list that its
  groups split it in its order into calls that may run together, whatever the
  caps. `OrderInv` adds that the groups before the one at work are done and on
  disk and those behind it untouched (`GroupsInTurn`), that the rows of the group
  at work are its first results (`Written`), and that nothing on its way follows
  a question (`Answered`): a group behind an answered question is held, and a
  question is alone in its group.
- Transcript: `WriterInv` says where the writer is. A torn line is one nobody has
  looked behind since, or whose look failed (`TornUnchecked`), a rotation under way still has its head
  and its rest (`RotationHolds`), nothing is queued where a caller rewrites the
  file (`QuietRun`), and a lost row was told or is about to be (`LostIsTold`),
  which gives TurnDoneMeansSaved. `NumberInv` relates the rows on disk to the
  ones still to be appended; `OrderInv` orders the archives among themselves and
  against the hot file, except between the two renames of a rotation and while
  archives are removed, and the rows of a rewrite. `LandedInv` has a clause per
  place a landed row can be in: on disk, in the plan that is about to replace the
  file (less what its edit took out), or already in the new file while the
  archives go.
- Index queue: WarmYields fails without the order of the queue (a job behind the
  most urgent one would start), so `QueueInv` is the order, the bookkeeping of
  promises (`Booked`) and the length; the refinement is a per-step obligation
  (`Serves`) proved beside it. AskedIsKept needs which promise duplicates join
  (`BoundTo`), what is owed to a key (`Owed`), and that the rerun a `.finally()`
  starts finds room in the queue (`RerunFits`: one is due at a time, and the run
  in the slot has just left the queue).
- AgentInstances: the resume looks at the limit in one callback and registers in
  another, under the mutex, so CapHolds needs what a job in the mutex may rely on
  when its turn comes (`Fits`: no one else spawns while a resume works, and there
  is room for one), that a resume has one reattach there at a time (`Alone`), and
  that whoever counts is linked (`SlotsAreLinked`). EditsSurvive needs where edits
  may be (`TreeInv`: in a checkout that is protected while its child is at work, or
  in one a dead process left), that only a child that was cancelled or never began
  has its branch dropped (`Abandoned`, `Stillborn`), and that a checkout whose edits
  are still there when it goes is marked (`unkept`).
- Task scheduler: `Shaped` (types and tokens), `Neat` (at most one run or one
  start per schedule, and the record names it) and `InTime` (due times grow past
  the turn before; the lemma on `\div` is `NextIsLater`).

Recursive functions and sequences: what `GroupsOf`, `Hoisted`, `Without` and
their like return for every input, and which rows the stitched read of the
transcript gives (`Stitched`, `Parsed`), is proved by induction on a set of numbers
(`Climb`) or from a least member of one (`Least`), both from the library's
well-founded order of the naturals; the induction theorems with an operator
parameter are out of the prover's reach.

Each model has its proofs in the module `..._proofs` of its name, except that
`UnattendedStarts_proofs` holds those of both `TaskScheduler` and `AutoStarts`,
the two ways a run starts with nobody there.

Only model-checked: liveness (TerminalLands, SlotIsReleased, AckedIsAnswered,
EveryoneIsAnswered, DueIsServed, StartEnds, GoalIsTakenUp, StepSettles,
WaitIsAnswered), which is out of the prover's reach. Every invariant and every
action property of the passing runs is proved, and the types of every module
(those of `ToolStep` are `StepTypes` of its proofs).

## 5. Not modelled, and what is next

Not modelled: the event log (same chain and rotation as the transcript, with a
cap on pending bytes), checkpoints and rewind, compaction, event delivery to the
window, the flush at quit, MCP clients and worktree leases. They carry state and
would each take a module of the size of these; in this order they come next. The
stream retry is sequential inside a step.

Not worth a module: the user interface, provider wire formats, voice pipelines,
single tools, git and shell wrappers, the marketplace, evaluation harnesses,
storage clean-up, prompts and schemas. They are I/O, parsing, layout or pure
rules; a model would repeat them.

Proofs to add: an abstract log that the transcript implements, and what repeating
tasks keep when a write of `schedules.json` fails.
