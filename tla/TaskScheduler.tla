---------------------------- MODULE TaskScheduler ----------------------------
(***************************************************************************)
(* Repeating tasks (src/main/schedules/taskScheduler.ts) over the store of *)
(* schedules.json (scheduleStore.ts): one timer for the soonest due        *)
(* schedule, a turn that starts each due schedule once or records why not, *)
(* and the runs that first need a worktree made by git and opened by the   *)
(* window.                                                                 *)
(*                                                                         *)
(* The wall clock is a counter.  setTimeout counts the time the machine is *)
(* awake: a sleep moves the clock and leaves every timer where it was.     *)
(* Reading, deciding and writing happen in one synchronous callback, so a  *)
(* turn is one action; only making and opening a worktree take several.    *)
(* A pinned model, the brief and the notes of an outcome are left out.     *)
(***************************************************************************)
EXTENDS Naturals, Sequences, FiniteSets

CONSTANTS
    Schedules,   \* identities of schedules
    Period,      \* distance of two due times
    MaxTimer,    \* MAX_TIMER_MS
    OpenTimeout, \* WORKTREE_OPEN_TIMEOUT_MS
    MaxTime,     \* bound: the wall clock stops here
    MaxCalls,    \* bound: create, edit, delete and run-now calls
    MaxQuits,    \* bound: times the process ends
    MaxSleeps,   \* bound: times the machine sleeps
    MaxFaults    \* bound: writes of schedules.json that fail

ASSUME SchedulerAssumption ==
    /\ Period \in Nat \ {0} /\ MaxTimer \in Nat \ {0} /\ OpenTimeout \in Nat
    /\ MaxTime \in Nat /\ MaxCalls \in Nat /\ MaxQuits \in Nat /\ MaxSleeps \in Nat
    /\ MaxFaults \in Nat

VARIABLES
    store,    \* schedules.json, and its cache
    used,     \* identities taken so far (they are random, never reused)
    app,      \* "booting" until startTaskScheduler, "running", "quitting" after stopTaskScheduler
    dueTimer, \* time left of the timer, or Off
    starts,   \* pendingWorktrees, by schedule
    tokens,   \* schedule -> worktree starts it had so far; the number is the token
    asked,    \* requests to open a worktree the window has not answered
    runs,     \* schedule -> every run it started; which of them are active
    clock,    \* the wall clock
    calls, quits, sleeps, faults  \* how much of each bound is used

vars == <<store, used, app, dueTimer, starts, tokens, asked, runs, clock, calls, quits, sleeps, faults>>

Off == MaxTimer + 1
NoRun == 0
Manual == 0        \* the due time of a Run now
Kinds == {"none", "started", "starting", "failed", "skipped"}
ScheduleRec == [enabled : BOOLEAN, worktree : BOOLEAN, spec : {"interval", "slots"},
                next : Nat, last : Nat, outcome : Kinds]
StartRec == [at : {"none", "making", "opening", "stuck"}, left : 0..OpenTimeout,
             token : Nat, due : Nat, turn : Nat]
RunRec == [due : Nat, turn : Nat, token : Nat, active : BOOLEAN]
NoStart == [at |-> "none", left |-> 0, token |-> 0, due |-> 0, turn |-> 0]

\* nextScheduleTime: an interval counts from the run, a cron takes its first match after it.
NextScheduleTime(spec, after) ==
    IF spec = "interval" THEN after + Period ELSE (after \div Period + 1) * Period

Known == DOMAIN store
Started == app = "running"
Due(st) == {s \in DOMAIN st : st[s].enabled /\ st[s].next <= clock}
Starting(s) == starts[s].at # "none"
RunActive(s) == store[s].last # NoRun /\ runs[s][store[s].last].active

Init ==
    /\ store = <<>> /\ used = {} /\ app = "booting" /\ dueTimer = Off
    /\ starts = [s \in Schedules |-> NoStart] /\ tokens = [s \in Schedules |-> 0] /\ asked = {}
    /\ runs = [s \in Schedules |-> <<>>]
    /\ clock = 1 /\ calls = 0 /\ quits = 0 /\ sleeps = 0 /\ faults = 0

-----------------------------------------------------------------------------
Soonest(S) == CHOOSE n \in S : \A k \in S : n <= k

\* The delay of the timer for the soonest enabled schedule; Off when there is none.
Delay(st, on) ==
    LET times == {st[s].next : s \in {x \in DOMAIN st : st[x].enabled}}
    IN IF ~on \/ times = {} THEN Off
       ELSE IF Soonest(times) <= clock THEN 0
       ELSE Soonest({MaxTimer, Soonest(times) - clock})
Arm(on) == dueTimer' = Delay(store', on)

\* Mutant: only a run that is still going makes a turn skip.
OutcomeIgnoringStarts(s, st, ready) ==
    IF RunActive(s) THEN "skipped"
    ELSE IF ~ready THEN "failed"
    ELSE IF st[s].worktree THEN "starting"
    ELSE "started"

\* The first matching branch of fire.  `ready` is false when there is no window, the workspace
\* is not open or the launch is refused.
Outcome(s, st, ready) ==
    IF Starting(s) \/ RunActive(s) THEN "skipped"
    ELSE IF ~ready THEN "failed"
    ELSE IF st[s].worktree THEN "starting"
    ELSE "started"

\* Mutant: the next due time counts from the missed one.
RecordedFromDue(s, st, kind, manual) ==
    [st[s] EXCEPT !.outcome = kind,
                  !.next = IF manual THEN @ ELSE NextScheduleTime(st[s].spec, st[s].next),
                  !.last = IF kind = "started" THEN Len(runs[s]) + 1 ELSE @]

\* The schedule as record() writes it.
Recorded(s, st, kind, manual) ==
    [st[s] EXCEPT !.outcome = kind,
                  !.next = IF manual THEN @ ELSE NextScheduleTime(st[s].spec, clock),
                  !.last = IF kind = "started" THEN Len(runs[s]) + 1 ELSE @]

\* fire(), for every schedule of `fired` in one callback.  Where the write of the outcome fails
\* the run is launched all the same, and a worktree start stays in the map with nothing to make it.
Fire(fired, st, ready, unwritten, manual, failed) ==
    LET kind == [s \in fired |-> Outcome(s, st, ready[s])]
        due(s) == IF manual THEN Manual ELSE st[s].next
        making == {s \in fired : kind[s] = "starting"}
    IN /\ store' = [s \in DOMAIN st |-> IF s \in fired \ unwritten
                                        THEN Recorded(s, st, kind[s], manual) ELSE st[s]]
       /\ runs' = [s \in Schedules |->
                     IF s \in fired /\ kind[s] = "started"
                     THEN Append(runs[s], [due |-> due(s), turn |-> clock, token |-> 0,
                                           active |-> TRUE])
                     ELSE runs[s]]
       /\ starts' = [s \in Schedules |->
                     IF s \in making
                     THEN [at |-> IF s \in unwritten THEN "stuck" ELSE "making", left |-> 0,
                           token |-> tokens[s] + 1, due |-> due(s), turn |-> clock]
                     ELSE starts[s]]
       /\ tokens' = [s \in Schedules |-> IF s \in making THEN tokens[s] + 1 ELSE tokens[s]]
       /\ faults' = faults + failed + Cardinality(unwritten) /\ faults' <= MaxFaults

\* Mutant: the turn does not arm the timer again.
RunDueUnarmed(st, failed) ==
    /\ \E ready \in [Due(st) -> BOOLEAN], unwritten \in SUBSET Due(st) :
          Fire(Due(st), st, ready, unwritten, FALSE, failed)
    /\ dueTimer' = Off
RunDueSchedules(st, failed) ==
    /\ \E ready \in [Due(st) -> BOOLEAN], unwritten \in SUBSET Due(st) :
          Fire(Due(st), st, ready, unwritten, FALSE, failed)
    /\ Arm(TRUE)

-----------------------------------------------------------------------------
\* Time passes: with the machine awake every running timer advances with the clock.
Tick ==
    /\ clock < MaxTime \/ dueTimer \in 1..MaxTimer \/ \E s \in Schedules : starts[s].left > 0
    /\ clock' = IF clock < MaxTime THEN clock + 1 ELSE clock
    /\ dueTimer' = IF dueTimer \in {0, Off} THEN dueTimer ELSE dueTimer - 1
    /\ starts' = [s \in Schedules |->
                    [starts[s] EXCEPT !.left = IF @ = 0 THEN 0 ELSE @ - 1]]
    /\ UNCHANGED <<store, used, app, tokens, asked, runs, calls, quits, sleeps, faults>>

\* The machine sleeps and wakes: onResume checks the schedules at once.
Sleep ==
    /\ sleeps < MaxSleeps /\ clock < MaxTime
    /\ sleeps' = sleeps + 1
    /\ clock' \in (clock + 1)..MaxTime
    /\ UNCHANGED <<store, used, app, dueTimer, starts, tokens, asked, runs, calls, quits, faults>>
OnResume ==
    /\ Started /\ sleeps > 0 /\ RunDueSchedules(store, 0)
    /\ UNCHANGED <<used, app, asked, clock, calls, quits, sleeps>>

TimerFires ==
    /\ dueTimer = 0 /\ RunDueSchedules(store, 0)
    /\ UNCHANGED <<used, app, asked, clock, calls, quits, sleeps>>

\* settleAbandonedStarts: a "starting" of the last session reads as failed.  Its write may fail.
Tidied(st) == [s \in DOMAIN st |-> IF st[s].outcome = "starting"
                                   THEN [st[s] EXCEPT !.outcome = "failed"] ELSE st[s]]
StartTaskScheduler ==
    /\ app = "booting" /\ app' = "running"
    /\ \/ RunDueSchedules(Tidied(store), 0)
       \/ Tidied(store) # store /\ RunDueSchedules(store, 1)
    /\ UNCHANGED <<used, asked, clock, calls, quits, sleeps>>

StopTaskScheduler ==
    /\ app \in {"booting", "running"} /\ app' = "quitting"
    /\ dueTimer' = Off /\ starts' = [s \in Schedules |-> NoStart]
    /\ UNCHANGED <<store, used, tokens, asked, runs, clock, calls, quits, sleeps, faults>>

\* The process ends, by a quit or a crash, and the app is opened again.
Exit ==
    /\ quits < MaxQuits /\ quits' = quits + 1
    /\ app' = "booting" /\ dueTimer' = Off /\ asked' = {}
    /\ starts' = [s \in Schedules |-> NoStart]
    /\ runs' = [s \in Schedules |-> [i \in DOMAIN runs[s] |-> [runs[s][i] EXCEPT !.active = FALSE]]]
    /\ UNCHANGED <<store, used, tokens, clock, calls, sleeps, faults>>

-----------------------------------------------------------------------------
(* The worktree of a start.  settle() stops waiting on it and writes how it ended up, on the   *)
(* schedule if it is still there; a failing write is logged and the outcome is lost.           *)
\* Mutant: a start whose schedule was deleted is kept waiting.
SettleAfterPatch(s, kind, written) ==
    /\ starts' = IF s \in Known THEN [starts EXCEPT ![s] = NoStart] ELSE starts
    /\ store' = IF s \notin Known \/ ~written THEN store
                ELSE [store EXCEPT ![s].outcome = kind,
                                   ![s].last = IF kind = "started" THEN Len(runs[s]) + 1 ELSE @]
    /\ faults' = faults + (IF s \in Known /\ ~written THEN 1 ELSE 0) /\ faults' <= MaxFaults
Settle(s, kind, written) ==
    /\ starts' = [starts EXCEPT ![s] = NoStart]
    /\ store' = IF s \notin Known \/ ~written THEN store
                ELSE [store EXCEPT ![s].outcome = kind,
                                   ![s].last = IF kind = "started" THEN Len(runs[s]) + 1 ELSE @]
    /\ faults' = faults + (IF s \in Known /\ ~written THEN 1 ELSE 0) /\ faults' <= MaxFaults

\* Git made the worktree, and the window is asked to open it; or it failed, or there is none.
WorktreeMade(s) ==
    /\ starts[s].at = "making"
    /\ starts' = [starts EXCEPT ![s].at = "opening", ![s].left = OpenTimeout]
    /\ asked' = asked \cup {<<s, starts[s].token>>}
    /\ UNCHANGED <<store, used, app, dueTimer, tokens, runs, clock, calls, quits, sleeps, faults>>
WorktreeFails(s) ==
    /\ starts[s].at = "making"
    /\ \E written \in BOOLEAN : Settle(s, "failed", written)
    /\ UNCHANGED <<used, app, dueTimer, tokens, asked, runs, clock, calls, quits, sleeps>>

\* The window never answered in time; it may still answer later.
OpenTimesOut(s) ==
    /\ starts[s].at = "opening" /\ starts[s].left = 0
    /\ \E written \in BOOLEAN : Settle(s, "failed", written)
    /\ UNCHANGED <<used, app, dueTimer, tokens, asked, runs, clock, calls, quits, sleeps>>

\* Mutant: the answer is taken for whatever start the schedule has.
WaitsBySchedule(s, token) == Starting(s)
\* The start the answer is for: the one of that token, once its worktree is made.
Waits(s, token) == starts[s].at = "opening" /\ starts[s].token = token

\* scheduledWorktreeOpened: the run starts unless the window could not open it, the schedule is
\* gone, there is no window or the launch is refused.
ScheduledWorktreeOpened(s, token, ready) ==
    /\ <<s, token>> \in asked /\ asked' = asked \ {<<s, token>>}
    /\ \/ /\ ~Waits(s, token)
          /\ UNCHANGED <<store, starts, runs, faults>>
       \/ /\ Waits(s, token) /\ ready /\ s \in Known
          /\ runs' = [runs EXCEPT ![s] = Append(@, [due |-> starts[s].due, turn |-> starts[s].turn,
                                                    token |-> token, active |-> TRUE])]
          /\ \E written \in BOOLEAN : Settle(s, "started", written)
       \/ /\ Waits(s, token) /\ ~(ready /\ s \in Known)
          /\ \E written \in BOOLEAN : Settle(s, "failed", written)
          /\ UNCHANGED runs
    /\ UNCHANGED <<used, app, dueTimer, tokens, clock, calls, quits, sleeps>>

RunEnds(s, i) ==
    /\ runs[s][i].active /\ runs' = [runs EXCEPT ![s][i].active = FALSE]
    /\ UNCHANGED <<store, used, app, dueTimer, starts, tokens, asked, clock, calls, quits, sleeps, faults>>

-----------------------------------------------------------------------------
(* The calls of the window.  One whose write fails throws before anything else. *)
Called == calls < MaxCalls /\ calls' = calls + 1

CreateSchedule(s, spec, worktree) ==
    /\ Called /\ s \notin used /\ used' = used \cup {s}
    /\ store' = [x \in Known \cup {s} |->
                   IF x # s THEN store[x]
                   ELSE [enabled |-> TRUE, worktree |-> worktree, spec |-> spec,
                         next |-> NextScheduleTime(spec, clock), last |-> NoRun, outcome |-> "none"]]
    /\ Arm(Started)
    /\ UNCHANGED <<app, starts, tokens, asked, runs, clock, quits, sleeps, faults>>

\* A new time, or turning it back on, is due next from now; saving the same time keeps it.
UpdateSchedule(s, enabled, spec, worktree) ==
    /\ Called /\ s \in Known
    /\ store' = [store EXCEPT ![s].enabled = enabled, ![s].spec = spec, ![s].worktree = worktree,
                              ![s].next = IF spec # store[s].spec \/ (enabled /\ ~store[s].enabled)
                                          THEN NextScheduleTime(spec, clock) ELSE @]
    /\ store' # store /\ Arm(Started)
    /\ UNCHANGED <<used, app, starts, tokens, asked, runs, clock, quits, sleeps, faults>>

DeleteSchedule(s) ==
    /\ Called /\ s \in Known
    /\ store' = [x \in Known \ {s} |-> store[x]]
    /\ Arm(Started)
    /\ UNCHANGED <<used, app, starts, tokens, asked, runs, clock, quits, sleeps, faults>>

RunScheduleNow(s) ==
    /\ Called /\ s \in Known
    /\ \E ready \in [{s} -> BOOLEAN], unwritten \in SUBSET {s} :
          /\ Fire({s}, store, ready, unwritten, TRUE, 0)
          /\ dueTimer' = IF unwritten = {} THEN Delay(store', Started) ELSE dueTimer
    /\ UNCHANGED <<used, app, asked, clock, quits, sleeps>>

-----------------------------------------------------------------------------
Turn == TimerFires \/ OnResume \/ StartTaskScheduler
WorktreeStep(s) ==
    \/ WorktreeMade(s) \/ WorktreeFails(s) \/ OpenTimesOut(s)
    \/ \E token \in 1..tokens[s], ready \in BOOLEAN : ScheduledWorktreeOpened(s, token, ready)
Call(s) ==
    \/ \E spec \in {"interval", "slots"}, worktree \in BOOLEAN :
          \/ CreateSchedule(s, spec, worktree)
          \/ \E enabled \in BOOLEAN : UpdateSchedule(s, enabled, spec, worktree)
    \/ DeleteSchedule(s) \/ RunScheduleNow(s)

Next ==
    \/ Tick \/ Sleep \/ Turn \/ StopTaskScheduler \/ Exit
    \/ \E s \in Schedules : \/ WorktreeStep(s) \/ Call(s)
                             \/ \E i \in DOMAIN runs[s] : RunEnds(s, i)

Spec == Init /\ [][Next]_vars

\* The main process runs its timers and git ends; a window may never answer, and a run never end.
Fairness ==
    /\ WF_vars(Tick) /\ WF_vars(TimerFires) /\ WF_vars(StartTaskScheduler)
    /\ \A s \in Schedules : /\ WF_vars(WorktreeMade(s) \/ WorktreeFails(s))
                            /\ WF_vars(OpenTimesOut(s))
FairSpec == Spec /\ Fairness

-----------------------------------------------------------------------------
ActiveRuns(s) == {i \in DOMAIN runs[s] : runs[s][i].active}

\* The shape of the state.
TypeOK ==
    /\ used \subseteq Schedules /\ Known \subseteq used
    /\ \A s \in Known : store[s] \in ScheduleRec
    /\ app \in {"booting", "running", "quitting"} /\ dueTimer \in 0..Off
    /\ starts \in [Schedules -> StartRec] /\ tokens \in [Schedules -> Nat]
    /\ asked \subseteq Schedules \X Nat
    /\ runs \in [Schedules -> Seq(RunRec)]
    /\ clock \in Nat /\ calls \in 0..MaxCalls /\ quits \in 0..MaxQuits
    /\ sleeps \in 0..MaxSleeps /\ faults \in 0..MaxFaults

\* A schedule never has two runs at once: not two going, not one going and one starting, whether
\* the timer, a wake, a restart, Run now or a worktree that was opened late started them; while
\* no write of schedules.json fails (MaxFaults = 0: with a start that was not recorded, the next
\* turn starts the run again).
NoOverlap ==
    \A s \in Schedules :
        /\ \A i, k \in ActiveRuns(s) : i = k
        /\ Starting(s) => ActiveRuns(s) = {}

\* Missed times are made up once: a run of the timetable is for a time after the turn that
\* started the one before it, over sleeps, restarts, edits and Run now, while no write of
\* schedules.json fails (MaxFaults = 0: the new due time is in that write).
MadeUpOnce ==
    \A s \in Schedules : \A i, k \in DOMAIN runs[s] :
        i < k /\ runs[s][i].due # Manual /\ runs[s][k].due # Manual => runs[s][k].due > runs[s][i].turn

\* While the scheduler runs, a schedule that says its run is starting has one that is: no
\* "starting" is left behind by a timeout, a restart or a quit, while no write of
\* schedules.json fails (MaxFaults = 0).
StartingIsPending ==
    Started => \A s \in Known : store[s].outcome = "starting" => Starting(s)

\* A start that was given up stays given up: an answer that comes after its timeout, after a
\* quit, or while a later start of the schedule waits, starts nothing.
GivenUp(s, token) == /\ token \in 1..tokens[s] /\ starts[s].token # token
                     /\ \A i \in DOMAIN runs[s] : runs[s][i].token # token
GivenUpStaysGivenUp ==
    [][\A s \in Schedules : \A token \in 1..tokens[s] : GivenUp(s, token) => GivenUp(s, token)']_vars

\* A due time is served: the schedule runs, skips or fails and moves on, is turned off or
\* deleted, or the app is closed.
DueIsServed ==
    \A s \in Schedules :
        (Started /\ s \in Due(store)) ~> (~Started \/ s \notin Due(store))

\* A worktree start ends, whether or not the window ever answers, and is recorded as ended: no
\* schedule says "starting" for ever, over timeouts, quits and restarts, while no write of
\* schedules.json fails (MaxFaults = 0: the write that ends a "starting" is logged when it fails).
SaysStarting(s) == Started /\ s \in Known /\ store[s].outcome = "starting"
StartEnds == \A s \in Schedules : []<>(~Starting(s) /\ ~SaysStarting(s))
=============================================================================
