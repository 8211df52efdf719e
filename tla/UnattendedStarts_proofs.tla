----------------------- MODULE UnattendedStarts_proofs -----------------------
(***************************************************************************)
(* What starts a run with nobody there: the timetable of TaskScheduler, and *)
(* the goals, loops and relaunches of AutoStarts.                           *)
(*                                                                          *)
(* Repeating tasks, for any number of schedules, any period, timer and      *)
(* timeout, and any number of calls, sleeps and restarts.  The types hold   *)
(* whatever fails.  That a schedule never has two runs, that missed times   *)
(* are made up once and that no "starting" is left behind hold where no     *)
(* write of schedules.json fails: every turn of the proof uses that the     *)
(* outcome of a launch is on the schedule (Neat: the run that goes on is    *)
(* the one the schedule names; InTime: its next time lies after every turn  *)
(* that served it).                                                         *)
(*                                                                          *)
(* Goals and loops, for every number of invokes, of crashes, of refused     *)
(* launches and of requests.  AutoStarts implements RunRegistry: whatever   *)
(* starts a run, the registry sees one of its own steps.  The invariants of *)
(* the loop timer and of its prompt are inductive as they stand; the bound  *)
(* on the resumes at start-up needs the relation between the count of       *)
(* goal.json and the history it stands for (BootInv).                       *)
(***************************************************************************)
EXTENDS TaskScheduler, AutoStarts, RunRegistry_proofs, FiniteSetTheorems

-----------------------------------------------------------------------------
(* Times.                                                                    *)

\* The least of a set of numbers.
LEMMA SoonestIs ==
    ASSUME NEW S \in SUBSET Nat, S # {}
    PROVE  Soonest(S) \in S /\ \A k \in S : Soonest(S) <= k
BY Least DEF Soonest

\* The next time of a schedule is after the one it is counted from.
LEMMA NextIsLater ==
    ASSUME NEW spec, NEW after \in Nat
    PROVE  NextScheduleTime(spec, after) \in Nat /\ NextScheduleTime(spec, after) > after
<1>1. Period \in Nat \ {0}
  BY SchedulerAssumption
<1>2. (after \div Period + 1) * Period > after /\ (after \div Period + 1) * Period \in Nat
  BY <1>1, SMTT(30)
<1>3. after + Period > after /\ after + Period \in Nat
  BY <1>1
<1> HIDE DEF NextScheduleTime
<1> QED BY <1>2, <1>3 DEF NextScheduleTime

\* The timer is never armed for longer than MAX_TIMER_MS.
LEMMA DelayType ==
    ASSUME NEW st, NEW on \in BOOLEAN, clock \in Nat, \A s \in DOMAIN st : st[s].next \in Nat
    PROVE  Delay(st, on) \in 0..Off
<1> DEFINE times == {st[s].next : s \in {x \in DOMAIN st : st[x].enabled}}
<1>1. times \in SUBSET Nat
  OBVIOUS
<1>2. MaxTimer \in Nat /\ Off = MaxTimer + 1
  BY SchedulerAssumption DEF Off
<1>3. Delay(st, on) = IF ~on \/ times = {} THEN Off
                      ELSE IF Soonest(times) <= clock THEN 0
                      ELSE Soonest({MaxTimer, Soonest(times) - clock})
  BY DEF Delay
<1> HIDE DEF times
<1>4. CASE ~on \/ times = {}
  BY <1>2, <1>3, <1>4
<1>5. CASE ~(~on \/ times = {}) /\ Soonest(times) <= clock
  BY <1>2, <1>3, <1>5
<1>6. CASE ~(~on \/ times = {}) /\ ~(Soonest(times) <= clock)
  <2>1. Soonest(times) \in Nat
    BY <1>1, <1>6, SoonestIs
  <2> DEFINE both == {MaxTimer, Soonest(times) - clock}
  <2>2. both \in SUBSET Nat /\ both # {} /\ MaxTimer \in both
    BY <1>2, <1>6, <2>1
  <2>3. Soonest(both) \in Nat /\ Soonest(both) <= MaxTimer
    BY <2>2, SoonestIs
  <2> QED BY <1>2, <1>3, <1>6, <2>3
<1> QED BY <1>4, <1>5, <1>6

-----------------------------------------------------------------------------
(* The types.                                                                *)

Shaped ==
    /\ TypeOK /\ IsFiniteSet(Known)
    /\ \A s \in Schedules \ used : runs[s] = <<>> /\ ~Starting(s)

\* What is read of the store by a turn: schedules.json, or the tidied copy of start-up.
Read(st) ==
    /\ DOMAIN st = Known
    /\ \A s \in Known : /\ st[s] \in ScheduleRec
                        /\ st[s].last = store[s].last /\ st[s].next = store[s].next

\* Where fire() left a schedule.
Fired(s, fired, st, ready, manual) ==
    LET due == IF manual THEN Manual ELSE st[s].next
        kind == Outcome(s, st, ready[s])
    IN
    \/ /\ s \in fired => kind \in {"skipped", "failed"}
       /\ runs'[s] = runs[s] /\ starts'[s] = starts[s] /\ tokens'[s] = tokens[s]
    \/ /\ s \in fired /\ kind = "started" /\ ~Starting(s) /\ ~RunActive(s)
       /\ runs'[s] = Append(runs[s], [due |-> due, turn |-> clock, token |-> 0, active |-> TRUE])
       /\ starts'[s] = starts[s] /\ tokens'[s] = tokens[s]
    \/ /\ s \in fired /\ kind = "starting" /\ ~Starting(s) /\ ~RunActive(s)
       /\ runs'[s] = runs[s] /\ tokens'[s] = tokens[s] + 1
       /\ \E at \in {"making", "stuck"} :
            starts'[s] = [at |-> at, left |-> 0, token |-> tokens[s] + 1, due |-> due, turn |-> clock]

\* What fire() did to one schedule is one of the three.
LEMMA FireOn ==
    ASSUME NEW fired, NEW st, NEW ready \in [fired -> BOOLEAN], NEW unwritten, NEW manual, NEW failed,
           NEW s \in Schedules, Fire(fired, st, ready, unwritten, manual, failed)
    PROVE  Fired(s, fired, st, ready, manual)
<1> DEFINE kind == [x \in fired |-> Outcome(x, st, ready[x])]
           due == IF manual THEN Manual ELSE st[s].next
           making == {x \in fired : kind[x] = "starting"}
<1>1. /\ runs'[s] = IF s \in fired /\ kind[s] = "started"
                    THEN Append(runs[s], [due |-> due, turn |-> clock, token |-> 0, active |-> TRUE])
                    ELSE runs[s]
      /\ starts'[s] = IF s \in making
                      THEN [at |-> IF s \in unwritten THEN "stuck" ELSE "making", left |-> 0,
                            token |-> tokens[s] + 1, due |-> due, turn |-> clock]
                      ELSE starts[s]
      /\ tokens'[s] = IF s \in making THEN tokens[s] + 1 ELSE tokens[s]
  BY DEF Fire
<1>2. ASSUME s \in fired, kind[s] \in {"started", "starting"}
      PROVE  ~Starting(s) /\ ~RunActive(s)
  BY <1>2 DEF Outcome
<1>0. s \in fired => kind[s] = Outcome(s, st, ready[s]) /\ kind[s] \in {"skipped", "failed", "starting", "started"}
  BY DEF Outcome
<1> HIDE DEF kind, due
<1>3. CASE s \in fired /\ kind[s] = "started"
  BY <1>0, <1>1, <1>2, <1>3 DEF Fired, due
<1>4. CASE s \in fired /\ kind[s] = "starting"
  <2> DEFINE at == IF s \in unwritten THEN "stuck" ELSE "making"
  <2>1. at \in {"making", "stuck"}
    OBVIOUS
  <2>2. /\ runs'[s] = runs[s] /\ tokens'[s] = tokens[s] + 1
        /\ starts'[s] = [at |-> at, left |-> 0, token |-> tokens[s] + 1, due |-> due, turn |-> clock]
    BY <1>1, <1>4
  <2> HIDE DEF at
  <2> QED BY <1>0, <1>2, <1>4, <2>1, <2>2 DEF Fired, due
<1>5. CASE ~(s \in fired /\ kind[s] \in {"started", "starting"})
  BY <1>0, <1>1, <1>5 DEF Fired, due
<1> QED BY <1>3, <1>4, <1>5

\* What is recorded of a turn.
LEMMA OutcomeType ==
    ASSUME NEW s, NEW st, NEW ready PROVE Outcome(s, st, ready) \in Kinds
BY DEF Outcome, Kinds

\* The entry of a start and of a run are well formed.
LEMMA FireShapes ==
    ASSUME Shaped, NEW st, Read(st), NEW fired \in SUBSET Known, NEW ready \in [fired -> BOOLEAN],
           NEW unwritten \in SUBSET fired, NEW manual \in BOOLEAN, NEW failed \in Nat,
           Fire(fired, st, ready, unwritten, manual, failed)
    PROVE  /\ DOMAIN store' = Known /\ \A s \in Known : store'[s] \in ScheduleRec
           /\ starts' \in [Schedules -> StartRec] /\ tokens' \in [Schedules -> Nat]
           /\ runs' \in [Schedules -> Seq(RunRec)]
           /\ faults' \in 0..MaxFaults
           /\ \A s \in Schedules \ used : runs'[s] = <<>> /\ starts'[s].at = "none"
<1> USE DEF Shaped, TypeOK, Read
<1>1. DOMAIN store' = Known /\ \A s \in Known : store'[s] = IF s \in fired \ unwritten
              THEN Recorded(s, st, Outcome(s, st, ready[s]), manual) ELSE st[s]
  BY DEF Fire
<1>2. ASSUME NEW s \in Known PROVE store'[s] \in ScheduleRec
  <2>0. st[s] \in ScheduleRec /\ s \in Schedules
    OBVIOUS
  <2> DEFINE k == Outcome(s, st, ready[s])
             n == IF manual THEN st[s].next ELSE NextScheduleTime(st[s].spec, clock)
             l == IF k = "started" THEN Len(runs[s]) + 1 ELSE st[s].last
  <2>1. k \in Kinds
    BY OutcomeType
  <2>2. n \in Nat
    <3>1. st[s].next \in Nat
      BY <2>0 DEF ScheduleRec
    <3>2. NextScheduleTime(st[s].spec, clock) \in Nat
      BY NextIsLater
    <3> QED BY <3>1, <3>2
  <2>3. l \in Nat
    <3>1. st[s].last \in Nat /\ runs[s] \in Seq(RunRec)
      BY <2>0 DEF ScheduleRec
    <3> QED BY <3>1
  <2>4. Recorded(s, st, k, manual) = [st[s] EXCEPT !.outcome = k, !.next = n, !.last = l]
    BY DEF Recorded
  <2> HIDE DEF k, n, l
  <2>5. [st[s] EXCEPT !.outcome = k, !.next = n, !.last = l] \in ScheduleRec
    BY <2>0, <2>1, <2>2, <2>3 DEF ScheduleRec
  <2> QED BY <1>1, <2>0, <2>4, <2>5 DEF k
<1>3. ASSUME NEW s \in Schedules
      PROVE  starts'[s] \in StartRec /\ tokens'[s] \in Nat /\ runs'[s] \in Seq(RunRec)
  <2> DEFINE due == IF manual THEN Manual ELSE st[s].next
  <2>1. Fired(s, fired, st, ready, manual)
    BY FireOn
  <2>2. s \in fired => due \in Nat
    <3>1. s \in fired => st[s].next \in Nat
      BY DEF ScheduleRec
    <3> QED BY <3>1 DEF Manual
  <2>3. runs[s] \in Seq(RunRec) /\ starts[s] \in StartRec /\ tokens[s] \in Nat /\ clock \in Nat
    OBVIOUS
  <2> HIDE DEF due
  <2>4. s \in fired => [due |-> due, turn |-> clock, token |-> 0, active |-> TRUE] \in RunRec
    BY <2>2, <2>3 DEF RunRec
  <2>5. ASSUME NEW at \in {"making", "stuck"}, s \in fired
        PROVE  [at |-> at, left |-> 0, token |-> tokens[s] + 1, due |-> due, turn |-> clock] \in StartRec
    BY <2>2, <2>3, <2>5, SchedulerAssumption DEF StartRec
  <2> DEFINE run == [due |-> due, turn |-> clock, token |-> 0, active |-> TRUE]
             start(at) == [at |-> at, left |-> 0, token |-> tokens[s] + 1, due |-> due,
                           turn |-> clock]
  <2>6. \/ runs'[s] = runs[s] /\ starts'[s] = starts[s] /\ tokens'[s] = tokens[s]
        \/ /\ s \in fired /\ runs'[s] = Append(runs[s], run)
           /\ starts'[s] = starts[s] /\ tokens'[s] = tokens[s]
        \/ /\ s \in fired /\ runs'[s] = runs[s] /\ tokens'[s] = tokens[s] + 1
           /\ \E at \in {"making", "stuck"} : starts'[s] = start(at)
    BY ONLY <2>1 DEF Fired, due
  <2>7. s \in fired => run \in RunRec
    BY ONLY <2>4
  <2>8. s \in fired => \A at \in {"making", "stuck"} : start(at) \in StartRec
    BY ONLY <2>5
  <2> HIDE DEF run, start
  <2> QED BY ONLY <2>3, <2>6, <2>7, <2>8, SMTT(30)
<1>4. /\ starts' \in [Schedules -> StartRec] /\ tokens' \in [Schedules -> Nat]
      /\ runs' \in [Schedules -> Seq(RunRec)]
  BY <1>3 DEF Fire
<1>5. faults' \in 0..MaxFaults
  <2>1. IsFiniteSet(unwritten)
    BY FS_Subset
  <2>2. Cardinality(unwritten) \in Nat
    BY <2>1, FS_CardinalityType
  <2>3. faults' = faults + failed + Cardinality(unwritten) /\ faults' <= MaxFaults
    BY DEF Fire
  <2> QED BY <2>2, <2>3, SchedulerAssumption
<1>6. ASSUME NEW s \in Schedules \ used PROVE runs'[s] = <<>> /\ starts'[s].at = "none"
  <2>1. s \notin fired
    OBVIOUS
  <2>2. Fired(s, fired, st, ready, manual)
    BY FireOn
  <2> QED BY <2>1, <2>2 DEF Fired, Starting
<1> QED BY <1>1, <1>2, <1>4, <1>5, <1>6

\* Both are read so.
LEMMA StoreIsRead == ASSUME Shaped PROVE Read(store) /\ Read(Tidied(store))
<1> USE DEF Shaped, TypeOK
<1>1. \A s \in Known : /\ Tidied(store)[s] \in ScheduleRec
                       /\ Tidied(store)[s].last = store[s].last
                       /\ Tidied(store)[s].next = store[s].next
  <2> SUFFICES ASSUME NEW s \in Known
               PROVE  /\ Tidied(store)[s] \in ScheduleRec
                      /\ Tidied(store)[s].last = store[s].last
                      /\ Tidied(store)[s].next = store[s].next
    OBVIOUS
  <2>1. Tidied(store)[s] = IF store[s].outcome = "starting"
                           THEN [store[s] EXCEPT !.outcome = "failed"] ELSE store[s]
    BY DEF Tidied, Known
  <2> QED BY <2>1 DEF ScheduleRec, Kinds
<1>2. DOMAIN Tidied(store) = Known
  BY DEF Tidied, Known
<1>3. Read(store)
  BY DEF Read, Known
<1> QED BY <1>1, <1>2, <1>3 DEF Read

\* A turn of the scheduler.
LEMMA TurnShaped ==
    ASSUME Shaped, NEW st, Read(st), NEW failed \in Nat, RunDueSchedules(st, failed),
           app' \in {"booting", "running", "quitting"},
           UNCHANGED <<used, asked, clock, calls, quits, sleeps>>
    PROVE  Shaped'
<1>1. PICK ready \in [Due(st) -> BOOLEAN], unwritten \in SUBSET Due(st) :
        Fire(Due(st), st, ready, unwritten, FALSE, failed)
  BY DEF RunDueSchedules
<1>2. Due(st) \in SUBSET Known
  BY DEF Due, Read
<1>3. /\ DOMAIN store' = Known /\ \A s \in Known : store'[s] \in ScheduleRec
      /\ starts' \in [Schedules -> StartRec] /\ tokens' \in [Schedules -> Nat]
      /\ runs' \in [Schedules -> Seq(RunRec)]
      /\ faults' \in 0..MaxFaults
      /\ \A s \in Schedules \ used : runs'[s] = <<>> /\ starts'[s].at = "none"
  <2>1. FALSE \in BOOLEAN
    OBVIOUS
  <2> QED BY <1>1, <1>2, <2>1, FireShapes
<1>4. dueTimer' \in 0..Off
  <2>1. dueTimer' = Delay(store', TRUE) /\ clock' = clock
    BY DEF RunDueSchedules, Arm
  <2>2. \A s \in DOMAIN store' : store'[s].next \in Nat
    BY <1>3 DEF ScheduleRec
  <2> QED BY <2>1, <2>2, DelayType DEF Shaped, TypeOK
<1> QED BY <1>3, <1>4 DEF Shaped, TypeOK, Known, Starting

\* The end of a worktree start.
LEMMA SettleShapes ==
    ASSUME Shaped, NEW s \in Schedules, NEW kind \in Kinds, NEW written \in BOOLEAN,
           Settle(s, kind, written)
    PROVE  /\ DOMAIN store' = Known /\ \A x \in Known : store'[x] \in ScheduleRec
           /\ starts' \in [Schedules -> StartRec]
           /\ starts'[s] = NoStart /\ \A x \in Schedules \ {s} : starts'[x] = starts[x]
           /\ faults' \in 0..MaxFaults
<1> USE DEF Shaped, TypeOK
<1>1. NoStart \in StartRec
  BY SchedulerAssumption DEF NoStart, StartRec
<1>2. starts' \in [Schedules -> StartRec] /\ starts'[s] = NoStart
      /\ \A x \in Schedules \ {s} : starts'[x] = starts[x]
  BY <1>1 DEF Settle
<1>3. faults' \in 0..MaxFaults
  BY SchedulerAssumption DEF Settle
<1>4. CASE s \notin Known \/ ~written
  BY <1>2, <1>3, <1>4 DEF Settle, Known
<1>5. CASE s \in Known /\ written
  <2> DEFINE l == IF kind = "started" THEN Len(runs[s]) + 1 ELSE store[s].last
             r == [store[s] EXCEPT !.outcome = kind, !.last = l]
  <2>1. store[s] \in ScheduleRec /\ runs[s] \in Seq(RunRec)
    BY <1>5
  <2>2. l \in Nat
    BY <2>1 DEF ScheduleRec
  <2>3. store' = [store EXCEPT ![s] = r]
    BY <1>5 DEF Settle
  <2> HIDE DEF l
  <2>4. r \in ScheduleRec
    BY <2>1, <2>2 DEF ScheduleRec
  <2> HIDE DEF r
  <2>5. DOMAIN store' = Known /\ \A x \in Known : store'[x] = IF x = s THEN r ELSE store[x]
    BY <2>3 DEF Known
  <2> QED BY <1>2, <1>3, <2>4, <2>5
<1> QED BY <1>4, <1>5

\* The types hold at the start.
LEMMA ShapedInit == Init => Shaped
<1> SUFFICES ASSUME Init PROVE Shaped
  OBVIOUS
<1>1. NoStart \in StartRec
  BY SchedulerAssumption DEF NoStart, StartRec
<1>2. Known = {} /\ IsFiniteSet({})
  BY FS_EmptySet DEF Init, Known
<1>3. TypeOK
  BY <1>1, <1>2, SchedulerAssumption DEF Init, TypeOK, Off
<1> QED BY <1>2, <1>3 DEF Init, Shaped, Starting, NoStart

\* Time, quits and the machine.
LEMMA WorldShaped ==
    ASSUME Shaped, Tick \/ Sleep \/ StopTaskScheduler \/ Exit
    PROVE  Shaped'
<1> USE DEF Shaped, TypeOK, Known, Starting
<1>1. NoStart \in StartRec /\ NoStart.at = "none" /\ Off \in 0..Off
  BY SchedulerAssumption DEF NoStart, StartRec, Off
<1>2. CASE Tick
  <2>1. clock' \in Nat /\ dueTimer' \in 0..Off
    BY <1>2, SchedulerAssumption, SMTT(30) DEF Tick, Off
  <2>2. ASSUME NEW s \in Schedules
        PROVE  starts'[s] \in StartRec /\ starts'[s].at = starts[s].at
    <3> DEFINE l == IF starts[s].left = 0 THEN 0 ELSE starts[s].left - 1
    <3>1. starts'[s] = [starts[s] EXCEPT !.left = l] /\ starts[s] \in StartRec
      BY <1>2 DEF Tick
    <3>2. l \in 0..OpenTimeout
      BY <3>1, SchedulerAssumption, SMTT(30) DEF StartRec
    <3> HIDE DEF l
    <3> QED BY <3>1, <3>2 DEF StartRec
  <2>3. starts' \in [Schedules -> StartRec]
    BY <1>2, <2>2 DEF Tick
  <2> QED BY <1>2, <2>1, <2>2, <2>3 DEF Tick
<1>3. CASE Sleep
  BY <1>3, SchedulerAssumption DEF Sleep
<1>4. CASE StopTaskScheduler
  BY <1>1, <1>4 DEF StopTaskScheduler
<1>5. CASE Exit
  <2>1. ASSUME NEW s \in Schedules
        PROVE  runs'[s] \in Seq(RunRec) /\ (runs[s] = <<>> => runs'[s] = <<>>)
    <3>1. runs'[s] = [i \in DOMAIN runs[s] |-> [runs[s][i] EXCEPT !.active = FALSE]]
      BY <1>5 DEF Exit
    <3>2. runs[s] \in Seq(RunRec) /\ \A i \in DOMAIN runs[s] : runs[s][i] \in RunRec
      OBVIOUS
    <3>3. \A i \in DOMAIN runs[s] : [runs[s][i] EXCEPT !.active = FALSE] \in RunRec
      BY <3>2 DEF RunRec
    <3> DEFINE e(i) == [runs[s][i] EXCEPT !.active = FALSE]
               n == Len(runs[s])
    <3>4. runs'[s] = [i \in 1..n |-> e(i)] /\ n \in Nat /\ (\A i \in 1..n : e(i) \in RunRec)
      BY <3>1, <3>2, <3>3
    <3>5. runs[s] = <<>> => n = 0
      OBVIOUS
    <3> HIDE DEF e, n
    <3> QED BY ONLY <3>4, <3>5
  <2>2. runs' \in [Schedules -> Seq(RunRec)]
    BY <1>5, <2>1 DEF Exit
  <2>3. quits' \in 0..MaxQuits
    BY <1>5, SchedulerAssumption DEF Exit
  <2> QED BY <1>1, <1>5, <2>1, <2>2, <2>3 DEF Exit
<1> QED BY <1>2, <1>3, <1>4, <1>5

\* A worktree that is made, opened or given up, and a run that ends.
LEMMA WorktreeShaped ==
    ASSUME Shaped, NEW s \in Schedules, WorktreeStep(s) \/ \E i \in DOMAIN runs[s] : RunEnds(s, i)
    PROVE  Shaped'
<1> USE DEF Shaped, TypeOK, Known, Starting
<1>1. CASE WorktreeMade(s)
  <2> DEFINE r == [starts[s] EXCEPT !.at = "opening", !.left = OpenTimeout]
  <2>1. starts[s] \in StartRec /\ starts[s].at = "making" /\ s \in used
    BY <1>1 DEF WorktreeMade
  <2>2. r \in StartRec
    <3>1. OpenTimeout \in 0..OpenTimeout
      BY SchedulerAssumption
    <3>2. \A x \in StartRec, l \in 0..OpenTimeout :
            [x EXCEPT !.at = "opening", !.left = l] \in StartRec
      BY DEF StartRec
    <3> QED BY <2>1, <3>1, <3>2
  <2>3. starts' = [starts EXCEPT ![s] = r]
    BY <1>1 DEF WorktreeMade
  <2>4. asked' \subseteq Schedules \X Nat
    BY <1>1, <2>1 DEF WorktreeMade, StartRec
  <2> HIDE DEF r
  <2>5. starts' \in [Schedules -> StartRec] /\ \A x \in Schedules \ {s} : starts'[x] = starts[x]
    BY <2>2, <2>3
  <2>6. UNCHANGED <<store, used, app, dueTimer, tokens, runs, clock, calls, quits, sleeps, faults>>
    BY <1>1 DEF WorktreeMade
  <2> QED BY <2>1, <2>4, <2>5, <2>6
<1>2. ASSUME NEW kind \in Kinds, NEW written \in BOOLEAN, Settle(s, kind, written), Starting(s),
             runs' \in [Schedules -> Seq(RunRec)], asked' \subseteq asked,
             \A x \in Schedules \ {s} : runs'[x] = runs[x],
             UNCHANGED <<used, app, dueTimer, tokens, clock, calls, quits, sleeps>>
      PROVE  Shaped'
  <2>1. /\ DOMAIN store' = Known /\ \A x \in Known : store'[x] \in ScheduleRec
        /\ starts' \in [Schedules -> StartRec]
        /\ starts'[s] = NoStart /\ \A x \in Schedules \ {s} : starts'[x] = starts[x]
        /\ faults' \in 0..MaxFaults
    BY <1>2, SettleShapes
  <2>2. s \in used
    BY <1>2
  <2> QED BY <1>2, <2>1, <2>2
<1>3. {"failed", "started"} \subseteq Kinds
  BY DEF Kinds
<1>4. CASE WorktreeFails(s) \/ OpenTimesOut(s)
  BY <1>2, <1>3, <1>4 DEF WorktreeFails, OpenTimesOut
<1>5. ASSUME NEW token \in Nat, NEW ready, ScheduledWorktreeOpened(s, token, ready)
      PROVE  Shaped'
  <2>1. CASE ~Waits(s, token)
    BY <1>5, <2>1 DEF ScheduledWorktreeOpened
  <2>2. CASE Waits(s, token) /\ ready /\ s \in Known
    <3> DEFINE run == [due |-> starts[s].due, turn |-> starts[s].turn, token |-> token, active |-> TRUE]
    <3>1. runs' = [runs EXCEPT ![s] = Append(@, run)]
      BY <1>5, <2>2 DEF ScheduledWorktreeOpened
    <3>2. starts[s] \in StartRec /\ Starting(s)
      BY <2>2 DEF Waits
    <3>3. run \in RunRec
      BY <3>2 DEF RunRec, StartRec
    <3> HIDE DEF run
    <3>4. runs' \in [Schedules -> Seq(RunRec)] /\ \A x \in Schedules \ {s} : runs'[x] = runs[x]
      BY <3>1, <3>3
    <3>5. PICK written \in BOOLEAN : Settle(s, "started", written)
      BY <1>5, <2>2 DEF ScheduledWorktreeOpened
    <3> QED BY <1>2, <1>3, <1>5, <3>2, <3>4, <3>5 DEF ScheduledWorktreeOpened
  <2>3. CASE Waits(s, token) /\ ~(ready /\ s \in Known)
    <3>1. PICK written \in BOOLEAN : Settle(s, "failed", written)
      BY <1>5, <2>3 DEF ScheduledWorktreeOpened
    <3>2. Starting(s) /\ runs' = runs
      BY <1>5, <2>3 DEF ScheduledWorktreeOpened, Waits
    <3> QED BY <1>2, <1>3, <1>5, <3>1, <3>2 DEF ScheduledWorktreeOpened
  <2> QED BY <2>1, <2>2, <2>3
<1>6. ASSUME NEW i \in DOMAIN runs[s], RunEnds(s, i) PROVE Shaped'
  <2> DEFINE r == [runs[s][i] EXCEPT !.active = FALSE]
  <2>1. runs[s] \in Seq(RunRec) /\ runs[s][i] \in RunRec
    OBVIOUS
  <2>2. r \in RunRec
    BY <2>1 DEF RunRec
  <2>3. runs' = [runs EXCEPT ![s] = [@ EXCEPT ![i] = r]]
    BY <1>6 DEF RunEnds
  <2> HIDE DEF r
  <2>4. runs' \in [Schedules -> Seq(RunRec)] /\ \A x \in Schedules \ {s} : runs'[x] = runs[x]
    BY <2>1, <2>2, <2>3
  <2>5. s \in used
    BY <2>1
  <2> QED BY <1>6, <2>4, <2>5 DEF RunEnds
<1> HIDE DEF Shaped, TypeOK, Known, Starting
<1> QED BY <1>1, <1>4, <1>5, <1>6 DEF WorktreeStep

\* The calls of the window.
LEMMA CallShaped ==
    ASSUME Shaped, NEW s \in Schedules, Call(s)
    PROVE  Shaped'
<1> USE DEF Shaped, TypeOK, Starting
<1>0. ASSUME calls < MaxCalls, calls' = calls + 1 PROVE calls' \in 0..MaxCalls
  BY <1>0, SchedulerAssumption
<1>1. ASSUME NEW spec \in {"interval", "slots"}, NEW worktree \in BOOLEAN,
             CreateSchedule(s, spec, worktree)
      PROVE  Shaped'
  <2> DEFINE r == [enabled |-> TRUE, worktree |-> worktree, spec |-> spec,
                   next |-> NextScheduleTime(spec, clock), last |-> NoRun, outcome |-> "none"]
  <2>1. r \in ScheduleRec
    BY NextIsLater DEF ScheduleRec, NoRun, Kinds
  <2>2. store' = [x \in Known \cup {s} |-> IF x # s THEN store[x] ELSE r]
    BY <1>1 DEF CreateSchedule
  <2> HIDE DEF r
  <2>3. /\ DOMAIN store' = Known \cup {s} /\ \A x \in DOMAIN store' : store'[x] \in ScheduleRec
        /\ IsFiniteSet(DOMAIN store')
    BY <2>1, <2>2, FS_AddElement
  <2>4. dueTimer' \in 0..Off
    <3>1. dueTimer' = Delay(store', Started) /\ clock' = clock /\ app' = app
      BY <1>1 DEF CreateSchedule, Arm
    <3>2. \A x \in DOMAIN store' : store'[x].next \in Nat
      BY <2>3 DEF ScheduleRec
    <3> QED BY <3>1, <3>2, DelayType DEF Started
  <2> QED BY <1>0, <1>1, <2>3, <2>4 DEF CreateSchedule, Called, Known
<1>2. ASSUME NEW spec \in {"interval", "slots"}, NEW worktree \in BOOLEAN, NEW enabled \in BOOLEAN,
             UpdateSchedule(s, enabled, spec, worktree)
      PROVE  Shaped'
  <2> DEFINE n == IF spec # store[s].spec \/ (enabled /\ ~store[s].enabled)
                  THEN NextScheduleTime(spec, clock) ELSE store[s].next
             r == [store[s] EXCEPT !.enabled = enabled, !.spec = spec, !.worktree = worktree, !.next = n]
  <2>1. store[s] \in ScheduleRec /\ s \in Known
    BY <1>2 DEF UpdateSchedule
  <2>2. n \in Nat
    BY <2>1, NextIsLater DEF ScheduleRec
  <2>3. store' = [store EXCEPT ![s] = r]
    BY <1>2 DEF UpdateSchedule
  <2> HIDE DEF n
  <2>4. r \in ScheduleRec
    BY <2>1, <2>2 DEF ScheduleRec
  <2> HIDE DEF r
  <2>5. DOMAIN store' = Known /\ \A x \in DOMAIN store' : store'[x] \in ScheduleRec
    BY <2>1, <2>3, <2>4 DEF Known
  <2>6. dueTimer' \in 0..Off
    <3>1. dueTimer' = Delay(store', Started) /\ clock' = clock /\ app' = app
      BY <1>2 DEF UpdateSchedule, Arm
    <3>2. \A x \in DOMAIN store' : store'[x].next \in Nat
      BY <2>5 DEF ScheduleRec
    <3> QED BY <3>1, <3>2, DelayType DEF Started
  <2> QED BY <1>0, <1>2, <2>5, <2>6 DEF UpdateSchedule, Called, Known
<1>3. CASE DeleteSchedule(s)
  <2>1. store' = [x \in Known \ {s} |-> store[x]]
    BY <1>3 DEF DeleteSchedule
  <2>2. /\ DOMAIN store' = Known \ {s} /\ \A x \in DOMAIN store' : store'[x] \in ScheduleRec
        /\ IsFiniteSet(DOMAIN store')
    BY <2>1, FS_RemoveElement
  <2>3. dueTimer' \in 0..Off
    <3>1. dueTimer' = Delay(store', Started) /\ clock' = clock /\ app' = app
      BY <1>3 DEF DeleteSchedule, Arm
    <3>2. \A x \in DOMAIN store' : store'[x].next \in Nat
      BY <2>2 DEF ScheduleRec
    <3> QED BY <3>1, <3>2, DelayType DEF Started
  <2> QED BY <1>0, <1>3, <2>2, <2>3 DEF DeleteSchedule, Called, Known
<1>4. CASE RunScheduleNow(s)
  <2>1. PICK ready \in [{s} -> BOOLEAN], unwritten \in SUBSET {s} :
          /\ Fire({s}, store, ready, unwritten, TRUE, 0)
          /\ dueTimer' = IF unwritten = {} THEN Delay(store', Started) ELSE dueTimer
    BY <1>4 DEF RunScheduleNow
  <2>2. {s} \in SUBSET Known /\ Read(store)
    BY <1>4, StoreIsRead DEF RunScheduleNow
  <2>3. /\ DOMAIN store' = Known /\ \A x \in Known : store'[x] \in ScheduleRec
        /\ starts' \in [Schedules -> StartRec] /\ tokens' \in [Schedules -> Nat]
        /\ runs' \in [Schedules -> Seq(RunRec)]
        /\ faults' \in 0..MaxFaults
        /\ \A x \in Schedules \ used : runs'[x] = <<>> /\ starts'[x].at = "none"
    <3>1. TRUE \in BOOLEAN /\ 0 \in Nat
      OBVIOUS
    <3> HIDE DEF Shaped, TypeOK, Starting
    <3> QED BY <2>1, <2>2, <3>1, FireShapes
  <2>4. dueTimer' \in 0..Off
    <3>1. clock' = clock /\ app' = app
      BY <1>4 DEF RunScheduleNow
    <3>2. \A x \in DOMAIN store' : store'[x].next \in Nat
      BY <2>3 DEF ScheduleRec
    <3>3. Delay(store', Started) \in 0..Off
      BY <3>2, DelayType DEF Started
    <3> QED BY <2>1, <3>3
  <2> QED BY <1>0, <1>4, <2>3, <2>4 DEF RunScheduleNow, Called, Known
<1> QED BY <1>1, <1>2, <1>3, <1>4 DEF Call

\* Every step keeps the types.
LEMMA ShapedStep == Shaped /\ [Next]_vars => Shaped'
<1> SUFFICES ASSUME Shaped, [Next]_vars PROVE Shaped'
  OBVIOUS
<1>1. CASE Turn
  <2>1. app \in {"booting", "running", "quitting"} /\ "running" \in {"booting", "running", "quitting"}
    BY DEF Shaped, TypeOK
  <2>2. 0 \in Nat /\ 1 \in Nat
    OBVIOUS
  <2>3. CASE TimerFires \/ OnResume
    BY <2>1, <2>2, <2>3, StoreIsRead, TurnShaped DEF TimerFires, OnResume
  <2>4. CASE StartTaskScheduler
    BY <2>1, <2>2, <2>4, StoreIsRead, TurnShaped DEF StartTaskScheduler
  <2> QED BY <1>1, <2>3, <2>4 DEF Turn
<1>2. CASE UNCHANGED vars
  BY <1>2 DEF vars, Shaped, TypeOK, Known, Starting
<1> QED BY <1>1, <1>2, WorldShaped, WorktreeShaped, CallShaped DEF Next

\* The types hold whatever the calls, the sleeps, the restarts and the failing writes.
THEOREM SchedulerTypes == Spec => []TypeOK
<1>1. Spec => []Shaped
  BY ShapedInit, ShapedStep, PTL DEF Spec
<1>2. Shaped => TypeOK
  BY DEF Shaped
<1> QED BY <1>1, <1>2, PTL

-----------------------------------------------------------------------------
(* One run at a time, and missed times made up once.                         *)

\* A schedule has one run, and it is the one schedules.json names.
Neat(s) ==
    /\ \A i, k \in ActiveRuns(s) : i = k
    /\ Starting(s) => ActiveRuns(s) = {}
    /\ s \in Known => \A i \in ActiveRuns(s) : i = store[s].last

\* Its next time lies after every turn that served it, and so does that of the start that waits.
Later(time, s) == \A i \in DOMAIN runs[s] : runs[s][i].due # Manual => time > runs[s][i].turn
InTime(s) ==
    /\ \A i \in DOMAIN runs[s] : runs[s][i].turn <= clock
    /\ \A i, k \in DOMAIN runs[s] :
          i < k /\ runs[s][i].due # Manual /\ runs[s][k].due # Manual => runs[s][k].due > runs[s][i].turn
    /\ Starting(s) => /\ starts[s].turn <= clock
                      /\ starts[s].due # Manual => Later(starts[s].due, s)
    /\ s \in Known => /\ Later(store[s].next, s)
                      /\ Starting(s) /\ starts[s].due # Manual => store[s].next > starts[s].turn
InOrder(s) == Neat(s) /\ InTime(s)

\* What the types say of one schedule.
LEMMA Typed ==
    ASSUME Shaped, NEW s \in Schedules
    PROVE  /\ runs[s] \in Seq(RunRec) /\ DOMAIN runs[s] = 1..Len(runs[s]) /\ Len(runs[s]) \in Nat
           /\ \A i \in DOMAIN runs[s] : /\ runs[s][i] \in RunRec /\ runs[s][i].turn \in Nat
                                        /\ runs[s][i].due \in Nat /\ runs[s][i].active \in BOOLEAN
           /\ starts[s] \in StartRec /\ starts[s].turn \in Nat /\ starts[s].due \in Nat
           /\ s \in Known => store[s] \in ScheduleRec /\ store[s].next \in Nat /\ store[s].last \in Nat
           /\ clock \in Nat
<1>1. /\ runs[s] \in Seq(RunRec) /\ starts[s] \in StartRec /\ clock \in Nat
      /\ s \in Known => store[s] \in ScheduleRec
  BY DEF Shaped, TypeOK
<1>2. \A i \in DOMAIN runs[s] : /\ runs[s][i] \in RunRec /\ runs[s][i].turn \in Nat
                                /\ runs[s][i].due \in Nat /\ runs[s][i].active \in BOOLEAN
  <2>1. \A i \in DOMAIN runs[s] : runs[s][i] \in RunRec
    BY <1>1
  <2>2. \A r \in RunRec : r.turn \in Nat /\ r.due \in Nat /\ r.active \in BOOLEAN
    BY DEF RunRec
  <2> QED BY <2>1, <2>2
<1>3. starts[s].turn \in Nat /\ starts[s].due \in Nat
  BY <1>1 DEF StartRec
<1>4. s \in Known => store[s].next \in Nat /\ store[s].last \in Nat
  BY <1>1 DEF ScheduleRec
<1> QED BY <1>1, <1>2, <1>3, <1>4

\* A step that neither starts nor ends a run of the schedule, nor moves its next time back.
LEMMA StillInOrder ==
    ASSUME Shaped, Shaped', NEW s \in Schedules, InOrder(s),
           runs'[s] = runs[s], clock' >= clock,
           Starting(s)' => /\ Starting(s) /\ starts'[s].due = starts[s].due
                           /\ starts'[s].turn = starts[s].turn,
           s \in Known' => /\ s \in Known /\ store'[s].last = store[s].last
                           /\ store'[s].next = store[s].next \/ store'[s].next > clock
    PROVE  InOrder(s)'
<1>1. Neat(s)'
  BY DEF InOrder, Neat, ActiveRuns
<1>2. /\ clock \in Nat /\ clock' \in Nat /\ starts[s].turn \in Nat
      /\ \A i \in DOMAIN runs[s] : runs[s][i].turn \in Nat
      /\ s \in Known' => store'[s].next \in Nat
  <2>1. clock' \in Nat /\ (s \in Known' => store'[s] \in ScheduleRec)
    BY DEF Shaped, TypeOK
  <2>2. s \in Known' => store'[s].next \in Nat
    BY <2>1 DEF ScheduleRec
  <2> QED BY <2>1, <2>2, Typed
<1>3. InTime(s)'
  <2> USE DEF InOrder, InTime, Later
  <2>1. \A i \in DOMAIN runs'[s] : runs'[s][i].turn <= clock'
    <3>1. \A i \in DOMAIN runs[s] : runs[s][i].turn <= clock
      OBVIOUS
    <3> HIDE DEF InOrder, InTime, Later
    <3> QED BY <1>2, <3>1
  <2>2. Starting(s)' => /\ starts'[s].turn <= clock'
                        /\ starts'[s].due # Manual => Later(starts[s].due, s)'
    BY <1>2
  <2>3. s \in Known' =>
          /\ Later(store[s].next, s)'
          /\ Starting(s)' /\ starts'[s].due # Manual => store'[s].next > starts'[s].turn
    <3>1. CASE store'[s].next = store[s].next
      BY <3>1
    <3>2. CASE store'[s].next > clock
      <4>1. \A i \in DOMAIN runs[s] : runs[s][i].turn <= clock
        OBVIOUS
      <4>2. Starting(s)' => starts'[s].turn <= clock /\ starts'[s].turn \in Nat
        BY <1>2
      <4> HIDE DEF InOrder, InTime
      <4>3. s \in Known' => Later(store[s].next, s)'
        BY <1>2, <3>2, <4>1
      <4>4. s \in Known' /\ Starting(s)' => store'[s].next > starts'[s].turn
        BY <1>2, <3>2, <4>2
      <4> QED BY <4>3, <4>4
    <3> QED BY <3>1, <3>2
  <2> QED BY <2>1, <2>2, <2>3
<1> QED BY <1>1, <1>3 DEF InOrder

\* A run is launched where none goes on, and schedules.json names it.
LEMMA LaunchInOrder ==
    ASSUME Shaped, Shaped', NEW s \in Schedules, InOrder(s), ActiveRuns(s) = {},
           NEW run \in RunRec, runs'[s] = Append(runs[s], run), clock' = clock, run.turn <= clock,
           run.due # Manual => Later(run.due, s), ~Starting(s)', s \in Known,
           store'[s].last = Len(runs[s]) + 1, Later(store'[s].next, s),
           run.due # Manual => store'[s].next > run.turn
    PROVE  InOrder(s)'
<1> DEFINE n == Len(runs[s])
<1>1. /\ n \in Nat /\ DOMAIN runs[s] = 1..n /\ DOMAIN runs'[s] = 1..(n + 1)
      /\ runs'[s][n + 1] = run /\ \A i \in 1..n : runs'[s][i] = runs[s][i]
      /\ \A i \in 1..n : runs[s][i].turn \in Nat
  BY Typed
<1> HIDE DEF n
<1>0. run.due \in Nat /\ run.turn \in Nat /\ clock \in Nat
  BY Typed DEF RunRec
<1>2. \A i \in ActiveRuns(s)' : i = n + 1
  <2>1. \A i \in 1..n : ~runs[s][i].active
    BY <1>1 DEF ActiveRuns
  <2> QED BY <1>1, <2>1 DEF ActiveRuns
<1>3. Neat(s)'
  BY <1>2 DEF Neat, n
<1>4. \A i \in 1..n : /\ runs[s][i].turn <= clock
                      /\ runs[s][i].due # Manual => store'[s].next > runs[s][i].turn
                      /\ runs[s][i].due # Manual /\ run.due # Manual => run.due > runs[s][i].turn
  BY <1>1 DEF InOrder, InTime, Later
<1>5. \A i, k \in 1..n : i < k /\ runs[s][i].due # Manual /\ runs[s][k].due # Manual
                         => runs[s][k].due > runs[s][i].turn
  BY <1>1 DEF InOrder, InTime
<1>6. InTime(s)'
  <2>1. \A i \in DOMAIN runs'[s] : runs'[s][i].turn <= clock'
    <3>1. ASSUME NEW i \in 1..(n + 1) PROVE runs'[s][i].turn <= clock
      <4>1. CASE i = n + 1
        BY <1>1, <4>1
      <4>2. CASE i # n + 1
        <5>1. i \in 1..n
          BY <1>1, <4>2
        <5> QED BY <1>0, <1>1, <1>4, <5>1
      <4> QED BY <4>1, <4>2
    <3> QED BY <1>1, <3>1
  <2>2. ASSUME NEW i \in DOMAIN runs'[s], NEW k \in DOMAIN runs'[s], i < k,
               runs'[s][i].due # Manual, runs'[s][k].due # Manual
        PROVE  runs'[s][k].due > runs'[s][i].turn
    <3>1. i \in 1..n /\ runs'[s][i] = runs[s][i]
      BY <1>1, <2>2
    <3>2. CASE k = n + 1
      <4>1. run.due # Manual /\ runs[s][i].due # Manual
        BY <1>1, <2>2, <3>1, <3>2
      <4>2. run.due > runs[s][i].turn
        BY <1>0, <1>1, <1>4, <3>1, <4>1
      <4> QED BY <1>1, <3>1, <3>2, <4>2
    <3>3. CASE k # n + 1
      <4>1. k \in 1..n /\ runs'[s][k] = runs[s][k]
        BY <1>1, <3>3
      <4> QED BY <1>5, <2>2, <3>1, <4>1
    <3> QED BY <3>2, <3>3
  <2>3. Later(store[s].next, s)'
    BY <1>1, <1>4 DEF Later
  <2> QED BY <2>1, <2>2, <2>3 DEF InTime
<1> QED BY <1>3, <1>6 DEF InOrder

-----------------------------------------------------------------------------
(* With no failing write.                                                    *)

\* Every outcome of a turn is on its schedule.
LEMMA FireWrites ==
    ASSUME MaxFaults = 0, Shaped, Shaped', NEW st, Read(st), NEW fired \in SUBSET Known,
           NEW ready \in [fired -> BOOLEAN], NEW unwritten \in SUBSET fired,
           NEW manual \in BOOLEAN, NEW failed \in Nat,
           Fire(fired, st, ready, unwritten, manual, failed), NEW s \in Known
    PROVE  /\ failed = 0
           /\ s \notin fired => store'[s] = st[s]
           /\ s \in fired =>
                 /\ store'[s].outcome = Outcome(s, st, ready[s])
                 /\ store'[s].next = IF manual THEN store[s].next ELSE NextScheduleTime(st[s].spec, clock)
                 /\ store'[s].last = IF Outcome(s, st, ready[s]) = "started"
                                     THEN Len(runs[s]) + 1 ELSE store[s].last
<1> USE DEF Shaped, TypeOK
<1>1. IsFiniteSet(unwritten) /\ Cardinality(unwritten) \in Nat
  BY FS_Subset, FS_CardinalityType
<1>2. failed = 0 /\ Cardinality(unwritten) = 0
  BY <1>1 DEF Fire
<1>3. unwritten = {}
  BY <1>1, <1>2, FS_EmptySet
<1>4. store'[s] = IF s \in fired THEN Recorded(s, st, Outcome(s, st, ready[s]), manual) ELSE st[s]
  BY <1>3 DEF Fire, Read
<1>5. st[s] \in ScheduleRec /\ st[s].last = store[s].last /\ st[s].next = store[s].next
  BY DEF Read
<1>6. ASSUME NEW k
      PROVE  /\ Recorded(s, st, k, manual).outcome = k
             /\ Recorded(s, st, k, manual).next = IF manual THEN st[s].next
                                                  ELSE NextScheduleTime(st[s].spec, clock)
             /\ Recorded(s, st, k, manual).last = IF k = "started" THEN Len(runs[s]) + 1 ELSE st[s].last
  <2> DEFINE n == IF manual THEN st[s].next ELSE NextScheduleTime(st[s].spec, clock)
             l == IF k = "started" THEN Len(runs[s]) + 1 ELSE st[s].last
  <2>1. Recorded(s, st, k, manual) = [st[s] EXCEPT !.outcome = k, !.next = n, !.last = l]
    BY DEF Recorded
  <2> HIDE DEF n, l
  <2>2. [st[s] EXCEPT !.outcome = k, !.next = n, !.last = l].outcome = k
        /\ [st[s] EXCEPT !.outcome = k, !.next = n, !.last = l].next = n
        /\ [st[s] EXCEPT !.outcome = k, !.next = n, !.last = l].last = l
    BY <1>5 DEF ScheduleRec
  <2> QED BY <2>1, <2>2 DEF n, l
<1> QED BY <1>2, <1>4, <1>5, <1>6

\* fire(), for one schedule: its runs stay in order, and "starting" is said of a start that waits.
LEMMA FireInOrder ==
    ASSUME MaxFaults = 0, Shaped, Shaped', NEW st, Read(st), NEW fired \in SUBSET Known,
           NEW ready \in [fired -> BOOLEAN], NEW unwritten \in SUBSET fired,
           NEW manual \in BOOLEAN, NEW failed \in Nat,
           Fire(fired, st, ready, unwritten, manual, failed),
           clock' = clock, NEW s \in Schedules, InOrder(s)
    PROVE  /\ InOrder(s)'
           /\ s \in Known' /\ store'[s].outcome = "starting" =>
                 Starting(s)' \/ st[s].outcome = "starting"
           /\ s \in Known' /\ Starting(s) => Starting(s)'
<1> DEFINE due == IF manual THEN Manual ELSE st[s].next
           kind == Outcome(s, st, ready[s])
<1>1. Fired(s, fired, st, ready, manual)
  BY FireOn
<1>2. DOMAIN store' = Known
  BY DEF Fire, Read
<1>3. s \in Known =>
        /\ s \notin fired => store'[s] = st[s]
        /\ s \in fired =>
              /\ store'[s].outcome = kind
              /\ store'[s].next = IF manual THEN store[s].next ELSE NextScheduleTime(st[s].spec, clock)
              /\ store'[s].last = IF kind = "started" THEN Len(runs[s]) + 1 ELSE store[s].last
        /\ st[s].last = store[s].last /\ st[s].next = store[s].next
  BY FireWrites DEF Read
<1>4. clock \in Nat /\ (s \in Known => store[s].next \in Nat)
  BY Typed
<1>5. NextScheduleTime(st[s].spec, clock) > clock /\ NextScheduleTime(st[s].spec, clock) \in Nat
  BY <1>4, NextIsLater
<1>6. s \in Known =>
        /\ store'[s].next = store[s].next \/ store'[s].next > clock
        /\ s \in fired /\ ~manual => store'[s].next > clock
  BY <1>3, <1>5
<1> HIDE DEF due, kind
<1>7. CASE /\ s \in fired => kind \in {"skipped", "failed"}
           /\ runs'[s] = runs[s] /\ starts'[s] = starts[s]
  <2>1. s \in Known => store'[s].last = store[s].last
    BY <1>3, <1>7
  <2>2. Starting(s)' = Starting(s)
    BY <1>7 DEF Starting
  <2>3. InOrder(s)'
    BY <1>2, <1>4, <1>6, <1>7, <2>1, <2>2, StillInOrder DEF Known
  <2>4. s \in Known' /\ store'[s].outcome = "starting" => st[s].outcome = "starting"
    BY <1>2, <1>3, <1>7 DEF Known
  <2> QED BY <2>2, <2>3, <2>4
<1>8. ASSUME s \in fired, ~Starting(s), ~RunActive(s) PROVE ActiveRuns(s) = {}
  <2> SUFFICES ASSUME NEW i \in ActiveRuns(s) PROVE FALSE
    OBVIOUS
  <2>1. i = store[s].last /\ i \in DOMAIN runs[s] /\ runs[s][i].active
    BY <1>8 DEF InOrder, Neat, ActiveRuns
  <2>2. i # NoRun
    BY <2>1, Typed DEF NoRun
  <2> QED BY <1>8, <2>1, <2>2 DEF RunActive
<1>9. s \in fired /\ due # Manual => Later(due, s) /\ ~manual
  BY <1>3 DEF due, InOrder, InTime
<1>10. s \in fired => Later(store'[s].next, s)
  <2>1. s \in fired => Later(store[s].next, s) /\ \A i \in DOMAIN runs[s] : runs[s][i].turn <= clock
    BY DEF InOrder, InTime
  <2>2. \A i \in DOMAIN runs[s] : runs[s][i].turn \in Nat
    BY Typed
  <2>3. s \in fired => store'[s].next \in Nat
    BY <1>3, <1>4, <1>5
  <2> QED BY <1>4, <1>6, <2>1, <2>2, <2>3 DEF Later
<1>11. CASE /\ s \in fired /\ kind = "started" /\ ~Starting(s) /\ ~RunActive(s)
            /\ runs'[s] = Append(runs[s], [due |-> due, turn |-> clock, token |-> 0, active |-> TRUE])
            /\ starts'[s] = starts[s]
  <2> DEFINE run == [due |-> due, turn |-> clock, token |-> 0, active |-> TRUE]
  <2>1. run \in RunRec /\ run.turn = clock /\ run.due = due
    <3>1. due \in Nat
      BY <1>3, <1>4, <1>11 DEF due, Manual
    <3> QED BY <1>4, <3>1 DEF RunRec
  <2>2. runs'[s] = Append(runs[s], run)
    BY <1>11
  <2> HIDE DEF run
  <2>3. ~Starting(s)' /\ s \in Known /\ store'[s].last = Len(runs[s]) + 1 /\ store'[s].outcome = kind
    BY <1>3, <1>11 DEF Starting
  <2>4. run.turn <= clock /\ (run.due # Manual => Later(run.due, s))
        /\ (run.due # Manual => store'[s].next > run.turn)
    BY <1>4, <1>6, <1>9, <1>11, <2>1, <2>3
  <2>5. ActiveRuns(s) = {} /\ Later(store'[s].next, s)
    BY <1>8, <1>10, <1>11
  <2>6. InOrder(s)'
    BY <2>1, <2>2, <2>3, <2>4, <2>5, LaunchInOrder
  <2> QED BY <1>11, <2>3, <2>6
<1>12. CASE /\ s \in fired /\ kind = "starting" /\ ~Starting(s) /\ ~RunActive(s)
            /\ runs'[s] = runs[s]
            /\ starts'[s].at # "none" /\ starts'[s].due = due /\ starts'[s].turn = clock
  <2>1. Starting(s)' /\ ActiveRuns(s)' = {} /\ s \in Known
    BY <1>8, <1>12 DEF Starting, ActiveRuns
  <2>2. Neat(s)'
    BY <2>1 DEF Neat
  <2>3. InTime(s)'
    <3>1. /\ \A i \in DOMAIN runs'[s] : runs'[s][i].turn <= clock'
          /\ \A i, k \in DOMAIN runs'[s] :
                i < k /\ runs'[s][i].due # Manual /\ runs'[s][k].due # Manual
                   => runs'[s][k].due > runs'[s][i].turn
      BY <1>12 DEF InOrder, InTime
    <3>2. starts'[s].turn <= clock' /\ (starts'[s].due # Manual => Later(starts[s].due, s)')
      BY <1>4, <1>9, <1>12 DEF Later
    <3>3. Later(store[s].next, s)'
      BY <1>10, <1>12 DEF Later
    <3>4. starts'[s].due # Manual => store'[s].next > starts'[s].turn
      BY <1>6, <1>9, <1>12
    <3> QED BY <3>1, <3>2, <3>3, <3>4 DEF InTime
  <2> QED BY <2>1, <2>2, <2>3 DEF InOrder
<1> QED BY <1>1, <1>7, <1>11, <1>12 DEF Fired, due, kind

-----------------------------------------------------------------------------
(* The steps.                                                                *)

Safe == Shaped /\ (\A s \in Schedules : InOrder(s)) /\ StartingIsPending
\* What a step keeps of one schedule.
KeptOf(s) ==
    /\ InOrder(s)'
    /\ Started' /\ s \in Known' /\ store'[s].outcome = "starting" => Starting(s)'

\* A schedule whose runs, start and entry a step leaves alone.
LEMMA LeftAlone ==
    ASSUME Safe, Shaped', NEW s \in Schedules, runs'[s] = runs[s], clock' >= clock,
           starts'[s].at = starts[s].at, starts'[s].due = starts[s].due,
           starts'[s].turn = starts[s].turn, app' = app,
           s \in Known' => /\ s \in Known /\ store'[s].last = store[s].last
                           /\ store'[s].next = store[s].next \/ store'[s].next > clock
                           /\ store'[s].outcome = store[s].outcome
    PROVE  KeptOf(s)
<1>1. Starting(s)' = Starting(s)
  BY DEF Starting
<1>2. InOrder(s)'
  BY <1>1, StillInOrder DEF Safe
<1>3. Started' /\ s \in Known' /\ store'[s].outcome = "starting" => Starting(s)'
  BY <1>1 DEF Safe, StartingIsPending, Started
<1> QED BY <1>2, <1>3 DEF KeptOf

\* A turn, and with it the start of the scheduler.
LEMMA TurnSafe ==
    ASSUME MaxFaults = 0, Safe, Shaped', Turn, NEW s \in Schedules
    PROVE  KeptOf(s)
<1>1. ASSUME NEW st, Read(st), NEW failed \in Nat, RunDueSchedules(st, failed), clock' = clock
      PROVE  /\ InOrder(s)'
             /\ s \in Known' /\ store'[s].outcome = "starting" =>
                   Starting(s)' \/ st[s].outcome = "starting"
             /\ s \in Known' /\ Starting(s) => Starting(s)'
             /\ s \in Known' => s \in Known
  <2>1. PICK ready \in [Due(st) -> BOOLEAN], unwritten \in SUBSET Due(st) :
          Fire(Due(st), st, ready, unwritten, FALSE, failed)
    BY <1>1 DEF RunDueSchedules
  <2>2. Due(st) \in SUBSET Known /\ FALSE \in BOOLEAN /\ Shaped /\ InOrder(s)
    BY <1>1 DEF Due, Read, Safe
  <2>3. Known' = Known
    BY <1>1, <2>1 DEF Fire, Read, Known
  <2> QED BY <1>1, <2>1, <2>2, <2>3, FireInOrder
<1>2. Read(store) /\ Read(Tidied(store)) /\ 0 \in Nat /\ 1 \in Nat
  BY StoreIsRead DEF Safe
<1>3. CASE TimerFires \/ OnResume
  <2>1. RunDueSchedules(store, 0) /\ clock' = clock /\ app' = app
    BY <1>3 DEF TimerFires, OnResume
  <2>2. /\ InOrder(s)'
        /\ s \in Known' /\ store'[s].outcome = "starting" =>
              Starting(s)' \/ store[s].outcome = "starting"
        /\ s \in Known' /\ Starting(s) => Starting(s)'
        /\ s \in Known' => s \in Known
    BY <1>1, <1>2, <2>1
  <2> QED BY <2>1, <2>2 DEF KeptOf, Safe, StartingIsPending, Started
<1>4. CASE StartTaskScheduler
  <2>0. ~RunDueSchedules(store, 1)
    <3> SUFFICES ASSUME RunDueSchedules(store, 1) PROVE FALSE
      OBVIOUS
    <3>1. PICK unwritten \in SUBSET Due(store) : faults' = faults + 1 + Cardinality(unwritten)
      BY DEF RunDueSchedules, Fire
    <3>2. IsFiniteSet(unwritten)
      BY FS_Subset DEF Due, Safe, Shaped, Known
    <3>3. Cardinality(unwritten) \in Nat
      BY <3>2, FS_CardinalityType
    <3>4. faults \in 0..0 /\ faults' \in 0..0
      BY DEF Safe, Shaped, TypeOK
    <3> QED BY <3>1, <3>3, <3>4
  <2>1. RunDueSchedules(Tidied(store), 0) /\ clock' = clock
    BY <1>4, <2>0 DEF StartTaskScheduler
  <2>2. /\ InOrder(s)'
        /\ s \in Known' /\ store'[s].outcome = "starting" =>
              Starting(s)' \/ Tidied(store)[s].outcome = "starting"
        /\ s \in Known' => s \in Known
    BY <1>1, <1>2, <2>1
  <2>3. s \in Known => Tidied(store)[s].outcome # "starting"
    <3>1. s \in Known => store[s] \in ScheduleRec
      BY DEF Safe, Shaped, TypeOK
    <3> QED BY <3>1 DEF Tidied, Known, ScheduleRec
  <2> QED BY <2>2, <2>3 DEF KeptOf
<1> QED BY <1>3, <1>4 DEF Turn

\* Time, quits and the machine.
LEMMA WorldSafe ==
    ASSUME Safe, Shaped', Tick \/ Sleep \/ StopTaskScheduler \/ Exit, NEW s \in Schedules
    PROVE  KeptOf(s)
<1>0. clock \in Nat /\ starts[s] \in StartRec /\ Shaped /\ InOrder(s)
  BY DEF Safe, Shaped, TypeOK
<1>1. CASE Tick
  <2>1. starts'[s] = [starts[s] EXCEPT !.left = IF @ = 0 THEN 0 ELSE @ - 1]
    BY <1>1 DEF Tick, Safe, Shaped, TypeOK
  <2>2. starts'[s].at = starts[s].at /\ starts'[s].due = starts[s].due /\ starts'[s].turn = starts[s].turn
    BY <1>0, <2>1 DEF StartRec
  <2>3. clock' >= clock
    BY <1>0, <1>1 DEF Tick
  <2>4. runs' = runs /\ store' = store /\ app' = app
    BY <1>1 DEF Tick
  <2> QED BY <2>2, <2>3, <2>4, LeftAlone DEF Known
<1>2. CASE Sleep
  <2>1. clock' >= clock
    BY <1>0, <1>2, SchedulerAssumption DEF Sleep
  <2>2. runs' = runs /\ store' = store /\ app' = app /\ starts' = starts
    BY <1>2 DEF Sleep
  <2> QED BY <2>1, <2>2, LeftAlone DEF Known
<1>3. CASE StopTaskScheduler
  <2>1. starts'[s] = NoStart /\ runs' = runs /\ store' = store /\ app' = "quitting" /\ clock' = clock
    BY <1>3 DEF StopTaskScheduler
  <2>2. ~Starting(s)' /\ ~Started'
    BY <2>1 DEF Starting, NoStart, Started
  <2>3. InOrder(s)'
    BY <1>0, <2>1, <2>2, StillInOrder DEF Known
  <2> QED BY <2>2, <2>3 DEF KeptOf
<1>4. CASE Exit
  <2>1. /\ starts'[s] = NoStart /\ store' = store /\ app' = "booting" /\ clock' = clock
        /\ runs'[s] = [i \in DOMAIN runs[s] |-> [runs[s][i] EXCEPT !.active = FALSE]]
    BY <1>4 DEF Exit
  <2>2. ~Starting(s)' /\ ~Started'
    BY <2>1 DEF Starting, NoStart, Started
  <2>3. /\ DOMAIN runs'[s] = DOMAIN runs[s]
        /\ \A i \in DOMAIN runs[s] : /\ runs'[s][i].turn = runs[s][i].turn
                                     /\ runs'[s][i].due = runs[s][i].due
                                     /\ runs'[s][i].active = FALSE
    <3>1. \A i \in DOMAIN runs[s] : runs[s][i] \in RunRec
      BY <1>0, Typed
    <3>2. \A r \in RunRec : /\ [r EXCEPT !.active = FALSE].turn = r.turn
                            /\ [r EXCEPT !.active = FALSE].due = r.due
                            /\ [r EXCEPT !.active = FALSE].active = FALSE
      BY DEF RunRec
    <3> QED BY <2>1, <3>1, <3>2
  <2>4. ActiveRuns(s)' = {}
    BY <2>3 DEF ActiveRuns
  <2>5. Neat(s)'
    BY <2>4 DEF Neat
  <2>6. InTime(s)'
    BY <1>0, <2>1, <2>2, <2>3 DEF InOrder, InTime, Later, Known
  <2> QED BY <2>2, <2>5, <2>6 DEF KeptOf, InOrder
<1> QED BY <1>1, <1>2, <1>3, <1>4

\* The worktree of a start, and a run that ends.
LEMMA WorktreeSafe ==
    ASSUME MaxFaults = 0, Safe, Shaped', NEW s \in Schedules,
           WorktreeStep(s) \/ \E i \in DOMAIN runs[s] : RunEnds(s, i), NEW x \in Schedules
    PROVE  KeptOf(x)
<1>0. /\ clock \in Nat /\ starts \in [Schedules -> StartRec] /\ runs \in [Schedules -> Seq(RunRec)]
      /\ starts[x] \in StartRec /\ Shaped /\ InOrder(x)
  BY DEF Safe, Shaped, TypeOK
<1>1. CASE WorktreeMade(s)
  <2>1. /\ starts' = [starts EXCEPT ![s].at = "opening", ![s].left = OpenTimeout]
        /\ starts[s].at = "making" /\ runs' = runs /\ store' = store /\ app' = app /\ clock' = clock
    BY <1>1 DEF WorktreeMade
  <2>2. /\ starts'[x].due = starts[x].due /\ starts'[x].turn = starts[x].turn
        /\ starts'[x].at = starts[x].at \/ (starts'[x].at = "opening" /\ Starting(x))
    BY <1>0, <2>1 DEF StartRec, Starting
  <2>3. Starting(x)' = Starting(x)
    BY <2>2 DEF Starting
  <2>4. InOrder(x)'
    BY <1>0, <2>1, <2>2, <2>3, StillInOrder DEF Known
  <2> QED BY <2>1, <2>3, <2>4 DEF KeptOf, Safe, StartingIsPending, Started, Known
<1>2. ASSUME NEW kind \in {"failed", "started"}, NEW written \in BOOLEAN, Settle(s, kind, written),
             kind = "failed" \/ x # s, runs'[x] = runs[x], clock' = clock, app' = app
      PROVE  KeptOf(x)
  <2>1. s \in Known => written
    BY <1>2 DEF Settle, Safe, Shaped, TypeOK
  <2>2. /\ Known' = Known
        /\ x \in Known => /\ store'[x].last = store[x].last /\ store'[x].next = store[x].next
                          /\ x # s => store'[x] = store[x]
                          /\ x = s => store'[x].outcome = kind
    <3>1. CASE s \notin Known
      BY <1>2, <3>1 DEF Settle, Known
    <3>2. CASE s \in Known
      <4> DEFINE l == IF kind = "started" THEN Len(runs[s]) + 1 ELSE store[s].last
                 r == [store[s] EXCEPT !.outcome = kind, !.last = l]
      <4>1. store' = [store EXCEPT ![s] = r]
        BY <1>2, <2>1, <3>2 DEF Settle
      <4>2. store[s] \in ScheduleRec
        BY <3>2 DEF Safe, Shaped, TypeOK
      <4>3. kind = "failed" => l = store[s].last
        OBVIOUS
      <4> HIDE DEF l
      <4>4. r.last = l /\ r.next = store[s].next /\ r.outcome = kind
        BY <4>2 DEF ScheduleRec
      <4> HIDE DEF r
      <4> QED BY <1>2, <3>2, <4>1, <4>3, <4>4 DEF Known
    <3> QED BY <3>1, <3>2
  <2>3. starts'[x] = IF x = s THEN NoStart ELSE starts[x]
    BY <1>0, <1>2 DEF Settle
  <2>4. CASE x # s
    BY <1>0, <1>2, <2>2, <2>3, <2>4, LeftAlone
  <2>5. CASE x = s
    <3>1. ~Starting(x)'
      BY <2>3, <2>5 DEF Starting, NoStart
    <3>2. InOrder(x)'
      BY <1>0, <1>2, <2>2, <3>1, StillInOrder
    <3> QED BY <1>2, <2>2, <2>5, <3>2 DEF KeptOf
  <2> QED BY <2>4, <2>5
<1>3. CASE WorktreeFails(s) \/ OpenTimesOut(s)
  BY <1>2, <1>3 DEF WorktreeFails, OpenTimesOut
<1>4. ASSUME NEW token \in Nat, NEW ready, ScheduledWorktreeOpened(s, token, ready)
      PROVE  KeptOf(x)
  <2>0. clock' = clock /\ app' = app
    BY <1>4 DEF ScheduledWorktreeOpened
  <2>1. CASE ~Waits(s, token)
    <3>1. runs' = runs /\ store' = store /\ starts' = starts
      BY <1>4, <2>1 DEF ScheduledWorktreeOpened
    <3> QED BY <1>0, <2>0, <3>1, LeftAlone DEF Known
  <2>2. CASE Waits(s, token) /\ ~(ready /\ s \in Known)
    <3>1. runs' = runs /\ \E written \in BOOLEAN : Settle(s, "failed", written)
      BY <1>4, <2>2 DEF ScheduledWorktreeOpened
    <3> QED BY <1>2, <2>0, <3>1
  <2>3. CASE Waits(s, token) /\ ready /\ s \in Known
    <3> DEFINE run == [due |-> starts[s].due, turn |-> starts[s].turn, token |-> token, active |-> TRUE]
    <3>1. /\ runs' = [runs EXCEPT ![s] = Append(@, run)]
          /\ \E written \in BOOLEAN : Settle(s, "started", written)
      BY <1>4, <2>3 DEF ScheduledWorktreeOpened
    <3>2. run \in RunRec /\ run.due = starts[s].due /\ run.turn = starts[s].turn
      BY <1>0 DEF RunRec, StartRec
    <3> HIDE DEF run
    <3>3. CASE x # s
      BY <1>0, <1>2, <2>0, <3>1, <3>3
    <3>4. CASE x = s
      <4>1. PICK written \in BOOLEAN : Settle(s, "started", written)
        BY <3>1
      <4>2. written /\ starts'[s] = NoStart
        BY <1>0, <2>3, <4>1 DEF Settle, Safe, Shaped, TypeOK
      <4> DEFINE l == Len(runs[s]) + 1
                 r == [store[s] EXCEPT !.outcome = "started", !.last = l]
      <4>3. store' = [store EXCEPT ![s] = r] /\ store[s] \in ScheduleRec
        BY <2>3, <4>1, <4>2 DEF Settle, Safe, Shaped, TypeOK
      <4> HIDE DEF l
      <4>4. r.last = l /\ r.next = store[s].next /\ r.outcome = "started"
        BY <4>3 DEF ScheduleRec
      <4> HIDE DEF r
      <4>5. store'[s] = r
        BY <2>3, <4>3 DEF Known
      <4>6. Starting(s) /\ ~Starting(s)' /\ runs'[s] = Append(runs[s], run)
        BY <1>0, <2>3, <3>1, <4>2 DEF Waits, Starting, NoStart
      <4>7. /\ ActiveRuns(s) = {} /\ run.turn <= clock
            /\ run.due # Manual => Later(run.due, s)
            /\ Later(store'[s].next, s)
            /\ run.due # Manual => store'[s].next > run.turn
        BY <1>0, <2>3, <3>2, <3>4, <4>4, <4>5, <4>6 DEF InOrder, Neat, InTime
      <4>8. InOrder(s)'
        BY <1>0, <2>0, <2>3, <3>2, <3>4, <4>4, <4>5, <4>6, <4>7, LaunchInOrder DEF l
      <4> QED BY <3>4, <4>4, <4>5, <4>8 DEF KeptOf
    <3> QED BY <3>3, <3>4
  <2> QED BY <2>1, <2>2, <2>3
<1>5. ASSUME NEW i \in DOMAIN runs[s], RunEnds(s, i) PROVE KeptOf(x)
  <2>1. /\ runs' = [runs EXCEPT ![s][i].active = FALSE] /\ UNCHANGED <<store, starts, app, clock>>
    BY <1>5 DEF RunEnds
  <2>2. CASE x # s
    BY <1>0, <2>1, <2>2, LeftAlone DEF Known
  <2>3. CASE x = s
    <3> DEFINE r == [runs[s][i] EXCEPT !.active = FALSE]
    <3>1. runs'[s] = [runs[s] EXCEPT ![i] = r] /\ runs[s][i] \in RunRec
      BY <1>0, <2>1
    <3>2. r.turn = runs[s][i].turn /\ r.due = runs[s][i].due /\ r.active = FALSE
      BY <3>1 DEF RunRec
    <3> HIDE DEF r
    <3>3. /\ DOMAIN runs'[s] = DOMAIN runs[s]
          /\ \A k \in DOMAIN runs[s] : /\ runs'[s][k].turn = runs[s][k].turn
                                       /\ runs'[s][k].due = runs[s][k].due
                                       /\ runs'[s][k].active => runs[s][k].active
      BY <1>0, <3>1, <3>2
    <3>4. ActiveRuns(s)' \subseteq ActiveRuns(s)
      BY <3>3 DEF ActiveRuns
    <3>5. Neat(s)'
      BY <1>0, <2>1, <2>3, <3>4 DEF InOrder, Neat, Known, Starting
    <3>6. InTime(s)'
      BY <1>0, <2>1, <2>3, <3>3 DEF InOrder, InTime, Later, Known, Starting
    <3> QED BY <2>1, <2>3, <3>5, <3>6 DEF KeptOf, InOrder, Safe, StartingIsPending, Known, Starting, Started
  <2> QED BY <2>2, <2>3
<1> QED BY <1>1, <1>3, <1>4, <1>5, SMTT(30) DEF WorktreeStep, Safe, Shaped, TypeOK

\* The calls of the window.
LEMMA CallSafe ==
    ASSUME MaxFaults = 0, Safe, Shaped', NEW s \in Schedules, Call(s), NEW x \in Schedules
    PROVE  KeptOf(x)
<1>0. clock \in Nat /\ Shaped /\ InOrder(x) /\ runs[x] \in Seq(RunRec)
  BY DEF Safe, Shaped, TypeOK
<1>1. ASSUME NEW spec \in {"interval", "slots"}, NEW worktree \in BOOLEAN,
             CreateSchedule(s, spec, worktree)
      PROVE  KeptOf(x)
  <2> DEFINE r == [enabled |-> TRUE, worktree |-> worktree, spec |-> spec,
                   next |-> NextScheduleTime(spec, clock), last |-> NoRun, outcome |-> "none"]
  <2>1. /\ store' = [y \in Known \cup {s} |-> IF y # s THEN store[y] ELSE r]
        /\ UNCHANGED <<app, starts, runs, clock>> /\ s \notin used
    BY <1>1 DEF CreateSchedule
  <2> HIDE DEF r
  <2>2. CASE x # s
    <3>1. x \in Known' => x \in Known /\ store'[x] = store[x]
      BY <2>1, <2>2 DEF Known
    <3>2. app' = app /\ starts' = starts /\ runs' = runs /\ clock' >= clock
      BY <1>0, <2>1
    <3> QED BY <3>1, <3>2, LeftAlone
  <2>3. CASE x = s
    <3>1. runs[x] = <<>> /\ ~Starting(x)
      BY <2>1, <2>3 DEF Safe, Shaped
    <3>2. runs'[x] = <<>> /\ ~Starting(x)' /\ DOMAIN runs'[x] = {} /\ ActiveRuns(x)' = {}
      BY <2>1, <3>1 DEF Starting, ActiveRuns
    <3>3. store'[x].outcome # "starting"
      BY <2>1, <2>3 DEF r
    <3> QED BY <3>2, <3>3 DEF KeptOf, InOrder, Neat, InTime, Later
  <2> QED BY <2>2, <2>3
<1>2. ASSUME NEW spec \in {"interval", "slots"}, NEW worktree \in BOOLEAN, NEW enabled \in BOOLEAN,
             UpdateSchedule(s, enabled, spec, worktree)
      PROVE  KeptOf(x)
  <2> DEFINE n == IF spec # store[s].spec \/ (enabled /\ ~store[s].enabled)
                  THEN NextScheduleTime(spec, clock) ELSE store[s].next
             r == [store[s] EXCEPT !.enabled = enabled, !.spec = spec, !.worktree = worktree, !.next = n]
  <2>1. store' = [store EXCEPT ![s] = r] /\ s \in Known /\ UNCHANGED <<app, starts, runs, clock>>
    BY <1>2 DEF UpdateSchedule
  <2>2. n = store[s].next \/ n > clock
    BY <1>0, NextIsLater
  <2>3. store[s] \in ScheduleRec
    BY <2>1 DEF Safe, Shaped, TypeOK
  <2> HIDE DEF n
  <2>4. r.last = store[s].last /\ r.next = n /\ r.outcome = store[s].outcome
    BY <2>3 DEF ScheduleRec
  <2> HIDE DEF r
  <2>5. Known' = Known /\ (x \in Known => store'[x] = IF x = s THEN r ELSE store[x])
    BY <2>1 DEF Known
  <2> QED BY <1>0, <2>1, <2>2, <2>4, <2>5, LeftAlone
<1>3. CASE DeleteSchedule(s)
  <2>1. store' = [y \in Known \ {s} |-> store[y]] /\ UNCHANGED <<app, starts, runs, clock>>
    BY <1>3 DEF DeleteSchedule
  <2>2. x \in Known' => x \in Known /\ store'[x] = store[x]
    BY <2>1 DEF Known
  <2>3. app' = app /\ starts' = starts /\ runs' = runs /\ clock' >= clock
    BY <1>0, <2>1
  <2> QED BY <2>2, <2>3, LeftAlone
<1>4. CASE RunScheduleNow(s)
  <2>1. PICK ready \in [{s} -> BOOLEAN], unwritten \in SUBSET {s} :
          Fire({s}, store, ready, unwritten, TRUE, 0)
    BY <1>4 DEF RunScheduleNow
  <2>2. {s} \in SUBSET Known /\ Read(store) /\ TRUE \in BOOLEAN /\ 0 \in Nat
    BY <1>0, <1>4, StoreIsRead DEF RunScheduleNow
  <2>3. clock' = clock /\ app' = app
    BY <1>4 DEF RunScheduleNow
  <2>4. Known' = Known
    BY <2>1 DEF Fire, Known
  <2>5. /\ InOrder(x)'
        /\ x \in Known' /\ store'[x].outcome = "starting" =>
              Starting(x)' \/ store[x].outcome = "starting"
        /\ x \in Known' /\ Starting(x) => Starting(x)'
    BY <1>0, <2>1, <2>2, <2>3, FireInOrder
  <2> QED BY <2>3, <2>4, <2>5 DEF KeptOf, Safe, StartingIsPending, Started
<1> QED BY <1>1, <1>2, <1>3, <1>4 DEF Call

\* Order holds at the start.
LEMMA SafeInit == Init => Safe
<1> SUFFICES ASSUME Init PROVE Safe
  OBVIOUS
<1>1. ASSUME NEW s \in Schedules PROVE InOrder(s)
  <2>1. runs[s] = <<>> /\ ~Starting(s) /\ Known = {}
    BY DEF Init, Starting, NoStart, Known
  <2>2. ActiveRuns(s) = {} /\ DOMAIN runs[s] = {}
    BY <2>1 DEF ActiveRuns
  <2> QED BY <2>1, <2>2 DEF InOrder, Neat, InTime, Later
<1>2. StartingIsPending
  BY DEF Init, StartingIsPending, Started
<1> QED BY <1>1, <1>2, ShapedInit DEF Safe

\* Every step keeps the order of every schedule.
LEMMA SafeStep ==
    ASSUME MaxFaults = 0 PROVE Safe /\ [Next]_vars => Safe'
<1> SUFFICES ASSUME Safe, [Next]_vars PROVE Safe'
  OBVIOUS
<1>1. Shaped'
  BY ShapedStep DEF Safe
<1>2. CASE UNCHANGED vars
  BY <1>1, <1>2
     DEF vars, Safe, InOrder, Neat, InTime, Later, ActiveRuns, Starting, Known, StartingIsPending, Started
<1>3. CASE Next
  <2>1. ASSUME NEW s \in Schedules PROVE KeptOf(s)
    BY <1>1, <1>3, TurnSafe, WorldSafe, WorktreeSafe, CallSafe DEF Next
  <2>2. \A s \in Known' : s \in Schedules
    BY <1>1 DEF Shaped, TypeOK
  <2> QED BY <1>1, <2>1, <2>2 DEF KeptOf, Safe, StartingIsPending
<1> QED BY <1>2, <1>3

\* So it holds always.
LEMMA AlwaysSafe == ASSUME MaxFaults = 0 PROVE Spec => []Safe
<1>1. Safe /\ [Next]_vars => Safe'
  BY SafeStep
<1> QED BY <1>1, SafeInit, PTL DEF Spec

-----------------------------------------------------------------------------
(* The theorems.                                                             *)

\* Two runs of a schedule never overlap, and no start waits while one goes on, whatever mix of
\* the timer, wakes, restarts, edits, Run now and late worktrees started them (fire, runActive).
THEOREM NoTwoRuns == ASSUME MaxFaults = 0 PROVE Spec => []NoOverlap
<1>1. Safe => NoOverlap
  BY DEF Safe, InOrder, Neat, NoOverlap
<1> QED BY <1>1, AlwaysSafe, PTL

\* A run of the timetable is for a time after the turn that started the one before it: however
\* long the machine slept, the missed times are made up by one run (nextScheduleTime, record).
THEOREM MadeUpOnlyOnce == ASSUME MaxFaults = 0 PROVE Spec => []MadeUpOnce
<1>1. Safe => MadeUpOnce
  BY DEF Safe, InOrder, InTime, MadeUpOnce
<1> QED BY <1>1, AlwaysSafe, PTL

\* No schedule of a running scheduler says "starting" of a start nobody waits on (settle,
\* settleAbandonedStarts).
THEOREM NoStartLeftBehind == ASSUME MaxFaults = 0 PROVE Spec => []StartingIsPending
<1>1. Safe => StartingIsPending
  BY DEF Safe
<1> QED BY <1>1, AlwaysSafe, PTL

-----------------------------------------------------------------------------
(* Starts that were given up.                                                *)

\* A token is taken once, so no answer, however late, is taken for another start than the one it
\* was asked for (pendingWorktrees, scheduledWorktreeOpened), whatever fails.
THEOREM NoStartComesBack == Spec => GivenUpStaysGivenUp
<1> DEFINE Gone(s, token) == GivenUp(s, token) => GivenUp(s, token)'
\* Enough: the start that waits has not that token, and no run gets it.
<1>1. ASSUME Shaped, Shaped', NEW s \in Schedules, NEW token \in 1..tokens[s],
             tokens'[s] >= tokens[s], starts[s].token # token => starts'[s].token # token,
             starts[s].token # token =>
                \A i \in DOMAIN runs'[s] :
                   runs'[s][i].token # token
                   \/ (i \in DOMAIN runs[s] /\ runs'[s][i].token = runs[s][i].token)
      PROVE  Gone(s, token)
  <2>1. tokens[s] \in Nat /\ tokens'[s] \in Nat
    BY <1>1 DEF Shaped, TypeOK
  <2> QED BY <1>1, <2>1 DEF GivenUp
<1>2. ASSUME Shaped, Shaped', Next, NEW s \in Schedules, NEW token \in 1..tokens[s]
      PROVE  Gone(s, token)
  <2> USE <1>2
  <2>0. /\ tokens[s] \in Nat /\ starts \in [Schedules -> StartRec] /\ starts[s] \in StartRec
        /\ runs \in [Schedules -> Seq(RunRec)] /\ runs[s] \in Seq(RunRec) /\ token # 0
        /\ tokens[s] >= tokens[s]
    BY SMTT(30) DEF Shaped, TypeOK
  <2> HIDE DEF Gone
  <2>1. CASE runs' = runs /\ tokens' = tokens /\ (starts'[s].token # token \/ starts'[s].token = starts[s].token)
    BY <1>1, <2>0, <2>1
  <2>2. NoStart.token # token
    BY <2>0 DEF NoStart
  <2>3. ASSUME NEW st, NEW fired, NEW ready \in [fired -> BOOLEAN], NEW unwritten, NEW manual, NEW failed,
               Fire(fired, st, ready, unwritten, manual, failed)
        PROVE  Gone(s, token)
    <3>1. Fired(s, fired, st, ready, manual)
      BY <2>3, FireOn
    <3>2. tokens'[s] >= tokens[s] /\ (starts[s].token # token => starts'[s].token # token)
      BY <2>0, <3>1 DEF Fired
    <3>3. \A i \in DOMAIN runs'[s] :
             runs'[s][i].token # token
             \/ (i \in DOMAIN runs[s] /\ runs'[s][i].token = runs[s][i].token)
      <4> DEFINE run == [due |-> IF manual THEN Manual ELSE st[s].next, turn |-> clock,
                         token |-> 0, active |-> TRUE]
      <4>1. run.token = 0
        OBVIOUS
      <4>2. runs'[s] = runs[s] \/ runs'[s] = Append(runs[s], run)
        BY <3>1 DEF Fired
      <4> HIDE DEF run
      <4>3. CASE runs'[s] = runs[s]
        BY <4>3
      <4>4. CASE runs'[s] = Append(runs[s], run)
        <5>1. ASSUME NEW i \in DOMAIN runs'[s]
              PROVE  runs'[s][i] = run \/ (i \in DOMAIN runs[s] /\ runs'[s][i] = runs[s][i])
          BY <2>0, <4>4
        <5> QED BY <2>0, <4>1, <5>1
      <4> QED BY <4>2, <4>3, <4>4
    <3> QED BY <1>1, <3>2, <3>3
  <2>4. CASE Turn
    <3>1. \E st : \E ready \in [Due(st) -> BOOLEAN], unwritten \in SUBSET Due(st), failed \in {0, 1} :
             Fire(Due(st), st, ready, unwritten, FALSE, failed)
      <4>1. \A st : RunDueSchedules(st, 0) \/ RunDueSchedules(st, 1) =>
               \E ready \in [Due(st) -> BOOLEAN], unwritten \in SUBSET Due(st), failed \in {0, 1} :
                  Fire(Due(st), st, ready, unwritten, FALSE, failed)
        BY Zenon DEF RunDueSchedules
      <4>2. \E st : RunDueSchedules(st, 0) \/ RunDueSchedules(st, 1)
        BY <2>4, Zenon DEF Turn, TimerFires, OnResume, StartTaskScheduler
      <4> QED BY <4>1, <4>2, Zenon
    <3> QED BY <2>3, <3>1
  <2>5. CASE Tick \/ Sleep \/ StopTaskScheduler
    <3>1. runs' = runs /\ tokens' = tokens
      BY <2>5 DEF Tick, Sleep, StopTaskScheduler
    <3>2. CASE Tick
      <4>1. starts'[s] = [starts[s] EXCEPT !.left = IF @ = 0 THEN 0 ELSE @ - 1]
        BY <3>2 DEF Tick
      <4> QED BY <2>0, <2>1, <3>1, <4>1 DEF StartRec
    <3>3. CASE Sleep \/ StopTaskScheduler
      BY <2>1, <2>2, <3>1, <3>3 DEF Sleep, StopTaskScheduler
    <3> QED BY <2>5, <3>2, <3>3
  <2>6. CASE Exit
    <3>1. starts'[s] = NoStart /\ tokens' = tokens
          /\ runs'[s] = [i \in DOMAIN runs[s] |-> [runs[s][i] EXCEPT !.active = FALSE]]
      BY <2>6 DEF Exit
    <3>2. \A i \in DOMAIN runs[s] : runs[s][i] \in RunRec
      BY <2>0
    <3>3. \A r \in RunRec : [r EXCEPT !.active = FALSE].token = r.token
      BY DEF RunRec
    <3>4. \A i \in DOMAIN runs'[s] : i \in DOMAIN runs[s] /\ runs'[s][i].token = runs[s][i].token
      BY <3>1, <3>2, <3>3
    <3> QED BY <1>1, <2>0, <2>2, <3>1, <3>4
  <2>7. ASSUME NEW x \in Schedules, NEW kind, NEW written, Settle(x, kind, written), tokens' = tokens,
               runs' = runs
        PROVE  Gone(s, token)
    <3>1. starts'[s] = NoStart \/ starts'[s] = starts[s]
      BY <2>0, <2>7 DEF Settle
    <3> QED BY <2>1, <2>2, <2>7, <3>1
  <2>8. ASSUME NEW x \in Schedules, WorktreeStep(x) PROVE Gone(s, token)
    <3>1. CASE WorktreeMade(x)
      <4>1. starts' = [starts EXCEPT ![x].at = "opening", ![x].left = OpenTimeout]
            /\ runs' = runs /\ tokens' = tokens
        BY <3>1 DEF WorktreeMade
      <4>2. starts'[s].token = starts[s].token
        BY <2>0, <4>1 DEF StartRec
      <4> QED BY <2>1, <4>1, <4>2
    <3>2. CASE WorktreeFails(x) \/ OpenTimesOut(x)
      BY <2>7, <3>2 DEF WorktreeFails, OpenTimesOut
    <3>3. ASSUME NEW other \in Nat, NEW ready, ScheduledWorktreeOpened(x, other, ready)
          PROVE  Gone(s, token)
      <4>0. tokens' = tokens
        BY <3>3 DEF ScheduledWorktreeOpened
      <4>1. CASE runs' = runs
        <5>1. starts' = starts \/ \E written \in BOOLEAN, kind \in {"started", "failed"} : Settle(x, kind, written)
          BY <3>3 DEF ScheduledWorktreeOpened
        <5> QED BY <2>1, <2>7, <4>0, <4>1, <5>1
      <4>2. CASE Waits(x, other) /\ ready /\ x \in Known
        <5> DEFINE run == [due |-> starts[x].due, turn |-> starts[x].turn, token |-> other, active |-> TRUE]
        <5>1. runs' = [runs EXCEPT ![x] = Append(@, run)]
              /\ \E written \in BOOLEAN : Settle(x, "started", written)
          BY <3>3, <4>2 DEF ScheduledWorktreeOpened
        <5>2. run.token = other /\ starts[x].token = other
          BY <4>2 DEF Waits
        <5> HIDE DEF run
        <5>3. starts'[s] = NoStart \/ starts'[s] = starts[s]
          BY <2>0, <5>1 DEF Settle
        <5>4. CASE x # s
          BY <1>1, <2>0, <2>2, <4>0, <5>1, <5>3, <5>4
        <5>5. CASE x = s
          <6>1. runs'[s] = Append(runs[s], run)
            BY <2>0, <5>1, <5>5
          <6>2. starts[s].token # token =>
                  \A i \in DOMAIN runs'[s] :
                     runs'[s][i].token # token
                     \/ (i \in DOMAIN runs[s] /\ runs'[s][i].token = runs[s][i].token)
            BY <2>0, <5>2, <5>5, <6>1
          <6> QED BY <1>1, <2>0, <2>2, <4>0, <5>3, <6>2
        <5> QED BY <5>4, <5>5
      <4> QED BY <3>3, <4>1, <4>2 DEF ScheduledWorktreeOpened
    <3> QED BY <2>8, <3>1, <3>2, <3>3, SMTT(30) DEF WorktreeStep, Shaped, TypeOK
  <2>9. ASSUME NEW x \in Schedules, Call(x) PROVE Gone(s, token)
    <3>1. CASE RunScheduleNow(x)
      BY <2>3, <3>1 DEF RunScheduleNow
    <3>2. CASE ~RunScheduleNow(x)
      <4>1. runs' = runs /\ tokens' = tokens /\ starts' = starts
        BY <2>9, <3>2 DEF Call, CreateSchedule, UpdateSchedule, DeleteSchedule
      <4> QED BY <2>1, <4>1
    <3> QED BY <3>1, <3>2
  <2>10. ASSUME NEW x \in Schedules, NEW i \in DOMAIN runs[x], RunEnds(x, i) PROVE Gone(s, token)
    <3>1. runs' = [runs EXCEPT ![x][i].active = FALSE] /\ tokens' = tokens /\ starts' = starts
      BY <2>10 DEF RunEnds
    <3>2. CASE x # s
      BY <1>1, <2>0, <3>1, <3>2
    <3>3. CASE x = s
      <4> DEFINE r == [runs[s][i] EXCEPT !.active = FALSE]
      <4>1. runs'[s] = [runs[s] EXCEPT ![i] = r] /\ runs[s][i] \in RunRec
        BY <2>0, <2>10, <3>1, <3>3
      <4>2. r.token = runs[s][i].token
        BY <4>1 DEF RunRec
      <4> HIDE DEF r
      <4>3. \A k \in DOMAIN runs'[s] : k \in DOMAIN runs[s] /\ runs'[s][k].token = runs[s][k].token
        BY <2>0, <4>1, <4>2
      <4> QED BY <1>1, <2>0, <3>1, <4>3
    <3> QED BY <3>2, <3>3
  <2> QED BY <2>4, <2>5, <2>6, <2>8, <2>9, <2>10 DEF Next
<1>3. Shaped /\ Shaped' /\ [Next]_vars
        => [\A s \in Schedules : \A token \in 1..tokens[s] : GivenUp(s, token) => GivenUp(s, token)']_vars
  BY <1>2
<1>4. Spec => []Shaped
  BY ShapedInit, ShapedStep, PTL DEF Spec
<1> QED BY <1>3, <1>4, PTL DEF Spec, GivenUpStaysGivenUp

-----------------------------------------------------------------------------
(* Goals and loops.                                                          *)

USE DEF goalVars, endVars, loopVars, autoVars

\* The outcome of a decision to start: the run is registered, or nothing of it moves.
LEMMA LaunchMaps ==
    ASSUME NEW o, LaunchOrHeld(o)
    PROVE  RegNext \/ UNCHANGED regVars
BY DEF LaunchOrHeld, Launch, Held, RegNext

LEMMA CompleteMaps == CompleteGoal => UNCHANGED regVars
BY DEF CompleteGoal

\* A step of an invoke is a step of that invoke in the registry, or none.
LEMMA InvokeMaps ==
    ASSUME NEW i \in Invoke, AutoInvokeStep(i)
    PROVE  RegNext \/ UNCHANGED regVars
<1>1. CASE TurnBegins(i)
  BY <1>1 DEF TurnBegins, RegNext, InvokeStep
<1>2. CASE StartFails(i)
  BY <1>2 DEF StartFails, RegNext, InvokeStep
<1>3. CASE ApplyPrompt(i) \/ AgentResumes(i) \/ ProposeGoal(i)
  BY <1>3 DEF ApplyPrompt, AgentResumes, ProposeGoal
<1>4. CASE AgentCompletes(i)
  BY <1>4, CompleteMaps DEF AgentCompletes
<1>5. CASE TurnCloses(i)
  BY <1>5 DEF TurnCloses, RegNext, InvokeStep
<1>6. CASE InvokeEnds(i)
  BY <1>6 DEF InvokeEnds, RegNext, InvokeStep
<1>7. CASE InvokeGoesOn(i)
  BY <1>7 DEF InvokeGoesOn, RegNext, InvokeStep
<1> QED
  BY <1>1, <1>2, <1>3, <1>4, <1>5, <1>6, <1>7 DEF AutoInvokeStep

LEMMA AutoStepMaps ==
    ASSUME [AutoNext]_startVars
    PROVE  [RegNext]_regVars
<1>1. CASE UNCHANGED startVars
  BY <1>1 DEF startVars
<1>2. ASSUME NEW i \in Invoke, Plan(i) PROVE RegNext \/ UNCHANGED regVars
  BY <1>2, LaunchMaps DEF Plan
<1>3. CASE UserStarts
  BY <1>3 DEF UserStarts, Launch, RegNext
<1>4. CASE Boot
  BY <1>4, LaunchMaps DEF Boot
<1>5. CASE OnTick
  BY <1>5, LaunchMaps DEF OnTick
<1>6. CASE ResumeGoal
  BY <1>6, LaunchMaps DEF ResumeGoal
<1>7. CASE UserCompletes \/ PauseGoal \/ ArmLoop \/ StopLoop
  BY <1>7, CompleteMaps DEF UserCompletes, PauseGoal, ArmLoop, StopLoop
<1>8. CASE CancelRun \/ OthersGoOn \/ ProcessDies
  BY <1>8 DEF CancelRun, OthersGoOn, ProcessDies, RegNext, Others
<1> QED
  BY <1>1, <1>2, <1>3, <1>4, <1>5, <1>6, <1>7, <1>8, InvokeMaps DEF AutoNext

\* Goals, loops and relaunches start the run only through the registry: what starts a run
\* without the user implements RunRegistry.
THEOREM StartsThroughTheRegistry == AutoSpec => RegSpec
<1>1. AutoInit => RegInit
  BY DEF AutoInit
<1>2. [AutoNext]_startVars => [RegNext]_regVars
  BY AutoStepMaps
<1> QED
  BY <1>1, <1>2, PTL DEF AutoSpec, RegSpec

\* So a relaunch, a resume at start-up, a loop's tick and the user never start two loops of
\* one run, and the outcome of the turn before is on disk before any of them may start, unless
\* the flush of its finally and the retry both failed.
THEOREM RegistryHoldsOfStarts ==
    AutoSpec => [](RegTypeOK /\ OneLoopPerRun /\ ReleasedRunIsOnDisk)
  BY StartsThroughTheRegistry, OneLoop, OutcomeIsOnDisk, PTL

\* Until an orphan sweep finds the run, a run started without the user reads as running while it
\* runs; where a deletion is permanent, none of these starts finds its directory gone.
THEOREM StatusHoldsOfStarts ==
    /\ AutoSpec => []LiveRunReadsRunning
    /\ Permanent = TRUE => (AutoSpec => []NeverDeletedUnderLiveRun)
<1>1. AutoSpec => []LiveRunReadsRunning
  BY StartsThroughTheRegistry, LiveRunIsRunning, PTL
<1>2. ASSUME Permanent = TRUE PROVE AutoSpec => []NeverDeletedUnderLiveRun
  BY <1>2, StartsThroughTheRegistry, PermanentDeletionIsSafe, PTL
<1> QED
  BY <1>1, <1>2
-----------------------------------------------------------------------------
(* The invariants of the goal and of the loop.                               *)

\* The count of goal.json covers the resumes nobody asked for as long as the goal can be resumed.
BootInv ==
    /\ goal \in {"active", "paused"} => unattended <= autoResume
    /\ BootResumesBounded

AutoInv == AutoTypeOK /\ BootInv /\ LoopIsTicking /\ PromptsNotStacked

USE DEF slotVars, dirVars, jobVars, counts, regVars

\* No step of the registry brings a deleted run directory back.
LEMMA StaysDeleted ==
    ASSUME [RegNext]_regVars, present'
    PROVE  present
<1>1. CASE UNCHANGED regVars
  BY <1>1 DEF regVars
<1>2. CASE Register \/ Others
  BY <1>2 DEF Register, Others, Cancel, ForceFinish, StatusLands, SweepFindsOrphan, SweepWrites,
              DeleteBegins, DeleteDrained, DeleteMoves, Crash
<1>3. ASSUME NEW i \in Invoke, InvokeStep(i) PROVE present
  BY <1>3 DEF InvokeStep, RuntimeRefuses, ResumeThrows, Resume, WriteStep, Hang, Unhang,
              CloseTurn, EndTurn, Stop, StopCancelled, FinallyFlushed, FinallyFails, ReleaseSlot, EndTail
<1> QED
  BY <1>1, <1>2, <1>3 DEF RegNext

\* All of the type invariant but the registry's types is about the module's own variables.
AutoShape ==
    /\ goal \in {"inert", "active", "paused", "complete"}
    /\ autoResume \in 0..GoalAutoResumeLimit /\ unattended \in Nat
    /\ why \in Kind /\ origin \in Origin
    /\ ended \in [Invoke -> {"none", "done", "error", "cancelled"}]
    /\ booted \in BOOLEAN
    /\ loop \in {"none", "armed", "stopped"} /\ meta \in BOOLEAN
    /\ loopTimers \in Nat /\ prompts \in Nat
    /\ holds \in 0..MaxHolds /\ asks \in 0..MaxAsks

LEMMA AutoTypeParts == AutoTypeOK <=> RegTypeOK /\ AutoShape
BY DEF AutoTypeOK, AutoShape

\* The timer goes with the scheduler's entry of the run.
LEMMA TimerOfMeta ==
    ASSUME \/ meta' = TRUE /\ loopTimers' = 1
           \/ meta' = FALSE /\ loopTimers' = 0
    PROVE  meta' \in BOOLEAN /\ loopTimers' = (IF meta' THEN 1 ELSE 0)
BY Zenon

LEMMA AutoInitial == AutoInit => AutoInv
<1>1. SUFFICES ASSUME AutoInit PROVE AutoInv
  OBVIOUS
<1>2. RegTypeOK
  BY <1>1, SlotInit DEF AutoInit, SlotInv
<1>3. AutoShape
  <2>1. booted \in BOOLEAN /\ meta \in BOOLEAN
    BY <1>1, Zenon DEF AutoInit
  <2>2. ended \in [Invoke -> {"none", "done", "error", "cancelled"}]
    BY <1>1 DEF AutoInit
  <2> QED BY <1>1, <2>1, <2>2, AutoStartAssumption DEF AutoInit, AutoShape, Kind, Origin
<1>4. BootInv /\ LoopIsTicking /\ PromptsNotStacked
  BY <1>1, AutoStartAssumption DEF AutoInit, BootInv, BootResumesBounded, LoopIsTicking, PromptsNotStacked
<1> QED
  BY <1>2, <1>3, <1>4, AutoTypeParts DEF AutoInv

\* A step of an invoke leaves the loop timer alone unless it ends the goal.
LEMMA AutoInvokeKeeps ==
    ASSUME AutoInv, NEW i \in Invoke, AutoInvokeStep(i), present' => present
    PROVE  AutoShape' /\ BootInv' /\ LoopIsTicking' /\ PromptsNotStacked'
<1> USE AutoStartAssumption DEF AutoInv, AutoTypeOK, AutoShape, BootInv, BootResumesBounded,
        LoopIsTicking, PromptsNotStacked, Kind, Origin
<1>1. CASE TurnBegins(i)
  BY <1>1 DEF TurnBegins
<1>2. CASE StartFails(i)
  BY <1>2 DEF StartFails
<1>3. CASE ApplyPrompt(i)
  BY <1>3 DEF ApplyPrompt
<1>4. CASE AgentCompletes(i)
  BY <1>4 DEF AgentCompletes, CompleteGoal, DisarmLoop
<1>5. CASE AgentResumes(i) \/ ProposeGoal(i)
  BY <1>5 DEF AgentResumes, ProposeGoal
<1>6. CASE TurnCloses(i)
  BY <1>6 DEF TurnCloses
<1>7. ASSUME NEW s \in {"done", "error", "cancelled"}, NEW kind \in Kind, Ends(i, s, kind)
      PROVE  AutoShape' /\ BootInv' /\ LoopIsTicking' /\ PromptsNotStacked'
  <2>1. ended' \in [Invoke -> {"none", "done", "error", "cancelled"}] /\ why' \in Kind
    BY <1>7 DEF Ends
  <2>2. prompts' \in Nat /\ prompts' <= 1
    BY <1>7 DEF Ends
  <2> QED BY <1>7, <2>1, <2>2 DEF Ends
<1>8. CASE InvokeEnds(i)
  BY <1>7, <1>8 DEF InvokeEnds
<1>9. CASE InvokeGoesOn(i)
  BY <1>9 DEF InvokeGoesOn
<1> QED
  BY <1>1, <1>2, <1>3, <1>4, <1>5, <1>6, <1>8, <1>9 DEF AutoInvokeStep

LEMMA AutoKeeps ==
    ASSUME AutoInv, [AutoNext]_startVars, present' => present
    PROVE  AutoShape' /\ BootInv' /\ LoopIsTicking' /\ PromptsNotStacked'
<1> USE AutoStartAssumption DEF AutoInv, AutoTypeOK, AutoShape, BootInv, BootResumesBounded,
        LoopIsTicking, PromptsNotStacked, Kind, Origin
<1>1. CASE UNCHANGED startVars
  BY <1>1 DEF startVars
<1>2. ASSUME NEW o \in Origin, LaunchOrHeld(o)
      PROVE  origin' \in Origin /\ holds' \in 0..MaxHolds
  BY <1>2 DEF LaunchOrHeld, Launch, Held
<1>3. ASSUME NEW i \in Invoke, Plan(i)
      PROVE  AutoShape' /\ BootInv' /\ LoopIsTicking' /\ PromptsNotStacked'
  <2>1. origin' \in Origin /\ holds' \in 0..MaxHolds
    BY <1>2, <1>3 DEF Plan
  <2> QED BY <1>3, <2>1 DEF Plan
<1>4. CASE UserStarts
  BY <1>4 DEF UserStarts, Launch
<1>5. CASE Boot
  <2>1. origin' \in Origin /\ holds' \in 0..MaxHolds
    BY <1>2, <1>5 DEF Boot
  <2>4. /\ autoResume' \in 0..GoalAutoResumeLimit /\ unattended' \in Nat
        /\ goal' \in {"active", "paused"} => unattended' <= autoResume'
        /\ unattended' <= GoalAutoResumeLimit
    <3>1. CASE GoalWaits /\ invokes < MaxInvokes
      BY <1>5, <3>1 DEF Boot, GoalWaits, BumpGoalAutoResume
    <3>2. CASE ~(GoalWaits /\ invokes < MaxInvokes)
      BY <1>5, <3>2 DEF Boot
    <3> QED BY <3>1, <3>2
  <2>5. \/ meta' = TRUE /\ loopTimers' = 1 /\ loop = "armed"
        \/ meta' = meta /\ loopTimers' = loopTimers
    BY <1>5 DEF Boot, Schedule
  <2>6. meta' \in BOOLEAN /\ loopTimers' = (IF meta' THEN 1 ELSE 0) /\ loopTimers' \in Nat
    <3>1. CASE meta' = TRUE /\ loopTimers' = 1
      BY <3>1, TimerOfMeta
    <3>2. CASE meta' = meta /\ loopTimers' = loopTimers
      BY <3>2
    <3> QED BY <2>5, <3>1, <3>2
  <2>7. booted' \in BOOLEAN
    BY <1>5, Zenon DEF Boot
  <2>8. meta' /\ present' => loop' = "armed"
    BY <1>5, <2>5 DEF Boot
  <2> QED BY <1>5, <2>1, <2>4, <2>6, <2>7, <2>8 DEF Boot
<1>6. CASE OnTick
  <2>1. origin' \in Origin /\ holds' \in 0..MaxHolds
    BY <1>2, <1>6 DEF OnTick
  <2>2. meta /\ loopTimers = 1
    BY <1>6 DEF OnTick
  <2>3. prompts' \in {prompts, prompts + 1} /\ (prompts' = prompts + 1 => prompts = 0)
    BY <1>6 DEF OnTick, QueuedAlready, TakesFollowUp
  <2>4. loopTimers' = (IF meta' THEN 1 ELSE 0) /\ meta' \in BOOLEAN /\ loopTimers' \in Nat
    <3>1. \/ meta' = meta /\ loopTimers' = 1
          \/ meta' = FALSE /\ loopTimers' = loopTimers - 1
      BY <1>6, Zenon DEF OnTick, Schedule
    <3>2. CASE meta' = meta /\ loopTimers' = 1
      BY <2>2, <3>2
    <3>3. CASE meta' = FALSE /\ loopTimers' = loopTimers - 1
      <4>1. loopTimers' = 0
        BY <2>2, <3>3
      <4>2. meta' = FALSE /\ loopTimers' = 0
        BY <3>3, <4>1, Zenon
      <4>3. meta' \in BOOLEAN /\ loopTimers' = (IF meta' THEN 1 ELSE 0)
        BY <4>2, TimerOfMeta, Zenon
      <4> QED BY <4>1, <4>3
    <3> QED BY <3>1, <3>2, <3>3
  <2>5. meta' /\ present' => loop' = "armed"
    BY <1>6, <2>2 DEF OnTick
  <2> QED BY <1>6, <2>1, <2>2, <2>3, <2>4, <2>5 DEF OnTick
<1>7. CASE ResumeGoal
  <2>1. origin' \in Origin /\ holds' \in 0..MaxHolds
    BY <1>2, <1>7 DEF ResumeGoal
  <2> QED BY <1>7, <2>1 DEF ResumeGoal, Asked
<1>8. CASE UserCompletes
  <2>1. meta' = FALSE /\ loopTimers' = 0
    BY <1>8 DEF UserCompletes, CompleteGoal, DisarmLoop
  <2>2. meta' \in BOOLEAN /\ loopTimers' = (IF meta' THEN 1 ELSE 0)
    BY <2>1, TimerOfMeta
  <2> QED BY <1>8, <2>1, <2>2 DEF UserCompletes, CompleteGoal, DisarmLoop, Asked
<1>9. CASE PauseGoal
  BY <1>9 DEF PauseGoal, Asked
<1>10. CASE ArmLoop \/ StopLoop
  <2>1. \/ meta' = TRUE /\ loopTimers' = 1 /\ loop' = "armed"
        \/ meta' = FALSE /\ loopTimers' = 0 /\ loop' = "stopped"
    BY <1>10 DEF ArmLoop, StopLoop, DisarmLoop, Schedule
  <2>2. meta' \in BOOLEAN /\ loopTimers' = (IF meta' THEN 1 ELSE 0)
    BY <2>1, TimerOfMeta
  <2> QED BY <1>10, <2>1, <2>2 DEF ArmLoop, StopLoop, Asked
<1>11. CASE CancelRun \/ OthersGoOn
  BY <1>11 DEF CancelRun, OthersGoOn
<1>12. CASE ProcessDies
  <2>1. booted' \in BOOLEAN
    BY <1>12, Zenon DEF ProcessDies
  <2>2. meta' = FALSE /\ loopTimers' = 0
    BY <1>12 DEF ProcessDies
  <2>3. meta' \in BOOLEAN /\ loopTimers' = (IF meta' THEN 1 ELSE 0)
    BY <2>2, TimerOfMeta
  <2> QED BY <1>12, <2>1, <2>2, <2>3 DEF ProcessDies
<1> QED
  BY <1>1, <1>3, <1>4, <1>5, <1>6, <1>7, <1>8, <1>9, <1>10, <1>11, <1>12,
     AutoInvokeKeeps DEF AutoNext

LEMMA AutoStep ==
    ASSUME AutoInv, [AutoNext]_startVars
    PROVE  AutoInv'
<1>1. [RegNext]_regVars
  BY AutoStepMaps
<1>2. RegTypeOK'
  BY <1>1, TypeStep DEF AutoInv, AutoTypeOK
<1>3. present' => present
  BY <1>1, StaysDeleted
<1>4. AutoShape' /\ BootInv' /\ LoopIsTicking' /\ PromptsNotStacked'
  BY <1>3, AutoKeeps
<1> QED
  BY <1>2, <1>4, AutoTypeParts DEF AutoInv, AutoTypeOK, AutoShape

LEMMA AutoInvariant == AutoSpec => []AutoInv
BY AutoInitial, AutoStep, PTL DEF AutoSpec

\* Goal, loop and counters keep their types; the count of goal.json never passes its limit.
THEOREM AutoTypes == AutoSpec => []AutoTypeOK
<1>1. AutoInv => AutoTypeOK
  BY DEF AutoInv
<1> QED BY <1>1, AutoInvariant, PTL

\* A goal is resumed at start-up at most GOAL_AUTO_RESUME_LIMIT times without a turn someone
\* asked for: the count is on disk before the launch, and a turn, a new goal or a Resume that
\* resets it is one someone asked for.
THEOREM ResumesAreBounded == AutoSpec => []BootResumesBounded
<1>1. AutoInv => BootResumesBounded
  BY DEF AutoInv, BootInv
<1> QED BY <1>1, AutoInvariant, PTL

\* The scheduler has one timer for a run it knows and none for others, through ticks, starts,
\* goals that end, deletions and restarts: a loop neither doubles, nor leaks, nor dies in memory.
THEOREM LoopKeepsTicking == AutoSpec => []LoopIsTicking
<1>1. AutoInv => LoopIsTicking
  BY DEF AutoInv
<1> QED BY <1>1, AutoInvariant, PTL

\* The prompt of a loop waits at most once, however often the loop ticks while a turn runs.
THEOREM PromptWaitsOnce == AutoSpec => []PromptsNotStacked
<1>1. AutoInv => PromptsNotStacked
  BY DEF AutoInv
<1> QED BY <1>1, AutoInvariant, PTL

\* A run that stopped on an exhausted plan is started only by the user: no relaunch, no
\* start-up and no tick of its loop spends on it.
THEOREM QuotaIsLeftToTheUser == AutoSpec => QuotaWaitsForUser
<1>1. ASSUME AutoInv, [AutoNext]_startVars, QuotaStop, invokes' > invokes
      PROVE  origin' = "user" \/ asks' > asks
  <2> USE DEF AutoInv
  <2>0. invokes \in Nat
    BY <1>1, RegistryAssumption, AutoTypeParts DEF RegTypeOK
  <2>1. CASE UNCHANGED startVars
    BY <1>1, <2>0, <2>1 DEF startVars
  <2>2. ASSUME NEW i \in Invoke, Plan(i) PROVE FALSE
    BY <1>1, <2>0, <2>2 DEF Plan, Relaunches, QuotaStop
  <2>3. CASE UserStarts
    BY <2>3 DEF UserStarts, Launch
  <2>4. CASE Boot
    BY <1>1, <2>0, <2>4 DEF Boot, GoalWaits
  <2>5. CASE OnTick
    BY <1>1, <2>0, <2>5 DEF OnTick
  <2>6. CASE UserCompletes \/ PauseGoal \/ ResumeGoal \/ ArmLoop \/ StopLoop
    <3>1. asks \in Nat
      BY <1>1, AutoStartAssumption, AutoTypeParts DEF AutoShape
    <3>2. asks' = asks + 1
      BY <2>6 DEF UserCompletes, PauseGoal, ResumeGoal, ArmLoop, StopLoop, Asked
    <3> QED BY <3>1, <3>2
  <2>7. ASSUME NEW i \in Invoke, AutoInvokeStep(i) PROVE invokes' = invokes
    <3>1. CASE InvokeGoesOn(i) \/ TurnBegins(i) \/ StartFails(i) \/ TurnCloses(i)
      BY <3>1 DEF InvokeGoesOn, TurnBegins, StartFails, TurnCloses, WriteStep, Hang, Unhang,
                  FinallyFlushed, FinallyFails, ReleaseSlot, EndTail, Resume, RuntimeRefuses, ResumeThrows, CloseTurn
    <3>2. CASE InvokeEnds(i)
      BY <3>2 DEF InvokeEnds, EndTurn, Stop, StopCancelled
    <3>3. CASE ApplyPrompt(i) \/ AgentCompletes(i) \/ AgentResumes(i) \/ ProposeGoal(i)
      BY <3>3 DEF ApplyPrompt, AgentCompletes, CompleteGoal, AgentResumes, ProposeGoal, regVars
    <3> QED BY <2>7, <3>1, <3>2, <3>3 DEF AutoInvokeStep
  <2>8. CASE CancelRun \/ OthersGoOn \/ ProcessDies
    <3>1. CancelRun => invokes' = invokes
      BY DEF CancelRun, Cancel
    <3>2. OthersGoOn => invokes' = invokes
      BY DEF OthersGoOn, ForceFinish, StatusLands, SweepFindsOrphan, SweepWrites,
             DeleteBegins, DeleteDrained, DeleteMoves
    <3>3. ProcessDies => invokes' = invokes
      BY DEF ProcessDies, Crash
    <3>4. invokes' = invokes
      BY <2>8, <3>1, <3>2, <3>3
    <3> QED BY <1>1, <2>0, <3>4
  <2> QED
    BY <1>1, <2>0, <2>1, <2>2, <2>3, <2>4, <2>5, <2>6, <2>7, <2>8 DEF AutoNext
<1>2. AutoInv /\ [AutoNext]_startVars => [QuotaStop /\ invokes' > invokes => origin' = "user" \/ asks' > asks]_startVars
  BY <1>1
<1> QED
  BY <1>2, AutoInvariant, PTL DEF AutoSpec, QuotaWaitsForUser
=============================================================================
