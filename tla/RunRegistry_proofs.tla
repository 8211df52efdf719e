------------------------- MODULE RunRegistry_proofs -------------------------
(***************************************************************************)
(* What holds of the run slot for every number of invokes, crashes, sweeps, *)
(* deletions and refused starts.                                            *)
(*                                                                          *)
(* SlotInv = RegTypeOK /\ OneLoopPerRun is inductive as it stands: a start   *)
(* needs a free slot, a free slot means no loop is left, and only the owner *)
(* of the slot can free it.  The others strengthen what a run checks:       *)
(* LandedInv by "a status no loop will still flush is on disk", RunningInv  *)
(* by "no sweep is in flight and a timer belongs to a cancelled entry".      *)
(***************************************************************************)
EXTENDS RunRegistry, WellFoundedInduction, TLAPS

\* Two facts about sets of numbers, for the modules that extend this one: one that is not empty has
\* a least member, and one that holds 0 and every successor has them all.
LEMMA Least ==
    ASSUME NEW T \in SUBSET Nat, T # {}
    PROVE  \E x \in T : \A y \in T : x <= y
<1>1. PICK x \in T : \A y \in T : ~(<<y, x>> \in OpToRel(<, Nat))
  BY WFMin, NatLessThanWellFounded
<1>2. ASSUME NEW y \in T PROVE x <= y
  <2>1. ~(<<y, x>> \in {ss \in Nat \X Nat : ss[1] < ss[2]})
    BY <1>1, Zenon DEF OpToRel
  <2> QED BY <2>1
<1> QED BY <1>2

LEMMA Climb ==
    ASSUME NEW T, 0 \in T, \A n \in Nat : n \in T => n + 1 \in T
    PROVE  \A n \in Nat : n \in T
<1>1. SUFFICES ASSUME Nat \ T # {} PROVE FALSE
  OBVIOUS
<1>2. PICK x \in Nat \ T : \A y \in Nat \ T : x <= y
  BY <1>1, Least
<1>3. x \in Nat /\ x # 0 /\ x - 1 \in Nat /\ x - 1 < x /\ (x - 1) + 1 = x
  OBVIOUS
<1>4. x - 1 \in T
  BY <1>2, <1>3
<1> QED BY <1>2, <1>3, <1>4

SlotInv == RegTypeOK /\ OneLoopPerRun

LEMMA NoEntryType == NoEntry \in Entry \cup {NoEntry} /\ NoEntry \notin Entry
BY RegistryAssumption

USE DEF Invoke, Entry, InLoop, Phase, Status, Terminal, isActive, isCurrentInvoke,
        slotVars, dirVars, jobVars, counts, MoveTo

LEMMA SlotInit == RegInit => SlotInv
<1>1. SUFFICES ASSUME RegInit PROVE RegTypeOK /\ OneLoopPerRun
  BY DEF SlotInv
<1>2. phase \in [Invoke -> Phase]
  BY <1>1 DEF RegInit
<1>3. slot \in Entry \cup {NoEntry}
  <2>1. slot = NoEntry
    BY <1>1 DEF RegInit
  <2> QED BY <2>1, Zenon
<1>4. /\ status \in Status /\ diskStatus \in Status
      /\ deletion \in {"none", "draining", "moving"}
  BY <1>1 DEF RegInit
<1>5. /\ invokes \in 0 .. MaxInvokes
      /\ crashes \in 0 .. MaxCrashes /\ sweeps \in 0 .. MaxSweeps
      /\ deletes \in 0 .. MaxDeletes /\ refusals \in 0 .. MaxRefusals
  BY <1>1, RegistryAssumption DEF RegInit
<1>6. timer \in BOOLEAN /\ sweep \in BOOLEAN /\ present \in BOOLEAN /\ unsaved \in BOOLEAN
  BY <1>1, Zenon DEF RegInit
<1>7. RegTypeOK
  BY <1>2, <1>3, <1>4, <1>5, <1>6, Zenon DEF RegTypeOK
<1> QED
  BY <1>1, <1>7 DEF RegInit, OneLoopPerRun

\* A step of invoke i keeps the types.
LEMMA TypeStep ==
    ASSUME RegTypeOK, [RegNext]_regVars
    PROVE  RegTypeOK'
<1> USE RegistryAssumption DEF RegTypeOK
<1>1. CASE UNCHANGED regVars
  BY <1>1 DEF regVars
<1>2. CASE Register
  <2>1. invokes + 1 \in Invoke
    BY <1>2 DEF Register
  <2> QED BY <1>2, <2>1 DEF Register, NewEntry
<1>3. CASE Cancel
  BY <1>3 DEF Cancel
<1>4. CASE ForceFinish
  BY <1>4 DEF ForceFinish
<1>5. CASE StatusLands
  BY <1>5 DEF StatusLands
<1>6. CASE SweepFindsOrphan
  BY <1>6 DEF SweepFindsOrphan
<1>7. CASE SweepWrites
  BY <1>7 DEF SweepWrites
<1>8. CASE DeleteBegins
  BY <1>8 DEF DeleteBegins
<1>9. CASE DeleteDrained
  <2>1. /\ deletion' \in {"none", "moving"} /\ present' \in {present, FALSE}
        /\ UNCHANGED <<slotVars, status, diskStatus, unsaved, sweep, counts>>
    BY <1>9, Zenon DEF DeleteDrained
  <2>2. present' \in BOOLEAN /\ unsaved' \in BOOLEAN /\ sweep' \in BOOLEAN
    BY <2>1
  <2> QED BY <2>1, <2>2 DEF slotVars, counts
<1>10. CASE DeleteMoves
  BY <1>10 DEF DeleteMoves
<1>11. CASE Crash
  <2>1. phase' \in [Invoke -> Phase]
    BY <1>11 DEF Crash
  <2>2. slot' \in Entry \cup {NoEntry}
    <3>1. slot' = NoEntry
      BY <1>11 DEF Crash
    <3> QED BY <3>1, Zenon
  <2>3. /\ invokes' \in 0 .. MaxInvokes
        /\ timer' \in BOOLEAN /\ sweep' \in BOOLEAN
        /\ present' \in BOOLEAN /\ unsaved' \in BOOLEAN
        /\ status' \in Status /\ diskStatus' \in Status
        /\ deletion' \in {"none", "draining", "moving"}
    BY <1>11 DEF Crash
  <2>4. /\ crashes' \in 0 .. MaxCrashes /\ sweeps' \in 0 .. MaxSweeps
        /\ deletes' \in 0 .. MaxDeletes /\ refusals' \in 0 .. MaxRefusals
    BY <1>11 DEF Crash
  <2> QED BY <2>1, <2>2, <2>3, <2>4, Zenon DEF RegTypeOK
<1>12. ASSUME NEW i \in Invoke, InvokeStep(i)
       PROVE  RegTypeOK'
  <2>0. /\ TurnComplete(i) \in Entry \cup {NoEntry}
        /\ \A s \in Status : StatusFrom(i, s) \in Status
    BY DEF TurnComplete, StatusFrom
  <2>1. CASE RuntimeRefuses(i) BY <2>1 DEF RuntimeRefuses
  <2>2. CASE ResumeThrows(i)
    <3>1. status' \in {status, "running"} /\ unsaved' \in {unsaved, TRUE}
      BY <2>2, Zenon DEF ResumeThrows
    <3>2. status' \in Status
      BY <3>1
    <3>3. unsaved' \in BOOLEAN
      BY <3>1, Zenon
    <3>4. refusals' \in 0 .. MaxRefusals
      BY <2>2 DEF ResumeThrows
    <3> QED BY <2>0, <2>2, <3>2, <3>3, <3>4 DEF ResumeThrows
  <2>3. CASE Resume(i) BY <2>3 DEF Resume
  <2>4. CASE WriteStep(i) BY <2>4 DEF WriteStep
  <2>5. CASE Hang(i) BY <2>5 DEF Hang
  <2>6. CASE Unhang(i) BY <2>6 DEF Unhang
  <2>7. CASE CloseTurn(i) BY <2>0, <2>7 DEF CloseTurn
  <2>8. ASSUME NEW s \in {"done", "error"}, EndTurn(i, s)
        PROVE  RegTypeOK'
    BY <2>0, <2>8 DEF EndTurn
  <2>9. ASSUME NEW s \in Status, Stop(i, s)
        PROVE  RegTypeOK'
    BY <2>0, <2>9 DEF Stop
  <2>10. CASE StopCancelled(i) BY <2>9, <2>10 DEF StopCancelled
  <2>11. CASE FinallyFlushed(i) \/ FinallyFails(i)
    <3>1. /\ MoveTo(i, "flushed") /\ unsaved' \in {unsaved, TRUE}
          /\ UNCHANGED <<slot, invokes, timer, status, diskStatus, present, jobVars, counts>>
      BY <2>11 DEF FinallyFlushed, FinallyFails, dirVars
    <3>2. unsaved' \in BOOLEAN
      BY <3>1
    <3> QED BY <3>1, <3>2
  <2>12. CASE ReleaseSlot(i) BY <2>12 DEF ReleaseSlot, ClearRunAbort
  <2>13. CASE EndTail(i) BY <2>13 DEF EndTail, ClearRunAbort
  <2> QED
    BY <1>12, <2>1, <2>2, <2>3, <2>4, <2>5, <2>6, <2>7, <2>8, <2>9, <2>10,
       <2>11, <2>12, <2>13 DEF InvokeStep
<1> QED
  BY <1>1, <1>2, <1>3, <1>4, <1>5, <1>6, <1>7, <1>8, <1>9, <1>10, <1>11, <1>12
  DEF RegNext, Others

\* A step leaves every other loop as it is, and changes whose slot it is only
\* when no loop is left behind.
LEMMA OneLoopStep ==
    ASSUME SlotInv, [RegNext]_regVars
    PROVE  OneLoopPerRun'
<1> USE RegistryAssumption DEF SlotInv, RegTypeOK, OneLoopPerRun
<1>1. CASE UNCHANGED <<slot, phase>>
  BY <1>1
<1>2. CASE Register
  <2>1. \A j \in Invoke : phase[j] \notin InLoop
    BY <1>2 DEF Register
  <2>2. slot' # NoEntry /\ slot'.invoke = invokes + 1
    <3>1. invokes + 1 \in Invoke
      BY <1>2 DEF Register
    <3>2. NewEntry(invokes + 1) \in Entry
      BY <3>1 DEF NewEntry
    <3> QED BY <1>2, <3>2, NoEntryType DEF Register, NewEntry
  <2>3. \A j \in Invoke : j # invokes + 1 => phase'[j] = phase[j]
    BY <1>2 DEF Register
  <2> QED BY <2>1, <2>2, <2>3
<1>3. CASE Cancel
  BY <1>3 DEF Cancel
<1>4. CASE Crash
  BY <1>4 DEF Crash
<1>5. ASSUME NEW i \in Invoke, InvokeStep(i)
      PROVE  OneLoopPerRun'
  <2>1. CASE phase[i] \in InLoop /\ phase'[i] \in InLoop
               /\ slot' \in {slot, TurnComplete(i)}
               /\ phase' = [phase EXCEPT ![i] = phase'[i]]
    <3>1. isCurrentInvoke(i) /\ \A j \in Invoke : phase'[j] \in InLoop => j = i
      BY <2>1
    <3>2. TurnComplete(i) \in Entry /\ TurnComplete(i).invoke = i
      BY <3>1 DEF TurnComplete
    <3> QED BY <2>1, <3>1, <3>2
  <2>2. CASE phase' = [phase EXCEPT ![i] = phase'[i]] /\ phase'[i] \notin InLoop
               /\ (slot' = slot \/ isCurrentInvoke(i))
    <3>1. ASSUME NEW j \in Invoke, phase'[j] \in InLoop
          PROVE  j # i /\ slot' = slot /\ isCurrentInvoke(j)
      BY <2>2, <3>1
    <3> QED BY <3>1
  <2>3. CASE RuntimeRefuses(i)
    BY <2>2, <2>3 DEF RuntimeRefuses
  <2>4. CASE ReleaseSlot(i) \/ EndTail(i)
    BY <2>2, <2>4 DEF ReleaseSlot, EndTail, ClearRunAbort
  <2>5. CASE ResumeThrows(i)
    BY <2>1, <2>5 DEF ResumeThrows
  <2>6. CASE Resume(i) \/ Hang(i) \/ Unhang(i) \/ FinallyFlushed(i) \/ FinallyFails(i)
    BY <2>1, <2>6 DEF Resume, Hang, Unhang, FinallyFlushed, FinallyFails
  <2>7. CASE CloseTurn(i)
    BY <2>1, <2>7 DEF CloseTurn
  <2>8. ASSUME NEW s \in Status, EndTurn(i, s)
        PROVE  OneLoopPerRun'
    BY <2>1, <2>8 DEF EndTurn
  <2>9. ASSUME NEW s \in Status, Stop(i, s)
        PROVE  OneLoopPerRun'
    BY <2>1, <2>9 DEF Stop
  <2>10. CASE StopCancelled(i)
    BY <2>9, <2>10 DEF StopCancelled
  <2>11. CASE WriteStep(i)
    BY <1>1, <2>11 DEF WriteStep
  <2> QED
    BY <1>5, <2>3, <2>4, <2>5, <2>6, <2>7, <2>8, <2>9, <2>10, <2>11
    DEF InvokeStep
<1>6. CASE Others
  BY <1>1, <1>3, <1>4, <1>6
  DEF Others, ForceFinish, StatusLands, SweepFindsOrphan, SweepWrites,
      DeleteBegins, DeleteDrained, DeleteMoves
<1> QED
  BY <1>1, <1>2, <1>5, <1>6 DEF RegNext, regVars

\* The registry admits one loop of a run at a time: no two finally blocks ever
\* overlap in one run directory, over any number of starts, cancels, frozen
\* tools, deletions and crashes.
THEOREM OneLoop == RegSpec => [](RegTypeOK /\ OneLoopPerRun)
<1>1. RegInit => SlotInv
  BY SlotInit
<1>2. SlotInv /\ [RegNext]_regVars => SlotInv'
  BY TypeStep, OneLoopStep DEF SlotInv
<1>3. SlotInv => RegTypeOK /\ OneLoopPerRun
  BY DEF SlotInv
<1> QED
  BY <1>1, <1>2, <1>3, PTL DEF RegSpec

----------------------------------------------------------------------------
(* The outcome of a released run is on disk, unless its finally gave up.     *)

\* The phases whose loop has yet to await the status queue.
Unflushed == {"stepping", "hung", "closing", "unwinding"}

LandedInv ==
    /\ SlotInv
    /\ (\A i \in Invoke : phase[i] \notin Unflushed) /\ present /\ ~unsaved
       /\ status \in {"done", "error"}
            => diskStatus = status

LEMMA LandedStep ==
    ASSUME LandedInv, [RegNext]_regVars
    PROVE  LandedInv'
<1>1. SlotInv'
  BY TypeStep, OneLoopStep DEF LandedInv, SlotInv
<1>2. SUFFICES ASSUME \A i \in Invoke : phase'[i] \notin Unflushed,
                      present', ~unsaved', status' \in {"done", "error"}
               PROVE  diskStatus' = status'
  BY <1>1 DEF LandedInv
<1> USE DEF Unflushed
<1>3. phase \in [Invoke -> Phase] /\ invokes \in Nat
  BY RegistryAssumption DEF LandedInv, SlotInv, RegTypeOK
<1>4. ASSUME (\A i \in Invoke : phase[i] \notin Unflushed)
             /\ UNCHANGED <<status, diskStatus, unsaved>> /\ (present' => present)
      PROVE  diskStatus' = status'
  BY <1>2, <1>4 DEF LandedInv
<1>5. CASE UNCHANGED regVars
  BY <1>2, <1>4, <1>5 DEF regVars
<1>6. CASE Register
  <2>1. \A i \in Invoke : i # invokes + 1 => phase'[i] = phase[i]
    BY <1>3, <1>6 DEF Register
  <2>2. invokes + 1 \in Invoke /\ phase[invokes + 1] \notin InLoop
    BY <1>3, <1>6, RegistryAssumption DEF Register, LandedInv, SlotInv, OneLoopPerRun
  <2> QED BY <1>2, <1>4, <1>6, <2>1, <2>2 DEF Register
<1>7. ASSUME NEW i \in Invoke, InvokeStep(i)
      PROVE  diskStatus' = status'
  <2>1. CASE phase[i] \notin Unflushed /\ UNCHANGED <<status, diskStatus, present, unsaved>>
             /\ phase' = [phase EXCEPT ![i] = phase'[i]]
    <3>1. \A j \in Invoke : phase[j] \notin Unflushed
      BY <1>2, <1>3, <2>1
    <3> QED BY <1>4, <2>1, <3>1
  <2>2. CASE phase'[i] \in Unflushed
    BY <1>2, <2>2
  <2>3. CASE WriteStep(i)
    BY <1>2, <2>3 DEF WriteStep
  <2>4. CASE FinallyFlushed(i) \/ FinallyFails(i)
    BY <1>2, <2>4 DEF FinallyFlushed, FinallyFails
  \* A resume whose write failed leaves `running` with the queue.
  <2>5. CASE RuntimeRefuses(i) \/ ResumeThrows(i)
    <3>1. UNCHANGED <<status, unsaved>>
      BY <1>2, <2>5 DEF RuntimeRefuses, ResumeThrows
    <3> QED BY <2>1, <1>3, <2>5, <3>1 DEF RuntimeRefuses, ResumeThrows
  <2>6. CASE ReleaseSlot(i) \/ EndTail(i)
    BY <2>1, <1>3, <2>6 DEF ReleaseSlot, EndTail
  <2>7. CASE Resume(i) \/ Hang(i) \/ Unhang(i) \/ CloseTurn(i)
    BY <2>2, <1>3, <2>7 DEF Resume, Hang, Unhang, CloseTurn
  <2>8. ASSUME NEW s \in Status, EndTurn(i, s) \/ Stop(i, s)
        PROVE  diskStatus' = status'
    BY <2>2, <1>3, <2>8 DEF EndTurn, Stop
  <2>9. CASE StopCancelled(i)
    BY <2>8, <2>9 DEF StopCancelled
  <2> QED
    BY <1>7, <2>3, <2>4, <2>5, <2>6, <2>7, <2>8, <2>9 DEF InvokeStep
<1>8. CASE Others
  <2>1. CASE Cancel \/ SweepFindsOrphan \/ DeleteBegins \/ DeleteDrained \/ DeleteMoves
    BY <1>2, <1>4, <2>1
    DEF Cancel, SweepFindsOrphan, DeleteBegins, DeleteDrained, DeleteMoves
  <2>2. CASE ForceFinish
    BY <1>2, <1>4, <2>2 DEF ForceFinish
  <2>3. CASE StatusLands \/ Crash
    BY <2>3 DEF StatusLands, Crash
  <2>4. CASE SweepWrites
    BY <1>2, <1>4, <2>4 DEF SweepWrites
  <2> QED BY <1>8, <2>1, <2>2, <2>3, <2>4 DEF Others
<1> QED
  BY <1>5, <1>6, <1>7, <1>8 DEF RegNext

\* The finally flushes before it releases: a run whose slot is free and whose
\* last turn ended `done` or `error` has that status on disk, so a crash leaves
\* no orphan of it, however starts, cancels, sweeps and crashes interleaved;
\* unless the flush of that finally and its retry both failed.
THEOREM OutcomeIsOnDisk == RegSpec => []ReleasedRunIsOnDisk
<1>1. RegInit => LandedInv
  BY SlotInit DEF RegInit, LandedInv
<1>2. LandedInv /\ [RegNext]_regVars => LandedInv'
  BY LandedStep
<1>3. LandedInv => ReleasedRunIsOnDisk
  BY DEF LandedInv, SlotInv, OneLoopPerRun, Unflushed, ReleasedRunIsOnDisk
<1> QED
  BY <1>1, <1>2, <1>3, PTL DEF RegSpec
----------------------------------------------------------------------------
(* A live run reads as running, as long as no orphan sweep found the run.    *)

RunningInv ==
    /\ SlotInv
    /\ sweeps = 0 => ~sweep
    /\ timer => isActive /\ slot.aborted
    /\ LiveRunReadsRunning

LEMMA RunningStep ==
    ASSUME RunningInv, [RegNext]_regVars
    PROVE  RunningInv'
<1>1. SlotInv'
  BY TypeStep, OneLoopStep DEF RunningInv, SlotInv
<1> USE RegistryAssumption, NoEntryType DEF RunningInv, SlotInv, RegTypeOK, LiveRunReadsRunning
<1>2. CASE UNCHANGED regVars
  BY <1>1, <1>2 DEF regVars
<1>3. CASE Register
  <2>1. \A j \in Invoke : phase[j] \notin InLoop
    BY <1>3 DEF Register, OneLoopPerRun
  <2>2. \A j \in Invoke : phase'[j] \notin {"stepping", "hung", "closing"}
    BY <1>3, <2>1 DEF Register
  <2> QED BY <1>1, <1>3, <2>2 DEF Register
<1>4. CASE Cancel
  <2>1. slot' \in Entry /\ slot'.aborted
    BY <1>4 DEF Cancel
  <2> QED BY <1>1, <1>4, <2>1 DEF Cancel
<1>5. CASE ForceFinish
  BY <1>1, <1>5 DEF ForceFinish
<1>6. CASE SweepFindsOrphan \/ SweepWrites
  <2>1. sweeps' # 0
    BY <1>6 DEF SweepFindsOrphan, SweepWrites
  <2>2. UNCHANGED <<slot, timer>>
    BY <1>6 DEF SweepFindsOrphan, SweepWrites
  <2> QED BY <1>1, <2>1, <2>2
<1>7. CASE StatusLands \/ DeleteBegins \/ DeleteDrained \/ DeleteMoves
  BY <1>1, <1>7 DEF StatusLands, DeleteBegins, DeleteDrained, DeleteMoves
<1>8. CASE Crash
  BY <1>1, <1>8 DEF Crash
<1>9. ASSUME NEW i \in Invoke, InvokeStep(i)
      PROVE  RunningInv'
  \* The abort of an entry outlives the closing of its turn.
  <2>1. /\ TurnComplete(i) # NoEntry <=> isActive
        /\ isActive => TurnComplete(i).aborted = slot.aborted
    BY DEF TurnComplete
  <2>2. CASE RuntimeRefuses(i)
    BY <1>1, <2>2 DEF RuntimeRefuses
  <2>3. CASE ResumeThrows(i)
    BY <1>1, <2>1, <2>3 DEF ResumeThrows
  <2>4. CASE Resume(i) \/ WriteStep(i)
    BY <1>1, <2>4 DEF Resume, WriteStep
  <2>5. CASE Hang(i) \/ Unhang(i)
    BY <1>1, <2>5 DEF Hang, Unhang
  <2>6. CASE CloseTurn(i)
    BY <1>1, <2>1, <2>6 DEF CloseTurn
  \* Only i was in its loop, and it is leaving: nobody is left to read running.
  <2>7. ASSUME NEW s \in Status, EndTurn(i, s) \/ Stop(i, s)
        PROVE  RunningInv'
    <3>1. \A j \in Invoke : phase'[j] \notin {"stepping", "hung", "closing"}
      BY <2>7 DEF EndTurn, Stop, OneLoopPerRun
    <3> QED BY <1>1, <2>1, <2>7, <3>1 DEF EndTurn, Stop
  <2>8. CASE StopCancelled(i)
    BY <2>7, <2>8 DEF StopCancelled
  <2>9. CASE FinallyFlushed(i) \/ FinallyFails(i)
    BY <1>1, <2>9 DEF FinallyFlushed, FinallyFails
  <2>10. CASE ReleaseSlot(i) \/ EndTail(i)
    BY <1>1, <2>10 DEF ReleaseSlot, EndTail, ClearRunAbort
  <2> QED
    BY <1>9, <2>2, <2>3, <2>4, <2>5, <2>6, <2>7, <2>8, <2>9, <2>10 DEF InvokeStep
<1> QED
  BY <1>2, <1>3, <1>4, <1>5, <1>6, <1>7, <1>8, <1>9 DEF RegNext, Others

\* Until an orphan sweep finds the run, a run in its step loop reads as running
\* until it is cancelled: no timer, finally or tail of an earlier invoke reaches
\* it.  The premise is needed: a sweep asks isActive once, before its awaits.
THEOREM LiveRunIsRunning == RegSpec => []LiveRunReadsRunning
<1>1. RegInit => RunningInv
  BY SlotInit DEF RegInit, RunningInv, LiveRunReadsRunning
<1>2. RunningInv /\ [RegNext]_regVars => RunningInv'
  BY RunningStep
<1>3. RunningInv => LiveRunReadsRunning
  BY DEF RunningInv
<1> QED
  BY <1>1, <1>2, <1>3, PTL DEF RegSpec
----------------------------------------------------------------------------
(* A permanent deletion.                                                    *)

\* rmSync runs in the callback that asked isActive, so a directory is never
\* removed under a live run.  The move to the trash awaits in between: run
\* registry_move shows the start that slips in.
THEOREM PermanentDeletionIsSafe ==
    Permanent = TRUE => (RegSpec => []NeverDeletedUnderLiveRun)
<1> SUFFICES ASSUME Permanent = TRUE PROVE RegSpec => []NeverDeletedUnderLiveRun
  OBVIOUS
<1> DEFINE Inv == NeverDeletedUnderLiveRun /\ deletion # "moving"
<1>1. RegInit => Inv
  BY DEF RegInit, NeverDeletedUnderLiveRun
<1>2. ASSUME Inv, [RegNext]_regVars PROVE Inv'
  <2> USE DEF NeverDeletedUnderLiveRun
  <2>1. CASE UNCHANGED regVars
    BY <1>2, <2>1 DEF regVars
  <2>2. CASE Register
    BY <1>2, <2>2 DEF Register
  <2>3. CASE Cancel \/ ForceFinish \/ StatusLands \/ SweepFindsOrphan \/ SweepWrites \/ Crash
    BY <1>2, <2>3
    DEF Cancel, ForceFinish, StatusLands, SweepFindsOrphan, SweepWrites, Crash
  <2>4. CASE DeleteBegins \/ DeleteDrained \/ DeleteMoves
    BY <1>2, <2>4 DEF DeleteBegins, DeleteDrained, DeleteMoves
  <2>5. ASSUME NEW i \in Invoke, InvokeStep(i) PROVE Inv'
    <3>1. slot' \in {slot, NoEntry, TurnComplete(i)} /\ UNCHANGED <<present, deletion>>
      BY <2>5 DEF InvokeStep, RuntimeRefuses, ResumeThrows, Resume, WriteStep, Hang,
         Unhang, CloseTurn, EndTurn, Stop, StopCancelled, FinallyFlushed, FinallyFails,
         ReleaseSlot, EndTail, ClearRunAbort
    <3>2. TurnComplete(i) # slot => isActive
      BY DEF TurnComplete
    <3> QED BY <1>2, <3>1, <3>2
  <2> QED
    BY <1>2, <2>1, <2>2, <2>3, <2>4, <2>5 DEF RegNext, Others
<1>3. Inv => NeverDeletedUnderLiveRun
  OBVIOUS
<1> QED
  BY <1>1, <1>2, <1>3, PTL DEF RegSpec
=============================================================================
