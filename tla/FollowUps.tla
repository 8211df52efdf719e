----------------------------- MODULE FollowUps -----------------------------
(***************************************************************************)
(* The follow-ups a user queues while a run works: the in-memory queue of   *)
(* the registry entry (runRegistry.ts), its mirror followups.json           *)
(* (followUpStore.ts), the IPC handlers that change both (ipc/register.ts), *)
(* the loop that takes and applies them (loop.ts) and the message append    *)
(* chain they land through (messageAppendQueue.ts).  Each step of           *)
(* RunRegistry is composed with what it does to the follow-ups.             *)
(*                                                                          *)
(* An apply takes the follow-up from memory at once, but its message        *)
(* reaches messages.jsonl through the chain, and only behind it is the      *)
(* follow-up taken out of followups.json: a crash in between finds it on    *)
(* disk and applies it again, never loses it.  The runs below show where    *)
(* that holds and where another writer of followups.json breaks it.         *)
(*                                                                          *)
(* Deleting the run is left to RunRegistry: here the directory stays.       *)
(***************************************************************************)
EXTENDS RunRegistry, Sequences, FiniteSets

CONSTANTS
    FollowUp,     \* the follow-ups the user may send, each at most once
    Spoken,       \* those said in voice mode: applied together when adjacent
    NoResend,     \* a start that repeats no queued text
    MaxRemoves    \* bound: how often a queued chip is removed

ASSUME FollowUpAssumption ==
    /\ Spoken \subseteq FollowUp
    /\ NoResend \notin FollowUp
    /\ MaxRemoves \in Nat

VARIABLES
    queue,     \* entry.followUps, <<>> without an entry
    ready,     \* the follow-ups promoted by Send now
    file,      \* the ids in followups.json, <<>> without the file
    chain,     \* the append chain of messages.jsonl
    copies,    \* how often each follow-up stands in messages.jsonl
    fate,      \* ghost: what the user was last told of each follow-up
    exposed,   \* ghost: the follow-ups that memory no longer had when it was written over
               \* followups.json (Overwrites), until they are in messages.jsonl
    removes    \* how much of MaxRemoves is used

followVars == <<queue, ready, file, chain, copies, fate, exposed, removes>>
vars == <<regVars, followVars>>

Ids(q) == {q[k] : k \in DOMAIN q}

\* A filter, as a function over the prefixes of q so that it can be proved about.
Without(q, gone) ==
    LET rest[n \in 0 .. Len(q)] ==
            IF n = 0 THEN <<>>
            ELSE IF q[n] \in gone THEN rest[n - 1] ELSE Append(rest[n - 1], q[n])
    IN rest[Len(q)]

Job == [kind : {"append", "rewrite"}, ids : SUBSET FollowUp]
Fate == {"unsent", "acked", "applied", "removed", "cancelled", "dropped", "resent"}

\* The user was told that the follow-up will not come: these are final.
Settled == {"removed", "cancelled", "dropped", "resent"}

Distinct(q) == \A j, k \in DOMAIN q : q[j] = q[k] => j = k

TypeOK ==
    /\ RegTypeOK
    /\ queue \in Seq(FollowUp) /\ Distinct(queue)
    /\ file \in Seq(FollowUp) /\ Distinct(file)
    /\ ready \in SUBSET FollowUp
    /\ chain \in Seq(Job)
    /\ copies \in [FollowUp -> 0 .. (1 + MaxCrashes)]
    /\ fate \in [FollowUp -> Fate]
    /\ exposed \in SUBSET FollowUp
    /\ removes \in 0 .. MaxRemoves

Init ==
    /\ RegInit
    /\ queue = <<>> /\ file = <<>> /\ chain = <<>>
    /\ ready = {}
    /\ copies = [f \in FollowUp |-> 0]
    /\ fate = [f \in FollowUp |-> "unsent"]
    /\ exposed = {}
    /\ removes = 0

Tell(ids, what) == fate' = [f \in FollowUp |-> IF f \in ids THEN what ELSE fate[f]]

\* Calling off what is already off changes nothing for the user.
CallOff(ids, what) == Tell({f \in ids : fate[f] \notin Settled}, what)

\* The follow-ups whose message waits in the append chain.
Unappended == UNION {job.ids : job \in {j \in Ids(chain) : j.kind = "append"}}

\* The queue in memory is written over followups.json: what was taken from it and
\* is not in the transcript yet is in no file then, and neither are `others`.
Overwrites(others) == exposed' = exposed \cup Unappended \cup others
----------------------------------------------------------------------------
(* The IPC handlers: each changes the queue and mirrors it in one callback. *)

\* launchRunSync: the persisted queue is seeded into the new entry, less what
\* the message of this start repeats (hydrateRunFollowUps); a start by a goal
\* or a loop seeds all of it.
Launch(repeated) ==
    /\ Register
    /\ repeated \in Ids(file) \cup {NoResend}
    /\ file' = Without(file, {repeated})
    /\ queue' = file'
    /\ IF repeated = NoResend THEN UNCHANGED fate ELSE CallOff({repeated}, "resent")
    /\ UNCHANGED <<ready, chain, copies, exposed, removes>>

\* Mutant: a finishing run takes the follow-up and opens its turn again.
EnqueueReopening(f) ==
    /\ isActive /\ ~slot.aborted
    /\ fate[f] = "unsent"
    /\ slot' = [slot EXCEPT !.turnComplete = FALSE]
    /\ queue' = Append(queue, f)
    /\ file' = queue'
    /\ Tell({f}, "acked")
    /\ UNCHANGED <<invokes, phase, timer, dirVars, jobVars, counts, ready, chain, copies,
                   exposed, removes>>

\* enqueueFollowUp refuses an aborted run and a finishing one.
Enqueue(f) ==
    /\ isActive /\ ~slot.aborted /\ ~slot.turnComplete
    /\ fate[f] = "unsent"
    /\ queue' = Append(queue, f)
    /\ file' = queue'
    /\ Tell({f}, "acked")
    /\ Overwrites({})
    /\ UNCHANGED <<regVars, ready, chain, copies, removes>>

\* removeFollowUp asks only for a run that is not aborted; the queue is mirrored
\* whether the id was found or not.  A chip may be stale: its follow-up may have
\* been applied, or preserved on disk, in the meantime; and in a turn that is over
\* the file may hold what the queue gave up.
Remove(f) ==
    /\ removes < MaxRemoves
    /\ isActive /\ ~slot.aborted
    /\ fate[f] \in {"acked", "applied"}
    /\ queue' = Without(queue, {f})
    /\ file' = queue'
    /\ IF f \in Ids(queue) \/ fate[f] = "acked" THEN CallOff({f}, "removed") ELSE UNCHANGED fate
    /\ Overwrites(IF slot.turnComplete THEN Ids(file) ELSE {})
    /\ removes' = removes + 1
    /\ UNCHANGED <<regVars, ready, chain, copies>>

\* promoteFollowUp: to the front, marked for the next step boundary.
Promote(f) ==
    /\ isActive /\ ~slot.aborted
    /\ f \in Ids(queue)
    /\ queue' = <<f>> \o Without(queue, {f})
    /\ ready' = ready \cup {f}
    /\ file' = queue'
    /\ Overwrites({})
    /\ UNCHANGED <<regVars, chain, copies, fate, removes>>

\* updateFollowUp changes the words of a queued entry and mirrors the queue.
Update(f) ==
    /\ isActive /\ ~slot.aborted
    /\ f \in Ids(queue)
    /\ file' = queue
    /\ Overwrites({})
    /\ UNCHANGED <<regVars, queue, ready, chain, copies, fate, removes>>

\* Mutant: the cancel clears the queue in memory only.
CancelInMemory ==
    /\ Cancel
    /\ queue' = <<>>
    /\ CallOff(Ids(queue) \cup Ids(file), "cancelled")
    /\ UNCHANGED <<ready, file, chain, copies, exposed, removes>>

\* chatCancel: what is queued, in memory or on disk, is the user's to drop.
CancelRun ==
    /\ Cancel
    /\ queue' = <<>>
    /\ file' = <<>>
    /\ CallOff(Ids(queue) \cup Ids(file), "cancelled")
    /\ UNCHANGED <<ready, chain, copies, exposed, removes>>
----------------------------------------------------------------------------
(* The loop.                                                                *)

\* What takeFollowUpsToApply takes: the front, and behind a spoken one the
\* spoken ones that follow it (promoted ones only, in mode ready).
Joins(f, mode) == f \in Spoken /\ (mode = "next" \/ f \in ready)

BatchLength(mode) ==
    CHOOSE n \in 1 .. Len(queue) :
        /\ \A k \in 2 .. n : queue[1] \in Spoken /\ Joins(queue[k], mode)
        /\ n < Len(queue) => ~(queue[1] \in Spoken /\ Joins(queue[n + 1], mode))

\* Mutant: the disk queue is rewritten before the message is appended.
ApplyJobsSwapped(ids) ==
    <<[kind |-> "rewrite", ids |-> ids], [kind |-> "append", ids |-> ids]>>

\* The rewrite of followups.json is queued behind the append of the message.
ApplyJobs(ids) ==
    <<[kind |-> "append", ids |-> ids], [kind |-> "rewrite", ids |-> ids]>>

\* applyDrainedFollowUps, mid-turn for promoted follow-ups, at the turn's end
\* for any.
Apply(i, mode) ==
    /\ phase[i] = "stepping"
    /\ isCurrentInvoke(i)
    /\ queue # <<>>
    /\ mode = "ready" => queue[1] \in ready
    /\ LET n   == BatchLength(mode)
           ids == {queue[k] : k \in 1 .. n}
       IN /\ queue' = SubSeq(queue, n + 1, Len(queue))
          /\ chain' = chain \o ApplyJobs(ids)
          /\ Tell(ids, "applied")
    /\ UNCHANGED <<regVars, ready, file, copies, exposed, removes>>

\* The rewrite drops what was applied from what the file holds by then.
Rewritten(ids) == Without(file, ids)

\* The next job of the append chain is done.
ChainStep ==
    /\ chain # <<>>
    /\ chain' = Tail(chain)
    /\ LET job == Head(chain)
       IN IF job.kind = "append"
          THEN /\ copies' = [f \in FollowUp |-> IF f \in job.ids THEN copies[f] + 1 ELSE copies[f]]
               /\ exposed' = exposed \ job.ids
               /\ UNCHANGED file
          ELSE /\ file' = Rewritten(job.ids)
               /\ UNCHANGED <<copies, exposed>>
    /\ UNCHANGED <<regVars, queue, ready, fate, removes>>

\* dropPendingFollowUps: nothing happens on disk when nothing is queued.
DropPending ==
    /\ queue' = <<>>
    /\ file' = IF queue = <<>> THEN file ELSE <<>>
    /\ CallOff(Ids(queue), "dropped")
    /\ IF queue = <<>> THEN UNCHANGED exposed ELSE Overwrites({})
    /\ UNCHANGED <<ready, chain, copies, removes>>

\* Mutant: the queue is synced after it was cleared.
PreserveCleared ==
    /\ queue' = <<>>
    /\ file' = <<>>
    /\ UNCHANGED <<ready, chain, copies, fate, exposed, removes>>

\* ... { preserveOnDisk: true }: the queue waits on disk for a continue.
PreservePending ==
    /\ queue' = <<>>
    /\ file' = IF queue = <<>> THEN file ELSE queue
    /\ IF queue = <<>> THEN UNCHANGED exposed ELSE Overwrites({})
    /\ UNCHANGED <<ready, chain, copies, fate, removes>>

\* tryBeginRunClosing closes only a turn with nothing queued.
Close(i) == queue = <<>> /\ CloseTurn(i) /\ UNCHANGED followVars

\* After the close: the appends are flushed, the turn is `done`; or they failed.
End(i) == chain = <<>> /\ EndTurn(i, "done") /\ UNCHANGED followVars
EndUnsaved(i) == chain = <<>> /\ EndTurn(i, "error") /\ DropPending

\* The stops that drop the queue, that keep it on disk for a continue (resumable
\* error, spend limit, step ceiling), and the one that leaves it to the finally.
StopDropping(i) == Stop(i, "error") /\ DropPending
StopPreserving(i) == (\E s \in {"done", "error"} : Stop(i, s)) /\ PreservePending
StopLeaving(i) == Stop(i, "error") /\ UNCHANGED followVars

\* clearFollowUps: the cancel handler has cleared the disk already.
StopAborted(i) ==
    /\ StopCancelled(i)
    /\ queue' = <<>>
    /\ UNCHANGED <<ready, file, chain, copies, fate, exposed, removes>>

\* resumeRun threw: the queue is dropped with runDir null, so only in memory.
StartThrows(i) ==
    /\ ResumeThrows(i)
    /\ queue' = <<>>
    /\ CallOff(Ids(queue), "dropped")
    /\ UNCHANGED <<ready, file, chain, copies, exposed, removes>>

\* Mutant: the finally does not wait for the append chain.
FlushStatusOnly(i) == FinallyFlushed(i) /\ UNCHANGED followVars

\* The finally awaits flushMessageAppends before it flushes the status, or fails to.
Flush(i) == chain = <<>> /\ (FinallyFlushed(i) \/ FinallyFails(i)) /\ UNCHANGED followVars

\* The last section of the finally drops what is queued, then frees the slot.
Finish(i) == ReleaseSlot(i) /\ DropPending

\* clearRunAbort deletes the entry with its queue; followups.json stays.
FinishTail(i) ==
    /\ EndTail(i)
    /\ queue' = IF isCurrentInvoke(i) THEN <<>> ELSE queue
    /\ UNCHANGED <<ready, file, chain, copies, fate, exposed, removes>>

\* Memory is gone.  A follow-up that was applied but not yet appended is what
\* it was before: acknowledged, and owed.
Die ==
    /\ Crash
    /\ queue' = <<>>
    /\ chain' = <<>>
    /\ fate' = [f \in FollowUp |->
                  IF fate[f] = "applied" /\ copies[f] = 0 THEN "acked" ELSE fate[f]]
    /\ UNCHANGED <<ready, file, copies, exposed, removes>>

\* The steps of RunRegistry that no follow-up takes part in.
RegistryOnly ==
    /\ \/ ForceFinish \/ StatusLands \/ SweepFindsOrphan \/ SweepWrites
       \/ \E i \in Invoke : RuntimeRefuses(i) \/ Resume(i) \/ WriteStep(i) \/ Hang(i) \/ Unhang(i)
    /\ UNCHANGED followVars

LoopStep(i) ==
    \/ \E mode \in {"ready", "next"} : Apply(i, mode)
    \/ Close(i) \/ End(i) \/ EndUnsaved(i)
    \/ StopDropping(i) \/ StopPreserving(i) \/ StopLeaving(i) \/ StopAborted(i)
    \/ StartThrows(i) \/ Flush(i) \/ Finish(i) \/ FinishTail(i)

Next ==
    \/ \E r \in FollowUp \cup {NoResend} : Launch(r)
    \/ \E f \in FollowUp : Enqueue(f) \/ Remove(f) \/ Promote(f) \/ Update(f)
    \/ CancelRun \/ Die \/ ChainStep \/ RegistryOnly
    \/ \E i \in Invoke : LoopStep(i)

Spec == Init /\ [][Next]_vars

\* An invoke that is not in a hung tool goes on: its awaits settle (provider timeouts bound a
\* step, every turn ends), its flushes return, its appends land; an armed timer fires.
Forward(i) ==
    \/ Resume(i) /\ UNCHANGED followVars
    \/ Apply(i, "next") \/ Close(i) \/ End(i) \/ EndUnsaved(i)
    \/ StopAborted(i) \/ Flush(i) \/ Finish(i) \/ FinishTail(i)

FairSpec ==
    /\ Spec
    /\ \A i \in Invoke : WF_vars(Forward(i))
    /\ WF_vars(ChainStep)
    /\ WF_vars(ForceFinish /\ UNCHANGED followVars)
    /\ WF_vars(StatusLands /\ UNCHANGED followVars)
----------------------------------------------------------------------------
(* What the follow-ups are promised.                                        *)

\* A follow-up the user was told is queued is still somewhere it will be found:
\* in the queue, or in followups.json for the next start, over stops and crashes
\* (applyDrainedFollowUps: "a crash between the disk-queue rewrite and the
\* append-chain flush would otherwise lose the acknowledged follow-up from BOTH
\* stores").  Unless the queue was written over the file while the message of
\* that very follow-up waited in the append chain, or by the removal of a chip
\* after the turn had ended: both lose follow-ups, see README.
AckedFollowUpSurvives ==
    \A f \in FollowUp : fate[f] = "acked" => f \in Ids(queue) \cup Ids(file) \cup exposed

\* What the user was told is off stays off, over restarts and later turns: a
\* cancelled follow-up is not executed by a resume, a removed one does not come
\* back, a dropped one ("queued follow-ups that will never be applied") is not
\* applied, a repeated text is not applied twice.  Until a resumeRun throws,
\* which reports the queue dropped and cannot clear the file.
SettledStaysSettled ==
    [][refusals = 0 => \A f \in FollowUp : fate[f] \in Settled => fate'[f] = fate[f]]_vars

\* An instruction is executed once, unless the process died in between: the
\* queue on disk is behind the transcript only while the append chain runs, and
\* no invoke starts over a running chain.
AppliedOncePerLife ==
    \A f \in FollowUp :
        copies[f] + Cardinality({k \in DOMAIN chain : chain[k].kind = "append" /\ f \in chain[k].ids})
            <= 1 + crashes

\* Every acknowledged follow-up is applied or answered for, or waits on disk for
\* the next start of a run that is over; only a hung tool keeps it waiting.
AckedIsAnswered ==
    \A f \in FollowUp :
        fate[f] = "acked" ~>
            \/ fate[f] # "acked"
            \/ ~isActive /\ f \in Ids(file)
            \/ \E i \in Invoke : phase[i] = "hung"
=============================================================================
