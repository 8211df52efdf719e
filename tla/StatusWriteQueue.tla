--------------------------- MODULE StatusWriteQueue ---------------------------
(***************************************************************************)
(* The status.json writer of one run directory                             *)
(* (src/main/agent/statusWriteQueue.ts) together with the part of          *)
(* deleteRun (src/main/agent/state.ts) that retires the directory.         *)
(*                                                                         *)
(* Every write is an asynchronous read-modify-write of the whole document, *)
(* serialized on the promise chain of the directory's Pending object.      *)
(* Operations start as microtasks: the successor of a finished operation   *)
(* starts before any timer, I/O callback or IPC call can run.  `due` names *)
(* the Pending whose successor has that precedence, and `Quiet` is the     *)
(* guard of everything that needs a turn of the event loop.                *)
(*                                                                         *)
(* Data abstraction: an accepted patch gets a ticket, its position among   *)
(* all accepted patches, and a document or patch maps each key to the      *)
(* ticket that set it (0: the key is absent, or holds its initial value).  *)
(***************************************************************************)
EXTENDS Naturals, Sequences, FiniteSets

CONSTANTS
    Keys,        \* the keys of RunStatus the model tells apart
    StatusKey,   \* RunStatus.status, the key that may be terminal
    ModeKey,     \* RunStatus.mode, whose patches are flushed at once
    Pendings,    \* identities of Pending objects
    MaxRetries,  \* MAX_STATUS_FLUSH_RETRIES
    MaxWrites,   \* bound: accepted patches
    MaxSync,     \* bound: writeStatusImmediate calls
    MaxFaults,   \* bound: status.json writes that fail although the directory exists
    MaxDeletes,  \* bound: deleteRun calls
    MaxChain     \* bound: operations queued on one promise chain

ASSUME KeysAssumption == StatusKey \in Keys /\ ModeKey \in Keys /\ StatusKey # ModeKey
ASSUME PendingsAssumption == Pendings \subseteq Nat \ {0}
ASSUME BoundsAssumption ==
    /\ MaxRetries \in Nat /\ MaxWrites \in Nat /\ MaxSync \in Nat
    /\ MaxFaults \in Nat /\ MaxDeletes \in Nat /\ MaxChain \in Nat

VARIABLES
    pend,       \* Pending id -> its patch, debounce/retry timer and failure count
    chain,      \* Pending id -> operations on its promise chain, the first one running or next
    op,         \* Pending id -> where its running operation stands
    cur,        \* pendingByDir.get(dir), or None
    due,        \* the Pending whose next operation is a queued microtask, or None
    abandoned,  \* abandonedDirs.has(dir)
    deleter,    \* where a deleteRun call stands
    disk,       \* the run directory: whether it exists, and status.json
    latest,     \* key -> ticket of the last accepted patch that set it
    synced,     \* key -> ticket of the last writeStatusImmediate call that set it
    terminal,   \* tickets whose patch set a terminal status
    lifted,     \* whether an immediate write ever took the abandon mark away
    ticket, syncs, faults, deletes  \* how much of each bound is used

vars == <<pend, chain, op, cur, due, abandoned, deleter, disk, latest, synced, terminal,
          lifted, ticket, syncs, faults, deletes>>

None == 0
Tickets == 1..MaxWrites
Patch == [Keys -> 0..MaxWrites]
Empty == [k \in Keys |-> 0]
Stamp(ks, t) == [k \in Keys |-> IF k \in ks THEN t ELSE 0]
Merge(under, over) == [k \in Keys |-> IF over[k] # 0 THEN over[k] ELSE under[k]]
IsTerminalPatch(patch) == patch[StatusKey] \in terminal

PendingRec == [patch : Patch, timer : BOOLEAN, failures : 0..(MaxRetries + 1)]
Fresh == [patch |-> Empty, timer |-> FALSE, failures |-> 0]
OpRec == [kind : {"flush", "drain", "sync"}, patch : Patch]
FlushOp(kind) == [kind |-> kind, patch |-> Empty]
Phase == [at : {"idle", "read", "write"}, patch : Patch, base : Patch, mkdir : BOOLEAN]
Idle == [at |-> "idle", patch |-> Empty, base |-> Empty, mkdir |-> FALSE]

Quiet == due = None /\ deleter # "drained"

-----------------------------------------------------------------------------
(* The Pending object ensurePending returns: the current one, or a new one. *)
Unused(e) == e # cur /\ chain[e] = <<>>
Ensured(e) == IF cur # None THEN e = cur
              ELSE Unused(e) /\ \A other \in Pendings : Unused(other) => e <= other
Contents(e) == IF e = cur THEN pend[e] ELSE Fresh

(* An operation of e ends: the chain moves on and, when it succeeded and    *)
(* left nothing behind, flushDir forgets the Pending object.  `after` is    *)
(* the object as the operation leaves it.                                   *)
Settle(e, after, forget) ==
    /\ chain' = [chain EXCEPT ![e] = Tail(@)]
    /\ op' = [op EXCEPT ![e] = Idle]
    /\ due' = IF Tail(chain[e]) # <<>> THEN e ELSE None
    /\ deleter' = IF Head(chain[e]).kind = "drain" THEN "drained" ELSE deleter
    /\ cur' = IF forget /\ cur = e /\ after.patch = Empty /\ ~after.timer THEN None ELSE cur

(* Mutant: the retry cap also parks terminal patches. *)
WithRetryCappingAll(p) ==
    IF p.timer THEN p
    ELSE [p EXCEPT !.failures = IF @ > MaxRetries THEN @ ELSE @ + 1,
                   !.timer = p.failures + 1 <= MaxRetries]
(* scheduleStatusRetry on a Pending whose patch is not empty.               *)
WithRetry(p) ==
    IF p.timer THEN p
    ELSE IF IsTerminalPatch(p.patch) THEN [p EXCEPT !.timer = TRUE]
    ELSE [p EXCEPT !.failures = IF @ > MaxRetries THEN @ ELSE @ + 1,
                   !.timer = p.failures + 1 <= MaxRetries]

(* Mutant: the failed patch is forgotten. *)
RequeuedDropped(failed, queued) == queued

(* requeueFailedPatch: the failed patch goes back under what is queued.     *)
Requeued(failed, queued) == Merge(failed, queued)

(* The catch of a failed write: requeue, arm a retry, move the chain on.    *)
Fail(e, failed) ==
    IF abandoned
    THEN /\ Settle(e, pend[e], FALSE)
         /\ UNCHANGED pend
    ELSE \E t \in Pendings :
         /\ Ensured(t)
         /\ LET now == Contents(t)
                back == [now EXCEPT !.patch = Requeued(failed, now.patch)]
            IN pend' = [pend EXCEPT ![t] = WithRetry(back)]
         /\ chain' = [chain EXCEPT ![e] = Tail(@)]
         /\ op' = [op EXCEPT ![e] = Idle]
         /\ due' = IF Tail(chain[e]) # <<>> THEN e ELSE None
         /\ deleter' = IF Head(chain[e]).kind = "drain" THEN "drained" ELSE deleter
         /\ cur' = t

-----------------------------------------------------------------------------
Init ==
    /\ pend = [e \in Pendings |-> Fresh]
    /\ chain = [e \in Pendings |-> <<>>]
    /\ op = [e \in Pendings |-> Idle]
    /\ cur = None /\ due = None
    /\ abandoned = FALSE /\ deleter = "none"
    /\ disk = [exists |-> TRUE, doc |-> Empty]
    /\ latest = Empty /\ synced = Empty /\ terminal = {} /\ lifted = FALSE
    /\ ticket = 0 /\ syncs = 0 /\ faults = 0 /\ deletes = 0

(* Accept a patch that sets the keys ks, to a terminal status if term.      *)
Accept(ks, term) ==
    /\ ticket < MaxWrites
    /\ term => StatusKey \in ks
    /\ ticket' = ticket + 1
    /\ latest' = Merge(latest, Stamp(ks, ticket + 1))
    /\ terminal' = IF term THEN terminal \cup {ticket + 1} ELSE terminal

(* enqueueStatusPatch.  A patch for an abandoned directory is dropped.      *)
EnqueueStatusPatch(e, ks, term) ==
    /\ Quiet /\ ~abandoned
    /\ Ensured(e) /\ Len(chain[e]) < MaxChain
    /\ Accept(ks, term)
    /\ LET urgent == term \/ ModeKey \in ks
           merged == Merge(Contents(e).patch, Stamp(ks, ticket + 1))
       IN /\ pend' = [pend EXCEPT ![e] = [patch |-> merged, timer |-> ~urgent,
                                          failures |-> Contents(e).failures]]
          /\ chain' = IF urgent THEN [chain EXCEPT ![e] = Append(@, FlushOp("flush"))]
                      ELSE chain
    /\ cur' = e
    /\ UNCHANGED <<op, due, abandoned, deleter, disk, synced, lifted, syncs, faults, deletes>>

(* Mutant: the pending patch is copied and left behind. *)
WriteStatusImmediateCopying(e, ks, term) ==
    /\ Quiet /\ syncs < MaxSync
    /\ Ensured(e) /\ Len(chain[e]) < MaxChain
    /\ Accept(ks, term)
    /\ pend' = [pend EXCEPT ![e] = Contents(e)]
    /\ chain' = [chain EXCEPT ![e] =
                   Append(@, [kind |-> "sync",
                              patch |-> Merge(Contents(e).patch, Stamp(ks, ticket + 1))])]
    /\ cur' = e /\ abandoned' = FALSE /\ lifted' = (lifted \/ abandoned) /\ syncs' = syncs + 1
    /\ synced' = Merge(synced, Stamp(ks, ticket + 1))
    /\ UNCHANGED <<op, due, deleter, disk, faults, deletes>>

(* writeStatusImmediate up to its await: the patch and everything pending   *)
(* leave the Pending object with the operation.                             *)
WriteStatusImmediate(e, ks, term) ==
    /\ Quiet /\ syncs < MaxSync
    /\ Ensured(e) /\ Len(chain[e]) < MaxChain
    /\ Accept(ks, term)
    /\ pend' = [pend EXCEPT ![e] = [Contents(e) EXCEPT !.patch = Empty, !.timer = FALSE]]
    /\ chain' = [chain EXCEPT ![e] =
                   Append(@, [kind |-> "sync",
                              patch |-> Merge(Contents(e).patch, Stamp(ks, ticket + 1))])]
    /\ cur' = e /\ abandoned' = FALSE /\ lifted' = (lifted \/ abandoned) /\ syncs' = syncs + 1
    /\ synced' = Merge(synced, Stamp(ks, ticket + 1))
    /\ UNCHANGED <<op, due, deleter, disk, faults, deletes>>

(* flushDir up to its await.                                                *)
FlushDir(kind) ==
    /\ cur # None /\ Len(chain[cur]) < MaxChain
    /\ pend' = [pend EXCEPT ![cur].timer = FALSE]
    /\ chain' = [chain EXCEPT ![cur] = Append(@, FlushOp(kind))]
    /\ UNCHANGED <<op, cur, due, abandoned, disk, latest, synced, terminal, ticket, lifted, syncs, faults>>

FlushStatusWrites == Quiet /\ FlushDir("flush") /\ UNCHANGED <<deleter, deletes>>

TimerFires ==
    /\ Quiet /\ cur # None /\ pend[cur].timer
    /\ FlushDir("flush") /\ UNCHANGED <<deleter, deletes>>

-----------------------------------------------------------------------------
(* The operation at the head of a chain starts.                             *)
Ready(e) == /\ chain[e] # <<>> /\ op[e].at = "idle"
            /\ due = e \/ Quiet

(* Mutant: the patch is written but stays pending. *)
BeginFlushCopying(e) ==
    /\ Ready(e) /\ Head(chain[e]).kind # "sync"
    /\ IF pend[e].patch = Empty \/ abandoned
       THEN Settle(e, pend[e], TRUE)
       ELSE /\ op' = [op EXCEPT ![e] = [Idle EXCEPT !.at = "read", !.patch = pend[e].patch]]
            /\ due' = None
            /\ UNCHANGED <<chain, cur, deleter>>
    /\ UNCHANGED <<pend, abandoned, disk, latest, synced, terminal, ticket, lifted, syncs, faults, deletes>>

(* flushOp takes the whole patch, and stops when there is none or the       *)
(* directory was abandoned meanwhile.                                       *)
BeginFlush(e) ==
    /\ Ready(e) /\ Head(chain[e]).kind # "sync"
    /\ pend' = [pend EXCEPT ![e].patch = Empty]
    /\ IF pend[e].patch = Empty \/ abandoned
       THEN Settle(e, pend'[e], TRUE)
       ELSE /\ op' = [op EXCEPT ![e] = [Idle EXCEPT !.at = "read", !.patch = pend[e].patch]]
            /\ due' = None
            /\ UNCHANGED <<chain, cur, deleter>>
    /\ UNCHANGED <<abandoned, disk, latest, synced, terminal, ticket, lifted, syncs, faults, deletes>>

(* Mutant: the mark is not looked at again after the read. *)
StatusReadUnguarded(e) ==
    /\ Quiet /\ op[e].at = "read"
    /\ op' = [op EXCEPT ![e].at = "write", ![e].base = disk.doc, ![e].mkdir = ~disk.exists]
    /\ UNCHANGED <<chain, cur, due, deleter, pend, abandoned, disk, latest, synced,
                   terminal, ticket, lifted, syncs, faults, deletes>>

(* readStatusFile answers; the directory may have been abandoned meanwhile. *)
(* A missing document reads as the fallback, which sets no key.             *)
StatusRead(e) ==
    /\ Quiet /\ op[e].at = "read"
    /\ IF abandoned
       THEN Settle(e, pend[e], TRUE)
       ELSE /\ op' = [op EXCEPT ![e].at = "write", ![e].base = disk.doc,
                                ![e].mkdir = ~disk.exists]
            /\ UNCHANGED <<chain, cur, due, deleter>>
    /\ UNCHANGED <<pend, abandoned, disk, latest, synced, terminal, ticket, lifted, syncs, faults, deletes>>

(* atomicWriteJsonAsync replaces the document.  It creates the directory    *)
(* only when it was missing as the write began.                             *)
StatusWritten(e) ==
    /\ Quiet /\ op[e].at = "write"
    /\ disk.exists \/ op[e].mkdir
    /\ disk' = [exists |-> TRUE, doc |-> Merge(op[e].base, op[e].patch)]
    /\ pend' = [pend EXCEPT ![e].failures = 0]
    /\ Settle(e, pend'[e], TRUE)
    /\ UNCHANGED <<abandoned, latest, synced, terminal, ticket, lifted, syncs, faults, deletes>>

(* A write fails when its directory is gone, and may fail at any time.      *)
Fault(gone) ==
    /\ gone \/ faults < MaxFaults
    /\ faults' = IF gone THEN faults ELSE faults + 1

StatusWriteFails(e) ==
    /\ Quiet /\ op[e].at = "write"
    /\ Fault(~disk.exists /\ ~op[e].mkdir)
    /\ Fail(e, op[e].patch)
    /\ UNCHANGED <<abandoned, disk, latest, synced, terminal, ticket, lifted, syncs, deletes>>

(* writeOp of writeStatusImmediate: read and write in one go, without a     *)
(* look at the abandon mark.                                                *)
SyncWrite(e) ==
    /\ Ready(e) /\ Head(chain[e]).kind = "sync"
    /\ disk' = [exists |-> TRUE, doc |-> Merge(disk.doc, Head(chain[e]).patch)]
    /\ pend' = [pend EXCEPT ![e].failures = 0]
    /\ Settle(e, pend'[e], TRUE)
    /\ UNCHANGED <<abandoned, latest, synced, terminal, ticket, lifted, syncs, faults, deletes>>

SyncWriteFails(e) ==
    /\ Ready(e) /\ Head(chain[e]).kind = "sync"
    /\ Fault(FALSE)
    /\ Fail(e, Head(chain[e]).patch)
    /\ UNCHANGED <<abandoned, disk, latest, synced, terminal, ticket, lifted, syncs, deletes>>

-----------------------------------------------------------------------------
(* deleteRun: drain the writers, abandon the directory, and unless a run    *)
(* came alive meanwhile remove it at once or move it away.                  *)
DeleteRun ==
    /\ Quiet /\ deleter = "none" /\ deletes < MaxDeletes /\ disk.exists
    /\ deletes' = deletes + 1
    /\ IF cur = None
       THEN /\ deleter' = "drained"
            /\ UNCHANGED <<pend, chain, op, cur, due, abandoned, disk, latest, synced, terminal,
                           ticket, lifted, syncs, faults>>
       ELSE FlushDir("drain") /\ deleter' = "drain"

Removed == disk' = [exists |-> FALSE, doc |-> Empty] /\ latest' = Empty /\ synced' = Empty

(* clearStatusWritesForDir and the branch deleteRun takes next.             *)
ClearStatusWrites(mark) ==
    /\ deleter = "drained" /\ due = None
    /\ pend' = IF cur = None THEN pend ELSE [pend EXCEPT ![cur].timer = FALSE]
    /\ cur' = None /\ abandoned' = mark
    /\ UNCHANGED <<chain, op, due, terminal, ticket, lifted, syncs, faults, deletes>>

AllowStatusWrites ==      \* isActive(runId): allowStatusWritesForDir
    ClearStatusWrites(FALSE) /\ deleter' = "none" /\ UNCHANGED <<disk, latest, synced>>

DeletePermanently ==      \* rmSync in the same turn
    ClearStatusWrites(TRUE) /\ deleter' = "none" /\ Removed

BeginMove ==              \* moveRunToDeleted
    ClearStatusWrites(TRUE) /\ deleter' = "moving" /\ UNCHANGED <<disk, latest, synced>>

EndMove(ok) ==
    /\ Quiet /\ deleter = "moving" /\ deleter' = "none"
    /\ IF ok THEN Removed ELSE UNCHANGED <<disk, latest, synced>>
    /\ UNCHANGED <<pend, chain, op, cur, due, abandoned, terminal, ticket, lifted, syncs, faults, deletes>>

-----------------------------------------------------------------------------
Call == \E e \in Pendings, ks \in SUBSET Keys \ {{}}, term \in BOOLEAN :
            EnqueueStatusPatch(e, ks, term) \/ WriteStatusImmediate(e, ks, term)
Begin(e) == BeginFlush(e) \/ SyncWrite(e) \/ SyncWriteFails(e)
Complete(e) == StatusRead(e) \/ StatusWritten(e) \/ StatusWriteFails(e)
Delete == DeleteRun \/ AllowStatusWrites \/ DeletePermanently \/ BeginMove
          \/ \E ok \in BOOLEAN : EndMove(ok)

Next == \/ Call \/ FlushStatusWrites \/ TimerFires \/ Delete
        \/ \E e \in Pendings : Begin(e) \/ Complete(e)

(* Node's event loop runs every microtask, every armed timer and every      *)
(* completed I/O; callers of the queue owe it nothing.                      *)
Fairness ==
    /\ WF_vars(TimerFires)
    /\ \A e \in Pendings : WF_vars(Begin(e)) /\ WF_vars(Complete(e))

Spec == Init /\ [][Next]_vars
FairSpec == Spec /\ Fairness

-----------------------------------------------------------------------------
(* Type correctness of the queue's state.                                   *)
TypeOK ==
    /\ pend \in [Pendings -> PendingRec]
    /\ chain \in [Pendings -> Seq(OpRec)]
    /\ op \in [Pendings -> Phase]
    /\ cur \in Pendings \cup {None} /\ due \in Pendings \cup {None}
    /\ abandoned \in BOOLEAN /\ deleter \in {"none", "drain", "drained", "moving"}
    /\ disk \in [exists : BOOLEAN, doc : Patch]
    /\ latest \in Patch /\ synced \in Patch /\ terminal \subseteq Tickets /\ lifted \in BOOLEAN
    /\ ticket \in 0..MaxWrites /\ syncs \in 0..MaxSync
    /\ faults \in 0..MaxFaults /\ deletes \in 0..MaxDeletes

(* Everything accepted for the directory and not on disk yet: the pending   *)
(* patch, the patches queued operations carry, the one being written.       *)
PendingPatches == IF cur = None THEN {} ELSE {pend[cur].patch}
QueuedPatches == UNION {{chain[e][i].patch : i \in DOMAIN chain[e]} : e \in Pendings}
PatchesBeingWritten == {op[e].patch : e \in Pendings}
Waiting == PendingPatches \cup QueuedPatches \cup PatchesBeingWritten

(* The premise of what the queue itself promises: an immediate write, and a  *)
(* deletion, go past its retries.                                           *)
QueueOnly == syncs = 0 /\ deletes = 0

(* No accepted value is lost: until a newer one replaces it, the last value *)
(* of every key is on disk or still waiting, whatever fails.                *)
NothingLost ==
    QueueOnly => \A k \in Keys : latest[k] # 0 =>
        disk.doc[k] = latest[k] \/ \E p \in Waiting : p[k] = latest[k]

(* What waits is newer than what is on disk, so that no retry or late write *)
(* puts an older value back over a newer one (requeueFailedPatch's "keep    *)
(* the failed patch under whatever was queued since").                      *)
NewestWins ==
    QueueOnly => \A p \in Waiting, k \in Keys : p[k] # 0 => p[k] > disk.doc[k]

(* A run that was deleted does not come back as a status.json-only phantom: *)
(* while the mark stands no flush, retry or timer creates the directory     *)
(* again.  Only an immediate write, which does not look at the mark, may.   *)
(* Once one has taken the mark off (the run id is used again), a flush that *)
(* was begun before may find the directory missing and be overtaken by a    *)
(* second deletion; the promise stops there.                                *)
NoResurrection ==
    [][(deletes <= 1 \/ ~lifted) /\ abandoned /\ abandoned' /\ ~disk.exists /\ disk'.exists
         => \E e \in Pendings : SyncWrite(e)]_vars

(* The immediate write that set k last is still on a chain.                 *)
Coming(k) ==
    \E e \in Pendings : \E i \in DOMAIN chain[e] :
        chain[e][i].kind = "sync" /\ chain[e][i].patch[k] = synced[k]

(* A write through writeStatusImmediate is not reverted: once its value, or  *)
(* a newer one, is on disk no step puts an older one back (renameRun: "the   *)
(* in-flight flush silently reverted the rename"), unless it is an immediate *)
(* write queued before it, which it still follows.  It takes a disk that    *)
(* does not fail and a directory no deletion has touched.                   *)
SyncNotReverted ==
    [][\A k \in Keys : deletes = 0 /\ faults' = 0 /\ disk'.exists /\ disk.doc[k] >= synced[k]
                        => disk'.doc[k] >= synced[k] \/ Coming(k)']_vars

(* A terminal status reaches the disk unless a newer status replaces it: its *)
(* retries are not capped, so no run stays "running" on disk after it ended. *)
TerminalLands ==
    \A t \in Tickets :
        t \in terminal ~> (~QueueOnly \/ disk.doc[StatusKey] >= t \/ latest[StatusKey] > t)
=============================================================================
