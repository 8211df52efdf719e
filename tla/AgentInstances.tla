--------------------------- MODULE AgentInstances ---------------------------
(***************************************************************************)
(* The instances a task spawns to work beside it: spawn, await, cancel and  *)
(* merge (agentInstances.ts, tools/instanceTools.ts), their runs from the   *)
(* parent's point of view (startAgentRun.ts, runRegistry.ts), the checkout  *)
(* each isolated one works in (git/instanceWorktree.ts), and what a restart *)
(* does to all of them (state.ts, index.ts).  One task, its children, one   *)
(* workspace.                                                              *)
(*                                                                         *)
(* Every git operation waits its turn in the mutex of the workspace, a     *)
(* promise chain: `gitq` is that chain, and GitStep runs its head whole.    *)
(*                                                                         *)
(* The life of one run between its slot and its status.json is RunRegistry;*)
(* here a child begins, ends with its outcome on disk, gives the slot back  *)
(* and is finished by the tail of startAgentRun.  A write of status.json    *)
(* does not fail here; the commit of a checkout may.                        *)
(***************************************************************************)
EXTENDS Naturals, Sequences, FiniteSets

CONSTANTS
    Child,        \* the run ids createRunId gives, in their order
    Cap,          \* instanceCap()
    MaxShocks     \* bound: how often the task is stopped, the process dies or
                  \* a workspace is opened, in all

ASSUME ChildAssumption == IsFiniteSet(Child) /\ Child \subseteq Nat
ASSUME CapAssumption == Cap \in Nat
ASSUME BoundAssumption == MaxShocks \in Nat

VARIABLES
    task,      \* the task's status.json: "idle", "running" or "interrupted"
    invoke,    \* its run in this process: "off", "resuming" or "working"
    stopped,   \* its entry is aborted
    todo,      \* the interrupted instances its resume has still to bring back
    spawn,     \* child -> where spawnAgentInstance stands with it
    entry,     \* child -> its entry in the run registry
    armed,     \* child -> its force-finish timer is set
    linked,    \* child -> childToParent, childWorkspace and inlineChildrenByParent hold it
    loop,      \* child -> where its background run stands
    disk,      \* child -> its status.json
    isolated,  \* child -> status.json names a worktree and its branch
    tree,      \* child -> its checkout and the branch of it
    gitq,      \* the mutex of the workspace
    wait,      \* child -> what await_agent_instance waits for, or was told
    taken,     \* ghost: merge_agent_instance answered ok for the child
    late,      \* ghost: the child was brought back after its task was stopped
    died,      \* ghost: the process has died once
    shocks

taskVars  == <<task, invoke, stopped, todo>>
runVars   == <<spawn, entry, armed, linked, loop, disk>>
treeVars  == <<isolated, tree, gitq>>
askVars   == <<wait, taken, late>>
counts    == <<died, shocks>>
vars == <<taskVars, runVars, treeVars, askVars, counts>>

Ended == {"done", "error", "cancelled"}

\* terminalPhaseFromStatus is not null: an interrupted run reads `cancelled`.
Terminal == Ended \cup {"interrupted"}

\* dirty: edits in the checkout that no commit holds; ahead: commits of the
\* instance on its branch that the task has not merged; pending:
\* pendingInstanceWorktrees has the child.  Two ghosts.  lost: a checkout was
\* removed with edits in it, or a branch dropped with commits no one merged;
\* unkept: a commit of the checkout's edits failed.
Tree == [out : BOOLEAN, pending : BOOLEAN, dirty : BOOLEAN, ahead : BOOLEAN,
         lost : BOOLEAN, unkept : BOOLEAN]
NoTree == [out |-> FALSE, pending |-> FALSE, dirty |-> FALSE, ahead |-> FALSE,
           lost |-> FALSE, unkept |-> FALSE]

Job == [op : {"add", "reattach", "finalize", "discard", "merge"}, child : Child]
       \cup [op : {"prune"}, keep : SUBSET Child]

TypeOK ==
    /\ task \in {"idle", "running", "interrupted"}
    /\ invoke \in {"off", "resuming", "working"}
    /\ stopped \in BOOLEAN
    /\ todo \in SUBSET Child
    /\ spawn \in [Child -> {"unused", "adding", "indexing", "over"}]
    /\ entry \in [Child -> {"none", "live", "aborted"}]
    /\ armed \in [Child -> BOOLEAN]
    /\ linked \in [Child -> BOOLEAN]
    /\ loop \in [Child -> {"none", "starting", "working", "hung", "ending", "tail", "finalizing"}]
    /\ disk \in [Child -> {"absent", "running"} \cup Terminal]
    /\ isolated \in [Child -> BOOLEAN]
    /\ tree \in [Child -> Tree]
    /\ gitq \in Seq(Job)
    /\ wait \in [Child -> {"none", "waiting"} \cup Ended]
    /\ taken \in [Child -> BOOLEAN]
    /\ late \in [Child -> BOOLEAN]
    /\ died \in BOOLEAN
    /\ shocks \in 0 .. MaxShocks

Init ==
    /\ task = "idle" /\ invoke = "off" /\ stopped = FALSE /\ todo = {}
    /\ spawn = [c \in Child |-> "unused"]
    /\ entry = [c \in Child |-> "none"]
    /\ armed = [c \in Child |-> FALSE]
    /\ linked = [c \in Child |-> FALSE]
    /\ loop = [c \in Child |-> "none"]
    /\ disk = [c \in Child |-> "absent"]
    /\ isolated = [c \in Child |-> FALSE]
    /\ tree = [c \in Child |-> NoTree]
    /\ gitq = <<>>
    /\ wait = [c \in Child |-> "none"]
    /\ taken = [c \in Child |-> FALSE]
    /\ late = [c \in Child |-> FALSE]
    /\ died = FALSE /\ shocks = 0

\* isActive, and the children that count against the cap (runningInstanceCount)
\* and that a cancel of the task cascades to (getActiveInlineChildRunIds).
Live == {c \in Child : entry[c] # "none"}
Running == {c \in Live : linked[c]}

Shock == shocks < MaxShocks /\ shocks' = shocks + 1

Queue(job) == gitq' = Append(gitq, job)
Reattaching == \E k \in DOMAIN gitq : gitq[k].op = "reattach"
-----------------------------------------------------------------------------
(* spawnAgentInstance.                                                      *)

\* The task works and a tool of it runs.
Acting == invoke = "working" /\ ~stopped

\* tryRegisterRunAbort and registerChildInstance, in one callback with the look
\* at the cap.
Admits(c) ==
    /\ Acting
    /\ spawn[c] = "unused" /\ \A d \in Child : d < c => spawn[d] # "unused"
    /\ Cardinality(Running) < Cap

RegisterChild(c) ==
    /\ entry' = [entry EXCEPT ![c] = "live"]
    /\ linked' = [linked EXCEPT ![c] = TRUE]

\* createRun writes `running`, startAgentRunInBackground starts the loop.
Launch(c) ==
    /\ spawn' = [spawn EXCEPT ![c] = "over"]
    /\ disk' = [disk EXCEPT ![c] = "running"]
    /\ loop' = [loop EXCEPT ![c] = "starting"]

\* A refused spawn takes back what it registered.
Refuse(c) ==
    /\ spawn' = [spawn EXCEPT ![c] = "over"]
    /\ entry' = [entry EXCEPT ![c] = "none"]
    /\ armed' = [armed EXCEPT ![c] = FALSE]
    /\ linked' = [linked EXCEPT ![c] = FALSE]

\* A read-only child, and one with isolation `shared`, awaits nothing.
SpawnShared(c) ==
    /\ Admits(c)
    /\ RegisterChild(c)
    /\ Launch(c)
    /\ UNCHANGED <<taskVars, armed, treeVars, askVars, counts>>

\* Mutant: the child is registered under its task once its worktree is there.
SpawnIsolatedUnlinked(c) ==
    /\ Admits(c)
    /\ entry' = [entry EXCEPT ![c] = "live"]
    /\ spawn' = [spawn EXCEPT ![c] = "adding"]
    /\ Queue([op |-> "add", child |-> c])
    /\ UNCHANGED <<taskVars, linked, armed, loop, disk, isolated, tree, askVars, counts>>

SpawnIsolated(c) ==
    /\ Admits(c)
    /\ RegisterChild(c)
    /\ spawn' = [spawn EXCEPT ![c] = "adding"]
    /\ Queue([op |-> "add", child |-> c])
    /\ UNCHANGED <<taskVars, armed, loop, disk, isolated, tree, askVars, counts>>

\* addInstanceWorktree: the checkout stands and its index is being copied; or
\* there is none, and the child works in the shared workspace or not at all.
Added(c) ==
    \/ /\ tree' = [tree EXCEPT ![c].out = TRUE, ![c].pending = TRUE]
       /\ spawn' = [spawn EXCEPT ![c] = "indexing"]
       /\ UNCHANGED <<taskVars, entry, armed, linked, loop, disk, isolated, askVars, counts>>
    \/ Launch(c) /\ UNCHANGED <<taskVars, entry, armed, linked, isolated, tree, askVars, counts>>
    \/ Refuse(c) /\ UNCHANGED <<taskVars, loop, disk, isolated, tree, askVars, counts>>

\* After copyWorkspaceIndexesForInstance.
SpawnGoesOn(c) ==
    /\ spawn[c] = "indexing"
    /\ Launch(c)
    /\ isolated' = [isolated EXCEPT ![c] = TRUE]
    /\ UNCHANGED <<taskVars, entry, armed, linked, tree, gitq, askVars, counts>>

\* createRun throws: the checkout goes with its branch.
CreateRunThrows(c) ==
    /\ spawn[c] = "indexing"
    /\ Refuse(c)
    /\ Queue([op |-> "discard", child |-> c])
    /\ UNCHANGED <<taskVars, loop, disk, isolated, tree, askVars, counts>>
-----------------------------------------------------------------------------
(* The run of a child.                                                      *)

MoveTo(c, where) == loop' = [loop EXCEPT ![c] = where]

\* runAgent: resumeRun, or the status createRun wrote.
ChildBegins(c) ==
    /\ loop[c] = "starting"
    /\ disk' = [disk EXCEPT ![c] = "running"]
    /\ MoveTo(c, "working")
    /\ UNCHANGED <<taskVars, spawn, entry, armed, linked, treeVars, askVars, counts>>

\* It throws before the loop begins: nothing is written, the slot is still held.
ChildStartThrows(c) ==
    /\ loop[c] = "starting"
    /\ MoveTo(c, "tail")
    /\ UNCHANGED <<taskVars, spawn, entry, armed, linked, disk, treeVars, askVars, counts>>

ChildEdits(c) ==
    /\ loop[c] = "working"
    /\ tree[c].out /\ ~tree[c].dirty
    /\ tree' = [tree EXCEPT ![c].dirty = TRUE]
    /\ UNCHANGED <<taskVars, runVars, isolated, gitq, askVars, counts>>

\* A tool that does not see the abort, and its late return.
ChildHangs(c) ==
    /\ loop[c] = "working" /\ entry[c] = "live"
    /\ MoveTo(c, "hung")
    /\ UNCHANGED <<taskVars, spawn, entry, armed, linked, disk, treeVars, askVars, counts>>

ChildReturns(c) ==
    /\ loop[c] = "hung"
    /\ MoveTo(c, "working")
    /\ UNCHANGED <<taskVars, spawn, entry, armed, linked, disk, treeVars, askVars, counts>>

\* The outcome is on disk before the slot is free (ReleasedRunIsOnDisk of
\* RunRegistry).  An aborted loop may have been past its last look at the
\* signal, but not once the force-finish timer has gone off.
ChildEnds(c, s) ==
    /\ loop[c] = "working"
    /\ IF entry[c] = "live" THEN s # "cancelled" ELSE s = "cancelled" \/ disk[c] = "running"
    /\ disk' = [disk EXCEPT ![c] = s]
    /\ MoveTo(c, "ending")
    /\ UNCHANGED <<taskVars, spawn, entry, armed, linked, treeVars, askVars, counts>>

\* clearRunAbort at the end of the loop's finally.
ChildReleases(c) ==
    /\ loop[c] = "ending"
    /\ entry' = [entry EXCEPT ![c] = "none"]
    /\ armed' = [armed EXCEPT ![c] = FALSE]
    /\ MoveTo(c, "tail")
    /\ UNCHANGED <<taskVars, spawn, linked, disk, treeVars, askVars, counts>>

\* terminalStatus, or what status.json says, or `error`.
Outcome(c) == IF disk[c] \in Ended THEN disk[c] ELSE "error"

\* notifyChildTerminal: nobody is told of a child without a link.
Notify(c, phase) ==
    wait' = IF linked[c] /\ wait[c] = "waiting" THEN [wait EXCEPT ![c] = phase] ELSE wait

\* Mutant: the child is unregistered before its parent is told.
FinishedUnlinked(c) ==
    /\ linked' = [linked EXCEPT ![c] = FALSE]
    /\ entry' = [entry EXCEPT ![c] = "none"]
    /\ armed' = [armed EXCEPT ![c] = FALSE]
    /\ MoveTo(c, "none")
    /\ late' = [late EXCEPT ![c] = FALSE]
    /\ UNCHANGED wait

\* The finally of handleInlineInstanceFinished, and the safety net of the tail.
Finished(c) ==
    /\ Notify(c, Outcome(c))
    /\ linked' = [linked EXCEPT ![c] = FALSE]
    /\ entry' = [entry EXCEPT ![c] = "none"]
    /\ armed' = [armed EXCEPT ![c] = FALSE]
    /\ MoveTo(c, "none")
    /\ late' = [late EXCEPT ![c] = FALSE]

\* handleInlineInstanceFinished, which an isolated child's checkout holds up.
TailFinishes(c) ==
    /\ loop[c] = "tail" /\ ~isolated[c]
    /\ Finished(c)
    /\ UNCHANGED <<taskVars, spawn, disk, treeVars, taken, counts>>

TailFinalizes(c) ==
    /\ loop[c] = "tail" /\ isolated[c]
    /\ MoveTo(c, "finalizing")
    /\ Queue([op |-> "finalize", child |-> c])
    /\ UNCHANGED <<taskVars, spawn, entry, armed, linked, disk, isolated, tree, askVars, counts>>

\* forceFinishCancelledRun.  CANCEL_FORCE_FINISH_MS outlasts all but a hung loop
\* (and a spawn that still waits for its worktree, which has no status yet).
ForceFinish(c) ==
    /\ armed[c]
    /\ loop[c] = "hung" \/ disk[c] = "absent"
    /\ armed' = [armed EXCEPT ![c] = FALSE]
    /\ IF disk[c] = "running"
       THEN disk' = [disk EXCEPT ![c] = "cancelled"] /\ Notify(c, "cancelled")
       ELSE UNCHANGED <<disk, wait>>
    /\ UNCHANGED <<taskVars, spawn, entry, linked, loop, treeVars, taken, late, counts>>
-----------------------------------------------------------------------------
(* What the task and its user do with the children.                         *)

\* waitForChildTerminal: the waiter is registered, then status.json is read.  It
\* answers at once for a child that has ended, or that no process runs; also
\* for one that was just brought back and whose loop has not begun, which still
\* reads `interrupted`.
AnsweredAtOnce(c) == disk[c] \in Terminal \/ (disk[c] = "running" /\ entry[c] = "none")

Await(c) ==
    /\ Acting
    /\ disk[c] # "absent" /\ ~AnsweredAtOnce(c) /\ wait[c] # "waiting"
    /\ wait' = [wait EXCEPT ![c] = "waiting"]
    /\ UNCHANGED <<taskVars, runVars, treeVars, taken, late, counts>>

\* cancelRunCore aborts and arms the timer.
Abort(cs) ==
    /\ entry' = [c \in Child |-> IF c \in cs THEN "aborted" ELSE entry[c]]
    /\ armed' = [c \in Child |-> c \in cs \/ armed[c]]

\* cancel_agent_instance, and the user's own Stop of a child.
CancelChild(c) ==
    /\ c \in Live /\ disk[c] = "running"
    /\ Abort({c})
    /\ UNCHANGED <<taskVars, spawn, linked, loop, disk, treeVars, askVars, counts>>

\* The user stops the task: its waits reject, its children are cancelled.
StopTask ==
    /\ invoke # "off"
    /\ Shock
    /\ stopped' = TRUE
    /\ Abort(Running)
    /\ wait' = [c \in Child |-> IF wait[c] = "waiting" THEN "none" ELSE wait[c]]
    /\ UNCHANGED <<task, invoke, todo, spawn, linked, loop, disk, treeVars, taken, late, died>>

\* merge_agent_instance asks for `done` and a recorded branch, then for the mutex.
Merge(c) ==
    /\ Acting
    /\ disk[c] = "done" /\ isolated[c] /\ ~taken[c]
    /\ [op |-> "merge", child |-> c] \notin {gitq[k] : k \in DOMAIN gitq}
    /\ Queue([op |-> "merge", child |-> c])
    /\ UNCHANGED <<taskVars, runVars, isolated, tree, askVars, counts>>

\* The task starts: a task an app exit interrupted has its instances back first.
TaskStarts ==
    /\ invoke = "off"
    /\ IF task = "interrupted"
       THEN /\ invoke' = "resuming"
            /\ todo' = {c \in Child : disk[c] = "interrupted"}
            /\ UNCHANGED task
       ELSE invoke' = "working" /\ task' = "running" /\ UNCHANGED todo
    /\ UNCHANGED <<stopped, runVars, treeVars, askVars, counts>>

\* The turn is over; a tool it waits for keeps it, unless it was stopped.
TaskEnds ==
    /\ invoke = "working"
    /\ stopped \/ \A c \in Child : wait[c] # "waiting" /\ spawn[c] \notin {"adding", "indexing"}
    /\ invoke' = "off" /\ task' = "idle" /\ stopped' = FALSE
    /\ UNCHANGED <<todo, runVars, treeVars, askVars, counts>>
-----------------------------------------------------------------------------
(* resumeInterruptedInstances: one child after the other, and no look at the *)
(* signal of the task.                                                      *)

BringBack(c) ==
    /\ RegisterChild(c)
    /\ loop' = [loop EXCEPT ![c] = "starting"]
    /\ wait' = [wait EXCEPT ![c] = "none"]
    /\ late' = [late EXCEPT ![c] = stopped]

\* Mutant: the children are brought back side by side.
NextInLineAtOnce(c) == invoke = "resuming" /\ c \in todo

NextInLine(c) == invoke = "resuming" /\ c \in todo /\ ~Reattaching

\* It is active already, or the cap is reached: named in the note, no more.
ResumeSkips(c) ==
    /\ NextInLine(c)
    /\ c \in Live \/ Cardinality(Running) >= Cap
    /\ todo' = todo \ {c}
    /\ UNCHANGED <<task, invoke, stopped, runVars, treeVars, askVars, counts>>

ResumeReattaches(c) ==
    /\ NextInLine(c)
    /\ c \notin Live /\ Cardinality(Running) < Cap /\ isolated[c]
    /\ todo' = todo \ {c}
    /\ Queue([op |-> "reattach", child |-> c])
    /\ UNCHANGED <<task, invoke, stopped, runVars, isolated, tree, askVars, counts>>

ResumeShared(c) ==
    /\ NextInLine(c)
    /\ c \notin Live /\ Cardinality(Running) < Cap /\ ~isolated[c]
    /\ todo' = todo \ {c}
    /\ BringBack(c)
    /\ UNCHANGED <<task, invoke, stopped, spawn, armed, disk, treeVars, taken, counts>>

ResumeIsOver ==
    /\ invoke = "resuming" /\ todo = {} /\ ~Reattaching
    /\ invoke' = "working" /\ task' = "running"
    /\ UNCHANGED <<stopped, todo, runVars, treeVars, askVars, counts>>
-----------------------------------------------------------------------------
(* The git operations, each under the mutex.                                *)

\* removeInstanceWorktreeUnlocked: forced, with what is in the checkout.
Removed(t) == [t EXCEPT !.out = FALSE, !.pending = FALSE, !.dirty = FALSE, !.lost = t.lost \/ t.dirty]

\* commitDirtyInstanceWorktree: a git command of it that fails is logged and no more.
Committed(t, ok) ==
    IF ok THEN [t EXCEPT !.dirty = FALSE, !.ahead = t.ahead \/ t.dirty]
          ELSE [t EXCEPT !.unkept = t.unkept \/ t.dirty]

\* deleteInstanceBranchBestEffort, with what is on the branch.
BranchDropped(t) == [t EXCEPT !.ahead = FALSE, !.lost = t.lost \/ t.ahead]

\* Mutant: a prune pass looks at the protected runs alone.
PrunableUnlessKept(c, keep) == c \notin keep /\ tree[c].out

\* pruneStaleInstanceWorktreeDirsUnlocked.
Prunable(c, keep) == c \notin keep /\ ~tree[c].pending /\ tree[c].out

\* Mutant: every child is finalized like a cancelled one.
FinalizedDropping(t, keepBranch, ok) == BranchDropped(Removed(Committed(t, ok)))

\* finalizeInstanceWorktreeUnlocked: commit; remove, whether it was committed or
\* not; and drop the branch of a cancelled child.
Finalized(t, keepBranch, ok) ==
    IF keepBranch THEN Removed(Committed(t, ok))
                  ELSE BranchDropped(Removed(Committed(t, ok)))

Reattached(c) ==
    \/ /\ tree' = [tree EXCEPT ![c] = [Removed(@) EXCEPT !.out = TRUE, !.pending = TRUE]]
       /\ BringBack(c)
       /\ UNCHANGED <<taskVars, spawn, armed, disk, isolated, taken, counts>>
    \/ UNCHANGED <<taskVars, runVars, isolated, tree, askVars, counts>>

\* git merge takes what the branch holds; with nothing on it, it succeeds too.
Merged(c) ==
    \/ /\ taken' = [taken EXCEPT ![c] = TRUE]
       /\ tree' = [tree EXCEPT ![c].ahead = FALSE]
       /\ UNCHANGED <<taskVars, runVars, isolated, wait, late, counts>>
    \/ UNCHANGED <<taskVars, runVars, isolated, tree, askVars, counts>>

GitStep ==
    /\ gitq # <<>>
    /\ gitq' = Tail(gitq)
    /\ LET job == Head(gitq)
       IN \/ job.op = "add" /\ Added(job.child)
          \/ job.op = "reattach" /\ Reattached(job.child)
          \/ job.op = "merge" /\ Merged(job.child)
          \/ /\ job.op = "finalize"
             /\ \E ok \in BOOLEAN :
                  tree' = [tree EXCEPT ![job.child] =
                             Finalized(@, Outcome(job.child) # "cancelled", ok)]
             /\ Finished(job.child)
             /\ UNCHANGED <<taskVars, spawn, disk, isolated, taken, counts>>
          \/ /\ job.op = "discard"
             /\ \E ok \in BOOLEAN : tree' = [tree EXCEPT ![job.child] = Finalized(@, FALSE, ok)]
             /\ UNCHANGED <<taskVars, runVars, isolated, askVars, counts>>
          \/ /\ job.op = "prune"
             /\ tree' = [c \in Child |-> IF Prunable(c, job.keep) THEN Removed(tree[c]) ELSE tree[c]]
             /\ UNCHANGED <<taskVars, runVars, isolated, askVars, counts>>

\* collectProtectedInstanceRunIds and the live runs, read before the mutex.
Protected(d, e) == {c \in Child : d[c] \in {"running", "interrupted"} \/ e[c] # "none"}

\* A workspace is opened, or switched to.
OpenWorkspace ==
    /\ Shock
    /\ Queue([op |-> "prune", keep |-> Protected(disk, entry)])
    /\ UNCHANGED <<taskVars, runVars, isolated, tree, askVars, died>>

\* The process dies and the next one boots: before it takes any request, the
\* orphan sweep marks what was running and commits its edits; the prune follows.
Restart ==
    /\ Shock
    /\ invoke' = "off" /\ stopped' = FALSE /\ todo' = {}
    /\ task' = IF task = "running" THEN "interrupted" ELSE task
    /\ spawn' = [c \in Child |-> IF spawn[c] = "unused" THEN "unused" ELSE "over"]
    /\ entry' = [c \in Child |-> "none"]
    /\ armed' = [c \in Child |-> FALSE]
    /\ linked' = [c \in Child |-> FALSE]
    /\ loop' = [c \in Child |-> "none"]
    /\ wait' = [c \in Child |-> "none"]
    /\ late' = [c \in Child |-> FALSE]
    /\ disk' = [c \in Child |-> IF disk[c] = "running" THEN "interrupted" ELSE disk[c]]
    /\ \E ok \in [Child -> BOOLEAN] :
         tree' = [c \in Child |->
                    LET t == [tree[c] EXCEPT !.pending = FALSE]
                    IN IF disk[c] = "running" /\ isolated[c] THEN Finalized(t, TRUE, ok[c]) ELSE t]
    /\ gitq' = <<[op |-> "prune", keep |-> Protected(disk', entry')]>>
    /\ died' = TRUE
    /\ UNCHANGED <<isolated, taken>>

ChildStep(c) ==
    \/ ChildBegins(c) \/ ChildStartThrows(c) \/ ChildEdits(c)
    \/ ChildHangs(c) \/ ChildReturns(c)
    \/ \E s \in Ended : ChildEnds(c, s)
    \/ ChildReleases(c) \/ TailFinishes(c) \/ TailFinalizes(c) \/ ForceFinish(c)

TaskStep(c) ==
    \/ SpawnShared(c) \/ SpawnIsolated(c) \/ SpawnGoesOn(c) \/ CreateRunThrows(c)
    \/ Await(c) \/ CancelChild(c) \/ Merge(c)
    \/ ResumeSkips(c) \/ ResumeReattaches(c) \/ ResumeShared(c)

Next ==
    \/ \E c \in Child : ChildStep(c) \/ TaskStep(c)
    \/ StopTask \/ TaskStarts \/ TaskEnds \/ ResumeIsOver
    \/ GitStep \/ OpenWorkspace \/ Restart

Spec == Init /\ [][Next]_vars

\* A child that does not hang comes to its end and is finished, the mutex is
\* served, an armed timer goes off.
FairSpec ==
    /\ Spec
    /\ \A c \in Child :
        /\ WF_vars(ChildBegins(c)) /\ WF_vars(\E s \in Ended : ChildEnds(c, s))
        /\ WF_vars(ChildReleases(c)) /\ WF_vars(TailFinishes(c) \/ TailFinalizes(c))
        /\ WF_vars(ForceFinish(c))
    /\ WF_vars(GitStep)
-----------------------------------------------------------------------------
(* What the instances promise.                                              *)

\* Never more instances at once than the setting allows, whatever spawns, ends
\* and comes back after a restart: "spawns in one step cannot both pass the
\* check" (agentInstances.ts), although both then await a worktree.
CapHolds == Cardinality(Live) <= Cap

\* Who stops a task stops its instances, those whose worktree is still being
\* made too.  Only one that its resume brings back after the stop gets past.
StopReachesChildren ==
    stopped => \A c \in Live : entry[c] = "aborted" \/ late[c]

\* What a running instance, or one that waits to be resumed, has edited is in
\* its checkout, on its branch or merged, over restarts, the boot's sweep and
\* prunes; and what one did that ended `done` or `error` is too ("an error'd
\* child's committed checkpoint is the only durable copy of its applied edits").
\* Unless git failed to commit the checkout, which is then removed all the same;
\* or the instance had ended when the process died, before its commit.
EditsSurvive ==
    \A c \in Child :
        tree[c].lost => tree[c].unkept \/ disk[c] = "cancelled" \/ (died /\ disk[c] \in Ended)

\* A wait the task began is answered when its child ends, and with the outcome
\* on disk; a hung child answers when it is cancelled.  (A start that throws
\* leaves no outcome on disk: the answer is `error`.)
Answered(c) ==
    \/ wait[c] = disk[c]
    \/ wait[c] = "error" /\ disk[c] \in {"running", "interrupted"}
WaitIsAnswered ==
    \A c \in Child :
        wait[c] = "waiting" ~>
            Answered(c) \/ wait[c] = "none" \/ (loop[c] = "hung" /\ entry[c] = "live")

\* A branch is merged with everything its instance did: "commits dirty worktree
\* edits before remove so merge applies them" (agentInstances.test.ts).
MergeTakesTheEdits ==
    \A c \in Child : taken[c] => ~tree[c].dirty /\ ~tree[c].ahead
=============================================================================
