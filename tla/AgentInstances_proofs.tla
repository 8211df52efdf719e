----------------------- MODULE AgentInstances_proofs -----------------------
(***************************************************************************)
(* What holds of the instances of a task for any number of them, any limit *)
(* and any number of stops, restarts and opened workspaces: the limit, the  *)
(* reach of a stop, and which edits may go with a checkout or a branch.     *)
(*                                                                         *)
(* An instance is brought back in two callbacks: the resume looks at the    *)
(* limit and asks for the mutex, and the git step registers it.  The limit  *)
(* holds across the two because the resume waits for one before it looks at *)
(* the next (Alone), and because nothing else spawns while it works (Fits). *)
(***************************************************************************)
EXTENDS AgentInstances, FiniteSetTheorems, TLAPS

-----------------------------------------------------------------------------
(* The invariant.                                                            *)

\* Whoever holds a slot is linked to the task: Running is Live.
SlotsAreLinked == \A c \in Child : entry[c] # "none" => linked[c]

\* A child no process runs, that a resume may bring back.
Dormant(c) == disk[c] = "interrupted" /\ loop[c] = "none" /\ spawn[c] = "over"

\* A child whose run was never created: there is nothing to resume or to merge.
Stillborn(c) == disk[c] = "absent" /\ loop[c] = "none" /\ spawn[c] = "over"

\* What a job in the mutex may rely on when its turn comes.
Fits(job) ==
    /\ job.op = "add" => spawn[job.child] = "adding"
    /\ job.op = "finalize" => loop[job.child] = "finalizing"
    /\ job.op = "discard" => Stillborn(job.child)
    /\ job.op = "reattach" =>
          /\ invoke = "resuming" /\ Cardinality(Live) < Cap
          /\ entry[job.child] = "none" /\ job.child \notin todo
          /\ Dormant(job.child) /\ isolated[job.child]

Held == {gitq[k] : k \in DOMAIN gitq}
JobsFit == \A job \in Held : Fits(job)

\* Jobs of which the mutex holds at most one.
Rival(a, b) ==
    /\ a.op = b.op
    /\ a.op = "reattach" \/ (a.op \in {"add", "finalize"} /\ a.child = b.child)
Alone == \A j, k \in DOMAIN gitq : Rival(gitq[j], gitq[k]) => j = k

\* The children a resume has still to bring back, and those the next one will.
ResumeInv ==
    /\ \A c \in todo : Dormant(c) /\ invoke = "resuming"
    /\ invoke = "off" /\ task = "interrupted" =>
          \A c \in Child : disk[c] = "interrupted" => Dormant(c)

\* A child that is over for good, and either was cancelled or may have ended when the
\* process died, before the commit of its edits.
Abandoned(c) ==
    /\ disk[c] \in Ended /\ loop[c] = "none" /\ spawn[c] = "over"
    /\ died \/ disk[c] = "cancelled"

AtWork(c) == loop[c] \in {"working", "hung", "ending", "tail", "finalizing"}

\* A child at work has its checkout protected; where there are edits that no
\* commit holds, a child is at work on them or it is given up; and a branch with
\* commits is one of a child that ran.
TreeInv(c) ==
    /\ tree[c].lost => tree[c].unkept \/ Abandoned(c)
    /\ disk[c] = "absent" => ~tree[c].ahead
    /\ tree[c].dirty =>
          /\ tree[c].out /\ spawn[c] = "over"
          /\ \/ Abandoned(c)
             \/ /\ tree[c].pending /\ isolated[c] /\ AtWork(c)
                /\ disk[c] \in {"running"} \cup Ended
    /\ loop[c] # "none" => spawn[c] = "over" /\ (tree[c].out => tree[c].pending /\ isolated[c])
    /\ loop[c] \in {"working", "hung", "ending"} => disk[c] \in {"running"} \cup Ended
    /\ spawn[c] \in {"unused", "adding"} => ~tree[c].out
    /\ spawn[c] = "indexing" => tree[c].out /\ tree[c].pending
    /\ spawn[c] # "over" => disk[c] = "absent" /\ loop[c] = "none"
    /\ disk[c] \in {"running", "interrupted"} /\ ~isolated[c] => ~tree[c].out
TreesInv == \A c \in Child : TreeInv(c)

SlotInv == SlotsAreLinked /\ CapHolds /\ StopReachesChildren
JobInv == JobsFit /\ Alone /\ ResumeInv
IInv == TypeOK /\ SlotInv /\ JobInv /\ TreesInv

-----------------------------------------------------------------------------
(* Sets of slots, and the mutex as a sequence.                               *)

LEMMA LiveIsFinite ==
    ASSUME NEW S \in SUBSET Child
    PROVE  IsFiniteSet(S) /\ Cardinality(S) \in Nat
  BY ChildAssumption, FS_Subset, FS_CardinalityType

LEMMA Shrinks ==
    ASSUME NEW S \in SUBSET Child, NEW T \in SUBSET S
    PROVE  Cardinality(T) <= Cardinality(S)
  BY LiveIsFinite, FS_Subset

LEMMA GrowsByOne ==
    ASSUME NEW S \in SUBSET Child, NEW c \in Child
    PROVE  Cardinality(S \cup {c}) <= Cardinality(S) + 1
  BY LiveIsFinite, FS_AddElement

\* A job joins the end of the mutex.
LEMMA Joins ==
    ASSUME NEW q \in Seq(Job), NEW job \in Job
    PROVE  /\ Append(q, job) \in Seq(Job)
           /\ \A k \in DOMAIN Append(q, job) :
                 \/ k \in DOMAIN q /\ Append(q, job)[k] = q[k]
                 \/ k = Len(q) + 1 /\ Append(q, job)[k] = job
  OBVIOUS

\* The head leaves it.
LEMMA Leaves ==
    ASSUME NEW q \in Seq(Job), q # <<>>
    PROVE  /\ Tail(q) \in Seq(Job) /\ Head(q) \in Job
           /\ 1 \in DOMAIN q /\ Head(q) = q[1]
           /\ \A k \in DOMAIN Tail(q) : k + 1 \in DOMAIN q /\ k + 1 # 1 /\ Tail(q)[k] = q[k + 1]
  OBVIOUS

LEMMA JobShapes ==
    /\ \A c \in Child, o \in {"add", "reattach", "finalize", "discard", "merge"} :
          [op |-> o, child |-> c] \in Job
    /\ \A keep \in SUBSET Child : [op |-> "prune", keep |-> keep] \in Job
    /\ \A job \in Job : \/ job.op \in {"add", "reattach", "finalize", "discard", "merge"} /\ job.child \in Child
                        \/ job.op = "prune" /\ job.keep \in SUBSET Child
  BY DEF Job

-----------------------------------------------------------------------------
(* The steps keep the types.                                                 *)

\* What a checkout is stays what it is when one of its flags is set.
LEMMA TreeFields ==
    ASSUME NEW t \in Tree, NEW b \in BOOLEAN
    PROVE  [t EXCEPT !.dirty = b] \in Tree /\ [t EXCEPT !.pending = b] \in Tree
<1>1. [t EXCEPT !.dirty = b] = [out |-> t.out, pending |-> t.pending, dirty |-> b,
                               ahead |-> t.ahead, lost |-> t.lost, unkept |-> t.unkept]
  BY DEF Tree
<1>2. [t EXCEPT !.pending = b] = [out |-> t.out, pending |-> b, dirty |-> t.dirty,
                                 ahead |-> t.ahead, lost |-> t.lost, unkept |-> t.unkept]
  BY DEF Tree
<1>3. t.out \in BOOLEAN /\ t.pending \in BOOLEAN /\ t.dirty \in BOOLEAN
      /\ t.ahead \in BOOLEAN /\ t.lost \in BOOLEAN /\ t.unkept \in BOOLEAN
  BY DEF Tree
<1> HIDE DEF Tree
<1>4. [t EXCEPT !.dirty = b] \in Tree
  BY ONLY <1>1, <1>3, b \in BOOLEAN DEF Tree
<1>5. [t EXCEPT !.pending = b] \in Tree
  BY ONLY <1>2, <1>3, b \in BOOLEAN DEF Tree
<1> QED BY <1>4, <1>5

LEMMA ChildStepTypes ==
    ASSUME TypeOK, NEW c \in Child, ChildStep(c)
    PROVE  TypeOK'
<1>1. CASE ChildBegins(c)
  BY <1>1 DEF ChildBegins, MoveTo, TypeOK, Terminal, Ended, taskVars, treeVars, askVars, counts
<1>2. CASE ChildStartThrows(c)
  BY <1>2 DEF ChildStartThrows, MoveTo, TypeOK, taskVars, treeVars, askVars, counts
<1>3. CASE ChildEdits(c)
  <2>1. [tree[c] EXCEPT !.dirty = TRUE] \in Tree
    BY TreeFields DEF TypeOK
  <2>2. tree' \in [Child -> Tree]
    BY <1>3, <2>1 DEF ChildEdits, TypeOK
  <2> QED BY <1>3, <2>2 DEF ChildEdits, TypeOK, taskVars, runVars, askVars, counts
<1>4. CASE ChildHangs(c) \/ ChildReturns(c)
  BY <1>4 DEF ChildHangs, ChildReturns, MoveTo, TypeOK, taskVars, treeVars, askVars, counts
<1>5. ASSUME NEW s \in Ended, ChildEnds(c, s) PROVE TypeOK'
  BY <1>5 DEF ChildEnds, MoveTo, TypeOK, Terminal, taskVars, treeVars, askVars, counts
<1>6. CASE ChildReleases(c)
  BY <1>6 DEF ChildReleases, MoveTo, TypeOK, taskVars, treeVars, askVars, counts
<1>7. CASE TailFinishes(c)
  BY <1>7 DEF TailFinishes, Finished, Notify, Outcome, Ended, MoveTo, TypeOK, taskVars, treeVars, counts
<1>8. CASE TailFinalizes(c)
  <2>1. gitq' \in Seq(Job)
    BY <1>8, Joins, JobShapes DEF TailFinalizes, Queue, TypeOK
  <2> QED BY <1>8, <2>1 DEF TailFinalizes, MoveTo, TypeOK, taskVars, askVars, counts
<1>9. CASE ForceFinish(c)
  BY <1>9 DEF ForceFinish, Notify, Ended, Terminal, TypeOK, taskVars, treeVars, counts
<1> QED BY <1>1, <1>2, <1>3, <1>4, <1>5, <1>6, <1>7, <1>8, <1>9 DEF ChildStep

LEMMA TaskStepTypes ==
    ASSUME TypeOK, NEW c \in Child, TaskStep(c)
    PROVE  TypeOK'
<1>1. CASE SpawnShared(c)
  BY <1>1 DEF SpawnShared, RegisterChild, Launch, TypeOK, taskVars, treeVars, askVars, counts
<1>2. CASE SpawnIsolated(c)
  <2>1. gitq' \in Seq(Job)
    BY <1>2, Joins, JobShapes DEF SpawnIsolated, Queue, TypeOK
  <2> QED BY <1>2, <2>1 DEF SpawnIsolated, RegisterChild, TypeOK, taskVars, askVars, counts
<1>3. CASE SpawnGoesOn(c)
  BY <1>3 DEF SpawnGoesOn, Launch, TypeOK, taskVars, askVars, counts
<1>4. CASE CreateRunThrows(c)
  <2>1. gitq' \in Seq(Job)
    BY <1>4, Joins, JobShapes DEF CreateRunThrows, Queue, TypeOK
  <2> QED BY <1>4, <2>1 DEF CreateRunThrows, Refuse, TypeOK, taskVars, askVars, counts
<1>5. CASE Await(c)
  BY <1>5 DEF Await, TypeOK, taskVars, runVars, treeVars, counts
<1>6. CASE CancelChild(c)
  BY <1>6 DEF CancelChild, Abort, TypeOK, taskVars, treeVars, askVars, counts
<1>7. CASE Merge(c)
  <2>1. gitq' \in Seq(Job)
    BY <1>7, Joins, JobShapes DEF Merge, Queue, TypeOK
  <2> QED BY <1>7, <2>1 DEF Merge, TypeOK, taskVars, runVars, askVars, counts
<1>8. CASE ResumeSkips(c)
  BY <1>8 DEF ResumeSkips, TypeOK, runVars, treeVars, askVars, counts
<1>9. CASE ResumeReattaches(c)
  <2>1. gitq' \in Seq(Job)
    BY <1>9, Joins, JobShapes DEF ResumeReattaches, Queue, TypeOK
  <2> QED BY <1>9, <2>1 DEF ResumeReattaches, TypeOK, runVars, askVars, counts
<1>10. CASE ResumeShared(c)
  BY <1>10 DEF ResumeShared, BringBack, RegisterChild, TypeOK, treeVars, counts
<1> QED BY <1>1, <1>2, <1>3, <1>4, <1>5, <1>6, <1>7, <1>8, <1>9, <1>10 DEF TaskStep

\* A removal leaves no checkout, and loses the edits that were in it.
LEMMA RemovedTree ==
    ASSUME NEW t \in Tree
    PROVE  /\ Removed(t) \in Tree /\ ~Removed(t).out /\ ~Removed(t).dirty
           /\ Removed(t).lost => t.lost \/ t.dirty
           /\ Removed(t).ahead = t.ahead /\ Removed(t).unkept = t.unkept
  BY DEF Removed, Tree

LEMMA CommittedTree ==
    ASSUME NEW t \in Tree, NEW ok \in BOOLEAN
    PROVE  /\ Committed(t, ok) \in Tree /\ Committed(t, ok).lost = t.lost
           /\ Committed(t, ok).dirty => t.dirty /\ Committed(t, ok).unkept
           /\ Committed(t, ok).ahead => t.ahead \/ t.dirty
           /\ t.unkept => Committed(t, ok).unkept
  BY DEF Committed, Tree

LEMMA DroppedTree ==
    ASSUME NEW t \in Tree
    PROVE  /\ BranchDropped(t) \in Tree /\ ~BranchDropped(t).ahead
           /\ BranchDropped(t).out = t.out /\ BranchDropped(t).dirty = t.dirty
           /\ BranchDropped(t).unkept = t.unkept
           /\ BranchDropped(t).lost => t.lost \/ t.ahead
  BY DEF BranchDropped, Tree

\* A finalization commits them first: what goes is what git would not commit, and what was
\* on the branch when that is dropped.
LEMMA FinalizedTree ==
    ASSUME NEW t \in Tree, NEW keepBranch \in BOOLEAN, NEW ok \in BOOLEAN
    PROVE  LET f == Finalized(t, keepBranch, ok)
           IN /\ f \in Tree /\ ~f.out /\ ~f.dirty
              /\ t.unkept => f.unkept
              /\ f.ahead => t.ahead \/ t.dirty
              /\ f.lost => t.lost \/ f.unkept \/ (~keepBranch /\ (t.ahead \/ t.dirty))
<1> DEFINE m == Committed(t, ok)
           n == Removed(m)
           f == Finalized(t, keepBranch, ok)
<1>1. /\ m \in Tree /\ m.lost = t.lost /\ (m.dirty => t.dirty /\ m.unkept)
      /\ (m.ahead => t.ahead \/ t.dirty) /\ (t.unkept => m.unkept)
  BY CommittedTree
<1> HIDE DEF m
<1>2. /\ n \in Tree /\ ~n.out /\ ~n.dirty /\ (n.lost => m.lost \/ m.dirty)
      /\ n.ahead = m.ahead /\ n.unkept = m.unkept
  BY <1>1, RemovedTree
<1> HIDE DEF n
<1>3. CASE keepBranch
  <2>1. f = n
    BY <1>3 DEF Finalized, n, m
  <2> HIDE DEF f
  <2> QED BY <1>1, <1>2, <2>1 DEF f
<1>4. CASE ~keepBranch
  <2>1. f = BranchDropped(n)
    BY <1>4 DEF Finalized, n, m
  <2>2. /\ f \in Tree /\ ~f.ahead /\ f.out = n.out /\ f.dirty = n.dirty /\ f.unkept = n.unkept
        /\ (f.lost => n.lost \/ n.ahead)
    BY <1>2, <2>1, DroppedTree
  <2> QED BY <1>1, <1>2, <1>4, <2>2
<1> QED BY <1>3, <1>4

\* A checkout is made, edited, merged or no longer protected.
Made(t) == [t EXCEPT !.out = TRUE, !.pending = TRUE]
Edited(t) == [t EXCEPT !.dirty = TRUE]
Taken(t) == [t EXCEPT !.ahead = FALSE]
Unprotected(t) == [t EXCEPT !.pending = FALSE]

LEMMA TreeMarks ==
    ASSUME NEW t \in Tree
    PROVE  /\ Made(t) \in Tree /\ Made(t).out /\ Made(t).pending
           /\ Made(t).dirty = t.dirty /\ Made(t).lost = t.lost
           /\ Made(t).ahead = t.ahead /\ Made(t).unkept = t.unkept
           /\ Edited(t) \in Tree /\ Edited(t).out = t.out
           /\ Edited(t).pending = t.pending /\ Edited(t).lost = t.lost
           /\ Edited(t).ahead = t.ahead /\ Edited(t).unkept = t.unkept
           /\ Taken(t) \in Tree /\ Taken(t).out = t.out /\ Taken(t).pending = t.pending
           /\ Taken(t).dirty = t.dirty /\ Taken(t).lost = t.lost
           /\ ~Taken(t).ahead /\ Taken(t).unkept = t.unkept
           /\ Unprotected(t) \in Tree /\ Unprotected(t).out = t.out
           /\ Unprotected(t).dirty = t.dirty /\ Unprotected(t).lost = t.lost
           /\ Unprotected(t).ahead = t.ahead /\ Unprotected(t).unkept = t.unkept
  BY DEF Tree, Made, Edited, Taken, Unprotected

LEMMA GitTypes ==
    ASSUME TypeOK, GitStep
    PROVE  TypeOK'
<1> DEFINE job == Head(gitq)
<1>1. gitq' \in Seq(Job) /\ job \in Job
  BY Leaves DEF GitStep, TypeOK
<1> HIDE DEF job
<1>2. CASE job.op = "add" /\ Added(job.child)
  <2>1. job.child \in Child
    BY <1>1, <1>2, JobShapes
  <2>2. [tree EXCEPT ![job.child].out = TRUE, ![job.child].pending = TRUE] \in [Child -> Tree]
    <3>1. [tree EXCEPT ![job.child] = Made(@)] \in [Child -> Tree]
      BY <2>1, TreeMarks DEF TypeOK
    <3> QED BY <3>1 DEF Made
  <2> QED BY <1>1, <1>2, <2>1, <2>2
        DEF Added, Launch, Refuse, TypeOK, taskVars, askVars, counts
<1>3. CASE job.op = "reattach" /\ Reattached(job.child)
  <2>1. job.child \in Child
    BY <1>1, <1>3, JobShapes
  <2>2. Removed(tree[job.child]) \in Tree
    BY <2>1, RemovedTree DEF TypeOK
  <2>3. tree' \in [Child -> Tree]
    <3>1. [tree EXCEPT ![job.child] = Made(Removed(@))] \in [Child -> Tree]
      BY <2>1, <2>2, TreeMarks DEF TypeOK
    <3> QED BY <1>3, <3>1 DEF Reattached, Made, TypeOK
  <2>4. CASE BringBack(job.child) /\ UNCHANGED <<taskVars, spawn, armed, disk, isolated, taken, counts>>
    BY <1>1, <2>1, <2>3, <2>4 DEF BringBack, RegisterChild, TypeOK, taskVars, counts
  <2>5. CASE UNCHANGED <<taskVars, runVars, isolated, tree, askVars, counts>>
    BY <1>1, <2>3, <2>5 DEF TypeOK, taskVars, runVars, askVars, counts
  <2> QED BY <1>3, <2>4, <2>5 DEF Reattached
<1>4. CASE job.op = "merge" /\ Merged(job.child)
  <2>1. job.child \in Child
    BY <1>1, <1>4, JobShapes
  <2>2. [tree EXCEPT ![job.child].ahead = FALSE] \in [Child -> Tree]
    <3>1. [tree EXCEPT ![job.child] = Taken(@)] \in [Child -> Tree]
      BY <2>1, TreeMarks DEF TypeOK
    <3> QED BY <3>1 DEF Taken
  <2> QED BY <1>1, <1>4, <2>1, <2>2
        DEF Merged, TypeOK, taskVars, runVars, askVars, counts
<1>5. CASE /\ job.op = "finalize"
           /\ \E ok \in BOOLEAN :
                tree' = [tree EXCEPT ![job.child] =
                           Finalized(@, Outcome(job.child) # "cancelled", ok)]
           /\ Finished(job.child)
           /\ UNCHANGED <<taskVars, spawn, disk, isolated, taken, counts>>
  <2>1. job.child \in Child
    BY <1>1, <1>5, JobShapes
  <2>2. tree' \in [Child -> Tree]
    <3> DEFINE keepBranch == Outcome(job.child) # "cancelled"
    <3>1. PICK ok \in BOOLEAN : tree' = [tree EXCEPT ![job.child] = Finalized(@, keepBranch, ok)]
      BY <1>5
    <3>2. keepBranch \in BOOLEAN
      OBVIOUS
    <3> HIDE DEF keepBranch
    <3>3. Finalized(tree[job.child], keepBranch, ok) \in Tree
      BY <2>1, <3>2, FinalizedTree DEF TypeOK
    <3> QED BY <2>1, <3>1, <3>3 DEF TypeOK
  <2> QED BY <1>1, <1>5, <2>1, <2>2
        DEF Finished, Notify, Outcome, Ended, MoveTo, TypeOK, taskVars, counts
<1>6. CASE /\ job.op = "discard"
           /\ \E ok \in BOOLEAN : tree' = [tree EXCEPT ![job.child] = Finalized(@, FALSE, ok)]
           /\ UNCHANGED <<taskVars, runVars, isolated, askVars, counts>>
  <2>1. job.child \in Child
    BY <1>1, <1>6, JobShapes
  <2>2. tree' \in [Child -> Tree]
    <3>1. PICK ok \in BOOLEAN : tree' = [tree EXCEPT ![job.child] = Finalized(@, FALSE, ok)]
      BY <1>6
    <3>2. Finalized(tree[job.child], FALSE, ok) \in Tree
      BY <2>1, FinalizedTree DEF TypeOK
    <3> QED BY <2>1, <3>1, <3>2 DEF TypeOK
  <2> QED BY <1>1, <1>6, <2>2 DEF TypeOK, taskVars, runVars, askVars, counts
<1>7. CASE /\ job.op = "prune"
           /\ tree' = [c \in Child |-> IF Prunable(c, job.keep) THEN Removed(tree[c]) ELSE tree[c]]
           /\ UNCHANGED <<taskVars, runVars, isolated, askVars, counts>>
  <2>1. tree' \in [Child -> Tree]
    BY <1>7, RemovedTree DEF TypeOK
  <2> QED BY <1>1, <1>7, <2>1 DEF TypeOK, taskVars, runVars, askVars, counts
<1> QED BY <1>2, <1>3, <1>4, <1>5, <1>6, <1>7 DEF GitStep, job

\* What is left of Next.
TaskMoves == StopTask \/ TaskStarts \/ TaskEnds \/ ResumeIsOver

LEMMA RestartTypes ==
    ASSUME TypeOK, Restart
    PROVE  TypeOK'
<1>1. disk' \in [Child -> {"absent", "running"} \cup Terminal]
  BY DEF Restart, TypeOK, Terminal
<1>2. gitq' = <<[op |-> "prune", keep |-> Protected(disk', entry')]>>
  BY DEF Restart
<1>3. Protected(disk', entry') \in SUBSET Child
  BY DEF Protected
<1>4. gitq' \in Seq(Job)
  <2>1. [op |-> "prune", keep |-> Protected(disk', entry')] \in Job
    BY <1>3, JobShapes
  <2> QED BY <1>2, <2>1
<1>5. tree' \in [Child -> Tree]
  <2>1. \A c \in Child : [tree[c] EXCEPT !.pending = FALSE] \in Tree
    BY TreeFields DEF TypeOK
  <2>2. \A t \in Tree : \A ok \in BOOLEAN : Finalized(t, TRUE, ok) \in Tree
    BY CommittedTree, RemovedTree DEF Finalized
  <2>3. PICK ok \in [Child -> BOOLEAN] :
          tree' = [c \in Child |->
                     LET t == [tree[c] EXCEPT !.pending = FALSE]
                     IN IF disk[c] = "running" /\ isolated[c] THEN Finalized(t, TRUE, ok[c]) ELSE t]
    BY DEF Restart
  <2>4. ASSUME NEW c \in Child PROVE tree'[c] \in Tree
    <3> DEFINE t == [tree[c] EXCEPT !.pending = FALSE]
    <3>1. t \in Tree /\ ok[c] \in BOOLEAN
      BY <2>1
    <3>2. tree'[c] = IF disk[c] = "running" /\ isolated[c] THEN Finalized(t, TRUE, ok[c]) ELSE t
      BY <2>3
    <3> HIDE DEF t
    <3> QED BY <2>2, <3>1, <3>2
  <2>5. tree' = [c \in Child |-> tree'[c]]
    BY <2>3
  <2> QED BY <2>4, <2>5
<1>6. shocks' \in 0 .. MaxShocks /\ todo' \in SUBSET Child /\ task' \in {"idle", "running", "interrupted"}
  BY BoundAssumption DEF Restart, Shock, TypeOK
<1>7. spawn' \in [Child -> {"unused", "adding", "indexing", "over"}]
  BY DEF Restart, TypeOK
<1> QED BY <1>1, <1>4, <1>5, <1>6, <1>7 DEF Restart, TypeOK

LEMMA NextTypes == TypeOK /\ [Next]_vars => TypeOK'
<1> SUFFICES ASSUME TypeOK, [Next]_vars PROVE TypeOK'
  OBVIOUS
<1>1. CASE TaskMoves
  <2>1. CASE StopTask
    <3>1. shocks' \in 0 .. MaxShocks
      BY <2>1, BoundAssumption DEF StopTask, Shock, TypeOK
    <3> QED BY <2>1, <3>1 DEF StopTask, Abort, TypeOK, treeVars
  <2>2. CASE TaskStarts \/ TaskEnds \/ ResumeIsOver
    BY <2>2 DEF TaskStarts, TaskEnds, ResumeIsOver, TypeOK, runVars, treeVars, askVars, counts
  <2> QED BY <1>1, <2>1, <2>2 DEF TaskMoves
<1>2. CASE OpenWorkspace
  <2>1. Protected(disk, entry) \in SUBSET Child
    BY DEF Protected
  <2>2. [op |-> "prune", keep |-> Protected(disk, entry)] \in Job
    BY <2>1, JobShapes
  <2>3. gitq' \in Seq(Job)
    BY <1>2, <2>2, Joins DEF OpenWorkspace, Queue, TypeOK
  <2> QED BY <1>2, <2>3, BoundAssumption DEF OpenWorkspace, Shock, TypeOK, taskVars, runVars, askVars
<1>3. CASE UNCHANGED vars
  BY <1>3 DEF vars, TypeOK, taskVars, runVars, treeVars, askVars, counts
<1> QED
  BY <1>1, <1>2, <1>3, ChildStepTypes, TaskStepTypes, GitTypes, RestartTypes DEF Next, TaskMoves

-----------------------------------------------------------------------------
(* The slots: the limit, and the reach of a stop.                            *)

\* No slot is taken, and a live one keeps what makes it stoppable.
NoNewSlot ==
    /\ \A d \in Child : entry'[d] # "none" => entry[d] # "none" /\ linked'[d]
    /\ stopped' => \A d \in Child : entry'[d] # "none" =>
          entry'[d] = "aborted" \/ (stopped /\ entry'[d] = entry[d] /\ late'[d] = late[d])

\* Child c takes a slot.
TakesSlot(c) ==
    /\ \A d \in Child \ {c} : entry'[d] = entry[d] /\ linked'[d] = linked[d] /\ late'[d] = late[d]
    /\ linked'[c] /\ (stopped' => stopped /\ late'[c])

LEMMA NoNewSlotKeeps ==
    ASSUME TypeOK, SlotInv, NoNewSlot
    PROVE  SlotInv' /\ Cardinality(Live') <= Cardinality(Live)
<1>1. Live \in SUBSET Child /\ Live' \in SUBSET Live
  BY DEF Live, NoNewSlot
<1>2. Cardinality(Live') <= Cardinality(Live) /\ Cardinality(Live) \in Nat /\ Cardinality(Live') \in Nat
  BY <1>1, Shrinks, LiveIsFinite
<1>3. CapHolds'
  BY <1>2, CapAssumption DEF CapHolds, SlotInv
<1>4. StopReachesChildren'
  BY DEF StopReachesChildren, NoNewSlot, SlotInv, Live
<1>5. SlotsAreLinked'
  BY DEF SlotsAreLinked, NoNewSlot
<1> QED BY <1>2, <1>3, <1>4, <1>5 DEF SlotInv

LEMMA TakesSlotKeeps ==
    ASSUME TypeOK, SlotInv, NEW c \in Child, TakesSlot(c), Cardinality(Live) < Cap
    PROVE  SlotInv'
<1>1. Live \in SUBSET Child /\ Live' \in SUBSET (Live \cup {c})
  BY DEF Live, TakesSlot
<1>2. Cardinality(Live') <= Cardinality(Live) + 1
  <2>1. Cardinality(Live') <= Cardinality(Live \cup {c})
    BY <1>1, Shrinks
  <2>2. Cardinality(Live \cup {c}) <= Cardinality(Live) + 1
    BY <1>1, GrowsByOne
  <2> QED BY <1>1, <2>1, <2>2, LiveIsFinite
<1>3. CapHolds'
  BY <1>1, <1>2, CapAssumption, LiveIsFinite DEF CapHolds
<1>4. StopReachesChildren'
  BY DEF StopReachesChildren, TakesSlot, SlotInv, Live
<1>5. SlotsAreLinked'
  BY DEF SlotsAreLinked, TakesSlot, SlotInv
<1> QED BY <1>3, <1>4, <1>5 DEF SlotInv

LEMMA RunningIsLive == SlotsAreLinked => Running = Live
  BY DEF SlotsAreLinked, Running, Live

LEMMA ChildStepTakesNone ==
    ASSUME TypeOK, SlotInv, NEW c \in Child, ChildStep(c)
    PROVE  NoNewSlot
<1>1. CASE ChildBegins(c) \/ ChildStartThrows(c) \/ ChildEdits(c) \/ ChildHangs(c) \/ ChildReturns(c)
  BY <1>1 DEF ChildBegins, ChildStartThrows, ChildEdits, ChildHangs, ChildReturns, NoNewSlot,
     SlotInv, SlotsAreLinked, taskVars, runVars, askVars
<1>2. ASSUME NEW s \in Ended, ChildEnds(c, s) PROVE NoNewSlot
  BY <1>2 DEF ChildEnds, NoNewSlot, SlotInv, SlotsAreLinked, taskVars, askVars
<1>3. CASE ChildReleases(c) \/ TailFinalizes(c)
  BY <1>3 DEF ChildReleases, TailFinalizes, NoNewSlot, SlotInv, SlotsAreLinked, TypeOK, taskVars, askVars
<1>4. CASE TailFinishes(c)
  BY <1>4 DEF TailFinishes, Finished, NoNewSlot, SlotInv, SlotsAreLinked, TypeOK, taskVars
<1>5. CASE ForceFinish(c)
  BY <1>5 DEF ForceFinish, NoNewSlot, SlotInv, SlotsAreLinked, taskVars
<1> QED BY <1>1, <1>2, <1>3, <1>4, <1>5 DEF ChildStep

\* Spawns and shared children brought back: the look at the limit and the
\* registration are one callback.
LEMMA TaskStepSlots ==
    ASSUME TypeOK, SlotInv, NEW c \in Child, TaskStep(c)
    PROVE  \/ NoNewSlot
           \/ TakesSlot(c) /\ Cardinality(Live) < Cap /\ (Acting \/ ~Reattaching) /\ gitq' = gitq
           \/ TakesSlot(c) /\ Cardinality(Live) < Cap /\ Acting /\ SpawnIsolated(c)
<1> Running = Live
  BY RunningIsLive DEF SlotInv
<1>1. CASE SpawnShared(c)
  BY <1>1 DEF SpawnShared, Admits, Acting, RegisterChild, TakesSlot, TypeOK, taskVars, treeVars, askVars
<1>2. CASE SpawnIsolated(c)
  BY <1>2 DEF SpawnIsolated, Admits, Acting, RegisterChild, TakesSlot, TypeOK, taskVars, askVars
<1>3. CASE SpawnGoesOn(c) \/ Await(c) \/ Merge(c)
  BY <1>3 DEF SpawnGoesOn, Launch, Await, Merge, NoNewSlot, SlotInv, SlotsAreLinked, taskVars, runVars, askVars
<1>4. CASE CreateRunThrows(c)
  BY <1>4 DEF CreateRunThrows, Refuse, NoNewSlot, SlotInv, SlotsAreLinked, TypeOK, taskVars, askVars
<1>5. CASE CancelChild(c)
  BY <1>5 DEF CancelChild, Abort, Live, NoNewSlot, SlotInv, SlotsAreLinked, TypeOK, taskVars, askVars
<1>6. CASE ResumeSkips(c) \/ ResumeReattaches(c)
  BY <1>6 DEF ResumeSkips, ResumeReattaches, NoNewSlot, SlotInv, SlotsAreLinked, runVars, askVars
<1>7. CASE ResumeShared(c)
  <2>1. TakesSlot(c)
    BY <1>7 DEF ResumeShared, BringBack, RegisterChild, TakesSlot, TypeOK
  <2> QED BY <1>7, <2>1 DEF ResumeShared, NextInLine, treeVars
<1> QED BY <1>1, <1>2, <1>3, <1>4, <1>5, <1>6, <1>7 DEF TaskStep

LEMMA OtherStepsTakeNone ==
    ASSUME TypeOK, SlotInv, TaskMoves \/ OpenWorkspace \/ Restart \/ UNCHANGED vars
    PROVE  NoNewSlot
<1> Running = Live
  BY RunningIsLive DEF SlotInv
<1>1. CASE StopTask
  BY <1>1 DEF StopTask, Abort, Live, NoNewSlot, SlotInv, SlotsAreLinked, TypeOK
<1>2. CASE TaskStarts \/ TaskEnds \/ ResumeIsOver
  BY <1>2 DEF TaskStarts, TaskEnds, ResumeIsOver, NoNewSlot, SlotInv, SlotsAreLinked, runVars, askVars
<1>3. CASE OpenWorkspace \/ UNCHANGED vars
  BY <1>3 DEF OpenWorkspace, vars, NoNewSlot, SlotInv, SlotsAreLinked, taskVars, runVars, askVars
<1>4. CASE Restart
  BY <1>4 DEF Restart, NoNewSlot
<1> QED BY <1>1, <1>2, <1>3, <1>4 DEF TaskMoves

\* Only a reattached child takes a slot under the mutex.
LEMMA GitSlots ==
    ASSUME TypeOK, SlotInv, JobsFit, GitStep
    PROVE  \/ NoNewSlot
           \/ /\ Head(gitq).op = "reattach" /\ Head(gitq).child \in Child
              /\ TakesSlot(Head(gitq).child) /\ Cardinality(Live) < Cap
<1> DEFINE job == Head(gitq)
<1>1. job \in Job /\ Fits(job)
  BY Leaves DEF GitStep, TypeOK, JobsFit, Held
<1> HIDE DEF job
<1>2. CASE job.op = "add" /\ Added(job.child)
  <2>1. job.child \in Child
    BY <1>1, <1>2, JobShapes
  <2> QED BY <1>2, <2>1
        DEF Added, Launch, Refuse, NoNewSlot, SlotInv, SlotsAreLinked, TypeOK, taskVars, askVars
<1>3. CASE job.op = "reattach" /\ BringBack(job.child)
           /\ UNCHANGED <<taskVars, spawn, armed, disk, isolated, taken, counts>>
  <2>1. job.child \in Child
    BY <1>1, <1>3, JobShapes
  <2>2. TakesSlot(job.child)
    BY <1>3, <2>1 DEF BringBack, RegisterChild, TakesSlot, TypeOK, taskVars
  <2> QED BY <1>1, <1>3, <2>1, <2>2 DEF job, Fits
<1>4. CASE UNCHANGED <<taskVars, entry, linked, late>>
  BY <1>4 DEF NoNewSlot, SlotInv, SlotsAreLinked, taskVars
<1>5. CASE job.op = "finalize" /\ Finished(job.child) /\ UNCHANGED taskVars
  <2>1. job.child \in Child
    BY <1>1, <1>5, JobShapes
  <2> QED BY <1>5, <2>1 DEF Finished, NoNewSlot, SlotInv, SlotsAreLinked, TypeOK, taskVars
<1> QED BY <1>2, <1>3, <1>4, <1>5 DEF GitStep, job, Reattached, Merged, runVars, askVars

-----------------------------------------------------------------------------
(* The jobs in the mutex.                                                    *)

StillFit == \A job \in Held : Fits(job)'

\* A step that leaves the instances a resume is to bring back as they are.
LeavesDormant ==
    /\ \A d \in Child : Dormant(d) => Dormant(d)'
    /\ \A d \in Child : disk'[d] = "interrupted" => disk[d] = "interrupted"
    /\ \A d \in Child : isolated[d] => isolated'[d]
    /\ invoke' = invoke /\ task' = task /\ todo' \in SUBSET todo

\* And one that moves no child a job waits for.
Gentle ==
    /\ \A d \in Child : spawn[d] \in {"adding", "over"} => spawn'[d] = spawn[d]
    /\ \A d \in Child : loop[d] = "finalizing" => loop'[d] = "finalizing"
    /\ \A d \in Child : Stillborn(d) => Stillborn(d)'

NoReattach == \A job \in Held : job.op # "reattach"

LEMMA HeldJobs == TypeOK => Held \in SUBSET Job
  BY DEF TypeOK, Held

LEMMA ReattachFits ==
    ASSUME TypeOK, SlotInv, NoNewSlot, LeavesDormant, NEW job \in Job, job.op = "reattach", Fits(job)
    PROVE  Fits(job)'
<1>1. Cardinality(Live') <= Cardinality(Live)
  BY NoNewSlotKeeps
<1>2. Live \in SUBSET Child /\ Live' \in SUBSET Child
  BY DEF Live
<1>3. Cardinality(Live) \in Nat /\ Cardinality(Live') \in Nat
  BY <1>2, LiveIsFinite
<1>4. job.child \in Child
  BY JobShapes
<1>5. Cardinality(Live') < Cap
  BY <1>1, <1>3, CapAssumption DEF Fits
<1>6. entry'[job.child] = "none"
  BY <1>4 DEF Fits, NoNewSlot
<1>7. invoke' = "resuming" /\ job.child \notin todo' /\ Dormant(job.child)' /\ isolated'[job.child]
  BY <1>4 DEF Fits, LeavesDormant
<1> QED BY <1>5, <1>6, <1>7 DEF Fits

LEMMA GentleFits ==
    ASSUME TypeOK, SlotInv, JobsFit, Gentle, NoReattach \/ (NoNewSlot /\ LeavesDormant)
    PROVE  StillFit
<1> SUFFICES ASSUME NEW job \in Held PROVE Fits(job)'
  BY DEF StillFit
<1>1. job \in Job /\ Fits(job)
  BY HeldJobs DEF JobsFit
<1>2. CASE job.op = "reattach"
  BY <1>1, <1>2, ReattachFits DEF NoReattach
<1>3. CASE job.op # "reattach"
  BY <1>1, <1>3, JobShapes DEF Fits, Gentle
<1> QED BY <1>2, <1>3

LEMMA DormantResumes ==
    ASSUME ResumeInv, TypeOK, LeavesDormant
    PROVE  ResumeInv'
  BY DEF ResumeInv, LeavesDormant, TypeOK

LEMMA SameJobs ==
    ASSUME TypeOK, JobsFit, Alone, StillFit, gitq' = gitq
    PROVE  JobsFit' /\ Alone'
  BY DEF JobsFit, StillFit, Alone, Held

LEMMA JobJoins ==
    ASSUME TypeOK, Alone, StillFit, NEW job \in Job, Queue(job), Fits(job)',
           \A other \in Held : ~Rival(other, job)
    PROVE  JobsFit' /\ Alone'
<1>1. \A k \in DOMAIN gitq' : \/ k \in DOMAIN gitq /\ gitq'[k] = gitq[k]
                              \/ k = Len(gitq) + 1 /\ gitq'[k] = job
  BY Joins DEF Queue, TypeOK
<1>2. JobsFit'
  <2> SUFFICES ASSUME NEW new \in Held' PROVE Fits(new)'
    BY DEF JobsFit
  <2>1. new \in Held \/ new = job
    BY <1>1 DEF Held
  <2> QED BY <2>1 DEF StillFit
<1>3. Alone'
  <2> SUFFICES ASSUME NEW j \in DOMAIN gitq', NEW k \in DOMAIN gitq', Rival(gitq'[j], gitq'[k])
               PROVE  j = k
    BY DEF Alone, Rival
  <2>1. CASE j \in DOMAIN gitq /\ k \in DOMAIN gitq /\ gitq'[j] = gitq[j] /\ gitq'[k] = gitq[k]
    BY <2>1 DEF Alone
  <2>2. CASE j \in DOMAIN gitq /\ gitq'[j] = gitq[j] /\ gitq'[k] = job
    BY <2>2 DEF Held
  <2>3. CASE k \in DOMAIN gitq /\ gitq'[k] = gitq[k] /\ gitq'[j] = job
    <3>1. Rival(gitq[k], job)
      BY <2>3 DEF Rival
    <3> QED BY <2>3, <3>1 DEF Held
  <2> QED BY <1>1, <2>1, <2>2, <2>3
<1> QED BY <1>2, <1>3

LEMMA HeadLeaves ==
    ASSUME TypeOK, Alone, gitq # <<>>, gitq' = Tail(gitq),
           \A job \in Held : ~Rival(job, Head(gitq)) => Fits(job)'
    PROVE  JobsFit' /\ Alone'
<1>1. /\ 1 \in DOMAIN gitq /\ Head(gitq) = gitq[1]
      /\ \A k \in DOMAIN gitq' : k + 1 \in DOMAIN gitq /\ k + 1 # 1 /\ gitq'[k] = gitq[k + 1]
  BY Leaves DEF TypeOK
<1>2. JobsFit'
  <2> SUFFICES ASSUME NEW new \in Held' PROVE Fits(new)'
    BY DEF JobsFit
  <2>1. new \in Held /\ ~Rival(new, Head(gitq))
    BY <1>1 DEF Held, Alone
  <2> QED BY <2>1
<1>3. Alone'
  <2> SUFFICES ASSUME NEW j \in DOMAIN gitq', NEW k \in DOMAIN gitq', Rival(gitq'[j], gitq'[k])
               PROVE  j = k
    BY DEF Alone, Rival
  <2>1. DOMAIN gitq' \in SUBSET Nat
    BY Leaves DEF TypeOK
  <2> QED BY <1>1, <2>1 DEF Alone
<1> QED BY <1>2, <1>3

LEMMA NoneHeld ==
    /\ JobsFit /\ invoke # "resuming" => NoReattach
    /\ ~Reattaching => NoReattach
    /\ ResumeInv /\ invoke # "resuming" => todo = {}
<1>1. ~Reattaching => NoReattach
  BY DEF Reattaching, NoReattach, Held
<1>2. JobsFit /\ invoke # "resuming" => NoReattach
  BY DEF JobsFit, NoReattach, Fits
<1> QED BY <1>1, <1>2 DEF ResumeInv

LEMMA ChildStepJobs ==
    ASSUME IInv, NEW c \in Child, ChildStep(c)
    PROVE  JobInv'
<1> USE DEF IInv, JobInv
<1>1. NoNewSlot
  BY ChildStepTakesNone
<1>2. LeavesDormant /\ Gentle
  <2>1. /\ isolated' = isolated /\ invoke' = invoke /\ task' = task /\ todo' = todo /\ spawn' = spawn
    BY DEF ChildStep, ChildBegins, ChildStartThrows, ChildEdits, ChildHangs, ChildReturns, ChildEnds,
       ChildReleases, TailFinishes, TailFinalizes, ForceFinish, taskVars, runVars, treeVars
  <2>2. CASE ForceFinish(c)
    BY <2>1, <2>2 DEF ForceFinish, LeavesDormant, Gentle, Dormant, Stillborn, TypeOK
  <2>3. CASE ~ForceFinish(c)
    <3>1. /\ loop[c] \notin {"none", "finalizing"} /\ disk'[c] \in {disk[c], "running"} \cup Ended
          /\ \A d \in Child \ {c} : loop'[d] = loop[d] /\ disk'[d] = disk[d]
      BY <2>3 DEF ChildStep, ChildBegins, ChildStartThrows, ChildEdits, ChildHangs, ChildReturns, ChildEnds,
         ChildReleases, TailFinishes, Finished, TailFinalizes, MoveTo, TypeOK, runVars
    <3> QED BY <2>1, <3>1 DEF LeavesDormant, Gentle, Dormant, Stillborn, Ended
  <2> QED BY <2>2, <2>3
<1>3. StillFit /\ ResumeInv'
  BY <1>1, <1>2, GentleFits, DormantResumes
<1>4. CASE gitq' = gitq
  BY <1>3, <1>4, SameJobs
<1>5. CASE TailFinalizes(c)
  <2> DEFINE job == [op |-> "finalize", child |-> c]
  <2>1. job \in Job /\ Queue(job) /\ job.op = "finalize" /\ job.child = c
    BY <1>5, JobShapes DEF TailFinalizes
  <2>2. Fits(job)'
    BY <1>5 DEF TailFinalizes, MoveTo, Fits, TypeOK
  <2>3. \A other \in Held : ~Rival(other, job)
    BY <1>5 DEF TailFinalizes, JobsFit, Fits, Rival
  <2> HIDE DEF job
  <2> QED BY <1>3, <2>1, <2>2, <2>3, JobJoins
<1> QED
  BY <1>4, <1>5 DEF ChildStep, ChildBegins, ChildStartThrows, ChildEdits, ChildHangs, ChildReturns, ChildEnds,
     ChildReleases, TailFinishes, ForceFinish, treeVars

LEMMA TaskStepJobs ==
    ASSUME IInv, NEW c \in Child, TaskStep(c)
    PROVE  JobInv'
<1> USE DEF IInv, JobInv
<1> Running = Live
  BY RunningIsLive DEF SlotInv
<1>1. CASE SpawnShared(c)
  <2>1. Gentle /\ NoReattach /\ gitq' = gitq
    BY <1>1, NoneHeld DEF SpawnShared, Admits, Acting, Launch, Gentle, Stillborn, TreesInv, TreeInv,
       TypeOK, treeVars
  <2>2. ResumeInv'
    BY <1>1, NoneHeld DEF SpawnShared, Admits, Acting, ResumeInv, taskVars
  <2> QED BY <2>1, <2>2, GentleFits, SameJobs
<1>2. CASE SpawnIsolated(c)
  <2> DEFINE job == [op |-> "add", child |-> c]
  <2>1. job \in Job /\ Queue(job) /\ job.op = "add" /\ job.child = c
    BY <1>2, JobShapes DEF SpawnIsolated
  <2>2. Gentle /\ NoReattach
    BY <1>2, NoneHeld DEF SpawnIsolated, Admits, Acting, Gentle, Stillborn, TypeOK
  <2>3. ResumeInv'
    BY <1>2, NoneHeld DEF SpawnIsolated, Admits, Acting, ResumeInv, taskVars
  <2>4. Fits(job)'
    BY <1>2 DEF SpawnIsolated, Fits, TypeOK
  <2>5. \A other \in Held : ~Rival(other, job)
    BY <1>2 DEF SpawnIsolated, Admits, JobsFit, Fits, Rival
  <2> HIDE DEF job
  <2> QED BY <2>1, <2>2, <2>3, <2>4, <2>5, GentleFits, JobJoins
<1>3. CASE SpawnGoesOn(c)
  <2>1. NoNewSlot
    BY <1>3 DEF SpawnGoesOn, Launch, NoNewSlot, SlotInv, SlotsAreLinked, taskVars, askVars
  <2>2. LeavesDormant /\ Gentle /\ gitq' = gitq
    BY <1>3 DEF SpawnGoesOn, Launch, LeavesDormant, Gentle, Dormant, Stillborn, TreesInv, TreeInv,
       TypeOK, taskVars
  <2> QED BY <2>1, <2>2, GentleFits, SameJobs, DormantResumes
<1>4. CASE CreateRunThrows(c)
  <2> DEFINE job == [op |-> "discard", child |-> c]
  <2>1. job \in Job /\ Queue(job) /\ job.op = "discard" /\ job.child = c
    BY <1>4, JobShapes DEF CreateRunThrows
  <2>2. NoNewSlot
    BY <1>4 DEF CreateRunThrows, Refuse, NoNewSlot, SlotInv, SlotsAreLinked, TypeOK, taskVars, askVars
  <2>3. LeavesDormant /\ Gentle
    BY <1>4 DEF CreateRunThrows, Refuse, LeavesDormant, Gentle, Dormant, Stillborn, TypeOK, taskVars
  <2>4. Fits(job)' /\ \A other \in Held : ~Rival(other, job)
    BY <1>4, <2>1 DEF CreateRunThrows, Refuse, Fits, Rival, Stillborn, TreesInv, TreeInv, TypeOK
  <2> HIDE DEF job
  <2> QED BY <2>1, <2>2, <2>3, <2>4, GentleFits, JobJoins, DormantResumes
<1>5. CASE Await(c) \/ CancelChild(c) \/ ResumeSkips(c)
  <2>1. NoNewSlot
    BY <1>5 DEF Await, CancelChild, ResumeSkips, Abort, Live, NoNewSlot, SlotInv, SlotsAreLinked,
       TypeOK, taskVars, runVars, askVars
  <2>2. LeavesDormant /\ Gentle /\ gitq' = gitq
    BY <1>5 DEF Await, CancelChild, ResumeSkips, LeavesDormant, Gentle, Dormant, Stillborn, taskVars, runVars, treeVars
  <2> QED BY <2>1, <2>2, GentleFits, SameJobs, DormantResumes
<1>6. CASE Merge(c)
  <2> DEFINE job == [op |-> "merge", child |-> c]
  <2>1. job \in Job /\ Queue(job) /\ job.op = "merge"
    BY <1>6, JobShapes DEF Merge
  <2>2. NoNewSlot
    BY <1>6 DEF Merge, NoNewSlot, SlotInv, SlotsAreLinked, taskVars, runVars, askVars
  <2>3. LeavesDormant /\ Gentle
    BY <1>6 DEF Merge, LeavesDormant, Gentle, Dormant, Stillborn, taskVars, runVars
  <2>4. Fits(job)' /\ \A other \in Held : ~Rival(other, job)
    BY <2>1 DEF Fits, Rival
  <2> HIDE DEF job
  <2> QED BY <2>1, <2>2, <2>3, <2>4, GentleFits, JobJoins, DormantResumes
<1>7. CASE ResumeReattaches(c)
  <2> DEFINE job == [op |-> "reattach", child |-> c]
  <2>1. job \in Job /\ Queue(job) /\ job.op = "reattach" /\ job.child = c
    BY <1>7, JobShapes DEF ResumeReattaches
  <2>2. NoNewSlot
    BY <1>7 DEF ResumeReattaches, NoNewSlot, SlotInv, SlotsAreLinked, runVars, askVars
  <2>3. LeavesDormant /\ Gentle
    BY <1>7 DEF ResumeReattaches, LeavesDormant, Gentle, Dormant, Stillborn, runVars
  <2>4. Fits(job)'
    <3>1. Live' = Live
      BY <1>7 DEF ResumeReattaches, Live, runVars
    <3>2. invoke' = "resuming" /\ Cardinality(Live') < Cap
      BY <1>7, <3>1 DEF ResumeReattaches, NextInLine
    <3>3. entry'[c] = "none" /\ c \notin todo'
      BY <1>7 DEF ResumeReattaches, Live, runVars
    <3>4. Dormant(c)' /\ isolated'[c]
      BY <1>7, <2>3 DEF ResumeReattaches, NextInLine, ResumeInv, LeavesDormant
    <3> HIDE DEF job
    <3> QED BY <2>1, <3>2, <3>3, <3>4 DEF Fits
  <2>5. \A other \in Held : ~Rival(other, job)
    BY <1>7, NoneHeld DEF ResumeReattaches, NextInLine, NoReattach, Rival
  <2> HIDE DEF job
  <2> QED BY <2>1, <2>2, <2>3, <2>4, <2>5, GentleFits, JobJoins, DormantResumes
<1>8. CASE ResumeShared(c)
  <2>1. NoReattach /\ gitq' = gitq /\ invoke' = "resuming" /\ invoke = "resuming" /\ Dormant(c)
    BY <1>8, NoneHeld DEF ResumeShared, NextInLine, treeVars, ResumeInv
  <2>2. Gentle
    BY <1>8, <2>1 DEF ResumeShared, BringBack, Gentle, Dormant, Stillborn, TypeOK
  <2>3. ResumeInv'
    BY <1>8, <2>1 DEF ResumeShared, BringBack, ResumeInv, Dormant, TypeOK
  <2> QED BY <2>1, <2>2, <2>3, GentleFits, SameJobs
<1> QED BY <1>1, <1>2, <1>3, <1>4, <1>5, <1>6, <1>7, <1>8 DEF TaskStep

LEMMA OtherJobs ==
    ASSUME IInv, TaskMoves \/ OpenWorkspace \/ Restart \/ UNCHANGED vars
    PROVE  JobInv'
<1> USE DEF IInv, JobInv
<1>1. CASE StopTask \/ UNCHANGED vars
  <2>1. NoNewSlot
    BY <1>1, OtherStepsTakeNone DEF TaskMoves
  <2>2. LeavesDormant /\ Gentle /\ gitq' = gitq
    BY <1>1 DEF StopTask, vars, LeavesDormant, Gentle, Dormant, Stillborn, taskVars, runVars, treeVars
  <2> QED BY <2>1, <2>2, GentleFits, SameJobs, DormantResumes
<1>2. CASE TaskStarts \/ TaskEnds \/ ResumeIsOver
  <2>1. NoReattach
    BY <1>2, NoneHeld DEF TaskStarts, TaskEnds, ResumeIsOver
  <2>2. Gentle /\ gitq' = gitq
    BY <1>2 DEF TaskStarts, TaskEnds, ResumeIsOver, Gentle, Stillborn, runVars, treeVars
  <2>3. ResumeInv'
    BY <1>2, NoneHeld DEF TaskStarts, TaskEnds, ResumeIsOver, ResumeInv, Dormant, runVars, treeVars
  <2> QED BY <2>1, <2>2, <2>3, GentleFits, SameJobs
<1>3. CASE OpenWorkspace
  <2>0. PICK keep \in SUBSET Child : keep = Protected(disk, entry)
    BY DEF Protected
  <2> DEFINE job == [op |-> "prune", keep |-> keep]
  <2>1. job \in Job /\ Queue(job) /\ job.op = "prune"
    BY <1>3, <2>0, JobShapes DEF OpenWorkspace
  <2>2. NoNewSlot
    BY <1>3, OtherStepsTakeNone
  <2>3. LeavesDormant /\ Gentle
    BY <1>3 DEF OpenWorkspace, LeavesDormant, Gentle, Dormant, Stillborn, taskVars, runVars
  <2>4. Fits(job)' /\ \A other \in Held : ~Rival(other, job)
    BY <2>1 DEF Fits, Rival
  <2>5. StillFit /\ ResumeInv'
    BY <2>2, <2>3, GentleFits, DormantResumes
  <2> HIDE DEF job
  <2> QED BY <2>1, <2>4, <2>5, JobJoins
<1>4. CASE Restart
  <2> DEFINE job == [op |-> "prune", keep |-> Protected(disk', entry')]
  <2>1. gitq' = <<job>> /\ job.op = "prune"
    BY <1>4 DEF Restart
  <2>2. JobsFit' /\ Alone'
    <3> HIDE DEF job
    <3>1. DOMAIN gitq' = {1} /\ gitq'[1] = job
      BY <2>1
    <3> QED BY <2>1, <3>1 DEF JobsFit, Held, Fits, Alone
  <2>3. ResumeInv'
    BY <1>4 DEF Restart, ResumeInv, Dormant, TreesInv, TreeInv, TypeOK
  <2> QED BY <2>2, <2>3
<1> QED BY <1>1, <1>2, <1>3, <1>4 DEF TaskMoves

\* The job whose turn it is leaves those behind it what they rely on: a child has one job
\* of the kind, and a child that is being spawned, finalized or brought back is no other.
LEMMA GitJobs ==
    ASSUME IInv, GitStep
    PROVE  JobInv'
<1> USE DEF IInv, JobInv
<1> DEFINE job == Head(gitq)
<1>1. job \in Job /\ Fits(job) /\ gitq # <<>> /\ gitq' = Tail(gitq)
  BY Leaves DEF GitStep, TypeOK, JobsFit, Held
<1>2. ASSUME \A other \in Held : ~Rival(other, job) => Fits(other)'
      PROVE  JobsFit' /\ Alone'
  BY <1>1, <1>2, HeldJobs, HeadLeaves
<1> HIDE DEF job
<1>3. job.op # "reattach" => NoNewSlot
  BY GitSlots DEF job
<1>4. CASE job.op = "add" /\ Added(job.child)
  <2>1. job.child \in Child /\ spawn[job.child] = "adding" /\ loop[job.child] = "none"
    BY <1>1, <1>4, JobShapes DEF Fits, TreesInv, TreeInv
  <2>2. LeavesDormant
    BY <1>4, <2>1 DEF Added, Launch, Refuse, LeavesDormant, Dormant, TypeOK, taskVars
  <2>3. ASSUME NEW other \in Held, ~Rival(other, job) PROVE Fits(other)'
    <3>1. other \in Job /\ Fits(other)
      BY HeldJobs DEF JobsFit
    <3>2. CASE other.op = "reattach"
      BY <1>3, <1>4, <2>2, <3>1, <3>2, ReattachFits
    <3>3. CASE other.op # "reattach"
      <4>1. \A d \in Child \ {job.child} : spawn'[d] = spawn[d] /\ loop'[d] = loop[d] /\ disk'[d] = disk[d]
        BY <1>4, <2>1 DEF Added, Launch, Refuse, TypeOK
      <4> QED BY <1>4, <2>1, <2>3, <3>1, <3>3, <4>1, JobShapes DEF Fits, Rival, Stillborn
    <3> QED BY <3>2, <3>3
  <2> QED BY <1>2, <2>2, <2>3, DormantResumes
<1>5. CASE job.op = "reattach" /\ Reattached(job.child)
  <2>1. job.child \in Child /\ Dormant(job.child) /\ job.child \notin todo /\ invoke = "resuming"
    BY <1>1, <1>5, JobShapes DEF Fits
  <2>2. ResumeInv'
    BY <1>5, <2>1 DEF Reattached, BringBack, ResumeInv, Dormant, TypeOK, taskVars, runVars
  <2>3. ASSUME NEW other \in Held, ~Rival(other, job) PROVE Fits(other)'
    <3>1. other \in Job /\ Fits(other) /\ other.op # "reattach"
      BY <1>5, <2>3, HeldJobs DEF JobsFit, Rival
    <3>2. spawn' = spawn /\ disk' = disk /\ \A d \in Child \ {job.child} : loop'[d] = loop[d]
      BY <1>5 DEF Reattached, BringBack, TypeOK, runVars
    <3> QED BY <2>1, <3>1, <3>2, JobShapes DEF Fits, Dormant, Stillborn
  <2> QED BY <1>2, <2>2, <2>3
<1>6. CASE job.op = "finalize" /\ Finished(job.child) /\ UNCHANGED <<taskVars, spawn, disk, isolated>>
  <2>1. job.child \in Child /\ loop[job.child] = "finalizing"
    BY <1>1, <1>6, JobShapes DEF Fits
  <2>2. LeavesDormant
    BY <1>6, <2>1 DEF Finished, MoveTo, LeavesDormant, Dormant, TypeOK, taskVars
  <2>3. ASSUME NEW other \in Held, ~Rival(other, job) PROVE Fits(other)'
    <3>1. other \in Job /\ Fits(other)
      BY HeldJobs DEF JobsFit
    <3>2. CASE other.op = "reattach"
      BY <1>3, <1>6, <2>2, <3>1, <3>2, ReattachFits
    <3>3. CASE other.op # "reattach"
      <4>1. spawn' = spawn /\ disk' = disk /\ \A d \in Child \ {job.child} : loop'[d] = loop[d]
        BY <1>6, <2>1 DEF Finished, MoveTo, TypeOK
      <4> QED BY <1>6, <2>1, <2>3, <3>1, <3>3, <4>1, JobShapes DEF Fits, Rival, Stillborn
    <3> QED BY <3>2, <3>3
  <2> QED BY <1>2, <2>2, <2>3, DormantResumes
<1>7. CASE job.op # "reattach" /\ UNCHANGED <<taskVars, runVars, isolated>>
  <2>1. LeavesDormant /\ Gentle
    BY <1>7 DEF LeavesDormant, Gentle, Dormant, Stillborn, taskVars, runVars
  <2>2. StillFit /\ ResumeInv'
    BY <1>3, <1>7, <2>1, GentleFits, DormantResumes
  <2> QED BY <1>2, <2>2 DEF StillFit
<1> QED BY <1>4, <1>5, <1>6, <1>7 DEF GitStep, job, Merged

-----------------------------------------------------------------------------
(* The checkouts.                                                            *)

Untouched(d) ==
    /\ tree'[d] = tree[d] /\ loop'[d] = loop[d] /\ spawn'[d] = spawn[d]
    /\ disk'[d] = disk[d] /\ isolated'[d] = isolated[d]

LEMMA UntouchedKeeps ==
    ASSUME NEW d \in Child, TreeInv(d), Untouched(d), died => died'
    PROVE  TreeInv(d)'
  BY DEF TreeInv, Untouched, Abandoned, AtWork

LEMMA ChildStepTrees ==
    ASSUME IInv, NEW c \in Child, ChildStep(c)
    PROVE  TreesInv'
<1> USE DEF IInv
<1>1. TreeInv(c) /\ died' = died /\ isolated' = isolated /\ spawn' = spawn
  BY DEF TreesInv, ChildStep, ChildBegins, ChildStartThrows, ChildEdits, ChildHangs, ChildReturns, ChildEnds,
     ChildReleases, TailFinishes, TailFinalizes, ForceFinish, runVars, treeVars, counts
<1>2. \A d \in Child \ {c} : Untouched(d)
  BY <1>1 DEF ChildStep, ChildBegins, ChildStartThrows, ChildEdits, ChildHangs, ChildReturns, ChildEnds,
     ChildReleases, TailFinishes, Finished, TailFinalizes, ForceFinish, MoveTo, Untouched, TypeOK, runVars, treeVars
<1>3. TreeInv(c)'
  <2>1. CASE ChildBegins(c) \/ ChildStartThrows(c)
    BY <1>1, <2>1 DEF ChildBegins, ChildStartThrows, MoveTo, TreeInv, Abandoned, AtWork, Ended, TypeOK, treeVars
  <2>2. CASE ChildEdits(c)
    <3>1. tree[c] \in Tree /\ tree'[c] = Edited(tree[c])
      BY <2>2 DEF ChildEdits, TypeOK, Edited
    <3>2. /\ tree'[c].out = tree[c].out /\ tree'[c].pending = tree[c].pending /\ tree'[c].lost = tree[c].lost
          /\ tree'[c].ahead = tree[c].ahead /\ tree'[c].unkept = tree[c].unkept
      BY <3>1, TreeMarks
    <3>3. loop'[c] = loop[c] /\ disk'[c] = disk[c] /\ loop[c] = "working" /\ tree[c].out
      BY <2>2 DEF ChildEdits, runVars
    <3> QED BY <1>1, <3>2, <3>3 DEF TreeInv, Abandoned, AtWork
  <2>3. CASE ChildHangs(c) \/ ChildReturns(c)
    BY <1>1, <2>3 DEF ChildHangs, ChildReturns, MoveTo, TreeInv, Abandoned, AtWork, TypeOK, treeVars
  <2>4. ASSUME NEW s \in Ended, ChildEnds(c, s) PROVE TreeInv(c)'
    BY <1>1, <2>4 DEF ChildEnds, MoveTo, TreeInv, Abandoned, AtWork, Ended, TypeOK, treeVars
  <2>5. CASE ChildReleases(c) \/ TailFinalizes(c)
    BY <1>1, <2>5 DEF ChildReleases, TailFinalizes, MoveTo, TreeInv, Abandoned, AtWork, TypeOK, treeVars
  <2>6. CASE TailFinishes(c)
    BY <1>1, <2>6 DEF TailFinishes, Finished, MoveTo, TreeInv, Abandoned, AtWork, TypeOK, treeVars
  <2>7. CASE ForceFinish(c)
    BY <1>1, <2>7 DEF ForceFinish, TreeInv, Abandoned, AtWork, Ended, TypeOK, treeVars
  <2> QED BY <2>1, <2>2, <2>3, <2>4, <2>5, <2>6, <2>7 DEF ChildStep
<1> QED BY <1>1, <1>2, <1>3, UntouchedKeeps DEF TreesInv

LEMMA TaskStepTrees ==
    ASSUME IInv, NEW c \in Child, TaskStep(c)
    PROVE  TreesInv'
<1> USE DEF IInv
<1>1. TreeInv(c) /\ died' = died /\ tree' = tree
  BY DEF TreesInv, TaskStep, SpawnShared, SpawnIsolated, SpawnGoesOn, CreateRunThrows, Await, CancelChild, Merge,
     ResumeSkips, ResumeReattaches, ResumeShared, treeVars, counts
<1>2. \A d \in Child \ {c} : Untouched(d)
  BY <1>1 DEF TaskStep, SpawnShared, SpawnIsolated, SpawnGoesOn, CreateRunThrows, Await, CancelChild, Merge,
     ResumeSkips, ResumeReattaches, ResumeShared, BringBack, Launch, Refuse, Untouched, TypeOK, runVars, treeVars
<1>3. TreeInv(c)'
  <2>1. CASE SpawnShared(c)
    BY <1>1, <2>1 DEF SpawnShared, Admits, Launch, TreeInv, Abandoned, AtWork, TypeOK, treeVars
  <2>2. CASE SpawnIsolated(c)
    BY <1>1, <2>2 DEF SpawnIsolated, Admits, TreeInv, Abandoned, AtWork, TypeOK
  <2>3. CASE SpawnGoesOn(c)
    BY <1>1, <2>3 DEF SpawnGoesOn, Launch, TreeInv, Abandoned, AtWork, TypeOK
  <2>4. CASE CreateRunThrows(c)
    BY <1>1, <2>4 DEF CreateRunThrows, Refuse, TreeInv, Abandoned, AtWork, TypeOK
  <2>5. CASE Await(c) \/ CancelChild(c) \/ Merge(c) \/ ResumeSkips(c) \/ ResumeReattaches(c)
    BY <1>1, <2>5 DEF Await, CancelChild, Merge, ResumeSkips, ResumeReattaches, TreeInv, Abandoned, AtWork,
       runVars, treeVars
  <2>6. CASE ResumeShared(c)
    <3>1. Dormant(c)
      BY <2>6 DEF ResumeShared, NextInLine, JobInv, ResumeInv
    <3> QED BY <1>1, <2>6, <3>1 DEF ResumeShared, BringBack, Dormant, TreeInv, Abandoned, AtWork, Ended, TypeOK, treeVars
  <2> QED BY <2>1, <2>2, <2>3, <2>4, <2>5, <2>6 DEF TaskStep
<1> QED BY <1>1, <1>2, <1>3, UntouchedKeeps DEF TreesInv

LEMMA OtherTrees ==
    ASSUME IInv, TaskMoves \/ OpenWorkspace \/ Restart \/ UNCHANGED vars
    PROVE  TreesInv'
<1> USE DEF IInv
<1>1. CASE TaskMoves \/ OpenWorkspace \/ UNCHANGED vars
  <2>1. died' = died /\ \A d \in Child : Untouched(d)
    BY <1>1 DEF TaskMoves, StopTask, TaskStarts, TaskEnds, ResumeIsOver, OpenWorkspace, vars, Untouched,
       runVars, treeVars, counts
  <2> QED BY <2>1, UntouchedKeeps DEF TreesInv
<1>2. CASE Restart
  <2> SUFFICES ASSUME NEW c \in Child PROVE TreeInv(c)'
    BY DEF TreesInv
  <2> DEFINE t == Unprotected(tree[c])
  <2>1. /\ tree[c] \in Tree /\ t \in Tree
        /\ t.out = tree[c].out /\ t.dirty = tree[c].dirty /\ t.lost = tree[c].lost
        /\ t.ahead = tree[c].ahead /\ t.unkept = tree[c].unkept
    BY TreeMarks DEF TypeOK
  <2>2. \E ok \in BOOLEAN :
           tree'[c] = IF disk[c] = "running" /\ isolated[c] THEN Finalized(t, TRUE, ok) ELSE t
    BY <1>2 DEF Restart, Unprotected
  <2> HIDE DEF t
  <2>3. /\ died' /\ loop'[c] = "none" /\ isolated'[c] = isolated[c]
        /\ spawn'[c] = IF spawn[c] = "unused" THEN "unused" ELSE "over"
        /\ disk'[c] = IF disk[c] = "running" THEN "interrupted" ELSE disk[c]
    BY <1>2 DEF Restart
  <2>4. TreeInv(c)
    BY DEF TreesInv
  <2>5. CASE disk[c] = "running" /\ isolated[c]
    <3>1. /\ ~tree'[c].out /\ ~tree'[c].dirty /\ (tree[c].unkept => tree'[c].unkept)
          /\ (tree'[c].lost => tree[c].lost \/ tree'[c].unkept)
      <4>1. PICK ok \in BOOLEAN : tree'[c] = Finalized(t, TRUE, ok)
        BY <2>2, <2>5
      <4>2. LET f == Finalized(t, TRUE, ok)
            IN ~f.out /\ ~f.dirty /\ (t.unkept => f.unkept) /\ (f.lost => t.lost \/ f.unkept)
        BY <2>1, FinalizedTree
      <4> QED BY <2>1, <4>1, <4>2
    <3> QED BY <2>3, <2>4, <2>5, <3>1 DEF TreeInv, Abandoned, AtWork, Ended
  <2>6. CASE ~(disk[c] = "running" /\ isolated[c])
    <3>1. /\ tree'[c].out = tree[c].out /\ tree'[c].dirty = tree[c].dirty /\ tree'[c].lost = tree[c].lost
          /\ tree'[c].ahead = tree[c].ahead /\ tree'[c].unkept = tree[c].unkept
      BY <2>1, <2>2, <2>6
    <3> QED BY <2>3, <2>4, <2>6, <3>1 DEF TreeInv, Abandoned, AtWork, Ended
  <2> QED BY <2>5, <2>6
<1> QED BY <1>1, <1>2

LEMMA GitTrees ==
    ASSUME IInv, GitStep
    PROVE  TreesInv'
<1> USE DEF IInv, JobInv
<1> DEFINE job == Head(gitq)
<1>1. job \in Job /\ Fits(job)
  BY Leaves DEF GitStep, TypeOK, JobsFit, Held
<1> HIDE DEF job
<1>2. CASE job.op = "prune" /\ UNCHANGED <<runVars, isolated, died>>
           /\ tree' = [c \in Child |-> IF Prunable(c, job.keep) THEN Removed(tree[c]) ELSE tree[c]]
  <2> SUFFICES ASSUME NEW c \in Child PROVE TreeInv(c)'
    BY DEF TreesInv
  <2>1. TreeInv(c) /\ tree[c] \in Tree
    BY DEF TreesInv, TypeOK
  <2>2. CASE ~Prunable(c, job.keep)
    BY <1>2, <2>1, <2>2, UntouchedKeeps DEF Untouched, runVars
  <2>3. CASE Prunable(c, job.keep)
    <3>1. tree'[c] = Removed(tree[c]) /\ ~tree[c].pending
      BY <1>2, <2>3 DEF Prunable
    <3>2. /\ ~tree'[c].out /\ ~tree'[c].dirty /\ (tree'[c].lost => tree[c].lost \/ tree[c].dirty)
          /\ tree'[c].ahead = tree[c].ahead /\ tree'[c].unkept = tree[c].unkept
      BY <2>1, <3>1, RemovedTree
    <3>3. (tree[c].lost => tree[c].unkept \/ Abandoned(c)) /\ (tree[c].dirty => Abandoned(c))
      BY <2>1, <3>1 DEF TreeInv
    <3>4. spawn[c] # "indexing"
      BY <2>1, <3>1 DEF TreeInv
    <3> QED BY <1>2, <2>1, <3>2, <3>3, <3>4 DEF TreeInv, Abandoned, AtWork, runVars
  <2> QED BY <2>2, <2>3
<1>3. CASE job.op # "prune"
  <2>1. PICK c \in Child : c = job.child
    BY <1>1, <1>3, JobShapes
  <2>2. TreeInv(c) /\ tree[c] \in Tree
    BY <2>1 DEF TreesInv, TypeOK
  <2>3. ASSUME TreeInv(c)', died' = died, \A d \in Child \ {c} : Untouched(d)
        PROVE  TreesInv'
    <3> SUFFICES ASSUME NEW d \in Child PROVE TreeInv(d)'
      BY DEF TreesInv
    <3>1. CASE d # c
      BY <2>3, <3>1, UntouchedKeeps DEF TreesInv
    <3>2. CASE d = c
      BY <2>3, <3>2 DEF TreeInv, Abandoned, AtWork
    <3> QED BY <3>1, <3>2
  <2>4. CASE job.op = "add" /\ Added(c)
    <3>1. spawn[c] = "adding"
      BY <1>1, <2>1, <2>4 DEF Fits
    <3>2. died' = died /\ \A d \in Child \ {c} : Untouched(d)
      BY <2>1, <2>4 DEF Added, Launch, Refuse, Untouched, TypeOK, treeVars, counts
    <3>3. ASSUME tree' = [tree EXCEPT ![c].out = TRUE, ![c].pending = TRUE],
                 spawn' = [spawn EXCEPT ![c] = "indexing"], UNCHANGED <<loop, disk, isolated>>
          PROVE  TreeInv(c)'
      <4>1. /\ tree'[c].out /\ tree'[c].pending /\ tree'[c].dirty = tree[c].dirty
            /\ tree'[c].lost = tree[c].lost
            /\ tree'[c].ahead = tree[c].ahead /\ tree'[c].unkept = tree[c].unkept
        <5>1. tree'[c] = Made(tree[c])
          BY <2>1, <3>3 DEF TypeOK, Made
        <5> QED BY <2>2, <5>1, TreeMarks
      <4>2. spawn'[c] = "indexing" /\ loop'[c] = loop[c] /\ disk'[c] = disk[c]
        BY <2>1, <3>3 DEF TypeOK
      <4> QED BY <2>2, <3>1, <3>2, <4>1, <4>2 DEF TreeInv, Abandoned, AtWork
    <3>4. ASSUME Launch(c), UNCHANGED <<isolated, tree>> PROVE TreeInv(c)'
      BY <2>1, <2>2, <3>1, <3>2, <3>4 DEF Launch, TreeInv, Abandoned, AtWork, Ended, TypeOK
    <3>5. ASSUME Refuse(c), UNCHANGED <<loop, disk, isolated, tree>> PROVE TreeInv(c)'
      BY <2>1, <2>2, <3>1, <3>2, <3>5 DEF Refuse, TreeInv, Abandoned, AtWork, TypeOK
    <3>6. TreeInv(c)'
      BY <2>4, <3>3, <3>4, <3>5 DEF Added
    <3> QED BY <2>3, <3>2, <3>6
  <2>5. CASE job.op = "reattach" /\ Reattached(c)
    <3>1. Dormant(c) /\ isolated[c]
      BY <1>1, <2>1, <2>5 DEF Fits
    <3>2. died' = died /\ isolated' = isolated /\ \A d \in Child \ {c} : Untouched(d)
      BY <2>1, <2>5 DEF Reattached, BringBack, Untouched, TypeOK, runVars, counts
    <3>3. ASSUME UNCHANGED <<runVars, tree>> PROVE TreeInv(c)'
      BY <2>2, <3>2, <3>3 DEF TreeInv, Abandoned, AtWork, runVars
    <3>4. ASSUME tree' = [tree EXCEPT ![c] = [Removed(@) EXCEPT !.out = TRUE, !.pending = TRUE]],
                 BringBack(c), UNCHANGED <<spawn, disk>>
          PROVE  TreeInv(c)'
      <4>1. tree'[c] = Made(Removed(tree[c]))
        BY <2>1, <3>4 DEF TypeOK, Made
      <4>2. tree'[c].out /\ tree'[c].pending /\ ~tree'[c].dirty
            /\ (tree'[c].lost => tree[c].lost \/ tree[c].dirty)
            /\ tree'[c].ahead = tree[c].ahead /\ tree'[c].unkept = tree[c].unkept
        <5>1. Removed(tree[c]) \in Tree
          BY <2>2, RemovedTree
        <5>2. /\ Made(Removed(tree[c])).out /\ Made(Removed(tree[c])).pending
              /\ Made(Removed(tree[c])).dirty = Removed(tree[c]).dirty
              /\ Made(Removed(tree[c])).lost = Removed(tree[c]).lost
              /\ Made(Removed(tree[c])).ahead = Removed(tree[c]).ahead
              /\ Made(Removed(tree[c])).unkept = Removed(tree[c]).unkept
          BY <5>1, TreeMarks
        <5> QED BY <2>2, <4>1, <5>2, RemovedTree
      <4>3. loop'[c] = "starting" /\ spawn'[c] = spawn[c] /\ disk'[c] = disk[c]
        BY <2>1, <3>4 DEF BringBack, TypeOK
      <4> QED BY <2>2, <3>1, <3>2, <4>2, <4>3 DEF TreeInv, Abandoned, AtWork, Dormant, Ended
    <3>5. TreeInv(c)'
      BY <2>5, <3>3, <3>4 DEF Reattached
    <3> QED BY <2>3, <3>2, <3>5
  <2>6. CASE job.op = "merge" /\ Merged(c)
    <3>1. died' = died /\ \A d \in Child \ {c} : Untouched(d)
      BY <2>1, <2>6 DEF Merged, Untouched, TypeOK, runVars, counts
    <3>2. UNCHANGED <<runVars, isolated>>
      BY <2>6 DEF Merged
    <3>3. tree'[c] = tree[c] \/ tree'[c] = Taken(tree[c])
      BY <2>1, <2>6 DEF Merged, TypeOK, Taken
    <3>4. /\ tree'[c].out = tree[c].out /\ tree'[c].pending = tree[c].pending
          /\ tree'[c].dirty = tree[c].dirty /\ tree'[c].lost = tree[c].lost
          /\ (tree'[c].ahead => tree[c].ahead) /\ tree'[c].unkept = tree[c].unkept
      BY <2>2, <3>3, TreeMarks
    <3>5. TreeInv(c)'
      BY <2>2, <3>1, <3>2, <3>4 DEF TreeInv, Abandoned, AtWork, runVars
    <3> QED BY <2>3, <3>1, <3>5
  <2>7. ASSUME NEW keepBranch \in BOOLEAN, NEW ok \in BOOLEAN,
               job.op \in {"finalize", "discard"},
               ~keepBranch => disk[c] \in {"absent", "cancelled"},
               tree' = [tree EXCEPT ![c] = Finalized(@, keepBranch, ok)],
               (job.op = "finalize" /\ Finished(c)) \/ (job.op = "discard" /\ UNCHANGED loop),
               UNCHANGED <<spawn, disk, isolated, died>>
        PROVE  TreesInv'
    <3>1. \A d \in Child \ {c} : Untouched(d)
      BY <2>1, <2>7 DEF Finished, MoveTo, Untouched, TypeOK
    <3>2. tree'[c] = Finalized(tree[c], keepBranch, ok)
      BY <2>1, <2>7 DEF TypeOK
    <3>3. /\ ~tree'[c].out /\ ~tree'[c].dirty /\ (tree[c].unkept => tree'[c].unkept)
          /\ (tree'[c].ahead => tree[c].ahead \/ tree[c].dirty)
          /\ (tree'[c].lost => tree[c].lost \/ tree'[c].unkept
                                \/ (~keepBranch /\ (tree[c].ahead \/ tree[c].dirty)))
      BY <2>2, <3>2, FinalizedTree
    <3>4. spawn[c] = "over" /\ loop'[c] = "none"
      BY <1>1, <2>1, <2>2, <2>7 DEF Fits, Stillborn, TreeInv, Finished, MoveTo, TypeOK
    <3>5. tree[c].dirty => disk[c] # "absent"
      BY <2>2 DEF TreeInv, Abandoned, Ended
    <3>6. tree'[c].lost => tree'[c].unkept \/ Abandoned(c)'
      BY <2>2, <2>7, <3>3, <3>4, <3>5 DEF TreeInv, Abandoned, Ended
    <3>7. TreeInv(c)'
      BY <2>2, <2>7, <3>3, <3>4, <3>5, <3>6 DEF TreeInv
    <3> QED BY <2>3, <2>7, <3>1, <3>7
  <2>8. CASE /\ job.op = "finalize"
             /\ \E ok \in BOOLEAN :
                  tree' = [tree EXCEPT ![c] = Finalized(@, Outcome(c) # "cancelled", ok)]
             /\ Finished(c) /\ UNCHANGED <<taskVars, spawn, disk, isolated, taken, counts>>
    <3> DEFINE keepBranch == Outcome(c) # "cancelled"
    <3>1. keepBranch \in BOOLEAN /\ (~keepBranch => disk[c] = "cancelled")
      BY DEF Outcome
    <3>2. PICK ok \in BOOLEAN : tree' = [tree EXCEPT ![c] = Finalized(@, keepBranch, ok)]
      BY <2>8
    <3> HIDE DEF keepBranch
    <3> QED BY <2>7, <2>8, <3>1, <3>2 DEF counts
  <2>9. CASE /\ job.op = "discard"
             /\ \E ok \in BOOLEAN : tree' = [tree EXCEPT ![c] = Finalized(@, FALSE, ok)]
             /\ UNCHANGED <<taskVars, runVars, isolated, askVars, counts>>
    <3>1. disk[c] = "absent"
      BY <1>1, <2>1, <2>9 DEF Fits, Stillborn
    <3>2. PICK ok \in BOOLEAN : tree' = [tree EXCEPT ![c] = Finalized(@, FALSE, ok)]
      BY <2>9
    <3> QED BY <2>7, <2>9, <3>1, <3>2 DEF runVars, counts
  <2> QED BY <1>3, <2>1, <2>4, <2>5, <2>6, <2>8, <2>9 DEF GitStep, job
<1> QED BY <1>2, <1>3 DEF GitStep, job, counts

-----------------------------------------------------------------------------
(* The results.                                                              *)

LEMMA InitInv == Init => IInv
<1> SUFFICES ASSUME Init PROVE IInv
  OBVIOUS
<1>1. TypeOK
  <2>1. NoTree \in Tree /\ <<>> \in Seq(Job) /\ 0 \in 0 .. MaxShocks
    BY BoundAssumption DEF NoTree, Tree
  <2> QED BY <2>1 DEF Init, TypeOK
<1>2. SlotInv
  <2>1. Live = {}
    BY DEF Init, Live
  <2>2. Cardinality(Live) = 0
    BY <2>1, FS_EmptySet
  <2> QED BY <2>2, CapAssumption DEF Init, SlotInv, SlotsAreLinked, CapHolds, StopReachesChildren
<1>3. JobInv
  BY DEF Init, JobInv, JobsFit, Held, Alone, ResumeInv
<1>4. TreesInv
  BY DEF Init, TreesInv, TreeInv, NoTree
<1> QED BY <1>1, <1>2, <1>3, <1>4 DEF IInv

LEMMA NextInv == IInv /\ [Next]_vars => IInv'
<1> SUFFICES ASSUME IInv, [Next]_vars PROVE IInv'
  OBVIOUS
<1> USE DEF IInv
<1>1. TypeOK'
  BY NextTypes
<1>2. ASSUME NEW c \in Child, ChildStep(c) PROVE IInv'
  BY <1>1, <1>2, ChildStepTakesNone, NoNewSlotKeeps, ChildStepJobs, ChildStepTrees
<1>3. ASSUME NEW c \in Child, TaskStep(c) PROVE IInv'
  BY <1>1, <1>3, TaskStepSlots, NoNewSlotKeeps, TakesSlotKeeps, TaskStepJobs, TaskStepTrees
<1>4. CASE GitStep
  BY <1>1, <1>4, GitSlots, NoNewSlotKeeps, TakesSlotKeeps, GitJobs, GitTrees DEF JobInv
<1>5. CASE TaskMoves \/ OpenWorkspace \/ Restart \/ UNCHANGED vars
  BY <1>1, <1>5, OtherStepsTakeNone, NoNewSlotKeeps, OtherJobs, OtherTrees
<1> QED BY <1>2, <1>3, <1>4, <1>5 DEF Next, TaskMoves

LEMMA InvHolds == Spec => []IInv
BY InitInv, NextInv, PTL DEF Spec

\* The state of the instances stays of its type, however they are spawned, stopped and brought back.
THEOREM InstanceTypes == Spec => []TypeOK
<1>1. IInv => TypeOK
  BY DEF IInv
<1> QED BY <1>1, InvHolds, PTL

\* Never more instances than the setting allows, although a spawn and a resume await git
\* between their look at the limit and what they do next.
THEOREM LimitHolds == Spec => []CapHolds
<1>1. IInv => CapHolds
  BY DEF IInv, SlotInv
<1> QED BY <1>1, InvHolds, PTL

\* A stopped task has no instance that was not told, but for those its resume brings back later.
THEOREM StopsReachAll == Spec => []StopReachesChildren
<1>1. IInv => StopReachesChildren
  BY DEF IInv, SlotInv
<1> QED BY <1>1, InvHolds, PTL

\* What an instance edited does not go with its checkout or its branch, unless git failed to
\* commit it, the instance was cancelled, or the process died between its end and the commit.
THEOREM NoEditIsLost == Spec => []EditsSurvive
<1>1. IInv => EditsSurvive
  BY DEF IInv, TreesInv, TreeInv, Abandoned, EditsSurvive
<1> QED BY <1>1, InvHolds, PTL
=============================================================================
