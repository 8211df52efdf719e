------------------------ MODULE StatusWriteQueue_proofs ------------------------
(***************************************************************************)
(* Proofs about StatusWriteQueue.  For every use of the queue: type        *)
(* correctness, and that a removed directory stays removed (MarkInv).  For  *)
(* the patches the run loop enqueues, without immediate writes and          *)
(* deletions: no write is lost or reordered however many disk writes fail  *)
(* (IInv).  For immediate writes among them, on a disk that does not fail: *)
(* none is reverted (CalmInv).                                             *)
(***************************************************************************)
EXTENDS StatusWriteQueue, TLAPS

(* A running operation is the head of its chain, and a Pending at rest      *)
(* carries no leftovers of one.                                             *)
OpsOnChain == \A e \in Pendings : /\ op[e].at # "idle" => chain[e] # <<>>
                                  /\ op[e].at = "idle" => op[e] = Idle
TypeInv == TypeOK /\ OpsOnChain

-----------------------------------------------------------------------------
(* The queue when only enqueueStatusPatch and flushStatusWrites are used.   *)
OnlyFlushes ==
    /\ ~abandoned /\ deleter = "none" /\ disk.exists
    /\ \A e \in Pendings : \A i \in 1..Len(chain[e]) : chain[e][i] = FlushOp("flush")

(* All the work is on the current Pending.                                  *)
OneWriter ==
    \A e \in Pendings : e # cur =>
        op[e].at = "idle" /\ pend[e].patch = Empty /\ ~pend[e].timer

(* Disk, operation and pending patch hold older to newer values of a key.   *)
Ordered ==
    \A k \in Keys :
        /\ disk.doc[k] <= latest[k] /\ latest[k] <= ticket
        /\ \A e \in Pendings :
              /\ op[e].patch[k] # 0 =>
                    disk.doc[k] < op[e].patch[k] /\ op[e].patch[k] <= latest[k]
              /\ pend[e].patch[k] # 0 =>
                    /\ disk.doc[k] < pend[e].patch[k] /\ pend[e].patch[k] <= latest[k]
                    /\ op[e].patch[k] < pend[e].patch[k]

(* The document a write is based on is still the one on disk.               *)
FreshBase == \A e \in Pendings : op[e].at = "write" => op[e].base = disk.doc /\ ~op[e].mkdir

Kept ==
    \A k \in Keys : latest[k] # 0 =>
        \/ disk.doc[k] = latest[k]
        \/ cur # None /\ (pend[cur].patch[k] = latest[k] \/ op[cur].patch[k] = latest[k])

IInv == TypeInv /\ OnlyFlushes /\ OneWriter /\ Ordered /\ FreshBase /\ Kept

-----------------------------------------------------------------------------
(* What the helpers return. *)
LEMMA ConstTypes ==
    /\ Empty \in Patch /\ Fresh \in PendingRec /\ Idle \in Phase
    /\ FlushOp("flush") \in OpRec /\ FlushOp("drain") \in OpRec
  BY BoundsAssumption, KeysAssumption
  DEF Empty, Patch, Fresh, PendingRec, Idle, Phase, FlushOp, OpRec

LEMMA AppendGrows ==
  ASSUME NEW S, NEW s \in Seq(S), NEW x \in S
  PROVE  Append(s, x) \in Seq(S) /\ Append(s, x) # <<>>
<1>1. Append(s, x) \in Seq(S)
  OBVIOUS
<1>2. Len(Append(s, x)) = Len(s) + 1 /\ Len(s) \in Nat
  OBVIOUS
<1>3. Len(<<>>) = 0
  OBVIOUS
<1> QED BY <1>1, <1>2, <1>3

LEMMA HeadType ==
  ASSUME NEW s \in Seq(OpRec), s # <<>> PROVE Head(s) \in OpRec /\ Head(s).patch \in Patch
<1>1. Head(s) \in OpRec
  OBVIOUS
<1> QED BY <1>1 DEF OpRec

(* A write that lands clears the failure count. *)
LEMMA ClearedType ==
  ASSUME TypeOK, NEW e \in Pendings
  PROVE  [pend EXCEPT ![e].failures = 0] \in [Pendings -> PendingRec]
<1>1. 0 \in 0..(MaxRetries + 1)
  BY BoundsAssumption
<1>2. [pend[e] EXCEPT !.failures = 0] \in PendingRec
  BY <1>1 DEF TypeOK, PendingRec
<1> QED BY <1>2 DEF TypeOK

LEMMA StampType ==
  ASSUME NEW ks, NEW t \in 0..MaxWrites PROVE Stamp(ks, t) \in Patch
  BY BoundsAssumption DEF Stamp, Patch

LEMMA MergeType ==
  ASSUME NEW p \in Patch, NEW q \in Patch PROVE Merge(p, q) \in Patch
  BY DEF Merge, Patch

LEMMA WithRetryType ==
  ASSUME NEW p \in PendingRec PROVE WithRetry(p) \in PendingRec /\ WithRetry(p).patch = p.patch
<1> DEFINE bumped == IF p.failures > MaxRetries THEN p.failures ELSE p.failures + 1
           armed == p.failures + 1 <= MaxRetries
<1>1. p.failures \in Nat /\ bumped \in 0..(MaxRetries + 1)
  BY BoundsAssumption DEF PendingRec
<1>2. armed \in BOOLEAN
  BY <1>1, BoundsAssumption
<1>3. CASE p.timer \/ IsTerminalPatch(p.patch)
  BY <1>3 DEF WithRetry, PendingRec
<1>4. CASE ~(p.timer \/ IsTerminalPatch(p.patch))
  <2>1. WithRetry(p) = [p EXCEPT !.failures = bumped, !.timer = armed]
    BY <1>4 DEF WithRetry
  <2> HIDE DEF bumped, armed
  <2> QED BY <1>1, <1>2, <2>1 DEF PendingRec
<1> QED BY <1>3, <1>4

LEMMA ContentsType ==
  ASSUME TypeOK, NEW e \in Pendings PROVE Contents(e) \in PendingRec
  BY ConstTypes DEF TypeOK, Contents

LEMMA AcceptType ==
  ASSUME TypeOK, NEW ks, NEW term, Accept(ks, term)
  PROVE  /\ ticket + 1 \in 0..MaxWrites /\ Stamp(ks, ticket + 1) \in Patch
         /\ ticket' \in 0..MaxWrites /\ latest' \in Patch /\ terminal' \subseteq Tickets
<1>1. ticket + 1 \in 0..MaxWrites /\ ticket + 1 \in Tickets
  BY BoundsAssumption DEF TypeOK, Accept, Tickets
<1>2. Stamp(ks, ticket + 1) \in Patch
  BY <1>1, StampType
<1>3. latest' \in Patch
  BY <1>2, MergeType DEF TypeOK, Accept
<1> QED BY <1>1, <1>2, <1>3 DEF TypeOK, Accept

LEMMA SettleType ==
  ASSUME TypeInv, NEW e \in Pendings, chain[e] # <<>>, NEW after, NEW forget,
         Settle(e, after, forget)
  PROVE  /\ chain' \in [Pendings -> Seq(OpRec)] /\ op' \in [Pendings -> Phase]
         /\ cur' \in Pendings \cup {None} /\ due' \in Pendings \cup {None}
         /\ deleter' \in {"none", "drain", "drained", "moving"}
         /\ OpsOnChain'
  BY ConstTypes DEF TypeInv, TypeOK, OpsOnChain, Settle, Idle

LEMMA FailType ==
  ASSUME TypeInv, NEW e \in Pendings, chain[e] # <<>>, NEW failed \in Patch,
         Fail(e, failed)
  PROVE  /\ pend' \in [Pendings -> PendingRec]
         /\ chain' \in [Pendings -> Seq(OpRec)] /\ op' \in [Pendings -> Phase]
         /\ cur' \in Pendings \cup {None} /\ due' \in Pendings \cup {None}
         /\ deleter' \in {"none", "drain", "drained", "moving"}
         /\ OpsOnChain'
<1>1. CASE abandoned
  BY <1>1, SettleType DEF Fail, TypeInv, TypeOK
<1>2. CASE ~abandoned
  <2>1. PICK t \in Pendings :
          /\ pend' = [pend EXCEPT ![t] =
               WithRetry([Contents(t) EXCEPT !.patch = Requeued(failed, Contents(t).patch)])]
          /\ chain' = [chain EXCEPT ![e] = Tail(@)]
          /\ op' = [op EXCEPT ![e] = Idle]
          /\ due' = IF Tail(chain[e]) # <<>> THEN e ELSE None
          /\ deleter' = IF Head(chain[e]).kind = "drain" THEN "drained" ELSE deleter
          /\ cur' = t
    BY <1>2 DEF Fail
  <2>2. Contents(t) \in PendingRec
    BY ContentsType DEF TypeInv
  <2>3. Requeued(failed, Contents(t).patch) \in Patch
    BY <2>2, MergeType DEF Requeued, PendingRec
  <2>4. [Contents(t) EXCEPT !.patch = Requeued(failed, Contents(t).patch)] \in PendingRec
    BY <2>2, <2>3 DEF PendingRec
  <2>5. pend' \in [Pendings -> PendingRec]
    BY <2>1, <2>4, WithRetryType DEF TypeInv, TypeOK
  <2> QED BY <2>1, <2>5, ConstTypes DEF TypeInv, TypeOK, OpsOnChain, Idle
<1> QED BY <1>1, <1>2

-----------------------------------------------------------------------------
LEMMA TypeInit == Init => TypeInv
<1> SUFFICES ASSUME Init PROVE TypeInv
  OBVIOUS
<1>1. pend \in [Pendings -> PendingRec] /\ op \in [Pendings -> Phase]
  BY ConstTypes DEF Init
<1>2. chain \in [Pendings -> Seq(OpRec)]
  BY DEF Init
<1>3. disk \in [exists : BOOLEAN, doc : Patch] /\ latest \in Patch /\ synced \in Patch
  BY ConstTypes DEF Init
<1>4. ticket \in 0..MaxWrites /\ syncs \in 0..MaxSync /\ faults \in 0..MaxFaults
      /\ deletes \in 0..MaxDeletes
  BY BoundsAssumption DEF Init
<1>5. OpsOnChain
  BY DEF Init, OpsOnChain, Idle
<1> QED BY <1>1, <1>2, <1>3, <1>4, <1>5 DEF Init, TypeInv, TypeOK

LEMMA EnqueueType ==
  ASSUME TypeInv, NEW e \in Pendings, NEW ks \in SUBSET Keys, NEW term \in BOOLEAN,
         EnqueueStatusPatch(e, ks, term)
  PROVE  TypeInv'
<1> DEFINE merged == Merge(Contents(e).patch, Stamp(ks, ticket + 1))
           urgent == term \/ ModeKey \in ks
<1>1. /\ ticket + 1 \in 0..MaxWrites /\ Stamp(ks, ticket + 1) \in Patch
      /\ ticket' \in 0..MaxWrites /\ latest' \in Patch /\ terminal' \subseteq Tickets
  BY AcceptType DEF TypeInv, EnqueueStatusPatch
<1>2. Contents(e) \in PendingRec
  BY ContentsType DEF TypeInv
<1>3. merged \in Patch
  BY <1>1, <1>2, MergeType DEF PendingRec
<1>4. [patch |-> merged, timer |-> ~urgent, failures |-> Contents(e).failures] \in PendingRec
  BY <1>2, <1>3 DEF PendingRec
<1>5. pend' \in [Pendings -> PendingRec]
  BY <1>4 DEF EnqueueStatusPatch, TypeInv, TypeOK
<1>6. chain' \in [Pendings -> Seq(OpRec)] /\ OpsOnChain'
  <2>1. chain' = [chain EXCEPT ![e] = Append(@, FlushOp("flush"))] \/ chain' = chain
    BY DEF EnqueueStatusPatch
  <2>2. op' = op
    BY DEF EnqueueStatusPatch
  <2>3. CASE chain' = chain
    BY <2>2, <2>3 DEF TypeInv, TypeOK, OpsOnChain
  <2>4. CASE chain' = [chain EXCEPT ![e] = Append(@, FlushOp("flush"))]
    <3>1. FlushOp("flush") \in OpRec /\ chain[e] \in Seq(OpRec)
      BY ConstTypes DEF TypeInv, TypeOK
    <3>2. /\ Append(chain[e], FlushOp("flush")) \in Seq(OpRec)
          /\ Append(chain[e], FlushOp("flush")) # <<>>
      BY <3>1, AppendGrows
    <3> QED BY <2>2, <2>4, <3>2 DEF TypeInv, TypeOK, OpsOnChain
  <2> QED BY <2>1, <2>3, <2>4
<1> QED BY <1>1, <1>5, <1>6 DEF EnqueueStatusPatch, TypeInv, TypeOK

LEMMA ImmediateType ==
  ASSUME TypeInv, NEW e \in Pendings, NEW ks \in SUBSET Keys, NEW term \in BOOLEAN,
         WriteStatusImmediate(e, ks, term)
  PROVE  TypeInv'
<1> DEFINE merged == Merge(Contents(e).patch, Stamp(ks, ticket + 1))
           queued == [kind |-> "sync", patch |-> merged]
<1>1. /\ ticket + 1 \in 0..MaxWrites /\ Stamp(ks, ticket + 1) \in Patch
      /\ ticket' \in 0..MaxWrites /\ latest' \in Patch /\ terminal' \subseteq Tickets
  BY AcceptType DEF TypeInv, WriteStatusImmediate
<1>2. Contents(e) \in PendingRec
  BY ContentsType DEF TypeInv
<1>3. merged \in Patch
  BY <1>1, <1>2, MergeType DEF PendingRec
<1>4. queued \in OpRec
  BY <1>3 DEF OpRec
<1>5. pend' \in [Pendings -> PendingRec]
  BY <1>2, ConstTypes DEF WriteStatusImmediate, TypeInv, TypeOK, PendingRec
<1>6. chain' \in [Pendings -> Seq(OpRec)] /\ OpsOnChain'
  <2>1. chain' = [chain EXCEPT ![e] = Append(@, queued)] /\ op' = op
    BY DEF WriteStatusImmediate
  <2> HIDE DEF queued
  <2> QED BY <2>1, <1>4, AppendGrows DEF TypeInv, TypeOK, OpsOnChain
<1>7. synced' \in Patch
  BY <1>1, MergeType DEF WriteStatusImmediate, TypeInv, TypeOK
<1>8. syncs' \in 0..MaxSync
  <2>1. syncs \in 0..MaxSync /\ syncs < MaxSync /\ syncs' = syncs + 1
    BY DEF WriteStatusImmediate, TypeInv, TypeOK
  <2> QED BY <2>1, BoundsAssumption
<1> QED BY <1>1, <1>5, <1>6, <1>7, <1>8 DEF WriteStatusImmediate, TypeInv, TypeOK

LEMMA FlushDirType ==
  ASSUME TypeInv, NEW kind \in {"flush", "drain"}, FlushDir(kind),
         deleter' \in {"none", "drain", "drained", "moving"}, deletes' \in 0..MaxDeletes
  PROVE  TypeInv'
<1>1. cur \in Pendings
  BY DEF FlushDir, TypeInv, TypeOK
<1>2. FlushOp(kind) \in OpRec
  BY ConstTypes
<1>3. pend' \in [Pendings -> PendingRec]
  BY <1>1 DEF FlushDir, TypeInv, TypeOK, PendingRec
<1>4. chain' \in [Pendings -> Seq(OpRec)] /\ OpsOnChain'
  BY <1>1, <1>2 DEF FlushDir, TypeInv, TypeOK, OpsOnChain
<1> QED BY <1>3, <1>4 DEF FlushDir, TypeInv, TypeOK

LEMMA BeginFlushType ==
  ASSUME TypeInv, NEW e \in Pendings, BeginFlush(e) PROVE TypeInv'
<1>1. pend' \in [Pendings -> PendingRec]
  BY ConstTypes DEF BeginFlush, TypeInv, TypeOK, PendingRec
<1>2. CASE pend[e].patch = Empty \/ abandoned
  <2>1. Settle(e, pend'[e], TRUE)
    BY <1>2 DEF BeginFlush
  <2> QED BY <1>1, <2>1, SettleType DEF BeginFlush, Ready, TypeInv, TypeOK
<1>3. CASE ~(pend[e].patch = Empty \/ abandoned)
  <2>1. pend[e].patch \in Patch
    BY DEF TypeInv, TypeOK, PendingRec
  <2>2. [Idle EXCEPT !.at = "read", !.patch = pend[e].patch] \in Phase
    BY <2>1, ConstTypes DEF Idle, Phase
  <2>3. op' = [op EXCEPT ![e] = [Idle EXCEPT !.at = "read", !.patch = pend[e].patch]]
        /\ UNCHANGED <<chain, cur, deleter>> /\ due' = None
    BY <1>3 DEF BeginFlush
  <2>4. OpsOnChain'
    BY <2>3 DEF BeginFlush, Ready, TypeInv, TypeOK, OpsOnChain, Idle
  <2> QED BY <1>1, <2>2, <2>3, <2>4 DEF BeginFlush, TypeInv, TypeOK
<1> QED BY <1>2, <1>3

LEMMA StatusReadType ==
  ASSUME TypeInv, NEW e \in Pendings, StatusRead(e) PROVE TypeInv'
<1>1. chain[e] # <<>>
  BY DEF StatusRead, TypeInv, OpsOnChain
<1>2. CASE abandoned
  BY <1>1, <1>2, SettleType DEF StatusRead, TypeInv, TypeOK
<1>3. CASE ~abandoned
  <2>1. op' = [op EXCEPT ![e] = [op[e] EXCEPT !.at = "write", !.base = disk.doc,
                                              !.mkdir = ~disk.exists]]
        /\ UNCHANGED <<chain, cur, due, deleter>>
    BY <1>3 DEF StatusRead
  <2>2. disk.doc \in Patch /\ (~disk.exists) \in BOOLEAN
    BY DEF TypeInv, TypeOK
  <2>3. [op[e] EXCEPT !.at = "write", !.base = disk.doc, !.mkdir = ~disk.exists] \in Phase
    <3>1. op[e] \in Phase
      BY DEF TypeInv, TypeOK
    <3> QED BY <2>2, <3>1 DEF Phase
  <2>4. op' \in [Pendings -> Phase] /\ OpsOnChain'
    BY <2>1, <2>3, <1>1 DEF TypeInv, TypeOK, OpsOnChain, Phase
  <2> QED BY <2>1, <2>4 DEF StatusRead, TypeInv, TypeOK
<1> QED BY <1>2, <1>3

LEMMA StatusWrittenType ==
  ASSUME TypeInv, NEW e \in Pendings, StatusWritten(e) PROVE TypeInv'
<1>1. chain[e] # <<>>
  BY DEF StatusWritten, TypeInv, OpsOnChain
<1>2. Merge(op[e].base, op[e].patch) \in Patch
  BY MergeType DEF TypeInv, TypeOK, Phase
<1>3. disk' \in [exists : BOOLEAN, doc : Patch]
  BY <1>2 DEF StatusWritten
<1>4. pend' \in [Pendings -> PendingRec]
  BY ClearedType DEF StatusWritten, TypeInv
<1> QED BY <1>1, <1>3, <1>4, SettleType DEF StatusWritten, TypeInv, TypeOK

LEMMA FaultType ==
  ASSUME TypeInv, NEW gone \in BOOLEAN, Fault(gone) PROVE faults' \in 0..MaxFaults
  BY BoundsAssumption DEF Fault, TypeInv, TypeOK

LEMMA StatusWriteFailsType ==
  ASSUME TypeInv, NEW e \in Pendings, StatusWriteFails(e) PROVE TypeInv'
<1>1. chain[e] # <<>> /\ op[e].patch \in Patch
  BY DEF StatusWriteFails, TypeInv, TypeOK, OpsOnChain, Phase
<1>2. faults' \in 0..MaxFaults
  BY FaultType DEF StatusWriteFails
<1> QED BY <1>1, <1>2, FailType DEF StatusWriteFails, TypeInv, TypeOK

LEMMA SyncWriteType ==
  ASSUME TypeInv, NEW e \in Pendings, SyncWrite(e) PROVE TypeInv'
<1>1. chain[e] # <<>> /\ Head(chain[e]).patch \in Patch
  BY HeadType DEF SyncWrite, Ready, TypeInv, TypeOK
<1>2. Merge(disk.doc, Head(chain[e]).patch) \in Patch
  BY <1>1, MergeType DEF TypeInv, TypeOK
<1>3. disk' \in [exists : BOOLEAN, doc : Patch]
  BY <1>2 DEF SyncWrite
<1>4. pend' \in [Pendings -> PendingRec]
  BY ClearedType DEF SyncWrite, TypeInv
<1> QED BY <1>1, <1>3, <1>4, SettleType DEF SyncWrite, TypeInv, TypeOK

LEMMA SyncWriteFailsType ==
  ASSUME TypeInv, NEW e \in Pendings, SyncWriteFails(e) PROVE TypeInv'
<1>1. chain[e] # <<>> /\ Head(chain[e]).patch \in Patch
  BY HeadType DEF SyncWriteFails, Ready, TypeInv, TypeOK
<1>2. faults' \in 0..MaxFaults
  BY FaultType DEF SyncWriteFails
<1> QED BY <1>1, <1>2, FailType DEF SyncWriteFails, TypeInv, TypeOK

LEMMA RemovedType ==
  ASSUME Removed
  PROVE  /\ disk' \in [exists : BOOLEAN, doc : Patch]
         /\ latest' \in Patch /\ synced' \in Patch
<1>1. disk' = [exists |-> FALSE, doc |-> Empty] /\ latest' = Empty /\ synced' = Empty
  BY DEF Removed
<1> HIDE DEF Removed
<1> QED BY <1>1, ConstTypes

LEMMA DeleteType ==
  ASSUME TypeInv, Delete PROVE TypeInv'
<1>1. CASE DeleteRun
  <2>1. deleter' \in {"none", "drain", "drained", "moving"} /\ deletes' \in 0..MaxDeletes
    BY <1>1, BoundsAssumption DEF DeleteRun, TypeInv, TypeOK
  <2>2. CASE cur = None
    BY <1>1, <2>1, <2>2 DEF DeleteRun, TypeInv, TypeOK, OpsOnChain
  <2>3. CASE cur # None
    BY <1>1, <2>1, <2>3, FlushDirType DEF DeleteRun
  <2> QED BY <2>2, <2>3
<1>2. ASSUME NEW mark \in BOOLEAN, ClearStatusWrites(mark),
             deleter' \in {"none", "moving"}, Removed \/ UNCHANGED <<disk, latest, synced>>
      PROVE  TypeInv'
  <2>1. pend' \in [Pendings -> PendingRec]
    BY <1>2 DEF ClearStatusWrites, TypeInv, TypeOK, PendingRec
  <2>2. /\ disk' \in [exists : BOOLEAN, doc : Patch] /\ latest' \in Patch
        /\ synced' \in Patch
    BY <1>2, RemovedType DEF TypeInv, TypeOK
  <2> QED BY <1>2, <2>1, <2>2 DEF ClearStatusWrites, TypeInv, TypeOK, OpsOnChain
<1>3. ASSUME NEW ok \in BOOLEAN, EndMove(ok) PROVE TypeInv'
  <2>1. Removed \/ UNCHANGED <<disk, latest, synced>>
    BY <1>3 DEF EndMove
  <2>2. /\ disk' \in [exists : BOOLEAN, doc : Patch] /\ latest' \in Patch
        /\ synced' \in Patch
    BY <2>1, RemovedType DEF TypeInv, TypeOK
  <2> QED BY <1>3, <2>2 DEF EndMove, TypeInv, TypeOK, OpsOnChain
<1> QED
  BY <1>1, <1>2, <1>3 DEF Delete, AllowStatusWrites, DeletePermanently, BeginMove

LEMMA TypeStep == TypeInv /\ [Next]_vars => TypeInv'
<1> SUFFICES ASSUME TypeInv, [Next]_vars PROVE TypeInv'
  OBVIOUS
<1>1. CASE Call
  BY <1>1, EnqueueType, ImmediateType DEF Call
<1>2. CASE FlushStatusWrites \/ TimerFires
  <2>1. FlushDir("flush") /\ UNCHANGED <<deleter, deletes>>
    BY <1>2 DEF FlushStatusWrites, TimerFires
  <2> QED BY <2>1, FlushDirType DEF TypeInv, TypeOK
<1>3. CASE Delete
  BY <1>3, DeleteType
<1>4. ASSUME NEW e \in Pendings, Begin(e) \/ Complete(e) PROVE TypeInv'
  BY <1>4, BeginFlushType, SyncWriteType, SyncWriteFailsType, StatusReadType,
     StatusWrittenType, StatusWriteFailsType DEF Begin, Complete
<1>5. CASE UNCHANGED vars
  BY <1>5 DEF vars, TypeInv, TypeOK, OpsOnChain
<1> QED BY <1>1, <1>2, <1>3, <1>4, <1>5 DEF Next

(* The queue's state keeps its types, whatever is called and whatever fails. *)
THEOREM StatusTypeCorrect == Spec => []TypeOK
<1>1. TypeInv => TypeOK
  BY DEF TypeInv
<1> QED BY TypeInit, TypeStep, <1>1, PTL DEF Spec

-----------------------------------------------------------------------------
(* The patches of the run loop: nothing is lost or reordered.               *)

LEMMA PatchNat ==
  ASSUME TypeInv, NEW k \in Keys
  PROVE  /\ disk.doc[k] \in Nat /\ latest[k] \in Nat /\ ticket \in Nat
         /\ \A e \in Pendings : op[e].patch[k] \in Nat /\ pend[e].patch[k] \in Nat
<1>1. \A p \in Patch : p[k] \in Nat
  BY BoundsAssumption DEF Patch
<1>2. disk.doc \in Patch /\ latest \in Patch /\ ticket \in Nat
  BY BoundsAssumption DEF TypeInv, TypeOK
<1>3. \A e \in Pendings : op[e].patch \in Patch /\ pend[e].patch \in Patch
  BY DEF TypeInv, TypeOK, PendingRec, Phase
<1> QED BY <1>1, <1>2, <1>3

LEMMA EmptyAt == \A k \in Keys : Empty[k] = 0
  BY DEF Empty

LEMMA MergeAt ==
  ASSUME NEW p, NEW q, NEW k \in Keys
  PROVE  Merge(p, q)[k] = IF q[k] # 0 THEN q[k] ELSE p[k]
  BY DEF Merge

(* Finishing an operation on a chain of flushes. *)
LEMMA SettleFlush ==
  ASSUME IInv, NEW e \in Pendings, chain[e] # <<>>
  PROVE  /\ Head(chain[e]) = FlushOp("flush") /\ Head(chain[e]).kind # "drain"
         /\ \A f \in Pendings : \A i \in 1..Len([chain EXCEPT ![e] = Tail(@)][f]) :
                [chain EXCEPT ![e] = Tail(@)][f][i] = FlushOp("flush")
<1>1. chain[e] \in Seq(OpRec) /\ chain \in [Pendings -> Seq(OpRec)]
  BY DEF IInv, TypeInv, TypeOK
<1>2. Len(chain[e]) >= 1 /\ Head(chain[e]) = chain[e][1]
  BY <1>1
<1>3. Head(chain[e]) = FlushOp("flush")
  BY <1>2 DEF IInv, OnlyFlushes
<1>4. \A i \in 1..Len(Tail(chain[e])) : Tail(chain[e])[i] = FlushOp("flush")
  BY <1>1, <1>2 DEF IInv, OnlyFlushes
<1>5. \A f \in Pendings : \A i \in 1..Len([chain EXCEPT ![e] = Tail(@)][f]) :
         [chain EXCEPT ![e] = Tail(@)][f][i] = FlushOp("flush")
  BY <1>1, <1>4 DEF IInv, OnlyFlushes
<1> QED BY <1>3, <1>5 DEF FlushOp

(* A running operation is on the current Pending. *)
LEMMA RunsOnCur ==
  ASSUME IInv, NEW e \in Pendings, op[e].at # "idle" PROVE e = cur /\ cur # None
  BY PendingsAssumption DEF IInv, OneWriter, None

LEMMA EnqueueKeeps ==
  ASSUME IInv, TypeInv', NEW e \in Pendings, NEW ks \in SUBSET Keys, NEW term \in BOOLEAN,
         EnqueueStatusPatch(e, ks, term)
  PROVE  OnlyFlushes' /\ OneWriter' /\ Ordered' /\ FreshBase' /\ Kept'
<1> DEFINE t == ticket + 1
<1>1. /\ op' = op /\ disk' = disk /\ abandoned' = abandoned /\ deleter' = deleter
      /\ cur' = e /\ ticket' = t
  BY DEF EnqueueStatusPatch, Accept
<1>2. cur = None \/ cur = e
  BY DEF EnqueueStatusPatch, Ensured
<1>3. Contents(e).patch = pend[e].patch
  BY <1>2, PendingsAssumption DEF Contents, Fresh, IInv, OneWriter, None
<1>4. \A f \in Pendings : f # e => pend'[f] = pend[f]
  BY DEF EnqueueStatusPatch
<1>5. pend'[e].patch = Merge(pend[e].patch, Stamp(ks, t))
  BY <1>3 DEF EnqueueStatusPatch, IInv, TypeInv, TypeOK
<1>6. latest' = Merge(latest, Stamp(ks, t))
  BY DEF EnqueueStatusPatch, Accept
<1>7. t # 0 /\ \A k \in Keys : Stamp(ks, t)[k] = IF k \in ks THEN t ELSE 0
  BY PatchNat, KeysAssumption DEF Stamp, IInv
<1>8. \A k \in Keys : /\ pend'[e].patch[k] = IF k \in ks THEN t ELSE pend[e].patch[k]
                      /\ latest'[k] = IF k \in ks THEN t ELSE latest[k]
  BY <1>5, <1>6, <1>7, MergeAt
<1>9. OnlyFlushes'
  <2>1. chain' = chain \/ chain' = [chain EXCEPT ![e] = Append(@, FlushOp("flush"))]
    BY DEF EnqueueStatusPatch
  <2>2. chain[e] \in Seq(OpRec) /\ chain \in [Pendings -> Seq(OpRec)]
    BY DEF IInv, TypeInv, TypeOK
  <2>3. \A i \in 1..Len(Append(chain[e], FlushOp("flush"))) :
          Append(chain[e], FlushOp("flush"))[i] = FlushOp("flush")
    BY <2>2 DEF IInv, OnlyFlushes
  <2> QED BY <1>1, <2>1, <2>2, <2>3 DEF IInv, OnlyFlushes
<1>10. OneWriter'
  BY <1>1, <1>2, <1>4, PendingsAssumption DEF IInv, OneWriter, None
<1>11. Ordered'
  <2> SUFFICES ASSUME NEW k \in Keys, NEW f \in Pendings
      PROVE /\ disk.doc[k] <= latest'[k] /\ latest'[k] <= t
            /\ op[f].patch[k] # 0 =>
                  disk.doc[k] < op[f].patch[k] /\ op[f].patch[k] <= latest'[k]
            /\ pend'[f].patch[k] # 0 =>
                  /\ disk.doc[k] < pend'[f].patch[k] /\ pend'[f].patch[k] <= latest'[k]
                  /\ op[f].patch[k] < pend'[f].patch[k]
    BY <1>1, <1>2 DEF Ordered
  <2>1. /\ disk.doc[k] \in Nat /\ latest[k] \in Nat /\ ticket \in Nat
        /\ op[f].patch[k] \in Nat /\ pend[f].patch[k] \in Nat
    BY PatchNat DEF IInv
  <2>2. /\ disk.doc[k] <= latest[k] /\ latest[k] <= ticket
        /\ op[f].patch[k] # 0 =>
              disk.doc[k] < op[f].patch[k] /\ op[f].patch[k] <= latest[k]
        /\ pend[f].patch[k] # 0 =>
              /\ disk.doc[k] < pend[f].patch[k] /\ pend[f].patch[k] <= latest[k]
              /\ op[f].patch[k] < pend[f].patch[k]
    BY DEF IInv, Ordered
  <2>3. pend'[f].patch[k] = IF f = e /\ k \in ks THEN t ELSE pend[f].patch[k]
    BY <1>4, <1>8
  <2>4. latest'[k] = IF k \in ks THEN t ELSE latest[k]
    BY <1>8
  <2> QED BY <2>1, <2>2, <2>3, <2>4
<1>12. FreshBase'
  BY <1>1 DEF IInv, FreshBase
<1>13. Kept'
  <2> SUFFICES ASSUME NEW k \in Keys, latest'[k] # 0
      PROVE disk.doc[k] = latest'[k] \/ pend'[e].patch[k] = latest'[k]
            \/ op[e].patch[k] = latest'[k]
    BY <1>1, PendingsAssumption DEF Kept, None
  <2> QED BY <1>2, <1>8 DEF IInv, Kept
<1> QED BY <1>9, <1>10, <1>11, <1>12, <1>13

LEMMA FlushDirKeeps ==
  ASSUME IInv, FlushDir("flush"), UNCHANGED deleter
  PROVE  OnlyFlushes' /\ OneWriter' /\ Ordered' /\ FreshBase' /\ Kept'
<1>1. /\ op' = op /\ disk' = disk /\ abandoned' = abandoned /\ deleter' = deleter
      /\ cur' = cur /\ latest' = latest /\ ticket' = ticket /\ cur \in Pendings
      /\ chain' = [chain EXCEPT ![cur] = Append(@, FlushOp("flush"))]
  BY DEF FlushDir, IInv, TypeInv, TypeOK
<1>2. \A f \in Pendings : pend'[f].patch = pend[f].patch /\ (f # cur => pend'[f] = pend[f])
  BY DEF FlushDir, IInv, TypeInv, TypeOK, PendingRec
<1>3. OnlyFlushes'
  <2>1. chain[cur] \in Seq(OpRec) /\ chain \in [Pendings -> Seq(OpRec)]
    BY <1>1 DEF IInv, TypeInv, TypeOK
  <2>2. \A i \in 1..Len(Append(chain[cur], FlushOp("flush"))) :
          Append(chain[cur], FlushOp("flush"))[i] = FlushOp("flush")
    BY <1>1, <2>1 DEF IInv, OnlyFlushes
  <2> QED BY <1>1, <2>1, <2>2 DEF IInv, OnlyFlushes
<1>4. OneWriter' /\ Ordered' /\ FreshBase'
  BY <1>1, <1>2 DEF IInv, OneWriter, Ordered, FreshBase
<1>5. Kept'
  BY <1>1, <1>2 DEF IInv, Kept
<1> QED BY <1>3, <1>4, <1>5

LEMMA BeginFlushKeeps ==
  ASSUME IInv, TypeInv', NEW e \in Pendings, BeginFlush(e)
  PROVE  OnlyFlushes' /\ OneWriter' /\ Ordered' /\ FreshBase' /\ Kept'
<1>1. /\ disk' = disk /\ abandoned' = abandoned /\ latest' = latest /\ ticket' = ticket
      /\ chain[e] # <<>> /\ op[e] = Idle /\ ~abandoned
  BY DEF BeginFlush, Ready, IInv, TypeInv, OpsOnChain, OnlyFlushes
<1>2. /\ pend'[e] = [pend[e] EXCEPT !.patch = Empty]
      /\ pend'[e].patch = Empty /\ pend'[e].timer = pend[e].timer
      /\ \A f \in Pendings : f # e => pend'[f] = pend[f]
  BY DEF BeginFlush, IInv, TypeInv, TypeOK, PendingRec
<1>3. CASE pend[e].patch = Empty
  <2>1. Settle(e, pend'[e], TRUE)
    BY <1>3 DEF BeginFlush
  <2>2. op' = op
    BY <2>1, <1>1 DEF Settle, IInv, TypeInv, TypeOK
  <2>3. \A f \in Pendings : pend'[f].patch = pend[f].patch /\ pend'[f].timer = pend[f].timer
    BY <1>2, <1>3
  <2>4. OnlyFlushes'
    BY <2>1, <1>1, SettleFlush DEF Settle, IInv, OnlyFlushes
  <2>5. cur' = cur \/ (cur' = None /\ cur = e /\ ~pend[e].timer)
    BY <2>1, <1>2 DEF Settle
  <2>6. OneWriter'
    BY <2>2, <2>3, <2>5, <1>1, <1>3 DEF IInv, OneWriter, Idle
  <2>7. Ordered' /\ FreshBase'
    BY <1>1, <2>2, <2>3 DEF IInv, Ordered, FreshBase
  <2>8. Kept'
    <3>1. \A k \in Keys : pend[e].patch[k] = 0 /\ op[e].patch[k] = 0
      BY <1>1, <1>3, EmptyAt DEF Idle
    <3>2. CASE cur' = cur
      BY <1>1, <2>2, <2>3, <3>2 DEF IInv, Kept, TypeInv, TypeOK
    <3>3. CASE cur = e
      BY <1>1, <3>1, <3>3 DEF IInv, Kept
    <3> QED BY <2>5, <3>2, <3>3
  <2> QED BY <2>4, <2>6, <2>7, <2>8
<1>4. CASE pend[e].patch # Empty
  <2>1. /\ op' = [op EXCEPT ![e] = [Idle EXCEPT !.at = "read", !.patch = pend[e].patch]]
        /\ UNCHANGED <<chain, cur, deleter>>
    BY <1>1, <1>4 DEF BeginFlush
  <2>2. /\ op'[e].at = "read" /\ op'[e].patch = pend[e].patch
        /\ \A f \in Pendings : f # e => op'[f] = op[f]
    BY <2>1 DEF Idle, IInv, TypeInv, TypeOK
  <2>3. e = cur
    BY <1>4 DEF IInv, OneWriter
  <2>4. OnlyFlushes' /\ OneWriter'
    BY <1>1, <1>2, <2>1, <2>2, <2>3 DEF IInv, OnlyFlushes, OneWriter
  <2>5. Ordered'
    <3>1. \A k \in Keys : pend'[e].patch[k] = 0
      BY <1>2, EmptyAt
    <3> SUFFICES ASSUME NEW k \in Keys, NEW f \in Pendings
        PROVE /\ disk.doc[k] <= latest[k] /\ latest[k] <= ticket
              /\ op'[f].patch[k] # 0 =>
                    disk.doc[k] < op'[f].patch[k] /\ op'[f].patch[k] <= latest[k]
              /\ pend'[f].patch[k] # 0 =>
                    /\ disk.doc[k] < pend'[f].patch[k] /\ pend'[f].patch[k] <= latest[k]
                    /\ op'[f].patch[k] < pend'[f].patch[k]
      BY <1>1 DEF Ordered, IInv
    <3>2. CASE f = e
      BY <2>2, <3>1, <3>2 DEF IInv, Ordered
    <3>3. CASE f # e
      BY <1>2, <2>2, <3>3 DEF IInv, Ordered
    <3> QED BY <3>2, <3>3
  <2>6. FreshBase'
    BY <1>1, <2>2 DEF IInv, FreshBase
  <2>7. Kept'
    <3>1. \A k \in Keys : op[e].patch[k] = 0
      BY <1>1, EmptyAt DEF Idle
    <3> QED BY <1>1, <2>1, <2>2, <2>3, <3>1 DEF IInv, Kept
  <2> QED BY <2>4, <2>5, <2>6, <2>7
<1> QED BY <1>3, <1>4

LEMMA StatusReadKeeps ==
  ASSUME IInv, TypeInv', NEW e \in Pendings, StatusRead(e)
  PROVE  OnlyFlushes' /\ OneWriter' /\ Ordered' /\ FreshBase' /\ Kept'
<1>1. /\ disk' = disk /\ abandoned' = abandoned /\ latest' = latest /\ ticket' = ticket
      /\ pend' = pend /\ chain' = chain /\ cur' = cur /\ deleter' = deleter /\ disk.exists
      /\ op' = [op EXCEPT ![e].at = "write", ![e].base = disk.doc, ![e].mkdir = ~disk.exists]
  BY DEF StatusRead, IInv, OnlyFlushes
<1>2. /\ op'[e].at = "write" /\ op'[e].base = disk.doc /\ ~op'[e].mkdir
      /\ \A f \in Pendings : op'[f].patch = op[f].patch /\ (f # e => op'[f] = op[f])
  BY <1>1 DEF IInv, TypeInv, TypeOK, Phase
<1>3. e = cur
  BY RunsOnCur DEF StatusRead
<1>4. OnlyFlushes'
  BY <1>1 DEF IInv, OnlyFlushes
<1>7. OneWriter'
  <2>1. \A f \in Pendings : f # e => op'[f] = op[f] /\ pend'[f] = pend[f]
    BY <1>1, <1>2
  <2>2. \A f \in Pendings : f # e => op[f].at = "idle" /\ pend[f].patch = Empty /\ ~pend[f].timer
    BY <1>3 DEF IInv, OneWriter
  <2>3. cur' = e
    BY <1>1, <1>3
  <2> QED BY <2>1, <2>2, <2>3 DEF OneWriter
<1>8. FreshBase'
  BY <1>1, <1>2 DEF IInv, FreshBase
<1>5. Ordered'
  BY <1>1, <1>2 DEF IInv, Ordered
<1>6. Kept'
  <2> SUFFICES ASSUME NEW k \in Keys, latest[k] # 0
      PROVE disk.doc[k] = latest[k] \/ pend[e].patch[k] = latest[k]
            \/ op'[e].patch[k] = latest[k]
    BY <1>1, <1>3, PendingsAssumption DEF Kept, None
  <2> QED BY <1>2, <1>3 DEF IInv, Kept
<1> QED BY <1>4, <1>5, <1>6, <1>7, <1>8

LEMMA StatusWrittenKeeps ==
  ASSUME IInv, TypeInv', NEW e \in Pendings, StatusWritten(e)
  PROVE  OnlyFlushes' /\ OneWriter' /\ Ordered' /\ FreshBase' /\ Kept'
<1>1. /\ abandoned' = abandoned /\ latest' = latest /\ ticket' = ticket
      /\ op[e].at = "write" /\ e = cur /\ chain[e] # <<>>
      /\ disk' = [exists |-> TRUE, doc |-> Merge(op[e].base, op[e].patch)]
      /\ pend' = [pend EXCEPT ![e].failures = 0]
      /\ Settle(e, pend'[e], TRUE)
  BY RunsOnCur DEF StatusWritten, IInv, TypeInv, OpsOnChain
<1>2. \A f \in Pendings : pend'[f].patch = pend[f].patch /\ pend'[f].timer = pend[f].timer
  BY <1>1 DEF IInv, TypeInv, TypeOK, PendingRec
<1>3. /\ op'[e] = Idle /\ op'[e].at = "idle" /\ op'[e].patch = Empty
      /\ \A f \in Pendings : f # e => op'[f] = op[f] /\ op[f].at = "idle"
  BY <1>1 DEF Settle, Idle, IInv, TypeInv, TypeOK, OneWriter
<1>4. /\ chain' = [chain EXCEPT ![e] = Tail(@)] /\ deleter' = deleter
      /\ cur' = cur \/ (cur' = None /\ pend[e].patch = Empty /\ ~pend[e].timer)
  BY <1>1, <1>2, SettleFlush DEF Settle
<1>5. OnlyFlushes'
  BY <1>1, <1>4, SettleFlush DEF IInv, OnlyFlushes
<1>6. OneWriter'
  BY <1>1, <1>2, <1>3, <1>4 DEF IInv, OneWriter
<1>7. FreshBase'
  <2>1. \A f \in Pendings : op'[f].at = "idle"
    BY <1>3
  <2> QED BY <2>1 DEF FreshBase
<1>8. \A k \in Keys : disk'.doc[k] = IF op[e].patch[k] # 0 THEN op[e].patch[k] ELSE disk.doc[k]
  BY <1>1, MergeAt DEF IInv, FreshBase
<1>9. \A k \in Keys : op'[e].patch[k] = 0
  BY <1>3, EmptyAt
<1>10. Ordered'
  <2> SUFFICES ASSUME NEW k \in Keys, NEW f \in Pendings
      PROVE /\ disk'.doc[k] <= latest[k] /\ latest[k] <= ticket
            /\ op'[f].patch[k] # 0 =>
                  disk'.doc[k] < op'[f].patch[k] /\ op'[f].patch[k] <= latest[k]
            /\ pend[f].patch[k] # 0 =>
                  /\ disk'.doc[k] < pend[f].patch[k] /\ pend[f].patch[k] <= latest[k]
                  /\ op'[f].patch[k] < pend[f].patch[k]
    BY <1>1, <1>2 DEF Ordered
  <2>1. /\ disk.doc[k] \in Nat /\ latest[k] \in Nat /\ ticket \in Nat
        /\ op[f].patch[k] \in Nat /\ pend[f].patch[k] \in Nat /\ op[e].patch[k] \in Nat
    BY PatchNat DEF IInv
  <2>2. disk'.doc[k] <= latest[k] /\ latest[k] <= ticket
    BY <1>8 DEF IInv, Ordered
  <2>3. CASE f = e
    BY <1>8, <1>9, <2>1, <2>2, <2>3 DEF IInv, Ordered
  <2>4. CASE f # e
    <3>1. op'[f] = Idle /\ pend[f].patch = Empty
      BY <1>1, <1>3, <2>4 DEF IInv, OneWriter, TypeInv, OpsOnChain
    <3> QED BY <2>2, <3>1, EmptyAt DEF Idle
  <2> QED BY <2>3, <2>4
<1>11. Kept'
  <2> SUFFICES ASSUME NEW k \in Keys, latest[k] # 0
      PROVE disk'.doc[k] = latest[k] \/ (cur' = e /\ cur' # None /\ pend[e].patch[k] = latest[k])
    BY <1>1, <1>2 DEF Kept
  <2>1. cur # None
    BY <1>1, PendingsAssumption DEF None
  <2>2. pend[e].patch[k] = latest[k] => cur' = e
    BY <1>1, <1>4, EmptyAt
  <2>3. disk.doc[k] = latest[k] => op[e].patch[k] = 0
    BY PatchNat DEF IInv, Ordered
  <2> QED BY <1>1, <1>8, <2>1, <2>2, <2>3 DEF IInv, Kept
<1> QED BY <1>5, <1>6, <1>7, <1>10, <1>11

LEMMA StatusWriteFailsKeeps ==
  ASSUME IInv, TypeInv', NEW e \in Pendings, StatusWriteFails(e)
  PROVE  OnlyFlushes' /\ OneWriter' /\ Ordered' /\ FreshBase' /\ Kept'
<1>1. /\ abandoned' = abandoned /\ ~abandoned /\ disk' = disk /\ latest' = latest
      /\ ticket' = ticket /\ e = cur /\ cur # None /\ chain[e] # <<>>
      /\ Fail(e, op[e].patch)
  BY RunsOnCur DEF StatusWriteFails, IInv, TypeInv, OpsOnChain, OnlyFlushes
<1>2. /\ pend' = [pend EXCEPT ![e] =
            WithRetry([pend[e] EXCEPT !.patch = Requeued(op[e].patch, pend[e].patch)])]
      /\ chain' = [chain EXCEPT ![e] = Tail(@)]
      /\ op' = [op EXCEPT ![e] = Idle]
      /\ deleter' = IF Head(chain[e]).kind = "drain" THEN "drained" ELSE deleter
      /\ cur' = e
  BY <1>1 DEF Fail, Ensured, Contents
<1>3. [pend[e] EXCEPT !.patch = Requeued(op[e].patch, pend[e].patch)] \in PendingRec
  <2>1. Requeued(op[e].patch, pend[e].patch) \in Patch
    BY MergeType DEF Requeued, IInv, TypeInv, TypeOK, PendingRec, Phase
  <2>2. pend[e] \in PendingRec
    BY DEF IInv, TypeInv, TypeOK
  <2> QED BY ONLY <2>1, <2>2 DEF PendingRec
<1>4. pend'[e].patch = Merge(op[e].patch, pend[e].patch)
      /\ \A f \in Pendings : f # e => pend'[f] = pend[f]
  BY <1>2, <1>3, WithRetryType DEF Requeued, IInv, TypeInv, TypeOK, PendingRec
<1>5. /\ op'[e] = Idle /\ op'[e].at = "idle" /\ op'[e].patch = Empty
      /\ \A f \in Pendings : f # e => op'[f] = op[f] /\ op[f].at = "idle"
  BY <1>1, <1>2 DEF Idle, IInv, TypeInv, TypeOK, OneWriter
<1>6. OnlyFlushes'
  BY <1>1, <1>2, SettleFlush DEF IInv, OnlyFlushes
<1>7. OneWriter'
  BY <1>1, <1>2, <1>4, <1>5 DEF IInv, OneWriter
<1>8. FreshBase'
  <2>1. \A f \in Pendings : op'[f].at = "idle"
    BY <1>5
  <2> QED BY <2>1 DEF FreshBase
<1>9. \A k \in Keys :
        /\ pend'[e].patch[k] = IF pend[e].patch[k] # 0 THEN pend[e].patch[k] ELSE op[e].patch[k]
        /\ op'[e].patch[k] = 0
  BY <1>4, <1>5, MergeAt, EmptyAt
<1>10. Ordered'
  <2> SUFFICES ASSUME NEW k \in Keys, NEW f \in Pendings
      PROVE /\ disk.doc[k] <= latest[k] /\ latest[k] <= ticket
            /\ op'[f].patch[k] # 0 =>
                  disk.doc[k] < op'[f].patch[k] /\ op'[f].patch[k] <= latest[k]
            /\ pend'[f].patch[k] # 0 =>
                  /\ disk.doc[k] < pend'[f].patch[k] /\ pend'[f].patch[k] <= latest[k]
                  /\ op'[f].patch[k] < pend'[f].patch[k]
    BY <1>1 DEF Ordered
  <2>1. /\ disk.doc[k] \in Nat /\ latest[k] \in Nat
        /\ op[e].patch[k] \in Nat /\ pend[e].patch[k] \in Nat
    BY PatchNat DEF IInv
  <2>2. disk.doc[k] <= latest[k] /\ latest[k] <= ticket
    BY DEF IInv, Ordered
  <2>3. CASE f = e
    BY <1>9, <2>1, <2>2, <2>3 DEF IInv, Ordered
  <2>4. CASE f # e
    BY <1>4, <1>5, <2>2, <2>4 DEF IInv, Ordered
  <2> QED BY <2>3, <2>4
<1>11. Kept'
  <2> SUFFICES ASSUME NEW k \in Keys, latest[k] # 0
      PROVE disk.doc[k] = latest[k] \/ pend'[e].patch[k] = latest[k]
    BY <1>1, <1>2 DEF Kept
  <2>1. op[e].patch[k] = latest[k] => pend[e].patch[k] = 0 \/ pend[e].patch[k] = latest[k]
    BY PatchNat DEF IInv, Ordered
  <2> QED BY <1>1, <1>9, <2>1 DEF IInv, Kept
<1> QED BY <1>6, <1>7, <1>8, <1>10, <1>11

LEMMA KeptInit == Init => IInv
<1> SUFFICES ASSUME Init PROVE IInv
  OBVIOUS
<1>1. TypeInv
  BY TypeInit
<1>2. OnlyFlushes /\ OneWriter /\ FreshBase
  BY DEF Init, OnlyFlushes, OneWriter, FreshBase, Fresh, Idle
<1>3. Ordered /\ Kept
  BY EmptyAt DEF Init, Ordered, Kept, Fresh, Idle
<1> QED BY <1>1, <1>2, <1>3 DEF IInv

(* The counts of immediate writes and of deletions never go back.           *)
LEMMA CountsGrow == TypeInv /\ [Next]_vars /\ QueueOnly' => QueueOnly
<1> SUFFICES ASSUME TypeInv, [Next]_vars, QueueOnly' PROVE QueueOnly
  OBVIOUS
<1>1. syncs \in Nat /\ deletes \in Nat
  BY BoundsAssumption DEF TypeInv, TypeOK
<1>2. CASE Call
  BY <1>1, <1>2 DEF Call, EnqueueStatusPatch, WriteStatusImmediate, QueueOnly
<1>3. CASE FlushStatusWrites \/ TimerFires
  BY <1>3 DEF FlushStatusWrites, TimerFires, FlushDir, QueueOnly
<1>4. CASE Delete
  BY <1>1, <1>4 DEF Delete, DeleteRun, AllowStatusWrites, DeletePermanently, BeginMove,
     ClearStatusWrites, EndMove, Removed, FlushDir, QueueOnly
<1>5. ASSUME NEW e \in Pendings, Begin(e) \/ Complete(e) PROVE QueueOnly
  BY <1>5 DEF Begin, Complete, BeginFlush, SyncWrite, SyncWriteFails, StatusRead,
     StatusWritten, StatusWriteFails, Fail, QueueOnly
<1>6. CASE UNCHANGED vars
  BY <1>6 DEF vars, QueueOnly
<1> QED BY <1>2, <1>3, <1>4, <1>5, <1>6 DEF Next

LEMMA KeptStep == IInv /\ [Next]_vars /\ QueueOnly' => IInv'
<1> SUFFICES ASSUME IInv, [Next]_vars, QueueOnly' PROVE IInv'
  OBVIOUS
<1>1. TypeInv'
  BY TypeStep DEF IInv
<1>2. CASE Call
  <2>1. PICK e \in Pendings, ks \in SUBSET Keys \ {{}}, term \in BOOLEAN :
          EnqueueStatusPatch(e, ks, term) \/ WriteStatusImmediate(e, ks, term)
    BY <1>2 DEF Call
  <2>2. ~WriteStatusImmediate(e, ks, term)
    BY BoundsAssumption DEF WriteStatusImmediate, QueueOnly, IInv, TypeInv, TypeOK
  <2> QED BY <1>1, <2>1, <2>2, EnqueueKeeps DEF IInv
<1>3. CASE FlushStatusWrites \/ TimerFires
  <2>1. FlushDir("flush") /\ UNCHANGED deleter
    BY <1>3 DEF FlushStatusWrites, TimerFires
  <2> QED BY <1>1, <2>1, FlushDirKeeps DEF IInv
<1>4. ~Delete
  BY BoundsAssumption
  DEF Delete, DeleteRun, AllowStatusWrites, DeletePermanently, BeginMove,
     ClearStatusWrites, EndMove, QueueOnly, IInv, OnlyFlushes, TypeInv, TypeOK
<1>5. ASSUME NEW e \in Pendings, Begin(e) \/ Complete(e) PROVE IInv'
  <2>1. chain[e] # <<>> => Head(chain[e]).kind = "flush"
    BY SettleFlush DEF FlushOp
  <2>2. ~SyncWrite(e) /\ ~SyncWriteFails(e)
    BY <2>1 DEF SyncWrite, SyncWriteFails, Ready
  <2> QED BY <1>1, <1>5, <2>2, BeginFlushKeeps, StatusReadKeeps, StatusWrittenKeeps,
             StatusWriteFailsKeeps DEF Begin, Complete, IInv
<1>6. CASE UNCHANGED vars
  <2>1. OnlyFlushes' /\ OneWriter' /\ Ordered' /\ FreshBase' /\ Kept'
    BY <1>6 DEF vars, IInv, OnlyFlushes, OneWriter, Ordered, FreshBase, Kept
  <2> QED BY <1>1, <2>1 DEF IInv
<1> QED BY <1>2, <1>3, <1>4, <1>5, <1>6 DEF Next

LEMMA KeptImplies == IInv => NothingLost /\ NewestWins
<1> SUFFICES ASSUME IInv PROVE NothingLost /\ NewestWins
  OBVIOUS
<1>a. Waiting = PendingPatches \cup QueuedPatches \cup PatchesBeingWritten
  BY DEF Waiting
<1>b. cur # None => cur \in Pendings
  BY DEF IInv, TypeInv, TypeOK
<1>1. /\ \A e \in Pendings : op[e].patch \in Waiting
      /\ cur # None => pend[cur].patch \in Waiting
  BY <1>a, <1>b DEF PendingPatches, PatchesBeingWritten
<1>2. NothingLost
  BY <1>1, <1>b DEF NothingLost, IInv, Kept
<1>3. \A e \in Pendings : \A i \in DOMAIN chain[e] : chain[e][i].patch = Empty
  BY DEF IInv, OnlyFlushes, TypeInv, TypeOK, FlushOp
<1>4. ASSUME NEW p \in Waiting, NEW k \in Keys, p[k] # 0 PROVE p[k] > disk.doc[k]
  <2>1. PICK e \in Pendings : p = pend[e].patch \/ p = op[e].patch \/ p = Empty
    <3>1. p \in QueuedPatches => p = Empty
      BY <1>3 DEF QueuedPatches
    <3>2. p \in PendingPatches => \E e \in Pendings : p = pend[e].patch
      BY <1>b DEF PendingPatches
    <3>3. p \in PatchesBeingWritten => \E e \in Pendings : p = op[e].patch
      BY DEF PatchesBeingWritten
    <3>4. p \in QueuedPatches => \E e \in Pendings : TRUE
      BY DEF QueuedPatches
    <3> QED BY <1>a, <1>4, <3>1, <3>2, <3>3, <3>4
  <2>2. p = pend[e].patch \/ p = op[e].patch
    BY <1>4, <2>1, EmptyAt
  <2> QED BY <1>4, <2>2, PatchNat DEF IInv, Ordered
<1>5. NewestWins
  BY <1>4 DEF NewestWins
<1> QED BY <1>2, <1>5

LEMMA KeptAlways == Spec => [](NothingLost /\ NewestWins)
<1> DEFINE Inv == TypeInv /\ (QueueOnly => IInv)
<1>1. Init => Inv
  BY KeptInit DEF IInv
<1>2. Inv /\ [Next]_vars => Inv'
  <2> SUFFICES ASSUME Inv, [Next]_vars PROVE Inv'
    OBVIOUS
  <2>1. TypeInv'
    BY TypeStep
  <2>2. QueueOnly' => IInv'
    BY CountsGrow, KeptStep
  <2> QED BY <2>1, <2>2
<1>3. Inv => NothingLost /\ NewestWins
  BY KeptImplies DEF NothingLost, NewestWins
<1> QED BY <1>1, <1>2, <1>3, PTL DEF Spec

(* As long as a run's status goes through enqueueStatusPatch and nobody      *)
(* deletes the run, no accepted value is lost, for any number of patches,   *)
(* keys, retries and failing writes.                                        *)
THEOREM QueuedPatchesKept == Spec => []NothingLost
<1> QED BY KeptAlways, PTL

(* Under the same premise no accepted value is overtaken by an older one:    *)
(* all that is queued, pending or being written is newer than the disk.     *)
THEOREM QueuedPatchesInOrder == Spec => []NewestWins
<1> QED BY KeptAlways, PTL

-----------------------------------------------------------------------------
(* A removed directory stays removed while the abandon mark stands.         *)

(* The operation a deleteRun waits for is the only drain on any chain.      *)
OneDrain ==
    /\ \A e \in Pendings : \A i \in 1..Len(chain[e]) : chain[e][i].kind = "drain" => deleter = "drain"
    /\ \A e, f \in Pendings : \A i \in 1..Len(chain[e]), j \in 1..Len(chain[f]) :
          chain[e][i].kind = "drain" /\ chain[f][j].kind = "drain" => e = f /\ i = j

(* A deletion works on a directory that is there, and only one removes it.  *)
Deleting == (deleter # "none" => disk.exists) /\ (deleter # "none" \/ ~disk.exists => deletes >= 1)

(* The mark stands while a directory is moved away and when it is gone.     *)
MarkHolds == ~lifted /\ (~disk.exists \/ deleter = "moving") => abandoned

(* Only a write begun after the mark was taken off may create the directory. *)
MkdirAfterLift ==
    \A e \in Pendings : op[e].mkdir =>
        /\ lifted /\ op[e].at = "write" /\ deletes >= 1
        /\ deletes <= 1 => ~abandoned /\ deleter = "none"

MarkInv == TypeInv /\ OneDrain /\ Deleting /\ MarkHolds /\ MkdirAfterLift

(* An operation ends: the wait of the deletion ends with the drain.         *)
LEMMA TailDrain ==
  ASSUME TypeInv, OneDrain, NEW e \in Pendings, chain[e] # <<>>,
         chain' = [chain EXCEPT ![e] = Tail(@)],
         deleter' = IF Head(chain[e]).kind = "drain" THEN "drained" ELSE deleter
  PROVE  OneDrain' /\ (deleter' # deleter => deleter = "drain" /\ deleter' = "drained")
<1>1. chain[e] \in Seq(OpRec) /\ chain \in [Pendings -> Seq(OpRec)]
  BY DEF TypeInv, TypeOK
<1>2. /\ Len(chain[e]) \in Nat /\ Len(chain[e]) >= 1 /\ Head(chain[e]) = chain[e][1]
      /\ Len(Tail(chain[e])) = Len(chain[e]) - 1
      /\ \A i \in 1..Len(Tail(chain[e])) : Tail(chain[e])[i] = chain[e][i + 1]
  BY <1>1
<1>3. chain'[e] = Tail(chain[e]) /\ \A f \in Pendings : f # e => chain'[f] = chain[f]
  BY <1>1
<1>4. \A i \in 1..Len(chain'[e]) : chain'[e][i] = chain[e][i + 1] /\ i + 1 \in 1..Len(chain[e])
  <2>1. Len(chain'[e]) = Len(chain[e]) - 1
    BY <1>2, <1>3
  <2>2. \A i \in 1..Len(chain'[e]) : i + 1 \in 1..Len(chain[e])
    BY <1>2, <2>1
  <2> QED BY <1>2, <1>3, <2>2
<1>5. CASE Head(chain[e]).kind = "drain"
  <2>1. deleter = "drain" /\ deleter' = "drained"
    BY <1>2, <1>5 DEF OneDrain
  <2>2. \A f \in Pendings : \A i \in 1..Len(chain'[f]) : chain'[f][i].kind # "drain"
    <3> SUFFICES ASSUME NEW f \in Pendings, NEW i \in 1..Len(chain'[f]),
                        chain'[f][i].kind = "drain" PROVE FALSE
      OBVIOUS
    <3>1. CASE f = e
      <4>1. i + 1 = 1
        BY <1>2, <1>4, <1>5, <3>1 DEF OneDrain
      <4> QED BY <1>3, <1>2, <3>1, <4>1
    <3>2. CASE f # e
      BY <1>2, <1>3, <1>5, <3>2 DEF OneDrain
    <3> QED BY <3>1, <3>2
  <2> QED BY <2>1, <2>2 DEF OneDrain
<1>6. CASE Head(chain[e]).kind # "drain"
  <2>1. deleter' = deleter
    BY <1>6
  <2>2. ASSUME NEW f \in Pendings, NEW i \in 1..Len(chain'[f])
        PROVE  \E j \in 1..Len(chain[f]) : /\ chain'[f][i] = chain[f][j]
                                           /\ j = IF f = e THEN i + 1 ELSE i
    BY <1>3, <1>4
  <2>3. \A f \in Pendings : \A i \in 1..Len(chain'[f]) :
           chain'[f][i].kind = "drain" => deleter' = "drain"
    BY <2>1, <2>2 DEF OneDrain
  <2>4. ASSUME NEW f \in Pendings, NEW g \in Pendings, NEW i \in 1..Len(chain'[f]),
               NEW j \in 1..Len(chain'[g]),
               chain'[f][i].kind = "drain", chain'[g][j].kind = "drain"
        PROVE  f = g /\ i = j
    <3>1. PICK i0 \in 1..Len(chain[f]) : chain'[f][i] = chain[f][i0]
                                         /\ i0 = IF f = e THEN i + 1 ELSE i
      BY <2>2
    <3>2. PICK j0 \in 1..Len(chain[g]) : chain'[g][j] = chain[g][j0]
                                         /\ j0 = IF g = e THEN j + 1 ELSE j
      BY <2>2
    <3>3. f = g /\ i0 = j0
      BY <2>4, <3>1, <3>2 DEF OneDrain
    <3> QED BY <3>1, <3>2, <3>3
  <2> QED BY <2>1, <2>3, <2>4 DEF OneDrain
<1> QED BY <1>5, <1>6

(* An operation is queued: a drain only by a deletion that begins.          *)
LEMMA AppendDrain ==
  ASSUME TypeInv, OneDrain, NEW e \in Pendings, NEW x \in OpRec,
         chain' = [chain EXCEPT ![e] = Append(@, x)],
         \/ x.kind # "drain" /\ deleter' = deleter
         \/ deleter = "none" /\ deleter' = "drain"
  PROVE  OneDrain'
<1>1. chain[e] \in Seq(OpRec) /\ chain \in [Pendings -> Seq(OpRec)]
  BY DEF TypeInv, TypeOK
<1>2. chain'[e] = Append(chain[e], x) /\ \A f \in Pendings : f # e => chain'[f] = chain[f]
  BY <1>1
<1>3. /\ Len(chain'[e]) = Len(chain[e]) + 1 /\ Len(chain[e]) \in Nat
      /\ chain'[e][Len(chain[e]) + 1] = x
      /\ \A i \in 1..Len(chain[e]) : chain'[e][i] = chain[e][i]
  BY <1>1, <1>2
<1>4. \A f \in Pendings : \A i \in 1..Len(chain'[f]) :
         \/ i \in 1..Len(chain[f]) /\ chain'[f][i] = chain[f][i]
         \/ f = e /\ i = Len(chain[e]) + 1 /\ chain'[f][i] = x
  BY <1>2, <1>3
<1> HIDE DEF OneDrain
<1>5. CASE x.kind # "drain" /\ deleter' = deleter
  BY <1>4, <1>5 DEF OneDrain
<1>6. CASE deleter = "none" /\ deleter' = "drain"
  <2>1. \A f \in Pendings : \A i \in 1..Len(chain[f]) : chain[f][i].kind # "drain"
    BY <1>6 DEF OneDrain
  <2>2. \A f \in Pendings : \A i \in 1..Len(chain'[f]) :
           chain'[f][i].kind = "drain" => f = e /\ i = Len(chain[e]) + 1
    BY <1>4, <2>1
  <2> QED BY <1>6, <2>2 DEF OneDrain
<1> QED BY <1>5, <1>6

(* Operations end without touching the directory, the mark or the count.    *)
LEMMA FailDrain ==
  ASSUME TypeInv, OneDrain, NEW e \in Pendings, chain[e] # <<>>, NEW failed, Fail(e, failed)
  PROVE  /\ OneDrain' /\ (deleter' # deleter => deleter = "drain" /\ deleter' = "drained")
         /\ op' = [op EXCEPT ![e] = Idle]
<1>1. /\ chain' = [chain EXCEPT ![e] = Tail(@)]
      /\ deleter' = IF Head(chain[e]).kind = "drain" THEN "drained" ELSE deleter
      /\ op' = [op EXCEPT ![e] = Idle]
  BY DEF Fail, Settle
<1> QED BY <1>1, TailDrain

LEMMA SettleDrain ==
  ASSUME TypeInv, OneDrain, NEW e \in Pendings, chain[e] # <<>>, NEW after, NEW forget,
         Settle(e, after, forget)
  PROVE  /\ OneDrain' /\ (deleter' # deleter => deleter = "drain" /\ deleter' = "drained")
         /\ op' = [op EXCEPT ![e] = Idle]
<1>1. /\ chain' = [chain EXCEPT ![e] = Tail(@)]
      /\ deleter' = IF Head(chain[e]).kind = "drain" THEN "drained" ELSE deleter
      /\ op' = [op EXCEPT ![e] = Idle]
  BY DEF Settle
<1> QED BY <1>1, TailDrain

(* What an operation that ends leaves of the invariant.                     *)
LEMMA EndKeeps ==
  ASSUME MarkInv, OneDrain', NEW e \in Pendings, op' = [op EXCEPT ![e] = Idle],
         deleter' # deleter => deleter = "drain" /\ deleter' = "drained",
         disk'.exists = disk.exists \/ (disk'.exists = TRUE),
         UNCHANGED <<abandoned, lifted, deletes>>
  PROVE  Deleting' /\ MarkHolds' /\ MkdirAfterLift'
<1>1. ~op'[e].mkdir /\ \A f \in Pendings : f # e => op'[f] = op[f]
  BY DEF Idle, MarkInv, TypeInv, TypeOK
<1>2. disk.exists \in BOOLEAN /\ deletes \in Nat
  BY BoundsAssumption DEF MarkInv, TypeInv, TypeOK
<1>3. Deleting'
  BY <1>2 DEF MarkInv, Deleting
<1>4. MarkHolds'
  BY <1>2 DEF MarkInv, MarkHolds
<1>5. MkdirAfterLift'
  <2> SUFFICES ASSUME NEW f \in Pendings, op'[f].mkdir
      PROVE /\ lifted /\ op'[f].at = "write" /\ deletes >= 1
            /\ deletes <= 1 => ~abandoned /\ deleter' = "none"
    BY DEF MkdirAfterLift
  <2>1. f # e /\ op'[f] = op[f]
    BY <1>1
  <2> QED BY <2>1 DEF MarkInv, MkdirAfterLift
<1> QED BY <1>3, <1>4, <1>5

LEMMA MarkBeginComplete ==
  ASSUME MarkInv, NEW e \in Pendings, Begin(e) \/ Complete(e)
  PROVE  OneDrain' /\ Deleting' /\ MarkHolds' /\ MkdirAfterLift'
<1>a. TypeInv /\ OneDrain
  BY DEF MarkInv
<1>b. op[e].at # "idle" => chain[e] # <<>>
  BY DEF MarkInv, TypeInv, OpsOnChain
<1>1. CASE BeginFlush(e)
  <2>1. UNCHANGED <<abandoned, disk, lifted, deletes>> /\ chain[e] # <<>> /\ op[e].at = "idle"
    BY <1>1 DEF BeginFlush, Ready
  <2>2. CASE pend[e].patch = Empty \/ abandoned
    <3>1. Settle(e, pend'[e], TRUE)
      BY <1>1, <2>2 DEF BeginFlush
    <3> QED BY <1>a, <2>1, <3>1, SettleDrain, EndKeeps
  <2>3. CASE ~(pend[e].patch = Empty \/ abandoned)
    <3>1. /\ op' = [op EXCEPT ![e] = [Idle EXCEPT !.at = "read", !.patch = pend[e].patch]]
          /\ UNCHANGED <<chain, cur, deleter>>
      BY <1>1, <2>3 DEF BeginFlush
    <3>2. ~op'[e].mkdir /\ \A f \in Pendings : f # e => op'[f] = op[f]
      BY <3>1 DEF Idle, MarkInv, TypeInv, TypeOK
    <3>3. OneDrain'
      BY <1>a, <3>1 DEF OneDrain
    <3>4. MkdirAfterLift'
      BY <2>1, <3>1, <3>2 DEF MarkInv, MkdirAfterLift
    <3> QED BY <2>1, <3>1, <3>3, <3>4 DEF MarkInv, Deleting, MarkHolds
  <2> QED BY <2>2, <2>3
<1>2. CASE SyncWrite(e)
  <2>1. /\ UNCHANGED <<abandoned, lifted, deletes>> /\ chain[e] # <<>> /\ disk'.exists = TRUE
        /\ Settle(e, pend'[e], TRUE)
    BY <1>2 DEF SyncWrite, Ready
  <2> QED BY <1>a, <2>1, SettleDrain, EndKeeps
<1>3. CASE SyncWriteFails(e)
  <2>1. UNCHANGED <<abandoned, disk, lifted, deletes>> /\ chain[e] # <<>>
        /\ Fail(e, Head(chain[e]).patch)
    BY <1>3 DEF SyncWriteFails, Ready
  <2> QED BY <1>a, <2>1, FailDrain, EndKeeps
<1>4. CASE StatusRead(e)
  <2>1. UNCHANGED <<abandoned, disk, lifted, deletes>> /\ chain[e] # <<>> /\ op[e].at = "read"
    BY <1>4, <1>b DEF StatusRead
  <2>2. CASE abandoned
    <3>1. Settle(e, pend[e], TRUE)
      BY <1>4, <2>2 DEF StatusRead
    <3> QED BY <1>a, <2>1, <3>1, SettleDrain, EndKeeps
  <2>3. CASE ~abandoned
    <3>1. /\ op' = [op EXCEPT ![e].at = "write", ![e].base = disk.doc,
                              ![e].mkdir = ~disk.exists]
          /\ UNCHANGED <<chain, cur, deleter>>
      BY <1>4, <2>3 DEF StatusRead
    <3>2. /\ op'[e].mkdir = ~disk.exists /\ op'[e].at = "write"
          /\ \A f \in Pendings : f # e => op'[f] = op[f]
      BY <3>1 DEF MarkInv, TypeInv, TypeOK, Phase
    <3>3. OneDrain'
      BY <1>a, <3>1 DEF OneDrain
    <3>4. ~disk.exists => lifted /\ deleter = "none" /\ deletes >= 1
      BY <2>3 DEF MarkInv, MarkHolds, Deleting
    <3>5. MkdirAfterLift'
      BY <2>1, <2>3, <3>1, <3>2, <3>4 DEF MarkInv, MkdirAfterLift
    <3> QED BY <2>1, <3>1, <3>3, <3>5 DEF MarkInv, Deleting, MarkHolds
  <2> QED BY <2>2, <2>3
<1>5. CASE StatusWritten(e)
  <2>1. /\ UNCHANGED <<abandoned, lifted, deletes>> /\ chain[e] # <<>> /\ disk'.exists = TRUE
        /\ Settle(e, pend'[e], TRUE)
    BY <1>5, <1>b DEF StatusWritten
  <2> QED BY <1>a, <2>1, SettleDrain, EndKeeps
<1>6. CASE StatusWriteFails(e)
  <2>1. UNCHANGED <<abandoned, disk, lifted, deletes>> /\ chain[e] # <<>>
        /\ Fail(e, op[e].patch)
    BY <1>6, <1>b DEF StatusWriteFails
  <2> QED BY <1>a, <2>1, FailDrain, EndKeeps
<1> QED BY <1>1, <1>2, <1>3, <1>4, <1>5, <1>6 DEF Begin, Complete

LEMMA MarkCall ==
  ASSUME MarkInv, NEW e \in Pendings, NEW ks \in SUBSET Keys, NEW term \in BOOLEAN,
         EnqueueStatusPatch(e, ks, term) \/ WriteStatusImmediate(e, ks, term)
  PROVE  OneDrain' /\ Deleting' /\ MarkHolds' /\ MkdirAfterLift'
<1>a. TypeInv /\ OneDrain
  BY DEF MarkInv
<1>1. CASE EnqueueStatusPatch(e, ks, term)
  <2>1. UNCHANGED <<op, abandoned, deleter, disk, lifted, deletes>>
    BY <1>1 DEF EnqueueStatusPatch
  <2>2. chain' = [chain EXCEPT ![e] = Append(@, FlushOp("flush"))] \/ chain' = chain
    BY <1>1 DEF EnqueueStatusPatch
  <2>3. CASE chain' = chain
    BY <1>a, <2>1, <2>3 DEF OneDrain, MarkInv, Deleting, MarkHolds, MkdirAfterLift
  <2>4. CASE chain' = [chain EXCEPT ![e] = Append(@, FlushOp("flush"))]
    <3>1. FlushOp("flush") \in OpRec /\ FlushOp("flush").kind # "drain"
      BY ConstTypes DEF FlushOp
    <3>2. OneDrain'
      BY <1>a, <2>1, <2>4, <3>1, AppendDrain
    <3> QED BY <2>1, <3>2 DEF MarkInv, Deleting, MarkHolds, MkdirAfterLift
  <2> QED BY <2>2, <2>3, <2>4
<1>2. CASE WriteStatusImmediate(e, ks, term)
  <2> DEFINE x == [kind |-> "sync", patch |-> Merge(Contents(e).patch, Stamp(ks, ticket + 1))]
  <2>1. /\ UNCHANGED <<op, deleter, disk, deletes>> /\ ~abandoned'
        /\ lifted' = (lifted \/ abandoned)
        /\ chain' = [chain EXCEPT ![e] = Append(@, x)]
    BY <1>2 DEF WriteStatusImmediate
  <2>2. x \in OpRec /\ x.kind # "drain"
    <3>1. Stamp(ks, ticket + 1) \in Patch
      BY <1>2, AcceptType DEF WriteStatusImmediate, TypeInv, MarkInv
    <3>2. Contents(e).patch \in Patch
      BY <1>a, ContentsType DEF TypeInv, PendingRec
    <3> QED BY <3>1, <3>2, MergeType DEF OpRec
  <2> HIDE DEF x
  <2>3. OneDrain'
    BY <1>a, <2>1, <2>2, AppendDrain
  <2>4. Deleting' /\ MarkHolds' /\ MkdirAfterLift'
    BY <2>1 DEF MarkInv, Deleting, MarkHolds, MkdirAfterLift
  <2> QED BY <2>3, <2>4
<1> QED BY <1>1, <1>2

LEMMA MarkFlush ==
  ASSUME MarkInv, FlushDir("flush"), UNCHANGED <<deleter, deletes>>
  PROVE  OneDrain' /\ Deleting' /\ MarkHolds' /\ MkdirAfterLift'
<1>1. cur \in Pendings /\ TypeInv /\ OneDrain
  BY DEF FlushDir, MarkInv, TypeInv, TypeOK
<1>2. /\ UNCHANGED <<op, abandoned, disk, lifted>>
      /\ chain' = [chain EXCEPT ![cur] = Append(@, FlushOp("flush"))]
  BY DEF FlushDir
<1>3. FlushOp("flush") \in OpRec /\ FlushOp("flush").kind # "drain"
  BY ConstTypes DEF FlushOp
<1>4. OneDrain'
  BY <1>1, <1>2, <1>3, AppendDrain
<1> QED BY <1>2, <1>4 DEF MarkInv, Deleting, MarkHolds, MkdirAfterLift

LEMMA MarkDelete ==
  ASSUME MarkInv, Delete
  PROVE  OneDrain' /\ Deleting' /\ MarkHolds' /\ MkdirAfterLift'
<1>a. TypeInv /\ OneDrain /\ deletes \in Nat
  BY BoundsAssumption DEF MarkInv, TypeInv, TypeOK
<1>1. CASE DeleteRun
  <2>1. /\ deleter = "none" /\ disk.exists /\ deletes' = deletes + 1
        /\ UNCHANGED <<op, abandoned, disk, lifted>> /\ deleter' \in {"drain", "drained"}
    BY <1>1 DEF DeleteRun, FlushDir
  <2>2. OneDrain'
    <3>1. CASE cur = None
      <4>1. chain' = chain /\ deleter' = "drained"
        BY <1>1, <3>1 DEF DeleteRun
      <4> QED BY <1>a, <2>1, <4>1 DEF OneDrain
    <3>2. CASE cur # None
      <4>1. /\ chain' = [chain EXCEPT ![cur] = Append(@, FlushOp("drain"))]
            /\ deleter' = "drain" /\ cur \in Pendings
        BY <1>1, <1>a, <3>2 DEF DeleteRun, FlushDir, TypeInv, TypeOK
      <4> QED BY <1>a, <2>1, <4>1, ConstTypes, AppendDrain
    <3> QED BY <3>1, <3>2
  <2>3. MkdirAfterLift'
    <3> SUFFICES ASSUME NEW e \in Pendings, op[e].mkdir
        PROVE lifted /\ op[e].at = "write" /\ deletes' >= 1 /\ ~(deletes' <= 1)
      BY <2>1 DEF MkdirAfterLift
    <3>1. lifted /\ op[e].at = "write"
      BY DEF MarkInv, MkdirAfterLift
    <3>2. deletes >= 1
      BY DEF MarkInv, MkdirAfterLift
    <3> QED BY <1>a, <2>1, <3>1, <3>2
  <2>4. Deleting' /\ MarkHolds'
    BY <1>a, <2>1 DEF Deleting, MarkHolds
  <2> QED BY <2>2, <2>3, <2>4
<1>2. ASSUME NEW mark \in BOOLEAN, ClearStatusWrites(mark), deleter' \in {"none", "moving"},
             \/ mark /\ disk' = disk
             \/ mark /\ Removed /\ deleter' = "none"
             \/ disk' = disk /\ deleter' = "none"
      PROVE  OneDrain' /\ Deleting' /\ MarkHolds' /\ MkdirAfterLift'
  <2>1. /\ deleter = "drained" /\ abandoned' = mark /\ UNCHANGED <<chain, op, lifted, deletes>>
    BY <1>2 DEF ClearStatusWrites
  <2>2. disk.exists /\ deletes >= 1 /\ (disk' = disk \/ (Removed /\ deleter' = "none" /\ mark))
    BY <1>2, <2>1 DEF MarkInv, Deleting
  <2>3. OneDrain'
    BY <1>a, <2>1 DEF OneDrain
  <2>4. Deleting' /\ MarkHolds'
    <3>1. Removed => ~disk'.exists
      BY DEF Removed
    <3>2. disk'.exists = disk.exists \/ (~disk'.exists /\ deleter' = "none" /\ mark)
      BY <2>2, <3>1
    <3>3. mark => abandoned'
      BY <2>1
    <3>4. deleter' = "moving" => mark
      BY <1>2
    <3> QED BY <2>1, <2>2, <3>2, <3>3, <3>4, <1>2 DEF Deleting, MarkHolds
  <2>5. MkdirAfterLift'
    BY <2>1 DEF MarkInv, MkdirAfterLift
  <2> QED BY <2>3, <2>4, <2>5
<1>3. ASSUME NEW ok \in BOOLEAN, EndMove(ok)
      PROVE  OneDrain' /\ Deleting' /\ MarkHolds' /\ MkdirAfterLift'
  <2>1. /\ deleter = "moving" /\ deleter' = "none"
        /\ UNCHANGED <<chain, op, abandoned, lifted, deletes>>
    BY <1>3 DEF EndMove
  <2>2. OneDrain'
    BY <1>a, <2>1 DEF OneDrain
  <2>3. Deleting' /\ MarkHolds'
    BY <2>1 DEF MarkInv, Deleting, MarkHolds
  <2>4. MkdirAfterLift'
    BY <2>1 DEF MarkInv, MkdirAfterLift
  <2> QED BY <2>2, <2>3, <2>4
<1>4. CASE AllowStatusWrites
  BY <1>2, <1>4 DEF AllowStatusWrites
<1>5. CASE DeletePermanently
  BY <1>2, <1>5 DEF DeletePermanently
<1>6. CASE BeginMove
  BY <1>2, <1>6 DEF BeginMove
<1> QED BY <1>1, <1>3, <1>4, <1>5, <1>6 DEF Delete

LEMMA MarkInit == Init => MarkInv
<1> SUFFICES ASSUME Init PROVE MarkInv
  OBVIOUS
<1>1. OneDrain /\ Deleting /\ MarkHolds /\ MkdirAfterLift
  BY DEF Init, OneDrain, Deleting, MarkHolds, MkdirAfterLift, Idle
<1> QED BY <1>1, TypeInit DEF MarkInv

LEMMA MarkStep == MarkInv /\ [Next]_vars => MarkInv'
<1> SUFFICES ASSUME MarkInv, [Next]_vars PROVE MarkInv'
  OBVIOUS
<1>1. TypeInv'
  BY TypeStep DEF MarkInv
<1>2. OneDrain' /\ Deleting' /\ MarkHolds' /\ MkdirAfterLift'
  <2>1. CASE Call
    BY <2>1, MarkCall DEF Call
  <2>2. CASE FlushStatusWrites \/ TimerFires
    BY <2>2, MarkFlush DEF FlushStatusWrites, TimerFires
  <2>3. CASE Delete
    BY <2>3, MarkDelete
  <2>4. ASSUME NEW e \in Pendings, Begin(e) \/ Complete(e)
        PROVE  OneDrain' /\ Deleting' /\ MarkHolds' /\ MkdirAfterLift'
    BY <2>4, MarkBeginComplete
  <2>5. CASE UNCHANGED vars
    BY <2>5 DEF vars, MarkInv, OneDrain, Deleting, MarkHolds, MkdirAfterLift
  <2> QED BY <2>1, <2>2, <2>3, <2>4, <2>5 DEF Next
<1> QED BY <1>1, <1>2 DEF MarkInv

(* The steps that bring a directory back.                                   *)
LEMMA OnlySyncRevives ==
  ASSUME MarkInv, [Next]_vars, deletes <= 1 \/ ~lifted,
         abandoned, ~disk.exists, disk'.exists
  PROVE  \E e \in Pendings : SyncWrite(e)
<1>1. ASSUME NEW e \in Pendings, Begin(e) \/ Complete(e) PROVE SyncWrite(e)
  <2>1. ~StatusWritten(e)
    BY DEF StatusWritten, MarkInv, MkdirAfterLift
  <2> QED BY <1>1, <2>1 DEF Begin, Complete, BeginFlush, SyncWriteFails, StatusRead,
         StatusWriteFails
<1>2. ~Call
  BY DEF Call, EnqueueStatusPatch, WriteStatusImmediate
<1>3. ~FlushStatusWrites /\ ~TimerFires
  BY DEF FlushStatusWrites, TimerFires, FlushDir
<1>4. ~Delete
  <2>1. ~Removed /\ disk' # disk
    BY DEF Removed
  <2> QED BY <2>1 DEF Delete, DeleteRun, FlushDir, AllowStatusWrites, DeletePermanently,
         BeginMove, EndMove
<1>5. ~UNCHANGED vars
  BY DEF vars
<1> QED BY <1>1, <1>2, <1>3, <1>4, <1>5 DEF Next

(* No flush, retry or timer brings a removed run directory back while the   *)
(* abandon mark stands, whatever number of Pending objects, queued writes,  *)
(* failures and deletions: only an immediate write can.                     *)
THEOREM DeletedStaysDeleted == Spec => NoResurrection
<1>1. MarkInv /\ [Next]_vars
        => [(deletes <= 1 \/ ~lifted) /\ abandoned /\ abandoned' /\ ~disk.exists /\ disk'.exists
              => \E e \in Pendings : SyncWrite(e)]_vars
  BY OnlySyncRevives
<1> QED BY MarkInit, MarkStep, <1>1, PTL DEF Spec, NoResurrection
-----------------------------------------------------------------------------
(* An immediate write is not reverted, while the disk does not fail and     *)
(* nobody deletes the run.                                                  *)
Calm == deletes = 0 /\ faults = 0

OnlyWrites ==
    /\ ~abandoned /\ deleter = "none" /\ disk.exists
    /\ \A e \in Pendings : \A i \in 1..Len(chain[e]) :
          /\ chain[e][i].kind # "drain"
          /\ chain[e][i].kind = "flush" => chain[e][i].patch = Empty

(* Work remains on the current Pending, or on the one a microtask of which  *)
(* is next: what that one had left when it was forgotten runs at once.      *)
OneChain ==
    /\ due # None => due \in Pendings /\ chain[due] # <<>> /\ op[due].at = "idle"
                     /\ cur \in {due, None}
    /\ \A e \in Pendings : e # cur =>
          op[e].at = "idle" /\ pend[e].patch = Empty /\ (chain[e] # <<>> => e = due)

(* What waits for a flush is newer than the disk, and than every immediate  *)
(* write: that one took along all there was.                                *)
FlushesNewer ==
    \A k \in Keys :
        /\ disk.doc[k] <= ticket /\ synced[k] <= ticket
        /\ \A e \in Pendings :
              /\ op[e].patch[k] # 0 => disk.doc[k] < op[e].patch[k] /\ op[e].patch[k] <= ticket
              /\ pend[e].patch[k] # 0 =>
                    /\ disk.doc[k] < pend[e].patch[k] /\ pend[e].patch[k] <= ticket
                    /\ op[e].patch[k] < pend[e].patch[k] /\ synced[k] < pend[e].patch[k]

(* A queued immediate write is older than what is pending, and has the      *)
(* newest one behind it if it is not itself that.                           *)
SyncsInOrder ==
    \A k \in Keys, e \in Pendings : \A i \in 1..Len(chain[e]) : chain[e][i].patch[k] # 0 =>
        /\ chain[e][i].patch[k] <= ticket
        /\ pend[e].patch[k] # 0 => chain[e][i].patch[k] < pend[e].patch[k]
        /\ chain[e][i].patch[k] < synced[k] =>
              \E j \in 1..Len(chain[e]) : j > i /\ chain[e][j].kind = "sync"
                                          /\ chain[e][j].patch[k] = synced[k]

CalmInv == TypeInv /\ OnlyWrites /\ OneChain /\ FlushesNewer /\ SyncsInOrder /\ FreshBase

LEMMA CalmNat ==
  ASSUME TypeInv, NEW k \in Keys
  PROVE  /\ disk.doc[k] \in Nat /\ synced[k] \in Nat /\ ticket \in Nat
         /\ \A e \in Pendings : op[e].patch[k] \in Nat /\ pend[e].patch[k] \in Nat
         /\ \A e \in Pendings : \A i \in 1..Len(chain[e]) : chain[e][i].patch[k] \in Nat
<1>1. \A p \in Patch : p[k] \in Nat
  BY BoundsAssumption DEF Patch
<1>2. synced \in Patch
  BY DEF TypeInv, TypeOK
<1>3. \A e \in Pendings : \A i \in 1..Len(chain[e]) : chain[e][i] \in OpRec
  BY DEF TypeInv, TypeOK
<1>4. \A e \in Pendings : \A i \in 1..Len(chain[e]) : chain[e][i].patch \in Patch
  BY <1>3 DEF OpRec
<1> QED BY <1>1, <1>2, <1>4, PatchNat

(* The operation that runs or may start is alone.                           *)
LEMMA Alone ==
  ASSUME CalmInv, NEW e \in Pendings,
         Ready(e) \/ (Quiet /\ op[e].at # "idle")
  PROVE  /\ chain[e] # <<>> /\ cur \in {e, None}
         /\ \A f \in Pendings : f # e =>
               op[f] = Idle /\ pend[f].patch = Empty /\ chain[f] = <<>>
<1>1. chain[e] # <<>>
  BY DEF Ready, CalmInv, TypeInv, OpsOnChain
<1>2. None \notin Pendings
  BY PendingsAssumption DEF None
<1>3. CASE due = None
  <2>1. cur = e
    BY <1>1, <1>2, <1>3 DEF CalmInv, OneChain
  <2> QED BY <1>1, <1>2, <1>3, <2>1 DEF CalmInv, OneChain, TypeInv, OpsOnChain
<1>4. CASE due # None
  <2>1. due = e
    BY <1>4 DEF Ready, Quiet
  <2>2. cur \in {e, None}
    BY <1>4, <2>1 DEF CalmInv, OneChain
  <2> QED BY <1>1, <1>2, <2>1, <2>2 DEF CalmInv, OneChain, TypeInv, OpsOnChain
<1> QED BY <1>3, <1>4

(* What is left of a chain when its head is done.                           *)
LEMMA TailAt ==
  ASSUME TypeInv, NEW e \in Pendings, chain[e] # <<>>, chain' = [chain EXCEPT ![e] = Tail(@)]
  PROVE  /\ Len(chain[e]) \in Nat /\ Len(chain[e]) >= 1 /\ Head(chain[e]) = chain[e][1]
         /\ Len(chain'[e]) = Len(chain[e]) - 1
         /\ \A i \in 1..Len(chain'[e]) :
               i + 1 \in 1..Len(chain[e]) /\ chain'[e][i] = chain[e][i + 1]
         /\ chain'[e] # <<>> <=> Len(chain[e]) > 1
         /\ \A f \in Pendings : f # e => chain'[f] = chain[f]
<1>1. chain[e] \in Seq(OpRec) /\ chain \in [Pendings -> Seq(OpRec)]
  BY DEF TypeInv, TypeOK
<1>2. chain'[e] = Tail(chain[e]) /\ \A f \in Pendings : f # e => chain'[f] = chain[f]
  BY <1>1
<1>3. Len(chain[e]) \in Nat /\ Len(chain[e]) >= 1 /\ Head(chain[e]) = chain[e][1]
  BY <1>1
<1>4. /\ Len(chain'[e]) = Len(chain[e]) - 1 /\ chain'[e] \in Seq(OpRec)
      /\ \A i \in 1..Len(Tail(chain[e])) : Tail(chain[e])[i] = chain[e][i + 1]
  BY <1>1, <1>2
<1>5. chain'[e] # <<>> <=> Len(chain'[e]) > 0
  <2>1. \A s \in Seq(OpRec) : s # <<>> <=> Len(s) > 0
    OBVIOUS
  <2> QED BY <1>4, <2>1
<1>6. \A i \in 1..Len(chain'[e]) : i + 1 \in 1..Len(chain[e])
  BY <1>3, <1>4
<1>7. \A i \in 1..Len(chain'[e]) : chain'[e][i] = chain[e][i + 1]
  BY <1>2, <1>4
<1>8. chain'[e] # <<>> <=> Len(chain[e]) > 1
  BY <1>3, <1>4, <1>5
<1> QED BY <1>2, <1>3, <1>4, <1>6, <1>7, <1>8

(* An operation that ends keeps one chain and the order of the rest.        *)
LEMMA SettleCalm ==
  ASSUME CalmInv, NEW e \in Pendings, Ready(e) \/ (Quiet /\ op[e].at # "idle"),
         NEW after, NEW forget, Settle(e, after, forget),
         after.patch = pend[e].patch,
         \A f \in Pendings : pend'[f].patch = pend[f].patch,
         UNCHANGED <<abandoned, synced, ticket>>, disk'.exists
  PROVE  /\ OnlyWrites' /\ OneChain' /\ SyncsInOrder' /\ FreshBase'
         /\ op'[e] = Idle /\ \A f \in Pendings : op'[f] = Idle
<1>1. /\ chain[e] # <<>> /\ cur \in {e, None}
      /\ \A f \in Pendings : f # e => op[f] = Idle /\ pend[f].patch = Empty /\ chain[f] = <<>>
  BY Alone
<1>2. /\ chain' = [chain EXCEPT ![e] = Tail(@)]
      /\ op' = [op EXCEPT ![e] = Idle]
      /\ due' = IF chain'[e] # <<>> THEN e ELSE None
      /\ deleter' = IF Head(chain[e]).kind = "drain" THEN "drained" ELSE deleter
      /\ cur' = IF forget /\ cur = e /\ after.patch = Empty /\ ~after.timer THEN None ELSE cur
  BY DEF Settle, CalmInv, TypeInv, TypeOK
<1>3. /\ Len(chain[e]) \in Nat /\ Len(chain[e]) >= 1 /\ Head(chain[e]) = chain[e][1]
      /\ Len(chain'[e]) = Len(chain[e]) - 1
      /\ \A i \in 1..Len(chain'[e]) :
            i + 1 \in 1..Len(chain[e]) /\ chain'[e][i] = chain[e][i + 1]
      /\ \A f \in Pendings : f # e => chain'[f] = <<>>
  BY <1>1, <1>2, TailAt DEF CalmInv
<1>4. \A f \in Pendings : op'[f] = Idle
  BY <1>1, <1>2 DEF CalmInv, TypeInv, TypeOK
<1>5. OnlyWrites'
  <2>1. deleter' = deleter
    BY <1>2, <1>3 DEF CalmInv, OnlyWrites
  <2>2. ASSUME NEW f \in Pendings, NEW i \in 1..Len(chain'[f])
        PROVE  /\ chain'[f][i].kind # "drain"
               /\ chain'[f][i].kind = "flush" => chain'[f][i].patch = Empty
    <3>1. f = e
      BY <1>3, <2>2
    <3> QED BY <1>3, <2>2, <3>1 DEF CalmInv, OnlyWrites
  <2> QED BY <2>1, <2>2 DEF CalmInv, OnlyWrites
<1>6. OneChain'
  <2>1. cur' \in {e, None} /\ None \notin Pendings
    BY <1>1, <1>2, PendingsAssumption DEF None
  <2>2. due' # None => due' = e /\ chain'[e] # <<>>
    BY <1>2
  <2>3. \A f \in Pendings : f # cur' => pend[f].patch = Empty
    <3>1. cur' # e => pend[e].patch = Empty
      BY <1>1, <1>2 DEF CalmInv, OneChain
    <3> QED BY <1>1, <2>1, <3>1
  <2>4. \A f \in Pendings : chain'[f] # <<>> => f = due'
    BY <1>2, <1>3
  <2>5. \A f \in Pendings : op'[f].at = "idle"
    BY <1>4 DEF Idle
  <2> QED BY <2>1, <2>2, <2>3, <2>4, <2>5 DEF OneChain
<1>7. SyncsInOrder'
  <2> SUFFICES ASSUME NEW k \in Keys, NEW f \in Pendings, NEW i \in 1..Len(chain'[f]),
                      chain'[f][i].patch[k] # 0
      PROVE /\ chain'[f][i].patch[k] <= ticket
            /\ pend[f].patch[k] # 0 => chain'[f][i].patch[k] < pend[f].patch[k]
            /\ chain'[f][i].patch[k] < synced[k] =>
                  \E j \in 1..Len(chain'[f]) : j > i /\ chain'[f][j].kind = "sync"
                                               /\ chain'[f][j].patch[k] = synced[k]
    BY DEF SyncsInOrder
  <2>1. f = e
    BY <1>3
  <2>2. i + 1 \in 1..Len(chain[e]) /\ chain'[e][i] = chain[e][i + 1]
    BY <1>3, <2>1
  <2>3. /\ chain[e][i + 1].patch[k] <= ticket
        /\ pend[e].patch[k] # 0 => chain[e][i + 1].patch[k] < pend[e].patch[k]
        /\ chain[e][i + 1].patch[k] < synced[k] =>
              \E j \in 1..Len(chain[e]) : j > i + 1 /\ chain[e][j].kind = "sync"
                                          /\ chain[e][j].patch[k] = synced[k]
    BY <2>1, <2>2 DEF CalmInv, SyncsInOrder
  <2>4. ASSUME NEW j \in 1..Len(chain[e]), j > i + 1
        PROVE  j - 1 \in 1..Len(chain'[e]) /\ j - 1 > i /\ chain'[e][j - 1] = chain[e][j]
    <3>1. j - 1 \in 1..Len(chain'[e]) /\ j - 1 > i /\ (j - 1) + 1 = j
      BY <1>3, <2>4, <2>1
    <3> QED BY <1>3, <3>1
  <2> QED BY <2>1, <2>2, <2>3, <2>4
<1>8. FreshBase'
  BY <1>4 DEF FreshBase, Idle
<1> QED BY <1>4, <1>5, <1>6, <1>7, <1>8

LEMMA CalmStatusWritten ==
  ASSUME CalmInv, NEW e \in Pendings, StatusWritten(e)
  PROVE  /\ OnlyWrites' /\ OneChain' /\ FlushesNewer' /\ SyncsInOrder' /\ FreshBase'
         /\ \A k \in Keys : disk'.doc[k] >= disk.doc[k]
<1>1. /\ UNCHANGED <<abandoned, synced, ticket>> /\ Quiet /\ op[e].at = "write"
      /\ disk' = [exists |-> TRUE, doc |-> Merge(op[e].base, op[e].patch)]
      /\ pend' = [pend EXCEPT ![e].failures = 0]
      /\ Settle(e, pend'[e], TRUE)
  BY DEF StatusWritten
<1>2. \A f \in Pendings : pend'[f].patch = pend[f].patch
  BY <1>1 DEF CalmInv, TypeInv, TypeOK, PendingRec
<1>3. OnlyWrites' /\ OneChain' /\ SyncsInOrder' /\ FreshBase' /\ \A f \in Pendings : op'[f] = Idle
  <2>1. disk'.exists /\ pend'[e].patch = pend[e].patch /\ op[e].at # "idle"
    BY <1>1, <1>2
  <2> QED BY <1>1, <1>2, <2>1, SettleCalm
<1>4. \A k \in Keys : disk'.doc[k] = IF op[e].patch[k] # 0 THEN op[e].patch[k] ELSE disk.doc[k]
  BY <1>1, MergeAt DEF CalmInv, FreshBase
<1>5. \A f \in Pendings : f # e => pend[f].patch = Empty
  BY <1>1, Alone
<1>6. ASSUME NEW k \in Keys
      PROVE  /\ disk'.doc[k] >= disk.doc[k] /\ disk'.doc[k] <= ticket
             /\ pend[e].patch[k] # 0 => disk'.doc[k] < pend[e].patch[k]
  BY <1>4, CalmNat DEF CalmInv, FlushesNewer
<1>7. FlushesNewer'
  <2> SUFFICES ASSUME NEW k \in Keys, NEW f \in Pendings
      PROVE /\ disk'.doc[k] <= ticket /\ synced[k] <= ticket
            /\ op'[f].patch[k] = 0
            /\ pend[f].patch[k] # 0 =>
                  /\ disk'.doc[k] < pend[f].patch[k] /\ pend[f].patch[k] <= ticket
                  /\ 0 < pend[f].patch[k] /\ synced[k] < pend[f].patch[k]
    BY <1>1, <1>2, <1>6 DEF CalmInv, FlushesNewer
  <2>1. op'[f].patch[k] = 0
    BY <1>3, EmptyAt DEF Idle
  <2>2. f # e => pend[f].patch[k] = 0
    BY <1>5, EmptyAt
  <2> QED BY <1>6, <2>1, <2>2, CalmNat DEF CalmInv, FlushesNewer
<1> QED BY <1>3, <1>6, <1>7

LEMMA CalmSyncWrite ==
  ASSUME CalmInv, NEW e \in Pendings, SyncWrite(e)
  PROVE  /\ OnlyWrites' /\ OneChain' /\ FlushesNewer' /\ SyncsInOrder' /\ FreshBase'
         /\ \A k \in Keys : disk.doc[k] >= synced[k] => disk'.doc[k] >= synced[k] \/ Coming(k)'
<1> DEFINE p == Head(chain[e]).patch
<1>1. /\ UNCHANGED <<abandoned, synced, ticket>> /\ Ready(e)
      /\ disk' = [exists |-> TRUE, doc |-> Merge(disk.doc, p)]
      /\ pend' = [pend EXCEPT ![e].failures = 0]
      /\ Settle(e, pend'[e], TRUE)
  BY DEF SyncWrite
<1>2. \A f \in Pendings : pend'[f].patch = pend[f].patch
  BY <1>1 DEF CalmInv, TypeInv, TypeOK, PendingRec
<1>3. OnlyWrites' /\ OneChain' /\ SyncsInOrder' /\ FreshBase' /\ \A f \in Pendings : op'[f] = Idle
  <2>1. disk'.exists /\ pend'[e].patch = pend[e].patch
    BY <1>1, <1>2
  <2> QED BY <1>1, <1>2, <2>1, SettleCalm
<1>4. \A k \in Keys : disk'.doc[k] = IF p[k] # 0 THEN p[k] ELSE disk.doc[k]
  BY <1>1, MergeAt
<1>5. chain[e] # <<>> /\ \A f \in Pendings : f # e => pend[f].patch = Empty
  BY <1>1, Alone
<1>6. chain' = [chain EXCEPT ![e] = Tail(@)]
  BY <1>1 DEF Settle
<1>7. /\ Len(chain[e]) \in Nat /\ Len(chain[e]) >= 1 /\ Head(chain[e]) = chain[e][1]
      /\ Len(chain'[e]) = Len(chain[e]) - 1
      /\ \A i \in 1..Len(chain'[e]) : chain'[e][i] = chain[e][i + 1]
  BY <1>5, <1>6, TailAt DEF CalmInv
<1>8. 1 \in 1..Len(chain[e]) /\ p = chain[e][1].patch
  BY <1>7
<1> HIDE DEF p
<1>9. ASSUME NEW k \in Keys, p[k] # 0
      PROVE  /\ p[k] <= ticket /\ (pend[e].patch[k] # 0 => p[k] < pend[e].patch[k])
             /\ p[k] < synced[k] =>
                   \E j \in 1..Len(chain[e]) : j > 1 /\ chain[e][j].kind = "sync"
                                               /\ chain[e][j].patch[k] = synced[k]
  BY <1>8, <1>9 DEF CalmInv, SyncsInOrder
<1>10. ASSUME NEW k \in Keys, disk.doc[k] >= synced[k], ~(disk'.doc[k] >= synced[k])
       PROVE  Coming(k)'
  <2>1. p[k] # 0 /\ disk'.doc[k] = p[k]
    BY <1>4, <1>10
  <2>2. p[k] < synced[k]
    BY <1>8, <1>10, <2>1, CalmNat DEF CalmInv
  <2>3. PICK j \in 1..Len(chain[e]) : j > 1 /\ chain[e][j].kind = "sync"
                                      /\ chain[e][j].patch[k] = synced[k]
    BY <1>9, <2>1, <2>2
  <2>4. j - 1 \in 1..Len(chain'[e]) /\ (j - 1) + 1 = j
    BY <1>7, <2>3
  <2>5. chain'[e][j - 1] = chain[e][j]
    BY <1>7, <2>4
  <2>6. DOMAIN chain'[e] = 1..Len(chain'[e])
    <3>1. chain[e] \in Seq(OpRec) /\ chain'[e] = Tail(chain[e])
      BY <1>6 DEF CalmInv, TypeInv, TypeOK
    <3> QED BY <1>5, <3>1
  <2> QED BY <1>1, <2>3, <2>4, <2>5, <2>6 DEF Coming
<1>11. ASSUME NEW k \in Keys
       PROVE  /\ disk'.doc[k] <= ticket
              /\ pend[e].patch[k] # 0 => disk'.doc[k] < pend[e].patch[k]
  BY <1>4, <1>9, CalmNat DEF CalmInv, FlushesNewer
<1>12. FlushesNewer'
  <2> SUFFICES ASSUME NEW k \in Keys, NEW f \in Pendings
      PROVE /\ disk'.doc[k] <= ticket /\ synced[k] <= ticket
            /\ op'[f].patch[k] = 0
            /\ pend[f].patch[k] # 0 =>
                  /\ disk'.doc[k] < pend[f].patch[k] /\ pend[f].patch[k] <= ticket
                  /\ 0 < pend[f].patch[k] /\ synced[k] < pend[f].patch[k]
    BY <1>1, <1>2, <1>11 DEF CalmInv, FlushesNewer
  <2>1. op'[f].patch[k] = 0
    BY <1>3, EmptyAt DEF Idle
  <2>2. f # e => pend[f].patch[k] = 0
    BY <1>5, EmptyAt
  <2> QED BY <1>11, <2>1, <2>2, CalmNat DEF CalmInv, FlushesNewer
<1> QED BY <1>3, <1>10, <1>12

LEMMA CalmBeginFlush ==
  ASSUME CalmInv, NEW e \in Pendings, BeginFlush(e)
  PROVE  OnlyWrites' /\ OneChain' /\ FlushesNewer' /\ SyncsInOrder' /\ FreshBase'
<1>1. /\ UNCHANGED <<abandoned, disk, synced, ticket>> /\ Ready(e) /\ op[e] = Idle
      /\ pend' = [pend EXCEPT ![e].patch = Empty] /\ ~abandoned
  BY DEF BeginFlush, Ready, CalmInv, OnlyWrites, TypeInv, OpsOnChain
<1>2. /\ pend'[e].patch = Empty /\ pend'[e].timer = pend[e].timer
      /\ \A f \in Pendings : f # e => pend'[f] = pend[f]
  BY <1>1 DEF CalmInv, TypeInv, TypeOK, PendingRec
<1>3. CASE pend[e].patch = Empty
  <2>1. Settle(e, pend'[e], TRUE) /\ disk'.exists
    BY <1>1, <1>3 DEF BeginFlush, CalmInv, OnlyWrites
  <2>2. pend'[e].patch = pend[e].patch /\ \A f \in Pendings : pend'[f].patch = pend[f].patch
    BY <1>2, <1>3
  <2>3. OnlyWrites' /\ OneChain' /\ SyncsInOrder' /\ FreshBase' /\ \A f \in Pendings : op'[f] = Idle
    BY <1>1, <2>1, <2>2, SettleCalm
  <2>4. FlushesNewer'
    <3> SUFFICES ASSUME NEW k \in Keys, NEW f \in Pendings
        PROVE /\ disk.doc[k] <= ticket /\ synced[k] <= ticket
              /\ op'[f].patch[k] = 0
              /\ pend[f].patch[k] # 0 =>
                    /\ disk.doc[k] < pend[f].patch[k] /\ pend[f].patch[k] <= ticket
                    /\ 0 < pend[f].patch[k] /\ synced[k] < pend[f].patch[k]
      BY <1>1, <2>2 DEF CalmInv, FlushesNewer
    <3>1. op'[f].patch[k] = 0
      BY <2>3, EmptyAt DEF Idle
    <3> QED BY <3>1, CalmNat DEF CalmInv, FlushesNewer
  <2> QED BY <2>3, <2>4
<1>4. CASE pend[e].patch # Empty
  <2>1. /\ op' = [op EXCEPT ![e] = [Idle EXCEPT !.at = "read", !.patch = pend[e].patch]]
        /\ due' = None /\ UNCHANGED <<chain, cur, deleter>>
    BY <1>1, <1>4 DEF BeginFlush
  <2>2. /\ op'[e].at = "read" /\ op'[e].patch = pend[e].patch
        /\ \A f \in Pendings : f # e => op'[f] = op[f]
    BY <2>1 DEF Idle, CalmInv, TypeInv, TypeOK
  <2>3. e = cur
    BY <1>4 DEF CalmInv, OneChain
  <2>4. \A f \in Pendings : f # e => op[f] = Idle /\ pend[f].patch = Empty /\ chain[f] = <<>>
    BY <1>1, Alone
  <2>5. OnlyWrites'
    BY <1>1, <2>1 DEF CalmInv, OnlyWrites
  <2>6. OneChain'
    BY <1>2, <2>1, <2>2, <2>3, <2>4 DEF OneChain, Idle
  <2>7. FlushesNewer'
    <3> SUFFICES ASSUME NEW k \in Keys, NEW f \in Pendings
        PROVE /\ disk.doc[k] <= ticket /\ synced[k] <= ticket
              /\ op'[f].patch[k] # 0 =>
                    disk.doc[k] < op'[f].patch[k] /\ op'[f].patch[k] <= ticket
              /\ pend'[f].patch[k] = 0
      BY <1>1 DEF FlushesNewer
    <3>1. CASE f = e
      BY <1>2, <2>2, <3>1, EmptyAt DEF CalmInv, FlushesNewer
    <3>2. CASE f # e
      BY <1>2, <2>2, <2>4, <3>2, EmptyAt DEF CalmInv, FlushesNewer
    <3> QED BY <3>1, <3>2
  <2>8. SyncsInOrder'
    <3>1. \A k \in Keys, f \in Pendings : pend'[f].patch[k] # 0 => pend'[f].patch[k] = pend[f].patch[k]
      BY <1>2, EmptyAt
    <3> QED BY <1>1, <2>1, <3>1 DEF CalmInv, SyncsInOrder
  <2>9. FreshBase'
    BY <1>1, <2>2 DEF CalmInv, FreshBase
  <2> QED BY <2>5, <2>6, <2>7, <2>8, <2>9
<1> QED BY <1>3, <1>4

LEMMA CalmStatusRead ==
  ASSUME CalmInv, NEW e \in Pendings, StatusRead(e)
  PROVE  OnlyWrites' /\ OneChain' /\ FlushesNewer' /\ SyncsInOrder' /\ FreshBase'
<1>1. /\ UNCHANGED <<abandoned, disk, synced, ticket, pend, chain, cur, due, deleter>>
      /\ due = None /\ disk.exists /\ op[e].at = "read"
      /\ op' = [op EXCEPT ![e].at = "write", ![e].base = disk.doc, ![e].mkdir = ~disk.exists]
  BY DEF StatusRead, Quiet, CalmInv, OnlyWrites
<1>2. /\ op'[e].at = "write" /\ op'[e].base = disk.doc /\ ~op'[e].mkdir
      /\ \A f \in Pendings : op'[f].patch = op[f].patch /\ (f # e => op'[f] = op[f])
  BY <1>1 DEF CalmInv, TypeInv, TypeOK, Phase
<1>3. e = cur
  BY <1>1 DEF CalmInv, OneChain
<1>4. OneChain'
  <2>1. OneChain
    BY DEF CalmInv
  <2>2. due' = None /\ cur' = cur /\ pend' = pend /\ chain' = chain /\ due = None
    BY <1>1
  <2> QED BY ONLY <1>2, <1>3, <2>1, <2>2 DEF OneChain
<1>5. FreshBase'
  BY <1>1, <1>2 DEF CalmInv, FreshBase
<1>6. FlushesNewer'
  <2> SUFFICES ASSUME NEW k \in Keys, NEW f \in Pendings
      PROVE /\ disk.doc[k] <= ticket /\ synced[k] <= ticket
            /\ op'[f].patch[k] # 0 => disk.doc[k] < op'[f].patch[k] /\ op'[f].patch[k] <= ticket
            /\ pend[f].patch[k] # 0 =>
                  /\ disk.doc[k] < pend[f].patch[k] /\ pend[f].patch[k] <= ticket
                  /\ op'[f].patch[k] < pend[f].patch[k] /\ synced[k] < pend[f].patch[k]
    BY <1>1 DEF FlushesNewer
  <2>1. op'[f].patch = op[f].patch
    BY <1>2
  <2> QED BY <2>1 DEF CalmInv, FlushesNewer
<1>7. OnlyWrites' /\ SyncsInOrder'
  BY <1>1 DEF CalmInv, OnlyWrites, SyncsInOrder
<1> QED BY <1>4, <1>5, <1>6, <1>7

(* What an appended operation leaves of a chain.                            *)
LEMMA AppendAt ==
  ASSUME TypeInv, NEW e \in Pendings, NEW x \in OpRec, chain' = [chain EXCEPT ![e] = Append(@, x)]
  PROVE  /\ Len(chain[e]) \in Nat /\ Len(chain'[e]) = Len(chain[e]) + 1
         /\ chain'[e] # <<>> /\ chain'[e][Len(chain[e]) + 1] = x
         /\ \A i \in 1..Len(chain[e]) : chain'[e][i] = chain[e][i]
         /\ \A f \in Pendings : f # e => chain'[f] = chain[f]
<1>1. chain[e] \in Seq(OpRec) /\ chain \in [Pendings -> Seq(OpRec)]
  BY DEF TypeInv, TypeOK
<1>2. chain'[e] = Append(chain[e], x) /\ \A f \in Pendings : f # e => chain'[f] = chain[f]
  BY <1>1
<1>3. chain'[e] # <<>>
  BY <1>1, <1>2, AppendGrows
<1> QED BY <1>1, <1>2, <1>3

(* The Pending a call works on while no microtask is due.                   *)
LEMMA CallTarget ==
  ASSUME CalmInv, Quiet, NEW e \in Pendings, Ensured(e)
  PROVE  /\ due = None /\ cur \in {e, None} /\ Contents(e).patch = pend[e].patch
         /\ \A f \in Pendings : f # e =>
               op[f].at = "idle" /\ op[f] = Idle /\ pend[f].patch = Empty /\ chain[f] = <<>>
<1>1. due = None /\ None \notin Pendings
  BY PendingsAssumption DEF Quiet, None
<1>2. cur \in {e, None}
  BY DEF Ensured
<1>3. \A f \in Pendings : f # cur =>
         op[f].at = "idle" /\ op[f] = Idle /\ pend[f].patch = Empty /\ chain[f] = <<>>
  BY <1>1 DEF CalmInv, OneChain, TypeInv, OpsOnChain
<1>4. Contents(e).patch = pend[e].patch
  BY <1>3 DEF Contents, Fresh
<1> QED BY <1>1, <1>2, <1>3, <1>4

LEMMA CalmEnqueue ==
  ASSUME CalmInv, NEW e \in Pendings, NEW ks \in SUBSET Keys, NEW term \in BOOLEAN,
         EnqueueStatusPatch(e, ks, term)
  PROVE  OnlyWrites' /\ OneChain' /\ FlushesNewer' /\ SyncsInOrder' /\ FreshBase'
<1> DEFINE t == ticket + 1
           x == FlushOp("flush")
<1>1. /\ UNCHANGED <<op, due, abandoned, deleter, disk, synced>> /\ ticket' = t /\ cur' = e
      /\ Quiet /\ Ensured(e) /\ (chain' = [chain EXCEPT ![e] = Append(@, x)] \/ chain' = chain)
  BY DEF EnqueueStatusPatch, Accept
<1>2. /\ due = None /\ cur \in {e, None} /\ Contents(e).patch = pend[e].patch
      /\ \A f \in Pendings : f # e =>
            op[f].at = "idle" /\ op[f] = Idle /\ pend[f].patch = Empty /\ chain[f] = <<>>
  BY <1>1, CallTarget
<1>3. /\ pend'[e].patch = Merge(pend[e].patch, Stamp(ks, t))
      /\ \A f \in Pendings : f # e => pend'[f] = pend[f]
  BY <1>2 DEF EnqueueStatusPatch, CalmInv, TypeInv, TypeOK
<1>4. \A k \in Keys : pend'[e].patch[k] = IF k \in ks THEN t ELSE pend[e].patch[k]
  BY <1>3, MergeAt, CalmNat DEF Stamp, CalmInv
<1>5. x \in OpRec /\ x.kind = "flush" /\ x.patch = Empty
  BY ConstTypes DEF FlushOp
<1> HIDE DEF x
<1>6. /\ \A f \in Pendings : f # e => chain'[f] = <<>>
      /\ \A i \in 1..Len(chain'[e]) :
            \/ i \in 1..Len(chain[e]) /\ chain'[e][i] = chain[e][i]
            \/ chain'[e][i] = x
      /\ \A i \in 1..Len(chain[e]) : i \in 1..Len(chain'[e]) /\ chain'[e][i] = chain[e][i]
  <2>1. CASE chain' = chain
    BY <1>2, <2>1
  <2>2. CASE chain' = [chain EXCEPT ![e] = Append(@, x)]
    BY <1>2, <1>5, <2>2, AppendAt DEF CalmInv
  <2> QED BY <1>1, <2>1, <2>2
<1>7. OnlyWrites'
  <2>1. ASSUME NEW f \in Pendings, NEW i \in 1..Len(chain'[f])
        PROVE  /\ chain'[f][i].kind # "drain"
               /\ chain'[f][i].kind = "flush" => chain'[f][i].patch = Empty
    <3>1. f = e
      BY <1>6
    <3>2. chain'[e][i] = x \/ (i \in 1..Len(chain[e]) /\ chain'[e][i] = chain[e][i])
      BY <1>6, <3>1
    <3> QED BY <1>5, <3>1, <3>2 DEF CalmInv, OnlyWrites
  <2> QED BY <1>1, <2>1 DEF CalmInv, OnlyWrites
<1>8. OneChain'
  BY <1>1, <1>2, <1>3, <1>6 DEF OneChain
<1>9. FreshBase'
  BY <1>1 DEF CalmInv, FreshBase
<1>10. FlushesNewer'
  <2> SUFFICES ASSUME NEW k \in Keys, NEW f \in Pendings
      PROVE /\ disk.doc[k] <= t /\ synced[k] <= t
            /\ op[f].patch[k] # 0 => disk.doc[k] < op[f].patch[k] /\ op[f].patch[k] <= t
            /\ pend'[f].patch[k] # 0 =>
                  /\ disk.doc[k] < pend'[f].patch[k] /\ pend'[f].patch[k] <= t
                  /\ op[f].patch[k] < pend'[f].patch[k] /\ synced[k] < pend'[f].patch[k]
    BY <1>1 DEF FlushesNewer
  <2>1. /\ disk.doc[k] <= ticket /\ synced[k] <= ticket
        /\ op[f].patch[k] # 0 => disk.doc[k] < op[f].patch[k] /\ op[f].patch[k] <= ticket
        /\ pend[f].patch[k] # 0 =>
              /\ disk.doc[k] < pend[f].patch[k] /\ pend[f].patch[k] <= ticket
              /\ op[f].patch[k] < pend[f].patch[k] /\ synced[k] < pend[f].patch[k]
    BY DEF CalmInv, FlushesNewer
  <2>2. /\ disk.doc[k] \in Nat /\ synced[k] \in Nat /\ ticket \in Nat
        /\ op[f].patch[k] \in Nat /\ pend[f].patch[k] \in Nat
    BY CalmNat DEF CalmInv
  <2>3. pend'[f].patch[k] \in {t, pend[f].patch[k]}
    BY <1>3, <1>4
  <2> QED BY <2>1, <2>2, <2>3
<1>11. SyncsInOrder'
  <2> SUFFICES ASSUME NEW k \in Keys, NEW f \in Pendings, NEW i \in 1..Len(chain'[f]),
                      chain'[f][i].patch[k] # 0
      PROVE /\ chain'[f][i].patch[k] <= t
            /\ pend'[f].patch[k] # 0 => chain'[f][i].patch[k] < pend'[f].patch[k]
            /\ chain'[f][i].patch[k] < synced[k] =>
                  \E j \in 1..Len(chain'[f]) : j > i /\ chain'[f][j].kind = "sync"
                                               /\ chain'[f][j].patch[k] = synced[k]
    BY <1>1 DEF SyncsInOrder
  <2>1. f = e
    BY <1>6
  <2>2. i \in 1..Len(chain[e]) /\ chain'[e][i] = chain[e][i]
    BY <1>5, <1>6, <2>1, EmptyAt
  <2>3. /\ chain[e][i].patch[k] <= ticket
        /\ pend[e].patch[k] # 0 => chain[e][i].patch[k] < pend[e].patch[k]
        /\ chain[e][i].patch[k] < synced[k] =>
              \E j \in 1..Len(chain[e]) : j > i /\ chain[e][j].kind = "sync"
                                          /\ chain[e][j].patch[k] = synced[k]
    BY <2>1, <2>2 DEF CalmInv, SyncsInOrder
  <2>4. chain[e][i].patch[k] \in Nat /\ ticket \in Nat
    BY <2>2, CalmNat DEF CalmInv
  <2>5. chain[e][i].patch[k] <= t /\ chain[e][i].patch[k] < t
    BY <2>3, <2>4
  <2> QED BY <1>4, <1>6, <2>1, <2>2, <2>3, <2>5
<1> QED BY <1>7, <1>8, <1>9, <1>10, <1>11

LEMMA CalmImmediate ==
  ASSUME CalmInv, NEW e \in Pendings, NEW ks \in SUBSET Keys, NEW term \in BOOLEAN,
         WriteStatusImmediate(e, ks, term)
  PROVE  OnlyWrites' /\ OneChain' /\ FlushesNewer' /\ SyncsInOrder' /\ FreshBase'
<1> DEFINE t == ticket + 1
           p == Merge(Contents(e).patch, Stamp(ks, t))
           x == [kind |-> "sync", patch |-> p]
<1>1. /\ UNCHANGED <<op, due, deleter, disk>> /\ ~abandoned' /\ ticket' = t /\ cur' = e
      /\ Quiet /\ Ensured(e) /\ chain' = [chain EXCEPT ![e] = Append(@, x)]
      /\ synced' = Merge(synced, Stamp(ks, t))
      /\ pend' = [pend EXCEPT ![e] = [Contents(e) EXCEPT !.patch = Empty, !.timer = FALSE]]
  BY DEF WriteStatusImmediate, Accept
<1>2. /\ due = None /\ cur \in {e, None} /\ Contents(e).patch = pend[e].patch
      /\ \A f \in Pendings : f # e =>
            op[f].at = "idle" /\ op[f] = Idle /\ pend[f].patch = Empty /\ chain[f] = <<>>
  BY <1>1, CallTarget
<1>3. /\ pend'[e].patch = Empty /\ \A f \in Pendings : f # e => pend'[f] = pend[f]
      /\ p \in Patch
  <2>1. Contents(e) \in PendingRec
    BY ContentsType DEF CalmInv, TypeInv
  <2>2. Stamp(ks, t) \in Patch
    BY AcceptType DEF WriteStatusImmediate, CalmInv, TypeInv
  <2> QED BY <1>1, <2>1, <2>2, MergeType DEF PendingRec, CalmInv, TypeInv, TypeOK
<1>4. \A k \in Keys : /\ p[k] = IF k \in ks THEN t ELSE pend[e].patch[k]
                      /\ synced'[k] = IF k \in ks THEN t ELSE synced[k]
  BY <1>1, <1>2, MergeAt, CalmNat DEF Stamp, CalmInv
<1>5. x \in OpRec /\ x.kind = "sync" /\ x.patch = p
  BY <1>3 DEF OpRec
<1> HIDE DEF x, p
<1>6. /\ \A f \in Pendings : f # e => chain'[f] = <<>>
      /\ Len(chain[e]) \in Nat /\ Len(chain'[e]) = Len(chain[e]) + 1
      /\ chain'[e][Len(chain[e]) + 1] = x
      /\ \A i \in 1..Len(chain[e]) : chain'[e][i] = chain[e][i]
  BY <1>1, <1>2, <1>5, AppendAt DEF CalmInv
<1>7. \A i \in 1..Len(chain'[e]) : \/ i \in 1..Len(chain[e]) /\ chain'[e][i] = chain[e][i]
                                   \/ i = Len(chain[e]) + 1 /\ chain'[e][i] = x
  BY <1>6
<1>8. OnlyWrites'
  <2>1. ASSUME NEW f \in Pendings, NEW i \in 1..Len(chain'[f])
        PROVE  /\ chain'[f][i].kind # "drain"
               /\ chain'[f][i].kind = "flush" => chain'[f][i].patch = Empty
    <3>1. f = e
      BY <1>6
    <3>2. chain'[e][i] = x \/ (i \in 1..Len(chain[e]) /\ chain'[e][i] = chain[e][i])
      BY <1>7, <3>1
    <3> QED BY <1>5, <3>1, <3>2 DEF CalmInv, OnlyWrites
  <2> QED BY <1>1, <2>1 DEF CalmInv, OnlyWrites
<1>9. OneChain'
  BY <1>1, <1>2, <1>3, <1>6 DEF OneChain
<1>10. FreshBase'
  BY <1>1 DEF CalmInv, FreshBase
<1>11. FlushesNewer'
  <2> SUFFICES ASSUME NEW k \in Keys, NEW f \in Pendings
      PROVE /\ disk.doc[k] <= t /\ synced'[k] <= t
            /\ op[f].patch[k] # 0 => disk.doc[k] < op[f].patch[k] /\ op[f].patch[k] <= t
            /\ pend'[f].patch[k] = 0
    BY <1>1 DEF FlushesNewer
  <2>1. /\ disk.doc[k] <= ticket /\ synced[k] <= ticket
        /\ op[f].patch[k] # 0 => disk.doc[k] < op[f].patch[k] /\ op[f].patch[k] <= ticket
    BY DEF CalmInv, FlushesNewer
  <2>2. /\ disk.doc[k] \in Nat /\ synced[k] \in Nat /\ ticket \in Nat /\ op[f].patch[k] \in Nat
    BY CalmNat DEF CalmInv
  <2>3. pend'[f].patch[k] = 0
    BY <1>2, <1>3, EmptyAt
  <2> QED BY <1>4, <2>1, <2>2, <2>3
<1>12. SyncsInOrder'
  <2> SUFFICES ASSUME NEW k \in Keys, NEW f \in Pendings, NEW i \in 1..Len(chain'[f]),
                      chain'[f][i].patch[k] # 0
      PROVE /\ chain'[f][i].patch[k] <= t
            /\ pend'[f].patch[k] = 0
            /\ chain'[f][i].patch[k] < synced'[k] =>
                  \E j \in 1..Len(chain'[f]) : j > i /\ chain'[f][j].kind = "sync"
                                               /\ chain'[f][j].patch[k] = synced'[k]
    BY <1>1 DEF SyncsInOrder
  <2>1. f = e /\ pend'[e].patch[k] = 0
    BY <1>3, <1>6, EmptyAt
  <2>2. /\ ticket \in Nat /\ synced[k] \in Nat /\ pend[e].patch[k] \in Nat
        /\ synced[k] <= ticket
        /\ pend[e].patch[k] # 0 => synced[k] < pend[e].patch[k] /\ pend[e].patch[k] <= ticket
    BY CalmNat DEF CalmInv, FlushesNewer
  <2>3. CASE i = Len(chain[e]) + 1 /\ chain'[e][i] = x
    <3>1. chain'[f][i].patch[k] = p[k]
      BY <1>5, <2>1, <2>3
    <3>2. p[k] # 0 /\ p[k] <= t /\ ~(p[k] < synced'[k])
      BY <1>4, <2>2, <3>1
    <3> QED BY <2>1, <3>1, <3>2
  <2>4. CASE i \in 1..Len(chain[e]) /\ chain'[e][i] = chain[e][i]
    <3>1. /\ chain[e][i].patch[k] <= ticket /\ chain[e][i].patch[k] \in Nat
          /\ chain[e][i].patch[k] < synced[k] =>
                \E j \in 1..Len(chain[e]) : j > i /\ chain[e][j].kind = "sync"
                                            /\ chain[e][j].patch[k] = synced[k]
      BY <2>1, <2>4, CalmNat DEF CalmInv, SyncsInOrder
    <3>2. chain[e][i].patch[k] <= t
      BY <2>2, <3>1
    <3>3. CASE k \in ks
      <4>1. Len(chain[e]) + 1 \in 1..Len(chain'[e]) /\ Len(chain[e]) + 1 > i
        BY <1>6, <2>4
      <4>2. x.patch[k] = synced'[k]
        BY <1>4, <1>5, <3>3
      <4> QED BY <1>5, <1>6, <2>1, <2>4, <3>2, <4>1, <4>2
    <3>4. CASE k \notin ks
      <4>1. synced'[k] = synced[k]
        BY <1>4, <3>4
      <4>2. \A j \in 1..Len(chain[e]) : j \in 1..Len(chain'[e]) /\ chain'[e][j] = chain[e][j]
        BY <1>6
      <4> QED BY <2>1, <2>4, <3>1, <3>2, <4>1, <4>2
    <3> QED BY <3>3, <3>4
  <2> QED BY <1>7, <2>1, <2>3, <2>4
<1> QED BY <1>8, <1>9, <1>10, <1>11, <1>12

LEMMA CalmFlush ==
  ASSUME CalmInv, Quiet, FlushDir("flush"), deleter' = deleter
  PROVE  OnlyWrites' /\ OneChain' /\ FlushesNewer' /\ SyncsInOrder' /\ FreshBase'
<1> DEFINE x == FlushOp("flush")
<1>1. /\ UNCHANGED <<op, cur, due, abandoned, disk, synced, ticket>> /\ cur \in Pendings
      /\ due = None /\ chain' = [chain EXCEPT ![cur] = Append(@, x)]
      /\ pend' = [pend EXCEPT ![cur].timer = FALSE]
  BY DEF FlushDir, Quiet, CalmInv, TypeInv, TypeOK
<1>2. \A f \in Pendings : pend'[f].patch = pend[f].patch
  BY <1>1 DEF CalmInv, TypeInv, TypeOK, PendingRec
<1>3. x \in OpRec /\ x.kind = "flush" /\ x.patch = Empty
  BY ConstTypes DEF FlushOp
<1> HIDE DEF x
<1>4. \A f \in Pendings : f # cur => chain'[f] = <<>>
  BY <1>1, <1>3, AppendAt, PendingsAssumption DEF CalmInv, OneChain, None
<1>5. /\ \A i \in 1..Len(chain'[cur]) :
            \/ i \in 1..Len(chain[cur]) /\ chain'[cur][i] = chain[cur][i]
            \/ chain'[cur][i] = x
      /\ \A i \in 1..Len(chain[cur]) : i \in 1..Len(chain'[cur]) /\ chain'[cur][i] = chain[cur][i]
  BY <1>1, <1>3, AppendAt DEF CalmInv
<1>6. OnlyWrites'
  <2>1. ASSUME NEW f \in Pendings, NEW i \in 1..Len(chain'[f])
        PROVE  /\ chain'[f][i].kind # "drain"
               /\ chain'[f][i].kind = "flush" => chain'[f][i].patch = Empty
    <3>1. f = cur
      BY <1>4
    <3>2. chain'[f][i] = x \/ (i \in 1..Len(chain[f]) /\ chain'[f][i] = chain[f][i])
      BY <1>5, <3>1
    <3> QED BY <1>3, <3>2 DEF CalmInv, OnlyWrites
  <2> QED BY <1>1, <2>1 DEF CalmInv, OnlyWrites
<1>7. OneChain'
  BY <1>1, <1>2, <1>4 DEF CalmInv, OneChain
<1>8. FlushesNewer' /\ FreshBase'
  BY <1>1, <1>2 DEF CalmInv, FlushesNewer, FreshBase
<1>9. SyncsInOrder'
  <2> SUFFICES ASSUME NEW k \in Keys, NEW f \in Pendings, NEW i \in 1..Len(chain'[f]),
                      chain'[f][i].patch[k] # 0
      PROVE /\ chain'[f][i].patch[k] <= ticket
            /\ pend'[f].patch[k] # 0 => chain'[f][i].patch[k] < pend'[f].patch[k]
            /\ chain'[f][i].patch[k] < synced[k] =>
                  \E j \in 1..Len(chain'[f]) : j > i /\ chain'[f][j].kind = "sync"
                                               /\ chain'[f][j].patch[k] = synced[k]
    BY <1>1 DEF SyncsInOrder
  <2>1. f = cur
    BY <1>4
  <2>2. i \in 1..Len(chain[f]) /\ chain'[f][i] = chain[f][i]
    BY <1>3, <1>5, <2>1, EmptyAt
  <2> QED BY <1>2, <1>5, <2>1, <2>2 DEF CalmInv, SyncsInOrder
<1> QED BY <1>6, <1>7, <1>8, <1>9

LEMMA CalmInit == Init => CalmInv
<1> SUFFICES ASSUME Init PROVE CalmInv
  OBVIOUS
<1>1. OnlyWrites /\ OneChain /\ SyncsInOrder /\ FreshBase
  BY DEF Init, OnlyWrites, OneChain, SyncsInOrder, FreshBase, Fresh, Idle
<1>2. FlushesNewer
  BY EmptyAt DEF Init, FlushesNewer, Fresh, Idle
<1> QED BY <1>1, <1>2, TypeInit DEF CalmInv

(* Failures and deletions are counted for good.                             *)
LEMMA CountsStep ==
  ASSUME [Next]_vars
  PROVE  faults' \in {faults, faults + 1} /\ deletes' \in {deletes, deletes + 1}
<1>1. CASE Call
  BY <1>1 DEF Call, EnqueueStatusPatch, WriteStatusImmediate
<1>2. CASE FlushStatusWrites \/ TimerFires
  BY <1>2 DEF FlushStatusWrites, TimerFires, FlushDir
<1>3. CASE Delete
  BY <1>3 DEF Delete, DeleteRun, AllowStatusWrites, DeletePermanently, BeginMove,
     ClearStatusWrites, EndMove, FlushDir
<1>4. ASSUME NEW e \in Pendings, Begin(e) \/ Complete(e)
      PROVE  faults' \in {faults, faults + 1} /\ deletes' \in {deletes, deletes + 1}
  BY <1>4 DEF Begin, Complete, BeginFlush, SyncWrite, SyncWriteFails, StatusRead,
     StatusWritten, StatusWriteFails, Fault
<1>5. CASE UNCHANGED vars
  BY <1>5 DEF vars
<1> QED BY <1>1, <1>2, <1>3, <1>4, <1>5 DEF Next

LEMMA CalmBefore == TypeInv /\ [Next]_vars /\ Calm' => Calm
<1>1. TypeInv => faults \in Nat /\ deletes \in Nat
  BY BoundsAssumption DEF TypeInv, TypeOK
<1> QED BY <1>1, CountsStep DEF Calm

(* No write fails while the disk is well and the directory there.           *)
LEMMA NoFailure ==
  ASSUME CalmInv, Calm, faults' = 0, NEW e \in Pendings
  PROVE  ~StatusWriteFails(e) /\ ~SyncWriteFails(e)
<1>1. ~StatusWriteFails(e)
  BY DEF StatusWriteFails, Fault, CalmInv, OnlyWrites, Calm
<1>2. ~SyncWriteFails(e)
  BY DEF SyncWriteFails, Fault, Calm
<1> QED BY <1>1, <1>2

LEMMA CalmStep == CalmInv /\ [Next]_vars /\ Calm' => CalmInv'
<1> SUFFICES ASSUME CalmInv, [Next]_vars, Calm' PROVE CalmInv'
  OBVIOUS
<1>1. TypeInv' /\ Calm
  BY TypeStep, CalmBefore DEF CalmInv
<1>2. OnlyWrites' /\ OneChain' /\ FlushesNewer' /\ SyncsInOrder' /\ FreshBase'
  <2>1. CASE Call
    BY <2>1, CalmEnqueue, CalmImmediate DEF Call
  <2>2. CASE FlushStatusWrites \/ TimerFires
    BY <2>2, CalmFlush DEF FlushStatusWrites, TimerFires
  <2>3. ~Delete
    BY <1>1 DEF Delete, DeleteRun, AllowStatusWrites, DeletePermanently, BeginMove,
       ClearStatusWrites, EndMove, Calm, CalmInv, OnlyWrites
  <2>4. ASSUME NEW e \in Pendings, Begin(e) \/ Complete(e)
        PROVE  OnlyWrites' /\ OneChain' /\ FlushesNewer' /\ SyncsInOrder' /\ FreshBase'
    <3>1. ~StatusWriteFails(e) /\ ~SyncWriteFails(e)
      BY <1>1, NoFailure DEF Calm
    <3> QED BY <2>4, <3>1, CalmBeginFlush, CalmSyncWrite, CalmStatusRead, CalmStatusWritten
            DEF Begin, Complete
  <2>5. CASE UNCHANGED vars
    BY <2>5 DEF vars, CalmInv, OnlyWrites, OneChain, FlushesNewer, SyncsInOrder, FreshBase
  <2> QED BY <2>1, <2>2, <2>3, <2>4, <2>5 DEF Next
<1> QED BY <1>1, <1>2 DEF CalmInv

(* No step takes the document back below the last immediate write of a key. *)
LEMMA NotReverted ==
  ASSUME TypeInv, Calm => CalmInv, [Next]_vars, NEW k \in Keys,
         deletes = 0, faults' = 0, disk'.exists, disk.doc[k] >= synced[k]
  PROVE  disk'.doc[k] >= synced[k] \/ Coming(k)'
<1>1. Calm /\ CalmInv
  <2>1. faults \in Nat
    BY BoundsAssumption DEF TypeInv, TypeOK
  <2> QED BY <2>1, CountsStep DEF Calm
<1>2. disk' = disk => disk'.doc[k] >= synced[k]
  OBVIOUS
<1>3. CASE Call \/ FlushStatusWrites \/ TimerFires \/ UNCHANGED vars
  BY <1>2, <1>3 DEF Call, EnqueueStatusPatch, WriteStatusImmediate, FlushStatusWrites,
     TimerFires, FlushDir, vars
<1>4. CASE Delete
  <2>1. deleter = "none"
    BY <1>1 DEF CalmInv, OnlyWrites
  <2> QED BY <1>2, <1>4, <2>1 DEF Delete, DeleteRun, AllowStatusWrites, DeletePermanently,
          BeginMove, ClearStatusWrites, EndMove, FlushDir
<1>5. ASSUME NEW e \in Pendings, Begin(e) \/ Complete(e)
      PROVE  disk'.doc[k] >= synced[k] \/ Coming(k)'
  <2>1. ~StatusWriteFails(e) /\ ~SyncWriteFails(e)
    BY <1>1, NoFailure
  <2>2. CASE StatusWritten(e)
    <3>1. disk'.doc[k] >= disk.doc[k]
      BY <1>1, <2>2, CalmStatusWritten
    <3>2. disk'.doc[k] \in Nat
      <4>1. TypeInv'
        BY TypeStep
      <4>2. disk'.doc \in Patch
        BY <4>1 DEF TypeInv, TypeOK
      <4> QED BY <4>2, BoundsAssumption DEF Patch
    <3> QED BY <3>1, <3>2, CalmNat
  <2>3. CASE SyncWrite(e)
    BY <1>1, <2>3, CalmSyncWrite
  <2>4. CASE BeginFlush(e) \/ StatusRead(e)
    BY <1>2, <2>4 DEF BeginFlush, StatusRead
  <2> QED BY <1>5, <2>1, <2>2, <2>3, <2>4 DEF Begin, Complete
<1> QED BY <1>3, <1>4, <1>5 DEF Next

(* For any number of Pending objects, calls and keys: once an immediate     *)
(* write, or something newer, is in the document, no flush that was begun   *)
(* before it and no late read puts an older value back.                     *)
THEOREM ImmediateStays == Spec => SyncNotReverted
<1> DEFINE Inv == TypeInv /\ (Calm => CalmInv)
<1>1. Init => Inv
  BY CalmInit DEF CalmInv
<1>2. Inv /\ [Next]_vars => Inv'
  BY TypeStep, CalmBefore, CalmStep
<1>3. Inv /\ [Next]_vars =>
        [\A k \in Keys : deletes = 0 /\ faults' = 0 /\ disk'.exists /\ disk.doc[k] >= synced[k]
                          => disk'.doc[k] >= synced[k] \/ Coming(k)']_vars
  BY NotReverted
<1> QED BY <1>1, <1>2, <1>3, PTL DEF Spec, SyncNotReverted
=============================================================================
