----------------------------- MODULE MessageLog -----------------------------
(***************************************************************************)
(* The transcript of one run: messages.jsonl and its archives.             *)
(*   appends    messageAppendQueue.ts, appendRetry.ts, jsonlRotation.ts    *)
(*   rewrites   syncMessagesAsync, appendOrphanToolStubs (state.ts), and    *)
(*              their callers in loop.ts and rewindRun.ts                   *)
(*   readers    the stitched loaders of state.ts                            *)
(* Appends go through one promise chain per directory; a rewrite replaces   *)
(* the live file with what its caller read, edited, and then removes the    *)
(* archives.  The run is a sequential client of both; readers (a window     *)
(* that opens the task, an export) come at any time.                        *)
(*                                                                          *)
(* A row is the ticket of its append, so that later rows are larger; Junk   *)
(* is a line no reader can parse.  A transient error (EBUSY, EMFILE, ...)   *)
(* or a permanent one leaves nothing or a fragment of the row, a crash also *)
(* the whole row without its newline.  Archive names sort by time.          *)
(***************************************************************************)
EXTENDS Naturals, Sequences, FiniteSets, SequencesExt

CONSTANTS
    MaxRows,      \* bound: rows the run appends
    MaxLive,      \* MESSAGES_FILE_MAX_BYTES, in rows
    KeepLive,     \* MESSAGES_FILE_KEEP_BYTES, in rows
    Attempts,     \* attempts of withTransientAppendRetry
    MaxInvokes,   \* bound: invokes of the run
    MaxCrashes,   \* bound: how often the process dies
    MaxFaults,    \* bound: file operations that fail for the writer
    MaxUnlinks,   \* bound: archives that cannot be unlinked
    MaxSkips,     \* bound: reads that fail for a lenient reader that rewrites, or
                  \* for the look at the tail of the file before an append
    MaxReads      \* bound: readers that meet a recorded append failure

ASSUME MessageLogAssumption ==
    /\ MaxRows \in Nat /\ MaxInvokes \in Nat /\ MaxCrashes \in Nat
    /\ MaxFaults \in Nat /\ MaxUnlinks \in Nat /\ MaxSkips \in Nat /\ MaxReads \in Nat
    /\ Attempts \in Nat \ {0}
    /\ MaxLive \in Nat /\ KeepLive \in 1 .. MaxLive

VARIABLES
    archives,   \* the rotated heads, oldest first
    live,       \* the lines of messages.jsonl
    torn,       \* its last line has no newline
    chain,      \* rows on the append chain, the first one being appended
    job,        \* where that append stands
    checked,    \* tailChecked.has(path)
    blocked,    \* rotationBlockedUntil is in the future
    failures,   \* failuresForFlush.has(dir)
    notices,    \* pendingNotices.has(dir)
    run,        \* where the invoke stands
    plan,       \* the rewrite it is in
    turn,       \* invokeRowsFrom, and the rows the invoke put after it
    ticket,     \* rows handed out
    landed,     \* ghost: rows appended, or rewritten, and not taken out on purpose
    lost,       \* ghost: rows of this invoke whose append failed for good
    halved,     \* ghost: a swap of two files was left half done
    invokes, crashes, faults, unlinks, skips, reads   \* how much of each bound is used

diskVars  == <<archives, live, torn>>
queueVars == <<chain, job, checked, blocked, failures, notices>>
runVars   == <<run, plan, turn, ticket>>
ghosts    == <<landed, lost, halved>>
counts    == <<invokes, crashes, faults, unlinks, skips, reads>>
vars      == <<diskVars, queueVars, runVars, ghosts, counts>>

Junk == 0
Row  == 1 .. MaxRows
Line == Row \cup {Junk}

\* idle: before the rotation check of an attempt; archive, live: rotating, the
\* swap of that file is next; append: the rotation is done, or failed.
Job  == [at : {"idle", "archive", "live", "append"},
         head : Seq(Line), tail : Seq(Line), attempt : 1 .. Attempts]
Idle == [at |-> "idle", head |-> <<>>, tail |-> <<>>, attempt |-> 1]

\* creating .. loading: before the loop's own rows;  ready: resumed, the
\* hooks are asked;  boundary, stepping: between two steps and in one;  writing,
\* clearing: in syncMessagesAsync;  done, limited: the status is `done`, at the end
\* of a turn or at the step ceiling or spend limit.
RunState == {"off", "creating", "created", "rewinding", "starting", "loading", "ready",
             "boundary", "stepping", "writing", "clearing", "done", "limited", "failed"}
Plan     == [rows : Seq(Row), gone : SUBSET Row, new : SUBSET Row, next : RunState]
Turn     == [from : Nat, new : SUBSET Row]
NoTurn   == [from |-> 0, new |-> {}]
NoPlan   == [rows |-> <<>>, gone |-> {}, new |-> {}, next |-> "off"]

TypeOK ==
    /\ archives \in Seq(Seq(Line)) /\ live \in Seq(Line) /\ torn \in BOOLEAN
    /\ chain \in Seq(Row) /\ job \in Job
    /\ checked \in BOOLEAN /\ blocked \in BOOLEAN
    /\ failures \in BOOLEAN /\ notices \in BOOLEAN
    /\ run \in RunState /\ plan \in Plan /\ turn \in Turn /\ ticket \in 0 .. MaxRows
    /\ landed \subseteq Row /\ lost \subseteq Row /\ halved \in BOOLEAN
    /\ invokes \in 0 .. MaxInvokes /\ crashes \in 0 .. MaxCrashes
    /\ faults \in 0 .. MaxFaults /\ unlinks \in 0 .. MaxUnlinks
    /\ skips \in 0 .. MaxSkips /\ reads \in 0 .. MaxReads

Init ==
    /\ archives = <<>> /\ live = <<>> /\ torn = FALSE
    /\ chain = <<>> /\ job = Idle /\ checked = FALSE /\ blocked = FALSE
    /\ failures = FALSE /\ notices = FALSE
    /\ run = "off" /\ plan = NoPlan /\ turn = NoTurn /\ ticket = 0
    /\ landed = {} /\ lost = {} /\ halved = FALSE
    /\ invokes = 0 /\ crashes = 0 /\ faults = 0 /\ unlinks = 0 /\ skips = 0 /\ reads = 0

Fault == faults < MaxFaults /\ faults' = faults + 1

\* The elements of seq at the positions `which`.
Kept(seq, which) ==
    LET upTo[n \in 0 .. Len(seq)] ==
            IF n = 0 THEN <<>>
            ELSE IF n \in which THEN Append(upTo[n - 1], seq[n]) ELSE upTo[n - 1]
    IN upTo[Len(seq)]

\* The rows a stitched reader gets, without the archives it could not read.
Stitched(read) ==
    LET upTo[n \in 0 .. Len(archives)] ==
            IF n = 0 THEN <<>>
            ELSE IF n \in read THEN upTo[n - 1] \o archives[n] ELSE upTo[n - 1]
    IN upTo[Len(archives)] \o live
Parsed(lines) == Kept(lines, {n \in DOMAIN lines : lines[n] # Junk})
Rows(read) == Parsed(Stitched(read))
AllRows == Rows(DOMAIN archives)
-----------------------------------------------------------------------------
(* The append of the first row of the chain.                                *)

Appending == chain # <<>>
NeedsRotation == job.at = "idle" /\ Len(live) > MaxLive /\ ~blocked
MayAppend == Appending /\ (job.at = "append" \/ (job.at = "idle" /\ ~NeedsRotation))

\* appendFile of `line`, and whether it ends the line.  Without the newline a
\* tail check puts first, the line runs into a torn one and neither parses.
Write(line, ended) ==
    /\ live' = IF torn /\ checked THEN [live EXCEPT ![Len(live)] = Junk] ELSE Append(live, line)
    /\ torn' = ~ended

\* What a failed append leaves behind.
LeavePart == \/ UNCHANGED <<live, torn>>
             \/ Write(Junk, FALSE)

\* rotateJsonlIfNeeded: the head and the tail are written aside.
BeginRotation ==
    /\ Appending /\ NeedsRotation
    /\ LET cut == Len(live) - KeepLive
       IN job' = [job EXCEPT !.at = "archive", !.head = SubSeq(live, 1, cut),
                             !.tail = SubSeq(live, cut + 1, Len(live))]
    /\ UNCHANGED <<diskVars, chain, checked, blocked, failures, notices, runVars, ghosts, counts>>

ArchiveSwapped ==
    /\ job.at = "archive"
    /\ archives' = Append(archives, job.head)
    /\ job' = [job EXCEPT !.at = "live"]
    /\ UNCHANGED <<live, torn, chain, checked, blocked, failures, notices, runVars, ghosts, counts>>

\* A rotation that fails is put off, and the row appended unrotated.
PutOff == job' = [Idle EXCEPT !.at = "append", !.attempt = job.attempt] /\ blocked' = TRUE

ArchiveSwapFails ==
    /\ job.at = "archive"
    /\ Fault /\ PutOff
    /\ UNCHANGED <<diskVars, chain, checked, failures, notices, runVars, ghosts,
                   invokes, crashes, unlinks, skips, reads>>

LiveSwapped ==
    /\ job.at = "live"
    /\ live' = job.tail
    /\ job' = [Idle EXCEPT !.at = "append", !.attempt = job.attempt]
    /\ blocked' = FALSE
    /\ UNCHANGED <<archives, torn, chain, checked, failures, notices, runVars, ghosts, counts>>

\* Mutant: the archive of a failed rotation stays.
LiveSwapFailsKeeping ==
    /\ job.at = "live"
    /\ Fault /\ PutOff
    /\ UNCHANGED <<archives, unlinks, halved>>
    /\ UNCHANGED <<live, torn, chain, checked, failures, notices, runVars, landed, lost,
                   invokes, crashes, skips, reads>>

\* The archive is dropped again, if it can be.
LiveSwapFails ==
    /\ job.at = "live"
    /\ Fault /\ PutOff
    /\ \/ archives' = Front(archives) /\ UNCHANGED <<unlinks, halved>>
       \/ /\ unlinks < MaxUnlinks /\ unlinks' = unlinks + 1
          /\ halved' = TRUE
          /\ UNCHANGED archives
    /\ UNCHANGED <<live, torn, chain, checked, failures, notices, runVars, landed, lost,
                   invokes, crashes, skips, reads>>

\* ROTATION_RETRY_AFTER_MS has passed.
RotationUnblocked ==
    /\ blocked /\ blocked' = FALSE
    /\ UNCHANGED <<diskVars, chain, job, checked, failures, notices, runVars, ghosts, counts>>

\* endsWithTornLine cannot open the file: it answers no, and the tail counts as
\* checked.
TailUnread ==
    /\ MayAppend /\ torn /\ ~checked
    /\ skips < MaxSkips /\ skips' = skips + 1
    /\ checked' = TRUE
    /\ job' = [job EXCEPT !.at = "append"]
    /\ UNCHANGED <<diskVars, chain, blocked, failures, notices, runVars, ghosts,
                   invokes, crashes, faults, unlinks, reads>>

Appended ==
    /\ MayAppend
    /\ Write(Head(chain), TRUE)
    /\ checked' = TRUE
    /\ landed' = landed \cup {Head(chain)}
    /\ chain' = Tail(chain) /\ job' = Idle
    /\ UNCHANGED <<archives, blocked, failures, notices, runVars, lost, halved, counts>>

\* Mutant: the tail is taken as checked although an append failed.
AppendRetriedUnchecked ==
    /\ MayAppend /\ Fault
    /\ LeavePart
    /\ checked' = TRUE
    /\ job.attempt < Attempts
    /\ job' = [Idle EXCEPT !.attempt = job.attempt + 1]
    /\ UNCHANGED <<archives, chain, blocked, failures, notices, runVars, ghosts,
                   invokes, crashes, unlinks, skips, reads>>
\* A transient error: the whole of appendToRunLog is tried again.
AppendRetried ==
    /\ MayAppend /\ Fault
    /\ LeavePart
    /\ checked' = FALSE
    /\ job.attempt < Attempts
    /\ job' = [Idle EXCEPT !.attempt = job.attempt + 1]
    /\ UNCHANGED <<archives, chain, blocked, failures, notices, runVars, ghosts,
                   invokes, crashes, unlinks, skips, reads>>

\* A permanent error, or the last transient one: the row is recorded as lost.
AppendFails ==
    /\ MayAppend /\ Fault
    /\ LeavePart
    /\ checked' = FALSE
    /\ failures' = TRUE /\ notices' = TRUE
    /\ lost' = lost \cup {Head(chain)}
    /\ chain' = Tail(chain) /\ job' = Idle
    /\ UNCHANGED <<archives, blocked, runVars, landed, halved,
                   invokes, crashes, unlinks, skips, reads>>

AppendStep ==
    \/ BeginRotation \/ ArchiveSwapped \/ ArchiveSwapFails \/ LiveSwapped \/ LiveSwapFails
    \/ RotationUnblocked \/ TailUnread \/ Appended \/ AppendRetried \/ AppendFails
-----------------------------------------------------------------------------
(* flushMessageAppends answers when the chain is empty, and throws, once,   *)
(* when an append had failed.                                               *)
Drained == chain = <<>>
FlushPasses == Drained /\ ~failures
FlushThrows == Drained /\ failures /\ failures' = FALSE

-----------------------------------------------------------------------------
(* The run.                                                                 *)

GoTo(state) == run' = state /\ UNCHANGED <<plan, turn, ticket>>

\* A start creates the run, resumes it, or rewinds it first.
Start ==
    /\ run = "off" /\ invokes < MaxInvokes
    /\ invokes' = invokes + 1
    /\ lost' = {}
    /\ \E first \in IF invokes = 0 THEN {"creating"} ELSE {"starting", "rewinding"} : GoTo(first)
    /\ UNCHANGED <<diskVars, queueVars, landed, halved, crashes, faults, unlinks, skips, reads>>

\* A flush that throws before the first step ends the start.
StartFlushThrows ==
    /\ run \in {"created", "rewinding", "starting", "loading"}
    /\ FlushThrows
    /\ GoTo("failed")
    /\ UNCHANGED <<diskVars, chain, job, checked, blocked, notices, ghosts, counts>>

\* A new run appends the user's message, and flushes.
CreateRun ==
    /\ run = "creating" /\ ticket < MaxRows
    /\ run' = "created" /\ ticket' = ticket + 1
    /\ turn' = [from |-> 0, new |-> {ticket + 1}]
    /\ chain' = <<ticket + 1>>
    /\ UNCHANGED <<diskVars, job, checked, blocked, failures, notices, plan, ghosts, counts>>

RunCreated ==
    /\ run = "created" /\ FlushPasses
    /\ GoTo("ready")
    /\ UNCHANGED <<diskVars, queueVars, ghosts, counts>>

\* resumeRun with every tool call answered.
ResumeRun ==
    /\ run = "starting" /\ FlushPasses
    /\ GoTo("loading")
    /\ UNCHANGED <<diskVars, queueVars, ghosts, counts>>

\* Removing the archives is best effort.
RemoveArchives(kept) ==
    /\ unlinks + Cardinality(kept) <= MaxUnlinks
    /\ unlinks' = unlinks + Cardinality(kept)
    /\ archives' = Kept(archives, kept)
    /\ halved' = (halved \/ kept # {})

\* appendOrphanToolStubs: a sync stitched read, which skips an archive it cannot
\* read, and syncMessages in the same callback.  The stubs are not told apart
\* from the rows they answer.
RepairStubs ==
    /\ run = "starting" /\ FlushPasses
    /\ \E unread, kept \in SUBSET DOMAIN archives :
          /\ skips + Cardinality(unread) <= MaxSkips
          /\ skips' = skips + Cardinality(unread)
          /\ live' = Rows(DOMAIN archives \ unread)
          /\ torn' = FALSE
          /\ RemoveArchives(kept)
    /\ GoTo("loading")
    /\ UNCHANGED <<queueVars, landed, lost, invokes, crashes, faults, reads>>

\* The edit of a caller that read the transcript: the rows it writes back, those
\* it takes out and adds, and where it goes on.
Edit(rows, gone, new, next) ==
    /\ plan' = [rows |-> rows, gone |-> gone, new |-> new, next |-> next]
    /\ run' = "writing"
    /\ ticket' = ticket + Cardinality(new)

\* runAgent on resume: an answer that was cut off is appended, then the transcript,
\* that answer and the user's message are written back.
LoadToResume ==
    /\ run = "loading" /\ FlushPasses
    /\ \E recovered, message \in BOOLEAN :
          LET answer == IF recovered THEN <<ticket + 1>> ELSE <<>>
              sent   == IF message THEN <<ticket + Len(answer) + 1>> ELSE <<>>
          IN /\ ticket + Len(answer \o sent) <= MaxRows
             /\ recovered => crashes > 0 /\ AllRows # <<>>
             /\ chain' = answer
             /\ turn' = [from |-> Len(AllRows \o answer), new |-> ToSet(sent)]
             /\ Edit(AllRows \o answer \o sent, {}, ToSet(answer \o sent), "ready")
    /\ UNCHANGED <<diskVars, job, checked, blocked, failures, notices, ghosts, counts>>

\* prepareRewindAndReplaceUserMessage: a prefix and the edited message.
LoadToRewind ==
    /\ run = "rewinding" /\ FlushPasses
    /\ ticket < MaxRows
    /\ \E n \in 0 .. Len(AllRows) - 1 :
          LET prefix == SubSeq(AllRows, 1, n)
          IN Edit(Append(prefix, ticket + 1), ToSet(AllRows) \ ToSet(prefix), {ticket + 1},
                  "starting")
    /\ UNCHANGED <<turn, diskVars, queueVars, ghosts, counts>>

\* A step that stubs skill bodies in place, or takes its empty answer back and
\* tries again.
LoadToAmend ==
    /\ run = "stepping" /\ FlushPasses
    /\ AllRows # <<>>
    /\ \/ Edit(AllRows, {}, {}, "stepping")
       \/ Edit(Front(AllRows), {Last(AllRows)}, {}, "boundary")
    /\ UNCHANGED <<turn, diskVars, queueVars, ghosts, counts>>

\* loadMessagesStrictAsync fails: the start ends, the empty answer stays.
StrictLoadFails ==
    /\ run \in {"rewinding", "loading", "stepping"} /\ FlushPasses
    /\ Fault
    /\ GoTo(IF run = "stepping" THEN "boundary" ELSE "failed")
    /\ UNCHANGED <<diskVars, queueVars, ghosts, invokes, crashes, unlinks, skips, reads>>

AmendFlushThrows ==
    /\ run = "stepping" /\ FlushThrows
    /\ GoTo("boundary")
    /\ UNCHANGED <<diskVars, chain, job, checked, blocked, notices, ghosts, counts>>

\* A UserPromptSubmit hook blocks the instruction: the user's rows from
\* invokeRowsFrom on are taken out, from a read by loadMessagesAsync, which skips
\* an unreadable archive and answers a read that fails with no rows at all.
Unblocked(rows, answers) ==
    [i \in DOMAIN rows |-> IF i <= turn.from \/ rows[i] \in answers THEN rows[i] ELSE Junk]
LoadAfterBlock ==
    /\ run = "ready" /\ Drained
    /\ failures' = FALSE
    /\ \/ /\ ~failures
          /\ \E unread \in SUBSET DOMAIN archives, answers \in SUBSET (landed \ turn.new) :
                /\ skips + Cardinality(unread) <= MaxSkips
                /\ skips' = skips + Cardinality(unread)
                /\ Edit(Parsed(Unblocked(Rows(DOMAIN archives \ unread), answers)),
                        turn.new, {}, "failed")
       \/ /\ IF failures THEN UNCHANGED skips
                         ELSE skips < MaxSkips /\ skips' = skips + 1
          /\ Edit(<<>>, turn.new, {}, "failed")
    /\ UNCHANGED <<turn, diskVars, chain, job, checked, blocked, notices, ghosts,
                   invokes, crashes, faults, unlinks, reads>>

\* syncMessagesAsync: the chain is flushed, the live file replaced, then the
\* archives are removed.
TranscriptWritten ==
    /\ run = "writing" /\ FlushPasses
    /\ live' = plan.rows /\ torn' = FALSE
    /\ landed' = (landed \ plan.gone) \cup plan.new
    /\ run' = "clearing"
    /\ UNCHANGED <<archives, queueVars, plan, turn, ticket, lost, halved, counts>>

TranscriptWriteFails ==
    /\ run = "writing"
    /\ \/ FlushThrows /\ UNCHANGED faults
       \/ FlushPasses /\ Fault /\ UNCHANGED failures
    /\ run' = "failed" /\ plan' = NoPlan
    /\ UNCHANGED <<diskVars, chain, job, checked, blocked, notices, turn, ticket, ghosts,
                   invokes, crashes, unlinks, skips, reads>>

ArchivesRemoved ==
    /\ run = "clearing"
    /\ \E kept \in SUBSET DOMAIN archives : RemoveArchives(kept)
    /\ run' = plan.next /\ plan' = NoPlan
    /\ UNCHANGED <<live, torn, queueVars, turn, ticket, landed, lost,
                   invokes, crashes, faults, skips, reads>>

BeginSteps ==
    /\ run = "ready" /\ GoTo("boundary")
    /\ UNCHANGED <<diskVars, queueVars, ghosts, counts>>

\* appendMessage: queued, and not awaited.
AppendMessage ==
    /\ run = "stepping" /\ ticket < MaxRows
    /\ ticket' = ticket + 1
    /\ chain' = Append(chain, ticket + 1)
    /\ UNCHANGED <<diskVars, job, checked, blocked, failures, notices, run, plan, turn,
                   ghosts, counts>>

EndStep ==
    /\ run = "stepping" /\ GoTo("boundary")
    /\ UNCHANGED <<diskVars, queueVars, ghosts, counts>>

\* The step boundary: flush, then ask for a notice, which ends the run.
StepBoundary ==
    /\ run = "boundary" /\ Drained
    /\ failures' = FALSE /\ notices' = FALSE
    /\ GoTo(IF notices THEN "failed" ELSE "stepping")
    /\ UNCHANGED <<diskVars, chain, job, checked, blocked, ghosts, counts>>

\* Mutant: `done` is claimed while rows are in the chain.
EndTurnUnflushed ==
    /\ run = "stepping"
    /\ failures' = FALSE
    /\ GoTo(IF failures THEN "failed" ELSE "done")
    /\ UNCHANGED <<diskVars, chain, job, checked, blocked, notices, ghosts, counts>>

\* The end of the turn: flush, then `done`, or a persist error.
EndTurn ==
    /\ run = "stepping" /\ Drained
    /\ failures' = FALSE
    /\ GoTo(IF failures THEN "failed" ELSE "done")
    /\ UNCHANGED <<diskVars, chain, job, checked, blocked, notices, ghosts, counts>>

\* The step ceiling and the spend limit are asked before the boundary flushes.
EndAtLimit ==
    /\ run = "boundary" /\ GoTo("limited")
    /\ UNCHANGED <<diskVars, queueVars, ghosts, counts>>

\* Any other end.
Stop ==
    /\ run \in {"ready", "boundary", "stepping"} /\ GoTo("failed")
    /\ UNCHANGED <<diskVars, queueVars, ghosts, counts>>

\* The finally flushes before the slot is free.
Finish ==
    /\ run \in {"done", "limited", "failed"} /\ Drained
    /\ failures' = FALSE
    /\ GoTo("off")
    /\ UNCHANGED <<diskVars, chain, job, checked, blocked, notices, ghosts, counts>>

RunStep ==
    \/ Start \/ CreateRun \/ RunCreated \/ StartFlushThrows \/ ResumeRun \/ RepairStubs
    \/ LoadToResume \/ LoadToRewind \/ LoadToAmend \/ StrictLoadFails \/ AmendFlushThrows
    \/ LoadAfterBlock \/ TranscriptWritten \/ TranscriptWriteFails \/ ArchivesRemoved
    \/ BeginSteps \/ AppendMessage \/ EndStep \/ StepBoundary \/ EndTurn \/ EndAtLimit
    \/ Stop \/ Finish
-----------------------------------------------------------------------------
(* Everyone else.                                                           *)

\* A reader flushes first, and takes the recorded failure with it: loadRun
\* fails, an export goes on without rows.
ReaderFlush ==
    /\ FlushThrows
    /\ reads < MaxReads /\ reads' = reads + 1
    /\ UNCHANGED <<diskVars, chain, job, checked, blocked, notices, runVars, ghosts,
                   invokes, crashes, faults, unlinks, skips>>

\* The process dies, perhaps in the middle of an append.
Crash ==
    /\ crashes < MaxCrashes /\ crashes' = crashes + 1
    /\ \/ UNCHANGED <<live, torn>>
       \/ MayAppend /\ \E line \in {Junk, Head(chain)} : Write(line, FALSE)
    /\ chain' = <<>> /\ job' = Idle /\ checked' = FALSE /\ blocked' = FALSE
    /\ failures' = FALSE /\ notices' = FALSE
    /\ run' = "off" /\ plan' = NoPlan
    /\ halved' = (halved \/ job.at = "live" \/ run = "clearing")
    /\ UNCHANGED <<archives, turn, ticket, landed, lost,
                   invokes, faults, unlinks, skips, reads>>

Next == AppendStep \/ RunStep \/ ReaderFlush \/ Crash

Spec == Init /\ [][Next]_vars
-----------------------------------------------------------------------------
(* What the transcript is promised.                                         *)

\* A row that was appended stays in the transcript a reader stitches together,
\* until a rewrite takes it out on purpose: through rotations that fail half
\* way, torn lines, retries and crashes, while no read fails for a caller that
\* does not ask for strictness or for endsWithTornLine (which takes a tail it
\* cannot open for whole: the next row then runs into the fragment), and no
\* archive stays behind a rewrite whose index was taken without it.
LandedSurvives == skips = 0 /\ unlinks = 0 => landed \subseteq ToSet(AllRows)

\* Rows stand in the transcript in the order they were appended, and once, unless
\* a swap of two files was cut short (jsonlRotation: "never the head in both
\* places, which stitched readers would show twice").
TranscriptInOrder ==
    ~halved /\ job.at # "live" /\ run # "clearing"
        => \A m, n \in DOMAIN AllRows : m < n => AllRows[m] < AllRows[n]

\* A turn that ends by itself says `done` when its rows were appended, none of
\* them given up and none still on the chain, while no reader has taken a failure
\* (the end of the turn: "otherwise the UI shows success while messages.jsonl
\* silently lost the last turns").
TurnDoneMeansSaved == run = "done" /\ reads = 0 => lost = {} /\ chain = <<>>
=============================================================================
