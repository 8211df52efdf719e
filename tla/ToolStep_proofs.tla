-------------------------- MODULE ToolStep_proofs --------------------------
(***************************************************************************)
(* The calls of a step and their prompts, for every call list, every number *)
(* of steps and every cap: a call runs on the user's yes, a prompt that is  *)
(* open is one somebody waits for, and the calls run, and their results are *)
(* written, in their order.                                                 *)
(*                                                                          *)
(* ToolInv carries the registry's SlotInv, that a step belongs to an invoke *)
(* in its step loop (StepIsInLoop), that a call on its way belongs to the   *)
(* group its step waits for (OnTheWay), and that a call past its gate has   *)
(* the yes it needs (PastItsGate, with Asked and Known for the two ways to  *)
(* get one).                                                                *)
(*                                                                          *)
(* StepInOrder needs the grouping itself: GroupsFit says that the groups of *)
(* any call list split it in its order into calls that may run together,    *)
(* by induction on the calls.  OrderInv then says that the groups before    *)
(* the one at work are done and on disk and those behind it untouched       *)
(* (GroupsInTurn), which rows there are (Written), and that nothing on its  *)
(* way follows a question (Answered).                                       *)
(***************************************************************************)
EXTENDS ToolStep, RunRegistry_proofs, SequenceTheorems, FiniteSetTheorems

\* A call on its way, and one past its gate.
Way == {"authorizing", "asking", "cleared", "running", "question"}
Through == {"cleared", "running", "question", "result", "threw"}

HasYes(i, c) ==
    /\ plan[i][c].gate = "ask" => c \in yes[i] \/ plan[i][c].name \in granted
    /\ plan[i][c].gate = "held" => c \in yes[i]
    /\ plan[i][c].gate # "deny"

StepTypes ==
    /\ step \in [Invoke -> {"none", "running", "settled", "unsaved", "threw"}]
    /\ soft \in [Invoke -> BOOLEAN]
    /\ at \in [Invoke -> Nat]
    /\ DOMAIN calls = Invoke /\ DOMAIN plan = Invoke /\ DOMAIN groups = Invoke
    /\ DOMAIN allow = Invoke /\ DOMAIN yes = Invoke

StepIsInLoop == \A i \in Invoke : Running(i) => phase[i] = "stepping"
Known == \A i \in Invoke : allow[i] \subseteq granted
Asked ==
    \A i \in Invoke : \A c \in DOMAIN calls[i] :
        calls[i][c] = "asking" => plan[i][c].gate # "deny"
PastItsGate ==
    \A i \in Invoke : \A c \in DOMAIN calls[i] : calls[i][c] \in Through => HasYes(i, c)
OnTheWay ==
    \A i \in Invoke : \A c \in DOMAIN calls[i] :
        calls[i][c] \in Way => Running(i) /\ at[i] > 0 /\ c \in Group(i)

StepInv ==
    StepTypes /\ StepIsInLoop /\ Known /\ Asked /\ PastItsGate /\ OnTheWay /\ PromptIsLive
ToolInv == SlotInv /\ StepInv
-----------------------------------------------------------------------------
\* A step of the composition is a step of the registry or leaves it alone.
LEMMA StepMaps ==
    ASSUME [Next]_vars
    PROVE  [RegNext]_regVars
<1>1. CASE UNCHANGED vars
  BY <1>1 DEF vars
<1>2. CASE Launch
  BY <1>2 DEF Launch, RegNext
<1>3. CASE CancelRun
  BY <1>3 DEF CancelRun, RegNext, Others
<1>4. CASE (ForceFinish \/ StatusLands) /\ UNCHANGED stepVars
  BY <1>4 DEF RegNext, Others
<1>5. ASSUME NEW i \in Invoke, LoopBegins(i) \/ TailEnds(i) PROVE RegNext
  BY <1>5 DEF LoopBegins, TailEnds, RegNext, InvokeStep
<1>6. ASSUME NEW i \in Invoke, LeaveLoop(i) PROVE RegNext
  <2>1. CloseTurn(i) \/ Stop(i, "done") \/ Stop(i, "error") \/ StopCancelled(i)
    BY <1>6 DEF LeaveLoop
  <2> QED
    BY <2>1 DEF RegNext, InvokeStep
<1>7. ASSUME NEW i \in Invoke, RegistryOnly(i) PROVE RegNext
  BY <1>7 DEF RegistryOnly, RegNext, InvokeStep
<1>8. ASSUME NEW i \in Invoke, NEW list \in Steps, StepBegins(i, list)
      PROVE  UNCHANGED regVars
  BY <1>8 DEF StepBegins
<1>9. ASSUME NEW i \in Invoke, ResultStep(i) PROVE UNCHANGED regVars
  BY <1>9 DEF ResultStep, StartGroup, WriteNext, WriteFails, StepThrows, StepEnds, End
<1>10. ASSUME NEW i \in Invoke, SendNow(i) PROVE UNCHANGED regVars
  BY <1>10 DEF SendNow
<1>11. ASSUME NEW i \in Invoke, NEW c \in DOMAIN calls[i], CallStep(i, c)
       PROVE  UNCHANGED regVars
  BY <1>11 DEF CallStep, Authorize, Deny, Allow, AllowMore, HookBlocks, Execute, ToolReturns,
       ToolStops, ToolThrows, AnswerQuestion
<1> QED
  BY <1>1, <1>2, <1>3, <1>4, <1>5, <1>6, <1>7, <1>8, <1>9, <1>10, <1>11 DEF Next

\* ToolStep implements RunRegistry: no call, prompt or result moves the slot, the phase of an
\* invoke or the status of the run other than as the registry does.
THEOREM StepsImplementRegistry == Spec => RegSpec
<1>1. Init => RegInit
  BY DEF Init
<1>2. [Next]_vars => [RegNext]_regVars
  BY StepMaps
<1> QED
  BY <1>1, <1>2, PTL DEF Spec, RegSpec

LEMMA SlotStays ==
    ASSUME ToolInv, [Next]_vars
    PROVE  SlotInv'
BY StepMaps, TypeStep, OneLoopStep DEF ToolInv, SlotInv
-----------------------------------------------------------------------------
LEMMA ToolInit == Init => ToolInv
<1> SUFFICES ASSUME Init PROVE ToolInv
  OBVIOUS
<1>1. SlotInv
  BY SlotInit DEF Init
<1>2. StepTypes
  BY DEF Init, StepTypes
<1>3. \A i \in Invoke : DOMAIN calls[i] = {} /\ ~Running(i) /\ allow[i] = {}
  BY DEF Init, Running
<1>4. \A i \in Invoke : phase[i] \notin InLoop
  BY DEF Init, RegInit, InLoop
<1> QED
  BY <1>1, <1>2, <1>3, <1>4 DEF ToolInv, StepInv, StepIsInLoop, Known, Asked, PastItsGate,
     OnTheWay, PromptIsLive

\* While a step runs, its invoke has the slot.
LEMMA RunningIsCurrent ==
    ASSUME ToolInv, NEW i \in Invoke, Running(i)
    PROVE  isCurrentInvoke(i)
BY DEF ToolInv, StepInv, StepIsInLoop, SlotInv, OneLoopPerRun, InLoop

\* One call goes on: what it needs for that is all the invariant asks of it.
LEMMA CallMoves ==
    ASSUME ToolInv,
           NEW i \in Invoke, NEW c \in DOMAIN calls[i], NEW s,
           Put(i, c, s),
           UNCHANGED <<regVars, step, plan, groups, at, soft, sender>>,
           calls[i][c] \in Way,
           DOMAIN allow' = Invoke, DOMAIN yes' = Invoke,
           granted \subseteq granted',
           \A j \in Invoke : yes[j] \subseteq yes'[j] /\ allow'[j] \subseteq granted',
           s = "asking" => plan[i][c].gate # "deny",
           s \in Open => ~Stopped(i),
           s \in Through => HasYes(i, c)'
    PROVE  StepInv'
<1> USE DEF ToolInv, StepInv
<1>1. StepTypes'
  BY DEF StepTypes, Put
<1>2. ASSUME NEW j \in Invoke, NEW d \in DOMAIN calls'[j]
      PROVE  /\ d \in DOMAIN calls[j]
             /\ calls'[j][d] = IF j = i /\ d = c THEN s ELSE calls[j][d]
  BY <1>2 DEF Put, StepTypes
<1>3. StepIsInLoop' /\ Known'
  BY DEF StepIsInLoop, Known, Running, regVars, slotVars
<1>4. Asked'
  BY <1>2 DEF Asked
<1>5. PastItsGate'
  <2>1. ASSUME NEW j \in Invoke, NEW d \in DOMAIN calls[j], HasYes(j, d)
        PROVE  HasYes(j, d)'
    BY <2>1 DEF HasYes
  <2> QED
    BY <1>2, <2>1 DEF PastItsGate
<1>6. OnTheWay'
  BY <1>2 DEF OnTheWay, Running, Group
<1>7. PromptIsLive'
  <2>1. ASSUME NEW j \in Invoke PROVE Stopped(j)' = Stopped(j) /\ Running(j)' = Running(j)
    BY DEF Stopped, Running, isCurrentInvoke, isActive, regVars, slotVars
  <2>2. phase' = phase
    BY DEF regVars, slotVars
  <2>3. ASSUME NEW j \in Invoke, NEW d \in DOMAIN calls'[j], calls'[j][d] \in Open
        PROVE  Running(j)' /\ ~Stopped(j)'
    <3>1. CASE j = i /\ d = c
      BY <1>2, <2>1, <2>3, <3>1 DEF OnTheWay
    <3>2. CASE ~(j = i /\ d = c)
      BY <1>2, <2>1, <2>3, <3>2 DEF PromptIsLive
    <3> QED BY <3>1, <3>2
  <2> QED
    BY <2>2, <2>3 DEF PromptIsLive
<1> QED
  BY <1>1, <1>3, <1>4, <1>5, <1>6, <1>7

\* What comes of a call that goes on.
LEMMA CallStepStays ==
    ASSUME ToolInv, NEW i \in Invoke, NEW c \in DOMAIN calls[i], CallStep(i, c)
    PROVE  StepInv'
<1> USE DEF Way, Through, Open, gateVars, boundVars
<1>1. /\ DOMAIN allow = Invoke /\ DOMAIN yes = Invoke
      /\ \A j \in Invoke : allow[j] \subseteq granted
      /\ calls[i][c] = "asking" => plan[i][c].gate # "deny"
      /\ calls[i][c] \in Through => HasYes(i, c)
  BY DEF ToolInv, StepInv, StepTypes, Known, Asked, PastItsGate
<1>2. CASE Authorize(i, c)
  <2> DEFINE s == IF plan[i][c].gate = "deny" THEN "refused"
                  ELSE IF ~MustAsk(i, c) THEN "cleared"
                  ELSE IF sender = NoSender THEN "refused"
                  ELSE IF Stopped(i) THEN "stopped" ELSE "asking"
  <2>1. Put(i, c, s) /\ calls[i][c] = "authorizing"
    BY <1>2 DEF Authorize
  <2>2. UNCHANGED <<regVars, step, plan, groups, at, soft, sender, allow, granted, yes>>
    BY <1>2 DEF Authorize
  <2>3. s = "asking" => plan[i][c].gate # "deny"
    OBVIOUS
  <2>4. s \in Open => ~Stopped(i)
    OBVIOUS
  <2>5. s \in Through => HasYes(i, c)'
    <3>1. s \in Through => plan[i][c].gate # "deny" /\ ~MustAsk(i, c)
      OBVIOUS
    <3>2. plan[i][c].name \in allow[i] => plan[i][c].name \in granted
      BY <1>1
    <3> QED
      BY <2>2, <3>1, <3>2 DEF MustAsk, HasYes
  <2> HIDE DEF s
  <2> QED
    BY <1>1, <2>1, <2>2, <2>3, <2>4, <2>5, CallMoves
<1>3. CASE Deny(i, c)
  <2>1. /\ Put(i, c, "refused") /\ calls[i][c] = "asking"
        /\ UNCHANGED <<regVars, step, plan, groups, at, soft, sender, allow, granted, yes>>
    BY <1>3 DEF Deny
  <2> QED
    BY <1>1, <2>1, CallMoves
<1>4. CASE Allow(i, c)
  <2>1. /\ Put(i, c, "cleared") /\ calls[i][c] = "asking"
        /\ UNCHANGED <<regVars, step, plan, groups, at, soft, sender, allow, granted>>
        /\ yes' = [yes EXCEPT ![i] = @ \cup {c}]
    BY <1>4 DEF Allow
  <2>2. DOMAIN yes' = Invoke /\ \A j \in Invoke : yes[j] \subseteq yes'[j]
    BY <1>1, <2>1
  <2>3. HasYes(i, c)'
    BY <1>1, <2>1 DEF HasYes
  <2> QED
    BY <1>1, <2>1, <2>2, <2>3, CallMoves
<1>5. CASE AllowMore(i, c)
  <2>1. /\ Put(i, c, "cleared") /\ calls[i][c] = "asking"
        /\ UNCHANGED <<regVars, step, plan, groups, at, soft, sender>>
        /\ yes' = [yes EXCEPT ![i] = @ \cup {c}]
        /\ allow' = [allow EXCEPT ![i] = @ \cup {plan[i][c].name}]
        /\ granted' = granted \cup {plan[i][c].name}
    BY <1>5 DEF AllowMore
  <2>2. /\ DOMAIN yes' = Invoke /\ DOMAIN allow' = Invoke /\ granted \subseteq granted'
        /\ \A j \in Invoke : yes[j] \subseteq yes'[j] /\ allow'[j] \subseteq granted'
    BY <1>1, <2>1
  <2>3. HasYes(i, c)'
    BY <1>1, <2>1 DEF HasYes
  <2> QED
    BY <2>1, <2>2, <2>3, CallMoves, <1>1
<1>6. CASE HookBlocks(i, c)
  <2>1. /\ Put(i, c, "refused") /\ calls[i][c] = "cleared"
        /\ UNCHANGED <<regVars, step, plan, groups, at, soft, sender, allow, granted, yes>>
    BY <1>6 DEF HookBlocks
  <2> QED
    BY <1>1, <2>1, CallMoves
<1>7. CASE Execute(i, c)
  <2> DEFINE s == IF Stopped(i) THEN "stopped"
                  ELSE IF plan[i][c].name # AskQuestion THEN "running"
                  ELSE IF sender = NoSender THEN "result" ELSE "question"
  <2>1. /\ Put(i, c, s) /\ calls[i][c] = "cleared"
        /\ UNCHANGED <<regVars, step, plan, groups, at, soft, sender, allow, granted, yes>>
    BY <1>7 DEF Execute
  <2>2. s # "asking" /\ (s \in Open => ~Stopped(i))
    OBVIOUS
  <2>3. HasYes(i, c)'
    BY <1>1, <2>1 DEF HasYes
  <2> HIDE DEF s
  <2> QED
    BY <1>1, <2>1, <2>2, <2>3, CallMoves
<1>8. CASE ToolReturns(i, c)
  <2>1. /\ Put(i, c, "result") /\ calls[i][c] = "running"
        /\ UNCHANGED <<regVars, step, plan, groups, at, soft, sender, allow, granted, yes>>
    BY <1>8 DEF ToolReturns
  <2>2. HasYes(i, c)'
    BY <1>1, <2>1 DEF HasYes
  <2> QED
    BY <1>1, <2>1, <2>2, CallMoves
<1>9. CASE ToolStops(i, c)
  <2>1. /\ Put(i, c, "stopped") /\ calls[i][c] = "running"
        /\ UNCHANGED <<regVars, step, plan, groups, at, soft, sender, allow, granted, yes>>
    BY <1>9 DEF ToolStops
  <2> QED
    BY <1>1, <2>1, CallMoves
<1>10. CASE ToolThrows(i, c)
  <2>1. /\ Put(i, c, "threw") /\ calls[i][c] = "running"
        /\ UNCHANGED <<regVars, step, plan, groups, at, soft, sender, allow, granted, yes>>
    BY <1>10 DEF ToolThrows
  <2>2. HasYes(i, c)'
    BY <1>1, <2>1 DEF HasYes
  <2> QED
    BY <1>1, <2>1, <2>2, CallMoves
<1>11. CASE AnswerQuestion(i, c)
  <2>1. /\ Put(i, c, "result") /\ calls[i][c] = "question"
        /\ UNCHANGED <<regVars, step, plan, groups, at, soft, sender, allow, granted, yes>>
    BY <1>11 DEF AnswerQuestion
  <2>2. HasYes(i, c)'
    BY <1>1, <2>1 DEF HasYes
  <2> QED
    BY <1>1, <2>1, <2>2, CallMoves
<1> QED
  BY <1>2, <1>3, <1>4, <1>5, <1>6, <1>7, <1>8, <1>9, <1>10, <1>11 DEF CallStep

-----------------------------------------------------------------------------
\* Prompts are closed, or nothing happens to the calls: what is left open must be of a step
\* that is not stopped, and a loop must keep its window.
LEMMA PromptsClose ==
    ASSUME ToolInv,
           UNCHANGED <<step, plan, groups, at, granted, yes>>,
           DOMAIN allow' = Invoke, \A j \in Invoke : allow'[j] \subseteq granted,
           soft' \in [Invoke -> BOOLEAN],
           \A j \in Invoke : Running(j) => phase'[j] = "stepping",
           DOMAIN calls' = Invoke,
           \A j \in Invoke : DOMAIN calls'[j] = DOMAIN calls[j],
           \A j \in Invoke : \A d \in DOMAIN calls[j] :
               \/ calls'[j][d] = calls[j][d]
               \/ calls'[j][d] = "stopped"
               \/ calls[j][d] = "question" /\ calls'[j][d] = "result",
           \A j \in Invoke : \A d \in DOMAIN calls[j] :
               calls[j][d] \in Open /\ calls'[j][d] = calls[j][d] => ~Stopped(j)',
           \A j \in Invoke : phase'[j] \in InLoop => sender' = j
    PROVE  StepInv'
<1> USE DEF ToolInv, StepInv, Open, Way, Through
<1>1. StepTypes'
  BY DEF StepTypes
<1>2. StepIsInLoop' /\ Known'
  BY DEF StepIsInLoop, Known, Running
<1>3. Asked' /\ PastItsGate' /\ OnTheWay'
  <2>1. Asked'
    BY DEF Asked
  <2>2. PastItsGate'
    BY DEF PastItsGate, HasYes
  <2>3. OnTheWay'
    BY DEF OnTheWay, Running, Group
  <2> QED BY <2>1, <2>2, <2>3
<1>4. PromptIsLive'
  <2>1. ASSUME NEW j \in Invoke, NEW d \in DOMAIN calls'[j], calls'[j][d] \in Open
        PROVE  Running(j)' /\ ~Stopped(j)'
    BY <2>1 DEF OnTheWay, Running
  <2> QED
    BY <2>1 DEF PromptIsLive
<1> QED
  BY <1>1, <1>2, <1>3, <1>4

\* What of an invoke's own step is not touched by the steps below.
LEMMA Types == ASSUME ToolInv PROVE StepTypes /\ Known /\ RegTypeOK
BY DEF ToolInv, StepInv, SlotInv

LEMMA LaunchStays == ASSUME ToolInv, Launch PROVE StepInv'
<1> USE DEF Launch, workVars, gateVars, boundVars
<1>1. ~isActive /\ \A j \in Invoke : phase[j] \notin InLoop
  BY DEF ToolInv, SlotInv, OneLoopPerRun, Register, isCurrentInvoke
<1>2. \A j \in Invoke : ~Running(j)
  BY RunningIsCurrent, <1>1 DEF isCurrentInvoke
<1>3. \A j \in Invoke : \A d \in DOMAIN calls[j] : calls[j][d] \notin Open
  BY <1>2 DEF ToolInv, StepInv, PromptIsLive
<1>4. \A j \in Invoke : phase'[j] \in InLoop => sender' = j
  BY <1>1, Types DEF Register, RegTypeOK, MoveTo
<1> QED
  BY <1>2, <1>3, <1>4, PromptsClose, Types DEF StepTypes, Known

LEMMA CancelStays == ASSUME ToolInv, CancelRun PROVE StepInv'
<1> USE DEF CancelRun, Cancel, gateVars, boundVars
<1>1. /\ \A j \in Invoke : DOMAIN calls'[j] = DOMAIN calls[j]
      /\ \A j \in Invoke : \A d \in DOMAIN calls[j] :
           calls'[j][d] = IF calls[j][d] \in Open THEN "stopped" ELSE calls[j][d]
  BY DEF Closed
<1>2. DOMAIN calls' = Invoke /\ soft' \in [Invoke -> BOOLEAN]
  <2>1. DOMAIN calls' = Invoke
    BY DEF Closed
  <2>2. \A j \in Invoke : (soft[j] \/ (Running(j) /\ isCurrentInvoke(j))) \in BOOLEAN
    BY Zenon
  <2> QED BY <2>1, <2>2
<1>3. \A j \in Invoke : /\ Running(j) => phase'[j] = "stepping"
                        /\ phase'[j] \in InLoop => sender' = j
  BY DEF ToolInv, StepInv, StepIsInLoop, PromptIsLive
<1> QED
  BY <1>1, <1>2, <1>3, PromptsClose, Types DEF StepTypes, Known, Open

LEMMA SendNowStays == ASSUME ToolInv, NEW i \in Invoke, SendNow(i) PROVE StepInv'
<1> USE DEF SendNow, gateVars
<1>1. /\ DOMAIN calls' = Invoke
      /\ \A j \in Invoke : DOMAIN calls'[j] = DOMAIN calls[j]
      /\ \A j \in Invoke : \A d \in DOMAIN calls[j] :
           calls'[j][d] = IF j = i /\ calls[j][d] = "asking" THEN "stopped"
                          ELSE IF j = i /\ calls[j][d] = "question" THEN "result"
                          ELSE calls[j][d]
  OBVIOUS
<1>2. soft' \in [Invoke -> BOOLEAN] /\ \A j \in Invoke : j # i => soft'[j] = soft[j]
  BY Types DEF StepTypes
<1>3. slot' = slot /\ phase' = phase
  BY DEF regVars, slotVars
<1>4. \A j \in Invoke : /\ Running(j) => phase'[j] = "stepping"
                        /\ phase'[j] \in InLoop => sender' = j
  BY <1>3 DEF ToolInv, StepInv, StepIsInLoop, PromptIsLive
<1>5. ASSUME NEW j \in Invoke, NEW d \in DOMAIN calls[j],
             calls[j][d] \in Open, calls'[j][d] = calls[j][d]
      PROVE  ~Stopped(j)'
  <2>1. j # i
    BY <1>1, <1>5 DEF Open
  <2>2. ~Stopped(j)
    BY <1>5 DEF ToolInv, StepInv, PromptIsLive
  <2> QED
    BY <2>1, <2>2, <1>2, <1>3 DEF Stopped, isCurrentInvoke, isActive
<1> QED
  BY <1>1, <1>2, <1>4, <1>5, PromptsClose, Types DEF StepTypes, Known

\* The turn of the slot may be closed, or the slot given back: nobody's step is stopped by it.
LEMMA NotStopped ==
    ASSUME ToolInv, NEW j \in Invoke, ~Stopped(j), soft' = soft,
           slot' = slot \/ slot' = NoEntry \/ \E k \in Invoke : slot' = TurnComplete(k)
    PROVE  ~Stopped(j)'
<1>1. slot \in Entry \cup {NoEntry}
  BY DEF ToolInv, SlotInv, RegTypeOK
<1>2. ~soft'[j]
  BY DEF Stopped
<1>3. CASE slot' = slot
  BY <1>3 DEF Stopped, isCurrentInvoke, isActive
<1>4. CASE slot' = NoEntry
  BY <1>2, <1>4 DEF Stopped, isCurrentInvoke, isActive
<1>5. ASSUME NEW k \in Invoke, isCurrentInvoke(k), slot' = TurnComplete(k)
      PROVE  ~Stopped(j)'
  <2>1. slot \in Entry
    BY <1>1, <1>5 DEF isCurrentInvoke, isActive
  <2>2. slot' = [slot EXCEPT !.turnComplete = TRUE]
    BY <1>5 DEF TurnComplete
  <2>3. slot'.invoke = slot.invoke /\ slot'.aborted = slot.aborted
    BY <2>1, <2>2 DEF Entry
  <2> QED
    BY <1>2, <1>5, <2>3 DEF Stopped, isCurrentInvoke, isActive
<1>6. ASSUME NEW k \in Invoke, ~isCurrentInvoke(k), slot' = TurnComplete(k)
      PROVE  slot' = slot
  BY <1>6 DEF TurnComplete
<1> QED
  BY <1>3, <1>4, <1>5, <1>6

\* Steps of the registry that leave the calls alone.
LEMMA RegistryStays ==
    ASSUME ToolInv,
           UNCHANGED <<workVars, granted, yes, sender>>,
           DOMAIN allow' = Invoke, \A j \in Invoke : allow'[j] \subseteq granted,
           \A j \in Invoke : Running(j) => phase'[j] = "stepping",
           \A j \in Invoke : phase'[j] \in InLoop => phase[j] \in InLoop,
           slot' = slot \/ slot' = NoEntry \/ \E k \in Invoke : slot' = TurnComplete(k)
    PROVE  StepInv'
<1>1. ASSUME NEW j \in Invoke, NEW d \in DOMAIN calls[j], calls[j][d] \in Open
      PROVE  ~Stopped(j)'
  <2>1. ~Stopped(j)
    BY <1>1 DEF ToolInv, StepInv, PromptIsLive
  <2> QED
    BY <2>1, NotStopped DEF workVars
<1>2. \A j \in Invoke : phase'[j] \in InLoop => sender' = j
  BY DEF ToolInv, StepInv, PromptIsLive
<1> QED
  BY <1>1, <1>2, PromptsClose, Types DEF StepTypes, workVars

LEMMA TimerStays ==
    ASSUME ToolInv, ForceFinish \/ StatusLands, UNCHANGED stepVars
    PROVE  StepInv'
<1>1. slot' = slot /\ phase' = phase
  BY DEF ForceFinish, StatusLands, slotVars
<1> QED
  BY <1>1, RegistryStays, Types DEF ToolInv, StepInv, StepIsInLoop, StepTypes, Known, stepVars,
     gateVars

LEMMA RegistryOnlyStays == ASSUME ToolInv, NEW i \in Invoke, RegistryOnly(i) PROVE StepInv'
<1> USE DEF MoveTo, slotVars
<1>1. UNCHANGED stepVars
  BY DEF RegistryOnly
<1>2. phase \in [Invoke -> Phase]
  BY Types DEF RegTypeOK
<1>3. /\ slot' = slot \/ slot' = NoEntry \/ \E k \in Invoke : slot' = TurnComplete(k)
      /\ phase' = phase \/ \E p \in Phase \ {"starting", "stepping"} :
                              phase[i] # "stepping" /\ phase' = [phase EXCEPT ![i] = p]
                              /\ (p \in InLoop => phase[i] \in InLoop)
  <2> USE DEF Phase, InLoop
  <2>1. CASE RuntimeRefuses(i)
    BY <2>1 DEF RuntimeRefuses
  <2>2. CASE ResumeThrows(i)
    BY <2>2 DEF ResumeThrows
  <2>3. CASE WriteStep(i)
    BY <2>3 DEF WriteStep
  <2>4. ASSUME NEW s \in {"done", "error"}, EndTurn(i, s)
        PROVE  slot' = slot /\ phase[i] = "closing" /\ phase' = [phase EXCEPT ![i] = "unwinding"]
    BY <2>4 DEF EndTurn
  <2>5. CASE FinallyFlushed(i) \/ FinallyFails(i)
    BY <2>5 DEF FinallyFlushed, FinallyFails
  <2>6. CASE ReleaseSlot(i)
    BY <2>6 DEF ReleaseSlot, ClearRunAbort
  <2> QED
    BY <2>1, <2>2, <2>3, <2>4, <2>5, <2>6 DEF RegistryOnly
<1>4. \A j \in Invoke : /\ Running(j) => phase'[j] = "stepping"
                        /\ phase'[j] \in InLoop => phase[j] \in InLoop
  BY <1>2, <1>3 DEF ToolInv, StepInv, StepIsInLoop
<1> QED
  BY <1>1, <1>3, <1>4, RegistryStays, Types DEF StepTypes, Known, stepVars, gateVars

LEMMA LoopBeginsStays == ASSUME ToolInv, NEW i \in Invoke, LoopBegins(i) PROVE StepInv'
<1>1. /\ slot' = slot /\ phase[i] = "starting" /\ phase' = [phase EXCEPT ![i] = "stepping"]
      /\ UNCHANGED <<workVars, granted, yes, sender>>
  BY DEF LoopBegins, Resume, MoveTo
<1>2. PICK known \in SUBSET granted : allow' = [allow EXCEPT ![i] = known]
  BY DEF LoopBegins
<1>3. DOMAIN allow' = Invoke /\ \A j \in Invoke : allow'[j] \subseteq granted
  BY <1>2, Types DEF StepTypes, Known
<1>4. \A j \in Invoke : /\ Running(j) => phase'[j] = "stepping"
                        /\ phase'[j] \in InLoop => phase[j] \in InLoop
  BY <1>1, Types DEF ToolInv, StepInv, StepIsInLoop, RegTypeOK, InLoop
<1> QED
  BY <1>1, <1>3, <1>4, RegistryStays

LEMMA TailEndsStays == ASSUME ToolInv, NEW i \in Invoke, TailEnds(i) PROVE StepInv'
<1> USE DEF gateVars
<1>1. /\ phase[i] = "tail" /\ phase' = [phase EXCEPT ![i] = "over"]
      /\ slot' = slot \/ slot' = NoEntry
      /\ UNCHANGED <<step, plan, groups, at, soft, gateVars>>
      /\ sender' = IF sender = i THEN NoSender ELSE sender
  BY DEF TailEnds, EndTail, ClearRunAbort, MoveTo
<1>2. /\ DOMAIN calls' = Invoke
      /\ \A j \in Invoke : DOMAIN calls'[j] = DOMAIN calls[j]
      /\ \A j \in Invoke : \A d \in DOMAIN calls[j] :
           calls'[j][d] = calls[j][d] \/ calls'[j][d] = "stopped"
  BY DEF TailEnds, Closed
<1>3. \A j \in Invoke : /\ Running(j) => phase'[j] = "stepping"
                        /\ phase'[j] \in InLoop => sender' = j
  BY <1>1, Types DEF ToolInv, StepInv, StepIsInLoop, PromptIsLive, RegTypeOK, InLoop
<1>4. ASSUME NEW j \in Invoke, NEW d \in DOMAIN calls[j], calls[j][d] \in Open
      PROVE  ~Stopped(j)'
  <2>1. ~Stopped(j)
    BY <1>4 DEF ToolInv, StepInv, PromptIsLive
  <2> QED
    BY <1>1, <2>1, NotStopped
<1> QED
  BY <1>1, <1>2, <1>3, <1>4, PromptsClose, Types DEF StepTypes, Known

-----------------------------------------------------------------------------
\* The step begins, goes on to its next group, writes a result, ends; and the loop leaves it.

\* What invoke i changes of its own step is all that changes.
LEMMA OwnStep ==
    ASSUME ToolInv, StepTypes', NEW i \in Invoke,
           \A j \in Invoke \ {i} :
               /\ step'[j] = step[j] /\ plan'[j] = plan[j] /\ groups'[j] = groups[j]
               /\ at'[j] = at[j] /\ calls'[j] = calls[j] /\ soft'[j] = soft[j]
               /\ allow'[j] = allow[j] /\ yes'[j] = yes[j]
               /\ phase'[j] = phase[j],
           sender' = sender, granted' = granted,
           slot' = slot \/ slot' = NoEntry \/ \E k \in Invoke : slot' = TurnComplete(k),
           phase'[i] \in InLoop => phase[i] \in InLoop,
           Running(i)' => phase'[i] = "stepping",
           allow'[i] \subseteq granted,
           \A c \in DOMAIN calls'[i] :
               /\ calls'[i][c] \notin Open
               /\ calls'[i][c] \in Through => HasYes(i, c)'
               /\ calls'[i][c] \in Way => Running(i)' /\ at'[i] > 0 /\ (c \in Group(i))'
    PROVE  StepInv'
<1> USE DEF ToolInv, StepInv, Open, Way, Through
<1>1. StepIsInLoop' /\ Known'
  BY DEF StepIsInLoop, Known, Running
<1>2. Asked' /\ PastItsGate'
  BY DEF Asked, PastItsGate, HasYes
<1>3. OnTheWay'
  BY DEF OnTheWay, Running, Group
<1>4. PromptIsLive'
  <2>1. ASSUME NEW j \in Invoke, NEW d \in DOMAIN calls'[j], calls'[j][d] \in Open
        PROVE  Running(j)' /\ ~Stopped(j)'
    <3>1. j # i /\ d \in DOMAIN calls[j] /\ calls[j][d] \in Open
      BY <2>1
    <3>2. Running(j) /\ ~Stopped(j)
      BY <3>1 DEF PromptIsLive
    <3>3. isCurrentInvoke(j)
      BY <3>2, RunningIsCurrent
    <3>4. slot' # NoEntry => slot'.aborted = slot.aborted
      <4>1. slot \in Entry
        BY <3>3 DEF SlotInv, RegTypeOK, isCurrentInvoke, isActive
      <4> QED BY <4>1 DEF TurnComplete, Entry
    <3> QED
      BY <3>1, <3>2, <3>3, <3>4 DEF Running, Stopped, isCurrentInvoke, isActive
  <2>2. \A j \in Invoke : phase'[j] \in InLoop => sender' = j
    BY DEF PromptIsLive
  <2> QED
    BY <2>1, <2>2 DEF PromptIsLive
<1> QED
  BY <1>1, <1>2, <1>3, <1>4

\* Nothing of a step that does not run is on its way.
LEMMA NothingOnTheWay ==
    ASSUME ToolInv, NEW i \in Invoke, Running(i) => GroupIsSettled(i) \/ at[i] = 0
    PROVE  \A c \in DOMAIN calls[i] : calls[i][c] \notin Way
BY DEF ToolInv, StepInv, OnTheWay, GroupIsSettled, Settled, Way

LEMMA StepBeginsStays ==
    ASSUME ToolInv, NEW i \in Invoke, NEW list \in Steps, StepBegins(i, list)
    PROVE  StepInv'
<1> USE DEF StepBegins, regVars, slotVars
<1>1. StepTypes'
  BY Types DEF StepTypes
<1>2. /\ phase[i] = "stepping" /\ phase' = phase /\ slot' = slot
      /\ sender' = sender /\ granted' = granted /\ allow' = allow
  OBVIOUS
<1>3. \A j \in Invoke \ {i} :
           /\ step'[j] = step[j] /\ plan'[j] = plan[j] /\ groups'[j] = groups[j]
           /\ at'[j] = at[j] /\ calls'[j] = calls[j] /\ soft'[j] = soft[j]
           /\ yes'[j] = yes[j]
  OBVIOUS
<1>4. \A c \in DOMAIN calls'[i] : calls'[i][c] \notin Open \cup Way \cup Through
  BY Types DEF StepTypes, Open, Way, Through
<1>5. allow'[i] \subseteq granted
  BY <1>2, Types DEF Known
<1> HIDE DEF StepBegins, regVars, slotVars
<1> QED
  BY <1>1, <1>2, <1>3, <1>4, <1>5, OwnStep

LEMMA StartGroupStays ==
    ASSUME ToolInv, NEW i \in Invoke, StartGroup(i)
    PROVE  StepInv'
<1> DEFINE next == SX!ToSet(groups[i][at[i] + 1])
           state == IF Stopped(i) THEN "stopped"
                    ELSE IF HeldForAnswer(i) THEN "held" ELSE "authorizing"
<1>1. /\ Running(i) /\ at' = [at EXCEPT ![i] = @ + 1]
      /\ calls' = [calls EXCEPT ![i] = [c \in DOMAIN @ |-> IF c \in next THEN state ELSE @[c]]]
      /\ UNCHANGED <<regVars, step, plan, groups, rows, soft, allow, granted, yes, sender>>
  BY DEF StartGroup, gateVars
<1>2. \A c \in DOMAIN calls[i] : calls[i][c] \notin Way
  BY NothingOnTheWay, Types DEF StartGroup, GroupIsWritten, StepTypes
<1>3. state \in {"stopped", "held", "authorizing"}
  OBVIOUS
<1> HIDE DEF state
<1>4. /\ \A j \in Invoke \ {i} : at'[j] = at[j] /\ calls'[j] = calls[j]
      /\ at'[i] = at[i] + 1 /\ at[i] \in Nat
      /\ \A c \in DOMAIN calls'[i] :
           c \in DOMAIN calls[i] /\ calls'[i][c] = IF c \in next THEN state ELSE calls[i][c]
  BY <1>1, Types DEF StepTypes
<1>5. StepTypes'
  BY <1>1, Types DEF StepTypes
<1>6. phase' = phase /\ slot' = slot /\ phase[i] = "stepping"
  BY <1>1 DEF regVars, slotVars, ToolInv, StepInv, StepIsInLoop
<1>7. Group(i)' = next
  BY <1>1, <1>4 DEF Group
<1> HIDE DEF next
<1>8. ASSUME NEW c \in DOMAIN calls'[i]
      PROVE  /\ calls'[i][c] \notin Open
             /\ calls'[i][c] \in Through => HasYes(i, c)'
             /\ calls'[i][c] \in Way => Running(i)' /\ at'[i] > 0 /\ (c \in Group(i))'
  <2>1. CASE c \in next
    BY <1>1, <1>3, <1>4, <1>7, <2>1 DEF Open, Through, Running
  <2>2. CASE c \notin next
    <3>1. calls'[i][c] = calls[i][c] /\ calls[i][c] \notin Way
      BY <1>2, <1>4, <2>2
    <3>2. calls[i][c] \in Through => HasYes(i, c)
      BY <1>4 DEF ToolInv, StepInv, PastItsGate
    <3> QED
      BY <1>1, <3>1, <3>2 DEF Open, Way, HasYes
  <2> QED BY <2>1, <2>2
<1> QED
  BY <1>1, <1>4, <1>5, <1>6, <1>8, OwnStep, Types DEF Known

LEMMA StepGoesStays ==
    ASSUME ToolInv, NEW i \in Invoke,
           WriteNext(i) \/ WriteFails(i) \/ StepThrows(i) \/ StepEnds(i)
    PROVE  StepInv'
<1> USE DEF WriteNext, WriteFails, StepThrows, StepEnds, End, gateVars
<1>1. /\ UNCHANGED <<regVars, plan, groups, at, calls, soft, allow, granted, yes, sender>>
      /\ GroupIsSettled(i) \/ at[i] = 0
  BY Types DEF GroupIsWritten, StepTypes
<1>2. Running(i) /\ \/ step' = step
                    \/ \E how \in {"settled", "unsaved", "threw"} :
                          step' = [step EXCEPT ![i] = how]
  OBVIOUS
<1>3. \A c \in DOMAIN calls[i] : calls[i][c] \notin Way
  BY <1>1, NothingOnTheWay
<1>4. StepTypes' /\ \A j \in Invoke \ {i} : step'[j] = step[j]
  BY <1>1, <1>2, Types DEF StepTypes
<1>5. phase' = phase /\ slot' = slot /\ phase[i] = "stepping"
  BY <1>1, <1>2 DEF regVars, slotVars, ToolInv, StepInv, StepIsInLoop
<1>6. ASSUME NEW c \in DOMAIN calls'[i]
      PROVE  /\ calls'[i][c] \notin Open /\ calls'[i][c] \notin Way
             /\ calls'[i][c] \in Through => HasYes(i, c)'
  <2>1. calls[i][c] \in Through => HasYes(i, c)
    BY <1>1, <1>6 DEF ToolInv, StepInv, PastItsGate
  <2> QED
    BY <1>1, <1>3, <2>1 DEF Open, Way, HasYes
<1> HIDE DEF WriteNext, WriteFails, StepThrows, StepEnds
<1> QED
  BY <1>1, <1>4, <1>5, <1>6, OwnStep, Types DEF Known

LEMMA LeaveLoopStays ==
    ASSUME ToolInv, NEW i \in Invoke, LeaveLoop(i)
    PROVE  StepInv'
<1>1. /\ slot' = TurnComplete(i) /\ phase[i] = "stepping"
      /\ \E p \in {"closing", "unwinding"} : phase' = [phase EXCEPT ![i] = p]
  BY DEF LeaveLoop, CloseTurn, Stop, StopCancelled, MoveTo
<1>2. /\ step' = [step EXCEPT ![i] = "none"]
      /\ plan' = [plan EXCEPT ![i] = <<>>] /\ groups' = [groups EXCEPT ![i] = <<>>]
      /\ at' = [at EXCEPT ![i] = 0] /\ calls' = [calls EXCEPT ![i] = <<>>]
      /\ soft' = [soft EXCEPT ![i] = FALSE]
      /\ yes' = [yes EXCEPT ![i] = {}] /\ allow' = [allow EXCEPT ![i] = {}]
      /\ UNCHANGED <<granted, sender>>
  BY DEF LeaveLoop
<1>3. StepTypes'
  BY <1>2, Types DEF StepTypes
<1>4. DOMAIN calls'[i] = {} /\ allow'[i] = {} /\ ~Running(i)'
  BY <1>2, Types DEF StepTypes, Running
<1>5. \A j \in Invoke \ {i} :
           /\ step'[j] = step[j] /\ plan'[j] = plan[j] /\ groups'[j] = groups[j]
           /\ at'[j] = at[j] /\ calls'[j] = calls[j] /\ soft'[j] = soft[j]
           /\ allow'[j] = allow[j] /\ yes'[j] = yes[j]
           /\ phase'[j] = phase[j]
  BY <1>1, <1>2
<1> QED
  BY <1>1, <1>2, <1>3, <1>4, <1>5, OwnStep DEF InLoop
-----------------------------------------------------------------------------
LEMMA StepInvStays ==
    ASSUME ToolInv, [Next]_vars
    PROVE  StepInv'
<1>1. CASE UNCHANGED vars
  <2>1. /\ UNCHANGED <<workVars, gateVars, sender>> /\ slot' = slot /\ phase' = phase
    BY <1>1 DEF vars, regVars, slotVars, stepVars
  <2> QED
    BY <2>1, RegistryStays, Types DEF ToolInv, StepInv, StepIsInLoop, StepTypes, Known, gateVars
<1>2. CASE Next
  BY <1>2, LaunchStays, CancelStays, TimerStays, LoopBeginsStays, TailEndsStays, LeaveLoopStays,
     RegistryOnlyStays, StepBeginsStays, StartGroupStays, StepGoesStays, SendNowStays,
     CallStepStays DEF Next, ResultStep
<1> QED
  BY <1>1, <1>2

THEOREM ToolInvHolds == Spec => []ToolInv
<1>1. ToolInv /\ [Next]_vars => ToolInv'
  BY SlotStays, StepInvStays DEF ToolInv
<1> QED
  BY ToolInit, <1>1, PTL DEF Spec

\* Whatever the model calls, however many prompts are answered late, allowed for the task or
\* dropped by a cancel, a restart or a new start: a gated call runs on the user's yes.
THEOREM CallsRunOnYes == Spec => []RunsOnYes
<1>1. ToolInv => RunsOnYes
  BY DEF ToolInv, StepInv, PastItsGate, HasYes, RunsOnYes, Began, Through
<1> QED
  BY <1>1, ToolInvHolds, PTL

\* An open prompt is always one that a step, neither cancelled nor interrupted, waits for, and a
\* working loop always has its window.
THEOREM PromptsAreLive == Spec => []PromptIsLive
<1>1. ToolInv => PromptIsLive
  BY DEF ToolInv, StepInv
<1> QED
  BY <1>1, ToolInvHolds, PTL

\* No step takes a card away from a user whose step goes on: the end of an earlier invoke, a new
\* start, the end of the step itself find none to take.
LEMMA NothingIsTaken ==
    ASSUME ToolInv, [Next]_vars, NEW i \in Invoke, NEW c \in DOMAIN calls[i],
           calls[i][c] \in Open, calls'[i][c] = "stopped"
    PROVE  Stopped(i)'
<1> USE DEF Open
<1>1. /\ Running(i) /\ ~Stopped(i) /\ phase[i] = "stepping" /\ isCurrentInvoke(i)
      /\ calls[i][c] \in Way
  BY RunningIsCurrent DEF ToolInv, StepInv, PromptIsLive, StepIsInLoop, Way
<1>2. ~(GroupIsSettled(i) \/ at[i] = 0)
  BY <1>1, NothingOnTheWay
<1>3. calls'[i][c] # calls[i][c]
  OBVIOUS
<1>4. ASSUME NEW j \in Invoke, NEW d \in DOMAIN calls[j], CallStep(j, d)
      PROVE  FALSE
  <2>1. ASSUME NEW s, Put(j, d, s) PROVE j = i /\ d = c /\ s = "stopped"
    BY <1>3, <2>1, Types DEF Put, StepTypes
  <2>2. calls[j][d] \notin {"authorizing", "cleared", "running"}
    <3>1. (\E s : Put(j, d, s)) => j = i /\ d = c
      BY <2>1
    <3>2. \E s : Put(j, d, s)
      BY <1>4 DEF CallStep, Authorize, Deny, Allow, AllowMore, HookBlocks, Execute, ToolReturns,
         ToolStops, ToolThrows, AnswerQuestion
    <3> QED BY <3>1, <3>2
  <2>3. Put(j, d, "refused") \/ Put(j, d, "cleared") \/ Put(j, d, "result")
    BY <1>4, <2>2 DEF CallStep, Authorize, Deny, Allow, AllowMore, HookBlocks, Execute,
       ToolReturns, ToolStops, ToolThrows, AnswerQuestion
  <2> QED
    BY <2>1, <2>3
<1>5. ASSUME NEW j \in Invoke, SendNow(j) PROVE Stopped(i)'
  <2>1. calls'[i][c] = calls[i][c] \/ j = i
    BY <1>5 DEF SendNow
  <2>2. soft'[i] = TRUE
    BY <1>3, <1>5, <2>1, Types DEF SendNow, StepTypes
  <2> QED BY <2>2 DEF Stopped
<1>6. ASSUME CancelRun PROVE Stopped(i)'
  <2>1. soft'[i] = (soft[i] \/ (Running(i) /\ isCurrentInvoke(i)))
    BY <1>6 DEF CancelRun
  <2> QED BY <1>1, <2>1 DEF Stopped
<1>7. ASSUME NEW j \in Invoke, TailEnds(j) PROVE FALSE
  <2>1. phase[j] = "tail"
    BY <1>7 DEF TailEnds, EndTail
  <2>2. j # i
    BY <1>1, <2>1
  <2>3. calls'[i][c] = calls[i][c]
    BY <1>7, <2>2 DEF TailEnds, Closed
  <2> QED BY <1>3, <2>3
<1>8. ASSUME NEW j \in Invoke, LeaveLoop(j) PROVE FALSE
  <2>1. j # i /\ calls' = [calls EXCEPT ![j] = <<>>]
    BY <1>1, <1>8 DEF LeaveLoop
  <2> QED BY <1>3, <2>1, Types DEF StepTypes
<1>9. ASSUME NEW j \in Invoke, NEW list \in Steps, StepBegins(j, list) PROVE FALSE
  <2>1. j # i /\ calls' = [calls EXCEPT ![j] = [d \in DOMAIN Hoisted(list) |-> "todo"]]
    BY <1>1, <1>9 DEF StepBegins, Running
  <2> QED BY <1>3, <2>1, Types DEF StepTypes
<1>10. ASSUME NEW j \in Invoke, StartGroup(j) PROVE FALSE
  <2>1. j # i
    BY <1>2, <1>10, Types DEF StartGroup, GroupIsWritten, StepTypes
  <2>2. calls'[i] = calls[i]
    BY <1>10, <2>1, Types DEF StartGroup, StepTypes
  <2> QED BY <1>3, <2>2
<1>11. calls' # calls
  BY <1>3
<1>12. ~(UNCHANGED vars) /\ ~Launch /\ ~((ForceFinish \/ StatusLands) /\ UNCHANGED stepVars)
  BY <1>11 DEF vars, stepVars, workVars, Launch
<1>13. \A j \in Invoke : /\ ~LoopBegins(j) /\ ~RegistryOnly(j) /\ ~WriteNext(j)
                         /\ ~WriteFails(j) /\ ~StepThrows(j) /\ ~StepEnds(j)
  BY <1>11 DEF LoopBegins, RegistryOnly, WriteNext, WriteFails, StepThrows, StepEnds, End, stepVars,
     workVars
<1> QED
  BY <1>4, <1>5, <1>6, <1>7, <1>8, <1>9, <1>10, <1>12, <1>13 DEF Next, ResultStep

\* A card that is on the screen goes only with the user's answer or a stop of its own step.
THEOREM PromptsAreKept == Spec => PromptIsKept
<1>1. ToolInv /\ [Next]_vars =>
        [\A i \in Invoke : \A c \in DOMAIN calls[i] :
            calls[i][c] \in Open /\ calls'[i][c] = "stopped" => Stopped(i)']_vars
  BY NothingIsTaken
<1> QED
  BY <1>1, ToolInvHolds, PTL DEF Spec, PromptIsKept

-----------------------------------------------------------------------------
(* Which calls share a group.                                                *)

Members(group) == SX!ToSet(group)

\* Calls that may run at once.
Together(list, calls_) ==
    \A c, d \in calls_ : c # d =>
        /\ list[c].class = list[d].class /\ list[c].class # "serial"
        /\ list[c].class = "mutation" => list[c].path # list[d].path

\* Groups of the first n calls, in their order.
Fit(list, gs, n) ==
    /\ gs \in Seq(Seq(Nat))
    /\ \A g \in DOMAIN gs : Members(gs[g]) \subseteq 1 .. n /\ Together(list, Members(gs[g]))
    /\ \A g, h \in DOMAIN gs : g < h =>
         \A c \in Members(gs[g]), d \in Members(gs[h]) : c < d
    /\ \A c \in 1 .. n : \E g \in DOMAIN gs : c \in Members(gs[g])

\* The members of sequences.
LEMMA MembersAre ==
    ASSUME NEW s \in Seq(Nat)
    PROVE  /\ DOMAIN s = 1 .. Len(s) /\ Len(s) \in Nat
           /\ \A c : c \in Members(s) <=> \E k \in 1 .. Len(s) : s[k] = c
           /\ Members(s) \subseteq Nat
BY DEF Members, SX!ToSet

LEMMA MembersOfOne == ASSUME NEW n PROVE Members(<<n>>) = {n}
BY DEF Members, SX!ToSet

LEMMA MembersAppended ==
    ASSUME NEW s \in Seq(Nat), NEW n \in Nat
    PROVE  Append(s, n) \in Seq(Nat) /\ Members(Append(s, n)) = Members(s) \cup {n}
<1> DEFINE a == Append(s, n)
<1>1. /\ a \in Seq(Nat) /\ Len(s) \in Nat /\ Len(a) = Len(s) + 1 /\ a[Len(s) + 1] = n
      /\ \A k \in 1 .. Len(s) : a[k] = s[k]
  BY AppendProperties
<1> HIDE DEF a
<1>2. \A k : k \in 1 .. Len(s) + 1 <=> k \in 1 .. Len(s) \/ k = Len(s) + 1
  BY <1>1
<1>3. \A c : c \in Members(a) <=> \E k \in 1 .. Len(s) + 1 : a[k] = c
  BY <1>1, MembersAre
<1>4. \A c : c \in Members(s) <=> \E k \in 1 .. Len(s) : s[k] = c
  BY MembersAre
<1>5. \A c : c \in Members(a) <=> c \in Members(s) \/ c = n
  BY <1>1, <1>2, <1>3, <1>4
<1> QED BY <1>1, <1>5 DEF a

\* Groups put behind others: those of later calls.
LEMMA FitJoined ==
    ASSUME NEW list, NEW gs, NEW hs \in Seq(Seq(Nat)), NEW m \in Nat, NEW n \in Nat, m <= n,
           Fit(list, gs, m),
           \A h \in 1 .. Len(hs) : Members(hs[h]) \subseteq (m + 1) .. n
                                   /\ Together(list, Members(hs[h])),
           \A g, h \in 1 .. Len(hs) : g < h =>
               \A c \in Members(hs[g]), d \in Members(hs[h]) : c < d,
           \A c \in (m + 1) .. n : \E h \in 1 .. Len(hs) : c \in Members(hs[h])
    PROVE  Fit(list, gs \o hs, n)
<1> DEFINE js == gs \o hs
           L == Len(gs)
<1>1. /\ gs \in Seq(Seq(Nat)) /\ L \in Nat /\ Len(hs) \in Nat /\ DOMAIN gs = 1 .. L
      /\ js \in Seq(Seq(Nat)) /\ Len(js) = L + Len(hs)
      /\ \A g \in 1 .. L : js[g] = gs[g]
      /\ \A h \in 1 .. Len(hs) : js[L + h] = hs[h]
  <2>1. gs \in Seq(Seq(Nat))
    BY DEF Fit
  <2> QED BY <2>1
<1>2. DOMAIN js = 1 .. L + Len(hs)
  BY <1>1
<1>3. ASSUME NEW g \in 1 .. L + Len(hs)
      PROVE  \/ g \in 1 .. L /\ js[g] = gs[g]
             \/ g > L /\ g - L \in 1 .. Len(hs) /\ js[g] = hs[g - L]
  <2>1. CASE g <= L
    BY <1>1, <2>1
  <2>2. CASE g > L
    <3>1. g - L \in 1 .. Len(hs) /\ L + (g - L) = g
      BY <1>1, <2>2
    <3> QED BY <1>1, <2>2, <3>1
  <2> QED BY <1>1, <2>1, <2>2
<1>4. \A g \in 1 .. L : Members(gs[g]) \subseteq 1 .. m /\ Together(list, Members(gs[g]))
  BY <1>1 DEF Fit
<1> HIDE DEF js, L
<1>5. ASSUME NEW g \in DOMAIN js
      PROVE  Members(js[g]) \subseteq 1 .. n /\ Together(list, Members(js[g]))
  <2>0. 1 .. m \subseteq 1 .. n /\ (m + 1) .. n \subseteq 1 .. n /\ g \in 1 .. L + Len(hs)
    BY <1>2
  <2>1. CASE g \in 1 .. L /\ js[g] = gs[g]
    <3>1. Members(gs[g]) \subseteq 1 .. m /\ Together(list, Members(gs[g]))
      BY <1>4, <2>1
    <3> QED BY <2>0, <2>1, <3>1
  <2>2. CASE g - L \in 1 .. Len(hs) /\ js[g] = hs[g - L]
    <3>1. /\ Members(hs[g - L]) \subseteq (m + 1) .. n
          /\ Together(list, Members(hs[g - L]))
      BY <2>2
    <3> QED BY <2>0, <2>2, <3>1
  <2> QED BY <1>3, <2>0, <2>1, <2>2
<1>6. ASSUME NEW g \in DOMAIN js, NEW h \in DOMAIN js, g < h,
             NEW c \in Members(js[g]), NEW d \in Members(js[h])
      PROVE  c < d
  <2>0. L \in Nat /\ Len(hs) \in Nat /\ g \in 1 .. L + Len(hs) /\ h \in 1 .. L + Len(hs)
    BY <1>1, <1>2
  <2>1. CASE h \in 1 .. L
    <3>1. g \in 1 .. L
      BY <1>6, <2>0, <2>1
    <3>2. js[g] = gs[g] /\ js[h] = gs[h] /\ g \in DOMAIN gs /\ h \in DOMAIN gs
      BY <1>1, <2>1, <3>1
    <3> QED BY <1>6, <3>2 DEF Fit
  <2>2. CASE h > L /\ g \in 1 .. L
    <3>1. c \in 1 .. m
      BY <1>1, <1>4, <1>6, <2>2
    <3>2. d \in (m + 1) .. n
      <4>1. h - L \in 1 .. Len(hs) /\ js[h] = hs[h - L]
        BY <1>3, <2>0, <2>2
      <4>2. Members(hs[h - L]) \subseteq (m + 1) .. n
        BY <4>1
      <4> QED BY <1>6, <4>1, <4>2
    <3> QED BY <3>1, <3>2
  <2>3. CASE h > L /\ g > L
    <3>1. g - L \in 1 .. Len(hs) /\ h - L \in 1 .. Len(hs) /\ g - L < h - L
      BY <1>6, <2>0, <2>3
    <3>2. js[g] = hs[g - L] /\ js[h] = hs[h - L]
      BY <1>3, <2>0, <2>3
    <3> QED BY <1>6, <3>1, <3>2
  <2> QED BY <2>0, <2>1, <2>2, <2>3
<1>7. ASSUME NEW c \in 1 .. n PROVE \E g \in DOMAIN js : c \in Members(js[g])
  <2>1. CASE c <= m
    <3>1. PICK g \in 1 .. L : c \in Members(gs[g])
      BY <1>1, <2>1 DEF Fit
    <3>2. L \in Nat /\ Len(hs) \in Nat
      BY <1>1
    <3>3. g \in 1 .. L + Len(hs)
      BY ONLY <3>1, <3>2
    <3>4. g \in DOMAIN js
      BY ONLY <1>2, <3>3
    <3>5. js[g] = gs[g]
      BY <1>1, <3>1
    <3> QED BY ONLY <3>1, <3>4, <3>5
  <2>2. CASE c > m
    <3>1. PICK h \in 1 .. Len(hs) : c \in Members(hs[h])
      BY <2>2
    <3>2. L + h \in DOMAIN js /\ js[L + h] = hs[h]
      BY <1>1, <1>2
    <3> QED BY <3>1, <3>2
  <2> QED BY <2>1, <2>2
<1> QED BY <1>1, <1>5, <1>6, <1>7 DEF Fit, js

\* A batch of L calls cut into pieces of the given size: the pieces cover it, and do not overlap.
LEMMA Grows == ASSUME NEW a \in Int, NEW b \in Int, a <= b, NEW s \in Nat PROVE a * s <= b * s
<1>1. (b - a) * s >= 0
  OBVIOUS
<1>2. (b - a) * s = b * s - a * s
  OBVIOUS
<1> QED BY <1>1, <1>2

LEMMA Quotient ==
    ASSUME NEW a \in Nat, NEW s \in Nat \ {0}
    PROVE  /\ a \div s \in Nat /\ (a \div s) * s <= a /\ a < (a \div s) * s + s
           /\ (a \div s) * s \in Nat
BY SMTT(30)

LEMMA Pieces ==
    ASSUME NEW L \in Nat, NEW size \in Nat \ {0}, NEW count, count = (L + size - 1) \div size
    PROVE  /\ count \in Nat
           /\ \A k \in 1 .. count : /\ (k - 1) * size \in Nat /\ (k - 1) * size < L
                                    /\ k * size \in Nat /\ k * size = (k - 1) * size + size
           /\ \A k, l \in 1 .. count : k < l => k * size <= (l - 1) * size
           /\ \A j \in 1 .. L : \E k \in 1 .. count : (k - 1) * size < j /\ j <= k * size
<1>1. L + size - 1 \in Nat
  OBVIOUS
<1>2. count \in Nat /\ count * size \in Nat /\ count * size <= L + size - 1
      /\ L + size - 1 < count * size + size
  BY <1>1, Quotient
<1>3. ASSUME NEW k \in 1 .. count
      PROVE  /\ (k - 1) * size \in Nat /\ (k - 1) * size < L
             /\ k * size \in Nat /\ k * size = (k - 1) * size + size
  <2>1. k \in Int /\ k - 1 \in Nat /\ k <= count /\ count \in Int
    BY <1>2
  <2>2. k * size <= count * size
    BY <2>1, Grows
  <2>3. k * size = (k - 1) * size + size /\ (k - 1) * size \in Nat /\ k * size \in Nat
    BY <2>1
  <2> QED BY <1>2, <2>2, <2>3
<1>4. ASSUME NEW k \in 1 .. count, NEW l \in 1 .. count, k < l
      PROVE  k * size <= (l - 1) * size
  <2>1. k \in Int /\ l - 1 \in Int /\ k <= l - 1 /\ size \in Nat
    BY <1>2, <1>4
  <2> QED BY <2>1, Grows
<1>5. ASSUME NEW j \in 1 .. L
      PROVE  \E k \in 1 .. count : (k - 1) * size < j /\ j <= k * size
  <2> DEFINE k == (j - 1) \div size + 1
             q == (j - 1) \div size
  <2>1. q \in Nat /\ q * size \in Nat /\ q * size <= j - 1 /\ j - 1 < q * size + size
    <3>1. j - 1 \in Nat
      OBVIOUS
    <3> QED BY <3>1, Quotient
  <2> HIDE DEF q
  <2>2. (q + 1) * size = q * size + size /\ (q + 1) - 1 = q
    BY <2>1
  <2>3. q + 1 <= count
    <3>1. SUFFICES ASSUME count <= q PROVE FALSE
      BY <1>2, <2>1
    <3>2. count * size <= q * size
      BY <1>2, <2>1, <3>1, Grows
    <3>3. count * size + size <= L - 1 + size
      BY <1>2, <2>1, <3>2
    <3> QED BY <1>2, <3>3
  <2>4. q + 1 \in 1 .. count
    BY <1>2, <2>1, <2>3
  <2>5. ((q + 1) - 1) * size < j /\ j <= (q + 1) * size
    BY <2>1, <2>2
  <2> QED BY <2>4, <2>5
<1> QED BY <1>2, <1>3, <1>4, <1>5

\* One piece of a batch.
LEMMA ChunkIs ==
    ASSUME NEW batch \in Seq(Nat), NEW m \in Nat,
           \A k \in 1 .. Len(batch) : batch[k] = m + k,
           NEW lo \in Nat, lo < Len(batch), NEW hi \in Nat, lo < hi, hi <= Len(batch)
    PROVE  /\ SubSeq(batch, lo + 1, hi) \in Seq(Nat)
           /\ \A c : c \in Members(SubSeq(batch, lo + 1, hi)) <=> c \in (m + lo + 1) .. (m + hi)
           /\ Members(SubSeq(batch, lo + 1, hi)) \subseteq Members(batch)
<1> DEFINE s == SubSeq(batch, lo + 1, hi)
<1>1. /\ s \in Seq(Nat) /\ Len(s) = hi - lo
      /\ \A k \in 1 .. hi - lo : s[k] = batch[lo + k]
  <2>1. lo + 1 \in Int /\ hi \in Int /\ \A k \in lo + 1 .. hi : batch[k] \in Nat
    OBVIOUS
  <2>2. /\ s \in Seq(Nat) /\ Len(s) = IF lo + 1 <= hi THEN hi - (lo + 1) + 1 ELSE 0
        /\ \A k \in 1 .. hi - (lo + 1) + 1 : s[k] = batch[(lo + 1) + k - 1]
    BY <2>1, SubSeqProperties
  <2> QED BY <2>2
<1> HIDE DEF s
<1>2. \A k \in 1 .. hi - lo : lo + k \in 1 .. Len(batch) /\ s[k] = m + (lo + k)
  BY <1>1
<1>3. \A c : c \in Members(s) <=> \E k \in 1 .. hi - lo : s[k] = c
  BY <1>1, MembersAre
<1>4. ASSUME NEW c PROVE c \in Members(s) <=> c \in (m + lo + 1) .. (m + hi)
  <2>1. ASSUME NEW k \in 1 .. hi - lo, s[k] = c PROVE c \in (m + lo + 1) .. (m + hi)
    <3>1. c = m + (lo + k)
      BY <1>2, <2>1
    <3> QED BY <3>1
  <2>2. ASSUME c \in (m + lo + 1) .. (m + hi) PROVE c \in Members(s)
    <3>1. c - m - lo \in 1 .. hi - lo /\ m + (lo + (c - m - lo)) = c
      BY <2>2
    <3>2. s[c - m - lo] = c
      BY <1>2, <3>1
    <3> QED BY <1>3, <3>1, <3>2
  <2> QED BY <1>3, <2>1, <2>2
<1>5. Members(s) \subseteq Members(batch)
  <2>1. \A k \in 1 .. hi - lo : lo + k \in 1 .. Len(batch) /\ s[k] = batch[lo + k]
    BY <1>1
  <2> QED BY <1>3, <2>1, MembersAre
<1> QED BY <1>1, <1>4, <1>5 DEF s

\* The calls of a smaller group may run together too.
LEMMA FewerTogether ==
    ASSUME NEW list, NEW more, NEW fewer \in SUBSET more, Together(list, more)
    PROVE  Together(list, fewer)
BY DEF Together

\* A batch behind the groups of the calls before it, cut to a size.
LEMMA ChunksFit ==
    ASSUME NEW list, NEW gs, NEW m \in Nat, Fit(list, gs, m),
           NEW batch \in Seq(Nat), \A k \in 1 .. Len(batch) : batch[k] = m + k,
           Together(list, Members(batch)), NEW size \in Nat \ {0}
    PROVE  Fit(list, gs \o Chunks(batch, size), m + Len(batch))
<1> DEFINE L == Len(batch)
           count == (L + size - 1) \div size
           lo(k) == (k - 1) * size
           hi(k) == IF k * size < L THEN k * size ELSE L
           hs == Chunks(batch, size)
<1>1. L \in Nat
  OBVIOUS
<1>2. /\ count \in Nat
      /\ \A k \in 1 .. count : /\ lo(k) \in Nat /\ lo(k) < L
                               /\ k * size \in Nat /\ k * size = lo(k) + size
      /\ \A k, l \in 1 .. count : k < l => k * size <= lo(l)
      /\ \A j \in 1 .. L : \E k \in 1 .. count : lo(k) < j /\ j <= k * size
  <2> HIDE DEF L
  <2> QED BY <1>1, Pieces
<1>3. hs = [k \in 1 .. count |-> SubSeq(batch, lo(k) + 1, hi(k))]
  BY DEF Chunks
<1> HIDE DEF hs, count, L, lo
<1>4. \A k \in 1 .. count : hi(k) \in Nat /\ lo(k) < hi(k) /\ hi(k) <= L /\ hi(k) <= k * size
  BY <1>1, <1>2
<1>5. ASSUME NEW k \in 1 .. count
      PROVE  /\ hs[k] \in Seq(Nat) /\ Members(hs[k]) \subseteq Members(batch)
             /\ \A c : c \in Members(hs[k]) <=> c \in (m + lo(k) + 1) .. (m + hi(k))
  <2> DEFINE a == lo(k)  b == hi(k)
  <2>1. a \in Nat /\ a < Len(batch) /\ b \in Nat /\ a < b /\ b <= Len(batch)
    BY <1>2, <1>4 DEF L
  <2>2. hs[k] = SubSeq(batch, a + 1, b)
    BY <1>3
  <2> HIDE DEF a, b
  <2> DEFINE s == SubSeq(batch, a + 1, b)
  <2>3. /\ s \in Seq(Nat) /\ Members(s) \subseteq Members(batch)
        /\ \A c : c \in Members(s) <=> c \in (m + a + 1) .. (m + b)
    BY ONLY <2>1, batch \in Seq(Nat), m \in Nat, \A j \in 1 .. Len(batch) : batch[j] = m + j,
       ChunkIs
  <2> HIDE DEF s
  <2> QED BY <2>2, <2>3 DEF a, b, s
<1>6. hs \in Seq(Seq(Nat)) /\ Len(hs) = count /\ count \in Nat
  <2>1. \A k \in 1 .. count : hs[k] \in Seq(Nat)
    BY <1>5
  <2>2. hs = [k \in 1 .. count |-> hs[k]]
    BY <1>3
  <2> QED BY <1>2, <2>1, <2>2
<1>7. ASSUME NEW k \in 1 .. Len(hs)
      PROVE  Members(hs[k]) \subseteq (m + 1) .. (m + L) /\ Together(list, Members(hs[k]))
  <2>0. k \in 1 .. count
    BY <1>6
  <2>1. \A c : c \in Members(hs[k]) => c \in (m + lo(k) + 1) .. (m + hi(k))
    BY <1>5, <2>0
  <2>2. lo(k) \in Nat /\ hi(k) \in Nat /\ hi(k) <= L
    BY <1>2, <1>4, <2>0
  <2> HIDE DEF hi
  <2>3. Members(hs[k]) \subseteq (m + 1) .. (m + L)
    <3>1. (m + lo(k) + 1) .. (m + hi(k)) \subseteq (m + 1) .. (m + L)
      BY <1>1, <2>2
    <3> QED BY <2>1, <3>1
  <2>4. Together(list, Members(hs[k]))
    BY <1>5, <2>0, FewerTogether
  <2> QED BY <2>3, <2>4
<1>8. ASSUME NEW k \in 1 .. Len(hs), NEW l \in 1 .. Len(hs), k < l,
             NEW c \in Members(hs[k]), NEW d \in Members(hs[l])
      PROVE  c < d
  <2>0. k \in 1 .. count /\ l \in 1 .. count
    BY <1>6
  <2>1. c \in (m + lo(k) + 1) .. (m + hi(k)) /\ d \in (m + lo(l) + 1) .. (m + hi(l))
    BY <1>5, <2>0
  <2>2. lo(k) \in Nat /\ hi(k) \in Nat /\ lo(l) \in Nat /\ hi(l) \in Nat
    BY <1>2, <1>4, <2>0
  <2>3. hi(k) <= k * size /\ k * size \in Nat /\ k * size <= lo(l)
    BY <1>2, <1>4, <1>8, <2>0
  <2> DEFINE x == k * size
  <2>4. x \in Nat /\ hi(k) <= x /\ x <= lo(l)
    BY <2>3
  <2> HIDE DEF hi, x
  <2>5. hi(k) <= lo(l)
    BY <2>2, <2>4
  <2> QED BY <2>1, <2>2, <2>5
<1>9. ASSUME NEW c \in (m + 1) .. (m + L) PROVE \E k \in 1 .. Len(hs) : c \in Members(hs[k])
  <2>1. c - m \in 1 .. L
    BY <1>1
  <2>2. PICK k \in 1 .. count : lo(k) < c - m /\ c - m <= k * size
    BY <1>2, <2>1
  <2>3. c - m <= hi(k)
    <3> DEFINE x == k * size
    <3>1. c - m <= L /\ c - m <= x
      BY <1>1, <2>1, <2>2
    <3> HIDE DEF x
    <3>2. c - m <= IF x < L THEN x ELSE L
      BY <3>1
    <3> QED BY <3>2 DEF x
  <2>4. lo(k) \in Nat /\ hi(k) \in Nat
    BY <1>2, <1>4
  <2> HIDE DEF hi
  <2>5. c \in (m + lo(k) + 1) .. (m + hi(k))
    BY <1>1, <2>1, <2>2, <2>3, <2>4
  <2> QED BY <1>5, <1>6, <2>5
<1> DEFINE n == m + L
<1>10. n \in Nat /\ m <= n
  BY <1>1
<1>11. Fit(list, gs \o hs, n)
  <2>1. \A h \in 1 .. Len(hs) : Members(hs[h]) \subseteq (m + 1) .. n
                                /\ Together(list, Members(hs[h]))
    BY <1>7
  <2>2. \A g, h \in 1 .. Len(hs) : g < h =>
           \A c \in Members(hs[g]), d \in Members(hs[h]) : c < d
    BY <1>8
  <2>3. \A c \in (m + 1) .. n : \E h \in 1 .. Len(hs) : c \in Members(hs[h])
    BY <1>9
  <2>4. hs \in Seq(Seq(Nat))
    BY <1>6
  <2> HIDE DEF n
  <2> QED BY ONLY <1>10, <2>1, <2>2, <2>3, <2>4, m \in Nat, Fit(list, gs, m), FitJoined
<1> QED BY <1>11 DEF hs, L

\* The groups of the first calls, with a batch of the last of them.
Grouped(list, acc, n) ==
    /\ acc \in [groups : Seq(Seq(Nat)), batch : Seq(Nat)]
    /\ Len(acc.batch) <= n
    /\ Fit(list, acc.groups, n - Len(acc.batch))
    /\ \A k \in 1 .. Len(acc.batch) : acc.batch[k] = (n - Len(acc.batch)) + k
    /\ Together(list, Members(acc.batch))

LEMMA FlushedFits ==
    ASSUME NEW list \in Seq(Call), NEW n \in 0 .. Len(list), NEW acc, Grouped(list, acc, n)
    PROVE  Fit(list, Flushed(list, acc), n)
<1> DEFINE b == acc.batch
           gs == acc.groups
           m == n - Len(b)
           size == Cap(list[b[1]].class, list)
<1>1. /\ b \in Seq(Nat) /\ Len(b) \in Nat /\ m \in Nat /\ n = m + Len(b) /\ n \in Nat
      /\ Fit(list, gs, m) /\ \A k \in 1 .. Len(b) : b[k] = m + k
      /\ Together(list, Members(b))
  BY DEF Grouped
<1>2. CASE b = <<>>
  <2>1. Flushed(list, acc) = gs /\ Len(b) = 0 /\ m = n
    BY <1>1, <1>2 DEF Flushed
  <2> HIDE DEF m, gs
  <2> QED BY <1>1, <2>1
<1>3. CASE b # <<>>
  <2>1. size \in Nat \ {0}
    <3>1. Len(list) \in Nat \ {0}
      BY <1>1, <1>3
    <3>2. size \in {ReadCap, MutationCap, Len(list)}
      BY DEF Cap
    <3> HIDE DEF size
    <3> QED BY <3>1, <3>2, StepAssumption
  <2>2. Flushed(list, acc) = gs \o Chunks(b, size)
    BY <1>3 DEF Flushed
  <2> HIDE DEF b, gs, m, size
  <2>3. Fit(list, gs \o Chunks(b, size), m + Len(b))
    BY ONLY <1>1, <2>1, ChunksFit
  <2> QED BY <1>1, <2>2, <2>3
<1> QED BY <1>2, <1>3

LEMMA AddFits ==
    ASSUME NEW list \in Seq(Call), NEW n \in 1 .. Len(list), NEW acc,
           Grouped(list, acc, n - 1)
    PROVE  Grouped(list, Add(list, acc, n), n)
<1> DEFINE F == Flushed(list, acc)
           next == Add(list, acc, n)
<1>1. n \in Nat /\ n - 1 \in 0 .. Len(list) /\ n - 1 \in Nat
  OBVIOUS
<1>2. Fit(list, F, n - 1) /\ F \in Seq(Seq(Nat))
  <2>1. Fit(list, F, n - 1)
    BY <1>1, FlushedFits
  <2> QED BY <2>1 DEF Fit
<1> HIDE DEF F
<1>3. CASE Alone(list, n)
  <2> DEFINE hs == << <<n>> >>
  <2>1. next = [groups |-> Append(F, <<n>>), batch |-> <<>>]
    BY <1>3 DEF Add, F
  <2>2. <<n>> \in Seq(Nat) /\ hs \in Seq(Seq(Nat)) /\ Len(hs) = 1 /\ hs[1] = <<n>>
    BY <1>1
  <2>3. Append(F, <<n>>) = F \o hs /\ Append(F, <<n>>) \in Seq(Seq(Nat))
    BY <1>2, <2>2
  <2>4. Fit(list, F \o hs, n)
    <3>1. \A h \in 1 .. Len(hs) : Members(hs[h]) = {n}
      BY <2>2, MembersOfOne
    <3>2. {n} = ((n - 1) + 1) .. n /\ Together(list, {n}) /\ n - 1 <= n
      BY <1>1 DEF Together
    <3>3. \A h \in 1 .. Len(hs) : Members(hs[h]) \subseteq ((n - 1) + 1) .. n
                                  /\ Together(list, Members(hs[h]))
      BY <3>1, <3>2
    <3>4. \A g, h \in 1 .. Len(hs) : g < h =>
             \A c \in Members(hs[g]), d \in Members(hs[h]) : c < d
      BY <2>2
    <3>5. \A c \in ((n - 1) + 1) .. n : \E h \in 1 .. Len(hs) : c \in Members(hs[h])
      BY <2>2, <3>1, <3>2
    <3> DEFINE m == n - 1
    <3>6. m \in Nat /\ m <= n /\ Fit(list, F, m)
      BY <1>1, <1>2
    <3> HIDE DEF hs
    <3>7. /\ \A h \in 1 .. Len(hs) : Members(hs[h]) \subseteq (m + 1) .. n
                                     /\ Together(list, Members(hs[h]))
          /\ \A c \in (m + 1) .. n : \E h \in 1 .. Len(hs) : c \in Members(hs[h])
      BY <3>3, <3>5
    <3> HIDE DEF m
    <3> QED BY ONLY <1>1, <2>2, <3>4, <3>6, <3>7, FitJoined
  <2>5. /\ next \in [groups : Seq(Seq(Nat)), batch : Seq(Nat)]
        /\ next.batch = <<>> /\ Len(next.batch) = 0 /\ next.groups = F \o hs
    BY <2>1, <2>3
  <2>6. Together(list, Members(<<>>)) /\ n - 0 = n
    BY <1>1 DEF Together, Members, SX!ToSet
  <2> HIDE DEF next, hs
  <2> QED BY <1>1, <2>4, <2>5, <2>6 DEF Grouped, next
<1>4. CASE ~Alone(list, n) /\ acc.batch # <<>> /\ Shares(list, acc.batch, n)
  <2> DEFINE b == acc.batch
             a == Append(b, n)
             m == (n - 1) - Len(b)
  <2>1. /\ acc \in [groups : Seq(Seq(Nat)), batch : Seq(Nat)]
        /\ b \in Seq(Nat) /\ Len(b) \in Nat /\ m \in Nat
        /\ Fit(list, acc.groups, m) /\ \A k \in 1 .. Len(b) : b[k] = m + k
        /\ Together(list, Members(b))
    BY <1>1 DEF Grouped
  <2>2. next = [acc EXCEPT !.batch = a]
    BY <1>4 DEF Add
  <2>3. /\ a \in Seq(Nat) /\ Len(a) = Len(b) + 1 /\ a[Len(b) + 1] = n
        /\ \A k \in 1 .. Len(b) : a[k] = b[k]
    BY <1>1, <2>1, AppendProperties
  <2>4. Members(a) = Members(b) \cup {n}
    BY <1>1, <2>1, MembersAppended
  <2>5. Together(list, Members(a))
    <3>1. b[1] \in Members(b) /\ DOMAIN b = 1 .. Len(b)
      <4>1. 1 \in 1 .. Len(b)
        BY <1>4, <2>1
      <4> QED BY <2>1, <4>1, MembersAre
    <3>2. /\ list[n].class # "serial" /\ list[b[1]].class = list[n].class
          /\ list[n].class = "mutation" => \A k \in DOMAIN b : list[b[k]].path # list[n].path
      BY <1>4 DEF Alone, Shares
    <3>3. ASSUME NEW c \in Members(b)
          PROVE  /\ list[c].class = list[n].class
                 /\ list[c].class = "mutation" => list[c].path # list[n].path
      <4>1. PICK k \in 1 .. Len(b) : b[k] = c
        BY <2>1, MembersAre
      <4>2. list[c].class = list[n].class
        BY <2>1, <3>1, <3>2 DEF Together
      <4> QED BY <3>1, <3>2, <4>1, <4>2
    <3> HIDE DEF b, a
    <3> QED BY <2>1, <2>4, <3>2, <3>3 DEF Together
  <2>6. /\ next \in [groups : Seq(Seq(Nat)), batch : Seq(Nat)]
        /\ next.batch = a /\ next.groups = acc.groups
    BY <2>1, <2>2, <2>3
  <2>7. n - Len(a) = m /\ Len(a) <= n
    BY <1>1, <2>1, <2>3
  <2>8. \A k \in 1 .. Len(a) : a[k] = m + k
    <3>1. \A k \in 1 .. Len(b) + 1 : k \in 1 .. Len(b) \/ k = Len(b) + 1
      BY <2>1
    <3>2. m + (Len(b) + 1) = n
      BY <1>1, <2>1
    <3> QED BY <2>1, <2>3, <3>1, <3>2
  <2> HIDE DEF next, a, m, b
  <2> QED BY <2>1, <2>5, <2>6, <2>7, <2>8 DEF Grouped, next
<1>5. CASE ~Alone(list, n) /\ ~(acc.batch # <<>> /\ Shares(list, acc.batch, n))
  <2>1. next = [groups |-> F, batch |-> <<n>>]
    BY <1>5 DEF Add, F
  <2>2. /\ next \in [groups : Seq(Seq(Nat)), batch : Seq(Nat)]
        /\ next.batch = <<n>> /\ Len(<<n>>) = 1 /\ <<n>>[1] = n /\ next.groups = F
    BY <1>1, <1>2, <2>1
  <2>3. Together(list, Members(<<n>>))
    BY MembersOfOne DEF Together
  <2>4. \A k \in 1 .. 1 : <<n>>[k] = (n - 1) + k
    BY <1>1
  <2> HIDE DEF next
  <2> QED BY <1>1, <1>2, <2>2, <2>3, <2>4 DEF Grouped, next
<1> QED BY <1>3, <1>4, <1>5

\* The groups of a step are those of all its calls.
LEMMA GroupsFit ==
    ASSUME NEW list \in Seq(Call)
    PROVE  Fit(list, GroupsOf(list), Len(list))
<1> DEFINE none == [groups |-> <<>>, batch |-> <<>>]
           next(f, n) == IF n = 0 THEN none ELSE Add(list, f[n - 1], n)
           Is(f, m) == f = [n \in 0 .. m |-> next(f, n)]
           exists == {m \in Nat : \E f : Is(f, m)}
<1>1. \A m \in Nat : m \in exists
  <2>1. 0 \in exists
    <3> DEFINE g == [n \in 0 .. 0 |-> none]
    <3>1. Is(g, 0)
      OBVIOUS
    <3> QED BY <3>1
  <2>2. ASSUME NEW m \in Nat, m \in exists PROVE m + 1 \in exists
    <3>1. PICK f : Is(f, m)
      BY <2>2
    <3> DEFINE g == [n \in 0 .. m + 1 |-> IF n = m + 1 THEN next(f, n) ELSE f[n]]
    <3> HIDE DEF none
    <3>2. ASSUME NEW n \in 0 .. m + 1 PROVE g[n] = next(g, n)
      <4>1. CASE n = m + 1
        BY <4>1
      <4>2. CASE n \in 0 .. m
        <5>1. f[n] = next(f, n)
          BY <3>1, <4>2
        <5> QED BY <4>2, <5>1
      <4> QED BY <4>1, <4>2
    <3>3. Is(g, m + 1)
      <4> HIDE DEF next
      <4> QED BY <3>2
    <3>4. \E f1 : Is(f1, m + 1)
      <4> HIDE DEF Is, g
      <4> QED BY <3>3
    <3> HIDE DEF Is
    <3> QED BY <3>4
  <2> HIDE DEF exists
  <2> QED BY <2>1, <2>2, Climb
<1> DEFINE upTo == CHOOSE f : Is(f, Len(list))
<1>2. Is(upTo, Len(list))
  <2>1. \E f : Is(f, Len(list))
    BY <1>1
  <2> QED BY <2>1
<1>3. GroupsOf(list) = Flushed(list, upTo[Len(list)])
  BY DEF GroupsOf
<1> HIDE DEF upTo, exists
<1>4. upTo[0] = none /\ \A n \in 1 .. Len(list) : upTo[n] = Add(list, upTo[n - 1], n)
  <2>1. Len(list) \in Nat /\ \A n \in 0 .. Len(list) : upTo[n] = next(upTo, n)
    <3> HIDE DEF next
    <3> QED BY <1>2
  <2>2. upTo[0] = next(upTo, 0) /\ \A n \in 1 .. Len(list) : upTo[n] = next(upTo, n)
    <3> HIDE DEF next
    <3> QED BY <2>1
  <2> HIDE DEF none
  <2> QED BY <2>2
<1> HIDE DEF Is, next
<1> DEFINE good == {n \in Nat : n <= Len(list) => Grouped(list, upTo[n], n)}
<1>5. \A n \in Nat : n \in good
  <2>1. 0 \in good
    <3>1. /\ none \in [groups : Seq(Seq(Nat)), batch : Seq(Nat)]
          /\ none.batch = <<>> /\ none.groups = <<>> /\ Len(<<>>) = 0
      OBVIOUS
    <3>2. Together(list, Members(<<>>)) /\ Fit(list, <<>>, 0)
      BY DEF Together, Members, SX!ToSet, Fit
    <3> HIDE DEF none
    <3>3. Grouped(list, none, 0)
      BY <3>1, <3>2 DEF Grouped
    <3> QED BY <1>4, <3>3
  <2>2. ASSUME NEW n \in Nat, n \in good PROVE n + 1 \in good
    <3>1. SUFFICES ASSUME n + 1 <= Len(list) PROVE Grouped(list, upTo[n + 1], n + 1)
      OBVIOUS
    <3>2. n + 1 \in 1 .. Len(list) /\ n <= Len(list) /\ (n + 1) - 1 = n
      BY <3>1
    <3>3. Grouped(list, upTo[n], n)
      BY <2>2, <3>2
    <3>4. upTo[n + 1] = Add(list, upTo[n], n + 1)
      BY <1>4, <3>2
    <3> QED BY <3>2, <3>3, <3>4, AddFits
  <2> HIDE DEF good
  <2> QED BY <2>1, <2>2, Climb
<1>6. Len(list) \in 0 .. Len(list) /\ Grouped(list, upTo[Len(list)], Len(list))
  BY <1>5
<1> QED BY <1>3, <1>6, FlushedFits

\* The calls of a step are calls of the list it was made from: a question among them is serial.
Serial(list) == \A k \in DOMAIN list : list[k].name = AskQuestion => list[k].class = "serial"

LEMMA SelectedIs ==
    ASSUME NEW S, NEW list \in Seq(S), NEW names
    PROVE  Selected(list, names) \in Seq(S)
<1> DEFINE next(f, n) == IF n = 0 THEN <<>>
                         ELSE IF list[n].name \in names THEN Append(f[n - 1], list[n])
                         ELSE f[n - 1]
           Is(f, m) == f = [n \in 0 .. m |-> next(f, n)]
           exists == {m \in Nat : \E f : Is(f, m)}
<1>1. \A m \in Nat : m \in exists
  <2>1. 0 \in exists
    <3> DEFINE g == [n \in 0 .. 0 |-> <<>>]
    <3>1. Is(g, 0)
      OBVIOUS
    <3> QED BY <3>1
  <2>2. ASSUME NEW m \in Nat, m \in exists PROVE m + 1 \in exists
    <3>1. PICK f : Is(f, m)
      BY <2>2
    <3> DEFINE g == [n \in 0 .. m + 1 |-> IF n = m + 1 THEN next(f, n) ELSE f[n]]
    <3>2. ASSUME NEW n \in 0 .. m + 1 PROVE g[n] = next(g, n)
      <4>1. CASE n = m + 1
        BY <4>1
      <4>2. CASE n \in 0 .. m
        <5>1. f[n] = next(f, n)
          BY <3>1, <4>2
        <5> QED BY <4>2, <5>1
      <4> QED BY <4>1, <4>2
    <3>3. Is(g, m + 1)
      <4> HIDE DEF next
      <4> QED BY <3>2
    <3>4. \E f1 : Is(f1, m + 1)
      <4> HIDE DEF Is, g
      <4> QED BY <3>3
    <3> HIDE DEF Is
    <3> QED BY <3>4
  <2> HIDE DEF exists
  <2> QED BY <2>1, <2>2, Climb
<1> DEFINE kept == CHOOSE f : Is(f, Len(list))
<1>2. Is(kept, Len(list))
  <2>1. Len(list) \in Nat
    OBVIOUS
  <2>2. \E f : Is(f, Len(list))
    <3> HIDE DEF Is
    <3> QED BY <1>1, <2>1
  <2> HIDE DEF Is
  <2> QED BY <2>2
<1>3. Selected(list, names) = kept[Len(list)]
  BY DEF Selected
<1> HIDE DEF kept, exists
<1>4. /\ kept[0] = <<>>
      /\ \A n \in 1 .. Len(list) : kept[n] \in {Append(kept[n - 1], list[n]), kept[n - 1]}
  <2>1. Len(list) \in Nat /\ \A n \in 0 .. Len(list) : kept[n] = next(kept, n)
    <3> HIDE DEF next
    <3> QED BY <1>2
  <2>2. kept[0] = next(kept, 0) /\ \A n \in 1 .. Len(list) : kept[n] = next(kept, n)
    <3> HIDE DEF next
    <3> QED BY <2>1
  <2>3. ASSUME NEW n \in 1 .. Len(list)
        PROVE  kept[n] \in {Append(kept[n - 1], list[n]), kept[n - 1]}
    <3>1. kept[n] = next(kept, n) /\ n # 0
      BY <2>1, <2>2
    <3> HIDE DEF kept
    <3> QED BY <3>1
  <2> QED BY <2>2, <2>3
<1> HIDE DEF Is, next
<1> DEFINE good == {n \in Nat : n <= Len(list) => kept[n] \in Seq(S)}
<1>5. \A n \in Nat : n \in good
  <2>1. 0 \in good
    <3>1. <<>> \in Seq(S)
      OBVIOUS
    <3> QED BY <1>4, <3>1
  <2>2. ASSUME NEW n \in Nat, n \in good PROVE n + 1 \in good
    <3>1. SUFFICES ASSUME n + 1 <= Len(list) PROVE kept[n + 1] \in Seq(S)
      OBVIOUS
    <3>2. n + 1 \in 1 .. Len(list) /\ n <= Len(list) /\ (n + 1) - 1 = n
      BY <3>1
    <3>3. kept[n] \in Seq(S) /\ list[n + 1] \in S
      BY <2>2, <3>2
    <3>4. kept[n + 1] \in {Append(kept[n], list[n + 1]), kept[n]}
      BY <1>4, <3>2
    <3>5. Append(kept[n], list[n + 1]) \in Seq(S)
      BY <3>3
    <3> QED BY <3>3, <3>4, <3>5
  <2> HIDE DEF good
  <2> QED BY <2>1, <2>2, Climb
<1> QED BY <1>3, <1>5

LEMMA HoistedIs ==
    ASSUME NEW list \in Seq(Call), Serial(list)
    PROVE  Hoisted(list) \in Seq(Call) /\ Serial(Hoisted(list))
<1> DEFINE S == {c \in Call : c.name = AskQuestion => c.class = "serial"}
<1>1. list \in Seq(S)
  BY DEF Serial
<1>2. Hoisted(list) \in Seq(S)
  <2> HIDE DEF S
  <2> DEFINE a == Selected(list, {TodoWrite})  b == Selected(list, Names \ {TodoWrite})
  <2>1. a \in Seq(S) /\ b \in Seq(S)
    BY <1>1, SelectedIs
  <2>2. Hoisted(list) = a \o b
    BY DEF Hoisted
  <2> HIDE DEF a, b
  <2> QED BY <2>1, <2>2
<1> HIDE DEF Hoisted
<1> QED BY <1>2 DEF Serial

-----------------------------------------------------------------------------
(* The calls of a step in their order.                                       *)

\* The groups of a step are those of its calls.
Planned(i) ==
    /\ plan[i] \in Seq(Call) /\ Serial(plan[i])
    /\ DOMAIN calls[i] = 1 .. Len(plan[i])
    /\ \A c \in DOMAIN calls[i] : calls[i][c] \in {"todo"} \cup Way \cup Settled
    /\ Fit(plan[i], groups[i], Len(plan[i]))
    /\ at[i] \in 0 .. Len(groups[i])

\* Before the group at work all is done and on disk, and behind it nothing has begun.
GroupsInTurn(i) ==
    \A g \in 1 .. Len(groups[i]) : \A c \in Members(groups[i][g]) :
        /\ g > at[i] => calls[i][c] = "todo"
        /\ g < at[i] => calls[i][c] \in Settled /\ c \in Members(rows[i])

\* A row is one of a call of a group that began, and the next row comes behind it.
Written(i) ==
    /\ rows[i] \in Seq(Nat)
    /\ \A j, k \in DOMAIN rows[i] : j < k => rows[i][j] < rows[i][k]
    /\ \A c \in Members(rows[i]) : \E g \in 1 .. at[i] : c \in Members(groups[i][g])
    /\ at[i] > 0 => \A c \in Members(rows[i]) : c \in Group(i) =>
                       GroupIsSettled(i) /\ \A d \in Unwritten(i) : c < d

\* What is on its way, or has run, follows no question.
Answered(i) ==
    \A c \in DOMAIN calls[i] : calls[i][c] \in Way \cup {"result", "threw"} =>
        \A d \in Before(i, c) : plan[i][d].name # AskQuestion

Ended(i) ==
    /\ step[i] = "settled" => 1 .. Len(plan[i]) \subseteq Members(rows[i])
    /\ step[i] = "threw" =>
         \A c \in DOMAIN calls[i] : calls[i][c] = "result" => c \in Members(rows[i])

InOrder(i) == Planned(i) /\ GroupsInTurn(i) /\ Written(i) /\ Answered(i) /\ Ended(i)
OrderInv == DOMAIN rows = Invoke /\ \A i \in Invoke : InOrder(i)

\* Some calls of an invoke's step go on, or end, and nothing else of it changes.
GoesOn(i) ==
    /\ step'[i] = step[i] /\ plan'[i] = plan[i] /\ groups'[i] = groups[i]
    /\ at'[i] = at[i] /\ rows'[i] = rows[i] /\ DOMAIN calls'[i] = DOMAIN calls[i]
    /\ \A c \in DOMAIN calls[i] :
         calls'[i][c] = calls[i][c] \/ (calls[i][c] \in Way /\ calls'[i][c] \in Way \cup Settled)

\* A group that is at work has calls of the step.
LEMMA GroupIs ==
    ASSUME NEW i \in Invoke, Planned(i), at[i] > 0
    PROVE  /\ at[i] \in 1 .. Len(groups[i]) /\ Group(i) = Members(groups[i][at[i]])
           /\ Group(i) \subseteq DOMAIN calls[i] /\ Group(i) \subseteq Nat
           /\ Together(plan[i], Group(i))
<1>1. groups[i] \in Seq(Seq(Nat)) /\ Len(groups[i]) \in Nat
      /\ DOMAIN groups[i] = 1 .. Len(groups[i])
  BY DEF Planned, Fit
<1>2. at[i] \in 1 .. Len(groups[i])
  BY <1>1 DEF Planned
<1>3. Group(i) = Members(groups[i][at[i]])
  BY DEF Group, Members
<1>4. Group(i) \subseteq 1 .. Len(plan[i]) /\ Together(plan[i], Group(i))
  BY <1>1, <1>2, <1>3 DEF Planned, Fit
<1> QED BY <1>2, <1>3, <1>4 DEF Planned

\* The order of the groups is the order of the calls.
LEMMA GroupOrder ==
    ASSUME NEW i \in Invoke, Planned(i),
           NEW g \in 1 .. Len(groups[i]), NEW h \in 1 .. Len(groups[i]),
           NEW c \in Members(groups[i][g]), NEW d \in Members(groups[i][h])
    PROVE  /\ c \in DOMAIN calls[i] /\ c \in Nat
           /\ g < h => c < d
           /\ c < d => g <= h
           /\ c = d => g = h
<1>1. /\ DOMAIN groups[i] = 1 .. Len(groups[i]) /\ Len(groups[i]) \in Nat
      /\ \A k \in 1 .. Len(groups[i]) : Members(groups[i][k]) \subseteq 1 .. Len(plan[i])
  BY DEF Planned, Fit
<1>2. c \in 1 .. Len(plan[i]) /\ d \in 1 .. Len(plan[i])
  BY <1>1
<1>3. (g < h => c < d) /\ (h < g => d < c)
  BY <1>1 DEF Planned, Fit
<1>4. c \in Int /\ d \in Int /\ g \in Int /\ h \in Int
  BY <1>1, <1>2
<1> QED BY <1>2, <1>3, <1>4 DEF Planned

\* Every call is in a group.
LEMMA InAGroup ==
    ASSUME NEW i \in Invoke, Planned(i), NEW c \in DOMAIN calls[i]
    PROVE  \E g \in 1 .. Len(groups[i]) : c \in Members(groups[i][g])
<1>1. groups[i] \in Seq(Seq(Nat)) /\ c \in 1 .. Len(plan[i])
  BY DEF Planned, Fit
<1>2. \E g \in DOMAIN groups[i] : c \in Members(groups[i][g])
  BY <1>1 DEF Planned, Fit
<1>3. DOMAIN groups[i] = 1 .. Len(groups[i])
  BY <1>1
<1> QED BY <1>2, <1>3

LEMMA GoesOnInOrder ==
    ASSUME ToolInv, NEW i \in Invoke, InOrder(i), GoesOn(i)
    PROVE  InOrder(i)'
<1> USE DEF Way, Settled
<1>1. /\ Planned(i) /\ GroupsInTurn(i) /\ Written(i) /\ Answered(i) /\ Ended(i)
      /\ DOMAIN calls[i] = 1 .. Len(plan[i])
  BY DEF InOrder, Planned
<1>2. Planned(i)'
  BY <1>1 DEF GoesOn, Planned
<1>3. ASSUME NEW c \in DOMAIN calls[i], calls[i][c] \notin Way
      PROVE  calls'[i][c] = calls[i][c]
  BY <1>3 DEF GoesOn
<1>4. GroupsInTurn(i)'
  <2>1. ASSUME NEW g \in 1 .. Len(groups[i]), NEW c \in Members(groups[i][g])
        PROVE  c \in DOMAIN calls[i]
    BY <1>1, <2>1, GroupOrder
  <2>2. ASSUME NEW g \in 1 .. Len(groups[i]), NEW c \in Members(groups[i][g])
        PROVE  /\ g > at[i] => calls'[i][c] = "todo"
               /\ g < at[i] => calls'[i][c] \in Settled /\ c \in Members(rows[i])
    <3>1. /\ g > at[i] => calls[i][c] = "todo"
          /\ g < at[i] => calls[i][c] \in Settled /\ c \in Members(rows[i])
      BY <1>1 DEF GroupsInTurn
    <3> QED BY <1>3, <2>1, <3>1
  <2> QED BY <2>2 DEF GroupsInTurn, GoesOn
<1>5. Group(i)' = Group(i) /\ at'[i] = at[i] /\ rows'[i] = rows[i] /\ groups'[i] = groups[i]
  BY DEF Group, GoesOn
<1>6. Written(i)'
  <2>1. ASSUME at[i] > 0, NEW c \in Members(rows[i]), c \in Group(i)
        PROVE  GroupIsSettled(i)' /\ \A d \in Unwritten(i)' : c < d
    <3>1. GroupIsSettled(i) /\ \A d \in Unwritten(i) : c < d
      BY <1>1, <2>1 DEF Written
    <3>2. Group(i) \subseteq DOMAIN calls[i]
      BY <1>1, <2>1, GroupIs
    <3>3. \A d \in Group(i) : calls'[i][d] = calls[i][d]
      BY <1>3, <3>1, <3>2 DEF GroupIsSettled
    <3>4. GroupIsSettled(i)'
      BY <1>5, <3>1, <3>3 DEF GroupIsSettled
    <3>5. Unwritten(i)' = Unwritten(i)
      BY <1>5, <3>3 DEF Unwritten, Threw
    <3> QED BY <3>1, <3>4, <3>5
  <2> QED BY <1>1, <1>5, <2>1 DEF Written
<1>7. Answered(i)'
  <2>1. ASSUME NEW c \in DOMAIN calls'[i], calls'[i][c] \in Way \cup {"result", "threw"},
               NEW d \in Before(i, c)'
        PROVE  plan'[i][d].name # AskQuestion
    <3>1. c \in DOMAIN calls[i] /\ d \in Before(i, c) /\ plan'[i] = plan[i]
      BY <2>1 DEF GoesOn, Before
    <3>2. calls[i][c] \in Way \cup {"result", "threw"}
      BY <2>1, <3>1 DEF GoesOn
    <3> QED BY <1>1, <3>1, <3>2 DEF Answered
  <2> QED BY <2>1 DEF Answered
<1>8. Ended(i)'
  <2>1. /\ step[i] = "settled" => 1 .. Len(plan[i]) \subseteq Members(rows[i])
        /\ step'[i] = step[i] /\ plan'[i] = plan[i] /\ rows'[i] = rows[i]
        /\ DOMAIN calls'[i] = DOMAIN calls[i]
    BY <1>1 DEF Ended, GoesOn
  <2>2. ASSUME step[i] = "threw", NEW c \in DOMAIN calls[i], calls'[i][c] = "result"
        PROVE  c \in Members(rows[i])
    <3>1. calls[i][c] \notin Way
      BY <2>2 DEF ToolInv, StepInv, OnTheWay, Running
    <3>2. calls[i][c] = "result"
      BY <1>3, <2>2, <3>1
    <3> QED BY <1>1, <2>2, <3>2 DEF Ended
  <2> QED BY <2>1, <2>2 DEF Ended
<1> QED BY <1>2, <1>4, <1>6, <1>7, <1>8 DEF InOrder

\* Only the step of one invoke changes otherwise.
LEMMA OwnOrder ==
    ASSUME ToolInv, OrderInv, NEW i \in Invoke, InOrder(i)', DOMAIN rows' = Invoke,
           \A j \in Invoke \ {i} :
               /\ step'[j] = step[j] /\ plan'[j] = plan[j] /\ groups'[j] = groups[j]
               /\ at'[j] = at[j] /\ calls'[j] = calls[j] /\ rows'[j] = rows[j]
    PROVE  OrderInv'
<1>1. ASSUME NEW j \in Invoke \ {i} PROVE InOrder(j)'
  <2>1. GoesOn(j)
    BY DEF GoesOn
  <2> QED BY <2>1, GoesOnInOrder DEF OrderInv
<1> QED BY <1>1 DEF OrderInv

\* A call of a step goes on.
LEMMA CallGoesOn ==
    ASSUME ToolInv, OrderInv, NEW i \in Invoke, NEW c \in DOMAIN calls[i], CallStep(i, c)
    PROVE  OrderInv'
<1> USE DEF gateVars, boundVars
<1>1. /\ UNCHANGED <<step, plan, groups, at, rows>> /\ calls[i][c] \in Way
      /\ \E s \in Way \cup Settled : Put(i, c, s)
  <2> USE DEF Way, Settled
  <2>1. CASE Authorize(i, c)
    <3> DEFINE s == IF plan[i][c].gate = "deny" THEN "refused"
                    ELSE IF ~MustAsk(i, c) THEN "cleared"
                    ELSE IF sender = NoSender THEN "refused"
                    ELSE IF Stopped(i) THEN "stopped" ELSE "asking"
    <3>1. /\ Put(i, c, s) /\ calls[i][c] = "authorizing"
          /\ UNCHANGED <<step, plan, groups, at, rows>>
      BY <2>1 DEF Authorize
    <3>2. s \in {"refused", "cleared", "stopped", "asking"}
      OBVIOUS
    <3> HIDE DEF s
    <3> QED BY <3>1, <3>2
  <2>2. CASE Execute(i, c)
    <3> DEFINE s == IF Stopped(i) THEN "stopped"
                    ELSE IF plan[i][c].name # AskQuestion THEN "running"
                    ELSE IF sender = NoSender THEN "result" ELSE "question"
    <3>1. /\ Put(i, c, s) /\ calls[i][c] = "cleared"
          /\ UNCHANGED <<step, plan, groups, at, rows>>
      BY <2>2 DEF Execute
    <3>2. s \in {"stopped", "running", "result", "question"}
      OBVIOUS
    <3> HIDE DEF s
    <3> QED BY <3>1, <3>2
  <2>3. CASE Deny(i, c) \/ HookBlocks(i, c)
    BY <2>3 DEF Deny, HookBlocks
  <2>4. CASE Allow(i, c) \/ AllowMore(i, c)
    BY <2>4 DEF Allow, AllowMore
  <2>5. CASE ToolReturns(i, c) \/ ToolStops(i, c) \/ ToolThrows(i, c)
    BY <2>5 DEF ToolReturns, ToolStops, ToolThrows
  <2>6. CASE AnswerQuestion(i, c)
    BY <2>6 DEF AnswerQuestion
  <2> QED BY <2>1, <2>2, <2>3, <2>4, <2>5, <2>6 DEF CallStep
<1>2. ASSUME NEW j \in Invoke PROVE GoesOn(j)
  BY <1>1, Types DEF GoesOn, Put, StepTypes
<1> QED BY <1>1, <1>2, GoesOnInOrder DEF OrderInv

\* Prompts are closed, or the calls are left alone.
LEMMA PromptsInOrder ==
    ASSUME ToolInv, OrderInv, UNCHANGED <<step, plan, groups, at, rows>>,
           \A j \in Invoke : DOMAIN calls'[j] = DOMAIN calls[j],
           \A j \in Invoke : \A d \in DOMAIN calls[j] :
               \/ calls'[j][d] = calls[j][d]
               \/ calls[j][d] \in Open /\ calls'[j][d] \in {"stopped", "result"}
    PROVE  OrderInv'
<1>1. ASSUME NEW j \in Invoke PROVE GoesOn(j)
  BY DEF GoesOn, Open, Way, Settled
<1> QED BY <1>1, GoesOnInOrder DEF OrderInv

LEMMA StopsInOrder ==
    ASSUME ToolInv, OrderInv,
           CancelRun \/ \E i \in Invoke : SendNow(i) \/ TailEnds(i)
    PROVE  OrderInv'
<1>1. CASE CancelRun
  <2>1. UNCHANGED <<step, plan, groups, at, rows>> /\ calls' = Closed(Invoke, Open, "stopped")
    BY <1>1 DEF CancelRun
  <2> QED BY <2>1, PromptsInOrder DEF Closed
<1>2. ASSUME NEW i \in Invoke, SendNow(i) PROVE OrderInv'
  <2>1. UNCHANGED <<step, plan, groups, at, rows>>
    BY <1>2 DEF SendNow
  <2>2. /\ \A j \in Invoke : DOMAIN calls'[j] = DOMAIN calls[j]
        /\ \A j \in Invoke : \A d \in DOMAIN calls[j] :
             calls'[j][d] = IF j = i /\ calls[j][d] = "asking" THEN "stopped"
                            ELSE IF j = i /\ calls[j][d] = "question" THEN "result"
                            ELSE calls[j][d]
    BY <1>2 DEF SendNow
  <2>3. \A j \in Invoke : \A d \in DOMAIN calls[j] :
             \/ calls'[j][d] = calls[j][d]
             \/ calls[j][d] \in Open /\ calls'[j][d] \in {"stopped", "result"}
    BY <2>2 DEF Open
  <2> QED BY <2>1, <2>2, <2>3, PromptsInOrder
<1>3. ASSUME NEW i \in Invoke, TailEnds(i) PROVE OrderInv'
  <2>1. UNCHANGED <<step, plan, groups, at, rows>> /\ calls' = Closed({i}, Open, "stopped")
    BY <1>3 DEF TailEnds
  <2> QED BY <2>1, PromptsInOrder DEF Closed
<1> QED BY <1>1, <1>2, <1>3

\* Nothing has begun, or nothing is there to begin.
LEMMA FreshInOrder ==
    ASSUME NEW i \in Invoke, plan'[i] \in Seq(Call), Serial(plan'[i]),
           Fit(plan'[i], groups'[i], Len(plan'[i])),
           at'[i] = 0, rows'[i] = <<>>, DOMAIN calls'[i] = 1 .. Len(plan'[i]),
           \A c \in DOMAIN calls'[i] : calls'[i][c] = "todo",
           step'[i] \in {"none", "running"}
    PROVE  InOrder(i)'
<1>1. Planned(i)'
  <2>1. Len(groups'[i]) \in Nat
    BY DEF Fit
  <2> QED BY <2>1 DEF Planned
<1>2. GroupsInTurn(i)'
  <2>1. ASSUME NEW g \in 1 .. Len(groups'[i]), NEW c \in Members(groups'[i][g])
        PROVE  /\ g > at'[i] => calls'[i][c] = "todo"
               /\ ~(g < at'[i])
    <3>1. groups'[i] \in Seq(Seq(Nat)) /\ g \in DOMAIN groups'[i]
      BY DEF Fit
    <3>2. c \in DOMAIN calls'[i]
      BY <3>1 DEF Fit
    <3> QED BY <3>1, <3>2
  <2> QED BY <2>1 DEF GroupsInTurn
<1>3. Written(i)'
  BY DEF Written, Members, SX!ToSet
<1>4. Answered(i)' /\ Ended(i)'
  BY DEF Answered, Ended, Way
<1> QED BY <1>1, <1>2, <1>3, <1>4 DEF InOrder

LEMMA NothingFits == Fit(<<>>, <<>>, 0) /\ Serial(<<>>) /\ <<>> \in Seq(Call)
BY DEF Fit, Serial

LEMMA InitInOrder == Init => OrderInv
<1> SUFFICES ASSUME Init PROVE OrderInv
  OBVIOUS
<1>1. DOMAIN rows = Invoke
  BY DEF Init
<1>2. ASSUME NEW i \in Invoke PROVE InOrder(i)
  <2>1. /\ plan[i] = <<>> /\ groups[i] = <<>> /\ at[i] = 0 /\ calls[i] = <<>> /\ rows[i] = <<>>
        /\ step[i] = "none"
    BY DEF Init
  <2>2. Planned(i)
    BY <2>1, NothingFits DEF Planned
  <2> QED BY <2>1, <2>2 DEF InOrder, GroupsInTurn, Written, Answered, Ended, Members, SX!ToSet
<1> QED BY <1>1, <1>2 DEF OrderInv

LEMMA LeaveLoopInOrder ==
    ASSUME ToolInv, OrderInv, NEW i \in Invoke, LeaveLoop(i)
    PROVE  OrderInv'
<1>1. /\ step' = [step EXCEPT ![i] = "none"]
      /\ plan' = [plan EXCEPT ![i] = <<>>] /\ groups' = [groups EXCEPT ![i] = <<>>]
      /\ at' = [at EXCEPT ![i] = 0] /\ calls' = [calls EXCEPT ![i] = <<>>]
      /\ rows' = [rows EXCEPT ![i] = <<>>]
  BY DEF LeaveLoop
<1>2. /\ step'[i] = "none" /\ plan'[i] = <<>> /\ groups'[i] = <<>> /\ at'[i] = 0
      /\ calls'[i] = <<>> /\ rows'[i] = <<>> /\ DOMAIN rows' = Invoke
  BY <1>1, Types DEF StepTypes, OrderInv
<1>3. Len(<<>>) = 0 /\ DOMAIN <<>> = 1 .. 0 /\ 1 .. 0 = {}
  OBVIOUS
<1>4. /\ Len(plan'[i]) = 0 /\ DOMAIN calls'[i] = 1 .. Len(plan'[i])
      /\ \A c \in DOMAIN calls'[i] : calls'[i][c] = "todo"
  BY <1>2, <1>3
<1>5. plan'[i] \in Seq(Call) /\ Serial(plan'[i]) /\ Fit(plan'[i], groups'[i], Len(plan'[i]))
  BY <1>2, <1>4, NothingFits
<1>6. InOrder(i)'
  BY <1>2, <1>4, <1>5, FreshInOrder
<1> QED BY <1>1, <1>2, <1>6, OwnOrder

LEMMA StepBeginsInOrder ==
    ASSUME ToolInv, OrderInv, NEW i \in Invoke, NEW list \in Steps, StepBegins(i, list)
    PROVE  OrderInv'
<1> DEFINE p == Hoisted(list)
<1>1. /\ step' = [step EXCEPT ![i] = "running"]
      /\ plan' = [plan EXCEPT ![i] = p] /\ groups' = [groups EXCEPT ![i] = GroupsOf(p)]
      /\ at' = [at EXCEPT ![i] = 0]
      /\ calls' = [calls EXCEPT ![i] = [c \in DOMAIN p |-> "todo"]]
      /\ rows' = [rows EXCEPT ![i] = <<>>]
  BY DEF StepBegins
<1>2. p \in Seq(Call) /\ Serial(p)
  <2>1. list \in Seq(Call) /\ Serial(list)
    BY StepAssumption DEF Serial
  <2> QED BY <2>1, HoistedIs
<1> HIDE DEF p
<1>3. Fit(p, GroupsOf(p), Len(p)) /\ DOMAIN p = 1 .. Len(p)
  BY <1>2, GroupsFit
<1>4. /\ step'[i] = "running" /\ plan'[i] = p /\ groups'[i] = GroupsOf(p) /\ at'[i] = 0
      /\ calls'[i] = [c \in DOMAIN p |-> "todo"] /\ rows'[i] = <<>> /\ DOMAIN rows' = Invoke
  BY <1>1, Types DEF StepTypes, OrderInv
<1>5. DOMAIN calls'[i] = 1 .. Len(p) /\ \A c \in DOMAIN calls'[i] : calls'[i][c] = "todo"
  BY <1>3, <1>4
<1>6. InOrder(i)'
  BY <1>2, <1>3, <1>4, <1>5, FreshInOrder
<1> QED BY <1>1, <1>4, <1>6, OwnOrder

\* The next group begins when those before it are done and on disk.
LEMMA StartGroupInOrder ==
    ASSUME ToolInv, OrderInv, NEW i \in Invoke, StartGroup(i)
    PROVE  OrderInv'
<1> DEFINE next == SX!ToSet(groups[i][at[i] + 1])
           state == IF Stopped(i) THEN "stopped"
                    ELSE IF HeldForAnswer(i) THEN "held" ELSE "authorizing"
           turn == at[i] + 1
<1>1. /\ Running(i) /\ GroupIsWritten(i) /\ at[i] < Len(groups[i])
      /\ at' = [at EXCEPT ![i] = @ + 1]
      /\ calls' = [calls EXCEPT ![i] = [c \in DOMAIN @ |-> IF c \in next THEN state ELSE @[c]]]
      /\ UNCHANGED <<step, plan, groups, rows>>
  BY DEF StartGroup
<1>2. state \in {"stopped", "held", "authorizing"} /\ (state = "authorizing" => ~HeldForAnswer(i))
  OBVIOUS
<1> HIDE DEF state
<1>3. /\ Planned(i) /\ GroupsInTurn(i) /\ Written(i) /\ Answered(i)
      /\ DOMAIN calls[i] = 1 .. Len(plan[i]) /\ DOMAIN plan[i] = 1 .. Len(plan[i])
      /\ DOMAIN rows = Invoke
  BY DEF OrderInv, InOrder, Planned
<1>4. /\ Len(groups[i]) \in Nat /\ at[i] \in Nat
      /\ turn \in 1 .. Len(groups[i]) /\ turn > at[i] /\ turn \in Nat
  BY <1>1, <1>3 DEF Planned, Fit
<1>5. /\ at'[i] = turn /\ DOMAIN calls'[i] = DOMAIN calls[i]
      /\ \A c \in DOMAIN calls[i] : calls'[i][c] = IF c \in next THEN state ELSE calls[i][c]
      /\ \A j \in Invoke \ {i} : at'[j] = at[j] /\ calls'[j] = calls[j]
  BY <1>1, Types DEF StepTypes
<1>6. next = Members(groups[i][turn]) /\ Group(i)' = Members(groups[i][turn])
  BY <1>1, <1>5 DEF Members, Group
<1> HIDE DEF next, turn
<1>7. ASSUME NEW g \in 1 .. Len(groups[i]), NEW c \in Members(groups[i][g])
      PROVE  /\ c \in DOMAIN calls[i]
             /\ c \in next => g = turn
             /\ g < turn => calls[i][c] \in Settled /\ c \in Members(rows[i])
  <2>1. c \in DOMAIN calls[i]
    BY <1>3, GroupOrder
  <2>2. ASSUME c \in next PROVE g = turn
    <3>1. c \in Members(groups[i][turn])
      BY <1>6, <2>2
    <3>2. Planned(i) /\ turn \in 1 .. Len(groups[i]) /\ i \in Invoke
      BY <1>3, <1>4
    <3>3. \A d \in Members(groups[i][turn]) : c = d => g = turn
      BY ONLY <3>2, g \in 1 .. Len(groups[i]), c \in Members(groups[i][g]), GroupOrder
    <3> QED BY <3>1, <3>3
  <2>3. CASE g < at[i]
    BY <1>3, <2>1, <2>2, <2>3 DEF GroupsInTurn
  <2>4. CASE g = at[i]
    <3>1. at[i] > 0 /\ c \in Group(i)
      BY <1>3, <2>4 DEF Group, Members
    <3>2. calls[i][c] \in Settled /\ c \in Members(rows[i])
      BY <1>1, <3>1 DEF GroupIsWritten, GroupIsSettled, Members
    <3> QED BY <2>1, <2>2, <3>2
  <2>5. g < turn => g <= at[i]
    BY <1>4 DEF turn
  <2> QED BY <1>4, <2>1, <2>2, <2>3, <2>4, <2>5
<1>8. Planned(i)'
  <2>1. at'[i] \in 0 .. Len(groups[i])
    BY <1>4, <1>5
  <2>2. \A c \in DOMAIN calls'[i] : calls'[i][c] \in {"todo"} \cup Way \cup Settled
    BY <1>2, <1>3, <1>5 DEF Planned, Way, Settled
  <2> QED BY <1>1, <1>3, <1>5, <2>1, <2>2 DEF Planned
<1>9. GroupsInTurn(i)'
  <2>1. ASSUME NEW g \in 1 .. Len(groups[i]), NEW c \in Members(groups[i][g])
        PROVE  /\ g > turn => calls'[i][c] = "todo"
               /\ g < turn => calls'[i][c] \in Settled /\ c \in Members(rows[i])
    <3>1. c \in DOMAIN calls[i] /\ (g # turn => calls'[i][c] = calls[i][c])
      BY <1>5, <1>7
    <3>2. ASSUME g > turn PROVE calls'[i][c] = "todo"
      <4>1. g > at[i] /\ g # turn
        BY <1>4, <3>2
      <4> QED BY <1>3, <3>1, <4>1 DEF GroupsInTurn
    <3>3. ASSUME g < turn PROVE calls'[i][c] \in Settled /\ c \in Members(rows[i])
      <4>1. g # turn
        BY <1>4, <3>3
      <4> QED BY <1>7, <3>1, <3>3, <4>1
    <3> QED BY <3>2, <3>3
  <2> QED BY <1>1, <1>5, <2>1 DEF GroupsInTurn
<1>10. Written(i)'
  <2>1. ASSUME NEW c \in Members(rows[i])
        PROVE  (\E g \in 1 .. turn : c \in Members(groups[i][g])) /\ c \notin next
    <3>1. PICK g \in 1 .. at[i] : c \in Members(groups[i][g])
      BY <1>3 DEF Written
    <3>2. g \in 1 .. turn /\ g \in 1 .. Len(groups[i]) /\ g # turn
      BY <1>1, <1>4, <3>1
    <3> QED BY <1>7, <3>1, <3>2
  <2>2. rows'[i] = rows[i] /\ groups'[i] = groups[i]
    BY <1>1
  <2> QED BY <1>3, <1>5, <1>6, <2>1, <2>2 DEF Written
<1>11. Answered(i)'
  <2>1. ASSUME NEW c \in DOMAIN calls[i], calls'[i][c] \in Way \cup {"result", "threw"},
               NEW d \in Before(i, c)
        PROVE  plan[i][d].name # AskQuestion
    <3>1. CASE c \notin next
      BY <1>3, <1>5, <2>1, <3>1 DEF Answered
    <3>2. CASE c \in next
      <4>1. ~HeldForAnswer(i)
        <5>1. calls'[i][c] = state
          BY <1>5, <3>2
        <5>2. state = "authorizing"
          BY <1>2, <2>1, <5>1 DEF Way
        <5> QED BY <1>2, <5>2
      <4>2. d \in DOMAIN calls[i] /\ d < c
        BY DEF Before
      <4>3. PICK h \in 1 .. Len(groups[i]) : d \in Members(groups[i][h])
        BY <1>3, <4>2, InAGroup
      <4>4. c \in Members(groups[i][turn])
        BY <1>6, <3>2
      <4>5. h <= turn
        BY <1>3, <1>4, <4>2, <4>3, <4>4, GroupOrder
      <4>6. CASE h < turn
        <5>1. calls[i][d] \in Settled
          BY <1>7, <4>3, <4>6
        <5> QED BY <1>3, <4>1, <4>2, <5>1 DEF HeldForAnswer
      <4>7. CASE h = turn
        <5>1. Together(plan[i], Members(groups[i][turn]))
          <6>1. turn \in DOMAIN groups[i]
            BY <1>3, <1>4 DEF Planned, Fit
          <6> QED BY <1>3, <6>1 DEF Planned, Fit
        <5>2. d # c
          BY <1>3, <4>2
        <5>3. plan[i][d].class # "serial"
          BY <4>3, <4>4, <4>7, <5>1, <5>2 DEF Together
        <5> QED BY <1>3, <4>2, <5>3 DEF Planned, Serial
      <4> QED BY <1>4, <4>3, <4>5, <4>6, <4>7
    <3> QED BY <3>1, <3>2
  <2>2. plan'[i] = plan[i] /\ DOMAIN calls'[i] = DOMAIN calls[i]
    BY <1>1, <1>5
  <2> QED BY <2>1, <2>2 DEF Answered, Before
<1>12. Ended(i)'
  BY <1>1 DEF Ended, Running
<1>13. InOrder(i)'
  BY <1>8, <1>9, <1>10, <1>11, <1>12 DEF InOrder
<1> QED BY <1>1, <1>3, <1>5, <1>13, OwnOrder

\* The next row is the first of the group's results that is not on disk.
LEMMA WriteNextInOrder ==
    ASSUME ToolInv, OrderInv, NEW i \in Invoke, WriteNext(i)
    PROVE  OrderInv'
<1> DEFINE first == CHOOSE c \in Unwritten(i) : \A d \in Unwritten(i) : c <= d
           old == rows[i]
           new == rows'[i]
<1>1. /\ Running(i) /\ GroupIsSettled(i) /\ Unwritten(i) # {}
      /\ rows' = [rows EXCEPT ![i] = Append(@, first)]
      /\ UNCHANGED <<step, plan, groups, at, calls>>
  BY DEF WriteNext
<1>2. /\ Planned(i) /\ GroupsInTurn(i) /\ Written(i) /\ Answered(i)
      /\ DOMAIN rows = Invoke /\ at[i] > 0
  BY <1>1 DEF OrderInv, InOrder, GroupIsSettled
<1>3. /\ at[i] \in 1 .. Len(groups[i]) /\ Len(groups[i]) \in Nat
      /\ Group(i) = Members(groups[i][at[i]]) /\ Group(i) \subseteq Nat
  <2>1. at[i] \in 1 .. Len(groups[i]) /\ Group(i) = Members(groups[i][at[i]])
        /\ Group(i) \subseteq Nat
    BY <1>2, GroupIs
  <2>2. Len(groups[i]) \in Nat
    BY <1>2 DEF Planned, Fit
  <2> QED BY <2>1, <2>2
<1>4. Unwritten(i) \subseteq Group(i) /\ Unwritten(i) \cap Members(old) = {}
  BY DEF Unwritten, Members
<1>5. first \in Unwritten(i) /\ \A d \in Unwritten(i) : first <= d
  <2>1. \E c \in Unwritten(i) : \A d \in Unwritten(i) : c <= d
    BY <1>1, <1>3, <1>4, Least
  <2> QED BY <2>1
<1> HIDE DEF first
<1>6. first \in Group(i) /\ first \notin Members(old) /\ first \in Nat
  BY <1>3, <1>4, <1>5
<1>7. /\ old \in Seq(Nat) /\ new \in Seq(Nat) /\ new = Append(old, first)
      /\ Members(new) = Members(old) \cup {first}
  <2>1. old \in Seq(Nat) /\ new = Append(old, first)
    BY <1>1, <1>2 DEF Written
  <2> QED BY <1>6, <2>1, MembersAppended
<1>8. Group(i)' = Group(i) /\ GroupIsSettled(i)' /\ Unwritten(i)' = Unwritten(i) \ {first}
  <2>1. Group(i)' = Group(i) /\ Threw(i)' = Threw(i)
    BY <1>1 DEF Group, Threw
  <2>2. GroupIsSettled(i)'
    BY <1>1, <2>1 DEF GroupIsSettled
  <2>3. Unwritten(i) = {c \in Group(i) \ Threw(i) : c \notin Members(old)}
    BY DEF Unwritten, Members
  <2>4. Unwritten(i)' = {c \in Group(i) \ Threw(i) : c \notin Members(new)}
    BY <2>1 DEF Unwritten, Members
  <2> QED BY <1>7, <2>1, <2>2, <2>3, <2>4
<1> HIDE DEF old, new
<1>9. ASSUME NEW c \in Members(old)
      PROVE  c < first /\ \E g \in 1 .. at[i] : c \in Members(groups[i][g])
  <2>1. PICK g \in 1 .. at[i] : c \in Members(groups[i][g])
    BY <1>2 DEF Written, old
  <2>2. CASE g = at[i]
    <3>1. c \in Group(i)
      BY <1>3, <2>1, <2>2
    <3>2. c < first
      BY <1>2, <1>5, <3>1 DEF Written, old
    <3> QED BY <2>1, <3>2
  <2>3. CASE g < at[i]
    <3>1. g \in 1 .. Len(groups[i]) /\ first \in Members(groups[i][at[i]])
      BY <1>3, <1>6, <2>1
    <3>2. c \in Members(groups[i][g])
      BY <2>1
    <3>3. Planned(i) /\ at[i] \in 1 .. Len(groups[i])
      BY <1>2, <1>3
    <3>4. \A d \in Members(groups[i][at[i]]) : g < at[i] => c < d
      BY ONLY i \in Invoke, <3>1, <3>2, <3>3, GroupOrder
    <3> QED BY <2>1, <2>3, <3>1, <3>4
  <2> QED BY <1>3, <2>1, <2>2, <2>3
<1>10. ASSUME NEW j \in DOMAIN new, NEW k \in DOMAIN new, j < k
       PROVE  new[j] < new[k]
  <2>1. /\ Len(old) \in Nat /\ Len(new) = Len(old) + 1 /\ new[Len(old) + 1] = first
        /\ \A n \in 1 .. Len(old) : new[n] = old[n]
    BY <1>6, <1>7, AppendProperties
  <2>2. DOMAIN new = 1 .. Len(old) + 1 /\ DOMAIN old = 1 .. Len(old)
    BY <1>7, <2>1
  <2>3. j \in 1 .. Len(old) /\ new[j] = old[j] /\ old[j] \in Members(old)
    <3>1. j \in 1 .. Len(old)
      BY <1>10, <2>1, <2>2
    <3> QED BY <1>7, <2>1, <3>1, MembersAre
  <2>4. CASE k = Len(old) + 1
    BY <1>9, <2>1, <2>3, <2>4
  <2>5. CASE k \in 1 .. Len(old)
    <3>1. \A a \in DOMAIN old, b \in DOMAIN old : a < b => old[a] < old[b]
      <4>1. \A a \in DOMAIN rows[i], b \in DOMAIN rows[i] : a < b => rows[i][a] < rows[i][b]
        BY <1>2 DEF Written
      <4> QED BY ONLY <4>1 DEF old
    <3>2. new[k] = old[k] /\ new[j] = old[j] /\ j \in DOMAIN old /\ k \in DOMAIN old
      BY ONLY <2>1, <2>2, <2>3, <2>5
    <3> QED BY ONLY <1>10, <3>1, <3>2
  <2> QED BY <2>1, <2>2, <2>4, <2>5
<1>11. Written(i)'
  <2>1. \A c \in Members(new) : \E g \in 1 .. at[i] : c \in Members(groups[i][g])
    <3>1. \A c \in Members(old) : \E g \in 1 .. at[i] : c \in Members(groups[i][g])
      BY ONLY <1>9
    <3>2. first \in Members(groups[i][at[i]]) /\ at[i] \in 1 .. at[i]
      BY <1>3, <1>6
    <3> QED BY ONLY <1>7, <3>1, <3>2
  <2>2. ASSUME NEW c \in Members(new), c \in Group(i), NEW d \in Unwritten(i) \ {first}
        PROVE  c < d
    <3>1. CASE c = first
      BY <1>3, <1>4, <1>5, <3>1
    <3>2. CASE c \in Members(old)
      BY <1>2, <2>2, <3>2 DEF Written, old
    <3> QED BY <1>7, <3>1, <3>2
  <2>3. rows'[i] = new /\ groups'[i] = groups[i] /\ at'[i] = at[i]
    BY <1>1 DEF new
  <2> QED BY <1>7, <1>8, <1>10, <2>1, <2>2, <2>3 DEF Written
<1>12. Planned(i)' /\ GroupsInTurn(i)' /\ Answered(i)' /\ Ended(i)'
  <2>1. Planned(i)' /\ Answered(i)'
    BY <1>1, <1>2 DEF Planned, Answered, Before
  <2>2. GroupsInTurn(i)'
    BY <1>1, <1>2, <1>7 DEF GroupsInTurn, old, new
  <2>3. Ended(i)'
    BY <1>1 DEF Ended, Running
  <2> QED BY <2>1, <2>2, <2>3
<1>13. InOrder(i)'
  BY <1>11, <1>12 DEF InOrder
<1> QED BY <1>1, <1>2, <1>13, OwnOrder

\* The step ends, or fails: nothing of its calls and rows changes.
LEMMA EndsInOrder ==
    ASSUME ToolInv, OrderInv, NEW i \in Invoke, WriteFails(i) \/ StepThrows(i) \/ StepEnds(i)
    PROVE  OrderInv'
<1>1. /\ UNCHANGED <<plan, groups, at, calls, rows>> /\ Running(i)
      /\ \/ step' = [step EXCEPT ![i] = "unsaved"]
         \/ StepThrows(i) /\ step' = [step EXCEPT ![i] = "threw"]
         \/ StepEnds(i) /\ step' = [step EXCEPT ![i] = "settled"]
  BY DEF WriteFails, StepThrows, StepEnds, End
<1>2. /\ Planned(i) /\ GroupsInTurn(i) /\ Written(i) /\ Answered(i)
      /\ DOMAIN rows = Invoke /\ DOMAIN step = Invoke
      /\ DOMAIN calls[i] = 1 .. Len(plan[i])
  BY Types DEF OrderInv, InOrder, StepTypes, Planned
<1>3. Planned(i)' /\ GroupsInTurn(i)' /\ Answered(i)'
  BY <1>1, <1>2 DEF Planned, GroupsInTurn, Answered, Before
<1>4. Written(i)'
  <2>1. Group(i)' = Group(i) /\ GroupIsSettled(i)' = GroupIsSettled(i)
        /\ Unwritten(i)' = Unwritten(i)
    BY <1>1 DEF Group, GroupIsSettled, Unwritten, Threw
  <2> QED BY <1>1, <1>2, <2>1 DEF Written
<1>5. ASSUME NEW c \in DOMAIN calls[i]
      PROVE  /\ StepThrows(i) /\ calls[i][c] = "result" => c \in Members(rows[i])
             /\ StepEnds(i) => c \in Members(rows[i])
  <2>1. PICK g \in 1 .. Len(groups[i]) : c \in Members(groups[i][g])
    BY <1>2, InAGroup
  <2>2. g \in Nat /\ at[i] \in Nat /\ Len(groups[i]) \in Nat
    BY <1>2, <2>1 DEF Planned, Fit
  <2>3. CASE g > at[i]
    <3>1. calls[i][c] = "todo"
      BY <1>2, <2>1, <2>3 DEF GroupsInTurn
    <3>2. ~StepEnds(i)
      BY <2>1, <2>2, <2>3 DEF StepEnds
    <3> QED BY <3>1, <3>2
  <2>4. CASE g < at[i]
    BY <1>2, <2>1, <2>4 DEF GroupsInTurn
  <2>5. CASE g = at[i]
    <3>1. at[i] > 0 /\ c \in Group(i)
      BY <2>1, <2>5 DEF Group, Members
    <3>2. StepEnds(i) => c \in Members(rows[i])
      BY <3>1 DEF StepEnds, GroupIsWritten, Members
    <3>3. StepThrows(i) /\ calls[i][c] = "result" => c \in Members(rows[i])
      BY <3>1 DEF StepThrows, Unwritten, Threw, Members
    <3> QED BY <3>2, <3>3
  <2> QED BY <2>2, <2>3, <2>4, <2>5
<1>6. Ended(i)'
  BY <1>1, <1>2, <1>5 DEF Ended
<1>7. InOrder(i)'
  BY <1>3, <1>4, <1>6 DEF InOrder
<1>8. \A j \in Invoke \ {i} : step'[j] = step[j]
  BY <1>1, <1>2
<1> QED BY <1>1, <1>2, <1>7, <1>8, OwnOrder

\* What leaves the calls of every step alone.
LEMMA RestInOrder ==
    ASSUME ToolInv, OrderInv, UNCHANGED workVars
    PROVE  OrderInv'
BY PromptsInOrder DEF workVars

LEMMA OrderStays ==
    ASSUME ToolInv, OrderInv, [Next]_vars
    PROVE  OrderInv'
<1>1. CASE UNCHANGED vars \/ Launch \/ ((ForceFinish \/ StatusLands) /\ UNCHANGED stepVars)
  BY <1>1, RestInOrder DEF vars, stepVars, Launch
<1>2. ASSUME NEW i \in Invoke, LoopBegins(i) \/ RegistryOnly(i) PROVE OrderInv'
  BY <1>2, RestInOrder DEF LoopBegins, RegistryOnly, stepVars
<1>3. CASE CancelRun \/ \E i \in Invoke : SendNow(i) \/ TailEnds(i)
  BY <1>3, StopsInOrder
<1>4. ASSUME NEW i \in Invoke, LeaveLoop(i) PROVE OrderInv'
  BY <1>4, LeaveLoopInOrder
<1>5. ASSUME NEW i \in Invoke, NEW list \in Steps, StepBegins(i, list) PROVE OrderInv'
  BY <1>5, StepBeginsInOrder
<1>6. ASSUME NEW i \in Invoke, ResultStep(i) PROVE OrderInv'
  BY <1>6, StartGroupInOrder, WriteNextInOrder, EndsInOrder DEF ResultStep
<1>7. ASSUME NEW i \in Invoke, NEW c \in DOMAIN calls[i], CallStep(i, c) PROVE OrderInv'
  BY <1>7, CallGoesOn
<1> QED
  BY <1>1, <1>2, <1>3, <1>4, <1>5, <1>6, <1>7 DEF Next

THEOREM OrderInvHolds == Spec => [](ToolInv /\ OrderInv)
<1>1. ToolInv /\ OrderInv /\ [Next]_vars => OrderInv'
  BY OrderStays
<1> QED
  BY ToolInvHolds, InitInOrder, <1>1, PTL DEF Spec
-----------------------------------------------------------------------------
\* An increasing list of the numbers to n has n of them.
LEMMA RowsAreCounted ==
    ASSUME NEW s \in Seq(Nat), NEW n \in Nat,
           \A j, k \in DOMAIN s : j < k => s[j] < s[k],
           Members(s) = 1 .. n
    PROVE  Len(s) = n
<1>1. /\ DOMAIN s = 1 .. Len(s) /\ Len(s) \in Nat
      /\ \A c : c \in Members(s) <=> \E k \in 1 .. Len(s) : s[k] = c
  BY MembersAre
<1>2. s \in [1 .. Len(s) -> 1 .. n]
  BY <1>1
<1>3. \A j, k \in 1 .. Len(s) : s[j] = s[k] => j = k
  BY <1>1
<1>4. s \in Bijection(1 .. Len(s), 1 .. n)
  BY <1>1, <1>2, <1>3 DEF Bijection, Injection, Surjection, IsInjective
<1>5. Cardinality(1 .. n) = Len(s)
  BY <1>1, <1>4, FS_CountingElements DEF ExistsBijection
<1>6. Cardinality(1 .. n) = n
  BY FS_Interval
<1> QED BY <1>5, <1>6

LEMMA OrderSuffices ==
    ASSUME ToolInv, OrderInv
    PROVE  StepInOrder
<1>1. RunsInItsTurn
  <2>1. SUFFICES ASSUME NEW i \in Invoke, NEW c \in Began(i), NEW d \in Before(i, c)
                 PROVE  /\ plan[i][d].name # AskQuestion
                        /\ calls[i][c] = "running" /\ calls[i][d] = "running" =>
                             /\ plan[i][c].class = plan[i][d].class
                             /\ plan[i][c].class # "serial"
                             /\ plan[i][c].class = "mutation" => plan[i][c].path # plan[i][d].path
    BY DEF RunsInItsTurn
  <2>2. /\ c \in DOMAIN calls[i] /\ calls[i][c] \in Way \cup {"result", "threw"}
        /\ d \in DOMAIN calls[i] /\ d < c /\ Planned(i) /\ Answered(i)
    BY DEF Began, Before, Way, OrderInv, InOrder
  <2>3. plan[i][d].name # AskQuestion
    BY <2>2 DEF Answered
  <2>4. ASSUME calls[i][c] = "running", calls[i][d] = "running"
        PROVE  /\ plan[i][c].class = plan[i][d].class
               /\ plan[i][c].class # "serial"
               /\ plan[i][c].class = "mutation" => plan[i][c].path # plan[i][d].path
    <3>1. at[i] > 0 /\ c \in Group(i) /\ d \in Group(i)
      BY <2>2, <2>4 DEF ToolInv, StepInv, OnTheWay, Way
    <3>2. Together(plan[i], Group(i))
      BY <2>2, <3>1, GroupIs
    <3>3. c # d
      BY <2>2 DEF Planned
    <3> QED BY <3>1, <3>2, <3>3 DEF Together
  <2> QED BY <2>3, <2>4
<1>2. ResultsAreRecorded
  <2>1. SUFFICES ASSUME NEW i \in Invoke
                 PROVE  /\ \A j, k \in DOMAIN rows[i] : j < k => rows[i][j] < rows[i][k]
                        /\ step[i] = "settled" => Len(rows[i]) = Len(plan[i])
                        /\ step[i] = "threw" =>
                             \A c \in DOMAIN calls[i] :
                                 calls[i][c] = "result" => c \in Members(rows[i])
                        /\ at[i] > 0 => \A c \in Group(i) : calls[i][c] \notin Settled =>
                             \A d \in Before(i, c) \ Group(i) : d \in Members(rows[i])
    BY <2>1 DEF ResultsAreRecorded, Members
  <2>2. Planned(i) /\ GroupsInTurn(i) /\ Written(i) /\ Ended(i)
    BY DEF OrderInv, InOrder
  <2>3. ASSUME step[i] = "settled" PROVE Len(rows[i]) = Len(plan[i])
    <3>1. Len(plan[i]) \in Nat /\ at[i] \in 0 .. Len(groups[i]) /\ Len(groups[i]) \in Nat
          /\ DOMAIN groups[i] = 1 .. Len(groups[i])
      BY <2>2 DEF Planned, Fit
    <3>2. ASSUME NEW c \in Members(rows[i]) PROVE c \in 1 .. Len(plan[i])
      <4>1. PICK g \in 1 .. at[i] : c \in Members(groups[i][g])
        BY <2>2 DEF Written
      <4>2. g \in DOMAIN groups[i]
        BY <3>1
      <4> QED BY <2>2, <4>1, <4>2 DEF Planned, Fit
    <3>3. Members(rows[i]) = 1 .. Len(plan[i])
      BY <2>2, <2>3, <3>2 DEF Ended
    <3> QED BY <2>2, <3>1, <3>3, RowsAreCounted DEF Written
  <2>4. ASSUME at[i] > 0, NEW c \in Group(i), NEW d \in Before(i, c) \ Group(i)
        PROVE  d \in Members(rows[i])
    <3>1. at[i] \in 1 .. Len(groups[i]) /\ c \in Members(groups[i][at[i]])
          /\ d \in DOMAIN calls[i] /\ d < c
      BY <2>2, <2>4, GroupIs DEF Before
    <3>2. PICK g \in 1 .. Len(groups[i]) : d \in Members(groups[i][g])
      BY <2>2, <3>1, InAGroup
    <3>3. g <= at[i]
      BY <2>2, <3>1, <3>2, GroupOrder
    <3>4. g # at[i]
      BY <2>4, <3>2 DEF Group, Members
    <3>5. g < at[i]
      BY <3>1, <3>2, <3>3, <3>4
    <3> QED BY <2>2, <3>2, <3>5 DEF GroupsInTurn
  <2> QED BY <2>2, <2>3, <2>4 DEF Written, Ended
<1> QED BY <1>1, <1>2 DEF StepInOrder

\* Whatever calls the model makes and however they come back, fail, throw or are stopped: what the
\* model wrote before the user answered does not run after it, no two calls at once touch one file,
\* and the results are on disk in the order of the calls, before a call of a later group begins.
THEOREM StepsGoInOrder == Spec => []StepInOrder
<1>1. ToolInv /\ OrderInv => StepInOrder
  BY OrderSuffices
<1> QED
  BY <1>1, OrderInvHolds, PTL
=============================================================================
