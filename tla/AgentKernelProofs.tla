------------------------- MODULE AgentKernelProofs -------------------------
(***************************************************************************)
(* The safety of the agent kernel, and of the shadow that replays a live   *)
(* run on it, for every number of call slots, task slots and task          *)
(* identities and for every live-task limit.  The shadow is the second     *)
(* part.                                                                   *)
(*                                                                         *)
(* The properties lean on one another: ToolSettle, TaskWaitTimeout and     *)
(* TaskWaitDeliver set round_due without looking at the turn, so           *)
(* IdleIsQuiescent needs CallsInRound and WaitsInRound; TaskWaitDeliver     *)
(* takes a result without touching the wake snapshot, so                   *)
(* WakeFoldsAreFoldable needs WaitsInRound.  Their conjunction Inv is       *)
(* inductive; no single one of the last four is.                           *)
(***************************************************************************)
EXTENDS AgentKernelHistory, KernelShadow, FiniteSetTheorems, TLAPS

\* Everything but the limit: the part that needs no cardinalities.
Structure ==
  /\ TypeOK
  /\ CallsInRound
  /\ FreshOnlyAllowed
  /\ WaitsInRound
  /\ IdleIsQuiescent
  /\ WakeFoldsAreFoldable

Inv == Structure /\ WithinCapacity

-----------------------------------------------------------------------------
\* A new kernel (Kernel::new) satisfies every structural property.
LEMMA InitStructure == Init => Structure
<1> SUFFICES ASSUME Init PROVE Structure
  OBVIOUS
<1>1. 1 \in TaskIds
  BY ConfigAssumption DEF TaskIds
<1>2. TypeOK
  BY <1>1 DEF Init, TypeOK, TurnPhase, RoundPhase, CallPhase, AgentPhase, CallSlot, AgentSlot
<1>3. CallsInRound /\ FreshOnlyAllowed /\ WaitsInRound
  BY DEF Init, CallsInRound, FreshOnlyAllowed, WaitsInRound
<1>4. IdleIsQuiescent /\ WakeFoldsAreFoldable
  BY DEF Init, IdleIsQuiescent, WakeFoldsAreFoldable
<1> QED  BY <1>2, <1>3, <1>4 DEF Structure

\* Turn, round and steer events keep the structure.
LEMMA TurnStepStructure == Structure /\ TurnStep => Structure'
<1> SUFFICES ASSUME Structure, TurnStep PROVE Structure'
  OBVIOUS
<1> USE DEF Structure, TypeOK, CallsInRound, FreshOnlyAllowed, WaitsInRound, IdleIsQuiescent,
            WakeFoldsAreFoldable, DoneAgents, TurnPhase, RoundPhase, CallSlot, AgentSlot
<1>1. CASE TurnStart     BY <1>1 DEF TurnStart, MayTurnStart
<1>2. CASE TurnCancel
  <2>1. /\ agents' \in [Agents -> AgentSlot]
        /\ \A a \in Agents : agents'[a].phase = agents[a].phase /\ ~agents'[a].waited
    BY ZenonT(60), <1>2 DEF TurnCancel, MayTurnCancel
  <2> QED  BY <1>2, <2>1 DEF TurnCancel, MayTurnCancel
<1>3. CASE TurnEnd       BY <1>3 DEF TurnEnd, MayTurnEnd
<1>4. CASE ContextEdit   BY <1>4 DEF ContextEdit, vars
<1>5. CASE RoundStart    BY <1>5 DEF RoundStart, MayRoundStart
<1>6. CASE RoundEnd      BY <1>6 DEF RoundEnd, MayRoundEnd
<1>7. CASE SteerEnqueue  BY <1>7 DEF SteerEnqueue, MaySteerEnqueue
<1>8. CASE SteerJoin     BY <1>8 DEF SteerJoin, MaySteerJoin
<1> QED  BY <1>1, <1>2, <1>3, <1>4, <1>5, <1>6, <1>7, <1>8 DEF TurnStep

\* The events of one tool call keep the structure.
LEMMA CallStepStructure ==
  ASSUME Structure, NEW c \in Calls, ToolAllow(c) \/ ToolApprove(c) \/ CallStep(c)
  PROVE  Structure'
<1> USE DEF Structure, TypeOK, CallsInRound, FreshOnlyAllowed, WaitsInRound, IdleIsQuiescent,
            WakeFoldsAreFoldable, DoneAgents, CallPhase, CallSlot, SetCall, turnVars
<1>1. ASSUME NEW d \in BOOLEAN, ToolRequest(c, d) PROVE Structure'
  BY <1>1 DEF ToolRequest, MayToolRequest
<1>2. CASE ToolAllow(c)      BY <1>2 DEF ToolAllow, MayToolAllow
<1>3. CASE ToolApprove(c)    BY <1>3 DEF ToolApprove, MayToolApprove
<1>4. CASE ToolDeny(c)       BY <1>4 DEF ToolDeny, MayToolDeny
<1>5. CASE ToolExecStart(c)  BY ZenonT(60), <1>5 DEF ToolExecStart, MayToolExecStart
<1>6. CASE ToolExecEnd(c)    BY <1>6 DEF ToolExecEnd, MayToolExecEnd
<1>7. CASE ToolSettle(c)     BY <1>7 DEF ToolSettle, MayToolSettle
<1> QED  BY <1>1, <1>2, <1>3, <1>4, <1>5, <1>6, <1>7 DEF CallStep

\* Tightening the policy keeps the structure.
LEMMA TightenStructure == Structure /\ PolicyTighten => Structure'
<1> SUFFICES ASSUME Structure, PolicyTighten PROVE Structure'
  OBVIOUS
<1> USE DEF Structure, TypeOK
<1>1. /\ calls' \in [Calls -> CallSlot]
      /\ \A c \in Calls : calls'[c].phase = calls[c].phase /\ ~calls'[c].fresh
  BY DEF PolicyTighten, CallSlot
<1> QED
  BY <1>1 DEF PolicyTighten, CallsInRound, FreshOnlyAllowed, WaitsInRound, IdleIsQuiescent,
              WakeFoldsAreFoldable, DoneAgents, turnVars

\* The events of one task keep the structure.
LEMMA TaskStepStructure ==
  ASSUME Structure, NEW a \in Agents, NEW r \in TaskIds, TaskStep(a, r)
  PROVE  Structure'
<1> USE DEF Structure, TypeOK, CallsInRound, FreshOnlyAllowed, WaitsInRound, IdleIsQuiescent,
            WakeFoldsAreFoldable, DoneAgents, AgentPhase, AgentSlot, SetAgent, turnVars
<1>1. ASSUME NEW c \in Calls, ToolBackground(c, a, r) PROVE Structure'
  BY ZenonT(60), <1>1 DEF ToolBackground, SetCall, CallPhase, CallSlot, MayToolBackground
<1>2. CASE AgentSpawn(a, r)       BY <1>2 DEF AgentSpawn, MayAgentSpawn
<1>3. CASE AgentComplete(a, r)    BY <1>3 DEF AgentComplete, MayAgentComplete
<1>4. CASE AgentFold(a, r)        BY <1>4 DEF AgentFold, MayAgentFold
<1>5. CASE TaskWait(a, r)         BY ZenonT(60), <1>5 DEF TaskWait, MayTaskWait
<1>6. CASE TaskWaitTimeout(a, r)  BY <1>6 DEF TaskWaitTimeout, MayTaskWaitTimeout
<1>7. CASE TaskWaitDeliver(a, r)  BY <1>7 DEF TaskWaitDeliver, MayTaskWaitDeliver
<1> QED  BY <1>1, <1>2, <1>3, <1>4, <1>5, <1>6, <1>7 DEF TaskStep

\* Every event keeps the structure.
LEMMA StructureStep == Structure /\ [Next]_vars => Structure'
<1> SUFFICES ASSUME Structure, [Next]_vars PROVE Structure'
  OBVIOUS
<1>1. CASE UNCHANGED vars
  BY <1>1 DEF vars, Structure, TypeOK, CallsInRound, FreshOnlyAllowed, WaitsInRound,
              IdleIsQuiescent, WakeFoldsAreFoldable, DoneAgents
<1>2. CASE Next
  BY <1>2, TurnStepStructure, CallStepStructure, TightenStructure, TaskStepStructure DEF Next
<1> QED  BY <1>1, <1>2

-----------------------------------------------------------------------------
(* The live-task limit.  A step either starts one task below the limit or   *)
(* starts none, and a set of running tasks that does not grow stays within  *)
(* it.                                                                      *)

\* The running tasks can be counted.
LEMMA RunningIsFinite == IsFiniteSet(RunningAgents) /\ Cardinality(RunningAgents) \in Nat
  BY ConfigAssumption, FS_Subset, FS_CardinalityType DEF RunningAgents

\* A step that starts no task keeps the limit.
LEMMA NoNewTaskKeepsLimit ==
  ASSUME WithinCapacity, RunningAgents' \subseteq RunningAgents
  PROVE  WithinCapacity'
<1>1. Cardinality(RunningAgents') <= Cardinality(RunningAgents) /\ Cardinality(RunningAgents') \in Nat
  BY RunningIsFinite, FS_Subset, FS_CardinalityType
<1> QED  BY <1>1, RunningIsFinite, ConfigAssumption DEF WithinCapacity

\* A step that starts one task below the limit keeps it.
LEMMA OneTaskBelowLimitKeepsLimit ==
  ASSUME NEW a, Cardinality(RunningAgents) < MaxLiveAgents, RunningAgents' = RunningAgents \cup {a}
  PROVE  WithinCapacity'
<1>1. Cardinality(RunningAgents \cup {a}) =
        IF a \in RunningAgents THEN Cardinality(RunningAgents) ELSE Cardinality(RunningAgents) + 1
  BY RunningIsFinite, FS_AddElement
<1>2. Cardinality(RunningAgents') \in Nat /\ Cardinality(RunningAgents') <= Cardinality(RunningAgents) + 1
  BY <1>1, RunningIsFinite
<1> QED  BY <1>1, <1>2, RunningIsFinite, ConfigAssumption DEF WithinCapacity

\* Every event keeps the limit; spawns and handoffs test it first.
LEMMA CapacityStep == TypeOK /\ WithinCapacity /\ [Next]_vars => WithinCapacity'
<1> SUFFICES ASSUME TypeOK, WithinCapacity, [Next]_vars PROVE WithinCapacity'
  OBVIOUS
<1> USE DEF TypeOK, AgentSlot
<1>1. CASE \E a \in Agents, r \in TaskIds : AgentSpawn(a, r) \/ \E c \in Calls : ToolBackground(c, a, r)
  <2>1. PICK a \in Agents, r \in TaskIds :
            AgentSpawn(a, r) \/ \E c \in Calls : ToolBackground(c, a, r)
    BY <1>1
  <2>2. Cardinality(RunningAgents) < MaxLiveAgents
    BY <2>1 DEF AgentSpawn, ToolBackground, MayAgentSpawn, MayToolBackground
  <2>3. RunningAgents' = RunningAgents \cup {a}
    BY ZenonT(60), <2>1 DEF AgentSpawn, ToolBackground, SetAgent, RunningAgents, MayAgentSpawn,
                            MayToolBackground
  <2> QED  BY <2>2, <2>3, OneTaskBelowLimitKeepsLimit
<1>2. CASE UNCHANGED agents
  BY <1>2, NoNewTaskKeepsLimit DEF RunningAgents
<1>3. CASE TurnCancel
  BY <1>3, NoNewTaskKeepsLimit DEF TurnCancel, RunningAgents, MayTurnCancel
<1>4. CASE \E a \in Agents, r \in TaskIds :
             \/ AgentComplete(a, r) \/ AgentFold(a, r) \/ TaskWait(a, r)
             \/ TaskWaitTimeout(a, r) \/ TaskWaitDeliver(a, r)
  <2>1. PICK a \in Agents, r \in TaskIds :
             \/ AgentComplete(a, r) \/ AgentFold(a, r) \/ TaskWait(a, r)
             \/ TaskWaitTimeout(a, r) \/ TaskWaitDeliver(a, r)
    BY <1>4
  <2>2. \A b \in Agents : agents'[b].phase = "Running" => agents[b].phase = "Running"
    <3> USE DEF SetAgent
    <3>1. CASE AgentComplete(a, r)    BY <3>1 DEF AgentComplete, MayAgentComplete
    <3>2. CASE AgentFold(a, r)        BY <3>2 DEF AgentFold, MayAgentFold
    <3>3. CASE TaskWait(a, r)         BY <3>3 DEF TaskWait, MayTaskWait
    <3>4. CASE TaskWaitTimeout(a, r)  BY <3>4 DEF TaskWaitTimeout, MayTaskWaitTimeout
    <3>5. CASE TaskWaitDeliver(a, r)  BY <3>5 DEF TaskWaitDeliver, MayTaskWaitDeliver
    <3> QED  BY <2>1, <3>1, <3>2, <3>3, <3>4, <3>5
  <2> QED  BY <2>2, NoNewTaskKeepsLimit DEF RunningAgents
<1>5. TurnStep \/ PolicyTighten => TurnCancel \/ UNCHANGED agents
  BY DEF TurnStep, TurnStart, TurnEnd, ContextEdit, RoundStart, RoundEnd, SteerEnqueue,
         SteerJoin, PolicyTighten, vars, MayTurnStart, MayTurnEnd, MayRoundStart, MayRoundEnd,
         MaySteerEnqueue, MaySteerJoin
<1>6. (\E c \in Calls : ToolAllow(c) \/ ToolApprove(c) \/ CallStep(c)) => UNCHANGED agents
  BY DEF CallStep, ToolRequest, ToolAllow, ToolApprove, ToolDeny, ToolExecStart, ToolExecEnd,
         ToolSettle, MayToolRequest, MayToolAllow, MayToolApprove, MayToolDeny, MayToolExecStart,
         MayToolExecEnd, MayToolSettle
<1> QED  BY <1>1, <1>2, <1>3, <1>4, <1>5, <1>6 DEF Next, TaskStep, vars

-----------------------------------------------------------------------------
\* A new kernel (Kernel::new) satisfies Inv: nothing runs yet.
LEMMA KernelStarts == Init => Inv
<1>1. Init => RunningAgents = {}
  BY DEF Init, RunningAgents
<1> QED  BY <1>1, InitStructure, FS_EmptySet, ConfigAssumption DEF Inv, WithinCapacity

(* The kernel never leaves Inv: the arms of `step` that omit the round, the *)
(* turn or the phase guard are entitled to.                                 *)
THEOREM KernelInvariant == Spec => []Inv
<1>1. Inv /\ [Next]_vars => Inv'
  BY StructureStep, CapacityStep DEF Inv, Structure
<1> QED  BY <1>1, KernelStarts, PTL DEF Spec

(* Every field of the kernel's state keeps its Rust type.                   *)
THEOREM KernelTypeCorrect == Spec => []TypeOK
<1>1. Inv => TypeOK
  BY DEF Inv, Structure
<1> QED  BY <1>1, KernelInvariant, PTL

(* `ToolExecStart` checks freshness alone; a fresh grant is always that of  *)
(* an allowed call, so nothing executes that was not granted.               *)
THEOREM KernelFreshOnlyAllowed == Spec => []FreshOnlyAllowed
<1>1. Inv => FreshOnlyAllowed
  BY DEF Inv, Structure
<1> QED  BY <1>1, KernelInvariant, PTL

(* Nothing of a turn survives it but its tasks, a steer and the snapshot.   *)
THEOREM KernelIdleIsQuiescent == Spec => []IdleIsQuiescent
<1>1. Inv => IdleIsQuiescent
  BY DEF Inv, Structure
<1> QED  BY <1>1, KernelInvariant, PTL

(* The wake snapshot never holds a slot that `AgentFold` can no longer      *)
(* clear, so it cannot block `RoundStart` for ever.                         *)
THEOREM KernelWakeFoldsAreFoldable == Spec => []WakeFoldsAreFoldable
<1>1. Inv => WakeFoldsAreFoldable
  BY DEF Inv, Structure
<1> QED  BY <1>1, KernelInvariant, PTL

(* Spawns and handoffs together never pass max_live_agents.                 *)
THEOREM KernelWithinCapacity == Spec => []WithinCapacity
<1>1. Inv => WithinCapacity
  BY DEF Inv
<1> QED  BY <1>1, KernelInvariant, PTL

(* After a cancellation no call is requested, granted or executed and no    *)
(* task starts before the turn is over.                                     *)
THEOREM KernelCancelStopsNewWork == Spec => CancelStopsNewWork
<1> DEFINE Quiet ==
      turn = "Cancelling" =>
       /\ \A c \in Calls :
            calls'[c].phase # calls[c].phase => calls'[c].phase \in {"Unused", "Done"}
       /\ \A a \in Agents : agents'[a].phase = "Running" => agents[a].phase = "Running"
<1>1. Inv /\ [Next]_vars => [Quiet]_vars
  <2> SUFFICES ASSUME Inv, Next, turn = "Cancelling"
               PROVE  /\ \A c \in Calls :
                           calls'[c].phase # calls[c].phase => calls'[c].phase \in {"Unused", "Done"}
                      /\ \A a \in Agents : agents'[a].phase = "Running" => agents[a].phase = "Running"
    OBVIOUS
  <2> USE DEF Inv, Structure, TypeOK, CallSlot, AgentSlot
  <2>1. CASE TurnStep
    BY <2>1 DEF TurnStep, TurnStart, TurnCancel, TurnEnd, ContextEdit, RoundStart, RoundEnd,
                SteerEnqueue, SteerJoin, vars, MayTurnStart, MayTurnCancel, MayTurnEnd,
                MayRoundStart, MayRoundEnd, MaySteerEnqueue, MaySteerJoin
  <2>2. CASE PolicyTighten
    BY <2>2 DEF PolicyTighten
  <2>3. CASE \E c \in Calls : ToolAllow(c) \/ ToolApprove(c) \/ CallStep(c)
    <3>1. PICK c \in Calls : ToolExecEnd(c) \/ ToolSettle(c)
      BY <2>3 DEF CallStep, ToolRequest, ToolAllow, ToolApprove, ToolDeny, ToolExecStart,
                  MayToolRequest, MayToolAllow, MayToolApprove, MayToolDeny, MayToolExecStart
    <3> QED  BY ZenonT(60), <3>1 DEF ToolExecEnd, ToolSettle, SetCall, MayToolExecEnd, MayToolSettle
  <2>4. CASE \E a \in Agents, r \in TaskIds : TaskStep(a, r)
    <3>1. PICK a \in Agents, r \in TaskIds :
             AgentComplete(a, r) \/ TaskWaitTimeout(a, r) \/ TaskWaitDeliver(a, r)
      BY <2>4 DEF TaskStep, ToolBackground, AgentSpawn, AgentFold, TaskWait, MayToolBackground,
                  MayAgentSpawn, MayAgentFold, MayTaskWait
    <3> QED  BY ZenonT(60), <3>1 DEF AgentComplete, TaskWaitTimeout, TaskWaitDeliver, SetAgent,
                                     MayAgentComplete, MayTaskWaitTimeout, MayTaskWaitDeliver
  <2> QED  BY <2>1, <2>2, <2>3, <2>4 DEF Next
<1> QED  BY <1>1, KernelInvariant, PTL DEF Spec, CancelStopsNewWork

-----------------------------------------------------------------------------
(* Authority and sight: the two claims over the history of a run.  The       *)
(* history variables observe the kernel, so Inv holds beside them.           *)

Authorised(c) == authority[c] = IF calls[c].danger THEN "user" ELSE "host"

\* A grant that is still open carries its authority too: ToolExecStart looks at
\* `fresh` only.
GrantsAuthorised ==
  /\ authority \in [Calls -> {"nobody", "host", "user"}]
  /\ \A c \in Calls : calls[c].fresh \/ Begun(c) => Authorised(c)

\* While a turn runs, what the model has not seen keeps a round due.
UnseenIsDue == unseen \in BOOLEAN /\ (unseen => turn # "Idle" /\ (turn = "Running" => round_due))

\* A step with its observers is a step of the kernel.
LEMMA HistoryStep == [HNext]_hvars => [Next]_vars
  BY DEF HNext, hvars, Next

\* The kernel's invariant holds beside the history variables.
LEMMA HistoryInvariant == HSpec => []Inv
<1>1. HSpec => Spec
  BY HistoryStep, PTL DEF HSpec, HInit, Spec
<1> QED  BY <1>1, KernelInvariant, PTL

\* Only a grant, a tightening or the end of a call changes what it was granted.
LEMMA AuthorityStep == Structure /\ GrantsAuthorised /\ [HNext]_hvars => GrantsAuthorised'
<1> SUFFICES ASSUME Structure, GrantsAuthorised, [HNext]_hvars PROVE GrantsAuthorised'
  OBVIOUS
<1> USE DEF Structure, TypeOK, CallSlot, GrantsAuthorised, Authorised, Begun
<1>1. CASE UNCHANGED hvars
  BY <1>1 DEF hvars, vars
<1>2. ASSUME NEW c \in Calls, ToolAllow(c), GrantedBy(c, "host") PROVE GrantsAuthorised'
  BY <1>2 DEF ToolAllow, GrantedBy, SetCall, MayToolAllow
<1>3. ASSUME NEW c \in Calls, ToolApprove(c), GrantedBy(c, "user") PROVE GrantsAuthorised'
  BY <1>3 DEF ToolApprove, GrantedBy, SetCall, MayToolApprove
<1>4. ASSUME PolicyTighten, authority' = [c \in Calls |-> IF Begun(c) THEN authority[c] ELSE "nobody"]
      PROVE  GrantsAuthorised'
  BY <1>4 DEF PolicyTighten
<1>5. ASSUME NEW c \in Calls, CallStep(c),
             authority' = [authority EXCEPT ![c] = IF calls'[c].phase = "Unused" THEN "nobody" ELSE @]
      PROVE  GrantsAuthorised'
  <2>1. \A b \in Calls \ {c} : calls'[b] = calls[b] /\ authority'[b] = authority[b]
    BY <1>5 DEF CallStep, ToolRequest, ToolDeny, ToolExecStart, ToolExecEnd, ToolSettle, SetCall,
                MayToolRequest, MayToolDeny, MayToolExecStart, MayToolExecEnd, MayToolSettle
  <2>2. calls' \in [Calls -> CallSlot] /\ authority' \in [Calls -> {"nobody", "host", "user"}]
    <3>1. Structure'
      BY <1>5, CallStepStructure
    <3> QED  BY <1>5, <3>1
  <2>3. calls'[c].fresh \/ Begun(c)' => Authorised(c)'
    <3>1. ASSUME NEW d \in BOOLEAN, ToolRequest(c, d)
          PROVE  calls'[c].fresh \/ Begun(c)' => Authorised(c)'
      BY <3>1 DEF ToolRequest, SetCall, MayToolRequest
    <3>2. CASE ToolDeny(c)       BY <3>2 DEF ToolDeny, SetCall, MayToolDeny
    <3>3. CASE ToolExecStart(c)  BY <1>5, <3>3 DEF ToolExecStart, SetCall, MayToolExecStart
    <3>4. CASE ToolExecEnd(c)    BY <1>5, <3>4 DEF ToolExecEnd, SetCall, MayToolExecEnd
    <3>5. CASE ToolSettle(c)     BY <3>5 DEF ToolSettle, SetCall, MayToolSettle
    <3> QED  BY <1>5, <3>1, <3>2, <3>3, <3>4, <3>5 DEF CallStep
  <2> QED  BY <2>1, <2>2, <2>3
<1>6. ASSUME TurnStep, UNCHANGED authority PROVE GrantsAuthorised'
  <2>1. UNCHANGED calls
    BY <1>6 DEF TurnStep, TurnStart, TurnCancel, TurnEnd, ContextEdit, RoundStart, RoundEnd,
                SteerEnqueue, SteerJoin, vars, MayTurnStart, MayTurnCancel, MayTurnEnd,
                MayRoundStart, MayRoundEnd, MaySteerEnqueue, MaySteerJoin
  <2> QED  BY <1>6, <2>1
<1>7. ASSUME NEW a \in Agents, NEW r \in TaskIds, TaskStep(a, r), UNCHANGED authority
      PROVE  GrantsAuthorised'
  <2>1. ASSUME NEW c \in Calls, ToolBackground(c, a, r) PROVE GrantsAuthorised'
    BY <1>7, <2>1 DEF ToolBackground, SetCall, MayToolBackground
  <2>2. CASE UNCHANGED calls
    BY <1>7, <2>2
  <2> QED  BY <1>7, <2>1, <2>2 DEF TaskStep, AgentSpawn, AgentComplete, AgentFold, TaskWait,
                  TaskWaitTimeout, TaskWaitDeliver, MayAgentSpawn, MayAgentComplete, MayAgentFold,
                  MayTaskWait, MayTaskWaitTimeout, MayTaskWaitDeliver
<1> QED  BY <1>1, <1>2, <1>3, <1>4, <1>5, <1>6, <1>7 DEF HNext

(* A call runs only if the user, for a dangerous one, or else the host       *)
(* granted it after its request and after the last tightening.               *)
THEOREM KernelExecutionAuthorised == HSpec => []ExecutionAuthorised
<1>1. HInit => GrantsAuthorised
  BY DEF HInit, Init, GrantsAuthorised, Begun
<1>2. Inv => Structure
  BY DEF Inv
<1>3. GrantsAuthorised => ExecutionAuthorised
  BY DEF GrantsAuthorised, Authorised, ExecutionAuthorised
<1> QED  BY <1>1, <1>2, <1>3, AuthorityStep, HistoryInvariant, PTL DEF HSpec

\* What an event hands over in a running turn makes a round due, and it hands
\* nothing over between turns.
LEMMA HandsOverIsDue ==
  ASSUME Structure, Next, HandsOver
  PROVE  turn' # "Idle" /\ (turn' = "Running" => round_due')
<1> USE DEF Structure, TypeOK, CallSlot, AgentSlot, CallsInRound, WaitsInRound
<1>1. CASE TurnStep
  BY <1>1 DEF TurnStep, TurnStart, TurnCancel, TurnEnd, ContextEdit, RoundStart, RoundEnd,
              SteerEnqueue, SteerJoin, vars, HandsOver, MayTurnStart, MayTurnCancel, MayTurnEnd,
              MayRoundStart, MayRoundEnd, MaySteerEnqueue, MaySteerJoin
<1>2. CASE PolicyTighten
  BY <1>2 DEF PolicyTighten, HandsOver, turnVars
<1>3. ASSUME NEW c \in Calls, ToolAllow(c) \/ ToolApprove(c) \/ CallStep(c)
      PROVE  turn' # "Idle" /\ (turn' = "Running" => round_due')
  <2>1. ToolSettle(c)
    <3>1. CASE ToolAllow(c) \/ ToolApprove(c)
      BY <3>1 DEF ToolAllow, ToolApprove, SetCall, HandsOver, turnVars, MayToolAllow, MayToolApprove
    <3>2. CASE ToolDeny(c)       BY <3>2 DEF ToolDeny, SetCall, HandsOver, turnVars, MayToolDeny
    <3>3. CASE ToolExecStart(c)  BY <3>3 DEF ToolExecStart, SetCall, HandsOver, turnVars, MayToolExecStart
    <3>4. CASE ToolExecEnd(c)    BY <3>4 DEF ToolExecEnd, SetCall, HandsOver, turnVars, MayToolExecEnd
    <3>5. ASSUME NEW d \in BOOLEAN, ToolRequest(c, d) PROVE FALSE
      BY <3>5 DEF ToolRequest, SetCall, HandsOver, turnVars, MayToolRequest
    <3> QED  BY <1>3, <3>1, <3>2, <3>3, <3>4, <3>5 DEF CallStep
  <2> QED  BY <2>1 DEF ToolSettle, MayToolSettle
<1>4. ASSUME NEW a \in Agents, NEW r \in TaskIds, TaskStep(a, r)
      PROVE  turn' # "Idle" /\ (turn' = "Running" => round_due')
  <2>1. ASSUME NEW c \in Calls, ToolBackground(c, a, r) PROVE FALSE
    BY <2>1 DEF ToolBackground, SetCall, HandsOver, turnVars, MayToolBackground
  <2>2. CASE AgentSpawn(a, r)       BY <2>2 DEF AgentSpawn, MayAgentSpawn
  <2>3. CASE AgentComplete(a, r)    BY <2>3 DEF AgentComplete, SetAgent, HandsOver, turnVars, MayAgentComplete
  <2>4. CASE AgentFold(a, r)        BY <2>4 DEF AgentFold, MayAgentFold
  <2>5. CASE TaskWait(a, r)         BY <2>5 DEF TaskWait, SetAgent, HandsOver, turnVars, MayTaskWait
  <2>6. CASE TaskWaitTimeout(a, r)  BY <2>6 DEF TaskWaitTimeout, MayTaskWaitTimeout
  <2>7. CASE TaskWaitDeliver(a, r)  BY <2>7 DEF TaskWaitDeliver, MayTaskWaitDeliver
  <2> QED  BY <1>4, <2>1, <2>2, <2>3, <2>4, <2>5, <2>6, <2>7 DEF TaskStep
<1> QED  BY <1>1, <1>2, <1>3, <1>4 DEF Next

\* An obligation is given up by the start of a round and the end of a turn only.
LEMMA DueStays ==
  ASSUME Structure, Next, turn # "Idle", turn = "Running" => round_due
  PROVE  \/ turn' # "Idle" /\ (turn' = "Running" => round_due')
         \/ round = "Prep" /\ round' = "InRound"
         \/ turn = "Cancelling" /\ turn' = "Idle"
<1>1. CASE TurnStep
  BY <1>1 DEF Structure, TypeOK, TurnPhase, TurnStep, TurnStart, TurnCancel, TurnEnd, ContextEdit,
              RoundStart, RoundEnd, SteerEnqueue, SteerJoin, vars, MayTurnStart, MayTurnCancel,
              MayTurnEnd, MayRoundStart, MayRoundEnd, MaySteerEnqueue, MaySteerJoin
<1>2. CASE PolicyTighten
  BY <1>2 DEF PolicyTighten, turnVars
<1>3. ASSUME NEW c \in Calls, ToolAllow(c) \/ ToolApprove(c) \/ CallStep(c)
      PROVE  turn' # "Idle" /\ (turn' = "Running" => round_due')
  BY <1>3 DEF ToolAllow, ToolApprove, CallStep, ToolRequest, ToolDeny, ToolExecStart, ToolExecEnd,
              ToolSettle, turnVars, MayToolAllow, MayToolApprove, MayToolRequest, MayToolDeny,
              MayToolExecStart, MayToolExecEnd, MayToolSettle
<1>4. ASSUME NEW a \in Agents, NEW r \in TaskIds, TaskStep(a, r)
      PROVE  turn' # "Idle" /\ (turn' = "Running" => round_due')
  BY <1>4 DEF TaskStep, ToolBackground, AgentSpawn, AgentComplete, AgentFold, TaskWait,
              TaskWaitTimeout, TaskWaitDeliver, turnVars, MayToolBackground, MayAgentSpawn,
              MayAgentComplete, MayAgentFold, MayTaskWait, MayTaskWaitTimeout, MayTaskWaitDeliver
<1> QED  BY <1>1, <1>2, <1>3, <1>4 DEF Next

(* No turn ends normally with a receipt, a result, a withdrawn wait or a     *)
(* steer that no model round has seen.                                       *)
THEOREM KernelNothingUnseenWhenIdle == HSpec => []NothingUnseenWhenIdle
<1>1. HInit => UnseenIsDue
  BY DEF HInit, UnseenIsDue
<1>2. Inv /\ UnseenIsDue /\ [HNext]_hvars => UnseenIsDue'
  <2> SUFFICES ASSUME Structure, UnseenIsDue, [HNext]_hvars PROVE UnseenIsDue'
    BY DEF Inv
  <2>1. CASE UNCHANGED hvars
    BY <2>1 DEF hvars, vars, UnseenIsDue
  <2>2. CASE HNext
    <3>1. Next /\ Observe
      BY <2>2 DEF HNext, Next
    <3>2. unseen' \in BOOLEAN
      BY <3>1 DEF Observe, UnseenIsDue, HandsOver
    <3>3. CASE ~unseen'
      BY <3>2, <3>3 DEF UnseenIsDue
    <3>4. CASE unseen'
      <4>1. unseen \/ HandsOver
        BY <3>1, <3>4 DEF Observe
      <4>2. /\ ~(round = "Prep" /\ round' = "InRound")
            /\ ~(turn = "Cancelling" /\ turn' = "Idle")
        BY <3>1, <3>4 DEF Observe
      <4> QED  BY <3>1, <3>2, <4>1, <4>2, HandsOverIsDue, DueStays DEF UnseenIsDue
    <3> QED  BY <3>2, <3>3, <3>4
  <2> QED  BY <2>1, <2>2
<1>3. UnseenIsDue => NothingUnseenWhenIdle
  BY DEF UnseenIsDue, NothingUnseenWhenIdle
<1> QED  BY <1>1, <1>2, <1>3, HistoryInvariant, PTL DEF HSpec

(***************************************************************************)
(* The shadow of a run for every number of call and task slots, of call    *)
(* and task identities and names, and every live-task limit.               *)
(*                                                                         *)
(* The properties speak of moments between two reports, but an event is    *)
(* refused or taken in the middle of one.  The invariant is therefore a    *)
(* proof outline: for each point of the host, what is still ahead to be    *)
(* fed (script, lanes, closing) and what the kernel looks like then.  Feed *)
(* keeps it event by event, the host's steps set up the next reports.      *)
(* A call that was handed off and lost its receipt in an abort             *)
(* ("stranded") is outside of it: the shadow then has no account of a slot *)
(* the kernel keeps.  That the shadow drives the kernel by kernel steps    *)
(* only holds even then and has an invariant of its own (InScope).         *)
(***************************************************************************)
-----------------------------------------------------------------------------
(* The proof outline of the shadow: what may still be ahead of each point of *)
(* the host, and what the kernel then looks like.                            *)

Slots(S) == {x.slot : x \in S}

CompleteLane(a, r)  == <<<<"AgentComplete", a, r>>>>
FoldLane(a, r)      == <<<<"AgentFold", a, r>>>>
LateFoldLane(a, r)  == <<<<"AgentComplete", a, r>>, <<"AgentFold", a, r>>>>
WaitLane(a, r)      == <<<<"TaskWait", a, r>>>>
DeliverLane(a, r)   == <<<<"TaskWaitDeliver", a, r>>>>
ClaimLane(a, r)     == <<<<"AgentComplete", a, r>>, <<"TaskWaitDeliver", a, r>>>>
TimeoutLane(a, r)   == <<<<"TaskWaitTimeout", a, r>>>>
SpawnScript(a, r)   == <<<<"AgentSpawn", a, r>>>>
HandScript(c, a, r) == <<<<"ToolBackground", c, a, r>>>>
SettleLane(c)       == <<<<"ToolSettle", c>>>>
EndLane(c)          == <<<<"ToolExecEnd", c>>, <<"ToolSettle", c>>>>

CompleteLanes == {CompleteLane(a, r) : a \in Agents, r \in TaskIds}
FoldLanes     == {FoldLane(a, r) : a \in Agents, r \in TaskIds}
                   \cup {LateFoldLane(a, r) : a \in Agents, r \in TaskIds}
WaitLanes     == {WaitLane(a, r) : a \in Agents, r \in TaskIds}
ClaimLanes    == {DeliverLane(a, r) : a \in Agents, r \in TaskIds}
                   \cup {ClaimLane(a, r) : a \in Agents, r \in TaskIds}
TimeoutLanes  == {TimeoutLane(a, r) : a \in Agents, r \in TaskIds}
SpawnScripts  == {SpawnScript(a, r) : a \in Agents, r \in TaskIds}
HandScripts   == {HandScript(c, a, r) : c \in Calls, a \in Agents, r \in TaskIds}
SweepLanes    == {SettleLane(c) : c \in Calls} \cup {EndLane(c) : c \in Calls}

\* The scripts and lanes still ahead.
Ahead == (lanes \cup {script}) \ {<<>>}
Apart == script \notin lanes /\ <<>> \notin lanes
InStep == gaps = {}

-----------------------------------------------------------------------------
(* The host and the shadow's books *)

\* Who may have calls and waits open, and that calls and entries match.
Ledger ==
  /\ host \in {"idle", "head", "fold", "prep", "round", "batch", "waiting", "drained", "abort",
               "aborted", "exit", "ended"}
  /\ watched # {} => host \in {"waiting", "drained"}
  /\ open # {} => host \in {"batch", "waiting", "drained", "abort"}
  /\ open \subseteq [id : CallIds, danger : BOOLEAN, denied : BOOLEAN, hook : BOOLEAN,
                     verdict : {"unasked", "granted", "refused"}, parked : BOOLEAN, handed : BOOLEAN]
  /\ entries \subseteq [id : CallIds, slot : Calls, danger : BOOLEAN,
                        outcome : {"none", "granted", "refused"}]
  /\ \A j, k \in open : j.id = k.id \/ (~j.parked /\ ~k.parked) => j = k
  /\ \A e, f \in entries : e.id = f.id \/ e.slot = f.slot => e = f
  /\ \A e \in entries : \E k \in open : k.id = e.id
  /\ \A k \in open : k.id \in unmapped \/ \E e \in entries : e.id = k.id
  /\ \A e \in entries : e.id \notin unmapped
  /\ \A i \in unmapped : \E k \in open : k.id = i

\* The entry of a call says of it what the host knows.
Known(e, k) ==
  /\ e.danger = k.danger
  /\ k.danger /\ ~k.denied =>
       /\ ~k.parked => prompt = {k.id}
       /\ k.verdict = "granted" => e.outcome = "granted"
       /\ ~k.parked /\ k.verdict = "unasked" => e.outcome = "none"
Verdicts == \A e \in entries, k \in open : e.id = k.id => Known(e, k)

\* The tasks of the pool and the slots they are mapped to.
Tasks ==
  /\ pool \in [Names -> {"absent", "running", "settled", "gone"}]
  /\ IsFiniteSet(mapped)
  /\ mapped \subseteq [name : Names, slot : Agents, rid : TaskIds]
  /\ \A m, n \in mapped : m.slot = n.slot => m = n
  /\ InStep => LiveTasks \cup Undelivered \subseteq {m.name : m \in mapped}

-----------------------------------------------------------------------------
(* Calls *)

\* Out of step the kernel may not know the call.
In(c, S) == calls[c].phase \in S \/ (calls[c].phase = "Unused" /\ ~InStep)

Expected(k) ==
  IF k.denied \/ k.danger THEN {"Requested"}
  ELSE IF k.handed THEN {"Executing", "ExecBg"} ELSE {"Executing"}

\* A call that nothing ahead is about is where the host last left it.
AtRest(c) ==
  /\ \A e \in entries, k \in open : e.slot = c /\ e.id = k.id =>
        /\ In(c, Expected(k))
        /\ calls[c].phase # "Unused" => calls[c].danger = k.danger
  /\ c \notin Slots(entries) => calls[c].phase = "Unused"
Calm == \A c \in Calls : AtRest(c)

\* A call of the batch being opened, with what is left to say of it.
Opening(c, e, k) ==
  /\ e.slot = c /\ e.id = k.id
  /\ \/ /\ script = <<<<"ToolRequest", c, k.danger>>>>
        /\ k.denied \/ k.danger
        /\ calls[c].phase = "Unused"
     \/ /\ script = <<<<"ToolRequest", c, FALSE>>, <<"ToolAllow", c>>, <<"ToolExecStart", c>>>>
        /\ ~k.denied /\ ~k.danger
        /\ calls[c].phase = "Unused"
     \/ /\ script = <<<<"ToolAllow", c>>, <<"ToolExecStart", c>>>>
        /\ ~k.denied /\ ~k.danger
        /\ In(c, {"Requested"})
        /\ calls[c].phase = "Requested" => ~calls[c].danger
     \/ /\ script = <<<<"ToolExecStart", c>>>>
        /\ ~k.denied /\ ~k.danger
        /\ In(c, {"Allowed"})
        /\ calls[c].phase = "Allowed" => calls[c].fresh /\ ~calls[c].danger

\* A call of the batch being resolved: its entry is gone.
Resolving(c) ==
  /\ c \notin Slots(entries)
  /\ \/ /\ script = <<<<"ToolRequest", c, FALSE>>, <<"ToolDeny", c>>, <<"ToolSettle", c>>>>
        /\ calls[c].phase = "Unused"
     \/ /\ script = <<<<"ToolDeny", c>>, <<"ToolSettle", c>>>>
        /\ In(c, {"Requested"})
     \/ /\ script = <<<<"ToolApprove", c>>, <<"ToolExecStart", c>>, <<"ToolExecEnd", c>>, <<"ToolSettle", c>>>>
        /\ In(c, {"Requested"})
        /\ calls[c].phase = "Requested" => calls[c].danger
     \/ /\ script = <<<<"ToolExecStart", c>>, <<"ToolExecEnd", c>>, <<"ToolSettle", c>>>>
        /\ In(c, {"Allowed"})
        /\ calls[c].phase = "Allowed" => calls[c].fresh
     \/ /\ script = EndLane(c)
        /\ In(c, {"Executing", "ExecBg"})
     \/ /\ script = SettleLane(c)
        /\ In(c, {"Denied", "Done"})

\* The one call the script is about; the others are at rest.
Busy(c) ==
  /\ Resolving(c) \/ \E e \in entries, k \in open : Opening(c, e, k)
  /\ \A d \in Calls \ {c} : AtRest(d)

\* A call during the sweep of an abort is settled by what is ahead.
Swept(c) ==
  /\ EndLane(c) \in Ahead => calls[c].phase = "Executing"
  /\ SettleLane(c) \in Ahead => In(c, {"Requested", "Done"})
  /\ calls[c].phase # "Unused" => SettleLane(c) \in Ahead \/ EndLane(c) \in Ahead

-----------------------------------------------------------------------------
(* Tasks *)

Holds(a, r, phase) == agents[a].phase = phase /\ agents[a].rid = r
Tracked(m) == agents[m.slot].phase # "None" /\ agents[m.slot].rid = m.rid
AllMapped == \A a \in Agents : agents[a].phase # "None" => a \in Slots(mapped)
AllTracked == AllMapped /\ \A m \in mapped : Tracked(m)
NoneDone == \A a \in Agents : agents[a].phase # "Done"
NoneWaited == \A a \in Agents : ~agents[a].waited
DoneIsSettled == \A m \in mapped : Done(m) => pool[m.name] = "settled"
Quiet == AllTracked /\ NoneDone /\ NoneWaited /\ ~steer_pending

\* Only running tasks that have settled are about to be reported.
Completing == \A a \in Agents, r \in TaskIds :
  CompleteLane(a, r) \in Ahead =>
    /\ Holds(a, r, "Running")
    /\ \E m \in mapped : m.slot = a /\ m.rid = r /\ pool[m.name] = "settled"

\* A slot that the books have released is about to be folded.
Folding ==
  /\ \A a \in Agents, r \in TaskIds :
       /\ FoldLane(a, r) \in Ahead => Holds(a, r, "Done") /\ a \notin Slots(mapped)
       /\ LateFoldLane(a, r) \in Ahead => Holds(a, r, "Running") /\ a \notin Slots(mapped)
  /\ \A a \in Agents : agents[a].phase # "None" /\ a \notin Slots(mapped) =>
       \E r \in TaskIds : FoldLane(a, r) \in Ahead \/ LateFoldLane(a, r) \in Ahead
  /\ \A m \in mapped : Tracked(m) /\ ~Done(m)

\* A mapped task is waited for unless its wait is still ahead.
Waiting ==
  /\ \A a \in Agents, r \in TaskIds : WaitLane(a, r) \in Ahead =>
       \E m \in mapped : m.slot = a /\ m.rid = r /\ m.name \in watched
  /\ \A m \in mapped :
       agents[m.slot].waited <=> m.name \in watched /\ WaitLane(m.slot, m.rid) \notin Ahead

\* A slot that the books have released is about to be delivered.
Claiming ==
  /\ \A a \in Agents, r \in TaskIds :
       /\ DeliverLane(a, r) \in Ahead =>
            Holds(a, r, "Done") /\ agents[a].waited /\ a \notin Slots(mapped)
       /\ ClaimLane(a, r) \in Ahead =>
            Holds(a, r, "Running") /\ agents[a].waited /\ a \notin Slots(mapped)
  /\ \A a \in Agents : agents[a].phase # "None" /\ a \notin Slots(mapped) =>
       \E r \in TaskIds : DeliverLane(a, r) \in Ahead \/ ClaimLane(a, r) \in Ahead
  /\ \A m \in mapped : Tracked(m) /\ ~Done(m) /\ (agents[m.slot].waited <=> m.name \in watched)

\* The waits still armed are about to be disarmed.
Expiring ==
  /\ \A a \in Agents, r \in TaskIds :
       TimeoutLane(a, r) \in Ahead => Holds(a, r, "Running") /\ agents[a].waited
  /\ \A a \in Agents : agents[a].waited => \E r \in TaskIds : TimeoutLane(a, r) \in Ahead

\* The slot of a task the kernel has not heard of yet.
Unborn(a, r) == script = SpawnScript(a, r) \/ \E c \in Calls : script = HandScript(c, a, r)
Room == Cardinality(RunningAgents) < MaxLiveAgents
\* A slot that is mapped and unknown to the kernel is about to be reported.
Bearing ==
  /\ \A a \in Agents, r \in TaskIds : Unborn(a, r) =>
       /\ agents[a].phase = "None" /\ agents[a].rid # r /\ Room /\ round = "InRound"
       /\ a \in Slots(mapped)
  /\ \A c \in Calls, a \in Agents, r \in TaskIds : script = HandScript(c, a, r) => calls[c].phase = "Executing"
  /\ \A m \in mapped : Tracked(m) \/ Unborn(m.slot, m.rid)
  /\ AllMapped

-----------------------------------------------------------------------------
(* The points of the host *)

Cancelling == script = <<<<"TurnCancel">>>>
Joining == script = <<<<"SteerJoin">>>>
Steering == script = Steer \/ Joining
Ending == IF round = "InRound" THEN <<<<"RoundEnd">>, <<"TurnEnd">>>> ELSE <<<<"TurnEnd">>>>

\* No turn, or the rest of one that is closing.
AtIdle ==
  /\ Calm /\ lanes = {}
  /\ \/ Between /\ turn # "Cancelling"
     \/ /\ turn # "Idle"
        /\ \/ closing = Ending /\ (script = <<>> \/ (Cancelling /\ turn = "Running"))
           \/ closing = <<>> /\ script = <<<<"RoundEnd">>, <<"TurnEnd">>>> /\ round = "InRound"
           \/ closing = <<>> /\ script = <<<<"TurnEnd">>>> /\ (turn = "Cancelling" \/ InStep => round = "Prep")
  /\ InStep =>
       /\ AllTracked /\ DoneIsSettled /\ NoneWaited /\ ~steer_pending
       /\ Between => turn = "Idle"
       /\ turn = "Running" => ~round_due /\ NoneDone

\* A turn is beginning, or its loop comes around with a reason to go on.
AtHead ==
  /\ Calm
  /\ \/ /\ turn # "Cancelling"
        /\ \/ closing = <<<<"TurnStart">>>> /\ Ahead \subseteq CompleteLanes
           \/ closing = <<>> /\ lanes = {} /\ script = <<<<"TurnStart">>>>
     \/ Between /\ turn = "Running"
  /\ InStep =>
       /\ AllTracked /\ DoneIsSettled /\ NoneWaited /\ ~steer_pending
       /\ ~Between => turn = "Idle"
       /\ Between => round_due \/ injection \/ mailbox \/ Undelivered # {}
       /\ Apart /\ Completing

\* A final answer or an ended batch: the round closes, a steer may join.
AtFold ==
  /\ Calm /\ turn = "Running" /\ lanes = {}
  /\ \/ script \in {<<>>, <<<<"RoundEnd">>>>} /\ closing \in {<<>>, Steer}
     \/ Steering /\ closing = <<>>
  /\ InStep =>
       /\ AllTracked /\ DoneIsSettled /\ NoneWaited
       /\ steer_pending <=> Joining
       /\ round = "InRound" <=> script = <<<<"RoundEnd">>>>
       /\ round_due \/ injection \/ Undelivered # {} \/ Steering \/ closing = Steer

\* The boundary has taken results and reports each of them.
AtPrep ==
  /\ Calm /\ turn = "Running" /\ closing = <<>>
  /\ Ahead \subseteq FoldLanes
  /\ InStep =>
       /\ NoneWaited /\ ~steer_pending /\ Apart /\ Folding
       /\ round = "Prep"
       /\ round_due \/ injection \/ Ahead # {}

\* A steer joins, a round starts, the model answers.
AtRound ==
  /\ Calm /\ turn = "Running" /\ lanes = {}
  /\ \/ closing = <<<<"RoundStart">>>> /\ (script = <<>> \/ Steering)
     \/ closing = <<>> /\ script \in {<<>>, <<<<"RoundStart">>>>}
  /\ InStep =>
       /\ AllTracked /\ NoneDone /\ NoneWaited
       /\ steer_pending <=> Joining
       /\ Between => round = "InRound" /\ ~round_due
       /\ ~Between => round = "Prep" /\ (round_due \/ Steering)

\* The calls of a round, one of them at work at most.
AtBatch ==
  /\ turn = "Running" /\ closing = <<>> /\ lanes \subseteq TimeoutLanes
  /\ \/ Calm /\ Ahead \subseteq TimeoutLanes \cup SpawnScripts \cup HandScripts
     \/ lanes = {} /\ \E c \in Calls : Busy(c)
  /\ \A c \in Calls, a \in Agents, r \in TaskIds : script = HandScript(c, a, r) =>
       \A e \in entries, k \in open : e.slot = c /\ e.id = k.id => k.handed
  /\ InStep =>
       /\ NoneDone /\ ~steer_pending /\ Apart /\ Expiring /\ Bearing
       /\ round = "InRound"
       /\ round_due \/ entries # {} \/ \E c \in Calls : Resolving(c)

\* A call waits for tasks.
AtWaiting ==
  /\ Calm /\ turn = "Running" /\ closing = <<>>
  /\ Ahead \subseteq WaitLanes
  /\ InStep =>
       /\ AllTracked /\ NoneDone /\ ~steer_pending /\ Apart /\ Waiting
       /\ round = "InRound"
       /\ round_due \/ entries # {}

\* The wait has claimed results and reports them.
AtDrained ==
  /\ Calm /\ turn = "Running" /\ closing = <<>>
  /\ Ahead \subseteq ClaimLanes
  /\ InStep =>
       /\ ~steer_pending /\ Apart /\ Claiming
       /\ round = "InRound"
       /\ round_due \/ entries # {}

\* The run is about to abort its turn.
AtAbort ==
  /\ Calm /\ turn = "Running" /\ closing = <<>> /\ lanes = {}
  /\ Ahead \subseteq SpawnScripts
  /\ InStep => DoneIsSettled /\ ~steer_pending /\ Bearing

\* The turn is cancelled, the calls are swept, the round closes.
AtAborted ==
  /\ \A c \in Calls : Swept(c)
  /\ Apart
  /\ \/ Cancelling /\ turn = "Running" /\ lanes \subseteq SweepLanes /\ closing = CloseRound
     \/ turn = "Cancelling" /\ Ahead \subseteq SweepLanes /\ closing = CloseRound
     \/ /\ turn = "Cancelling" /\ round = "InRound"
        /\ script = <<<<"RoundEnd">>>> /\ lanes = {} /\ closing = <<>>
  /\ InStep => AllTracked /\ DoneIsSettled /\ ~steer_pending

\* The last boundary was passed with nothing owed.
AtExit ==
  /\ Calm /\ turn = "Running" /\ Between
  /\ InStep => Quiet /\ round = "InRound" /\ ~round_due

\* The run ended by its own account.
AtEnded ==
  /\ Calm /\ turn = "Running" /\ lanes = {} /\ closing = <<>>
  /\ script \in {<<>>, <<<<"RoundEnd">>>>}
  /\ InStep => Quiet /\ ~round_due /\ (round = "InRound" <=> script = <<<<"RoundEnd">>>>)

\* What holds at each point of the host.
Outline ==
  /\ host = "idle" => AtIdle
  /\ host = "head" => AtHead
  /\ host = "fold" => AtFold
  /\ host = "prep" => AtPrep
  /\ host = "round" => AtRound
  /\ host = "batch" => AtBatch
  /\ host = "waiting" => AtWaiting
  /\ host = "drained" => AtDrained
  /\ host = "abort" => AtAbort
  /\ host = "aborted" => AtAborted
  /\ host = "exit" => AtExit
  /\ host = "ended" => AtEnded

\* The kernel, the books, and no refusal while the shadow is in step.
Sane == Inv /\ Ledger /\ Verdicts /\ Tasks /\ (InStep => ~refused)

\* Nothing is claimed of a shadow that lost the receipt of a handed-off call.
ShadowInv ==
  "stranded" \notin gaps => Sane /\ Outline
-----------------------------------------------------------------------------
(* Feeding one event: the kernel takes it, with these effects, or refuses it *)
(* and stays as it is.                                                       *)

OnlyCall(c) == \A d \in Calls : d # c => calls'[d] = calls[d]
OnlyAgent(a) == \A b \in Agents : b # a => agents'[b] = agents[b]
Refusal == refused' /\ UNCHANGED vars

\* A turn starts running and owes a round.
LEMMA FeedTurnStart ==
  ASSUME TypeOK, Do(<<"TurnStart">>)
  PROVE  /\ [Next]_vars
         /\ MayTurnStart => /\ refused' = refused
                            /\ turn' = "Running"
                            /\ round_due'
                            /\ UNCHANGED <<round, steer_pending, calls, agents>>
         /\ ~MayTurnStart => Refusal
<1>1. Offer(MayTurnStart, TurnStart)
  BY DEF Do
<1>2. CASE MayTurnStart
  <2>1. TurnStart /\ refused' = refused
    BY <1>1, <1>2 DEF Offer
  <2>2. Next
    BY <2>1 DEF Next, TurnStep
  <2> QED  BY <1>2, <2>1, <2>2 DEF TurnStart, SetCall, SetAgent, turnVars, TypeOK, CallSlot, AgentSlot, OnlyCall, OnlyAgent
<1>3. CASE ~MayTurnStart
  BY <1>1, <1>3 DEF Offer, Refusal
<1> QED  BY <1>2, <1>3

\* A cancel touches the turn and the waits.
LEMMA FeedTurnCancel ==
  ASSUME TypeOK, Do(<<"TurnCancel">>)
  PROVE  /\ [Next]_vars
         /\ MayTurnCancel => /\ refused' = refused
                             /\ turn' = "Cancelling"
                             /\ \A b \in Agents : agents'[b].phase = agents[b].phase /\ agents'[b].rid = agents[b].rid
                             /\ UNCHANGED <<round, round_due, steer_pending, wake_fold_pending, calls>>
         /\ ~MayTurnCancel => Refusal
<1>1. Offer(MayTurnCancel, TurnCancel)
  BY DEF Do
<1>2. CASE MayTurnCancel
  <2>1. TurnCancel /\ refused' = refused
    BY <1>1, <1>2 DEF Offer
  <2>2. Next
    BY <2>1 DEF Next, TurnStep
  <2> QED  BY <1>2, <2>1, <2>2 DEF TurnCancel, SetCall, SetAgent, turnVars, TypeOK, CallSlot, AgentSlot, OnlyCall, OnlyAgent
<1>3. CASE ~MayTurnCancel
  BY <1>1, <1>3 DEF Offer, Refusal
<1> QED  BY <1>2, <1>3

\* A turn ends.
LEMMA FeedTurnEnd ==
  ASSUME TypeOK, Do(<<"TurnEnd">>)
  PROVE  /\ [Next]_vars
         /\ MayTurnEnd => /\ refused' = refused
                          /\ turn' = "Idle"
                          /\ UNCHANGED <<round, steer_pending, wake_fold_pending, calls, agents>>
         /\ ~MayTurnEnd => Refusal
<1>1. Offer(MayTurnEnd, TurnEnd)
  BY DEF Do
<1>2. CASE MayTurnEnd
  <2>1. TurnEnd /\ refused' = refused
    BY <1>1, <1>2 DEF Offer
  <2>2. Next
    BY <2>1 DEF Next, TurnStep
  <2> QED  BY <1>2, <2>1, <2>2 DEF TurnEnd, SetCall, SetAgent, turnVars, TypeOK, CallSlot, AgentSlot, OnlyCall, OnlyAgent
<1>3. CASE ~MayTurnEnd
  BY <1>1, <1>3 DEF Offer, Refusal
<1> QED  BY <1>2, <1>3

\* A round takes up what was due.
LEMMA FeedRoundStart ==
  ASSUME TypeOK, Do(<<"RoundStart">>)
  PROVE  /\ [Next]_vars
         /\ MayRoundStart => /\ refused' = refused
                             /\ round' = "InRound"
                             /\ round_due' = FALSE
                             /\ UNCHANGED <<turn, steer_pending, wake_fold_pending, calls, agents>>
         /\ ~MayRoundStart => Refusal
<1>1. Offer(MayRoundStart, RoundStart)
  BY DEF Do
<1>2. CASE MayRoundStart
  <2>1. RoundStart /\ refused' = refused
    BY <1>1, <1>2 DEF Offer
  <2>2. Next
    BY <2>1 DEF Next, TurnStep
  <2> QED  BY <1>2, <2>1, <2>2 DEF RoundStart, SetCall, SetAgent, turnVars, TypeOK, CallSlot, AgentSlot, OnlyCall, OnlyAgent
<1>3. CASE ~MayRoundStart
  BY <1>1, <1>3 DEF Offer, Refusal
<1> QED  BY <1>2, <1>3

\* A round ends.
LEMMA FeedRoundEnd ==
  ASSUME TypeOK, Do(<<"RoundEnd">>)
  PROVE  /\ [Next]_vars
         /\ MayRoundEnd => /\ refused' = refused
                           /\ round' = "Prep"
                           /\ UNCHANGED <<turn, round_due, steer_pending, wake_fold_pending, calls, agents>>
         /\ ~MayRoundEnd => Refusal
<1>1. Offer(MayRoundEnd, RoundEnd)
  BY DEF Do
<1>2. CASE MayRoundEnd
  <2>1. RoundEnd /\ refused' = refused
    BY <1>1, <1>2 DEF Offer
  <2>2. Next
    BY <2>1 DEF Next, TurnStep
  <2> QED  BY <1>2, <2>1, <2>2 DEF RoundEnd, SetCall, SetAgent, turnVars, TypeOK, CallSlot, AgentSlot, OnlyCall, OnlyAgent
<1>3. CASE ~MayRoundEnd
  BY <1>1, <1>3 DEF Offer, Refusal
<1> QED  BY <1>2, <1>3

\* A steer is pending.
LEMMA FeedSteerEnqueue ==
  ASSUME TypeOK, Do(<<"SteerEnqueue">>)
  PROVE  /\ [Next]_vars
         /\ MaySteerEnqueue => /\ refused' = refused
                               /\ steer_pending'
                               /\ UNCHANGED <<turn, round, round_due, wake_fold_pending, calls, agents>>
         /\ ~MaySteerEnqueue => Refusal
<1>1. Offer(MaySteerEnqueue, SteerEnqueue)
  BY DEF Do
<1>2. CASE MaySteerEnqueue
  <2>1. SteerEnqueue /\ refused' = refused
    BY <1>1, <1>2 DEF Offer
  <2>2. Next
    BY <2>1 DEF Next, TurnStep
  <2> QED  BY <1>2, <2>1, <2>2 DEF SteerEnqueue, SetCall, SetAgent, turnVars, TypeOK, CallSlot, AgentSlot, OnlyCall, OnlyAgent
<1>3. CASE ~MaySteerEnqueue
  BY <1>1, <1>3 DEF Offer, Refusal
<1> QED  BY <1>2, <1>3

\* A steer joins and owes a round.
LEMMA FeedSteerJoin ==
  ASSUME TypeOK, Do(<<"SteerJoin">>)
  PROVE  /\ [Next]_vars
         /\ MaySteerJoin => /\ refused' = refused
                            /\ ~steer_pending'
                            /\ round_due'
                            /\ UNCHANGED <<turn, round, wake_fold_pending, calls, agents>>
         /\ ~MaySteerJoin => Refusal
<1>1. Offer(MaySteerJoin, SteerJoin)
  BY DEF Do
<1>2. CASE MaySteerJoin
  <2>1. SteerJoin /\ refused' = refused
    BY <1>1, <1>2 DEF Offer
  <2>2. Next
    BY <2>1 DEF Next, TurnStep
  <2> QED  BY <1>2, <2>1, <2>2 DEF SteerJoin, SetCall, SetAgent, turnVars, TypeOK, CallSlot, AgentSlot, OnlyCall, OnlyAgent
<1>3. CASE ~MaySteerJoin
  BY <1>1, <1>3 DEF Offer, Refusal
<1> QED  BY <1>2, <1>3

\* A request.
LEMMA FeedToolRequest ==
  ASSUME TypeOK, NEW c \in Calls, NEW d \in BOOLEAN, Do(<<"ToolRequest", c, d>>)
  PROVE  /\ [Next]_vars
         /\ MayToolRequest(c) => /\ refused' = refused
                                 /\ OnlyCall(c)
                                 /\ calls'[c].phase = "Requested"
                                 /\ calls'[c].danger = d
                                 /\ UNCHANGED <<turn, round, round_due, steer_pending, wake_fold_pending, agents>>
         /\ ~MayToolRequest(c) => Refusal
<1>1. Offer(MayToolRequest(c), ToolRequest(c, d))
  BY DEF Do
<1>2. CASE MayToolRequest(c)
  <2>1. ToolRequest(c, d) /\ refused' = refused
    BY <1>1, <1>2 DEF Offer
  <2>2. Next
    BY <2>1 DEF Next, CallStep
  <2> QED  BY <1>2, <2>1, <2>2 DEF ToolRequest, SetCall, SetAgent, turnVars, TypeOK, CallSlot, AgentSlot, OnlyCall, OnlyAgent
<1>3. CASE ~MayToolRequest(c)
  BY <1>1, <1>3 DEF Offer, Refusal
<1> QED  BY <1>2, <1>3

\* An automatic grant.
LEMMA FeedToolAllow ==
  ASSUME TypeOK, NEW c \in Calls, Do(<<"ToolAllow", c>>)
  PROVE  /\ [Next]_vars
         /\ MayToolAllow(c) => /\ refused' = refused
                               /\ OnlyCall(c)
                               /\ calls'[c].phase = "Allowed"
                               /\ calls'[c].fresh
                               /\ calls'[c].danger = calls[c].danger
                               /\ UNCHANGED <<turn, round, round_due, steer_pending, wake_fold_pending, agents>>
         /\ ~MayToolAllow(c) => Refusal
<1>1. Offer(MayToolAllow(c), ToolAllow(c))
  BY DEF Do
<1>2. CASE MayToolAllow(c)
  <2>1. ToolAllow(c) /\ refused' = refused
    BY <1>1, <1>2 DEF Offer
  <2>2. Next
    BY <2>1 DEF Next
  <2> QED  BY <1>2, <2>1, <2>2 DEF ToolAllow, SetCall, SetAgent, turnVars, TypeOK, CallSlot, AgentSlot, OnlyCall, OnlyAgent
<1>3. CASE ~MayToolAllow(c)
  BY <1>1, <1>3 DEF Offer, Refusal
<1> QED  BY <1>2, <1>3

\* An approval.
LEMMA FeedToolApprove ==
  ASSUME TypeOK, NEW c \in Calls, Do(<<"ToolApprove", c>>)
  PROVE  /\ [Next]_vars
         /\ MayToolApprove(c) => /\ refused' = refused
                                 /\ OnlyCall(c)
                                 /\ calls'[c].phase = "Allowed"
                                 /\ calls'[c].fresh
                                 /\ calls'[c].danger = calls[c].danger
                                 /\ UNCHANGED <<turn, round, round_due, steer_pending, wake_fold_pending, agents>>
         /\ ~MayToolApprove(c) => Refusal
<1>1. Offer(MayToolApprove(c), ToolApprove(c))
  BY DEF Do
<1>2. CASE MayToolApprove(c)
  <2>1. ToolApprove(c) /\ refused' = refused
    BY <1>1, <1>2 DEF Offer
  <2>2. Next
    BY <2>1 DEF Next
  <2> QED  BY <1>2, <2>1, <2>2 DEF ToolApprove, SetCall, SetAgent, turnVars, TypeOK, CallSlot, AgentSlot, OnlyCall, OnlyAgent
<1>3. CASE ~MayToolApprove(c)
  BY <1>1, <1>3 DEF Offer, Refusal
<1> QED  BY <1>2, <1>3

\* A denial.
LEMMA FeedToolDeny ==
  ASSUME TypeOK, NEW c \in Calls, Do(<<"ToolDeny", c>>)
  PROVE  /\ [Next]_vars
         /\ MayToolDeny(c) => /\ refused' = refused
                              /\ OnlyCall(c)
                              /\ calls'[c].phase = "Denied"
                              /\ UNCHANGED <<turn, round, round_due, steer_pending, wake_fold_pending, agents>>
         /\ ~MayToolDeny(c) => Refusal
<1>1. Offer(MayToolDeny(c), ToolDeny(c))
  BY DEF Do
<1>2. CASE MayToolDeny(c)
  <2>1. ToolDeny(c) /\ refused' = refused
    BY <1>1, <1>2 DEF Offer
  <2>2. Next
    BY <2>1 DEF Next, CallStep
  <2> QED  BY <1>2, <2>1, <2>2 DEF ToolDeny, SetCall, SetAgent, turnVars, TypeOK, CallSlot, AgentSlot, OnlyCall, OnlyAgent
<1>3. CASE ~MayToolDeny(c)
  BY <1>1, <1>3 DEF Offer, Refusal
<1> QED  BY <1>2, <1>3

\* A call starts.
LEMMA FeedToolExecStart ==
  ASSUME TypeOK, NEW c \in Calls, Do(<<"ToolExecStart", c>>)
  PROVE  /\ [Next]_vars
         /\ MayToolExecStart(c) => /\ refused' = refused
                                   /\ OnlyCall(c)
                                   /\ calls'[c].phase = "Executing"
                                   /\ calls'[c].danger = calls[c].danger
                                   /\ UNCHANGED <<turn, round, round_due, steer_pending, wake_fold_pending, agents>>
         /\ ~MayToolExecStart(c) => Refusal
<1>1. Offer(MayToolExecStart(c), ToolExecStart(c))
  BY DEF Do
<1>2. CASE MayToolExecStart(c)
  <2>1. ToolExecStart(c) /\ refused' = refused
    BY <1>1, <1>2 DEF Offer
  <2>2. Next
    BY <2>1 DEF Next, CallStep
  <2> QED  BY <1>2, <2>1, <2>2 DEF ToolExecStart, SetCall, SetAgent, turnVars, TypeOK, CallSlot, AgentSlot, OnlyCall, OnlyAgent
<1>3. CASE ~MayToolExecStart(c)
  BY <1>1, <1>3 DEF Offer, Refusal
<1> QED  BY <1>2, <1>3

\* A call ends.
LEMMA FeedToolExecEnd ==
  ASSUME TypeOK, NEW c \in Calls, Do(<<"ToolExecEnd", c>>)
  PROVE  /\ [Next]_vars
         /\ MayToolExecEnd(c) => /\ refused' = refused
                                 /\ OnlyCall(c)
                                 /\ calls'[c].phase = "Done"
                                 /\ UNCHANGED <<turn, round, round_due, steer_pending, wake_fold_pending, agents>>
         /\ ~MayToolExecEnd(c) => Refusal
<1>1. Offer(MayToolExecEnd(c), ToolExecEnd(c))
  BY DEF Do
<1>2. CASE MayToolExecEnd(c)
  <2>1. ToolExecEnd(c) /\ refused' = refused
    BY <1>1, <1>2 DEF Offer
  <2>2. Next
    BY <2>1 DEF Next, CallStep
  <2> QED  BY <1>2, <2>1, <2>2 DEF ToolExecEnd, SetCall, SetAgent, turnVars, TypeOK, CallSlot, AgentSlot, OnlyCall, OnlyAgent
<1>3. CASE ~MayToolExecEnd(c)
  BY <1>1, <1>3 DEF Offer, Refusal
<1> QED  BY <1>2, <1>3

\* A receipt frees the slot and owes a round.
LEMMA FeedToolSettle ==
  ASSUME TypeOK, NEW c \in Calls, Do(<<"ToolSettle", c>>)
  PROVE  /\ [Next]_vars
         /\ MayToolSettle(c) => /\ refused' = refused
                                /\ OnlyCall(c)
                                /\ calls'[c].phase = "Unused"
                                /\ round_due'
                                /\ UNCHANGED <<turn, round, steer_pending, wake_fold_pending, agents>>
         /\ ~MayToolSettle(c) => Refusal
<1>1. Offer(MayToolSettle(c), ToolSettle(c))
  BY DEF Do
<1>2. CASE MayToolSettle(c)
  <2>1. ToolSettle(c) /\ refused' = refused
    BY <1>1, <1>2 DEF Offer
  <2>2. Next
    BY <2>1 DEF Next, CallStep
  <2> QED  BY <1>2, <2>1, <2>2 DEF ToolSettle, SetCall, SetAgent, turnVars, TypeOK, CallSlot, AgentSlot, OnlyCall, OnlyAgent
<1>3. CASE ~MayToolSettle(c)
  BY <1>1, <1>3 DEF Offer, Refusal
<1> QED  BY <1>2, <1>3

\* A handoff moves the call and the task.
LEMMA FeedToolBackground ==
  ASSUME TypeOK, NEW c \in Calls, NEW a \in Agents, NEW r \in TaskIds, Do(<<"ToolBackground", c, a, r>>)
  PROVE  /\ [Next]_vars
         /\ MayToolBackground(c, a, r) => /\ refused' = refused
                                          /\ OnlyCall(c)
                                          /\ calls'[c].phase = "ExecBg"
                                          /\ calls'[c].danger = calls[c].danger
                                          /\ OnlyAgent(a)
                                          /\ agents'[a].phase = "Running"
                                          /\ agents'[a].rid = r
                                          /\ agents'[a].waited = agents[a].waited
                                          /\ UNCHANGED <<turn, round, round_due, steer_pending, wake_fold_pending>>
         /\ ~MayToolBackground(c, a, r) => Refusal
<1>1. Offer(MayToolBackground(c, a, r), ToolBackground(c, a, r))
  BY DEF Do
<1>2. CASE MayToolBackground(c, a, r)
  <2>1. ToolBackground(c, a, r) /\ refused' = refused
    BY <1>1, <1>2 DEF Offer
  <2>2. Next
    BY <2>1 DEF Next, TaskStep
  <2> QED  BY <1>2, <2>1, <2>2 DEF ToolBackground, SetCall, SetAgent, turnVars, TypeOK, CallSlot, AgentSlot, OnlyCall, OnlyAgent
<1>3. CASE ~MayToolBackground(c, a, r)
  BY <1>1, <1>3 DEF Offer, Refusal
<1> QED  BY <1>2, <1>3

\* A spawn.
LEMMA FeedAgentSpawn ==
  ASSUME TypeOK, NEW a \in Agents, NEW r \in TaskIds, Do(<<"AgentSpawn", a, r>>)
  PROVE  /\ [Next]_vars
         /\ MayAgentSpawn(a, r) => /\ refused' = refused
                                   /\ OnlyAgent(a)
                                   /\ agents'[a].phase = "Running"
                                   /\ agents'[a].rid = r
                                   /\ agents'[a].waited = agents[a].waited
                                   /\ round_due'
                                   /\ UNCHANGED <<turn, round, steer_pending, wake_fold_pending, calls>>
         /\ ~MayAgentSpawn(a, r) => Refusal
<1>1. Offer(MayAgentSpawn(a, r), AgentSpawn(a, r))
  BY DEF Do
<1>2. CASE MayAgentSpawn(a, r)
  <2>1. AgentSpawn(a, r) /\ refused' = refused
    BY <1>1, <1>2 DEF Offer
  <2>2. Next
    BY <2>1 DEF Next, TaskStep
  <2> QED  BY <1>2, <2>1, <2>2 DEF AgentSpawn, SetCall, SetAgent, turnVars, TypeOK, CallSlot, AgentSlot, OnlyCall, OnlyAgent
<1>3. CASE ~MayAgentSpawn(a, r)
  BY <1>1, <1>3 DEF Offer, Refusal
<1> QED  BY <1>2, <1>3

\* A completion.
LEMMA FeedAgentComplete ==
  ASSUME TypeOK, NEW a \in Agents, NEW r \in TaskIds, Do(<<"AgentComplete", a, r>>)
  PROVE  /\ [Next]_vars
         /\ MayAgentComplete(a, r) => /\ refused' = refused
                                      /\ OnlyAgent(a)
                                      /\ agents'[a].phase = "Done"
                                      /\ agents'[a].rid = agents[a].rid
                                      /\ agents'[a].waited = agents[a].waited
                                      /\ UNCHANGED <<turn, round, round_due, steer_pending, wake_fold_pending, calls>>
         /\ ~MayAgentComplete(a, r) => Refusal
<1>1. Offer(MayAgentComplete(a, r), AgentComplete(a, r))
  BY DEF Do
<1>2. CASE MayAgentComplete(a, r)
  <2>1. AgentComplete(a, r) /\ refused' = refused
    BY <1>1, <1>2 DEF Offer
  <2>2. Next
    BY <2>1 DEF Next, TaskStep
  <2> QED  BY <1>2, <2>1, <2>2 DEF AgentComplete, SetCall, SetAgent, turnVars, TypeOK, CallSlot, AgentSlot, OnlyCall, OnlyAgent
<1>3. CASE ~MayAgentComplete(a, r)
  BY <1>1, <1>3 DEF Offer, Refusal
<1> QED  BY <1>2, <1>3

\* A fold empties the slot and owes a round.
LEMMA FeedAgentFold ==
  ASSUME TypeOK, NEW a \in Agents, NEW r \in TaskIds, Do(<<"AgentFold", a, r>>)
  PROVE  /\ [Next]_vars
         /\ MayAgentFold(a, r) => /\ refused' = refused
                                  /\ OnlyAgent(a)
                                  /\ agents'[a].phase = "None"
                                  /\ agents'[a].rid = agents[a].rid
                                  /\ agents'[a].waited = agents[a].waited
                                  /\ round_due'
                                  /\ UNCHANGED <<turn, round, steer_pending, calls>>
         /\ ~MayAgentFold(a, r) => Refusal
<1>1. Offer(MayAgentFold(a, r), AgentFold(a, r))
  BY DEF Do
<1>2. CASE MayAgentFold(a, r)
  <2>1. AgentFold(a, r) /\ refused' = refused
    BY <1>1, <1>2 DEF Offer
  <2>2. Next
    BY <2>1 DEF Next, TaskStep
  <2> QED  BY <1>2, <2>1, <2>2 DEF AgentFold, SetCall, SetAgent, turnVars, TypeOK, CallSlot, AgentSlot, OnlyCall, OnlyAgent
<1>3. CASE ~MayAgentFold(a, r)
  BY <1>1, <1>3 DEF Offer, Refusal
<1> QED  BY <1>2, <1>3

\* A wait.
LEMMA FeedTaskWait ==
  ASSUME TypeOK, NEW a \in Agents, NEW r \in TaskIds, Do(<<"TaskWait", a, r>>)
  PROVE  /\ [Next]_vars
         /\ MayTaskWait(a, r) => /\ refused' = refused
                                 /\ OnlyAgent(a)
                                 /\ agents'[a].phase = agents[a].phase
                                 /\ agents'[a].rid = agents[a].rid
                                 /\ agents'[a].waited = TRUE
                                 /\ UNCHANGED <<turn, round, round_due, steer_pending, wake_fold_pending, calls>>
         /\ ~MayTaskWait(a, r) => Refusal
<1>1. Offer(MayTaskWait(a, r), TaskWait(a, r))
  BY DEF Do
<1>2. CASE MayTaskWait(a, r)
  <2>1. TaskWait(a, r) /\ refused' = refused
    BY <1>1, <1>2 DEF Offer
  <2>2. Next
    BY <2>1 DEF Next, TaskStep
  <2> QED  BY <1>2, <2>1, <2>2 DEF TaskWait, SetCall, SetAgent, turnVars, TypeOK, CallSlot, AgentSlot, OnlyCall, OnlyAgent
<1>3. CASE ~MayTaskWait(a, r)
  BY <1>1, <1>3 DEF Offer, Refusal
<1> QED  BY <1>2, <1>3

\* A wait is withdrawn and owes a round.
LEMMA FeedTaskWaitTimeout ==
  ASSUME TypeOK, NEW a \in Agents, NEW r \in TaskIds, Do(<<"TaskWaitTimeout", a, r>>)
  PROVE  /\ [Next]_vars
         /\ MayTaskWaitTimeout(a, r) => /\ refused' = refused
                                        /\ OnlyAgent(a)
                                        /\ agents'[a].phase = agents[a].phase
                                        /\ agents'[a].rid = agents[a].rid
                                        /\ agents'[a].waited = FALSE
                                        /\ round_due'
                                        /\ UNCHANGED <<turn, round, steer_pending, wake_fold_pending, calls>>
         /\ ~MayTaskWaitTimeout(a, r) => Refusal
<1>1. Offer(MayTaskWaitTimeout(a, r), TaskWaitTimeout(a, r))
  BY DEF Do
<1>2. CASE MayTaskWaitTimeout(a, r)
  <2>1. TaskWaitTimeout(a, r) /\ refused' = refused
    BY <1>1, <1>2 DEF Offer
  <2>2. Next
    BY <2>1 DEF Next, TaskStep
  <2> QED  BY <1>2, <2>1, <2>2 DEF TaskWaitTimeout, SetCall, SetAgent, turnVars, TypeOK, CallSlot, AgentSlot, OnlyCall, OnlyAgent
<1>3. CASE ~MayTaskWaitTimeout(a, r)
  BY <1>1, <1>3 DEF Offer, Refusal
<1> QED  BY <1>2, <1>3

\* A delivery empties the slot and owes a round.
LEMMA FeedTaskWaitDeliver ==
  ASSUME TypeOK, NEW a \in Agents, NEW r \in TaskIds, Do(<<"TaskWaitDeliver", a, r>>)
  PROVE  /\ [Next]_vars
         /\ MayTaskWaitDeliver(a, r) => /\ refused' = refused
                                        /\ OnlyAgent(a)
                                        /\ agents'[a].phase = "None"
                                        /\ agents'[a].rid = agents[a].rid
                                        /\ agents'[a].waited = FALSE
                                        /\ round_due'
                                        /\ UNCHANGED <<turn, round, steer_pending, wake_fold_pending, calls>>
         /\ ~MayTaskWaitDeliver(a, r) => Refusal
<1>1. Offer(MayTaskWaitDeliver(a, r), TaskWaitDeliver(a, r))
  BY DEF Do
<1>2. CASE MayTaskWaitDeliver(a, r)
  <2>1. TaskWaitDeliver(a, r) /\ refused' = refused
    BY <1>1, <1>2 DEF Offer
  <2>2. Next
    BY <2>1 DEF Next, TaskStep
  <2> QED  BY <1>2, <2>1, <2>2 DEF TaskWaitDeliver, SetCall, SetAgent, turnVars, TypeOK, CallSlot, AgentSlot, OnlyCall, OnlyAgent
<1>3. CASE ~MayTaskWaitDeliver(a, r)
  BY <1>1, <1>3 DEF Offer, Refusal
<1> QED  BY <1>2, <1>3

-----------------------------------------------------------------------------
(* What feeding leaves alone.                                                *)

Fed == [Next]_vars /\ (InStep => UNCHANGED refused)

\* A step that leaves the calls and the books alone leaves the calls at rest.
LEMMA CalmFrame ==
  ASSUME Calm, UNCHANGED <<calls, entries, open, gaps>> PROVE Calm'
BY DEF Calm, AtRest, In, InStep, Slots, Expected

\* So does, for one call, a step that leaves it and the books alone.
LEMMA RestFrame ==
  ASSUME NEW c \in Calls, AtRest(c), calls'[c] = calls[c], UNCHANGED <<entries, open, gaps>> PROVE AtRest(c)'
BY DEF AtRest, In, InStep, Slots, Expected

\* The lane or script at work is the only one that moves.
LEMMA FeedAhead ==
  ASSUME Feed
  PROVE  /\ script \in Ahead /\ lanes \subseteq Ahead \cup {<<>>}
         /\ script' = Tail(script)
         /\ Ahead' \subseteq Ahead \cup {script'}
         /\ Apart /\ script' = <<>> => Apart' /\ Ahead' = Ahead \ {script}
         /\ Apart /\ script' \notin Ahead => Apart'
         /\ Apart /\ script' # <<>> => Ahead' = (Ahead \ {script}) \cup {script'}
         /\ UNCHANGED <<lanes, closing, entries, mapped, unmapped, prompt, injection, host, mailbox, open,
                        watched, pool, gaps>>
<1> USE DEF Feed, shadow, run, Ahead, Apart
<1>1. /\ script \in Ahead /\ lanes \subseteq Ahead \cup {<<>>}
      /\ script' = Tail(script) /\ lanes' = lanes
  OBVIOUS
<1> QED  BY <1>1
\* The lane that reports a settled task.
LEMMA CompleteForm ==
  ASSUME NEW a, NEW r
  PROVE  /\ Head(CompleteLane(a, r)) = <<"AgentComplete", a, r>> /\ Tail(CompleteLane(a, r)) = <<>>
         /\ CompleteLane(a, r) # <<>> /\ CompleteLane(a, r) # <<<<"TurnStart">>>>
         /\ \A b, s : CompleteLane(a, r) = CompleteLane(b, s) => a = b /\ r = s
BY DEF CompleteLane

\* The lane that arms a wait.
LEMMA WaitForm ==
  ASSUME NEW a, NEW r
  PROVE  /\ Head(WaitLane(a, r)) = <<"TaskWait", a, r>> /\ Tail(WaitLane(a, r)) = <<>>
         /\ WaitLane(a, r) # <<>>
         /\ \A b, s : WaitLane(a, r) = WaitLane(b, s) => a = b /\ r = s
BY DEF WaitLane

\* The lanes that fold a result at a boundary.
LEMMA FoldForms ==
  ASSUME NEW a, NEW r
  PROVE  /\ Head(FoldLane(a, r)) = <<"AgentFold", a, r>> /\ Tail(FoldLane(a, r)) = <<>>
         /\ Head(LateFoldLane(a, r)) = <<"AgentComplete", a, r>>
         /\ Tail(LateFoldLane(a, r)) = FoldLane(a, r)
         /\ FoldLane(a, r) # <<>> /\ LateFoldLane(a, r) # <<>>
         /\ \A b, s : /\ FoldLane(a, r) = FoldLane(b, s) => a = b /\ r = s
                      /\ LateFoldLane(a, r) = LateFoldLane(b, s) => a = b /\ r = s
                      /\ FoldLane(a, r) # LateFoldLane(b, s)
BY DEF FoldLane, LateFoldLane

\* The lanes that hand a result to the wait that claimed it.
LEMMA ClaimForms ==
  ASSUME NEW a, NEW r
  PROVE  /\ Head(DeliverLane(a, r)) = <<"TaskWaitDeliver", a, r>> /\ Tail(DeliverLane(a, r)) = <<>>
         /\ Head(ClaimLane(a, r)) = <<"AgentComplete", a, r>>
         /\ Tail(ClaimLane(a, r)) = DeliverLane(a, r)
         /\ DeliverLane(a, r) # <<>> /\ ClaimLane(a, r) # <<>>
         /\ \A b, s : /\ DeliverLane(a, r) = DeliverLane(b, s) => a = b /\ r = s
                      /\ ClaimLane(a, r) = ClaimLane(b, s) => a = b /\ r = s
                      /\ DeliverLane(a, r) # ClaimLane(b, s)
BY DEF DeliverLane, ClaimLane

\* The lanes that end a call left open by an abort.
LEMMA SweepForms ==
  ASSUME NEW c
  PROVE  /\ Head(SettleLane(c)) = <<"ToolSettle", c>> /\ Tail(SettleLane(c)) = <<>>
         /\ Head(EndLane(c)) = <<"ToolExecEnd", c>> /\ Tail(EndLane(c)) = SettleLane(c)
         /\ SettleLane(c) # <<>> /\ EndLane(c) # <<>>
         /\ SettleLane(c) \notin {<<<<"TurnCancel">>>>, <<<<"RoundEnd">>>>}
         /\ EndLane(c) \notin {<<<<"TurnCancel">>>>, <<<<"RoundEnd">>>>}
         /\ \A d : /\ SettleLane(c) = SettleLane(d) => c = d
                   /\ EndLane(c) = EndLane(d) => c = d
                   /\ SettleLane(c) # EndLane(d)
BY DEF SettleLane, EndLane

\* Without an open call there is no entry, and without an entry no call.
LEMMA NothingOpen ==
  ASSUME Ledger, Calm, open = {}
  PROVE  entries = {} /\ \A c \in Calls : calls[c].phase = "Unused"
BY DEF Ledger, Calm, AtRest, Slots

\* A round boundary folds results: an agent finishes, or is folded, and is
\* gone.
LEMMA FeedPrep ==
  ASSUME Sane, AtPrep, Feed
  PROVE  AtPrep' /\ Fed
<1> USE DEF AtPrep
<1>0. TypeOK
  BY DEF Sane, Inv, Structure
<1>1. script \in FoldLanes /\ Do(Head(script))
  BY FeedAhead DEF Feed
<1>2. ASSUME NEW a \in Agents, NEW r \in TaskIds, script = LateFoldLane(a, r)
      PROVE  AtPrep' /\ Fed
  <2>1. Do(<<"AgentComplete", a, r>>) /\ script' = FoldLane(a, r)
    BY <1>1, <1>2, FoldForms, FeedAhead
  <2>2. Calm' /\ turn' = "Running" /\ closing' = <<>>
    BY <1>0, <2>1, FeedAgentComplete, FeedAhead, CalmFrame DEF Refusal, vars, turnVars
  <2>3. Ahead' \subseteq FoldLanes
    BY <2>1, FeedAhead DEF FoldLanes
  <2>4. ASSUME InStep
        PROVE  AtPrep' /\ Fed
    <3>1. /\ MayAgentComplete(a, r)
          /\ FoldLane(a, r) \notin Ahead
      BY <1>2, <2>4, FeedAhead, FoldForms DEF Folding, Holds, MayAgentComplete
    <3>2. Ahead' = (Ahead \ {LateFoldLane(a, r)}) \cup {FoldLane(a, r)} /\ Apart'
      BY <1>2, <2>1, <2>4, <3>1, FeedAhead, FoldForms
    <3>3. Folding'
      <4>1. /\ OnlyAgent(a) /\ Holds(a, r, "Done")'
            /\ Holds(a, r, "Running") /\ a \notin Slots(mapped)
            /\ mapped' = mapped /\ Slots(mapped)' = Slots(mapped)
        BY <1>0, <1>2, <2>1, <2>4, <3>1, FeedAgentComplete, FeedAhead DEF Folding, Holds, Slots, MayAgentComplete
      <4>2. ASSUME NEW b \in Agents, NEW s \in TaskIds, FoldLane(b, s) \in Ahead'
            PROVE  Holds(b, s, "Done")' /\ b \notin Slots(mapped)'
        BY <2>4, <3>2, <4>1, <4>2, FoldForms DEF Folding, Holds, OnlyAgent
      <4>3. ASSUME NEW b \in Agents, NEW s \in TaskIds, LateFoldLane(b, s) \in Ahead'
            PROVE  Holds(b, s, "Running")' /\ b \notin Slots(mapped)'
        <5>1. LateFoldLane(b, s) \in Ahead /\ ~(b = a /\ s = r)
          BY <3>2, <4>3, FoldForms
        <5> QED  BY <2>4, <4>1, <5>1 DEF Folding, Holds, OnlyAgent
      <4>4. ASSUME NEW b \in Agents, agents'[b].phase # "None", b \notin Slots(mapped)'
            PROVE  \E s \in TaskIds : FoldLane(b, s) \in Ahead' \/ LateFoldLane(b, s) \in Ahead'
        <5>1. CASE b = a   BY <3>2, <5>1
        <5>2. CASE b # a
          <6>1. PICK s \in TaskIds : FoldLane(b, s) \in Ahead \/ LateFoldLane(b, s) \in Ahead
            BY <2>4, <4>1, <4>4, <5>2 DEF Folding, OnlyAgent
          <6> QED  BY <3>2, <5>2, <6>1, FoldForms
        <5> QED  BY <5>1, <5>2
      <4>5. \A m \in mapped' : Tracked(m)' /\ ~Done(m)'
        BY <2>4, <4>1 DEF Folding, Tracked, Done, Slots, OnlyAgent, Sane, Tasks
      <4> QED  BY <4>2, <4>3, <4>4, <4>5 DEF Folding
    <3>4. NoneWaited'
      BY <1>0, <2>1, <2>4, <3>1, FeedAgentComplete DEF NoneWaited, OnlyAgent
    <3> QED  BY <1>0, <2>1, <2>2, <2>3, <2>4, <3>1, <3>2, <3>3, <3>4, FeedAgentComplete, FeedAhead DEF Fed, InStep
  <2> QED  BY <1>0, <2>1, <2>2, <2>3, <2>4, FeedAgentComplete, FeedAhead DEF Fed, InStep
<1>3. ASSUME NEW a \in Agents, NEW r \in TaskIds, script = FoldLane(a, r)
      PROVE  AtPrep' /\ Fed
  <2>1. Do(<<"AgentFold", a, r>>) /\ script' = <<>>
    BY <1>1, <1>3, FoldForms, FeedAhead
  <2>2. Calm' /\ turn' = "Running" /\ closing' = <<>>
    BY <1>0, <2>1, FeedAgentFold, FeedAhead, CalmFrame DEF Refusal, vars, turnVars
  <2>3. Ahead' \subseteq FoldLanes
    BY <2>1, FeedAhead DEF Ahead
  <2>4. ASSUME InStep
        PROVE  AtPrep' /\ Fed
    <3>1. MayAgentFold(a, r)
      BY <1>3, <2>4, FeedAhead, FoldForms DEF Folding, Holds, MayAgentFold
    <3>2. Ahead' = Ahead \ {FoldLane(a, r)} /\ Apart'
      BY <1>3, <2>1, <2>4, <3>1, FeedAhead, FoldForms
    <3>3. Folding'
      <4>1. /\ OnlyAgent(a) /\ agents'[a].phase = "None"
            /\ Holds(a, r, "Done") /\ a \notin Slots(mapped)
            /\ mapped' = mapped /\ Slots(mapped)' = Slots(mapped)
        BY <1>0, <1>3, <2>1, <2>4, <3>1, FeedAgentFold, FeedAhead DEF Folding, Holds, Slots, MayAgentFold
      <4>2. ASSUME NEW b \in Agents, NEW s \in TaskIds, FoldLane(b, s) \in Ahead'
            PROVE  Holds(b, s, "Done")' /\ b \notin Slots(mapped)'
        <5>1. FoldLane(b, s) \in Ahead /\ ~(b = a /\ s = r)
          BY <3>2, <4>2, FoldForms
        <5> QED  BY <2>4, <4>1, <5>1 DEF Folding, Holds, OnlyAgent
      <4>3. ASSUME NEW b \in Agents, NEW s \in TaskIds, LateFoldLane(b, s) \in Ahead'
            PROVE  Holds(b, s, "Running")' /\ b \notin Slots(mapped)'
        BY <2>4, <3>2, <4>1, <4>3, FoldForms DEF Folding, Holds, OnlyAgent
      <4>4. ASSUME NEW b \in Agents, agents'[b].phase # "None", b \notin Slots(mapped)'
            PROVE  \E s \in TaskIds : FoldLane(b, s) \in Ahead' \/ LateFoldLane(b, s) \in Ahead'
        <5>1. b # a
          BY <4>1, <4>4
        <5>2. PICK s \in TaskIds : FoldLane(b, s) \in Ahead \/ LateFoldLane(b, s) \in Ahead
          BY <2>4, <4>1, <4>4, <5>1 DEF Folding, OnlyAgent
        <5> QED  BY <3>2, <5>1, <5>2, FoldForms
      <4>5. \A m \in mapped' : Tracked(m)' /\ ~Done(m)'
        BY <2>4, <4>1 DEF Folding, Tracked, Done, Slots, OnlyAgent, Sane, Tasks
      <4> QED  BY <4>2, <4>3, <4>4, <4>5 DEF Folding
    <3>4. NoneWaited'
      BY <1>0, <2>1, <2>4, <3>1, FeedAgentFold DEF NoneWaited, OnlyAgent
    <3> QED  BY <1>0, <2>1, <2>2, <2>3, <2>4, <3>1, <3>2, <3>3, <3>4, FeedAgentFold, FeedAhead DEF Fed, InStep
  <2> QED  BY <1>0, <2>1, <2>2, <2>3, <2>4, FeedAgentFold, FeedAhead DEF Fed, InStep
<1> QED  BY <1>1, <1>2, <1>3 DEF FoldLanes

\* A turn begins: settled tasks complete before the turn starts.
LEMMA FeedHead ==
  ASSUME Sane, host = "head", AtHead, Feed
  PROVE  AtHead' /\ Fed
<1> USE DEF AtHead
<1>0. TypeOK
  BY DEF Sane, Inv, Structure
<1>1. Do(Head(script))
  BY DEF Feed
<1>2. ASSUME NEW a \in Agents, NEW r \in TaskIds, script = CompleteLane(a, r)
      PROVE  AtHead' /\ Fed
  <2>1. Do(<<"AgentComplete", a, r>>) /\ script' = <<>>
    BY <1>1, <1>2, CompleteForm, FeedAhead
  <2>2. /\ Calm' /\ turn' = turn /\ closing' = closing
        /\ closing = <<<<"TurnStart">>>> /\ turn # "Cancelling" /\ Ahead' \subseteq CompleteLanes
    <3>1. calls' = calls /\ turn' = turn
      BY <1>0, <2>1, FeedAgentComplete DEF Refusal, vars
    <3>2. closing = <<<<"TurnStart">>>> /\ turn # "Cancelling" /\ Ahead \subseteq CompleteLanes
      BY <1>2, CompleteForm DEF Between
    <3>3. Calm' /\ closing' = closing
      BY <3>1, FeedAhead, CalmFrame
    <3>4. Ahead' \subseteq CompleteLanes
      BY <2>1, <3>2, FeedAhead DEF Ahead
    <3> QED  BY <3>1, <3>2, <3>3, <3>4
  <2>3. ASSUME InStep
        PROVE  AtHead' /\ Fed
    <3>1. MayAgentComplete(a, r)
      BY <1>2, <2>3, FeedAhead DEF Completing, Holds, MayAgentComplete
    <3>2. Ahead' = Ahead \ {CompleteLane(a, r)} /\ Apart'
      BY <1>2, <2>1, <2>3, FeedAhead, CompleteForm
    <3>3. /\ OnlyAgent(a) /\ agents'[a].phase = "Done" /\ agents'[a].rid = r
          /\ agents'[a].waited = agents[a].waited
          /\ Holds(a, r, "Running") /\ \E m \in mapped : m.slot = a /\ pool[m.name] = "settled"
          /\ mapped' = mapped /\ pool' = pool /\ steer_pending' = steer_pending
          /\ refused' = refused /\ [Next]_vars
      BY <1>0, <1>2, <2>1, <2>3, <3>1, FeedAgentComplete, FeedAhead DEF Completing, Holds
    <3>4. Completing'
      <4> SUFFICES ASSUME NEW b \in Agents, NEW s \in TaskIds, CompleteLane(b, s) \in Ahead'
                   PROVE  /\ Holds(b, s, "Running")'
                          /\ \E m \in mapped : m.slot = b /\ m.rid = s /\ pool[m.name] = "settled"
        BY <3>3 DEF Completing
      <4>1. CompleteLane(b, s) \in Ahead /\ ~(b = a /\ s = r)
        BY <3>2, CompleteForm
      <4> QED  BY <2>3, <3>3, <4>1 DEF Completing, Holds, OnlyAgent
    <3>5. AllTracked' /\ NoneWaited'
      BY <2>3, <3>3 DEF AllTracked, AllMapped, Tracked, NoneWaited, OnlyAgent, Slots, Sane, Tasks, Holds
    <3>6. DoneIsSettled'
      BY <2>3, <3>3 DEF DoneIsSettled, Done, OnlyAgent, Sane, Tasks
    <3> QED  BY <2>2, <2>3, <3>2, <3>3, <3>4, <3>5, <3>6 DEF Fed, InStep, Between
  <2> QED  BY <1>0, <2>1, <2>2, <2>3, FeedAgentComplete, FeedAhead DEF Fed, InStep
<1>3. CASE script = <<<<"TurnStart">>>>
  <2>1. Do(<<"TurnStart">>) /\ script' = <<>> /\ lanes = {} /\ closing = <<>> /\ turn # "Cancelling"
    BY <1>1, <1>3, FeedAhead, CompleteForm DEF CompleteLanes, Between
  <2>2. Calm' /\ turn' = "Running" /\ Between'
    BY <1>0, <2>1, FeedTurnStart, FeedAhead, CalmFrame
       DEF Refusal, vars, turnVars, Between, MayTurnStart, TypeOK, TurnPhase
  <2>3. ASSUME InStep
        PROVE  AtHead' /\ Fed
    <3>1. /\ round_due' /\ refused' = refused /\ [Next]_vars
          /\ UNCHANGED <<agents, mapped, pool, steer_pending>>
      BY <1>0, <1>3, <2>1, <2>3, FeedTurnStart, FeedAhead DEF MayTurnStart, Between
    <3>2. AllTracked' /\ DoneIsSettled' /\ NoneWaited' /\ ~steer_pending'
      BY <2>3, <3>1 DEF AllTracked, AllMapped, Tracked, DoneIsSettled, Done, NoneWaited, Slots
    <3>3. Completing' /\ Apart'
      BY <2>1, <2>2, CompleteForm DEF Between, Apart, Ahead, Completing
    <3> QED  BY <2>2, <2>3, <3>1, <3>2, <3>3 DEF Fed, InStep
  <2> QED  BY <1>0, <2>1, <2>2, <2>3, FeedTurnStart, FeedAhead DEF Fed, InStep
<1> QED  BY <1>2, <1>3, FeedAhead DEF CompleteLanes, Between, Feed

\* A round with nothing open closes.
LEMMA FeedRoundEndQuiet ==
  ASSUME Sane, Do(<<"RoundEnd">>), round = "InRound", NoneWaited, \A c \in Calls : calls[c].phase = "Unused"
  PROVE  /\ round' = "Prep" /\ refused' = refused /\ [Next]_vars
         /\ UNCHANGED <<turn, round_due, steer_pending, wake_fold_pending, calls, agents>>
BY FeedRoundEnd DEF MayRoundEnd, NoneWaited, Sane, Inv, Structure

\* Turn, round and steer events leave the tasks alone.
LEMMA TrackFrame ==
  ASSUME UNCHANGED <<agents, mapped, pool>>
  PROVE  /\ AllTracked => AllTracked'
         /\ DoneIsSettled => DoneIsSettled'
         /\ NoneWaited => NoneWaited'
         /\ NoneDone => NoneDone'
BY DEF AllTracked, AllMapped, Tracked, DoneIsSettled, Done, NoneWaited, NoneDone, Slots

\* The script of a steer.
LEMMA SteerForm ==
  /\ Steer # <<>> /\ Steer # <<<<"SteerJoin">>>> /\ Steer # <<<<"RoundEnd">>>> /\ Steer # <<<<"RoundStart">>>>
  /\ Head(Steer) = <<"SteerEnqueue">> /\ Tail(Steer) = <<<<"SteerJoin">>>>
  /\ <<<<"SteerJoin">>>> \notin {<<>>, <<<<"RoundEnd">>>>, <<<<"RoundStart">>>>}
BY DEF Steer

\* After a final answer or an empty batch: the round closes, then a steer may
\* join.
LEMMA FeedFold ==
  ASSUME Sane, host = "fold", AtFold, Feed
  PROVE  AtFold' /\ Fed
<1> USE DEF AtFold
<1>0. TypeOK
  BY DEF Sane, Inv, Structure
<1>1. /\ Do(Head(script)) /\ script' = Tail(script) /\ script # <<>> /\ lanes' = lanes
      /\ UNCHANGED <<closing, entries, open, gaps, mapped, pool, injection>>
  BY FeedAhead DEF Feed
<1>2. Undelivered' = Undelivered
  BY <1>1 DEF Undelivered
<1>3. CASE script = <<<<"RoundEnd">>>>
  <2>1. Do(<<"RoundEnd">>) /\ script' = <<>> /\ closing \in {<<>>, Steer}
    BY <1>1, <1>3, SteerForm DEF Steering, Joining
  <2>2. turn' = turn /\ calls' = calls /\ [Next]_vars
    BY <1>0, <2>1, FeedRoundEnd DEF Refusal, vars
  <2>3. Calm'
    BY <1>1, <2>2, CalmFrame
  <2>4. ASSUME InStep
        PROVE  AtFold' /\ Fed
    <3>1. \A c \in Calls : calls[c].phase = "Unused"
      BY NothingOpen DEF Sane, Ledger
    <3>2. /\ round' = "Prep" /\ refused' = refused
          /\ UNCHANGED <<round_due, steer_pending, agents>>
      BY <1>3, <2>1, <2>4, <3>1, FeedRoundEndQuiet
    <3>3. ~Joining /\ ~Joining' /\ ~Steering /\ ~steer_pending
      BY <1>3, <2>1, <2>4, SteerForm DEF Joining, Steering
    <3> QED  BY <1>1, <1>2, <2>1, <2>2, <2>3, <2>4, <3>2, <3>3, TrackFrame DEF Fed, InStep
  <2> QED  BY <1>1, <2>1, <2>2, <2>3, <2>4 DEF Fed, InStep
<1>4. CASE script = Steer
  <2>1. Do(<<"SteerEnqueue">>) /\ Joining' /\ script' # <<<<"RoundEnd">>>> /\ closing = <<>>
    BY <1>1, <1>4, SteerForm DEF Joining
  <2>2. MaySteerEnqueue
    BY DEF MaySteerEnqueue
  <2>3. /\ steer_pending' /\ refused' = refused /\ [Next]_vars
        /\ UNCHANGED <<turn, round, round_due, calls, agents>>
    BY <1>0, <2>1, <2>2, FeedSteerEnqueue
  <2>4. Calm' /\ Steering'
    BY <1>1, <2>1, <2>3, CalmFrame DEF Steering
  <2>5. InStep => round' = "Prep"
    BY <1>0, <1>4, <2>3, SteerForm DEF TypeOK, RoundPhase
  <2> QED  BY <1>1, <1>2, <2>1, <2>3, <2>4, <2>5, TrackFrame DEF Fed, InStep
<1>5. CASE Joining
  <2>1. Do(<<"SteerJoin">>) /\ script' = <<>> /\ ~Joining' /\ closing = <<>>
    BY <1>1, <1>5, SteerForm DEF Joining
  <2>2. turn' = turn /\ calls' = calls /\ [Next]_vars
    BY <1>0, <2>1, FeedSteerJoin DEF Refusal, vars
  <2>3. Calm'
    BY <1>1, <2>2, CalmFrame
  <2>4. ASSUME InStep
        PROVE  AtFold' /\ Fed
    <3>1. round = "Prep" /\ MaySteerJoin
      BY <1>0, <1>5, <2>4, SteerForm DEF Joining, MaySteerJoin, TypeOK, RoundPhase
    <3>2. ~steer_pending' /\ round_due' /\ refused' = refused /\ UNCHANGED <<round, agents>>
      BY <1>0, <2>1, <3>1, FeedSteerJoin
    <3> QED  BY <1>1, <1>2, <2>1, <2>2, <2>3, <2>4, <3>1, <3>2, TrackFrame DEF Fed, InStep
  <2> QED  BY <1>1, <2>1, <2>2, <2>3, <2>4 DEF Fed, InStep
<1> QED  BY <1>1, <1>3, <1>4, <1>5 DEF Steering

\* A round opens, after the steer that was found at the boundary.
LEMMA FeedRound ==
  ASSUME Sane, host = "round", AtRound, Feed
  PROVE  AtRound' /\ Fed
<1> USE DEF AtRound
<1>0. TypeOK
  BY DEF Sane, Inv, Structure
<1>1. /\ Do(Head(script)) /\ script' = Tail(script) /\ script # <<>> /\ lanes' = lanes
      /\ UNCHANGED <<closing, entries, open, gaps, mapped, pool, injection>>
  BY FeedAhead DEF Feed
<1>2. ~Between
  BY <1>1 DEF Between
<1>3. CASE script = <<<<"RoundStart">>>>
  <2>1. Do(<<"RoundStart">>) /\ script' = <<>> /\ closing = <<>> /\ ~Steering /\ ~Joining /\ Between' /\ ~Joining'
    BY <1>1, <1>3, SteerForm DEF Steering, Joining, Between
  <2>2. turn' = turn /\ calls' = calls /\ [Next]_vars
    BY <1>0, <2>1, FeedRoundStart DEF Refusal, vars
  <2>3. Calm'
    BY <1>1, <2>2, CalmFrame
  <2>4. ASSUME InStep
        PROVE  AtRound' /\ Fed
    <3>1. wake_fold_pending = {}
      BY <2>4 DEF NoneDone, Sane, Inv, Structure, WakeFoldsAreFoldable, DoneAgents
    <3>2. MayRoundStart
      BY <1>2, <2>1, <2>4, <3>1 DEF MayRoundStart
    <3>3. round' = "InRound" /\ ~round_due' /\ refused' = refused /\ UNCHANGED <<steer_pending, agents>>
      BY <1>0, <2>1, <3>2, FeedRoundStart
    <3> QED  BY <1>1, <1>2, <2>1, <2>2, <2>3, <2>4, <3>3, TrackFrame DEF Fed, InStep
  <2> QED  BY <1>1, <2>1, <2>2, <2>3, <2>4 DEF Fed, InStep
<1>4. CASE script = Steer
  <2>1. Do(<<"SteerEnqueue">>) /\ Joining' /\ closing = <<<<"RoundStart">>>> /\ ~Between'
    BY <1>1, <1>4, SteerForm DEF Joining, Between
  <2>2. MaySteerEnqueue
    BY DEF MaySteerEnqueue
  <2>3. /\ steer_pending' /\ refused' = refused /\ [Next]_vars
        /\ UNCHANGED <<turn, round, round_due, calls, agents>>
    BY <1>0, <2>1, <2>2, FeedSteerEnqueue
  <2>4. Calm' /\ Steering'
    BY <1>1, <2>1, <2>3, CalmFrame DEF Steering
  <2> QED  BY <1>1, <1>2, <2>1, <2>3, <2>4, TrackFrame DEF Fed, InStep
<1>5. CASE Joining
  <2>1. Do(<<"SteerJoin">>) /\ script' = <<>> /\ ~Joining' /\ closing = <<<<"RoundStart">>>> /\ ~Between'
    BY <1>1, <1>5, SteerForm DEF Joining, Between
  <2>2. turn' = turn /\ calls' = calls /\ [Next]_vars
    BY <1>0, <2>1, FeedSteerJoin DEF Refusal, vars
  <2>3. Calm'
    BY <1>1, <2>2, CalmFrame
  <2>4. ASSUME InStep
        PROVE  AtRound' /\ Fed
    <3>1. MaySteerJoin
      BY <1>2, <1>5, <2>4 DEF MaySteerJoin
    <3>2. ~steer_pending' /\ round_due' /\ refused' = refused /\ UNCHANGED <<round, agents>>
      BY <1>0, <2>1, <3>1, FeedSteerJoin
    <3> QED  BY <1>1, <1>2, <2>1, <2>2, <2>3, <2>4, <3>2, TrackFrame DEF Fed, InStep
  <2> QED  BY <1>1, <2>1, <2>2, <2>3, <2>4 DEF Fed, InStep
<1> QED  BY <1>1, <1>3, <1>4, <1>5 DEF Steering

\* A wait is armed task by task.
LEMMA FeedWaiting ==
  ASSUME Sane, AtWaiting, Feed
  PROVE  AtWaiting' /\ Fed
<1> USE DEF AtWaiting
<1>0. TypeOK
  BY DEF Sane, Inv, Structure
<1>1. PICK a \in Agents, r \in TaskIds : script = WaitLane(a, r)
  BY FeedAhead DEF WaitLanes
<1>2. Do(<<"TaskWait", a, r>>) /\ script' = <<>>
  BY <1>1, WaitForm, FeedAhead DEF Feed
<1>3. turn' = turn /\ calls' = calls /\ [Next]_vars
  BY <1>0, <1>2, FeedTaskWait DEF Refusal, vars
<1>4. Calm' /\ closing' = <<>> /\ Ahead' \subseteq WaitLanes
  BY <1>2, <1>3, FeedAhead, CalmFrame DEF Ahead
<1>5. ASSUME InStep
      PROVE  AtWaiting' /\ Fed
  <2>1. PICK m \in mapped : m.slot = a /\ m.rid = r /\ m.name \in watched /\ ~agents[a].waited
    BY <1>1, <1>5, FeedAhead DEF Waiting
  <2>2. MayTaskWait(a, r)
    BY <1>5, <2>1 DEF MayTaskWait, AllTracked, Tracked
  <2>3. Ahead' = Ahead \ {WaitLane(a, r)} /\ Apart'
    BY <1>1, <1>2, <1>5, FeedAhead
  <2>4. /\ OnlyAgent(a) /\ agents'[a].phase = agents[a].phase /\ agents'[a].rid = agents[a].rid
        /\ agents'[a].waited /\ refused' = refused /\ round' = round
        /\ UNCHANGED <<mapped, watched, entries, gaps, steer_pending, round_due>>
    BY <1>0, <1>2, <2>2, FeedTaskWait, FeedAhead
  <2>5. AllTracked' /\ NoneDone'
    BY <1>5, <2>4 DEF AllTracked, AllMapped, Tracked, NoneDone, OnlyAgent, Slots, Sane, Tasks
  <2>6. \A b \in Agents, s \in TaskIds : WaitLane(b, s) \in Ahead' =>
          \E n \in mapped' : n.slot = b /\ n.rid = s /\ n.name \in watched'
    BY <1>5, <2>3, <2>4 DEF Waiting
  <2>7. ASSUME NEW n \in mapped
        PROVE  agents'[n.slot].waited <=> n.name \in watched /\ WaitLane(n.slot, n.rid) \notin Ahead'
    <3>1. CASE n.slot = a
      <4>1. n = m
        BY <2>1, <3>1 DEF Sane, Tasks
      <4> QED  BY <2>1, <2>3, <2>4, <4>1
    <3>2. CASE n.slot # a
      BY <1>5, <2>3, <2>4, <3>2, WaitForm DEF Waiting, OnlyAgent, Sane, Tasks
    <3> QED  BY <3>1, <3>2
  <2> QED  BY <1>3, <1>4, <1>5, <2>3, <2>4, <2>5, <2>6, <2>7 DEF Fed, InStep, Waiting
<1> QED  BY <1>3, <1>4, <1>5, FeedAhead DEF Fed, InStep

\* A wait that claimed results delivers each of them.
LEMMA FeedDrained ==
  ASSUME Sane, AtDrained, Feed
  PROVE  AtDrained' /\ Fed
<1> USE DEF AtDrained
<1>0. TypeOK
  BY DEF Sane, Inv, Structure
<1>1. script \in ClaimLanes /\ Do(Head(script))
  BY FeedAhead DEF Feed
<1>2. ASSUME NEW a \in Agents, NEW r \in TaskIds, script = ClaimLane(a, r)
      PROVE  AtDrained' /\ Fed
  <2>1. Do(<<"AgentComplete", a, r>>) /\ script' = DeliverLane(a, r)
    BY <1>1, <1>2, ClaimForms, FeedAhead
  <2>2. turn' = turn /\ calls' = calls /\ [Next]_vars
    BY <1>0, <2>1, FeedAgentComplete DEF Refusal, vars
  <2>3. Calm' /\ closing' = <<>> /\ Ahead' \subseteq ClaimLanes
    BY <2>1, <2>2, FeedAhead, CalmFrame DEF ClaimLanes
  <2>4. ASSUME InStep
        PROVE  AtDrained' /\ Fed
    <3>1. /\ MayAgentComplete(a, r)
          /\ DeliverLane(a, r) \notin Ahead
      BY <1>2, <2>4, FeedAhead, ClaimForms DEF Claiming, Holds, MayAgentComplete
    <3>2. Ahead' = (Ahead \ {ClaimLane(a, r)}) \cup {DeliverLane(a, r)} /\ Apart'
      BY <1>2, <2>1, <2>4, <3>1, FeedAhead, ClaimForms
    <3>3. /\ OnlyAgent(a) /\ Holds(a, r, "Done")' /\ agents'[a].waited
          /\ Holds(a, r, "Running") /\ agents[a].waited /\ a \notin Slots(mapped)
          /\ mapped' = mapped /\ watched' = watched /\ Slots(mapped)' = Slots(mapped)
          /\ refused' = refused /\ UNCHANGED <<round, round_due, steer_pending, entries, gaps>>
      BY <1>0, <1>2, <2>1, <2>4, <3>1, FeedAgentComplete, FeedAhead DEF Claiming, Holds, Slots, MayAgentComplete
    <3>4. ASSUME NEW b \in Agents, NEW s \in TaskIds, DeliverLane(b, s) \in Ahead'
          PROVE  Holds(b, s, "Done")' /\ agents'[b].waited /\ b \notin Slots(mapped)'
      BY <2>4, <3>2, <3>3, <3>4, ClaimForms DEF Claiming, Holds, OnlyAgent
    <3>5. ASSUME NEW b \in Agents, NEW s \in TaskIds, ClaimLane(b, s) \in Ahead'
          PROVE  Holds(b, s, "Running")' /\ agents'[b].waited /\ b \notin Slots(mapped)'
      <4>1. ClaimLane(b, s) \in Ahead /\ ~(b = a /\ s = r)
        BY <3>2, <3>5, ClaimForms
      <4> QED  BY <2>4, <3>3, <4>1 DEF Claiming, Holds, OnlyAgent
    <3>6. ASSUME NEW b \in Agents, agents'[b].phase # "None", b \notin Slots(mapped)'
          PROVE  \E s \in TaskIds : DeliverLane(b, s) \in Ahead' \/ ClaimLane(b, s) \in Ahead'
      <4>1. CASE b = a   BY <3>2, <4>1
      <4>2. CASE b # a
        <5>1. PICK s \in TaskIds : DeliverLane(b, s) \in Ahead \/ ClaimLane(b, s) \in Ahead
          BY <2>4, <3>3, <3>6, <4>2 DEF Claiming, OnlyAgent
        <5> QED  BY <3>2, <4>2, <5>1, ClaimForms
      <4> QED  BY <4>1, <4>2
    <3>7. \A m \in mapped' : Tracked(m)' /\ ~Done(m)' /\ (agents'[m.slot].waited <=> m.name \in watched')
      BY <2>4, <3>3 DEF Claiming, Tracked, Done, Slots, OnlyAgent, Sane, Tasks
    <3>8. Claiming'
      BY <3>4, <3>5, <3>6, <3>7 DEF Claiming
    <3> QED  BY <2>2, <2>3, <2>4, <3>2, <3>3, <3>8 DEF Fed, InStep
  <2> QED  BY <2>2, <2>3, <2>4, FeedAhead DEF Fed, InStep
<1>3. ASSUME NEW a \in Agents, NEW r \in TaskIds, script = DeliverLane(a, r)
      PROVE  AtDrained' /\ Fed
  <2>1. Do(<<"TaskWaitDeliver", a, r>>) /\ script' = <<>>
    BY <1>1, <1>3, ClaimForms, FeedAhead
  <2>2. turn' = turn /\ calls' = calls /\ [Next]_vars
    BY <1>0, <2>1, FeedTaskWaitDeliver DEF Refusal, vars
  <2>3. Calm' /\ closing' = <<>> /\ Ahead' \subseteq ClaimLanes
    BY <2>1, <2>2, FeedAhead, CalmFrame DEF Ahead
  <2>4. ASSUME InStep
        PROVE  AtDrained' /\ Fed
    <3>1. MayTaskWaitDeliver(a, r)
      BY <1>3, <2>4, FeedAhead, ClaimForms DEF Claiming, Holds, MayTaskWaitDeliver
    <3>2. Ahead' = Ahead \ {DeliverLane(a, r)} /\ Apart'
      BY <1>3, <2>1, <2>4, FeedAhead
    <3>3. /\ OnlyAgent(a) /\ agents'[a].phase = "None"
          /\ Holds(a, r, "Done") /\ a \notin Slots(mapped)
          /\ mapped' = mapped /\ watched' = watched /\ Slots(mapped)' = Slots(mapped)
          /\ refused' = refused /\ round_due' /\ UNCHANGED <<round, steer_pending, entries, gaps>>
      BY <1>0, <1>3, <2>1, <2>4, <3>1, FeedTaskWaitDeliver, FeedAhead DEF Claiming, Holds, Slots, MayTaskWaitDeliver
    <3>4. ASSUME NEW b \in Agents, NEW s \in TaskIds, DeliverLane(b, s) \in Ahead'
          PROVE  Holds(b, s, "Done")' /\ agents'[b].waited /\ b \notin Slots(mapped)'
      <4>1. DeliverLane(b, s) \in Ahead /\ ~(b = a /\ s = r)
        BY <3>2, <3>4, ClaimForms
      <4> QED  BY <2>4, <3>3, <4>1 DEF Claiming, Holds, OnlyAgent
    <3>5. ASSUME NEW b \in Agents, NEW s \in TaskIds, ClaimLane(b, s) \in Ahead'
          PROVE  Holds(b, s, "Running")' /\ agents'[b].waited /\ b \notin Slots(mapped)'
      BY <2>4, <3>2, <3>3, <3>5, ClaimForms DEF Claiming, Holds, OnlyAgent
    <3>6. ASSUME NEW b \in Agents, agents'[b].phase # "None", b \notin Slots(mapped)'
          PROVE  \E s \in TaskIds : DeliverLane(b, s) \in Ahead' \/ ClaimLane(b, s) \in Ahead'
      <4>1. b # a
        BY <3>3, <3>6
      <4>2. PICK s \in TaskIds : DeliverLane(b, s) \in Ahead \/ ClaimLane(b, s) \in Ahead
        BY <2>4, <3>3, <3>6, <4>1 DEF Claiming, OnlyAgent
      <4> QED  BY <3>2, <4>1, <4>2, ClaimForms
    <3>7. \A m \in mapped' : Tracked(m)' /\ ~Done(m)' /\ (agents'[m.slot].waited <=> m.name \in watched')
      BY <2>4, <3>3 DEF Claiming, Tracked, Done, Slots, OnlyAgent, Sane, Tasks
    <3>8. Claiming'
      BY <3>4, <3>5, <3>6, <3>7 DEF Claiming
    <3> QED  BY <2>2, <2>3, <2>4, <3>2, <3>3, <3>8 DEF Fed, InStep
  <2> QED  BY <2>2, <2>3, <2>4, FeedAhead DEF Fed, InStep
<1> QED  BY <1>1, <1>2, <1>3 DEF ClaimLanes

\* A batch that failed: its round closes and the run ends.
LEMMA FeedEnded ==
  ASSUME Sane, host = "ended", AtEnded, Feed
  PROVE  AtEnded' /\ Fed
<1> USE DEF AtEnded
<1>1. /\ Do(<<"RoundEnd">>) /\ script' = <<>> /\ script = <<<<"RoundEnd">>>> /\ lanes' = lanes
      /\ UNCHANGED <<closing, entries, open, gaps, mapped, pool>>
  <2>1. script = <<<<"RoundEnd">>>>
    BY DEF Feed
  <2> QED  BY <2>1, FeedAhead DEF Feed
<1>2. turn' = turn /\ calls' = calls /\ [Next]_vars
  BY <1>1, FeedRoundEnd DEF Refusal, vars, Sane, Inv, Structure
<1>3. Calm'
  BY <1>1, <1>2, CalmFrame
<1>4. ASSUME InStep
      PROVE  AtEnded' /\ Fed
  <2>1. \A c \in Calls : calls[c].phase = "Unused"
    BY NothingOpen DEF Sane, Ledger
  <2>2. round' = "Prep" /\ refused' = refused /\ UNCHANGED <<round_due, steer_pending, agents>>
    BY <1>1, <1>4, <2>1, FeedRoundEndQuiet DEF Quiet
  <2> QED  BY <1>1, <1>2, <1>3, <1>4, <2>2, TrackFrame DEF Fed, InStep, Quiet
<1> QED  BY <1>1, <1>2, <1>3, <1>4 DEF Fed, InStep

\* A cancelled turn has no wait.
LEMMA CancelledWaitsForNothing ==
  ASSUME Structure, turn # "Running" PROVE NoneWaited
BY DEF Structure, WaitsInRound, NoneWaited

\* A turn closes: its round ends if it is open, then the turn itself.
LEMMA FeedIdle ==
  ASSUME Sane, host = "idle", AtIdle, Feed
  PROVE  AtIdle' /\ Fed
<1> USE DEF AtIdle
<1>0. TypeOK /\ Structure
  BY DEF Sane, Inv, Structure
<1>1. /\ Do(Head(script)) /\ script' = Tail(script) /\ script # <<>> /\ lanes' = lanes
      /\ UNCHANGED <<closing, entries, open, gaps, mapped, pool>>
  BY FeedAhead DEF Feed
<1>2. ~Between
  BY <1>1 DEF Between
<1>3. \A c \in Calls : calls[c].phase = "Unused"
  BY NothingOpen DEF Sane, Ledger
<1>4. CASE Cancelling
  <2>1. Do(<<"TurnCancel">>) /\ script' = <<>> /\ closing = Ending /\ turn = "Running"
    BY <1>1, <1>2, <1>4 DEF Cancelling
  <2>2. MayTurnCancel
    BY <2>1 DEF MayTurnCancel
  <2>3. /\ turn' = "Cancelling" /\ refused' = refused /\ [Next]_vars
        /\ \A b \in Agents : agents'[b].phase = agents[b].phase /\ agents'[b].rid = agents[b].rid
        /\ UNCHANGED <<round, round_due, steer_pending, calls>>
    BY <1>0, <2>1, <2>2, FeedTurnCancel
  <2>4. Calm' /\ closing' = Ending'
    BY <1>1, <2>1, <2>3, CalmFrame DEF Ending
  <2>5. NoneWaited'
    <3>1. Structure'
      BY <1>0, <2>3, StructureStep
    <3> QED  BY <2>3, <3>1 DEF Structure, WaitsInRound, NoneWaited
  <2>6. InStep => AllTracked' /\ DoneIsSettled'
    BY <1>1, <2>3 DEF AllTracked, AllMapped, Tracked, DoneIsSettled, Done, Slots, Sane, Tasks
  <2>7. ~Between'
    BY <1>1, <2>1 DEF Between, Ending
  <2> QED  BY <1>1, <2>1, <2>3, <2>4, <2>5, <2>6, <2>7 DEF Fed, InStep
<1>5. CASE script = <<<<"RoundEnd">>, <<"TurnEnd">>>>
  <2>1. /\ Do(<<"RoundEnd">>) /\ script' = <<<<"TurnEnd">>>> /\ closing = <<>> /\ round = "InRound"
        /\ turn # "Idle" /\ ~Between' /\ script' # <<>>
    BY <1>1, <1>2, <1>5 DEF Between, Cancelling
  <2>2. turn' = turn /\ calls' = calls /\ [Next]_vars
    BY <1>0, <2>1, FeedRoundEnd DEF Refusal, vars
  <2>3. Calm'
    BY <1>1, <2>2, CalmFrame
  <2>4. turn = "Cancelling" \/ InStep => NoneWaited
    BY <1>0, CancelledWaitsForNothing
  <2>5. turn = "Cancelling" \/ InStep =>
          round' = "Prep" /\ refused' = refused /\ UNCHANGED <<round_due, steer_pending, agents>>
    BY <1>3, <2>1, <2>4, FeedRoundEndQuiet
  <2>6. InStep => (AllTracked /\ DoneIsSettled /\ NoneWaited)' /\ (NoneDone => NoneDone')
    BY <1>1, <2>5, TrackFrame
  <2>7. /\ lanes' = {} /\ closing' = <<>> /\ turn' # "Idle" /\ script' = <<<<"TurnEnd">>>>
        /\ turn' = "Cancelling" \/ InStep' => round' = "Prep"
    BY <1>1, <2>1, <2>2, <2>5 DEF InStep
  <2>8. InStep' => ~steer_pending' /\ (turn' = "Running" => ~round_due' /\ NoneDone')
    BY <1>1, <1>2, <2>2, <2>5, <2>6 DEF InStep
  <2> QED  BY <1>1, <2>1, <2>2, <2>3, <2>5, <2>6, <2>7, <2>8 DEF Fed, InStep
<1>6. CASE script = <<<<"TurnEnd">>>>
  <2>1. /\ Do(<<"TurnEnd">>) /\ script' = <<>> /\ closing = <<>> /\ Between'
        /\ turn # "Idle" /\ (turn = "Cancelling" \/ InStep => round = "Prep")
    BY <1>1, <1>2, <1>6 DEF Between, Cancelling
  <2>2. calls' = calls /\ [Next]_vars
    BY <1>0, <2>1, FeedTurnEnd DEF Refusal, vars
  <2>3. Calm'
    BY <1>1, <2>2, CalmFrame
  <2>4. turn = "Cancelling" \/ InStep => MayTurnEnd
    BY <1>0, <1>2, <2>1 DEF MayTurnEnd, TypeOK, TurnPhase, NoneDone, DoneAgents
  <2>5. MayTurnEnd => turn' = "Idle" /\ refused' = refused /\ UNCHANGED <<steer_pending, agents>>
    BY <1>0, <2>1, FeedTurnEnd
  <2>6. turn' # "Cancelling"
    BY <1>0, <2>1, <2>4, <2>5, FeedTurnEnd DEF Refusal, vars
  <2> QED  BY <1>1, <2>1, <2>2, <2>3, <2>4, <2>5, <2>6, TrackFrame DEF Fed, InStep
<1> QED  BY <1>1, <1>2, <1>4, <1>5, <1>6

\* An abort sweeps the calls, in any order, and closes the round.
LEMMA FeedAborted ==
  ASSUME Sane, AtAborted, Feed
  PROVE  AtAborted' /\ Fed
<1> USE DEF AtAborted
<1>0. TypeOK /\ Structure
  BY DEF Sane, Inv, Structure
<1>1. /\ Do(Head(script)) /\ script' = Tail(script) /\ script # <<>> /\ lanes' = lanes
      /\ UNCHANGED <<closing, entries, open, gaps, mapped, pool>>
  BY FeedAhead DEF Feed
<1>2. CASE Cancelling
  <2>1. Do(<<"TurnCancel">>) /\ script' = <<>>
    BY <1>1, <1>2 DEF Cancelling
  <2>2. turn = "Running" /\ lanes \subseteq SweepLanes /\ closing = CloseRound
    <3>1. script \notin SweepLanes /\ script # <<<<"RoundEnd">>>>
      BY <1>2, SweepForms DEF Cancelling, SweepLanes
    <3> QED  BY <1>1, <3>1, FeedAhead
  <2>3. /\ turn' = "Cancelling" /\ refused' = refused /\ [Next]_vars
        /\ \A b \in Agents : agents'[b].phase = agents[b].phase /\ agents'[b].rid = agents[b].rid
        /\ UNCHANGED <<round, steer_pending, calls>>
    BY <1>0, <2>1, <2>2, FeedTurnCancel DEF MayTurnCancel
  <2>4. Ahead' = Ahead \ {<<<<"TurnCancel">>>>} /\ Apart'
    BY <1>2, <2>1, FeedAhead DEF Cancelling
  <2>5. ASSUME NEW c \in Calls PROVE Swept(c)'
    BY <1>1, <2>3, <2>4, SweepForms DEF Swept, In, InStep
  <2>6. InStep => AllTracked' /\ DoneIsSettled'
    BY <1>1, <2>3 DEF AllTracked, AllMapped, Tracked, DoneIsSettled, Done, Slots, Sane, Tasks
  <2>7. Ahead' \subseteq SweepLanes
    BY <1>1, <2>1, <2>2 DEF Ahead
  <2> QED  BY <1>1, <2>2, <2>3, <2>4, <2>5, <2>6, <2>7 DEF Fed, InStep, CloseRound, If
<1>3. ASSUME NEW c \in Calls, script = EndLane(c)
      PROVE  AtAborted' /\ Fed
  <2>1. Do(<<"ToolExecEnd", c>>) /\ script' = SettleLane(c)
    BY <1>1, <1>3, SweepForms
  <2>2. turn = "Cancelling" /\ Ahead \subseteq SweepLanes /\ closing = CloseRound
    BY <1>3, SweepForms DEF Cancelling
  <2>3. calls[c].phase = "Executing" /\ SettleLane(c) \notin Ahead
    BY <1>3, FeedAhead DEF Swept, In
  <2>4. /\ OnlyCall(c) /\ calls'[c].phase = "Done" /\ refused' = refused /\ [Next]_vars
        /\ UNCHANGED <<turn, round, steer_pending, agents>>
    BY <1>0, <2>1, <2>3, FeedToolExecEnd DEF MayToolExecEnd
  <2>5. Ahead' = (Ahead \ {EndLane(c)}) \cup {SettleLane(c)} /\ Apart'
    BY <1>3, <2>1, <2>3, FeedAhead, SweepForms
  <2>6. ASSUME NEW d \in Calls PROVE Swept(d)'
    <3>1. CASE d = c
      BY <2>4, <2>5, <3>1, SweepForms DEF Swept, In
    <3>2. CASE d # c
      BY <1>1, <2>4, <2>5, <3>2, SweepForms DEF Swept, In, InStep, OnlyCall
    <3> QED  BY <3>1, <3>2
  <2>7. Ahead' \subseteq SweepLanes
    BY <2>2, <2>5 DEF SweepLanes
  <2> QED  BY <1>1, <2>2, <2>4, <2>5, <2>6, <2>7, TrackFrame DEF Fed, InStep, CloseRound, If
<1>4. ASSUME NEW c \in Calls, script = SettleLane(c)
      PROVE  AtAborted' /\ Fed
  <2>1. Do(<<"ToolSettle", c>>) /\ script' = <<>>
    BY <1>1, <1>4, SweepForms
  <2>2. turn = "Cancelling" /\ Ahead \subseteq SweepLanes /\ closing = CloseRound
    BY <1>4, SweepForms DEF Cancelling
  <2>3. In(c, {"Requested", "Done"}) /\ EndLane(c) \notin Ahead
    BY <1>4, FeedAhead DEF Swept, In
  <2>5. /\ OnlyCall(c) /\ calls'[c].phase = "Unused" /\ Fed
        /\ UNCHANGED <<turn, round, steer_pending, agents>>
    <3>1. CASE MayToolSettle(c)
      BY <1>0, <2>1, <3>1, FeedToolSettle DEF Fed
    <3>2. CASE ~MayToolSettle(c)
      <4>1. calls[c].phase = "Unused" /\ ~InStep
        BY <2>2, <2>3, <3>2 DEF MayToolSettle, In
      <4> QED  BY <1>0, <2>1, <3>2, <4>1, FeedToolSettle DEF Fed, Refusal, vars, OnlyCall
    <3> QED  BY <3>1, <3>2
  <2>6. Ahead' = Ahead \ {SettleLane(c)} /\ Apart'
    BY <1>4, <2>1, FeedAhead
  <2>7. ASSUME NEW d \in Calls PROVE Swept(d)'
    <3>1. CASE d = c
      BY <2>3, <2>5, <2>6, <3>1, SweepForms DEF Swept, In
    <3>2. CASE d # c
      BY <1>1, <2>5, <2>6, <3>2, SweepForms DEF Swept, In, InStep, OnlyCall
    <3> QED  BY <3>1, <3>2
  <2>8. Ahead' \subseteq SweepLanes
    BY <2>2, <2>6
  <2> QED  BY <1>1, <2>2, <2>5, <2>6, <2>7, <2>8, TrackFrame DEF InStep, CloseRound, If
<1>5. CASE script = <<<<"RoundEnd">>>>
  <2>1. Do(<<"RoundEnd">>) /\ script' = <<>>
    BY <1>1, <1>5
  <2>2. turn = "Cancelling" /\ round = "InRound" /\ lanes = {} /\ closing = <<>>
    <3>1. script \notin SweepLanes /\ ~Cancelling
      BY <1>5, SweepForms DEF Cancelling, SweepLanes
    <3> QED  BY <1>1, <3>1, FeedAhead
  <2>3. Ahead = {<<<<"RoundEnd">>>>} /\ Ahead' = {}
    BY <1>1, <1>5, <2>1, <2>2 DEF Ahead
  <2>4. \A c \in Calls : calls[c].phase = "Unused"
    BY <2>3, SweepForms DEF Swept
  <2>5. /\ round' = "Prep" /\ refused' = refused /\ [Next]_vars
        /\ UNCHANGED <<turn, steer_pending, calls, agents>>
    BY <1>0, <1>5, <2>1, <2>2, <2>4, FeedRoundEndQuiet, CancelledWaitsForNothing
  <2>6. \A c \in Calls : Swept(c)'
    BY <2>3, <2>4, <2>5 DEF Swept
  <2> QED  BY <1>1, <2>1, <2>2, <2>3, <2>5, <2>6, TrackFrame DEF Fed, InStep, CloseRound, If, Apart
<1> QED  BY <1>1, <1>2, <1>3, <1>4, <1>5, FeedAhead DEF SweepLanes

\* The script that reports a started task.
LEMMA SpawnForm ==
  ASSUME NEW a, NEW r
  PROVE  /\ Head(SpawnScript(a, r)) = <<"AgentSpawn", a, r>> /\ Tail(SpawnScript(a, r)) = <<>>
         /\ SpawnScript(a, r) # <<>>
         /\ \A b, s : SpawnScript(a, r) = SpawnScript(b, s) => a = b /\ r = s
         /\ \A c, b, s : SpawnScript(a, r) # HandScript(c, b, s)
         /\ \A b, s : SpawnScript(a, r) # TimeoutLane(b, s)
BY DEF SpawnScript, HandScript, TimeoutLane

\* A spawn the kernel hears of is one it has room for.
LEMMA SpawnIsBorn ==
  ASSUME Sane, Bearing, turn = "Running", Feed, NEW a \in Agents, NEW r \in TaskIds, script = SpawnScript(a, r)
  PROVE  /\ script' = <<>> /\ refused' = refused /\ [Next]_vars /\ round_due'
         /\ UNCHANGED <<turn, round, steer_pending, calls>>
         /\ OnlyAgent(a) /\ agents[a].phase = "None"
         /\ agents'[a].phase = "Running" /\ agents'[a].waited = agents[a].waited
         /\ Bearing'
<1>0. TypeOK
  BY DEF Sane, Inv, Structure
<1>1. Do(<<"AgentSpawn", a, r>>) /\ script' = <<>> /\ mapped' = mapped
  BY SpawnForm, FeedAhead DEF Feed
<1>2. /\ agents[a].phase = "None" /\ agents[a].rid # r /\ Room /\ round = "InRound"
      /\ a \in Slots(mapped)
  BY DEF Bearing, Unborn
<1>3. MayAgentSpawn(a, r)
  BY <1>2 DEF MayAgentSpawn, Room
<1>4. /\ OnlyAgent(a) /\ agents'[a].phase = "Running" /\ agents'[a].rid = r
      /\ agents'[a].waited = agents[a].waited
      /\ refused' = refused /\ [Next]_vars /\ round_due'
      /\ UNCHANGED <<turn, round, steer_pending, calls>>
  BY <1>0, <1>1, <1>3, FeedAgentSpawn
<1>5. \A b, s : ~Unborn(b, s)'
  BY <1>1, SpawnForm DEF Unborn, SpawnScript, HandScript
<1>6. ASSUME NEW m \in mapped PROVE Tracked(m)'
  <2>1. CASE m.slot = a
    <3>1. m.rid = r
      BY <1>2, <2>1, SpawnForm DEF Bearing, Tracked, Unborn
    <3> QED  BY <1>4, <2>1, <3>1 DEF Tracked
  <2>2. CASE m.slot # a
    <3>1. Tracked(m)
      BY <2>2, SpawnForm DEF Bearing, Unborn, Sane, Tasks
    <3> QED  BY <1>4, <2>2, <3>1 DEF Tracked, OnlyAgent, Sane, Tasks
  <2> QED  BY <2>1, <2>2
<1>7. AllMapped'
  BY <1>1, <1>2, <1>4 DEF AllMapped, OnlyAgent, Slots, Bearing
<1>8. \A c, b, s : script' # HandScript(c, b, s)
  BY <1>1 DEF HandScript
<1> QED  BY <1>1, <1>2, <1>4, <1>5, <1>6, <1>7, <1>8 DEF Bearing

\* A turn that is about to abort still reports what its calls had started.
LEMMA FeedAbort ==
  ASSUME Sane, AtAbort, Feed
  PROVE  AtAbort' /\ Fed
<1> USE DEF AtAbort
<1>0. TypeOK
  BY DEF Sane, Inv, Structure
<1>1. PICK a \in Agents, r \in TaskIds : script = SpawnScript(a, r)
  BY FeedAhead DEF SpawnScripts
<1>2. Do(<<"AgentSpawn", a, r>>) /\ script' = <<>>
  BY <1>1, SpawnForm, FeedAhead DEF Feed
<1>3. turn' = turn /\ calls' = calls /\ [Next]_vars
  BY <1>0, <1>2, FeedAgentSpawn DEF Refusal, vars
<1>4. Calm' /\ closing' = <<>> /\ lanes' = {} /\ Ahead' \subseteq SpawnScripts
  BY <1>2, <1>3, FeedAhead, CalmFrame DEF Ahead
<1>5. ASSUME InStep PROVE AtAbort' /\ Fed
  <2>1. /\ refused' = refused /\ steer_pending' = steer_pending /\ Bearing'
        /\ OnlyAgent(a) /\ agents'[a].phase = "Running"
    BY <1>1, <1>5, SpawnIsBorn
  <2>2. DoneIsSettled'
    BY <1>5, <2>1, FeedAhead DEF DoneIsSettled, Done, OnlyAgent, Sane, Tasks
  <2> QED  BY <1>3, <1>4, <1>5, <2>1, <2>2 DEF Fed, InStep
<1> QED  BY <1>3, <1>4, <1>5, FeedAhead DEF Fed, InStep

\* Scripts of call events.
OfCall(s) ==
  s # <<>> => s[1][1] \in {"ToolRequest", "ToolAllow", "ToolApprove", "ToolDeny", "ToolExecStart", "ToolExecEnd",
                           "ToolSettle"}

\* A script of call events is none of the scripts about tasks.
LEMMA OfCallIsNoTask ==
  ASSUME NEW s, OfCall(s), NEW a, NEW r
  PROVE  s # TimeoutLane(a, r) /\ s # SpawnScript(a, r) /\ \A c : s # HandScript(c, a, r)
BY DEF OfCall, TimeoutLane, SpawnScript, HandScript

\* Call events leave the tasks of a batch alone.
LEMMA BatchFrame ==
  ASSUME lanes = {}, lanes' = {}, OfCall(script), OfCall(script'), UNCHANGED <<agents, mapped>>
  PROVE  /\ NoneDone => NoneDone'
         /\ Expiring => Expiring'
         /\ Bearing => Bearing'
         /\ Apart'
<1>1. /\ \A a, r : ~Unborn(a, r) /\ ~Unborn(a, r)'
      /\ \A c, a, r : script' # HandScript(c, a, r)
  BY OfCallIsNoTask DEF Unborn
<1>2. \A a, r : TimeoutLane(a, r) \notin Ahead /\ TimeoutLane(a, r) \notin Ahead'
  BY OfCallIsNoTask DEF Ahead
<1>3. Expiring => Expiring'
  BY <1>2 DEF Expiring
<1>4. Bearing => Bearing'
  BY <1>1 DEF Bearing, AllMapped, Tracked, Slots
<1> QED  BY <1>3, <1>4 DEF Apart, NoneDone

\* A request in the round.
LEMMA Requested ==
  ASSUME Sane, turn = "Running", InStep => round = "InRound",
         NEW c \in Calls, NEW d \in BOOLEAN, calls[c].phase = "Unused", Do(<<"ToolRequest", c, d>>)
  PROVE  /\ Fed /\ OnlyCall(c) /\ UNCHANGED <<turn, round, round_due, steer_pending, agents>>
         /\ calls'[c].phase = "Requested" \/ (calls'[c].phase = "Unused" /\ ~InStep)
         /\ calls'[c].phase = "Requested" => calls'[c].danger = d
<1>0. TypeOK
  BY DEF Sane, Inv, Structure
<1>1. CASE MayToolRequest(c)
  BY <1>0, <1>1, FeedToolRequest DEF Fed
<1>2. CASE ~MayToolRequest(c)
  <2>1. ~InStep
    BY <1>2 DEF MayToolRequest
  <2> QED  BY <1>0, <1>2, <2>1, FeedToolRequest DEF Fed, Refusal, vars, OnlyCall
<1> QED  BY <1>1, <1>2

\* A grant, a start, an end, a denial or a receipt of a call in the phase it
\* wants; it is refused when the kernel does not know the call.
LEMMA Allowed ==
  ASSUME Sane, turn = "Running", NEW c \in Calls, In(c, {"Requested"}),
         \/ Do(<<"ToolAllow", c>>) /\ (calls[c].phase = "Requested" => ~calls[c].danger)
         \/ Do(<<"ToolApprove", c>>) /\ (calls[c].phase = "Requested" => calls[c].danger)
  PROVE  /\ Fed /\ OnlyCall(c) /\ UNCHANGED <<turn, round, round_due, steer_pending, agents>>
         /\ calls'[c].phase = "Allowed" \/ (calls'[c].phase = "Unused" /\ ~InStep)
         /\ calls'[c].phase = "Allowed" => calls'[c].fresh /\ calls'[c].danger = calls[c].danger
<1>0. TypeOK
  BY DEF Sane, Inv, Structure
<1>1. CASE Do(<<"ToolAllow", c>>) /\ (calls[c].phase = "Requested" => ~calls[c].danger)
  <2>1. CASE calls[c].phase = "Requested"
    BY <1>0, <1>1, <2>1, FeedToolAllow DEF Fed, MayToolAllow
  <2>2. CASE calls[c].phase = "Unused" /\ ~InStep
    BY <1>0, <1>1, <2>2, FeedToolAllow DEF Fed, MayToolAllow, Refusal, vars, OnlyCall
  <2> QED  BY <2>1, <2>2 DEF In
<1>2. CASE Do(<<"ToolApprove", c>>) /\ (calls[c].phase = "Requested" => calls[c].danger)
  <2>1. CASE calls[c].phase = "Requested"
    BY <1>0, <1>2, <2>1, FeedToolApprove DEF Fed, MayToolApprove
  <2>2. CASE calls[c].phase = "Unused" /\ ~InStep
    BY <1>0, <1>2, <2>2, FeedToolApprove DEF Fed, MayToolApprove, Refusal, vars, OnlyCall
  <2> QED  BY <2>1, <2>2 DEF In
<1> QED  BY <1>1, <1>2

\* A call starts to execute.
LEMMA Started ==
  ASSUME Sane, turn = "Running", NEW c \in Calls, In(c, {"Allowed"}),
         calls[c].phase = "Allowed" => calls[c].fresh, Do(<<"ToolExecStart", c>>)
  PROVE  /\ Fed /\ OnlyCall(c) /\ UNCHANGED <<turn, round, round_due, steer_pending, agents>>
         /\ calls'[c].phase = "Executing" \/ (calls'[c].phase = "Unused" /\ ~InStep)
         /\ calls'[c].phase = "Executing" => calls[c].phase = "Allowed" /\ calls'[c].danger = calls[c].danger
<1>0. TypeOK /\ FreshOnlyAllowed
  BY DEF Sane, Inv, Structure
<1>1. CASE calls[c].phase = "Allowed"
  BY <1>0, <1>1, FeedToolExecStart DEF Fed, MayToolExecStart
<1>2. CASE calls[c].phase = "Unused" /\ ~InStep
  BY <1>0, <1>2, FeedToolExecStart DEF Fed, MayToolExecStart, FreshOnlyAllowed, Refusal, vars, OnlyCall
<1> QED  BY <1>1, <1>2 DEF In

\* A call has executed.
LEMMA Ended ==
  ASSUME Sane, NEW c \in Calls, In(c, {"Executing", "ExecBg"}), Do(<<"ToolExecEnd", c>>)
  PROVE  /\ Fed /\ OnlyCall(c) /\ UNCHANGED <<turn, round, round_due, steer_pending, agents>>
         /\ calls'[c].phase = "Done" \/ (calls'[c].phase = "Unused" /\ ~InStep)
<1>0. TypeOK
  BY DEF Sane, Inv, Structure
<1>1. CASE calls[c].phase \in {"Executing", "ExecBg"}
  BY <1>0, <1>1, FeedToolExecEnd DEF Fed, MayToolExecEnd
<1>2. CASE calls[c].phase = "Unused" /\ ~InStep
  BY <1>0, <1>2, FeedToolExecEnd DEF Fed, MayToolExecEnd, Refusal, vars, OnlyCall
<1> QED  BY <1>1, <1>2 DEF In

\* A call is denied.
LEMMA Denied ==
  ASSUME Sane, turn = "Running", NEW c \in Calls, In(c, {"Requested"}), Do(<<"ToolDeny", c>>)
  PROVE  /\ Fed /\ OnlyCall(c) /\ UNCHANGED <<turn, round, round_due, steer_pending, agents>>
         /\ calls'[c].phase = "Denied" \/ (calls'[c].phase = "Unused" /\ ~InStep)
<1>0. TypeOK
  BY DEF Sane, Inv, Structure
<1>1. CASE calls[c].phase = "Requested"
  BY <1>0, <1>1, FeedToolDeny DEF Fed, MayToolDeny
<1>2. CASE calls[c].phase = "Unused" /\ ~InStep
  BY <1>0, <1>2, FeedToolDeny DEF Fed, MayToolDeny, Refusal, vars, OnlyCall
<1> QED  BY <1>1, <1>2 DEF In

\* A call is settled and leaves its slot.
LEMMA Settled ==
  ASSUME Sane, NEW c \in Calls, In(c, {"Denied", "Done"}), Do(<<"ToolSettle", c>>)
  PROVE  /\ Fed /\ OnlyCall(c) /\ UNCHANGED <<turn, round, steer_pending, agents>>
         /\ calls'[c].phase = "Unused" /\ (InStep => round_due')
<1>0. TypeOK
  BY DEF Sane, Inv, Structure
<1>1. CASE calls[c].phase \in {"Denied", "Done"}
  BY <1>0, <1>1, FeedToolSettle DEF Fed, MayToolSettle
<1>2. CASE calls[c].phase = "Unused" /\ ~InStep
  BY <1>0, <1>2, FeedToolSettle DEF Fed, MayToolSettle, Refusal, vars, OnlyCall
<1> QED  BY <1>1, <1>2 DEF In

\* The scripts of a call, event by event.
LEMMA CallForms ==
  ASSUME NEW c, NEW d
  PROVE  LET rq == <<"ToolRequest", c, d>>
             al == <<"ToolAllow", c>>
             ap == <<"ToolApprove", c>>
             dn == <<"ToolDeny", c>>
             xs == <<"ToolExecStart", c>>
             xe == <<"ToolExecEnd", c>>
             st == <<"ToolSettle", c>>
         IN  /\ Head(<<rq>>) = rq /\ Tail(<<rq>>) = <<>>
             /\ Head(<<rq, al, xs>>) = rq /\ Tail(<<rq, al, xs>>) = <<al, xs>>
             /\ Head(<<al, xs>>) = al /\ Tail(<<al, xs>>) = <<xs>>
             /\ Head(<<xs>>) = xs /\ Tail(<<xs>>) = <<>>
             /\ Head(<<rq, dn, st>>) = rq /\ Tail(<<rq, dn, st>>) = <<dn, st>>
             /\ Head(<<dn, st>>) = dn /\ Tail(<<dn, st>>) = SettleLane(c)
             /\ Head(<<ap, xs, xe, st>>) = ap /\ Tail(<<ap, xs, xe, st>>) = <<xs, xe, st>>
             /\ Head(<<xs, xe, st>>) = xs /\ Tail(<<xs, xe, st>>) = EndLane(c)
BY DEF SettleLane, EndLane

\* A resolution goes on to its receipt.
LEMMA FeedResolving ==
  ASSUME Sane, turn = "Running", InStep => round = "InRound", Feed,
         NEW c \in Calls, Resolving(c)
  PROVE  /\ Fed /\ OnlyCall(c) /\ UNCHANGED <<turn, round, steer_pending, agents>>
         /\ OfCall(script) /\ OfCall(script')
         /\ \/ Resolving(c)'
            \/ script' = <<>> /\ calls'[c].phase = "Unused" /\ (InStep => round_due')
<1>1. /\ Do(Head(script)) /\ script' = Tail(script)
      /\ c \notin Slots(entries)' /\ (InStep' <=> InStep)
  BY FeedAhead DEF Feed, Resolving, Slots, InStep
<1>2. CASE script = <<<<"ToolRequest", c, FALSE>>, <<"ToolDeny", c>>, <<"ToolSettle", c>>>> /\ calls[c].phase = "Unused"
  <2>1. Do(<<"ToolRequest", c, FALSE>>) /\ script' = <<<<"ToolDeny", c>>, <<"ToolSettle", c>>>>
    BY <1>1, <1>2, CallForms
  <2>2. /\ Fed /\ OnlyCall(c) /\ UNCHANGED <<turn, round, steer_pending, agents>>
        /\ calls'[c].phase = "Requested" \/ (calls'[c].phase = "Unused" /\ ~InStep)
    BY <1>2, <2>1, Requested
  <2>3. Resolving(c)'
    BY <1>1, <2>1, <2>2 DEF Resolving, In
  <2> QED  BY <1>2, <2>1, <2>2, <2>3 DEF OfCall
<1>3. CASE script = <<<<"ToolDeny", c>>, <<"ToolSettle", c>>>> /\ In(c, {"Requested"})
  <2>1. Do(<<"ToolDeny", c>>) /\ script' = SettleLane(c)
    BY <1>1, <1>3, CallForms
  <2>2. /\ Fed /\ OnlyCall(c) /\ UNCHANGED <<turn, round, steer_pending, agents>>
        /\ calls'[c].phase = "Denied" \/ (calls'[c].phase = "Unused" /\ ~InStep)
    BY <1>3, <2>1, Denied
  <2>3. Resolving(c)'
    BY <1>1, <2>1, <2>2 DEF Resolving, In
  <2> QED  BY <1>3, <2>1, <2>2, <2>3 DEF OfCall, SettleLane
<1>4. CASE /\ script = <<<<"ToolApprove", c>>, <<"ToolExecStart", c>>, <<"ToolExecEnd", c>>, <<"ToolSettle", c>>>>
           /\ In(c, {"Requested"}) /\ (calls[c].phase = "Requested" => calls[c].danger)
  <2>1. Do(<<"ToolApprove", c>>) /\ script' = <<<<"ToolExecStart", c>>, <<"ToolExecEnd", c>>, <<"ToolSettle", c>>>>
    BY <1>1, <1>4, CallForms
  <2>2. /\ Fed /\ OnlyCall(c) /\ UNCHANGED <<turn, round, steer_pending, agents>>
        /\ calls'[c].phase = "Allowed" \/ (calls'[c].phase = "Unused" /\ ~InStep)
        /\ calls'[c].phase = "Allowed" => calls'[c].fresh
    BY <1>4, <2>1, Allowed
  <2>3. Resolving(c)'
    BY <1>1, <2>1, <2>2 DEF Resolving, In
  <2> QED  BY <1>4, <2>1, <2>2, <2>3 DEF OfCall
<1>5. CASE /\ script = <<<<"ToolExecStart", c>>, <<"ToolExecEnd", c>>, <<"ToolSettle", c>>>>
           /\ In(c, {"Allowed"}) /\ (calls[c].phase = "Allowed" => calls[c].fresh)
  <2>1. Do(<<"ToolExecStart", c>>) /\ script' = EndLane(c)
    BY <1>1, <1>5, CallForms
  <2>2. /\ Fed /\ OnlyCall(c) /\ UNCHANGED <<turn, round, steer_pending, agents>>
        /\ calls'[c].phase = "Executing" \/ (calls'[c].phase = "Unused" /\ ~InStep)
    BY <1>5, <2>1, Started
  <2>3. Resolving(c)'
    BY <1>1, <2>1, <2>2 DEF Resolving, In
  <2> QED  BY <1>5, <2>1, <2>2, <2>3 DEF OfCall, EndLane
<1>6. CASE script = EndLane(c) /\ In(c, {"Executing", "ExecBg"})
  <2>1. Do(<<"ToolExecEnd", c>>) /\ script' = SettleLane(c)
    BY <1>1, <1>6, SweepForms
  <2>2. /\ Fed /\ OnlyCall(c) /\ UNCHANGED <<turn, round, steer_pending, agents>>
        /\ calls'[c].phase = "Done" \/ (calls'[c].phase = "Unused" /\ ~InStep)
    BY <1>6, <2>1, Ended
  <2>3. Resolving(c)'
    BY <1>1, <2>1, <2>2 DEF Resolving, In
  <2> QED  BY <1>6, <2>1, <2>2, <2>3 DEF OfCall, SettleLane, EndLane
<1>7. CASE script = SettleLane(c) /\ In(c, {"Denied", "Done"})
  <2>1. Do(<<"ToolSettle", c>>) /\ script' = <<>>
    BY <1>1, <1>7, SweepForms
  <2>2. /\ Fed /\ OnlyCall(c) /\ UNCHANGED <<turn, round, steer_pending, agents>>
        /\ calls'[c].phase = "Unused" /\ (InStep => round_due')
    BY <1>7, <2>1, Settled
  <2> QED  BY <1>7, <2>1, <2>2 DEF OfCall, SettleLane
<1> QED  BY <1>2, <1>3, <1>4, <1>5, <1>6, <1>7 DEF Resolving

\* A request goes on until the call waits for its verdict or runs.
LEMMA FeedOpening ==
  ASSUME Sane, turn = "Running", InStep => round = "InRound", Feed,
         NEW c \in Calls, NEW e \in entries, NEW k \in open, Opening(c, e, k)
  PROVE  /\ Fed /\ OnlyCall(c) /\ UNCHANGED <<turn, round, steer_pending, agents>>
         /\ OfCall(script) /\ OfCall(script')
         /\ \/ Opening(c, e, k)'
            \/ script' = <<>> /\ AtRest(c)'
<1>0. Ledger
  BY DEF Sane
<1>1. /\ Do(Head(script)) /\ script' = Tail(script)
      /\ entries' = entries /\ open' = open /\ (InStep' <=> InStep)
      /\ e.slot = c /\ e.id = k.id /\ k.danger \in BOOLEAN
  BY <1>0, FeedAhead DEF Feed, Opening, InStep, Ledger
<1>2. \A f \in entries, j \in open : f.slot = c /\ f.id = j.id => f = e /\ j = k
  BY <1>0, <1>1 DEF Ledger
<1>3. ASSUME In(c, Expected(k))', calls'[c].phase # "Unused" => calls'[c].danger = k.danger
      PROVE  AtRest(c)'
  BY <1>1, <1>2, <1>3 DEF AtRest, Slots
<1>4. CASE /\ script = <<<<"ToolRequest", c, k.danger>>>>
           /\ k.denied \/ k.danger
           /\ calls[c].phase = "Unused"
  <2>1. Do(<<"ToolRequest", c, k.danger>>) /\ script' = <<>>
    BY <1>1, <1>4, CallForms
  <2>2. /\ Fed /\ OnlyCall(c) /\ UNCHANGED <<turn, round, steer_pending, agents>>
        /\ calls'[c].phase = "Requested" \/ (calls'[c].phase = "Unused" /\ ~InStep)
        /\ calls'[c].phase = "Requested" => calls'[c].danger = k.danger
    BY <1>1, <1>4, <2>1, Requested
  <2>3. AtRest(c)'
    BY <1>1, <1>3, <1>4, <2>2 DEF In, Expected
  <2> QED  BY <1>4, <2>1, <2>2, <2>3 DEF OfCall
<1>5. CASE /\ script = <<<<"ToolRequest", c, FALSE>>, <<"ToolAllow", c>>, <<"ToolExecStart", c>>>>
           /\ ~k.denied /\ ~k.danger
           /\ calls[c].phase = "Unused"
  <2>1. Do(<<"ToolRequest", c, FALSE>>) /\ script' = <<<<"ToolAllow", c>>, <<"ToolExecStart", c>>>>
    BY <1>1, <1>5, CallForms
  <2>2. /\ Fed /\ OnlyCall(c) /\ UNCHANGED <<turn, round, steer_pending, agents>>
        /\ calls'[c].phase = "Requested" \/ (calls'[c].phase = "Unused" /\ ~InStep)
        /\ calls'[c].phase = "Requested" => ~calls'[c].danger
    BY <1>5, <2>1, Requested
  <2>3. Opening(c, e, k)'
    BY <1>1, <1>5, <2>1, <2>2 DEF Opening, In
  <2> QED  BY <1>5, <2>1, <2>2, <2>3 DEF OfCall
<1>6. CASE /\ script = <<<<"ToolAllow", c>>, <<"ToolExecStart", c>>>>
           /\ ~k.denied /\ ~k.danger
           /\ In(c, {"Requested"}) /\ (calls[c].phase = "Requested" => ~calls[c].danger)
  <2>1. Do(<<"ToolAllow", c>>) /\ script' = <<<<"ToolExecStart", c>>>>
    BY <1>1, <1>6, CallForms
  <2>2. /\ Fed /\ OnlyCall(c) /\ UNCHANGED <<turn, round, steer_pending, agents>>
        /\ calls'[c].phase = "Allowed" \/ (calls'[c].phase = "Unused" /\ ~InStep)
        /\ calls'[c].phase = "Allowed" => calls'[c].fresh /\ calls'[c].danger = calls[c].danger
    BY <1>6, <2>1, Allowed
  <2>3. calls'[c].phase = "Allowed" => calls[c].phase = "Requested"
    BY <1>6, <2>1, FeedToolAllow DEF Sane, Inv, Structure, MayToolAllow, In, Refusal, vars
  <2>4. Opening(c, e, k)'
    BY <1>1, <1>6, <2>1, <2>2, <2>3 DEF Opening, In
  <2> QED  BY <1>6, <2>1, <2>2, <2>4 DEF OfCall
<1>7. CASE /\ script = <<<<"ToolExecStart", c>>>>
           /\ ~k.denied /\ ~k.danger
           /\ In(c, {"Allowed"}) /\ (calls[c].phase = "Allowed" => calls[c].fresh /\ ~calls[c].danger)
  <2>1. Do(<<"ToolExecStart", c>>) /\ script' = <<>>
    BY <1>1, <1>7, CallForms
  <2>2. /\ Fed /\ OnlyCall(c) /\ UNCHANGED <<turn, round, steer_pending, agents>>
        /\ calls'[c].phase = "Executing" \/ (calls'[c].phase = "Unused" /\ ~InStep)
        /\ calls'[c].phase = "Executing" => calls'[c].danger = FALSE
    BY <1>7, <2>1, Started DEF Sane, Inv, Structure, TypeOK, CallSlot
  <2>3. AtRest(c)'
    <3>1. k.danger = FALSE /\ "Executing" \in Expected(k)
      BY <1>1, <1>7 DEF Expected
    <3>2. In(c, Expected(k))'
      BY <1>1, <2>2, <3>1 DEF In, Expected
    <3> QED  BY <1>3, <2>2, <3>1, <3>2 DEF In
  <2> QED  BY <1>7, <2>1, <2>2, <2>3 DEF OfCall
<1> QED  BY <1>4, <1>5, <1>6, <1>7 DEF Opening

\* The lane that disarms a wait that ran out.
LEMMA TimeoutForm ==
  ASSUME NEW a, NEW r
  PROVE  /\ Head(TimeoutLane(a, r)) = <<"TaskWaitTimeout", a, r>> /\ Tail(TimeoutLane(a, r)) = <<>>
         /\ TimeoutLane(a, r) # <<>> /\ ~OfCall(TimeoutLane(a, r))
         /\ \A b, s : TimeoutLane(a, r) = TimeoutLane(b, s) => a = b /\ r = s
         /\ \A b, s : TimeoutLane(a, r) # SpawnScript(b, s) /\ \A c : TimeoutLane(a, r) # HandScript(c, b, s)
BY DEF SpawnScript, HandScript, TimeoutLane, OfCall

\* The script that turns a call into a task.
LEMMA HandForm ==
  ASSUME NEW c, NEW a, NEW r
  PROVE  /\ Head(HandScript(c, a, r)) = <<"ToolBackground", c, a, r>> /\ Tail(HandScript(c, a, r)) = <<>>
         /\ HandScript(c, a, r) # <<>>
         /\ \A d, b, s : HandScript(c, a, r) = HandScript(d, b, s) => c = d /\ a = b /\ r = s
         /\ \A b, s : HandScript(c, a, r) # SpawnScript(b, s) /\ HandScript(c, a, r) # TimeoutLane(b, s)
BY DEF SpawnScript, HandScript, TimeoutLane

\* Nothing is unborn once the script is through.
LEMMA NoneUnborn ==
  ASSUME script = <<>> PROVE \A a, r : ~Unborn(a, r) /\ \A c : script # HandScript(c, a, r)
BY SpawnForm, HandForm DEF Unborn

\* A wait ran out while a batch runs.
LEMMA FeedTimeout ==
  ASSUME Sane, AtBatch, Feed, NEW a \in Agents, NEW r \in TaskIds, script = TimeoutLane(a, r),
         Calm, Ahead \subseteq TimeoutLanes \cup SpawnScripts \cup HandScripts
  PROVE  AtBatch' /\ Fed
<1> USE DEF AtBatch
<1>0. TypeOK
  BY DEF Sane, Inv, Structure
<1>1. Do(<<"TaskWaitTimeout", a, r>>) /\ script' = <<>>
  BY TimeoutForm, FeedAhead DEF Feed
<1>2. turn' = turn /\ calls' = calls /\ [Next]_vars
  BY <1>0, <1>1, FeedTaskWaitTimeout DEF Refusal, vars
<1>3. /\ Calm' /\ closing' = <<>> /\ Ahead' \subseteq TimeoutLanes \cup SpawnScripts \cup HandScripts
      /\ \A c, b, s : script' # HandScript(c, b, s) /\ ~Unborn(b, s)'
  BY <1>1, <1>2, FeedAhead, CalmFrame, NoneUnborn DEF Ahead, Unborn, SpawnScript, HandScript
<1>4. ASSUME InStep PROVE AtBatch' /\ Fed
  <2>1. Holds(a, r, "Running") /\ agents[a].waited
    BY <1>4, FeedAhead DEF Expiring
  <2>2. MayTaskWaitTimeout(a, r)
    BY <2>1 DEF MayTaskWaitTimeout, Holds
  <2>3. /\ OnlyAgent(a) /\ agents'[a].phase = agents[a].phase /\ agents'[a].rid = agents[a].rid
        /\ ~agents'[a].waited /\ round_due' /\ refused' = refused
        /\ UNCHANGED <<round, steer_pending, mapped, entries, gaps>>
    BY <1>0, <1>1, <2>2, FeedTaskWaitTimeout, FeedAhead
  <2>4. Ahead' = Ahead \ {TimeoutLane(a, r)} /\ Apart'
    BY <1>1, <1>4, FeedAhead
  <2>5. Expiring'
    <3>1. ASSUME NEW b \in Agents, NEW s \in TaskIds, TimeoutLane(b, s) \in Ahead'
          PROVE  Holds(b, s, "Running")' /\ agents'[b].waited
      <4>1. TimeoutLane(b, s) \in Ahead /\ ~(b = a /\ s = r)
        BY <2>4, <3>1
      <4> QED  BY <1>4, <2>1, <2>3, <4>1 DEF Expiring, Holds, OnlyAgent
    <3>2. ASSUME NEW b \in Agents, agents'[b].waited PROVE \E s \in TaskIds : TimeoutLane(b, s) \in Ahead'
      <4>1. b # a
        BY <2>3, <3>2
      <4>2. PICK s \in TaskIds : TimeoutLane(b, s) \in Ahead
        BY <1>4, <2>3, <3>2, <4>1 DEF Expiring, OnlyAgent
      <4> QED  BY <2>4, <4>1, <4>2, TimeoutForm
    <3> QED  BY <3>1, <3>2 DEF Expiring
  <2>6. \A m \in mapped : Tracked(m)
    <3>1. ASSUME NEW b, NEW s PROVE ~Unborn(b, s)
      BY DEF Unborn, TimeoutLane, SpawnScript, HandScript
    <3> QED  BY <1>4, <3>1 DEF Bearing
  <2>7. Bearing'
    BY <1>3, <1>4, <2>3, <2>6 DEF Bearing, AllMapped, Tracked, OnlyAgent, Slots, Sane, Tasks
  <2>8. NoneDone'
    BY <1>4, <2>3 DEF NoneDone, OnlyAgent
  <2> QED  BY <1>2, <1>3, <1>4, <2>3, <2>4, <2>5, <2>7, <2>8, FeedAhead DEF Fed, InStep
<1> QED  BY <1>2, <1>3, <1>4, FeedAhead DEF Fed, InStep

\* A task started while a batch runs.
LEMMA FeedSpawn ==
  ASSUME Sane, AtBatch, Feed, NEW a \in Agents, NEW r \in TaskIds, script = SpawnScript(a, r),
         Calm, Ahead \subseteq TimeoutLanes \cup SpawnScripts \cup HandScripts
  PROVE  AtBatch' /\ Fed
<1> USE DEF AtBatch
<1>0. TypeOK
  BY DEF Sane, Inv, Structure
<1>1. Do(<<"AgentSpawn", a, r>>) /\ script' = <<>>
  BY SpawnForm, FeedAhead DEF Feed
<1>2. turn' = turn /\ calls' = calls /\ [Next]_vars
  BY <1>0, <1>1, FeedAgentSpawn DEF Refusal, vars
<1>3. /\ Calm' /\ closing' = <<>> /\ Ahead' \subseteq TimeoutLanes \cup SpawnScripts \cup HandScripts
      /\ \A c, b, s : script' # HandScript(c, b, s)
  BY <1>1, <1>2, FeedAhead, CalmFrame DEF Ahead, HandScript
<1>4. ASSUME InStep PROVE AtBatch' /\ Fed
  <2>1. /\ refused' = refused /\ round_due' /\ UNCHANGED <<round, steer_pending>> /\ Bearing'
        /\ OnlyAgent(a) /\ agents[a].phase = "None"
        /\ agents'[a].phase = "Running" /\ agents'[a].waited = agents[a].waited
    BY <1>4, SpawnIsBorn
  <2>2. Ahead' = Ahead \ {SpawnScript(a, r)} /\ Apart'
    BY <1>1, <1>4, FeedAhead
  <2>3. Expiring'
    BY <1>4, <2>1, <2>2, SpawnForm DEF Expiring, Holds, OnlyAgent
  <2>4. NoneDone'
    BY <1>4, <2>1 DEF NoneDone, OnlyAgent
  <2> QED  BY <1>2, <1>3, <1>4, <2>1, <2>2, <2>3, <2>4, FeedAhead DEF Fed, InStep
<1> QED  BY <1>2, <1>3, <1>4, FeedAhead DEF Fed, InStep

\* A call of the batch went on as a task.
LEMMA FeedHand ==
  ASSUME Sane, AtBatch, Feed, NEW c \in Calls, NEW a \in Agents, NEW r \in TaskIds, script = HandScript(c, a, r),
         Calm, Ahead \subseteq TimeoutLanes \cup SpawnScripts \cup HandScripts
  PROVE  AtBatch' /\ Fed
<1> USE DEF AtBatch
<1>0. TypeOK
  BY DEF Sane, Inv, Structure
<1>1. Do(<<"ToolBackground", c, a, r>>) /\ script' = <<>>
  BY HandForm, FeedAhead DEF Feed
<1>2. turn' = turn /\ [Next]_vars /\ OnlyCall(c)
      /\ \/ calls[c].phase = "Executing" /\ calls'[c].phase = "ExecBg" /\ calls'[c].danger = calls[c].danger
         \/ calls' = calls
  BY <1>0, <1>1, FeedToolBackground DEF Refusal, vars, MayToolBackground, OnlyCall
<1>3. Calm'
  <2>1. ASSUME NEW d \in Calls, d # c PROVE AtRest(d)'
    BY <1>2, <2>1, FeedAhead, RestFrame DEF Calm, OnlyCall
  <2>2. CASE calls' = calls
    BY <2>2, FeedAhead, CalmFrame
  <2>3. CASE calls[c].phase = "Executing" /\ calls'[c].phase = "ExecBg" /\ calls'[c].danger = calls[c].danger
    <3>1. AtRest(c) /\ entries' = entries /\ open' = open
      BY FeedAhead DEF Calm
    <3>2. c \in Slots(entries)'
      BY <2>3, <3>1 DEF AtRest, Slots
    <3>3. ASSUME NEW e \in entries, NEW k \in open, e.slot = c, e.id = k.id
          PROVE  In(c, Expected(k))' /\ calls'[c].danger = k.danger
      <4>1. k.handed /\ calls[c].phase \in Expected(k) /\ calls[c].danger = k.danger
        BY <2>3, <3>1, <3>3 DEF AtRest, In
      <4>2. "ExecBg" \in Expected(k)
        BY <2>3, <4>1 DEF Expected
      <4> QED  BY <2>3, <4>1, <4>2 DEF In, Expected
    <3>4. AtRest(c)'
      BY <3>1, <3>2, <3>3 DEF AtRest
    <3> QED  BY <2>1, <3>4 DEF Calm
  <2> QED  BY <1>2, <2>2, <2>3
<1>4. /\ closing' = <<>> /\ Ahead' \subseteq TimeoutLanes \cup SpawnScripts \cup HandScripts
      /\ \A d, b, s : script' # HandScript(d, b, s) /\ ~Unborn(b, s)'
  BY <1>1, FeedAhead, SpawnForm, HandForm DEF Ahead, Unborn, SpawnScript, HandScript
<1>5. ASSUME InStep PROVE AtBatch' /\ Fed
  <2>1. /\ agents[a].phase = "None" /\ agents[a].rid # r /\ Room /\ a \in Slots(mapped)
        /\ calls[c].phase = "Executing"
    BY <1>5 DEF Bearing, Unborn
  <2>2. MayToolBackground(c, a, r)
    BY <2>1 DEF MayToolBackground, Room
  <2>3. /\ OnlyAgent(a) /\ agents'[a].phase = "Running" /\ agents'[a].rid = r
        /\ agents'[a].waited = agents[a].waited /\ refused' = refused
        /\ UNCHANGED <<round, round_due, steer_pending, mapped, entries, gaps>>
    BY <1>0, <1>1, <2>2, FeedToolBackground, FeedAhead
  <2>4. Ahead' = Ahead \ {HandScript(c, a, r)} /\ Apart'
    BY <1>1, <1>5, FeedAhead
  <2>5. Expiring'
    BY <1>5, <2>1, <2>3, <2>4, HandForm DEF Expiring, Holds, OnlyAgent
  <2>6. NoneDone'
    BY <1>5, <2>3 DEF NoneDone, OnlyAgent
  <2>7. ASSUME NEW m \in mapped PROVE Tracked(m)'
    <3>1. CASE m.slot = a
      <4>1. m.rid = r
        BY <1>5, <2>1, <3>1, HandForm DEF Bearing, Tracked, Unborn
      <4> QED  BY <2>3, <3>1, <4>1 DEF Tracked
    <3>2. CASE m.slot # a
      <4>1. Tracked(m)
        BY <1>5, <3>2, HandForm DEF Bearing, Unborn, Sane, Tasks
      <4> QED  BY <2>3, <3>2, <4>1 DEF Tracked, OnlyAgent, Sane, Tasks
    <3> QED  BY <3>1, <3>2
  <2>8. AllMapped'
    BY <1>5, <2>1, <2>3 DEF AllMapped, OnlyAgent, Slots, Bearing
  <2>9. Bearing'
    BY <1>4, <2>3, <2>7, <2>8 DEF Bearing
  <2>10. ~\E d \in Calls : Resolving(d)
    <3>1. \A d : script # SettleLane(d) /\ script # EndLane(d)
      BY DEF HandScript, SettleLane, EndLane
    <3> QED  BY <3>1 DEF Resolving, HandScript
  <2> QED  BY <1>2, <1>3, <1>4, <1>5, <2>3, <2>4, <2>5, <2>6, <2>9, <2>10, FeedAhead DEF Fed, InStep
<1> QED  BY <1>2, <1>3, <1>4, <1>5, FeedAhead DEF Fed, InStep

\* One call of the batch opens or is resolved.
LEMMA FeedBusy ==
  ASSUME Sane, AtBatch, Feed, lanes = {}, NEW c \in Calls, Busy(c)
  PROVE  AtBatch' /\ Fed
<1> USE DEF AtBatch
<1>0. /\ lanes' = {} /\ closing' = <<>> /\ (InStep' <=> InStep)
      /\ UNCHANGED <<entries, open, gaps, mapped>>
  BY FeedAhead DEF InStep
<1>1. /\ Fed /\ OnlyCall(c) /\ UNCHANGED <<turn, round, steer_pending, agents>>
      /\ OfCall(script) /\ OfCall(script')
      /\ \/ Resolving(c)'
         \/ \E e \in entries, k \in open : Opening(c, e, k)'
         \/ script' = <<>> /\ AtRest(c)'
      /\ InStep => round_due' \/ entries # {} \/ Resolving(c)'
  <2>1. CASE Resolving(c)
    <3>1. /\ Fed /\ OnlyCall(c) /\ UNCHANGED <<turn, round, steer_pending, agents>>
          /\ OfCall(script) /\ OfCall(script')
          /\ \/ Resolving(c)'
             \/ script' = <<>> /\ calls'[c].phase = "Unused" /\ (InStep => round_due')
      BY <2>1, FeedResolving
    <3>2. calls'[c].phase = "Unused" => AtRest(c)'
      BY <1>0, <2>1 DEF Resolving, AtRest, Slots
    <3> QED  BY <3>1, <3>2
  <2>2. ASSUME NEW e \in entries, NEW k \in open, Opening(c, e, k)
        PROVE  /\ Fed /\ OnlyCall(c) /\ UNCHANGED <<turn, round, steer_pending, agents>>
               /\ OfCall(script) /\ OfCall(script')
               /\ Opening(c, e, k)' \/ (script' = <<>> /\ AtRest(c)')
    BY <2>2, FeedOpening
  <2> QED  BY <2>1, <2>2 DEF Busy
<1>2. \A d \in Calls \ {c} : AtRest(d)'
  BY <1>0, <1>1, RestFrame DEF Busy, OnlyCall
<1>3. \A d, b, s : script' # HandScript(d, b, s)
  BY <1>1, OfCallIsNoTask
<1>4. \/ Calm' /\ Ahead' \subseteq TimeoutLanes \cup SpawnScripts \cup HandScripts
      \/ lanes' = {} /\ \E d \in Calls : Busy(d)'
  <2>1. CASE script' = <<>> /\ AtRest(c)'
    BY <1>0, <1>2, <2>1 DEF Calm, Ahead
  <2>2. CASE Resolving(c)' \/ \E e \in entries, k \in open : Opening(c, e, k)'
    BY <1>0, <1>2, <2>2 DEF Busy
  <2> QED  BY <1>1, <2>1, <2>2
<1>5. InStep => NoneDone' /\ Expiring' /\ Bearing' /\ Apart'
  BY <1>0, <1>1, BatchFrame
<1> QED  BY <1>0, <1>1, <1>3, <1>4, <1>5

\* The three together.
LEMMA FeedBatch ==
  ASSUME Sane, AtBatch, Feed
  PROVE  AtBatch' /\ Fed
<1>1. CASE lanes = {} /\ \E c \in Calls : Busy(c)
  BY <1>1, FeedBusy
<1>2. CASE Calm /\ Ahead \subseteq TimeoutLanes \cup SpawnScripts \cup HandScripts
  <2>1. script \in TimeoutLanes \cup SpawnScripts \cup HandScripts
    BY <1>2, FeedAhead
  <2> QED  BY <1>2, <2>1, FeedTimeout, FeedSpawn, FeedHand DEF TimeoutLanes, SpawnScripts, HandScripts
<1> QED  BY <1>1, <1>2 DEF AtBatch

-----------------------------------------------------------------------------
(* A step of the feed keeps the invariant.                                   *)

\* Whatever is fed, the kernel's own invariant and the books stay.
LEMMA FedKeepsSane ==
  ASSUME Sane, Feed, Fed PROVE Sane'
<1>1. Inv'
  BY StructureStep, CapacityStep DEF Sane, Inv, Structure, Fed
<1>2. /\ UNCHANGED <<entries, mapped, unmapped, prompt, host, open, watched, pool, gaps>>
  BY FeedAhead
<1>3. Ledger' /\ Verdicts'
  BY <1>2 DEF Sane, Ledger, Verdicts, Known
<1>4. Tasks'
  BY <1>2 DEF Sane, Tasks, InStep, LiveTasks, Undelivered
<1> QED  BY <1>1, <1>2, <1>3, <1>4 DEF Sane, Fed, InStep

\* Whatever event is fed, the outline holds after it.
LEMMA FeedKeeps ==
  ASSUME Sane, Outline, Feed PROVE Sane' /\ Outline'
<1>1. host' = host
  BY FeedAhead
<1> USE DEF Outline
<1>2. host \notin {"exit"}
  BY DEF AtExit, Between, Feed
<1>3. CASE host = "idle"     BY <1>1, <1>3, FeedIdle, FedKeepsSane
<1>4. CASE host = "head"     BY <1>1, <1>4, FeedHead, FedKeepsSane
<1>5. CASE host = "fold"     BY <1>1, <1>5, FeedFold, FedKeepsSane
<1>6. CASE host = "prep"     BY <1>1, <1>6, FeedPrep, FedKeepsSane
<1>7. CASE host = "round"    BY <1>1, <1>7, FeedRound, FedKeepsSane
<1>8. CASE host = "batch"    BY <1>1, <1>8, FeedBatch, FedKeepsSane
<1>9. CASE host = "waiting"  BY <1>1, <1>9, FeedWaiting, FedKeepsSane
<1>10. CASE host = "drained" BY <1>1, <1>10, FeedDrained, FedKeepsSane
<1>11. CASE host = "abort"   BY <1>1, <1>11, FeedAbort, FedKeepsSane
<1>12. CASE host = "aborted" BY <1>1, <1>12, FeedAborted, FedKeepsSane
<1>13. CASE host = "ended"   BY <1>1, <1>13, FeedEnded, FedKeepsSane
<1> QED  BY <1>2, <1>3, <1>4, <1>5, <1>6, <1>7, <1>8, <1>9, <1>10, <1>11, <1>12, <1>13 DEF Sane, Ledger

\* Taking up the next lane or the closing events changes nothing else.
LEMMA ResumeKeepsSane ==
  ASSUME Sane, UNCHANGED <<vars, shadow, refused, run, gaps>> PROVE Sane'
<1>1. Inv'
  BY StructureStep, CapacityStep DEF Sane, Inv, Structure
<1>2. Ledger' /\ Verdicts'
  BY DEF Sane, Ledger, Verdicts, Known, shadow, run
<1>3. Tasks'
  BY DEF Sane, Tasks, InStep, LiveTasks, Undelivered, shadow, run
<1> QED  BY <1>1, <1>2, <1>3 DEF Sane, InStep

\* Taking up the next lane changes the order of what is ahead and nothing else.
LEMMA NextLaneAhead ==
  ASSUME NextLane
  PROVE  /\ Ahead' = Ahead /\ script = <<>> /\ lanes # {} /\ script' \in lanes
         /\ (Apart => Apart') /\ closing' = closing
         /\ UNCHANGED <<vars, shadow, refused, run, gaps>>
<1>1. PICK lane \in lanes : script' = lane /\ lanes' = lanes \ {lane}
  BY DEF NextLane
<1> QED  BY <1>1 DEF NextLane, Ahead, Apart

\* What the outline says of the tasks rests on what is ahead.
LEMMA ResumeFrame ==
  ASSUME UNCHANGED <<vars, shadow, refused, run, gaps>>, Ahead' = Ahead
  PROVE  /\ UNCHANGED <<turn, round, round_due, steer_pending, wake_fold_pending, calls, agents>>
         /\ UNCHANGED <<entries, mapped, injection, host, mailbox, open, watched, pool, gaps>>
         /\ InStep' <=> InStep
         /\ Calm => Calm'
         /\ AllTracked => AllTracked'
         /\ DoneIsSettled => DoneIsSettled'
         /\ NoneWaited => NoneWaited'
         /\ NoneDone => NoneDone'
         /\ Completing => Completing'
         /\ Folding => Folding'
         /\ Waiting => Waiting'
         /\ Claiming => Claiming'
         /\ Expiring => Expiring'
<1>1. /\ UNCHANGED <<turn, round, round_due, steer_pending, wake_fold_pending, calls, agents>>
      /\ UNCHANGED <<entries, mapped, injection, host, mailbox, open, watched, pool, gaps>>
      /\ InStep' <=> InStep
  BY DEF vars, turnVars, shadow, run, InStep
<1>2. /\ Calm => Calm'
      /\ AllTracked => AllTracked'
      /\ DoneIsSettled => DoneIsSettled'
      /\ NoneWaited => NoneWaited'
      /\ NoneDone => NoneDone'
  BY <1>1, CalmFrame, TrackFrame
<1>3. Completing => Completing'
  BY <1>1 DEF Completing, Holds
<1>4. Folding => Folding'
  BY <1>1 DEF Folding, Holds, Slots, Tracked, Done
<1>5. Waiting => Waiting'
  BY <1>1 DEF Waiting
<1>6. Claiming => Claiming'
  BY <1>1 DEF Claiming, Holds, Slots, Tracked, Done
<1>7. Expiring => Expiring'
  BY <1>1 DEF Expiring, Holds
<1> QED  BY <1>1, <1>2, <1>3, <1>4, <1>5, <1>6, <1>7

\* So it keeps the outline.
LEMMA NextLaneKeeps ==
  ASSUME Sane, Outline, NextLane PROVE Sane' /\ Outline'
<1>1. /\ Ahead' = Ahead /\ script = <<>> /\ script' \in lanes /\ lanes' \subseteq lanes
      /\ Apart => Apart'
      /\ closing' = closing
      /\ UNCHANGED <<vars, shadow, refused, run, gaps>>
  BY NextLaneAhead DEF NextLane
<1>2. Sane'
  BY <1>1, ResumeKeepsSane
<1>3. host \in {"head", "prep", "batch", "waiting", "drained", "aborted"}
  BY <1>1 DEF Outline, AtIdle, AtFold, AtRound, AtAbort, AtExit, AtEnded, Between, Sane, Ledger
<1>4. ~Between
  BY <1>1 DEF Between
<1>5. ASSUME host = "head", AtHead PROVE AtHead'
  BY <1>1, <1>4, <1>5, ResumeFrame DEF AtHead, Between, Undelivered
<1>6. ASSUME host = "prep", AtPrep PROVE AtPrep'
  BY <1>1, <1>6, ResumeFrame DEF AtPrep
<1>7. ASSUME host = "batch", AtBatch PROVE AtBatch'
  <2>1. PICK a0 \in Agents, r0 \in TaskIds : script' = TimeoutLane(a0, r0)
    BY <1>1, <1>7 DEF AtBatch, TimeoutLanes
  <2>2. Calm /\ Ahead' \subseteq TimeoutLanes \cup SpawnScripts \cup HandScripts
    BY <1>1, <1>7 DEF AtBatch, Busy, Resolving
  <2>3. \A a, r : ~Unborn(a, r) /\ ~Unborn(a, r)'
    BY <1>1, <2>1, SpawnForm, HandForm, TimeoutForm DEF Unborn
  <2>4. \A c, a, r : script # HandScript(c, a, r) /\ script' # HandScript(c, a, r)
    BY <1>1, <2>1, HandForm, TimeoutForm
  <2>5. \A c : ~Resolving(c)
    BY <1>1 DEF Resolving, EndLane, SettleLane
  <2>6. Bearing => Bearing'
    BY <1>1, <2>3, <2>4, ResumeFrame DEF Bearing, AllMapped, Tracked, Slots
  <2>7. InStep =>
          /\ NoneDone' /\ ~steer_pending' /\ Apart' /\ Expiring' /\ Bearing'
          /\ round' = "InRound"
          /\ round_due' \/ entries' # {}
    BY <1>1, <1>7, <2>5, <2>6, ResumeFrame DEF AtBatch
  <2>8. Calm' /\ turn' = "Running" /\ closing' = <<>> /\ lanes' \subseteq TimeoutLanes /\ (InStep' <=> InStep)
    BY <1>1, <1>7, <2>2, ResumeFrame DEF AtBatch
  <2> QED  BY <2>2, <2>4, <2>7, <2>8 DEF AtBatch
<1>8. ASSUME host = "waiting", AtWaiting PROVE AtWaiting'
  BY <1>1, <1>8, ResumeFrame DEF AtWaiting
<1>9. ASSUME host = "drained", AtDrained PROVE AtDrained'
  BY <1>1, <1>9, ResumeFrame DEF AtDrained
<1>10. ASSUME host = "aborted", AtAborted PROVE AtAborted'
  <2>1. \A c \in Calls : Swept(c)'
    BY <1>1, <1>10, ResumeFrame DEF AtAborted, Swept, In
  <2>2. turn = "Cancelling" /\ Ahead \subseteq SweepLanes /\ closing = CloseRound
    BY <1>1, <1>10 DEF AtAborted, Cancelling
  <2> QED  BY <1>1, <1>10, <2>1, <2>2, ResumeFrame DEF AtAborted, CloseRound, If
<1> QED  BY <1>1, <1>2, <1>3, <1>5, <1>6, <1>7, <1>8, <1>9, <1>10, ResumeFrame DEF Outline

\* When the lanes are through, the closing script is all that is ahead.
LEMMA CloseKeeps ==
  ASSUME Sane, Outline, Close PROVE Sane' /\ Outline'
<1>1. /\ script = <<>> /\ lanes = {} /\ lanes' = {} /\ script' = closing /\ closing' = <<>> /\ closing # <<>>
      /\ Ahead = {} /\ Ahead' = {closing} /\ Apart'
      /\ UNCHANGED <<vars, shadow, refused, run, gaps>>
  BY DEF Close, Ahead, Apart
<1>2. Sane' /\ TypeOK
  BY <1>1, ResumeKeepsSane DEF Sane, Inv, Structure
<1>3. host \in {"idle", "head", "fold", "round", "aborted"}
  BY <1>1 DEF Outline, AtPrep, AtBatch, AtWaiting, AtDrained, AtAbort, AtExit, AtEnded, Between, Sane, Ledger
<1>4. /\ UNCHANGED <<turn, round, round_due, steer_pending, wake_fold_pending, calls, agents>>
      /\ UNCHANGED <<entries, mapped, injection, host, mailbox, open, watched, pool, gaps>>
      /\ (InStep' <=> InStep) /\ ~Between /\ ~Between'
  BY <1>1 DEF vars, turnVars, shadow, run, InStep, Between
<1>5. /\ Calm => Calm'
      /\ AllTracked => AllTracked'
      /\ DoneIsSettled => DoneIsSettled'
      /\ NoneWaited => NoneWaited'
      /\ NoneDone => NoneDone'
  BY <1>4, CalmFrame, TrackFrame
<1>6. ASSUME host = "idle", AtIdle PROVE AtIdle'
  <2>1. /\ round' = round
        /\ \/ script' = <<<<"RoundEnd">>, <<"TurnEnd">>>> /\ round = "InRound"
           \/ script' = <<<<"TurnEnd">>>> /\ round = "Prep"
    <3>1. closing = Ending
      BY <1>1, <1>4, <1>6 DEF AtIdle
    <3>2. round \in {"Prep", "InRound"}
      BY <1>2 DEF TypeOK, RoundPhase
    <3>3. script' = Ending /\ round' = round
      BY <1>1, <1>4, <3>1
    <3> QED  BY <3>2, <3>3 DEF Ending
  <2>2. turn' # "Idle"
    BY <1>1, <1>4, <1>6 DEF AtIdle
  <2> QED  BY <1>1, <1>4, <1>5, <1>6, <2>1, <2>2 DEF AtIdle
<1>7. ASSUME host = "head", AtHead PROVE AtHead'
  <2>1. closing = <<<<"TurnStart">>>> /\ turn # "Cancelling"
    BY <1>1, <1>4, <1>7 DEF AtHead
  <2>2. Completing'
    BY <1>1, <2>1, CompleteForm DEF Completing
  <2> QED  BY <1>1, <1>4, <1>5, <1>7, <2>1, <2>2 DEF AtHead
<1>8. ASSUME host = "fold", AtFold PROVE AtFold'
  <2>1. closing = Steer
    BY <1>1, <1>8 DEF AtFold
  <2> QED  BY <1>1, <1>4, <1>5, <1>8, <2>1, SteerForm DEF AtFold, Steering, Joining, Undelivered
<1>9. ASSUME host = "round", AtRound PROVE AtRound'
  <2>1. closing = <<<<"RoundStart">>>>
    BY <1>1, <1>9 DEF AtRound
  <2> QED  BY <1>1, <1>4, <1>5, <1>9, <2>1, SteerForm DEF AtRound, Steering, Joining
<1>10. ASSUME host = "aborted", AtAborted PROVE AtAborted'
  <2>1. turn = "Cancelling" /\ round = "InRound" /\ closing = <<<<"RoundEnd">>>>
    BY <1>1, <1>10 DEF AtAborted, Cancelling, CloseRound, If
  <2>2. \A c \in Calls : Swept(c)'
    BY <1>1, <1>4, <1>10, <2>1 DEF AtAborted, Swept, In, EndLane, SettleLane
  <2> QED  BY <1>1, <1>4, <1>5, <1>10, <2>1, <2>2 DEF AtAborted
<1> QED  BY <1>2, <1>3, <1>4, <1>6, <1>7, <1>8, <1>9, <1>10 DEF Outline

\* A step that changes nothing.
LEMMA StutterKeeps ==
  ASSUME Sane, Outline, UNCHANGED svars PROVE Sane' /\ Outline'
<1>1. /\ UNCHANGED <<vars, shadow, refused, run, gaps>>
      /\ UNCHANGED <<Ahead, Apart, Between, Cancelling, Steering, Joining, script, lanes, closing>>
  BY DEF svars, feed, Ahead, Apart, Between, Cancelling, Steering, Joining
<1>2. Sane'
  BY <1>1, ResumeKeepsSane
<1>3. UNCHANGED <<host, turn, round, round_due, calls, agents, entries, open, gaps, mapped>> /\ (InStep' <=> InStep)
  BY <1>1, ResumeFrame
<1>4. ASSUME NEW c \in Calls
      PROVE  /\ AtRest(c) => AtRest(c)'
             /\ Resolving(c)' <=> Resolving(c)
             /\ \A e, k : Opening(c, e, k) => Opening(c, e, k)'
             /\ Swept(c) => Swept(c)'
  <2>1. \A S : In(c, S)' <=> In(c, S)
    BY <1>3 DEF In
  <2>2. Resolving(c)' <=> Resolving(c)
    BY <1>1, <1>3, <2>1 DEF Resolving, Slots
  <2>3. \A e, k : Opening(c, e, k) => Opening(c, e, k)'
    BY <1>1, <1>3, <2>1 DEF Opening
  <2>4. Swept(c) => Swept(c)'
    BY <1>1, <1>3, <2>1 DEF Swept
  <2> QED  BY <1>3, <2>2, <2>3, <2>4, RestFrame
<1>5. \A c \in Calls : Busy(c) => Busy(c)'
  BY <1>3, <1>4 DEF Busy
<1>6. Bearing => Bearing'
  BY <1>1, <1>3 DEF Bearing, AllMapped, Tracked, Slots, Unborn, Room, RunningAgents
<1>7. AtIdle => AtIdle'
  BY <1>1, ResumeFrame DEF AtIdle, Ending
<1>8. AtHead => AtHead'
  BY <1>1, ResumeFrame DEF AtHead, Undelivered
<1>9. AtFold => AtFold'
  BY <1>1, ResumeFrame DEF AtFold, Undelivered
<1>10. AtPrep => AtPrep'
  BY <1>1, ResumeFrame DEF AtPrep
<1>11. AtRound => AtRound'
  BY <1>1, ResumeFrame DEF AtRound
<1>12. AtBatch => AtBatch'
  <2>1. (Calm => Calm') /\ (NoneDone => NoneDone') /\ (Expiring => Expiring') /\ steer_pending' = steer_pending
    BY <1>1, ResumeFrame
  <2> QED  BY <1>1, <1>3, <1>4, <1>5, <1>6, <2>1 DEF AtBatch
<1>13. AtWaiting => AtWaiting'
  BY <1>1, ResumeFrame DEF AtWaiting
<1>14. AtDrained => AtDrained'
  BY <1>1, ResumeFrame DEF AtDrained
<1>15. AtAbort => AtAbort'
  BY <1>1, <1>6, ResumeFrame DEF AtAbort
<1>16. AtAborted => AtAborted'
  BY <1>1, <1>3, <1>4, ResumeFrame DEF AtAborted, CloseRound, If
<1>17. AtExit => AtExit'
  BY <1>1, ResumeFrame DEF AtExit, Quiet
<1>18. AtEnded => AtEnded'
  BY <1>1, ResumeFrame DEF AtEnded, Quiet
<1> QED  BY <1>2, <1>3, <1>7, <1>8, <1>9, <1>10, <1>11, <1>12, <1>13, <1>14, <1>15, <1>16, <1>17, <1>18 DEF Outline

-----------------------------------------------------------------------------
(* A step of the host keeps the invariant.                                   *)

\* A step that leaves the kernel alone keeps its invariant.
LEMMA KernelStays ==
  ASSUME Sane, UNCHANGED vars
  PROVE  /\ Inv' /\ TypeOK
         /\ UNCHANGED <<turn, round, round_due, steer_pending, wake_fold_pending, calls, agents>>
BY StructureStep, CapacityStep DEF Sane, Inv, Structure, vars

\* Between two reports nothing is ahead.
LEMMA NothingAhead ==
  ASSUME Between
  PROVE  Ahead = {} /\ script = <<>> /\ lanes = {} /\ closing = <<>>
BY DEF Between, Ahead

\* A silent step of the host puts nothing ahead.
LEMMA StillNothingAhead ==
  ASSUME Between, Silent
  PROVE  Ahead' = {} /\ Apart' /\ script' = <<>> /\ lanes' = {} /\ closing' = <<>> /\ Between'
BY DEF Between, Ahead, Apart, Silent, feed

\* The books, where no call is open on either side of the step.
LEMMA BooksWithoutCalls ==
  ASSUME Ledger, open = {}, UNCHANGED <<open, entries, unmapped>>, watched' = {},
         host' \in {"idle", "head", "fold", "prep", "round", "abort", "exit", "ended"}
  PROVE  Ledger' /\ Verdicts'
BY DEF Ledger, Verdicts

\* A task of the books in its slot.
LEMMA TasksFrame ==
  ASSUME Tasks, UNCHANGED <<mapped, pool, gaps>> PROVE Tasks'
BY DEF Tasks, InStep, LiveTasks, Undelivered

\* Whether the shadow is in step is a matter of its blind spots alone.
LEMMA InStepFrame ==
  ASSUME UNCHANGED gaps PROVE InStep' <=> InStep
BY DEF InStep

\* A turn begins (begin_turn_with_completed).
LEMMA BeginTurnKeeps ==
  ASSUME Sane, Outline, Between, BeginTurn
  PROVE  Sane' /\ Outline'
<1> USE DEF BeginTurn, shadow
<1>1. /\ Inv' /\ TypeOK /\ (InStep' <=> InStep) /\ Tasks'
      /\ UNCHANGED <<turn, round, round_due, steer_pending, calls, agents, entries, mapped, open, pool, gaps>>
  BY KernelStays, TasksFrame, InStepFrame DEF Sane
<1>2. watched = {} /\ open = {}
  BY DEF Sane, Ledger
<1>3. Ledger' /\ Verdicts'
  BY <1>2, BooksWithoutCalls DEF Sane
<1>4. AtIdle /\ script = <<>> /\ closing = <<>> /\ lanes = {}
  BY NothingAhead DEF Outline
<1>5. /\ script' = <<>> /\ closing' = <<<<"TurnStart">>>>
      /\ lanes' = {WakeEvents(m) : m \in {x \in Mapped(Undelivered) : ~Done(x)}}
  BY DEF Tell3
<1>6. ASSUME NEW lane \in lanes'
      PROVE  \E m \in mapped : lane = CompleteLane(m.slot, m.rid) /\ pool[m.name] = "settled" /\ ~Done(m)
  BY <1>5 DEF WakeEvents, CompleteLane, Mapped, Undelivered
<1>7. Apart' /\ Ahead' \subseteq CompleteLanes /\ Ahead' = lanes'
  <2>1. \A lane \in lanes' : lane \in CompleteLanes /\ lane # <<>>
    BY <1>6, CompleteForm DEF CompleteLanes, Sane, Tasks
  <2> QED  BY <1>5, <2>1 DEF Apart, Ahead
<1>8. InStep => Completing'
  <2> SUFFICES ASSUME InStep, NEW a \in Agents, NEW r \in TaskIds, CompleteLane(a, r) \in lanes'
               PROVE  /\ Holds(a, r, "Running")'
                      /\ \E m \in mapped : m.slot = a /\ m.rid = r /\ pool[m.name] = "settled"
    BY <1>1, <1>7 DEF Completing
  <2>1. PICK m \in mapped : m.slot = a /\ m.rid = r /\ pool[m.name] = "settled" /\ ~Done(m)
    BY <1>6, CompleteForm
  <2>2. Tracked(m)
    BY <1>4 DEF AtIdle, AllTracked
  <2>3. agents[a].phase \in {"None", "Running", "Done"}
    BY <1>1 DEF TypeOK, AgentSlot, AgentPhase
  <2> QED  BY <1>1, <2>1, <2>2, <2>3 DEF Tracked, Done, Holds
<1>9. Calm' /\ (InStep => AllTracked' /\ DoneIsSettled' /\ NoneWaited')
  BY <1>1, <1>4, CalmFrame, TrackFrame DEF AtIdle
<1>10. turn # "Cancelling" /\ ~Between' /\ (InStep => turn = "Idle" /\ ~steer_pending)
  BY <1>4, <1>5 DEF AtIdle, Ending, Between
<1>11. AtHead'
  BY <1>1, <1>5, <1>7, <1>8, <1>9, <1>10 DEF AtHead
<1> QED  BY <1>1, <1>3, <1>11 DEF Sane, Outline

\* The loop comes around (round_boundary, steer_joined).
LEMMA LoopHeadKeeps ==
  ASSUME Sane, Outline, Between, LoopHead
  PROVE  Sane' /\ Outline'
<1> USE DEF LoopHead, shadow
<1>1. /\ Inv' /\ TypeOK /\ (InStep' <=> InStep) /\ Tasks'
      /\ UNCHANGED <<turn, round, round_due, steer_pending, calls, agents, entries, mapped, open, pool, gaps, injection>>
  BY KernelStays, TasksFrame, InStepFrame DEF Sane
<1>2. watched = {} /\ open = {}
  BY DEF Sane, Ledger
<1>3. Ledger' /\ Verdicts'
  BY <1>2, BooksWithoutCalls DEF Sane
<1>4. AtHead /\ script = <<>> /\ closing = <<>> /\ lanes = {}
  BY NothingAhead DEF Outline
<1>5. /\ script' = CloseRound /\ closing' = If(mailbox, Steer) /\ lanes' = {}
  BY DEF Tell3
<1>6. Calm' /\ turn' = "Running" /\ (InStep => AllTracked' /\ DoneIsSettled' /\ NoneWaited')
  BY <1>1, <1>4, CalmFrame, TrackFrame DEF AtHead
<1>7. /\ ~Joining' /\ script' \in {<<>>, <<<<"RoundEnd">>>>} /\ closing' \in {<<>>, Steer}
      /\ round = "InRound" <=> script' = <<<<"RoundEnd">>>>
      /\ mailbox => closing' = Steer
  BY <1>5, SteerForm DEF CloseRound, If, Joining
<1>8. Undelivered' = Undelivered
  BY <1>1 DEF Undelivered
<1>9. InStep => ~steer_pending /\ (round_due \/ injection \/ mailbox \/ Undelivered # {})
  BY <1>4 DEF AtHead, Between
<1>10. AtFold'
  BY <1>1, <1>5, <1>6, <1>7, <1>8, <1>9 DEF AtFold
<1> QED  BY <1>1, <1>3, <1>10 DEF Sane, Outline

\* A round starts (round_started).
LEMMA RoundStartedKeeps ==
  ASSUME Sane, Outline, Between, RoundStarted
  PROVE  Sane' /\ Outline'
<1> USE DEF RoundStarted
<1>1. /\ Inv' /\ TypeOK /\ (InStep' <=> InStep) /\ Tasks'
      /\ UNCHANGED <<turn, round, round_due, steer_pending, calls, agents, entries, mapped, open, pool, gaps>>
  BY KernelStays, TasksFrame, InStepFrame DEF Sane
<1>2. watched = {} /\ open = {}
  BY DEF Sane, Ledger
<1>3. Ledger' /\ Verdicts'
  BY <1>2, BooksWithoutCalls DEF Sane
<1>4. AtPrep /\ Ahead = {}
  BY NothingAhead DEF Outline
<1>5. script' = If(injection, Steer) /\ closing' = <<<<"RoundStart">>>> /\ lanes' = {}
  BY DEF Tell3
<1>6. InStep => AllTracked /\ NoneDone
  BY <1>4 DEF AtPrep, Folding, AllTracked, AllMapped, NoneDone, Done, Slots
<1>7. Calm' /\ turn' = "Running" /\ (InStep => AllTracked' /\ NoneDone' /\ NoneWaited')
  BY <1>1, <1>4, <1>6, CalmFrame, TrackFrame DEF AtPrep
<1>8. ~Joining' /\ ~Between' /\ (script' = <<>> \/ Steering') /\ (injection => Steering')
  BY <1>5, SteerForm DEF Joining, Steering, Between, If
<1>9. AtRound'
  BY <1>1, <1>4, <1>5, <1>7, <1>8 DEF AtRound, AtPrep
<1> QED  BY <1>1, <1>3, <1>9 DEF Sane, Outline

\* A round without calls ends.
LEMMA FinalAnswerKeeps ==
  ASSUME Sane, Outline, Between, NEW injected \in BOOLEAN, FinalAnswer(injected)
  PROVE  Sane' /\ Outline'
<1> USE DEF FinalAnswer
<1>1. /\ Inv' /\ TypeOK /\ (InStep' <=> InStep) /\ Tasks'
      /\ UNCHANGED <<turn, round, round_due, steer_pending, calls, agents, entries, mapped, open, pool, gaps, mailbox>>
  BY KernelStays, TasksFrame, InStepFrame DEF Sane
<1>2. watched = {} /\ open = {}
  BY DEF Sane, Ledger
<1>3. Ledger' /\ Verdicts' /\ host' \in {"head", "exit"}
  BY <1>2, BooksWithoutCalls DEF Sane
<1>4. AtRound
  BY DEF Outline
<1>5. Ahead' = {} /\ Apart' /\ Between'
  BY StillNothingAhead
<1>6. InStep => AllTracked /\ DoneIsSettled /\ NoneDone /\ NoneWaited /\ ~steer_pending /\ round = "InRound" /\ ~round_due
  <2>1. ~Joining
    BY NothingAhead DEF Joining
  <2>2. NoneDone => DoneIsSettled
    BY DEF NoneDone, DoneIsSettled, Done, Sane, Tasks
  <2> QED  BY <1>4, <2>1, <2>2 DEF AtRound
<1>7. Calm' /\ turn' = "Running" /\ (InStep => AllTracked' /\ DoneIsSettled' /\ NoneDone' /\ NoneWaited')
  BY <1>1, <1>4, <1>6, CalmFrame, TrackFrame DEF AtRound
<1>8. Completing' /\ Undelivered' = Undelivered
  BY <1>1, <1>5 DEF Completing, Undelivered
<1>9. host' = "head" => AtHead'
  BY <1>1, <1>5, <1>6, <1>7, <1>8 DEF AtHead
<1>10. host' = "exit" => AtExit'
  BY <1>1, <1>5, <1>6, <1>7 DEF AtExit, Quiet
<1> QED  BY <1>1, <1>3, <1>9, <1>10 DEF Sane, Outline

\* The boundary folds the results of settled tasks (agent_folded).
LEMMA FoldResultsKeeps ==
  ASSUME Sane, Outline, Between, FoldResults
  PROVE  Sane' /\ Outline'
<1> USE DEF FoldResults
<1>1. /\ Inv' /\ TypeOK /\ (InStep' <=> InStep)
      /\ UNCHANGED <<turn, round, round_due, steer_pending, calls, agents, entries, open, gaps, injection>>
  BY KernelStays, InStepFrame
<1>2. watched = {} /\ open = {}
  BY DEF Sane, Ledger
<1>3. Ledger' /\ Verdicts'
  BY <1>2, BooksWithoutCalls DEF Sane
<1>4. AtFold /\ script = <<>> /\ closing = <<>>
  BY NothingAhead DEF Outline
<1>5. lanes' = {FoldEvents(m) : m \in Mapped(Undelivered)} /\ script' = <<>> /\ closing' = <<>>
  BY <1>4 DEF TellEach
<1>6. /\ \A m \in mapped : m \in mapped' \/ pool[m.name] = "settled"
      /\ \A m \in mapped' : m \in mapped /\ pool[m.name] # "settled"
      /\ \A n \in Names : pool'[n] = IF pool[n] = "settled" THEN "gone" ELSE pool[n]
  BY DEF Mapped, Undelivered, Collected, Sane, Tasks
<1>7. Tasks'
  <2>1. IsFiniteSet(mapped') /\ mapped' \subseteq mapped
    BY FS_Subset DEF Sane, Tasks
  <2>2. pool' \in [Names -> {"absent", "running", "settled", "gone"}]
    BY DEF Collected, Sane, Tasks
  <2>3. ASSUME InStep, NEW n \in LiveTasks' \cup Undelivered'
        PROVE  n \in {m.name : m \in mapped'}
    <3>1. n \in Names /\ pool[n] = "running"
      BY <1>6, <2>2, <2>3 DEF LiveTasks, Undelivered
    <3>2. PICK m \in mapped : m.name = n
      BY <2>3, <3>1 DEF Sane, Tasks, LiveTasks
    <3> QED  BY <1>6, <3>1, <3>2
  <2> QED  BY <1>1, <2>1, <2>2, <2>3 DEF Sane, Tasks
<1>8. ASSUME NEW lane \in lanes'
      PROVE  \E m \in mapped : /\ m \notin mapped' /\ m.slot \in Agents /\ m.rid \in TaskIds
                               /\ \/ lane = FoldLane(m.slot, m.rid) /\ Done(m)
                                  \/ lane = LateFoldLane(m.slot, m.rid) /\ ~Done(m)
  BY <1>5, <1>6 DEF FoldEvents, FoldLane, LateFoldLane, Mapped, Undelivered, Sane, Tasks
<1>9. Ahead' = lanes' /\ Apart' /\ lanes' \subseteq FoldLanes
  <2>1. \A lane \in lanes' : lane \in FoldLanes /\ lane # <<>>
    BY <1>8, FoldForms DEF FoldLanes
  <2> QED  BY <1>5, <2>1 DEF Apart, Ahead
<1>10. ASSUME InStep PROVE Folding'
  <2>0. AllTracked /\ DoneIsSettled
    BY <1>4, <1>10 DEF AtFold
  <2>1. \A m \in mapped, n \in mapped' : m \notin mapped' => m.slot # n.slot
    BY <1>6 DEF Sane, Tasks
  <2>2. ASSUME NEW a \in Agents, NEW r \in TaskIds, FoldLane(a, r) \in lanes'
        PROVE  Holds(a, r, "Done") /\ a \notin Slots(mapped')
    <3>1. PICK m \in mapped : m \notin mapped' /\ m.slot = a /\ m.rid = r /\ Done(m)
      BY <1>8, <2>2, FoldForms
    <3> QED  BY <2>0, <2>1, <3>1 DEF AllTracked, Tracked, Done, Holds, Slots
  <2>3. ASSUME NEW a \in Agents, NEW r \in TaskIds, LateFoldLane(a, r) \in lanes'
        PROVE  Holds(a, r, "Running") /\ a \notin Slots(mapped')
    <3>1. PICK m \in mapped : m \notin mapped' /\ m.slot = a /\ m.rid = r /\ ~Done(m)
      BY <1>8, <2>3, FoldForms
    <3>2. agents[a].phase \in {"None", "Running", "Done"}
      BY <1>1 DEF TypeOK, AgentSlot, AgentPhase
    <3> QED  BY <2>0, <2>1, <3>1, <3>2 DEF AllTracked, Tracked, Done, Holds, Slots
  <2>4. ASSUME NEW a \in Agents, agents[a].phase # "None", a \notin Slots(mapped')
        PROVE  \E r \in TaskIds : FoldLane(a, r) \in lanes' \/ LateFoldLane(a, r) \in lanes'
    <3>1. PICK m \in mapped : m.slot = a
      BY <2>0, <2>4 DEF AllTracked, AllMapped, Slots
    <3>2. m \in Mapped(Undelivered) /\ m.rid \in TaskIds
      BY <1>6, <2>4, <3>1 DEF Mapped, Undelivered, Slots, Sane, Tasks
    <3> QED  BY <1>5, <3>1, <3>2 DEF FoldEvents, FoldLane, LateFoldLane
  <2>5. ASSUME NEW m \in mapped' PROVE Tracked(m) /\ ~Done(m)
    BY <1>6, <2>0 DEF AllTracked, DoneIsSettled
  <2>6. /\ \A a, r : Holds(a, r, "Done")' <=> Holds(a, r, "Done")
        /\ \A a, r : Holds(a, r, "Running")' <=> Holds(a, r, "Running")
        /\ \A m : (Tracked(m)' <=> Tracked(m)) /\ (Done(m)' <=> Done(m))
    BY <1>1 DEF Holds, Tracked, Done
  <2> QED  BY <1>1, <1>9, <2>2, <2>3, <2>4, <2>5, <2>6 DEF Folding, Slots
<1>11. Calm' /\ (InStep => NoneWaited')
  BY <1>1, <1>4, CalmFrame DEF AtFold, NoneWaited
<1>12. /\ turn = "Running"
       /\ InStep => ~steer_pending /\ round = "Prep" /\ (round_due \/ injection \/ Undelivered # {})
  <2>1. ~Joining /\ ~Steering
    BY <1>4, SteerForm DEF Joining, Steering
  <2>2. round \in {"Prep", "InRound"}
    BY <1>1 DEF TypeOK, RoundPhase
  <2> QED  BY <1>4, <2>1, <2>2, SteerForm DEF AtFold
<1>13. InStep /\ Undelivered # {} => lanes' # {}
  BY <1>5 DEF Sane, Tasks, Mapped
<1>14. AtPrep'
  BY <1>1, <1>5, <1>9, <1>10, <1>11, <1>12, <1>13 DEF AtPrep
<1> QED  BY <1>1, <1>3, <1>7, <1>14 DEF Sane, Outline

\* At a quiet point of a batch.
LEMMA BatchIsCalm ==
  ASSUME Sane, Between, \/ host = "round" /\ AtRound
                        \/ host = "batch" /\ AtBatch
  PROVE  /\ Calm /\ turn = "Running"
         /\ InStep => /\ AllTracked /\ NoneDone /\ NoneWaited /\ DoneIsSettled /\ ~steer_pending
                      /\ round = "InRound" /\ (host = "batch" => round_due \/ entries # {})
<1>1. script = <<>> /\ closing = <<>> /\ lanes = {} /\ Ahead = {}
  BY NothingAhead
<1>2. NoneDone => DoneIsSettled
  BY DEF NoneDone, DoneIsSettled, Done, Sane, Tasks
<1>3. CASE host = "round" /\ AtRound
  BY <1>1, <1>2, <1>3 DEF AtRound, Joining
<1>4. CASE host = "batch" /\ AtBatch
  <2>1. \A c : ~Resolving(c) /\ \A e, k : ~Opening(c, e, k)
    BY <1>1 DEF Resolving, Opening, EndLane, SettleLane
  <2>2. \A a, r : ~Unborn(a, r)
    BY <1>1, NoneUnborn
  <2>3. InStep => NoneWaited /\ AllTracked
    BY <1>1, <1>4, <2>2 DEF AtBatch, Expiring, NoneWaited, Bearing, AllTracked
  <2> QED  BY <1>2, <1>4, <2>1, <2>3 DEF AtBatch, Busy
<1> QED  BY <1>3, <1>4

\* A step of the batch that feeds call events, or nothing.
LEMMA IntoBatch ==
  ASSUME Between, lanes' = {}, OfCall(script'), UNCHANGED <<agents, mapped>>, NEW S \in BOOLEAN,
         S => AllTracked /\ NoneDone /\ NoneWaited
  PROVE  /\ S => NoneDone' /\ Expiring' /\ Bearing' /\ Apart'
         /\ \A c, a, r : script' # HandScript(c, a, r)
<1>1. script = <<>> /\ lanes = {} /\ Ahead = {}
  BY NothingAhead
<1>2. \A a, r : ~Unborn(a, r) /\ \A c : script # HandScript(c, a, r)
  BY <1>1, NoneUnborn
<1>3. S => Expiring /\ Bearing /\ NoneDone
  BY <1>1, <1>2 DEF Expiring, NoneWaited, Bearing, AllTracked
<1> QED  BY <1>1, <1>3, BatchFrame, OfCallIsNoTask DEF OfCall

\* A batch has no open call left.
LEMMA BatchEndsKeeps ==
  ASSUME Sane, Outline, Between, BatchEnds
  PROVE  Sane' /\ Outline'
<1> USE DEF BatchEnds, shadow
<1>1. /\ Inv' /\ TypeOK /\ (InStep' <=> InStep) /\ Tasks'
      /\ UNCHANGED <<turn, round, round_due, steer_pending, calls, agents, entries, mapped, open, pool, gaps>>
  BY KernelStays, TasksFrame, InStepFrame DEF Sane
<1>2. watched = {} /\ entries = {}
  BY DEF Sane, Ledger
<1>3. Ledger' /\ Verdicts'
  BY <1>2, BooksWithoutCalls DEF Sane
<1>4. /\ Calm /\ turn = "Running"
      /\ InStep => AllTracked /\ DoneIsSettled /\ NoneWaited /\ NoneDone /\ ~steer_pending /\ round_due
  BY <1>2, BatchIsCalm DEF Outline
<1>5. Ahead' = {} /\ Apart' /\ Between'
  BY StillNothingAhead
<1>6. Calm' /\ (InStep => AllTracked' /\ DoneIsSettled' /\ NoneWaited')
  BY <1>1, <1>4, CalmFrame, TrackFrame
<1>7. AtHead'
  BY <1>1, <1>4, <1>5, <1>6 DEF AtHead, Completing
<1> QED  BY <1>1, <1>3, <1>7 DEF Sane, Outline

-----------------------------------------------------------------------------
(* The calls of a batch *)

\* A step of the batch that changes no task.
LEMMA BatchGoesOn ==
  ASSUME Sane, Outline, Between, host \in {"round", "batch"}, UNCHANGED <<vars, mapped, gaps>>,
         lanes' = {}, closing' = <<>>, OfCall(script'),
         \/ Calm' /\ script' = <<>>
         \/ \E c \in Calls : Busy(c)',
         \/ entries' # {}
         \/ entries = {} /\ host = "batch"
         \/ \E c \in Calls : Resolving(c)'
  PROVE  AtBatch'
<1>1. /\ UNCHANGED <<turn, round, round_due, steer_pending, agents>> /\ (InStep' <=> InStep)
  BY KernelStays, InStepFrame
<1>2. /\ turn = "Running"
      /\ InStep => /\ AllTracked /\ NoneDone /\ NoneWaited /\ DoneIsSettled /\ ~steer_pending
                   /\ round = "InRound" /\ (host = "batch" => round_due \/ entries # {})
  BY BatchIsCalm DEF Outline
<1>3. /\ InStep => NoneDone' /\ Expiring' /\ Bearing' /\ Apart'
      /\ \A c, a, r : script' # HandScript(c, a, r)
  BY <1>1, <1>2, IntoBatch DEF InStep
<1>4. Ahead' \subseteq {script'} /\ (script' = <<>> => Ahead' = {})
  BY DEF Ahead
<1> QED  BY <1>1, <1>2, <1>3, <1>4 DEF AtBatch

\* The first three events of a call are call events.
LEMMA CallScripts ==
  ASSUME NEW c, NEW d
  PROVE  /\ OfCall(<<>>)
         /\ OfCall(<<<<"ToolRequest", c, FALSE>>, <<"ToolDeny", c>>, <<"ToolSettle", c>>>>)
         /\ OfCall(<<<<"ToolRequest", c, d>>>>)
         /\ OfCall(<<<<"ToolRequest", c, d>>, <<"ToolAllow", c>>, <<"ToolExecStart", c>>>>)
         /\ OfCall(<<<<"ToolDeny", c>>, <<"ToolSettle", c>>>>)
         /\ OfCall(<<<<"ToolApprove", c>>, <<"ToolExecStart", c>>, <<"ToolExecEnd", c>>, <<"ToolSettle", c>>>>)
         /\ OfCall(<<<<"ToolExecStart", c>>, <<"ToolDeny", c>>, <<"ToolSettle", c>>>>)
         /\ OfCall(EndLane(c))
BY DEF OfCall, EndLane

\* A call slot that is free in the books is free in the kernel.
LEMMA FreeIsUnused ==
  ASSUME Calm, NEW c \in FreeCalls
  PROVE  c \in Calls /\ c \notin Slots(entries) /\ calls[c].phase = "Unused"
BY DEF FreeCalls, Calm, AtRest, Slots

\* A call does not pass its precheck (rejected_precheck).
LEMMA RejectedPrecheckKeeps ==
  ASSUME Sane, Outline, Between, NEW id \in CallIds, RejectedPrecheck(id)
  PROVE  Sane' /\ Outline'
<1> USE DEF RejectedPrecheck, Batch, shadow
<1>1. /\ Inv' /\ TypeOK /\ (InStep' <=> InStep) /\ Tasks'
      /\ UNCHANGED <<turn, round, round_due, steer_pending, calls, agents, entries, mapped, open, pool, gaps>>
  BY KernelStays, TasksFrame, InStepFrame DEF Sane
<1>2. Calm /\ closing = <<>> /\ lanes = {} /\ watched = {}
  BY BatchIsCalm, NothingAhead DEF Outline, Sane, Ledger
<1>3. Ledger' /\ Verdicts'
  BY <1>2 DEF Sane, Ledger, Verdicts, Known
<1>4. Calm' /\ \A d \in Calls : AtRest(d)'
  BY <1>1, <1>2, CalmFrame DEF Calm
<1>5. CASE FreeCalls = {} /\ Silent
  <2>1. entries # {}
    BY <1>5, ShadowAssumption DEF FreeCalls
  <2>2. script' = <<>> /\ lanes' = {} /\ closing' = <<>>
    BY <1>5, StillNothingAhead
  <2>3. AtBatch'
    BY <1>1, <1>4, <2>1, <2>2, BatchGoesOn, CallScripts
  <2> QED  BY <1>1, <1>3, <2>3 DEF Sane, Outline
<1>6. ASSUME NEW c \in FreeCalls,
             Tell(<<<<"ToolRequest", c, FALSE>>, <<"ToolDeny", c>>, <<"ToolSettle", c>>>>)
      PROVE  Sane' /\ Outline'
  <2>1. c \in Calls /\ c \notin Slots(entries) /\ calls[c].phase = "Unused"
    BY <1>2, FreeIsUnused
  <2>2. /\ script' = <<<<"ToolRequest", c, FALSE>>, <<"ToolDeny", c>>, <<"ToolSettle", c>>>>
        /\ lanes' = {} /\ closing' = <<>>
    BY <1>2, <1>6 DEF Tell
  <2>3. Resolving(c)'
    BY <1>1, <2>1, <2>2 DEF Resolving, Slots
  <2>4. Busy(c)'
    BY <1>4, <2>3 DEF Busy
  <2>5. AtBatch'
    BY <1>1, <2>1, <2>2, <2>3, <2>4, BatchGoesOn, CallScripts
  <2> QED  BY <1>1, <1>3, <2>5 DEF Sane, Outline
<1> QED  BY <1>5, <1>6

\* A call is requested (tool_request, tool_dispatched).
LEMMA RequestToolKeeps ==
  ASSUME Sane, Outline, Between, NEW id \in CallIds, NEW danger \in BOOLEAN, NEW denied \in BOOLEAN,
         NEW hook \in BOOLEAN, RequestTool(id, danger, denied, hook)
  PROVE  Sane' /\ Outline'
<1> DEFINE new == [id |-> id, danger |-> danger, denied |-> denied, hook |-> hook,
                   verdict |-> "unasked", parked |-> FALSE, handed |-> FALSE]
<1>1. /\ Inv' /\ TypeOK /\ (InStep' <=> InStep) /\ Tasks'
      /\ UNCHANGED <<turn, round, round_due, steer_pending, calls, agents, mapped, pool, gaps>>
  BY KernelStays, TasksFrame, InStepFrame DEF Sane, RequestTool
<1>2. Calm /\ closing = <<>> /\ lanes = {} /\ watched = {} /\ watched' = {} /\ host' = "batch"
  BY BatchIsCalm, NothingAhead DEF Outline, Sane, Ledger, RequestTool, Batch
<1>3. /\ host \in {"round", "batch"} /\ open' = open \cup {new} /\ new \notin open
      /\ \A j \in open : j.parked /\ j.id # id
      /\ \A e \in entries : e.id # id
  BY DEF RequestTool, Batch, Sane, Ledger
<1> HIDE DEF new
<1>4. /\ new.id = id /\ new.danger = danger /\ new.denied = denied /\ new.verdict = "unasked"
      /\ ~new.parked /\ ~new.handed
      /\ new \in [id : CallIds, danger : BOOLEAN, denied : BOOLEAN, hook : BOOLEAN,
                  verdict : {"unasked", "granted", "refused"}, parked : BOOLEAN, handed : BOOLEAN]
  BY DEF new
<1>5. /\ open' \subseteq [id : CallIds, danger : BOOLEAN, denied : BOOLEAN, hook : BOOLEAN,
                         verdict : {"unasked", "granted", "refused"}, parked : BOOLEAN, handed : BOOLEAN]
      /\ \A j, k \in open' : j.id = k.id \/ (~j.parked /\ ~k.parked) => j = k
  BY <1>3, <1>4 DEF Sane, Ledger
<1>6. CASE FreeCalls = {} /\ Silent /\ unmapped' = unmapped \cup {id} /\ UNCHANGED <<entries, prompt>>
  <2>1. entries # {}
    BY <1>6, ShadowAssumption DEF FreeCalls
  <2>2. script' = <<>> /\ lanes' = {} /\ closing' = <<>>
    BY <1>6, StillNothingAhead
  <2>3. Ledger'
    BY <1>2, <1>3, <1>4, <1>5, <1>6 DEF Sane, Ledger
  <2>4. Verdicts'
    BY <1>3, <1>4, <1>6 DEF Sane, Verdicts, Known
  <2>5. ASSUME NEW d \in Calls PROVE AtRest(d)'
    BY <1>1, <1>2, <1>3, <1>4, <1>6 DEF Calm, AtRest, In, Slots, Expected
  <2>6. AtBatch'
    BY <1>1, <1>3, <2>1, <2>2, <2>5, BatchGoesOn, CallScripts DEF Calm, RequestTool
  <2> QED  BY <1>1, <1>2, <2>3, <2>4, <2>6 DEF Sane, Outline, RequestTool
<1>7. ASSUME NEW c \in FreeCalls,
             Tell(IF denied \/ danger THEN <<<<"ToolRequest", c, danger>>>>
                  ELSE <<<<"ToolRequest", c, danger>>, <<"ToolAllow", c>>, <<"ToolExecStart", c>>>>),
             entries' = entries \cup {[id |-> id, slot |-> c, danger |-> danger, outcome |-> "none"]},
             prompt' = IF ~denied /\ danger THEN {id} ELSE prompt,
             UNCHANGED unmapped
      PROVE  Sane' /\ Outline'
  <2>1. c \in Calls /\ c \notin Slots(entries) /\ calls[c].phase = "Unused"
    BY <1>2, FreeIsUnused
  <2> DEFINE e0 == [id |-> id, slot |-> c, danger |-> danger, outcome |-> "none"]
  <2>2. entries' = entries \cup {e0} /\ e0 \notin entries
    BY <1>3, <1>7
  <2> HIDE DEF e0
  <2>3. /\ e0.id = id /\ e0.slot = c /\ e0.danger = danger /\ e0.outcome = "none"
        /\ e0 \in [id : CallIds, slot : Calls, danger : BOOLEAN, outcome : {"none", "granted", "refused"}]
    BY <2>1 DEF e0
  <2>4. /\ entries' \subseteq [id : CallIds, slot : Calls, danger : BOOLEAN, outcome : {"none", "granted", "refused"}]
        /\ \A e, f \in entries' : e.id = f.id \/ e.slot = f.slot => e = f
    BY <1>3, <2>1, <2>2, <2>3 DEF Sane, Ledger, Slots
  <2>5. Ledger'
    <3>1. \A e \in entries' : e.id \notin unmapped
      <4>1. id \notin unmapped
        BY <1>3 DEF Sane, Ledger
      <4> QED  BY <2>2, <2>3, <4>1 DEF Sane, Ledger
    <3>2. /\ \A e \in entries' : \E k \in open' : k.id = e.id
          /\ \A k \in open' : k.id \in unmapped \/ \E e \in entries' : e.id = k.id
          /\ \A i \in unmapped : \E k \in open' : k.id = i
      BY <1>3, <1>4, <2>2, <2>3 DEF Sane, Ledger
    <3> QED  BY <1>2, <1>5, <1>7, <2>4, <3>1, <3>2 DEF Ledger
  <2>6. ASSUME NEW e \in entries', NEW k \in open', e.id = k.id PROVE Known(e, k)'
    <3>1. CASE k = new
      BY <1>3, <1>4, <1>7, <2>2, <2>3, <2>6, <3>1 DEF Known
    <3>2. CASE k \in open
      BY <1>3, <1>4, <2>2, <2>3, <2>6, <3>2 DEF Known, Sane, Verdicts
    <3> QED  BY <1>3, <3>1, <3>2
  <2>7. ASSUME NEW d \in Calls \ {c} PROVE AtRest(d)'
    BY <1>1, <1>2, <1>3, <1>4, <2>2, <2>3, <2>7 DEF Calm, AtRest, In, Slots, Expected
  <2>8. /\ script' = IF denied \/ danger THEN <<<<"ToolRequest", c, danger>>>>
                     ELSE <<<<"ToolRequest", c, danger>>, <<"ToolAllow", c>>, <<"ToolExecStart", c>>>>
        /\ lanes' = {} /\ closing' = <<>>
    BY <1>2, <1>7 DEF Tell
  <2>9. Opening(c, e0, new)'
    BY <1>1, <1>4, <2>1, <2>3, <2>8 DEF Opening
  <2>10. Busy(c)'
    BY <1>3, <2>2, <2>7, <2>9 DEF Busy
  <2>11. OfCall(script')
    BY <2>8, CallScripts
  <2>12. AtBatch'
    BY <1>1, <1>3, <2>1, <2>2, <2>8, <2>10, <2>11, BatchGoesOn DEF RequestTool
  <2> QED  BY <1>1, <1>2, <2>5, <2>6, <2>12 DEF Sane, Outline, RequestTool, Verdicts
<1> QED  BY <1>6, <1>7 DEF RequestTool

\* A call of the window is the only one that is not parked.
LEMMA TheWindow ==
  ASSUME Sane, NEW k, InWindow(k)
  PROVE  /\ host = "batch" /\ k \in open /\ ~k.parked /\ watched = {}
         /\ k \in [id : CallIds, danger : BOOLEAN, denied : BOOLEAN, hook : BOOLEAN,
                   verdict : {"unasked", "granted", "refused"}, parked : BOOLEAN, handed : BOOLEAN]
         /\ \A j \in open : j # k => j.parked /\ j.id # k.id
BY DEF InWindow, Sane, Ledger

\* A call changes what the host knows of it, not which call it is.
LEMMA LedgerFrame ==
  ASSUME Sane, NEW k \in open, NEW k1, open' = (open \ {k}) \cup {k1}, k1.id = k.id, k1.parked \/ ~k.parked,
         k1 \in [id : CallIds, danger : BOOLEAN, denied : BOOLEAN, hook : BOOLEAN,
                 verdict : {"unasked", "granted", "refused"}, parked : BOOLEAN, handed : BOOLEAN],
         host = "batch", host' = host, UNCHANGED <<unmapped, watched>>,
         entries' \subseteq [id : CallIds, slot : Calls, danger : BOOLEAN, outcome : {"none", "granted", "refused"}],
         \A e \in entries' : \E f \in entries : e.id = f.id /\ e.slot = f.slot,
         \A f \in entries : \E e \in entries' : e.id = f.id,
         \A e, f \in entries' : e.id = f.id => e = f
  PROVE  Ledger'
<1>1. \A i : (\E j \in open' : j.id = i) <=> (\E j \in open : j.id = i)
  OBVIOUS
<1>2. \A j, l \in open' : j.id = l.id \/ (~j.parked /\ ~l.parked) => j = l
  BY DEF Sane, Ledger
<1>3. open' \subseteq [id : CallIds, danger : BOOLEAN, denied : BOOLEAN, hook : BOOLEAN,
                       verdict : {"unasked", "granted", "refused"}, parked : BOOLEAN, handed : BOOLEAN]
  BY DEF Sane, Ledger
<1>4. \A e, f \in entries' : e.id = f.id \/ e.slot = f.slot => e = f
  BY DEF Sane, Ledger
<1>5. \A e \in entries' : (\E j \in open' : j.id = e.id) /\ e.id \notin unmapped
  BY <1>1 DEF Sane, Ledger
<1>6. \A j \in open' : j.id \in unmapped \/ \E e \in entries' : e.id = j.id
  BY <1>1 DEF Sane, Ledger
<1>7. \A i \in unmapped : \E j \in open' : j.id = i
  BY <1>1 DEF Sane, Ledger
<1> QED  BY <1>2, <1>3, <1>4, <1>5, <1>6, <1>7 DEF Sane, Ledger

\* The kernel expects the same of a call whose flags it does not see change.
LEMMA CalmRenamed ==
  ASSUME Calm, UNCHANGED <<calls, gaps>>,
         \A e \in entries' : \E f \in entries : e.id = f.id /\ e.slot = f.slot,
         \A f \in entries : \E e \in entries' : e.id = f.id /\ e.slot = f.slot,
         \A k \in open' : \E j \in open : /\ k.id = j.id /\ k.danger = j.danger /\ k.denied = j.denied
                                          /\ j.handed => k.handed
  PROVE  Calm'
<1> SUFFICES ASSUME NEW c \in Calls PROVE AtRest(c)'
  BY DEF Calm
<1>1. AtRest(c)
  BY DEF Calm
<1>2. ASSUME NEW e \in entries', NEW k \in open', e.slot = c, e.id = k.id
      PROVE  In(c, Expected(k))' /\ (calls'[c].phase # "Unused" => calls'[c].danger = k.danger)
  <2>1. PICK f \in entries : e.id = f.id /\ e.slot = f.slot
    OBVIOUS
  <2>2. PICK j \in open : /\ k.id = j.id /\ k.danger = j.danger /\ k.denied = j.denied
                          /\ j.handed => k.handed
    OBVIOUS
  <2>3. In(c, Expected(j)) /\ (calls[c].phase # "Unused" => calls[c].danger = j.danger)
    BY <1>1, <1>2, <2>1, <2>2 DEF AtRest
  <2>4. Expected(j) \subseteq Expected(k)
    BY <2>2 DEF Expected
  <2> QED  BY <2>2, <2>3, <2>4 DEF In, InStep, Expected
<1>3. Slots(entries') = Slots(entries)
  BY DEF Slots
<1> QED  BY <1>1, <1>2, <1>3 DEF AtRest, Slots

\* The user answers for the call in the window (record_prompt_outcome).
LEMMA RecordPromptOutcomeKeeps ==
  ASSUME Sane, Outline, Between, NEW k \in open, NEW answer \in {"granted", "refused"},
         RecordPromptOutcome(k, answer)
  PROVE  Sane' /\ Outline'
<1> DEFINE k1 == [k EXCEPT !.verdict = answer]
           Said(e) == IF e.id \in prompt /\ e.outcome = "none" THEN [e EXCEPT !.outcome = answer] ELSE e
<1>1. /\ Inv' /\ TypeOK /\ (InStep' <=> InStep) /\ Tasks'
      /\ UNCHANGED <<turn, round, round_due, steer_pending, calls, agents, mapped, pool, gaps>>
  BY KernelStays, TasksFrame, InStepFrame DEF Sane, RecordPromptOutcome
<1>2. /\ InWindow(k) /\ k.danger /\ ~k.denied /\ k.verdict = "unasked" /\ Silent
      /\ open' = (open \ {k}) \cup {k1} /\ entries' = {Said(e) : e \in entries}
      /\ UNCHANGED <<vars, mapped, unmapped, prompt, injection, refused, host, mailbox, watched, pool, gaps>>
  BY DEF RecordPromptOutcome
<1>3. /\ k1.id = k.id /\ k1.danger = k.danger /\ k1.denied = k.denied /\ k1.handed = k.handed
      /\ k1.parked = k.parked /\ k1.verdict = answer
      /\ k1 \in [id : CallIds, danger : BOOLEAN, denied : BOOLEAN, hook : BOOLEAN,
                 verdict : {"unasked", "granted", "refused"}, parked : BOOLEAN, handed : BOOLEAN]
  <2>1. k \in [id : CallIds, danger : BOOLEAN, denied : BOOLEAN, hook : BOOLEAN,
               verdict : {"unasked", "granted", "refused"}, parked : BOOLEAN, handed : BOOLEAN]
    BY <1>2, TheWindow
  <2> QED  BY <2>1
<1>4. ASSUME NEW e \in entries
      PROVE  /\ Said(e).id = e.id /\ Said(e).slot = e.slot /\ Said(e).danger = e.danger
             /\ Said(e).outcome = IF e.id \in prompt /\ e.outcome = "none" THEN answer ELSE e.outcome
             /\ Said(e) \in [id : CallIds, slot : Calls, danger : BOOLEAN, outcome : {"none", "granted", "refused"}]
  BY DEF Sane, Ledger
<1> HIDE DEF k1, Said
<1>5. Ledger'
  <2>1. entries' \subseteq [id : CallIds, slot : Calls, danger : BOOLEAN, outcome : {"none", "granted", "refused"}]
    BY <1>2, <1>4
  <2>2. \A e \in entries' : \E f \in entries : e.id = f.id /\ e.slot = f.slot
    BY <1>2, <1>4
  <2>3. \A f \in entries : \E e \in entries' : e.id = f.id
    BY <1>2, <1>4
  <2>4. \A e, f \in entries' : e.id = f.id => e = f
    BY <1>2, <1>4 DEF Sane, Ledger
  <2> QED  BY <1>2, <1>3, <2>1, <2>2, <2>3, <2>4, TheWindow, LedgerFrame
<1>6. ASSUME NEW f \in entries', NEW j \in open', f.id = j.id PROVE Known(f, j)'
  <2>0. PICK e \in entries : /\ f.id = e.id /\ f.slot = e.slot /\ f.danger = e.danger
                             /\ f.outcome = IF e.id \in prompt /\ e.outcome = "none" THEN answer ELSE e.outcome
    BY <1>2, <1>4
  <2>1. CASE j = k1
    <3>1. Known(e, k)
      BY <1>3, <1>6, <2>0, <2>1 DEF Sane, Verdicts
    <3>2. prompt = {k.id} /\ e.outcome = "none"
      BY <1>2, <3>1, TheWindow DEF Known
    <3> QED  BY <1>2, <1>3, <1>6, <2>0, <2>1, <3>1, <3>2 DEF Known
  <2>2. CASE j \in open /\ j # k
    <3>1. Known(e, j) /\ j.parked
      BY <1>2, <1>6, <2>0, <2>2, TheWindow DEF Sane, Verdicts
    <3> QED  BY <2>0, <3>1 DEF Known
  <2> QED  BY <1>2, <2>1, <2>2
<1>7. Verdicts'
  BY <1>6 DEF Verdicts
<1>8. Calm'
  <2>1. Calm
    BY <1>2, BatchIsCalm, TheWindow DEF Outline
  <2>2. /\ \A e \in entries' : \E f \in entries : e.id = f.id /\ e.slot = f.slot
        /\ \A f \in entries : \E e \in entries' : e.id = f.id /\ e.slot = f.slot
    BY <1>2, <1>4
  <2> QED  BY <1>1, <1>2, <1>3, <2>1, <2>2, CalmRenamed
<1>9. entries' # {} \/ entries = {}
  BY <1>2
<1>10. AtBatch'
  BY <1>1, <1>2, <1>8, <1>9, TheWindow, StillNothingAhead, BatchGoesOn, CallScripts
<1> QED  BY <1>1, <1>2, <1>5, <1>7, <1>10, TheWindow DEF Sane, Outline

\* A call runs on while the next one enters the window.
LEMMA ParkAsyncKeeps ==
  ASSUME Sane, Outline, Between, NEW k \in open, ParkAsync(k)
  PROVE  Sane' /\ Outline'
<1> DEFINE k1 == [k EXCEPT !.parked = TRUE]
<1>1. /\ Inv' /\ TypeOK /\ (InStep' <=> InStep) /\ Tasks'
      /\ UNCHANGED <<turn, round, round_due, steer_pending, calls, agents, mapped, pool, gaps>>
  BY KernelStays, TasksFrame, InStepFrame DEF Sane, ParkAsync, shadow
<1>2. /\ InWindow(k) /\ Silent /\ open' = (open \ {k}) \cup {k1}
      /\ UNCHANGED <<vars, entries, mapped, unmapped, prompt, injection, refused, host, mailbox, watched, pool, gaps>>
  BY DEF ParkAsync, shadow
<1>3. /\ k1.id = k.id /\ k1.danger = k.danger /\ k1.denied = k.denied /\ k1.handed = k.handed
      /\ k1.parked /\ k1.verdict = k.verdict
      /\ k1 \in [id : CallIds, danger : BOOLEAN, denied : BOOLEAN, hook : BOOLEAN,
                 verdict : {"unasked", "granted", "refused"}, parked : BOOLEAN, handed : BOOLEAN]
  <2>1. k \in [id : CallIds, danger : BOOLEAN, denied : BOOLEAN, hook : BOOLEAN,
               verdict : {"unasked", "granted", "refused"}, parked : BOOLEAN, handed : BOOLEAN]
    BY <1>2, TheWindow
  <2> QED  BY <2>1
<1> HIDE DEF k1
<1>4. Ledger'
  <2>1. entries' \subseteq [id : CallIds, slot : Calls, danger : BOOLEAN, outcome : {"none", "granted", "refused"}]
    BY <1>2 DEF Sane, Ledger
  <2>2. \A e, f \in entries' : e.id = f.id => e = f
    BY <1>2 DEF Sane, Ledger
  <2> QED  BY <1>2, <1>3, <2>1, <2>2, TheWindow, LedgerFrame
<1>5. Verdicts'
  BY <1>2, <1>3 DEF Sane, Verdicts, Known
<1>6. Calm'
  <2>1. Calm
    BY <1>2, BatchIsCalm, TheWindow DEF Outline
  <2> QED  BY <1>1, <1>2, <1>3, <2>1, CalmRenamed
<1>7. AtBatch'
  BY <1>1, <1>2, <1>6, TheWindow, StillNothingAhead, BatchGoesOn, CallScripts
<1> QED  BY <1>1, <1>2, <1>4, <1>5, <1>7, TheWindow DEF Sane, Outline

\* A call is over (tool_finished).
LEMMA ToolFinishedKeeps ==
  ASSUME Sane, Outline, Between, NEW k \in open, NEW success \in BOOLEAN, ToolFinished(k, success)
  PROVE  Sane' /\ Outline'
<1> DEFINE own == {e \in entries : e.id = k.id}
<1>1. /\ Inv' /\ TypeOK /\ (InStep' <=> InStep) /\ Tasks'
      /\ UNCHANGED <<turn, round, round_due, steer_pending, calls, agents, mapped, pool, gaps>>
  BY KernelStays, TasksFrame, InStepFrame DEF Sane, ToolFinished
<1>2. /\ host = "batch" /\ open' = open \ {k} /\ unmapped' = unmapped \ {k.id}
      /\ k.parked => \A j \in open : j.parked
      /\ success => Runs(k)
      /\ UNCHANGED <<vars, mapped, refused, host, watched, gaps>>
  BY DEF ToolFinished
<1>3. Calm /\ lanes = {} /\ closing = <<>> /\ watched = {}
  BY <1>2, BatchIsCalm, NothingAhead DEF Outline, Sane, Ledger
<1>4. \A j \in open' : j \in open /\ j.id # k.id /\ j.parked
  BY <1>2 DEF Sane, Ledger
<1>5. CASE k.id \in unmapped /\ Silent /\ UNCHANGED <<entries, prompt>>
  <2>1. \A e \in entries : e.id # k.id
    BY <1>5 DEF Sane, Ledger
  <2>2. Ledger'
    BY <1>2, <1>3, <1>4, <1>5, <2>1 DEF Sane, Ledger
  <2>3. Verdicts'
    BY <1>4, <1>5 DEF Sane, Verdicts, Known
  <2>4. Calm'
    BY <1>1, <1>3, <1>4, <1>5, CalmRenamed
  <2>5. AtBatch'
    BY <1>2, <1>5, <2>4, StillNothingAhead, BatchGoesOn, CallScripts
  <2> QED  BY <1>1, <1>2, <2>2, <2>3, <2>5 DEF Sane, Outline
<1>6. ASSUME k.id \notin unmapped, NEW e \in own, Tell(ResolveEvents(e, k, success)),
             entries' = entries \ own, prompt' = {}
      PROVE  Sane' /\ Outline'
  <2>1. /\ e \in entries /\ e.id = k.id /\ e.slot \in Calls /\ own = {e}
        /\ k \in [id : CallIds, danger : BOOLEAN, denied : BOOLEAN, hook : BOOLEAN,
                  verdict : {"unasked", "granted", "refused"}, parked : BOOLEAN, handed : BOOLEAN]
    BY <1>6 DEF Sane, Ledger
  <2> DEFINE c == e.slot
  <2> HIDE DEF own
  <2>2. \A f \in entries' : f \in entries /\ f.id # k.id /\ f.slot # c
    BY <1>6, <2>1 DEF Sane, Ledger
  <2>3. \A f \in entries : f \in entries' \/ f = e
    BY <1>6, <2>1
  <2>4. Ledger'
    <3>1. \A f \in entries' : \E j \in open' : j.id = f.id
      BY <1>2, <2>2 DEF Sane, Ledger
    <3>2. \A j \in open' : j.id \in unmapped' \/ \E f \in entries' : f.id = j.id
      BY <1>2, <1>4, <2>1, <2>3 DEF Sane, Ledger
    <3>3. \A i \in unmapped' : \E j \in open' : j.id = i
      BY <1>2 DEF Sane, Ledger
    <3>4. \A f \in entries' : f.id \notin unmapped'
      BY <1>2, <2>2 DEF Sane, Ledger
    <3>5. /\ entries' \subseteq entries /\ open' \subseteq open
      BY <2>2, <1>4
    <3> QED  BY <1>2, <1>3, <3>1, <3>2, <3>3, <3>4, <3>5 DEF Sane, Ledger
  <2>5. Verdicts'
    BY <1>4, <2>2 DEF Sane, Verdicts, Known
  <2>6. /\ In(c, Expected(k)) /\ (calls[c].phase # "Unused" => calls[c].danger = k.danger)
        /\ Known(e, k)
    BY <1>3, <2>1 DEF Calm, AtRest, Sane, Verdicts
  <2>7. ASSUME NEW d \in Calls \ {c} PROVE AtRest(d)'
    <3>1. d \in Slots(entries) <=> d \in Slots(entries')
      BY <2>2, <2>3 DEF Slots
    <3>2. AtRest(d)
      BY <1>3 DEF Calm
    <3> QED  BY <1>1, <1>4, <2>2, <3>1, <3>2 DEF AtRest, In, InStep, Slots, Expected
  <2>8. script' = ResolveEvents(e, k, success) /\ lanes' = {} /\ closing' = <<>>
    BY <1>3, <1>6 DEF Tell
  <2>9. c \notin Slots(entries')
    BY <2>2 DEF Slots
  <2>10. \A S, T : In(c, S) /\ S \subseteq T => In(c, T)'
    BY <1>1 DEF In
  <2>11. Resolving(c)' /\ OfCall(script')
    <3>1. CASE k.denied
      <4>1. script' = <<<<"ToolDeny", c>>, <<"ToolSettle", c>>>> /\ In(c, {"Requested"})'
        BY <2>6, <2>8, <2>10, <3>1 DEF ResolveEvents, Expected
      <4> QED  BY <2>9, <4>1, CallScripts DEF Resolving, Slots
    <3>2. CASE ~k.denied /\ ~e.danger
      <4>1. script' = EndLane(c)
        BY <2>8, <3>2 DEF ResolveEvents, EndLane
      <4>2. Expected(k) \subseteq {"Executing", "ExecBg"}
        BY <2>6, <3>2 DEF Expected, Known
      <4>3. In(c, {"Executing", "ExecBg"})'
        BY <2>6, <2>10, <4>2
      <4> QED  BY <2>9, <4>1, <4>3, CallScripts DEF Resolving, Slots
    <3>3. CASE ~k.denied /\ e.danger /\ (e.outcome = "granted" \/ k.hook)
      <4>1. script' = <<<<"ToolApprove", c>>, <<"ToolExecStart", c>>, <<"ToolExecEnd", c>>, <<"ToolSettle", c>>>>
        BY <2>8, <3>3 DEF ResolveEvents
      <4>2. k.danger /\ In(c, {"Requested"})'
        BY <2>6, <2>10, <3>3 DEF Expected, Known
      <4> QED  BY <1>1, <2>6, <2>9, <4>1, <4>2, CallScripts DEF Resolving, Slots
    <3>4. CASE ~k.denied /\ e.danger /\ ~(e.outcome = "granted" \/ k.hook)
      <4>1. e.outcome = "refused" \/ ~success
        BY <1>2, <2>1, <2>6, <3>4 DEF Runs, Known
      <4>2. script' = <<<<"ToolDeny", c>>, <<"ToolSettle", c>>>>
        BY <2>8, <3>4, <4>1 DEF ResolveEvents
      <4>3. In(c, {"Requested"})'
        BY <2>6, <2>10, <3>4 DEF Expected, Known
      <4> QED  BY <2>9, <4>2, <4>3, CallScripts DEF Resolving, Slots
    <3> QED  BY <2>1, <3>1, <3>2, <3>3, <3>4
  <2>12. Busy(c)'
    BY <2>7, <2>11 DEF Busy
  <2>13. AtBatch'
    BY <1>2, <2>1, <2>8, <2>11, <2>12, BatchGoesOn
  <2> QED  BY <1>1, <1>2, <2>4, <2>5, <2>13 DEF Sane, Outline
<1> QED  BY <1>5, <1>6 DEF ToolFinished

-----------------------------------------------------------------------------
(* Tasks *)

\* The identities of a slot alternate.
LEMMA OtherIdentity ==
  ASSUME NEW r \in TaskIds
  PROVE  Other(r) \in TaskIds /\ Other(r) # r
<1>1. TaskIdCount \in Nat /\ TaskIdCount > 1
  BY ConfigAssumption, ShadowAssumption
<1>2. r \in 1..TaskIdCount
  BY DEF TaskIds
<1>3. CASE r = TaskIdCount
  <2>1. r % TaskIdCount = 0
    BY <1>1, <1>3
  <2> QED  BY <1>1, <1>3, <2>1 DEF Other, TaskIds
<1>4. CASE r < TaskIdCount
  <2>1. r % TaskIdCount = r
    BY <1>1, <1>2, <1>4
  <2> QED  BY <1>1, <1>2, <1>4, <2>1 DEF Other, TaskIds
<1> QED  BY <1>1, <1>2, <1>3, <1>4

\* A task below the limit of the books is below the limit of the kernel.
LEMMA BooksHaveRoom ==
  ASSUME Tasks, AllMapped, ~Counted PROVE Room
<1> DEFINE f == [m \in mapped |-> m.slot]
<1>1. f \in Surjection(mapped, Slots(mapped))
  BY DEF Surjection, Slots
<1>2. /\ IsFiniteSet(Slots(mapped)) /\ Cardinality(Slots(mapped)) <= Cardinality(mapped)
      /\ Cardinality(mapped) \in Nat /\ Cardinality(Slots(mapped)) \in Nat
  BY <1>1, FS_Surjection, FS_CardinalityType DEF Tasks
<1>3. RunningAgents \in SUBSET Slots(mapped)
  BY DEF RunningAgents, AllMapped
<1>4. Cardinality(RunningAgents) <= Cardinality(Slots(mapped)) /\ Cardinality(RunningAgents) \in Nat
  BY <1>2, <1>3, FS_Subset, RunningIsFinite
<1> QED  BY <1>2, <1>4, ConfigAssumption DEF Counted, Room

\* A task that gets a slot.
Allots(n, p, a, r) ==
  /\ p \in {"running", "gone"} /\ pool[n] = "absent" /\ pool' = [pool EXCEPT ![n] = p]
  /\ a \in FreeAgents /\ r = Other(agents[a].rid)
  /\ mapped' = mapped \cup {[name |-> n, slot |-> a, rid |-> r]}

\* A task gets a slot that no other has, under an identity the slot did not
\* carry (allocate_agent).
LEMMA Allocated ==
  ASSUME Sane, NEW n \in Names, NEW p, NEW a, NEW r, Allots(n, p, a, r), gaps \subseteq gaps'
  PROVE  /\ Tasks' /\ a \in Agents /\ r \in TaskIds /\ agents[a].rid # r
         /\ a \notin Slots(mapped) /\ a \in Slots(mapped') /\ Slots(mapped) \subseteq Slots(mapped')
         /\ \A m \in mapped' : m \in mapped \/ (m.slot = a /\ m.rid = r)
<1> DEFINE m0 == [name |-> n, slot |-> a, rid |-> r]
<1> USE DEF Allots
<1>1. a \in Agents /\ a \notin Slots(mapped) /\ mapped' = mapped \cup {m0}
  BY DEF FreeAgents, Slots
<1>2. r \in TaskIds /\ agents[a].rid # r
  BY <1>1, OtherIdentity DEF Sane, Inv, Structure, TypeOK, AgentSlot
<1>3. m0 \in [name : Names, slot : Agents, rid : TaskIds] /\ m0.name = n /\ m0.slot = a /\ m0.rid = r
  BY <1>1, <1>2
<1> HIDE DEF m0
<1>4. /\ a \in Slots(mapped') /\ Slots(mapped) \subseteq Slots(mapped')
      /\ \A m \in mapped' : m \in mapped \/ (m.slot = a /\ m.rid = r)
  BY <1>1, <1>3 DEF Slots
<1>5. IsFiniteSet(mapped')
  BY <1>1, FS_AddElement DEF Sane, Tasks
<1>6. \A m, l \in mapped' : m.slot = l.slot => m = l
  BY <1>1, <1>3 DEF Sane, Tasks, Slots
<1>7. ASSUME InStep' PROVE LiveTasks' \cup Undelivered' \subseteq {m.name : m \in mapped'}
  <2>1. InStep
    BY <1>7 DEF InStep
  <2>2. LiveTasks' \cup Undelivered' \subseteq LiveTasks \cup Undelivered \cup {n}
    BY DEF LiveTasks, Undelivered, Sane, Tasks
  <2>3. {n} \cup {m.name : m \in mapped} \subseteq {m.name : m \in mapped'}
    BY <1>1, <1>3
  <2> QED  BY <2>1, <2>2, <2>3 DEF Sane, Tasks
<1>8. pool' \in [Names -> {"absent", "running", "settled", "gone"}]
  BY DEF Sane, Tasks
<1> QED  BY <1>1, <1>2, <1>3, <1>4, <1>5, <1>6, <1>7, <1>8 DEF Sane, Tasks

\* A task that gets no slot; the shadow is out of step.
LEMMA NotFollowed ==
  ASSUME Sane, NEW n \in Names, NEW p \in {"running", "gone"}, pool' = [pool EXCEPT ![n] = p], Untracked
  PROVE  ~InStep' /\ Tasks' /\ Silent /\ mapped' = mapped
<1>1. ~InStep' /\ mapped' = mapped /\ Silent
  BY DEF Untracked, Saw, InStep
<1> QED  BY <1>1 DEF Sane, Tasks

\* Losing step asks less of the calls.
LEMMA CalmLoosened ==
  ASSUME Calm, gaps \subseteq gaps', UNCHANGED <<calls, entries>>,
         \A k \in open' : \E j \in open : /\ k.id = j.id /\ k.danger = j.danger /\ k.denied = j.denied
                                          /\ j.handed => k.handed
  PROVE  Calm'
<1> SUFFICES ASSUME NEW c \in Calls PROVE AtRest(c)'
  BY DEF Calm
<1>1. AtRest(c) /\ (InStep' => InStep)
  BY DEF Calm, InStep
<1>2. ASSUME NEW e \in entries, NEW k \in open', e.slot = c, e.id = k.id
      PROVE  In(c, Expected(k))' /\ (calls'[c].phase # "Unused" => calls'[c].danger = k.danger)
  <2>1. PICK j \in open : /\ k.id = j.id /\ k.danger = j.danger /\ k.denied = j.denied
                          /\ j.handed => k.handed
    OBVIOUS
  <2>2. In(c, Expected(j)) /\ (calls[c].phase # "Unused" => calls[c].danger = j.danger)
    BY <1>1, <1>2, <2>1 DEF AtRest
  <2>3. Expected(j) \subseteq Expected(k)
    BY <2>1 DEF Expected
  <2> QED  BY <1>1, <2>1, <2>2, <2>3 DEF In, Expected
<1> QED  BY <1>1, <1>2 DEF AtRest, Slots

\* The kernel will hear of a task the books have and it has room for.
LEMMA SoonBorn ==
  ASSUME Sane, Between, AllTracked, round = "InRound", ~Counted, UNCHANGED vars,
         NEW a \in Agents, NEW r \in TaskIds, agents[a].rid # r,
         a \notin Slots(mapped), a \in Slots(mapped'), Slots(mapped) \subseteq Slots(mapped'),
         \A m \in mapped' : m \in mapped \/ (m.slot = a /\ m.rid = r),
         \/ script' = SpawnScript(a, r)
         \/ \E c \in Calls : script' = HandScript(c, a, r) /\ calls[c].phase = "Executing"
  PROVE  Bearing'
<1>1. UNCHANGED <<round, calls, agents>>
  BY DEF vars
<1>2. \A b, s : Unborn(b, s)' <=> b = a /\ s = r
  BY SpawnForm, HandForm DEF Unborn
<1>3. Room /\ Room'
  BY <1>1, BooksHaveRoom DEF Sane, AllTracked, Room, RunningAgents
<1>4. agents[a].phase = "None"
  BY DEF AllTracked, AllMapped
<1>5. \A c \in Calls : \A b, s : script' = HandScript(c, b, s) => calls[c].phase = "Executing"
  BY SpawnForm, HandForm
<1>6. \A m \in mapped' : Tracked(m)' \/ Unborn(m.slot, m.rid)'
  BY <1>1, <1>2 DEF AllTracked, Tracked
<1>7. AllMapped'
  BY <1>1 DEF AllTracked, AllMapped, Slots
<1> QED  BY <1>1, <1>2, <1>3, <1>4, <1>5, <1>6, <1>7 DEF Bearing, Slots

\* A call starts a task, or fails to and aborts the run (agent_spawned).
LEMMA SpawnTaskKeeps ==
  ASSUME Sane, Outline, Between, NEW k \in open, NEW n \in Names, NEW starts \in BOOLEAN, SpawnTask(k, n, starts)
  PROVE  Sane' /\ Outline'
<1> DEFINE p == IF starts THEN "running" ELSE "gone"
<1>1. /\ Inv' /\ TypeOK
      /\ UNCHANGED <<turn, round, round_due, steer_pending, calls, agents>>
  BY KernelStays DEF SpawnTask
<1>2. /\ InWindow(k) /\ pool[n] = "absent" /\ pool' = [pool EXCEPT ![n] = p]
      /\ host' = IF starts THEN "batch" ELSE "abort"
      /\ UNCHANGED <<vars, entries, unmapped, prompt, injection, refused, mailbox, open, watched>>
  BY TheWindow DEF SpawnTask, CanRegister
<1>3. \/ Untracked
      \/ \E a \in FreeAgents :
           LET r == Other(agents[a].rid) IN
           /\ mapped' = mapped \cup {[name |-> n, slot |-> a, rid |-> r]}
           /\ Tell(SpawnScript(a, r))
           /\ Saw(IF Counted THEN {"ghost"} ELSE {})
  BY DEF SpawnTask, AllocateAgent, SpawnScript
<1>4. gaps \subseteq gaps' /\ (InStep' => InStep)
  BY <1>3 DEF Untracked, Saw, InStep
<1>5. /\ Calm /\ turn = "Running" /\ script = <<>> /\ lanes = {} /\ closing = <<>> /\ Ahead = {}
      /\ InStep => /\ AllTracked /\ NoneDone /\ NoneWaited /\ DoneIsSettled /\ ~steer_pending
                   /\ round = "InRound" /\ (round_due \/ entries # {})
  BY <1>2, TheWindow, BatchIsCalm, NothingAhead DEF Outline
<1>6. Ledger' /\ Verdicts'
  BY <1>2, TheWindow DEF Sane, Ledger, Verdicts, Known
<1>7. Calm'
  BY <1>1, <1>2, <1>4, <1>5, CalmLoosened
<1>8. InStep' => ~refused'
  BY <1>2, <1>4 DEF Sane
<1>9. CASE Untracked
  <2>1. ~InStep' /\ Tasks' /\ Ahead' = {} /\ script' = <<>> /\ lanes' = {} /\ closing' = <<>>
    BY <1>2, <1>9, NotFollowed, StillNothingAhead
  <2>2. \A c, a, r : script' # HandScript(c, a, r)
    BY <2>1, HandForm
  <2>3. AtBatch' /\ AtAbort'
    BY <1>1, <1>5, <1>7, <2>1, <2>2 DEF AtBatch, AtAbort
  <2> QED  BY <1>1, <1>2, <1>6, <2>1, <2>3 DEF Sane, Outline
<1>10. ASSUME NEW a \in FreeAgents, NEW r, r = Other(agents[a].rid),
              mapped' = mapped \cup {[name |-> n, slot |-> a, rid |-> r]},
              Tell(SpawnScript(a, r)), Saw(IF Counted THEN {"ghost"} ELSE {})
       PROVE  Sane' /\ Outline'
  <2>1. /\ Tasks' /\ a \in Agents /\ r \in TaskIds /\ agents[a].rid # r
        /\ a \notin Slots(mapped) /\ a \in Slots(mapped') /\ Slots(mapped) \subseteq Slots(mapped')
        /\ \A m \in mapped' : m \in mapped \/ (m.slot = a /\ m.rid = r)
    <3>1. Allots(n, p, a, r)
      BY <1>2, <1>10 DEF Allots
    <3> QED  BY <1>4, <3>1, Allocated
  <2>2. script' = SpawnScript(a, r) /\ lanes' = {} /\ closing' = <<>>
    BY <1>5, <1>10 DEF Tell
  <2>3. Ahead' = {SpawnScript(a, r)} /\ Apart' /\ SpawnScript(a, r) \in SpawnScripts
    BY <2>1, <2>2, SpawnForm DEF Ahead, Apart, SpawnScripts
  <2>4. InStep' => ~Counted
    BY <1>10 DEF InStep, Saw
  <2>5. InStep' => Bearing'
    BY <1>2, <1>4, <1>5, <2>1, <2>2, <2>4, SoonBorn
  <2>6. InStep => Expiring' /\ NoneDone' /\ DoneIsSettled'
    BY <1>1, <1>5, <2>1, <2>3, SpawnForm, TimeoutForm
       DEF Expiring, NoneWaited, NoneDone, DoneIsSettled, Done, Sane, Tasks
  <2>7. \A c, b, s : script' # HandScript(c, b, s)
    BY <2>2, SpawnForm, HandForm
  <2>8. AtBatch'
    BY <1>1, <1>2, <1>4, <1>5, <1>7, <2>2, <2>3, <2>5, <2>6, <2>7 DEF AtBatch
  <2>9. AtAbort'
    BY <1>1, <1>4, <1>5, <1>7, <2>2, <2>3, <2>5, <2>6 DEF AtAbort
  <2> QED  BY <1>1, <1>2, <1>6, <1>8, <2>1, <2>8, <2>9 DEF Sane, Outline
<1> QED  BY <1>3, <1>9, <1>10

\* A refused handoff leaves a task the shadow was not told of, and is out of
\* step from then on (adopt_timed_out_shell).
LEMMA HandoffRefusedKeeps ==
  ASSUME Sane, Outline, Between, NEW k \in open, NEW n \in Names, HandoffRefused(k, n)
  PROVE  Sane' /\ Outline'
<1>1. /\ Inv' /\ TypeOK
      /\ UNCHANGED <<turn, round, round_due, steer_pending, calls, agents>>
  BY KernelStays DEF HandoffRefused
<1>2. /\ InWindow(k) /\ pool' = [pool EXCEPT ![n] = "running"]
      /\ Silent /\ gaps \subseteq gaps' /\ ~InStep'
      /\ UNCHANGED <<vars, shadow, refused, host, mailbox, open, watched>>
  BY DEF HandoffRefused, Saw, InStep
<1>3. /\ Calm /\ turn = "Running" /\ script = <<>> /\ lanes = {} /\ closing = <<>> /\ Ahead = {}
  BY <1>2, TheWindow, BatchIsCalm, NothingAhead DEF Outline
<1>4. Ledger' /\ Verdicts'
  BY <1>2, TheWindow DEF Sane, Ledger, Verdicts, Known, shadow
<1>5. Calm'
  BY <1>1, <1>2, <1>3, CalmLoosened DEF shadow
<1>6. Tasks'
  BY <1>2 DEF Sane, Tasks, shadow
<1>7. Ahead' = {} /\ script' = <<>> /\ lanes' = {} /\ closing' = <<>>
  BY <1>2, StillNothingAhead
<1>8. \A c, a, r : script' # HandScript(c, a, r)
  BY <1>7, HandForm
<1>9. AtBatch'
  BY <1>1, <1>2, <1>3, <1>5, <1>7, <1>8 DEF AtBatch
<1> QED  BY <1>1, <1>2, <1>4, <1>6, <1>9, TheWindow DEF Sane, Outline, shadow

\* A call goes on as a task and owes its receipt (tool_backgrounded).
LEMMA ToolBackgroundedKeeps ==
  ASSUME Sane, Outline, Between, NEW k \in open, NEW n \in Names, ToolBackgrounded(k, n)
  PROVE  Sane' /\ Outline'
<1> DEFINE k1 == [k EXCEPT !.handed = TRUE]
<1>1. /\ Inv' /\ TypeOK
      /\ UNCHANGED <<turn, round, round_due, steer_pending, calls, agents>>
  BY KernelStays DEF ToolBackgrounded
<1>2. /\ InWindow(k) /\ pool[n] = "absent" /\ pool' = [pool EXCEPT ![n] = "running"]
      /\ Runs(k) /\ ~k.handed /\ open' = (open \ {k}) \cup {k1}
      /\ UNCHANGED <<vars, entries, unmapped, prompt, injection, refused, host, mailbox, watched>>
  BY DEF ToolBackgrounded, CanRegister
<1>3. \/ Untracked
      \/ \E e \in entries :
           /\ e.id = k.id
           /\ \/ Untracked
              \/ \E a \in FreeAgents :
                   LET r == Other(agents[a].rid) IN
                   /\ mapped' = mapped \cup {[name |-> n, slot |-> a, rid |-> r]}
                   /\ Tell(HandScript(e.slot, a, r))
                   /\ Saw(IF Counted \/ k.danger THEN {"ghost"} ELSE {})
  BY DEF ToolBackgrounded, AllocateAgent, HandScript
<1>4. gaps \subseteq gaps' /\ (InStep' => InStep)
  BY <1>3 DEF Untracked, Saw, InStep
<1>5. /\ Calm /\ turn = "Running" /\ script = <<>> /\ lanes = {} /\ closing = <<>> /\ Ahead = {}
      /\ InStep => /\ AllTracked /\ NoneDone /\ NoneWaited /\ DoneIsSettled /\ ~steer_pending
                   /\ round = "InRound" /\ (round_due \/ entries # {})
  BY <1>2, TheWindow, BatchIsCalm, NothingAhead DEF Outline
<1>6. /\ k1.id = k.id /\ k1.danger = k.danger /\ k1.denied = k.denied /\ k1.handed
      /\ k1.parked = k.parked /\ k1.verdict = k.verdict
      /\ k1 \in [id : CallIds, danger : BOOLEAN, denied : BOOLEAN, hook : BOOLEAN,
                 verdict : {"unasked", "granted", "refused"}, parked : BOOLEAN, handed : BOOLEAN]
  <2>1. k \in [id : CallIds, danger : BOOLEAN, denied : BOOLEAN, hook : BOOLEAN,
               verdict : {"unasked", "granted", "refused"}, parked : BOOLEAN, handed : BOOLEAN]
    BY <1>2, TheWindow
  <2> QED  BY <2>1
<1> HIDE DEF k1
<1>7. Ledger'
  <2>1. entries' \subseteq [id : CallIds, slot : Calls, danger : BOOLEAN, outcome : {"none", "granted", "refused"}]
    BY <1>2 DEF Sane, Ledger
  <2>2. \A e, f \in entries' : e.id = f.id => e = f
    BY <1>2 DEF Sane, Ledger
  <2> QED  BY <1>2, <1>6, <2>1, <2>2, TheWindow, LedgerFrame
<1>8. Verdicts'
  BY <1>2, <1>6 DEF Sane, Verdicts, Known
<1>9. Calm'
  BY <1>1, <1>2, <1>4, <1>5, <1>6, CalmLoosened
<1>10. InStep' => ~refused'
  BY <1>2, <1>4 DEF Sane
<1>11. CASE Untracked
  <2>1. ~InStep' /\ Tasks' /\ Ahead' = {} /\ script' = <<>> /\ lanes' = {} /\ closing' = <<>>
    BY <1>2, <1>11, NotFollowed, StillNothingAhead
  <2>2. \A c, a, r : script' # HandScript(c, a, r)
    BY <2>1, HandForm
  <2>3. AtBatch'
    BY <1>1, <1>5, <1>9, <2>1, <2>2 DEF AtBatch
  <2> QED  BY <1>1, <1>2, <1>7, <1>8, <2>1, <2>3, TheWindow DEF Sane, Outline
<1>12. ASSUME NEW e \in entries, e.id = k.id, NEW a \in FreeAgents, NEW r, r = Other(agents[a].rid),
              mapped' = mapped \cup {[name |-> n, slot |-> a, rid |-> r]},
              Tell(HandScript(e.slot, a, r)), Saw(IF Counted \/ k.danger THEN {"ghost"} ELSE {})
       PROVE  Sane' /\ Outline'
  <2>1. /\ Tasks' /\ a \in Agents /\ r \in TaskIds /\ agents[a].rid # r
        /\ a \notin Slots(mapped) /\ a \in Slots(mapped') /\ Slots(mapped) \subseteq Slots(mapped')
        /\ \A m \in mapped' : m \in mapped \/ (m.slot = a /\ m.rid = r)
    <3>1. Allots(n, "running", a, r)
      BY <1>2, <1>12 DEF Allots
    <3> QED  BY <1>4, <3>1, Allocated
  <2>2. script' = HandScript(e.slot, a, r) /\ lanes' = {} /\ closing' = <<>> /\ e.slot \in Calls
    BY <1>5, <1>12 DEF Tell, Sane, Ledger
  <2>3. Ahead' = {HandScript(e.slot, a, r)} /\ Apart' /\ HandScript(e.slot, a, r) \in HandScripts
    BY <2>1, <2>2, HandForm DEF Ahead, Apart, HandScripts
  <2>4. InStep' => ~Counted /\ ~k.danger
    BY <1>12 DEF InStep, Saw
  <2>5. InStep' => calls[e.slot].phase = "Executing"
    <3>1. In(e.slot, Expected(k))
      BY <1>5, <1>12, <2>2 DEF Calm, AtRest
    <3>2. ~k.danger => Expected(k) = {"Executing"}
      BY <1>2 DEF Expected, Runs
    <3> QED  BY <1>4, <2>4, <3>1, <3>2 DEF In
  <2>6. InStep' => Bearing'
    BY <1>2, <1>4, <1>5, <2>1, <2>2, <2>4, <2>5, SoonBorn
  <2>7. InStep => Expiring' /\ NoneDone'
    BY <1>1, <1>5, <2>3, HandForm DEF Expiring, NoneWaited, NoneDone
  <2>8. \A c \in Calls, b \in Agents, s \in TaskIds : script' = HandScript(c, b, s) =>
          \A f \in entries', j \in open' : f.slot = c /\ f.id = j.id => j.handed
    <3> SUFFICES ASSUME NEW c \in Calls, NEW b \in Agents, NEW s \in TaskIds, script' = HandScript(c, b, s),
                        NEW f \in entries', NEW j \in open', f.slot = c, f.id = j.id
                 PROVE  j.handed
      OBVIOUS
    <3>0. f \in entries /\ f.slot = e.slot
      <4>1. c = e.slot
        BY <2>2 DEF HandScript
      <4>2. entries' = entries
        BY <1>2
      <4> QED  BY <4>1, <4>2
    <3>1. f = e
      BY <3>0 DEF Sane, Ledger
    <3>2. j = k1
      BY <1>2, <1>12, <3>1, TheWindow
    <3> QED  BY <1>6, <3>2
  <2>9. AtBatch'
    BY <1>1, <1>2, <1>4, <1>5, <1>9, <2>2, <2>3, <2>6, <2>7, <2>8 DEF AtBatch
  <2> QED  BY <1>1, <1>2, <1>7, <1>8, <1>10, <2>1, <2>9, TheWindow DEF Sane, Outline
<1> QED  BY <1>3, <1>11, <1>12

\* A call waits for tasks (task_wait_started).
LEMMA TaskWaitStartedKeeps ==
  ASSUME Sane, Outline, Between, NEW k \in open, NEW ns \in SUBSET Names, TaskWaitStarted(k, ns)
  PROVE  Sane' /\ Outline'
<1> USE DEF TaskWaitStarted, shadow
<1>1. /\ Inv' /\ TypeOK /\ (InStep' <=> InStep) /\ Tasks' /\ host = "batch" /\ open' = open
      /\ UNCHANGED <<turn, round, round_due, steer_pending, calls, agents, entries, mapped, pool, gaps>>
  BY KernelStays, TasksFrame, InStepFrame, TheWindow DEF Sane
<1>2. Ledger' /\ Verdicts'
  BY <1>1 DEF Sane, Ledger, Verdicts, Known
<1>3. /\ Calm /\ turn = "Running" /\ script = <<>> /\ closing = <<>>
      /\ InStep => /\ AllTracked /\ NoneDone /\ NoneWaited /\ ~steer_pending
                   /\ round = "InRound" /\ (round_due \/ entries # {})
  BY <1>1, BatchIsCalm, NothingAhead DEF Outline
<1>4. script' = <<>> /\ closing' = <<>> /\ lanes' = {WaitLane(m.slot, m.rid) : m \in Mapped(ns)}
  BY <1>3 DEF TellEach, WaitLane
<1>5. \A m \in Mapped(ns) : m \in mapped /\ m.slot \in Agents /\ m.rid \in TaskIds
  BY DEF Mapped, Sane, Tasks
<1>6. Ahead' = lanes' /\ Apart' /\ lanes' \subseteq WaitLanes
  <2>1. \A lane \in lanes' : lane \in WaitLanes /\ lane # <<>>
    BY <1>4, <1>5, WaitForm DEF WaitLanes
  <2> QED  BY <1>4, <2>1 DEF Ahead, Apart
<1>7. InStep => Waiting'
  <2>1. \A a \in Agents, r \in TaskIds : WaitLane(a, r) \in lanes' =>
          \E m \in mapped : m.slot = a /\ m.rid = r /\ m.name \in ns
    BY <1>4, <1>5, WaitForm DEF Mapped
  <2>2. \A m \in mapped : m.name \in ns => WaitLane(m.slot, m.rid) \in lanes'
    BY <1>4 DEF Mapped
  <2>3. \A m \in mapped : NoneWaited => ~agents[m.slot].waited
    BY DEF NoneWaited, Sane, Tasks
  <2>4. watched' = ns
    OBVIOUS
  <2> QED  BY <1>1, <1>3, <1>6, <2>1, <2>2, <2>3, <2>4 DEF Waiting
<1>8. Calm' /\ (InStep => AllTracked' /\ NoneDone')
  BY <1>1, <1>3, CalmFrame, TrackFrame
<1>9. AtWaiting'
  BY <1>1, <1>3, <1>4, <1>6, <1>7, <1>8 DEF AtWaiting
<1> QED  BY <1>1, <1>2, <1>9 DEF Sane, Outline

\* The tasks of a wait's claim leave the books.
LEMMA TaskWaitClaimedKeeps ==
  ASSUME Sane, Outline, Between, NEW got \in SUBSET (watched \cap Undelivered), TaskWaitClaimed(got)
  PROVE  Sane' /\ Outline'
<1> USE DEF TaskWaitClaimed
<1>1. /\ Inv' /\ TypeOK /\ (InStep' <=> InStep)
      /\ UNCHANGED <<turn, round, round_due, steer_pending, calls, agents, entries, open, gaps>>
  BY KernelStays, InStepFrame
<1>2. Ledger' /\ Verdicts'
  BY <1>1 DEF Sane, Ledger, Verdicts, Known
<1>3. AtWaiting /\ script = <<>> /\ closing = <<>> /\ Ahead = {}
  BY NothingAhead DEF Outline
<1>4. lanes' = {ClaimLane(m.slot, m.rid) : m \in Mapped(got)} /\ script' = <<>> /\ closing' = <<>>
  BY <1>3 DEF TellEach, ClaimEvents, ClaimLane
<1>5. /\ \A m \in mapped : m \in mapped' \/ m \in Mapped(got)
      /\ \A m \in mapped' : m \in mapped /\ m.name \notin got
      /\ \A n \in Names : pool'[n] = IF n \in got THEN "gone" ELSE pool[n]
      /\ \A n \in got : n \in watched /\ pool[n] = "settled"
      /\ watched' = watched \ got
  BY DEF Mapped, Undelivered, Collected
<1>6. Tasks'
  <2>1. IsFiniteSet(mapped') /\ mapped' \subseteq mapped
    BY FS_Subset DEF Sane, Tasks
  <2>2. pool' \in [Names -> {"absent", "running", "settled", "gone"}]
    BY DEF Collected, Sane, Tasks
  <2>3. ASSUME InStep, NEW n \in LiveTasks' \cup Undelivered'
        PROVE  n \in {m.name : m \in mapped'}
    <3>1. n \in Names /\ pool[n] \in {"running", "settled"} /\ n \notin got
      BY <1>5, <2>2, <2>3 DEF LiveTasks, Undelivered
    <3>2. PICK m \in mapped : m.name = n
      BY <2>3, <3>1 DEF Sane, Tasks, LiveTasks, Undelivered
    <3> QED  BY <1>5, <3>1, <3>2 DEF Mapped
  <2> QED  BY <1>1, <2>1, <2>2, <2>3 DEF Sane, Tasks
<1>7. ASSUME NEW lane \in lanes'
      PROVE  \E m \in mapped : /\ m \notin mapped' /\ m.slot \in Agents /\ m.rid \in TaskIds /\ m.name \in got
                               /\ lane = ClaimLane(m.slot, m.rid)
  BY <1>4, <1>5 DEF Mapped, Sane, Tasks
<1>8. Ahead' = lanes' /\ Apart' /\ lanes' \subseteq ClaimLanes
  <2>1. \A lane \in lanes' : lane \in ClaimLanes /\ lane # <<>>
    BY <1>7, ClaimForms DEF ClaimLanes
  <2> QED  BY <1>4, <2>1 DEF Ahead, Apart
<1>9. ASSUME InStep PROVE Claiming'
  <2>0. /\ AllTracked /\ NoneDone
        /\ \A m \in mapped : agents[m.slot].waited <=> m.name \in watched
    BY <1>3, <1>9 DEF AtWaiting, Waiting
  <2>1. \A m \in mapped, l \in mapped' : m \notin mapped' => m.slot # l.slot
    BY <1>5 DEF Sane, Tasks
  <2>2. ASSUME NEW a \in Agents, NEW r \in TaskIds, ClaimLane(a, r) \in lanes'
        PROVE  Holds(a, r, "Running") /\ agents[a].waited /\ a \notin Slots(mapped')
    <3>1. PICK m \in mapped : m \notin mapped' /\ m.slot = a /\ m.rid = r /\ m.name \in got
      BY <1>7, <2>2, ClaimForms
    <3>2. agents[a].phase \in {"None", "Running", "Done"}
      BY <1>1 DEF TypeOK, AgentSlot, AgentPhase
    <3>3. Holds(a, r, "Running")
      BY <2>0, <3>1, <3>2 DEF AllTracked, Tracked, NoneDone, Holds
    <3> QED  BY <1>5, <2>0, <2>1, <3>1, <3>3 DEF Slots
  <2>3. ASSUME NEW a \in Agents, NEW r \in TaskIds PROVE DeliverLane(a, r) \notin lanes'
    BY <1>7, ClaimForms
  <2>4. ASSUME NEW a \in Agents, agents[a].phase # "None", a \notin Slots(mapped')
        PROVE  \E r \in TaskIds : ClaimLane(a, r) \in lanes'
    <3>1. PICK m \in mapped : m.slot = a
      BY <2>0, <2>4 DEF AllTracked, AllMapped, Slots
    <3>2. m \in Mapped(got) /\ m.rid \in TaskIds
      BY <1>5, <2>4, <3>1 DEF Slots, Sane, Tasks
    <3> QED  BY <1>4, <3>1, <3>2
  <2>5. ASSUME NEW m \in mapped' PROVE Tracked(m) /\ ~Done(m) /\ (agents[m.slot].waited <=> m.name \in watched')
    BY <1>5, <2>0 DEF AllTracked, NoneDone, Done, Sane, Tasks
  <2>6. /\ \A a, r : Holds(a, r, "Done")' <=> Holds(a, r, "Done")
        /\ \A a, r : Holds(a, r, "Running")' <=> Holds(a, r, "Running")
        /\ \A m : (Tracked(m)' <=> Tracked(m)) /\ (Done(m)' <=> Done(m))
    BY <1>1 DEF Holds, Tracked, Done
  <2> QED  BY <1>1, <1>8, <2>2, <2>3, <2>4, <2>5, <2>6 DEF Claiming, Slots
<1>10. Calm'
  BY <1>1, <1>3, CalmFrame DEF AtWaiting
<1>11. AtDrained'
  BY <1>1, <1>3, <1>4, <1>8, <1>9, <1>10 DEF AtDrained, AtWaiting
<1> QED  BY <1>1, <1>2, <1>6, <1>11 DEF Sane, Outline

\* What a wait watches and did not get is disarmed (task_wait_timed_out).
LEMMA TaskWaitTimedOutKeeps ==
  ASSUME Sane, Outline, Between, TaskWaitTimedOut
  PROVE  Sane' /\ Outline'
<1> USE DEF TaskWaitTimedOut, shadow
<1>1. /\ Inv' /\ TypeOK /\ (InStep' <=> InStep) /\ Tasks'
      /\ UNCHANGED <<turn, round, round_due, steer_pending, calls, agents, entries, mapped, open, pool, gaps>>
  BY KernelStays, TasksFrame, InStepFrame DEF Sane
<1>2. Ledger' /\ Verdicts'
  BY <1>1 DEF Sane, Ledger, Verdicts, Known
<1>3. AtDrained /\ script = <<>> /\ closing = <<>> /\ Ahead = {}
  BY NothingAhead DEF Outline
<1>4. lanes' = {TimeoutLane(m.slot, m.rid) : m \in Mapped(watched)} /\ script' = <<>> /\ closing' = <<>>
  BY <1>3 DEF TellEach, TimeoutLane
<1>5. ASSUME NEW lane \in lanes'
      PROVE  \E m \in mapped : /\ m.slot \in Agents /\ m.rid \in TaskIds /\ m.name \in watched
                               /\ lane = TimeoutLane(m.slot, m.rid)
  BY <1>4 DEF Mapped, Sane, Tasks
<1>6. Ahead' = lanes' /\ Apart' /\ lanes' \subseteq TimeoutLanes
  <2>1. \A lane \in lanes' : lane \in TimeoutLanes /\ lane # <<>>
    BY <1>5, TimeoutForm DEF TimeoutLanes
  <2> QED  BY <1>4, <2>1 DEF Ahead, Apart
<1>7. InStep => /\ AllMapped
                /\ \A m \in mapped : Tracked(m) /\ ~Done(m) /\ (agents[m.slot].waited <=> m.name \in watched)
  BY <1>3 DEF AtDrained, Claiming, AllMapped
<1>8. ASSUME InStep PROVE Expiring'
  <2>1. ASSUME NEW a \in Agents, NEW r \in TaskIds, TimeoutLane(a, r) \in lanes'
        PROVE  Holds(a, r, "Running") /\ agents[a].waited
    <3>1. PICK m \in mapped : m.slot = a /\ m.rid = r /\ m.name \in watched
      BY <1>5, <2>1, TimeoutForm
    <3>2. agents[a].phase \in {"None", "Running", "Done"}
      BY <1>1 DEF TypeOK, AgentSlot, AgentPhase
    <3> QED  BY <1>7, <1>8, <3>1, <3>2 DEF Tracked, Done, Holds
  <2>2. ASSUME NEW a \in Agents, agents[a].waited PROVE \E r \in TaskIds : TimeoutLane(a, r) \in lanes'
    <3>1. agents[a].phase # "None"
      BY <2>2 DEF Sane, Inv, Structure, WaitsInRound
    <3>2. PICK m \in mapped : m.slot = a
      BY <1>7, <1>8, <3>1 DEF AllMapped, Slots
    <3>3. m \in Mapped(watched) /\ m.rid \in TaskIds
      BY <1>7, <1>8, <2>2, <3>2 DEF Mapped, Sane, Tasks
    <3> QED  BY <1>4, <3>2, <3>3
  <2> QED  BY <1>1, <1>6, <2>1, <2>2 DEF Expiring, Holds
<1>9. InStep => Bearing' /\ NoneDone'
  <2>1. \A a, r : ~Unborn(a, r)' /\ \A c : script' # HandScript(c, a, r)
    BY <1>4, SpawnForm, HandForm DEF Unborn
  <2>2. InStep => NoneDone
    BY <1>7 DEF AllMapped, NoneDone, Done, Slots
  <2> QED  BY <1>1, <1>7, <2>1, <2>2 DEF Bearing, AllMapped, Tracked, Slots, NoneDone
<1>10. Calm'
  BY <1>1, <1>3, CalmFrame DEF AtDrained
<1>11. \A c, a, r : script' # HandScript(c, a, r)
  BY <1>4, HandForm
<1>12. AtBatch'
  BY <1>1, <1>3, <1>4, <1>6, <1>8, <1>9, <1>10, <1>11 DEF AtBatch, AtDrained
<1> QED  BY <1>1, <1>2, <1>12 DEF Sane, Outline

\* A wait is cut off, and with it what it had drained of tasks outside the
\* pool.
LEMMA TaskWaitFailsKeeps ==
  ASSUME Sane, Outline, Between, NEW dropped \in SUBSET (watched \cap Undelivered), TaskWaitFails(dropped)
  PROVE  Sane' /\ Outline'
<1> USE DEF TaskWaitFails, shadow
<1>1. /\ Inv' /\ TypeOK /\ (InStep' <=> InStep)
      /\ UNCHANGED <<turn, round, round_due, steer_pending, calls, agents, entries, mapped, open, gaps>>
  BY KernelStays, InStepFrame
<1>2. Ledger' /\ Verdicts'
  BY <1>1 DEF Sane, Ledger, Verdicts, Known
<1>3. Tasks'
  <2>1. pool' \in [Names -> {"absent", "running", "settled", "gone"}]
    BY DEF Collected, Sane, Tasks
  <2>2. LiveTasks' \subseteq LiveTasks /\ Undelivered' \subseteq Undelivered
    BY DEF Collected, LiveTasks, Undelivered
  <2> QED  BY <1>1, <2>1, <2>2 DEF Sane, Tasks
<1>4. AtWaiting /\ script = <<>> /\ closing = <<>> /\ lanes = {}
  BY NothingAhead DEF Outline
<1>5. Ahead' = {} /\ script' = <<>> /\ lanes' = {} /\ closing' = <<>>
  BY StillNothingAhead
<1>6. Calm'
  BY <1>1, <1>4, CalmFrame DEF AtWaiting
<1>7. InStep => DoneIsSettled' /\ Bearing'
  <2>1. \A a, r : ~Unborn(a, r)' /\ \A c : script' # HandScript(c, a, r)
    BY <1>5, SpawnForm, HandForm DEF Unborn
  <2>2. InStep => AllTracked /\ NoneDone
    BY <1>4 DEF AtWaiting
  <2> QED  BY <1>1, <2>1, <2>2
           DEF Bearing, AllTracked, AllMapped, Tracked, Slots, NoneDone, DoneIsSettled, Done, Sane, Tasks
<1>8. AtAbort'
  BY <1>1, <1>4, <1>5, <1>6, <1>7 DEF AtAbort, AtWaiting
<1> QED  BY <1>1, <1>2, <1>3, <1>8 DEF Sane, Outline

-----------------------------------------------------------------------------
(* The end of a run *)

\* The run leaves its loop.
LEMMA RunFailsKeeps ==
  ASSUME Sane, Outline, Between, RunFails
  PROVE  Sane' /\ Outline'
<1> USE DEF RunFails, shadow
<1>1. /\ Inv' /\ TypeOK /\ (InStep' <=> InStep) /\ Tasks'
      /\ UNCHANGED <<turn, round, round_due, steer_pending, calls, agents, entries, mapped, open, pool, gaps>>
  BY KernelStays, TasksFrame, InStepFrame DEF Sane
<1>2. Ledger' /\ Verdicts'
  BY <1>1 DEF Sane, Ledger, Verdicts, Known
<1>3. Ahead = {} /\ script = <<>> /\ closing = <<>> /\ lanes = {}
  BY NothingAhead
<1>4. /\ Calm /\ turn = "Running"
      /\ InStep => AllTracked /\ DoneIsSettled /\ ~steer_pending
  <2>1. NoneDone => DoneIsSettled
    BY DEF NoneDone, DoneIsSettled, Done, Sane, Tasks
  <2>2. CASE host \in {"round", "batch"}
    BY <2>2, BatchIsCalm DEF Outline
  <2>3. CASE host = "head"
    BY <1>3, <2>3 DEF Outline, AtHead
  <2>4. CASE host = "fold"
    BY <1>3, <2>4, SteerForm DEF Outline, AtFold, Joining, Steering
  <2>5. CASE host = "prep"
    <3>1. AtPrep
      BY <2>5 DEF Outline
    <3>2. InStep => AllTracked /\ NoneDone
      BY <1>3, <3>1 DEF AtPrep, Folding, AllTracked, AllMapped, NoneDone, Done, Slots
    <3> QED  BY <2>1, <3>1, <3>2 DEF AtPrep
  <2> QED  BY <2>2, <2>3, <2>4, <2>5
<1>5. Ahead' = {} /\ script' = <<>> /\ lanes' = {} /\ closing' = <<>>
  BY StillNothingAhead
<1>6. Calm' /\ (InStep => DoneIsSettled')
  BY <1>1, <1>4, CalmFrame, TrackFrame
<1>7. InStep => Bearing'
  <2>1. \A a, r : ~Unborn(a, r)' /\ \A c : script' # HandScript(c, a, r)
    BY <1>5, SpawnForm, HandForm DEF Unborn
  <2> QED  BY <1>1, <1>4, <2>1 DEF Bearing, AllTracked, AllMapped, Tracked, Slots
<1>8. AtAbort'
  BY <1>1, <1>4, <1>5, <1>6, <1>7 DEF AtAbort
<1> QED  BY <1>1, <1>2, <1>8 DEF Sane, Outline

\* The turn aborts, and no call was handed off (turn_aborting, sweep_calls).
LEMMA TurnAbortingKeeps ==
  ASSUME Sane, Outline, Between, TurnAborting, "stranded" \notin gaps'
  PROVE  Sane' /\ Outline'
<1> USE DEF TurnAborting
<1>1. gaps' = gaps /\ \A k \in open : ~k.handed
  BY DEF Saw
<1>2. /\ Inv' /\ TypeOK /\ (InStep' <=> InStep) /\ Tasks'
      /\ UNCHANGED <<turn, round, round_due, steer_pending, calls, agents, mapped, pool, gaps>>
  BY <1>1, KernelStays, TasksFrame, InStepFrame DEF Sane
<1>3. Ledger' /\ Verdicts'
  BY DEF Sane, Ledger, Verdicts
<1>4. AtAbort /\ script = <<>>
  BY NothingAhead DEF Outline
<1>5. script' = <<<<"TurnCancel">>>> /\ lanes' = {SweepEvents(e) : e \in entries} /\ closing' = CloseRound
  BY <1>4 DEF Tell3, Cancel, If, Sweep, AtAbort
<1>6. \A e \in entries :
        /\ e.slot \in Calls
        /\ SweepEvents(e) = IF calls[e.slot].phase = "Executing" THEN EndLane(e.slot) ELSE SettleLane(e.slot)
  BY DEF SweepEvents, EndLane, SettleLane, Sane, Ledger
<1>7. /\ \A lane \in lanes' : lane \in SweepLanes /\ lane # <<>> /\ lane # <<<<"TurnCancel">>>>
      /\ \A c : <<<<"TurnCancel">>>> # EndLane(c) /\ <<<<"TurnCancel">>>> # SettleLane(c)
  BY <1>5, <1>6, SweepForms DEF SweepLanes
<1>8. Ahead' = lanes' \cup {<<<<"TurnCancel">>>>} /\ Apart'
  <2>1. script' \notin lanes' /\ <<>> \notin lanes' /\ script' # <<>>
    BY <1>5, <1>7
  <2> QED  BY <1>5, <2>1 DEF Ahead, Apart
<1>9. ASSUME NEW c \in Calls PROVE Swept(c)'
  <2>1. AtRest(c)
    BY <1>4 DEF AtAbort, Calm
  <2>2. EndLane(c) \in Ahead' => calls[c].phase = "Executing"
    BY <1>5, <1>6, <1>7, <1>8, SweepForms
  <2>3. ASSUME SettleLane(c) \in Ahead' PROVE In(c, {"Requested", "Done"})
    <3>1. PICK e \in entries : e.slot = c /\ calls[c].phase # "Executing"
      BY <1>5, <1>6, <1>7, <1>8, <2>3, SweepForms
    <3>2. PICK k \in open : k.id = e.id
      BY DEF Sane, Ledger
    <3>3. In(c, Expected(k)) /\ Expected(k) \in {{"Requested"}, {"Executing"}}
      BY <1>1, <2>1, <3>1, <3>2 DEF AtRest, Expected
    <3> QED  BY <3>1, <3>3 DEF In
  <2>4. ASSUME calls[c].phase # "Unused" PROVE SettleLane(c) \in Ahead' \/ EndLane(c) \in Ahead'
    <3>1. PICK e \in entries : e.slot = c
      BY <2>1, <2>4 DEF AtRest, Slots
    <3> QED  BY <1>5, <1>6, <1>8, <3>1
  <2> QED  BY <1>2, <2>2, <2>3, <2>4 DEF Swept, In
<1>10. InStep => AllTracked' /\ DoneIsSettled' /\ ~steer_pending'
  <2>1. InStep => AllTracked
    BY <1>4, NoneUnborn DEF AtAbort, Bearing, AllTracked
  <2> QED  BY <1>2, <1>4, <2>1, TrackFrame DEF AtAbort
<1>11. AtAborted'
  BY <1>2, <1>4, <1>5, <1>7, <1>8, <1>9, <1>10 DEF AtAborted, Cancelling, AtAbort, CloseRound, If
<1> QED  BY <1>2, <1>3, <1>11 DEF Sane, Outline

\* The last boundary of the run (round_boundary).
LEMMA FinalBoundaryKeeps ==
  ASSUME Sane, Outline, Between, FinalBoundary
  PROVE  Sane' /\ Outline'
<1> USE DEF FinalBoundary, shadow
<1>1. /\ Inv' /\ TypeOK /\ (InStep' <=> InStep) /\ Tasks'
      /\ UNCHANGED <<turn, round, round_due, steer_pending, calls, agents, entries, mapped, open, pool, gaps>>
  BY KernelStays, TasksFrame, InStepFrame DEF Sane
<1>2. Ledger' /\ Verdicts'
  BY <1>1, BooksWithoutCalls DEF Sane, Ledger
<1>3. AtExit /\ lanes = {} /\ closing = <<>>
  BY NothingAhead DEF Outline
<1>4. script' = CloseRound /\ lanes' = {} /\ closing' = <<>>
  BY <1>3 DEF Tell
<1>5. script' \in {<<>>, <<<<"RoundEnd">>>>} /\ (round = "InRound" <=> script' = <<<<"RoundEnd">>>>)
  BY <1>4 DEF CloseRound, If
<1>6. Calm' /\ (InStep => Quiet')
  BY <1>1, <1>3, CalmFrame, TrackFrame DEF AtExit, Quiet
<1>7. AtEnded'
  BY <1>1, <1>3, <1>4, <1>5, <1>6 DEF AtEnded, AtExit
<1> QED  BY <1>1, <1>2, <1>7 DEF Sane, Outline

\* The run is over, cancelled late or not (turn_finished).
LEMMA TurnFinishedKeeps ==
  ASSUME Sane, Outline, Between, NEW late \in BOOLEAN, TurnFinished(late)
  PROVE  Sane' /\ Outline'
<1> USE DEF TurnFinished
<1>1. /\ Inv' /\ TypeOK /\ (InStep' <=> InStep) /\ Tasks'
      /\ UNCHANGED <<turn, round, round_due, steer_pending, calls, agents, mapped, open, pool, gaps>>
  BY KernelStays, TasksFrame, InStepFrame DEF Sane
<1>2. open = {} /\ entries = {} /\ entries' = {} /\ unmapped = {} /\ watched = {}
  BY DEF Sane, Ledger
<1>3. Ledger' /\ Verdicts'
  BY <1>2, BooksWithoutCalls DEF Sane
<1>4. script = <<>> /\ lanes = {} /\ closing = <<>> /\ Ahead = {}
  BY NothingAhead
<1>5. lanes' = {} /\ closing' = Ending
  BY <1>2 DEF Tell3, Sweep, Ending
<1>6. script' = IF (host = "aborted" \/ late) /\ turn = "Running" THEN <<<<"TurnCancel">>>> ELSE <<>>
  BY DEF Tell3, Cancel, If
<1>7. CASE host = "aborted"
  <2>1. AtAborted /\ turn = "Cancelling"
    BY <1>4, <1>7 DEF Outline, AtAborted, Cancelling
  <2>2. \A c \in Calls : calls[c].phase = "Unused"
    BY <1>4, <2>1 DEF AtAborted, Swept
  <2>3. Calm'
    BY <1>1, <1>2, <2>2 DEF Calm, AtRest
  <2>4. NoneWaited
    BY <2>1, CancelledWaitsForNothing DEF Sane, Inv
  <2>5. InStep => AllTracked' /\ DoneIsSettled' /\ NoneWaited' /\ ~steer_pending'
    BY <1>1, <2>1, <2>4, TrackFrame DEF AtAborted
  <2>6. ~Between' /\ script' = <<>>
    BY <1>5, <1>6, <2>1 DEF Between, Ending
  <2>7. AtIdle'
    BY <1>1, <1>5, <2>1, <2>3, <2>5, <2>6 DEF AtIdle, Ending
  <2> QED  BY <1>1, <1>3, <2>7 DEF Sane, Outline
<1>8. CASE host = "ended"
  <2>1. AtEnded
    BY <1>8 DEF Outline
  <2>2. Calm'
    BY <1>1, <1>2, <2>1, CalmFrame DEF AtEnded
  <2>3. InStep => AllTracked /\ NoneDone /\ NoneWaited /\ ~steer_pending /\ ~round_due
    BY <2>1 DEF AtEnded, Quiet
  <2>4. NoneDone => DoneIsSettled
    BY DEF NoneDone, DoneIsSettled, Done, Sane, Tasks
  <2>5. InStep => AllTracked' /\ DoneIsSettled' /\ NoneWaited' /\ NoneDone'
    BY <1>1, <2>3, <2>4, TrackFrame
  <2>6. ~Between' /\ (script' = <<>> \/ Cancelling')
    BY <1>5, <1>6 DEF Between, Ending, Cancelling
  <2>7. AtIdle'
    BY <1>1, <1>5, <2>1, <2>2, <2>3, <2>5, <2>6 DEF AtIdle, AtEnded, Ending
  <2> QED  BY <1>1, <1>3, <2>7 DEF Sane, Outline
<1> QED  BY <1>7, <1>8

-----------------------------------------------------------------------------
(* What happens beside the run *)

\* A steering message is posted, or a task settles: both only add to what the
\* loop head has to look at.
LEMMA AsideKeeps ==
  ASSUME Sane, Outline, Between, Silent, UNCHANGED <<vars, shadow, refused, host, open, watched, gaps>>,
         mailbox => mailbox', Tasks', \A n \in Names : pool[n] = "settled" => pool'[n] = "settled"
  PROVE  Sane' /\ Outline'
<1> USE DEF shadow
<1>1. /\ Inv' /\ TypeOK /\ (InStep' <=> InStep)
      /\ UNCHANGED <<turn, round, round_due, steer_pending, calls, agents, entries, mapped, injection, open, gaps>>
  BY KernelStays, InStepFrame
<1>2. Ledger' /\ Verdicts'
  BY DEF Sane, Ledger, Verdicts, Known
<1>3. Sane'
  BY <1>1, <1>2 DEF Sane
<1>4. /\ Ahead = {} /\ script = <<>> /\ lanes = {} /\ closing = <<>>
      /\ Ahead' = {} /\ script' = <<>> /\ lanes' = {} /\ closing' = <<>> /\ Apart' /\ Between'
  BY NothingAhead, StillNothingAhead
<1>5. ~Joining /\ ~Joining' /\ ~Steering /\ ~Steering' /\ ~Cancelling /\ ~Cancelling'
  BY <1>4, SteerForm DEF Joining, Steering, Cancelling
<1>6. Undelivered # {} => Undelivered' # {}
  BY DEF Undelivered
<1>7. /\ Calm => Calm'
      /\ AllTracked => AllTracked'
      /\ NoneWaited => NoneWaited'
      /\ NoneDone => NoneDone'
  BY <1>1, CalmFrame DEF AllTracked, AllMapped, Tracked, NoneWaited, NoneDone, Slots
<1>8. DoneIsSettled => DoneIsSettled'
  BY <1>1 DEF DoneIsSettled, Done, Sane, Tasks
<1>9. /\ \A a, r : ~Unborn(a, r) /\ ~Unborn(a, r)'
      /\ \A c, a, r : script' # HandScript(c, a, r)
  BY <1>4, SpawnForm, HandForm DEF Unborn
<1>10. Bearing => Bearing'
  BY <1>1, <1>9 DEF Bearing, AllMapped, Tracked, Slots
<1>11. host = "idle" => AtIdle'
  BY <1>1, <1>4, <1>5, <1>7, <1>8 DEF Outline, AtIdle, Ending
<1>12. host = "head" => AtHead'
  BY <1>1, <1>4, <1>6, <1>7, <1>8 DEF Outline, AtHead, Completing
<1>13. host = "fold" => AtFold'
  BY <1>1, <1>4, <1>5, <1>6, <1>7, <1>8, SteerForm DEF Outline, AtFold
<1>14. host = "prep" => AtPrep'
  <2>1. Folding => Folding'
    BY <1>1, <1>4 DEF Folding, Tracked, Done, Slots
  <2> QED  BY <1>1, <1>4, <1>7, <2>1 DEF Outline, AtPrep
<1>15. host = "round" => AtRound'
  BY <1>1, <1>4, <1>5, <1>7 DEF Outline, AtRound
<1>16. host = "batch" => AtBatch'
  <2>1. CASE host = "batch"
    <3>1. AtBatch /\ Calm /\ (InStep => round_due \/ entries # {})
      BY <2>1, BatchIsCalm DEF Outline
    <3>2. Expiring => Expiring'
      BY <1>1, <1>4 DEF Expiring
    <3> QED  BY <1>1, <1>4, <1>7, <1>9, <1>10, <3>1, <3>2 DEF AtBatch
  <2> QED  BY <2>1
<1>17. host = "waiting" => AtWaiting'
  <2>1. Waiting => Waiting'
    BY <1>1, <1>4 DEF Waiting
  <2> QED  BY <1>1, <1>4, <1>7, <2>1 DEF Outline, AtWaiting
<1>18. host = "drained" => AtDrained'
  <2>1. Claiming => Claiming'
    BY <1>1, <1>4 DEF Claiming, Tracked, Done, Slots
  <2> QED  BY <1>1, <1>4, <1>7, <2>1 DEF Outline, AtDrained
<1>19. host = "abort" => AtAbort'
  BY <1>1, <1>4, <1>7, <1>8, <1>10 DEF Outline, AtAbort
<1>20. host = "aborted" => AtAborted'
  <2>1. \A c \in Calls : Swept(c) => Swept(c)'
    BY <1>1, <1>4 DEF Swept, In
  <2> QED  BY <1>1, <1>4, <1>5, <1>7, <1>8, <2>1 DEF Outline, AtAborted, CloseRound, If
<1>21. host = "exit" => AtExit'
  BY <1>1, <1>4, <1>7 DEF Outline, AtExit, Quiet
<1>22. host = "ended" => AtEnded'
  BY <1>1, <1>4, <1>7 DEF Outline, AtEnded, Quiet
<1> QED  BY <1>3, <1>11, <1>12, <1>13, <1>14, <1>15, <1>16, <1>17, <1>18, <1>19, <1>20, <1>21, <1>22 DEF Outline

\* A steering message comes in.
LEMMA UserSteersKeeps ==
  ASSUME Sane, Outline, Between, UserSteers
  PROVE  Sane' /\ Outline'
<1>1. /\ Silent /\ UNCHANGED <<vars, shadow, refused, host, open, watched, pool, gaps>> /\ mailbox'
  BY DEF UserSteers
<1>2. Tasks'
  BY <1>1, TasksFrame DEF shadow, Sane
<1> QED  BY <1>1, <1>2, AsideKeeps

\* A task settles beside the run.
LEMMA SettleTaskKeeps ==
  ASSUME Sane, Outline, Between, NEW n \in Names, SettleTask(n)
  PROVE  Sane' /\ Outline'
<1>1. /\ Silent /\ UNCHANGED <<vars, shadow, refused, host, mailbox, open, watched, gaps>>
      /\ pool[n] = "running" /\ pool' = [pool EXCEPT ![n] = "settled"]
  BY DEF SettleTask
<1>2. pool' \in [Names -> {"absent", "running", "settled", "gone"}]
  BY <1>1 DEF Sane, Tasks
<1>3. LiveTasks' \cup Undelivered' \subseteq LiveTasks \cup Undelivered
  BY <1>1 DEF LiveTasks, Undelivered, Sane, Tasks
<1>4. Tasks'
  BY <1>1, <1>2, <1>3, InStepFrame DEF Sane, Tasks, shadow
<1>5. \A m \in Names : pool[m] = "settled" => pool'[m] = "settled"
  BY <1>1 DEF Sane, Tasks
<1> QED  BY <1>1, <1>4, <1>5, AsideKeeps

-----------------------------------------------------------------------------
(* The theorems *)

\* Every step of the host keeps the outline.
LEMMA HostKeeps ==
  ASSUME Sane, Outline, Between, HostStep, "stranded" \notin gaps'
  PROVE  Sane' /\ Outline'
<1>1. ASSUME NEW k \in open, ToolStep(k) PROVE Sane' /\ Outline'
  <2>1. \A n \in (SUBSET {m \in Names : pool[m] # "absent"}) \ {{}} : n \in SUBSET Names
    OBVIOUS
  <2> QED  BY <1>1, <2>1, RecordPromptOutcomeKeeps, ParkAsyncKeeps, ToolFinishedKeeps, SpawnTaskKeeps,
              ToolBackgroundedKeeps, HandoffRefusedKeeps, TaskWaitStartedKeeps DEF ToolStep
<1> QED  BY <1>1, BeginTurnKeeps, LoopHeadKeeps, FoldResultsKeeps, RoundStartedKeeps, FinalAnswerKeeps,
            RejectedPrecheckKeeps, RequestToolKeeps, BatchEndsKeeps, TaskWaitClaimedKeeps, TaskWaitFailsKeeps,
            TaskWaitTimedOutKeeps, RunFailsKeeps, TurnAbortingKeeps, FinalBoundaryKeeps, TurnFinishedKeeps,
            UserSteersKeeps, SettleTaskKeeps DEF HostStep

\* A blind spot is never forgotten.
LEMMA GapsGrow ==
  ASSUME [ShadowNext]_svars PROVE gaps \subseteq gaps'
<1>1. ASSUME NEW k \in open, ToolStep(k) PROVE gaps \subseteq gaps'
  <2>1. ASSUME NEW n \in Names, NEW starts \in BOOLEAN, SpawnTask(k, n, starts) PROVE gaps \subseteq gaps'
    BY <2>1 DEF SpawnTask, AllocateAgent, Untracked, Saw
  <2>2. ASSUME NEW n \in Names, ToolBackgrounded(k, n) PROVE gaps \subseteq gaps'
    BY <2>2 DEF ToolBackgrounded, AllocateAgent, Untracked, Saw
  <2> QED  BY <1>1, <2>1, <2>2
           DEF ToolStep, RecordPromptOutcome, ParkAsync, ToolFinished, HandoffRefused, TaskWaitStarted, Saw
<1>2. HostStep => gaps \subseteq gaps'
  BY <1>1 DEF HostStep, BeginTurn, LoopHead, FoldResults, RoundStarted, FinalAnswer, RejectedPrecheck,
              RequestTool, BatchEnds, TaskWaitClaimed, TaskWaitFails, TaskWaitTimedOut, RunFails, TurnAborting,
              FinalBoundary, TurnFinished, UserSteers, SettleTask, Saw
<1> QED  BY <1>2 DEF ShadowNext, Feed, NextLane, Close, svars

\* A new shadow and an idle host satisfy the outline.
LEMMA ShadowStarts == ShadowInit => ShadowInv
<1> SUFFICES ASSUME ShadowInit PROVE Sane /\ Outline
  BY DEF ShadowInv
<1> USE DEF ShadowInit
<1>1. Inv /\ calls = [c \in Calls |-> [phase |-> "Unused", danger |-> FALSE, fresh |-> FALSE]]
      /\ agents = [a \in Agents |-> [phase |-> "None", rid |-> 1, waited |-> FALSE]]
      /\ turn = "Idle" /\ ~steer_pending
  BY KernelStarts DEF Init
<1>2. Ledger /\ Verdicts
  BY DEF Ledger, Verdicts
<1>3. Tasks
  BY FS_EmptySet DEF Tasks, LiveTasks, Undelivered
<1>4. Calm
  BY <1>1 DEF Calm, AtRest, Slots
<1>5. AllTracked /\ DoneIsSettled /\ NoneWaited /\ NoneDone
  BY <1>1 DEF AllTracked, AllMapped, DoneIsSettled, NoneWaited, NoneDone
<1>6. AtIdle
  BY <1>1, <1>4, <1>5 DEF AtIdle, Between
<1> QED  BY <1>1, <1>2, <1>3, <1>6 DEF Sane, Outline

\* Every step keeps the outline, unless a handed-off call is stranded by it.
LEMMA ShadowStep == ShadowInv /\ [ShadowNext]_svars => ShadowInv'
<1> SUFFICES ASSUME ShadowInv, [ShadowNext]_svars, "stranded" \notin gaps'
             PROVE  Sane' /\ Outline'
  BY DEF ShadowInv
<1>1. Sane /\ Outline
  BY GapsGrow DEF ShadowInv
<1> QED  BY <1>1, FeedKeeps, NextLaneKeeps, CloseKeeps, HostKeeps, StutterKeeps DEF ShadowNext

\* The outline holds at every moment of a shadow and its host (every
\* method of kernel_shadow.rs that the run loop calls, event by event).
THEOREM ShadowOutline == ShadowSpec => []ShadowInv
BY ShadowStarts, ShadowStep, PTL DEF ShadowSpec

\* Where the shadow is in step the kernel refused nothing.
LEMMA OutlineNeverAlarms == ShadowInv => NoFalseAlarm
BY DEF ShadowInv, Sane, NoFalseAlarm, InStep

\* The kernel refuses an event (ShadowInner::step) only after
\* the projection has met one of its blind spots, whatever the run loop, the
\* user and the tasks do in whatever order.
THEOREM ShadowNoFalseAlarm == ShadowSpec => []NoFalseAlarm
BY ShadowOutline, OutlineNeverAlarms, PTL

\* What the outline says of an aborted and of an idle host.
LEMMA OutlineIsBackInStep == ShadowInv => BackInStep
<1> SUFFICES ASSUME Sane, Outline, Between
             PROVE  /\ host = "aborted" => turn # "Running" /\ round = "Prep"
                    /\ host = "idle" /\ InStep => turn = "Idle"
  BY DEF ShadowInv, BackInStep, InStep
<1>1. round \in {"Prep", "InRound"}
  BY DEF Sane, Inv, Structure, TypeOK, RoundPhase
<1>2. script = <<>> /\ closing = <<>>
  BY NothingAhead
<1> QED  BY <1>1, <1>2 DEF Outline, AtIdle, AtAborted, Cancelling, CloseRound, If

\* When an abort is through, no round is left in the kernel and its turn is not
\* running; without a blind spot every turn ends idle.
THEOREM ShadowBackInStep == ShadowSpec => []BackInStep
BY ShadowOutline, OutlineIsBackInStep, PTL

\* Between two reports every call and, in step, every task is in the books.
LEMMA OutlineMirrorsSlots == ShadowInv => SlotsMirrored
<1> SUFFICES ASSUME Sane, Outline, Between
             PROVE  /\ \A c \in Calls : calls[c].phase # "Unused" => c \in Slots(entries)
                    /\ InStep => AllTracked
  <2>1. \A c \in Calls : c \notin FreeCalls <=> c \in Slots(entries)
    BY DEF FreeCalls, Slots
  <2>2. \A a \in Agents : a \notin FreeAgents <=> a \in Slots(mapped)
    BY DEF FreeAgents, Slots
  <2>3. AllTracked => \A a \in Agents : agents[a].phase # "None" <=> a \in Slots(mapped)
    BY DEF AllTracked, AllMapped, Tracked, Slots
  <2>4. Sane /\ InStep => LiveTasks \cup Undelivered \subseteq {m.name : m \in mapped}
    BY DEF Sane, Tasks
  <2> QED  BY <2>1, <2>2, <2>3, <2>4 DEF ShadowInv, SlotsMirrored, InStep
<1>1. script = <<>> /\ lanes = {} /\ closing = <<>> /\ Ahead = {}
  BY NothingAhead
<1>2. \A a, r : ~Unborn(a, r)
  BY <1>1, NoneUnborn
<1>3. Calm => \A c \in Calls : calls[c].phase # "Unused" => c \in Slots(entries)
  BY DEF Calm, AtRest
<1>4. CASE host \in {"idle", "head", "fold", "waiting", "exit", "ended"}
  BY <1>3, <1>4 DEF Outline, AtIdle, AtHead, AtFold, AtWaiting, AtExit, AtEnded, Quiet
<1>5. CASE host \in {"round", "batch"}
  BY <1>3, <1>5, BatchIsCalm DEF Outline
<1>6. CASE host = "prep"
  BY <1>1, <1>3, <1>6 DEF Outline, AtPrep, Folding, AllTracked, AllMapped
<1>7. CASE host = "drained"
  BY <1>1, <1>3, <1>7 DEF Outline, AtDrained, Claiming, AllTracked, AllMapped
<1>8. CASE host = "abort"
  BY <1>2, <1>3, <1>8 DEF Outline, AtAbort, Bearing, AllTracked
<1>9. CASE host = "aborted"
  BY <1>1, <1>9 DEF Outline, AtAborted, Swept
<1> QED  BY <1>4, <1>5, <1>6, <1>7, <1>8, <1>9 DEF Sane, Ledger

\* The books know every slot the kernel uses, of a call whatever was refused
\* before, of a task while no blind spot was met.
THEOREM ShadowSlotsMirrored == ShadowSpec => []SlotsMirrored
BY ShadowOutline, OutlineMirrorsSlots, PTL

-----------------------------------------------------------------------------
(* The kernel inside the shadow, whatever the shadow has lost.               *)

Plain == {<<"TurnStart">>, <<"TurnCancel">>, <<"TurnEnd">>, <<"RoundStart">>, <<"RoundEnd">>,
          <<"SteerEnqueue">>, <<"SteerJoin">>}
OnCalls == {<<k, c>> : k \in {"ToolAllow", "ToolApprove", "ToolDeny", "ToolExecStart", "ToolExecEnd", "ToolSettle"},
                       c \in Calls}
             \cup {<<"ToolRequest", c, d>> : c \in Calls, d \in BOOLEAN}
OnTasks == {<<k, a, r>> : k \in {"AgentSpawn", "AgentComplete", "AgentFold", "TaskWait", "TaskWaitTimeout",
                                 "TaskWaitDeliver"},
                          a \in Agents, r \in TaskIds}
Handoffs == {<<"ToolBackground", c, a, r>> : c \in Calls, a \in Agents, r \in TaskIds}
Events == Plain \cup OnCalls \cup OnTasks \cup Handoffs

\* What is ahead names slots and identities of the kernel, as the books do.
InScope ==
  /\ script \in Seq(Events) /\ closing \in Seq(Events) /\ lanes \subseteq Seq(Events)
  /\ entries \subseteq [id : CallIds, slot : Calls, danger : BOOLEAN, outcome : {"none", "granted", "refused"}]
  /\ \A m \in mapped : m.slot \in Agents /\ m.rid \in TaskIds

DriveInv == Inv /\ InScope

\* An event in scope is a step of the kernel or none.
LEMMA EventIsStep ==
  ASSUME TypeOK, NEW e \in Events, Do(e) PROVE [Next]_vars
<1>1. CASE e \in Plain
  BY <1>1, FeedTurnStart, FeedTurnCancel, FeedTurnEnd, FeedRoundStart, FeedRoundEnd, FeedSteerEnqueue,
     FeedSteerJoin DEF Plain
<1>2. CASE e \in OnCalls
  <2>1. CASE \E c \in Calls, d \in BOOLEAN : e = <<"ToolRequest", c, d>>
    BY <2>1, FeedToolRequest
  <2>2. ASSUME NEW k \in {"ToolAllow", "ToolApprove", "ToolDeny", "ToolExecStart", "ToolExecEnd", "ToolSettle"},
               NEW c \in Calls, e = <<k, c>>
        PROVE  [Next]_vars
    BY <2>2, FeedToolAllow, FeedToolApprove, FeedToolDeny, FeedToolExecStart, FeedToolExecEnd, FeedToolSettle
  <2> QED  BY <1>2, <2>1, <2>2 DEF OnCalls
<1>3. CASE e \in OnTasks
  <2>1. ASSUME NEW k \in {"AgentSpawn", "AgentComplete", "AgentFold", "TaskWait", "TaskWaitTimeout",
                          "TaskWaitDeliver"},
               NEW a \in Agents, NEW r \in TaskIds, e = <<k, a, r>>
        PROVE  [Next]_vars
    BY <2>1, FeedAgentSpawn, FeedAgentComplete, FeedAgentFold, FeedTaskWait, FeedTaskWaitTimeout,
       FeedTaskWaitDeliver
  <2> QED  BY <1>3, <2>1 DEF OnTasks
<1>4. CASE e \in Handoffs
  BY <1>4, FeedToolBackground DEF Handoffs
<1> QED  BY <1>1, <1>2, <1>3, <1>4 DEF Events

\* The scripts a report is made of.
LEMMA ScriptsInScope ==
  /\ <<>> \in Seq(Events)
  /\ \A e \in Events : <<e>> \in Seq(Events)
  /\ \A e, f \in Events : <<e, f>> \in Seq(Events)
  /\ \A e, f, g \in Events : <<e, f, g>> \in Seq(Events)
  /\ \A e, f, g, h \in Events : <<e, f, g, h>> \in Seq(Events)
  OBVIOUS

\* The events themselves.
LEMMA EventForms ==
  /\ Plain \subseteq Events
  /\ \A c \in Calls :
       /\ \A d \in BOOLEAN : <<"ToolRequest", c, d>> \in Events
       /\ {<<"ToolAllow", c>>, <<"ToolApprove", c>>, <<"ToolDeny", c>>, <<"ToolExecStart", c>>,
           <<"ToolExecEnd", c>>, <<"ToolSettle", c>>} \subseteq Events
  /\ \A a \in Agents, r \in TaskIds :
       /\ {<<"AgentSpawn", a, r>>, <<"AgentComplete", a, r>>, <<"AgentFold", a, r>>, <<"TaskWait", a, r>>,
           <<"TaskWaitTimeout", a, r>>, <<"TaskWaitDeliver", a, r>>} \subseteq Events
       /\ \A c \in Calls : <<"ToolBackground", c, a, r>> \in Events
  BY DEF Events, OnCalls, OnTasks, Handoffs

\* What feeding leaves ahead is in scope as it was.
LEMMA FeedInScope ==
  ASSUME DriveInv, Feed PROVE InScope' /\ [Next]_vars
<1>1. script \in Seq(Events) /\ script # <<>> /\ script' = Tail(script) /\ Do(Head(script))
      /\ UNCHANGED <<lanes, closing, entries, mapped>>
  BY DEF DriveInv, InScope, Feed, shadow, run
<1>2. Head(script) \in Events /\ Tail(script) \in Seq(Events)
  BY <1>1
<1>3. InScope'
  BY <1>1, <1>2 DEF DriveInv, InScope
<1>4. TypeOK
  BY DEF DriveInv, Inv, Structure
<1> QED  BY <1>1, <1>2, <1>3, <1>4, EventIsStep

\* What is told, apart from what is still ahead.
LEMMA TellInScope ==
  ASSUME InScope, NEW s \in Seq(Events), NEW S \in SUBSET Seq(Events), NEW t \in Seq(Events),
         \/ Tell(s) \/ TellEach(S) \/ Tell3(s, S, t) \/ Silent
  PROVE  script' \in Seq(Events) /\ closing' \in Seq(Events) /\ lanes' \subseteq Seq(Events)
BY DEF InScope, Tell, TellEach, Tell3, Silent, feed

\* The scripts of the reports.
LEMMA ReportForms ==
  ASSUME InScope, TypeOK
  PROVE  /\ CloseRound \in Seq(Events) /\ Steer \in Seq(Events)
         /\ \A m \in mapped : WakeEvents(m) \in Seq(Events) /\ FoldEvents(m) \in Seq(Events)
                               /\ ClaimEvents(m) \in Seq(Events)
                               /\ <<<<"TaskWait", m.slot, m.rid>>>> \in Seq(Events)
                               /\ <<<<"TaskWaitTimeout", m.slot, m.rid>>>> \in Seq(Events)
         /\ Sweep \subseteq Seq(Events)
         /\ \A e \in entries : \A k, s : ResolveEvents(e, k, s) \in Seq(Events)
<1>1. CloseRound \in Seq(Events) /\ Steer \in Seq(Events)
  BY ScriptsInScope, EventForms DEF CloseRound, Steer, If, Plain
<1>2. ASSUME NEW m \in mapped
      PROVE  /\ WakeEvents(m) \in Seq(Events) /\ FoldEvents(m) \in Seq(Events) /\ ClaimEvents(m) \in Seq(Events)
             /\ <<<<"TaskWait", m.slot, m.rid>>>> \in Seq(Events)
             /\ <<<<"TaskWaitTimeout", m.slot, m.rid>>>> \in Seq(Events)
  <2>1. {<<"AgentComplete", m.slot, m.rid>>, <<"AgentFold", m.slot, m.rid>>, <<"TaskWait", m.slot, m.rid>>,
         <<"TaskWaitTimeout", m.slot, m.rid>>, <<"TaskWaitDeliver", m.slot, m.rid>>} \subseteq Events
    BY EventForms DEF InScope
  <2> QED  BY <2>1, ScriptsInScope DEF WakeEvents, FoldEvents, ClaimEvents
<1>3. ASSUME NEW e \in entries
      PROVE  SweepEvents(e) \in Seq(Events) /\ \A k, s : ResolveEvents(e, k, s) \in Seq(Events)
  <2>1. {<<"ToolAllow", e.slot>>, <<"ToolApprove", e.slot>>, <<"ToolDeny", e.slot>>, <<"ToolExecStart", e.slot>>,
         <<"ToolExecEnd", e.slot>>, <<"ToolSettle", e.slot>>} \subseteq Events
    BY EventForms DEF InScope
  <2> QED  BY <2>1, ScriptsInScope DEF SweepEvents, ResolveEvents
<1> QED  BY <1>1, <1>2, <1>3 DEF Sweep

\* A task that gets a slot gets one of the kernel's.
LEMMA AllocationInScope ==
  ASSUME InScope, TypeOK, NEW n, NEW a \in FreeAgents, NEW r, r = Other(agents[a].rid),
         mapped' = mapped \cup {[name |-> n, slot |-> a, rid |-> r]}
  PROVE  a \in Agents /\ r \in TaskIds /\ \A m \in mapped' : m.slot \in Agents /\ m.rid \in TaskIds
<1>1. a \in Agents /\ agents[a].rid \in TaskIds
  BY DEF FreeAgents, TypeOK, AgentSlot
<1> QED  BY <1>1, OtherIdentity DEF InScope

\* Every report names slots and identities of the kernel.
LEMMA HostInScope ==
  ASSUME DriveInv, Between, HostStep PROVE InScope' /\ UNCHANGED vars
<1>0. InScope /\ TypeOK
  BY DEF DriveInv, Inv, Structure
<1> USE <1>0 DEF shadow
<1>1. CASE BeginTurn
  <2>1. {WakeEvents(m) : m \in {x \in Mapped(Undelivered) : ~Done(x)}} \subseteq Seq(Events)
        /\ <<>> \in Seq(Events) /\ <<<<"TurnStart">>>> \in Seq(Events)
    BY ReportForms, ScriptsInScope, EventForms DEF Mapped, Plain
  <2> QED  BY <1>1, <2>1, TellInScope DEF BeginTurn, InScope
<1>2. CASE LoopHead
  <2>1. If(mailbox, Steer) \in Seq(Events) /\ CloseRound \in Seq(Events)
    BY ReportForms, ScriptsInScope DEF If
  <2> QED  BY <1>2, <2>1, TellInScope DEF LoopHead, InScope
<1>3. CASE FoldResults
  <2>1. {FoldEvents(m) : m \in Mapped(Undelivered)} \subseteq Seq(Events)
    BY ReportForms DEF Mapped
  <2> QED  BY <1>3, <2>1, TellInScope DEF FoldResults, InScope
<1>4. CASE RoundStarted
  <2>1. If(injection, Steer) \in Seq(Events) /\ <<<<"RoundStart">>>> \in Seq(Events)
    BY ReportForms, ScriptsInScope, EventForms DEF If, Plain
  <2> QED  BY <1>4, <2>1, TellInScope DEF RoundStarted, InScope
<1>5. CASE \E injected \in BOOLEAN : FinalAnswer(injected)
  BY <1>5 DEF FinalAnswer, Silent, feed, InScope
<1>6. ASSUME NEW id \in CallIds, RejectedPrecheck(id) PROVE InScope' /\ UNCHANGED vars
  <2>1. \A c \in FreeCalls : <<<<"ToolRequest", c, FALSE>>, <<"ToolDeny", c>>, <<"ToolSettle", c>>>> \in Seq(Events)
    BY ScriptsInScope, EventForms DEF FreeCalls
  <2> QED  BY <1>6, <2>1, TellInScope DEF RejectedPrecheck, InScope, Silent, Tell, feed
<1>7. ASSUME NEW id \in CallIds, NEW danger \in BOOLEAN, NEW denied \in BOOLEAN, NEW hook \in BOOLEAN,
             RequestTool(id, danger, denied, hook)
      PROVE  InScope' /\ UNCHANGED vars
  <2>1. CASE FreeCalls = {} /\ Silent /\ UNCHANGED <<entries, prompt>>
    BY <1>7, <2>1 DEF RequestTool, InScope, Silent, feed
  <2>2. ASSUME NEW c \in FreeCalls,
               Tell(IF denied \/ danger THEN <<<<"ToolRequest", c, danger>>>>
                    ELSE <<<<"ToolRequest", c, danger>>, <<"ToolAllow", c>>, <<"ToolExecStart", c>>>>),
               entries' = entries \cup {[id |-> id, slot |-> c, danger |-> danger, outcome |-> "none"]}
        PROVE  InScope' /\ UNCHANGED vars
    <3>1. <<"ToolRequest", c, danger>> \in Events /\ <<"ToolAllow", c>> \in Events /\ <<"ToolExecStart", c>> \in Events
      BY EventForms DEF FreeCalls
    <3>2. script' \in Seq(Events) /\ UNCHANGED <<lanes, closing>>
      BY <2>2, <3>1, ScriptsInScope DEF Tell
    <3> QED  BY <1>7, <2>2, <3>2 DEF RequestTool, FreeCalls, InScope
  <2> QED  BY <1>7, <2>1, <2>2 DEF RequestTool
<1>8. ASSUME NEW k \in open, ToolStep(k) PROVE InScope' /\ UNCHANGED vars
  <2>1. ASSUME NEW answer \in {"granted", "refused"}, RecordPromptOutcome(k, answer)
        PROVE  InScope' /\ UNCHANGED vars
    BY <2>1 DEF RecordPromptOutcome, InScope, Silent, feed
  <2>2. CASE ParkAsync(k)
    BY <2>2 DEF ParkAsync, InScope, Silent, feed
  <2>3. ASSUME NEW success \in BOOLEAN, ToolFinished(k, success) PROVE InScope' /\ UNCHANGED vars
    BY <2>3, ReportForms DEF ToolFinished, InScope, Silent, Tell, feed
  <2>4. ASSUME NEW n \in Names, NEW starts \in BOOLEAN, SpawnTask(k, n, starts) PROVE InScope' /\ UNCHANGED vars
    <3>1. CASE Untracked
      BY <2>4, <3>1 DEF SpawnTask, Untracked, InScope, Silent, feed
    <3>2. ASSUME NEW a \in FreeAgents, NEW r, r = Other(agents[a].rid),
                 mapped' = mapped \cup {[name |-> n, slot |-> a, rid |-> r]}, Tell(<<<<"AgentSpawn", a, r>>>>)
          PROVE  InScope' /\ UNCHANGED vars
      BY <2>4, <3>2, AllocationInScope, EventForms, ScriptsInScope DEF SpawnTask, InScope, Tell
    <3> QED  BY <2>4, <3>1, <3>2 DEF SpawnTask, AllocateAgent
  <2>5. ASSUME NEW n \in Names, ToolBackgrounded(k, n) PROVE InScope' /\ UNCHANGED vars
    <3>0. UNCHANGED <<vars, entries>>
      BY <2>5 DEF ToolBackgrounded
    <3>1. CASE Untracked
      BY <3>0, <3>1 DEF Untracked, InScope, Silent, feed
    <3>2. ASSUME NEW e \in entries, NEW a \in FreeAgents, NEW r, r = Other(agents[a].rid),
                 mapped' = mapped \cup {[name |-> n, slot |-> a, rid |-> r]},
                 Tell(<<<<"ToolBackground", e.slot, a, r>>>>)
          PROVE  InScope' /\ UNCHANGED vars
      <4>1. <<"ToolBackground", e.slot, a, r>> \in Events
        BY <3>2, AllocationInScope, EventForms DEF InScope
      <4> QED  BY <3>0, <3>2, <4>1, AllocationInScope, ScriptsInScope DEF InScope, Tell
    <3> QED  BY <2>5, <3>1, <3>2 DEF ToolBackgrounded, AllocateAgent
  <2>6. ASSUME NEW ns, TaskWaitStarted(k, ns) PROVE InScope' /\ UNCHANGED vars
    <3>1. {<<<<"TaskWait", m.slot, m.rid>>>> : m \in Mapped(ns)} \subseteq Seq(Events)
      BY ReportForms DEF Mapped
    <3> QED  BY <2>6, <3>1, TellInScope DEF TaskWaitStarted, InScope
  <2>7. ASSUME NEW n \in Names, HandoffRefused(k, n) PROVE InScope' /\ UNCHANGED vars
    BY <2>7 DEF HandoffRefused, InScope, Silent, feed
  <2> QED  BY <1>8, <2>1, <2>2, <2>3, <2>4, <2>5, <2>6, <2>7 DEF ToolStep
<1>9. ASSUME NEW got, TaskWaitClaimed(got) PROVE InScope' /\ UNCHANGED vars
  <2>1. {ClaimEvents(m) : m \in Mapped(got)} \subseteq Seq(Events)
    BY ReportForms DEF Mapped
  <2> QED  BY <1>9, <2>1, TellInScope DEF TaskWaitClaimed, InScope
<1>10. CASE TaskWaitTimedOut
  <2>1. {<<<<"TaskWaitTimeout", m.slot, m.rid>>>> : m \in Mapped(watched)} \subseteq Seq(Events)
    BY ReportForms DEF Mapped
  <2> QED  BY <1>10, <2>1, TellInScope DEF TaskWaitTimedOut, InScope
<1>11. \A due : Cancel(due) \in Seq(Events)
  BY ScriptsInScope, EventForms DEF Cancel, If, Plain
<1>12. CASE TurnAborting
  BY <1>11, <1>12, ReportForms DEF TurnAborting, Tell3, InScope
<1>13. CASE FinalBoundary
  BY <1>13, ReportForms DEF FinalBoundary, Tell, InScope
<1>14. ASSUME NEW late \in BOOLEAN, TurnFinished(late) PROVE InScope' /\ UNCHANGED vars
  <2>1. (IF round = "InRound" THEN <<<<"RoundEnd">>, <<"TurnEnd">>>> ELSE <<<<"TurnEnd">>>>) \in Seq(Events)
    BY ScriptsInScope, EventForms DEF Plain
  <2> QED  BY <1>11, <1>14, <2>1, ReportForms DEF TurnFinished, Tell3, InScope
<1>15. CASE BatchEnds \/ RunFails \/ UserSteers
  BY <1>15 DEF BatchEnds, RunFails, UserSteers, Silent, feed, InScope
<1>16. ASSUME NEW got, TaskWaitFails(got) PROVE InScope' /\ UNCHANGED vars
  BY <1>16 DEF TaskWaitFails, Silent, feed, InScope
<1>17. ASSUME NEW n \in Names, SettleTask(n) PROVE InScope' /\ UNCHANGED vars
  BY <1>17 DEF SettleTask, Silent, feed, InScope
<1> QED  BY <1>1, <1>2, <1>3, <1>4, <1>5, <1>6, <1>7, <1>8, <1>9, <1>10, <1>12, <1>13, <1>14, <1>15, <1>16, <1>17
         DEF HostStep

\* The kernel takes a step of its own or none.
LEMMA DriveStep == DriveInv /\ [ShadowNext]_svars => DriveInv' /\ [Next]_vars
<1> SUFFICES ASSUME DriveInv, [ShadowNext]_svars PROVE InScope' /\ [Next]_vars
  BY StructureStep, CapacityStep DEF DriveInv, Inv, Structure
<1>1. CASE Feed
  BY <1>1, FeedInScope
<1>2. CASE NextLane
  BY <1>2 DEF NextLane, shadow, run, DriveInv, InScope
<1>3. CASE Close
  BY <1>3, ScriptsInScope DEF Close, shadow, run, DriveInv, InScope
<1>4. CASE Between /\ HostStep
  BY <1>4, HostInScope
<1>5. CASE UNCHANGED svars
  BY <1>5 DEF svars, shadow, feed, run, DriveInv, InScope
<1> QED  BY <1>1, <1>2, <1>3, <1>4, <1>5 DEF ShadowNext

\* The kernel inside a shadow behaves as the kernel, also after refusals and
\* after a handoff whose receipt was cut off (ShadowInner::step): what is proved
\* of the kernel holds of every shadow.
THEOREM ShadowDrivesKernel == ShadowSpec => DrivesKernel
<1>1. ShadowInit => DriveInv
  <2> SUFFICES ASSUME ShadowInit PROVE InScope
    BY KernelStarts DEF ShadowInit, DriveInv
  <2> QED  BY ScriptsInScope DEF ShadowInit, InScope
<1>2. ShadowInit => Init
  BY DEF ShadowInit
<1> QED  BY <1>1, <1>2, DriveStep, PTL DEF ShadowSpec, DrivesKernel, Spec
=============================================================================
