---------------------------- MODULE AgentKernel ----------------------------
(***************************************************************************)
(* The agent kernel of src-tauri/agent-kernel/src/machine.rs: one          *)
(* conversation's turn, its model rounds, the tool calls of a round and    *)
(* the asynchronous tasks that outlive it.  `Kernel::step` is the only     *)
(* entry point; it takes an event and either refuses it (state unchanged)  *)
(* or applies it.  Each arm of its match is one action here.  MayX is what *)
(* the arm of event X demands, in the code's order; a refused event is a   *)
(* stuttering step and has no action.                                      *)
(*                                                                         *)
(* Slot numbers are abstracted to the elements of Calls and Agents, task   *)
(* identities keep their numbers 1..TaskIdCount because `new` gives every  *)
(* slot identity 1.                                                        *)
(***************************************************************************)
EXTENDS Naturals, FiniteSets

CONSTANTS Calls,          \* config.call_slots, as a set of slots
          Agents,         \* config.agent_slots, as a set of slots
          MaxLiveAgents,  \* config.max_live_agents
          TaskIdCount     \* config.task_ids

ASSUME ConfigAssumption ==
  /\ IsFiniteSet(Agents)
  /\ MaxLiveAgents \in Nat
  /\ TaskIdCount \in Nat \ {0}

VARIABLES turn,              \* TurnPhase
          round,             \* RoundPhase
          round_due,         \* something was handed over that a model round must still see
          steer_pending,     \* a user steer waits for the next boundary
          wake_fold_pending, \* tasks already done when the turn started
          calls,             \* CallSlot per slot
          agents             \* AgentSlot per slot

vars == <<turn, round, round_due, steer_pending, wake_fold_pending, calls, agents>>
turnVars == <<turn, round, round_due, steer_pending, wake_fold_pending>>

TaskIds == 1..TaskIdCount

TurnPhase  == {"Idle", "Running", "Cancelling"}
RoundPhase == {"Prep", "InRound"}
CallPhase  == {"Unused", "Requested", "Allowed", "Denied", "Executing", "ExecBg", "Done"}
AgentPhase == {"None", "Running", "Done"}

CallSlot  == [phase : CallPhase, danger : BOOLEAN, fresh : BOOLEAN]
AgentSlot == [phase : AgentPhase, rid : TaskIds, waited : BOOLEAN]

Init ==
  /\ turn = "Idle"
  /\ round = "Prep"
  /\ round_due = FALSE
  /\ steer_pending = FALSE
  /\ wake_fold_pending = {}
  /\ calls = [c \in Calls |-> [phase |-> "Unused", danger |-> FALSE, fresh |-> FALSE]]
  /\ agents = [a \in Agents |-> [phase |-> "None", rid |-> 1, waited |-> FALSE]]

RunningAgents == {a \in Agents : agents[a].phase = "Running"}
DoneAgents    == {a \in Agents : agents[a].phase = "Done"}

-----------------------------------------------------------------------------
(* Turns and rounds *)

MayTurnStart == turn = "Idle"

TurnStart ==
  /\ MayTurnStart
  /\ turn' = "Running"
  /\ round_due' = TRUE
  /\ wake_fold_pending' = DoneAgents
  /\ UNCHANGED <<round, steer_pending, calls, agents>>

MayTurnCancel == turn = "Running"

TurnCancel ==
  /\ MayTurnCancel
  /\ turn' = "Cancelling"
  /\ agents' = [a \in Agents |-> [agents[a] EXCEPT !.waited = FALSE]]
  /\ UNCHANGED <<round, round_due, steer_pending, wake_fold_pending, calls>>

\* Mutant: the obligation outlives a cancelled turn.
TurnEndKeepsDue ==
  /\ turn \in {"Running", "Cancelling"}
  /\ round = "Prep"
  /\ turn = "Cancelling" \/ (DoneAgents = {} /\ ~round_due /\ ~steer_pending)
  /\ turn' = "Idle"
  /\ UNCHANGED <<round, round_due, steer_pending, wake_fold_pending, calls, agents>>

MayTurnEnd ==
  /\ turn \in {"Running", "Cancelling"}
  /\ round = "Prep"
  /\ turn = "Cancelling" \/ DoneAgents = {}
  /\ turn = "Cancelling" \/ (~round_due /\ ~steer_pending)

TurnEnd ==
  /\ MayTurnEnd
  /\ turn' = "Idle"
  /\ round_due' = FALSE
  /\ UNCHANGED <<round, steer_pending, wake_fold_pending, calls, agents>>

\* The event has a guard and no effect: the context lives in the documents.
ContextEdit ==
  /\ turn = "Idle"
  /\ UNCHANGED vars

MayRoundStart ==
  /\ turn = "Running"
  /\ wake_fold_pending = {}
  /\ round = "Prep"
  /\ round_due
  /\ ~steer_pending

RoundStart ==
  /\ MayRoundStart
  /\ round' = "InRound"
  /\ round_due' = FALSE
  /\ UNCHANGED <<turn, steer_pending, wake_fold_pending, calls, agents>>

MayRoundEnd ==
  /\ round = "InRound"
  /\ \A c \in Calls : calls[c].phase = "Unused"
  /\ \A a \in Agents : ~agents[a].waited

RoundEnd ==
  /\ MayRoundEnd
  /\ round' = "Prep"
  /\ UNCHANGED <<turn, round_due, steer_pending, wake_fold_pending, calls, agents>>

MaySteerEnqueue == turn \in {"Running", "Cancelling"}

SteerEnqueue ==
  /\ MaySteerEnqueue
  /\ steer_pending' = TRUE
  /\ UNCHANGED <<turn, round, round_due, wake_fold_pending, calls, agents>>

MaySteerJoin ==
  /\ turn = "Running"
  /\ round = "Prep"
  /\ steer_pending

SteerJoin ==
  /\ MaySteerJoin
  /\ steer_pending' = FALSE
  /\ round_due' = TRUE
  /\ UNCHANGED <<turn, round, wake_fold_pending, calls, agents>>

-----------------------------------------------------------------------------
(* Tool calls *)

SetCall(c, slot) == calls' = [calls EXCEPT ![c] = slot]

MayToolRequest(c) ==
  /\ turn = "Running"
  /\ round = "InRound"
  /\ calls[c].phase = "Unused"

ToolRequest(c, d) ==
  /\ MayToolRequest(c)
  /\ SetCall(c, [phase |-> "Requested", danger |-> d, fresh |-> FALSE])
  /\ UNCHANGED <<turnVars, agents>>

\* Mutant: the automatic grant ignores the classification.
ToolAllowAny(c) ==
  /\ turn = "Running"
  /\ calls[c].phase \in {"Requested", "Allowed"}
  /\ SetCall(c, [calls[c] EXCEPT !.phase = "Allowed", !.fresh = TRUE])
  /\ UNCHANGED <<turnVars, agents>>

MayToolAllow(c) ==
  /\ turn = "Running"
  /\ calls[c].phase \in {"Requested", "Allowed"}
  /\ ~calls[c].danger

ToolAllow(c) ==
  /\ MayToolAllow(c)
  /\ SetCall(c, [calls[c] EXCEPT !.phase = "Allowed", !.fresh = TRUE])
  /\ UNCHANGED <<turnVars, agents>>

MayToolApprove(c) ==
  /\ turn = "Running"
  /\ calls[c].phase \in {"Requested", "Allowed"}
  /\ calls[c].danger

ToolApprove(c) ==
  /\ MayToolApprove(c)
  /\ SetCall(c, [calls[c] EXCEPT !.phase = "Allowed", !.fresh = TRUE])
  /\ UNCHANGED <<turnVars, agents>>

MayToolDeny(c) ==
  /\ turn = "Running"
  /\ calls[c].phase = "Requested"

ToolDeny(c) ==
  /\ MayToolDeny(c)
  /\ SetCall(c, [calls[c] EXCEPT !.phase = "Denied", !.fresh = FALSE])
  /\ UNCHANGED <<turnVars, agents>>

PolicyTighten ==
  /\ calls' = [c \in Calls |-> [calls[c] EXCEPT !.fresh = FALSE]]
  /\ UNCHANGED <<turnVars, agents>>

\* The arm checks neither the phase nor the round: freshness stands for both.
MayToolExecStart(c) ==
  /\ turn = "Running"
  /\ calls[c].fresh

ToolExecStart(c) ==
  /\ MayToolExecStart(c)
  /\ SetCall(c, [calls[c] EXCEPT !.phase = "Executing", !.fresh = FALSE])
  /\ UNCHANGED <<turnVars, agents>>

MayToolExecEnd(c) == calls[c].phase \in {"Executing", "ExecBg"}

ToolExecEnd(c) ==
  /\ MayToolExecEnd(c)
  /\ SetCall(c, [calls[c] EXCEPT !.phase = "Done"])
  /\ UNCHANGED <<turnVars, agents>>

\* Mutant: only a resolved call settles, cancelled or not.
ToolSettleResolvedOnly(c) ==
  /\ calls[c].phase \in {"Done", "Denied"}
  /\ SetCall(c, [calls[c] EXCEPT !.phase = "Unused", !.fresh = FALSE])
  /\ round_due' = TRUE
  /\ UNCHANGED <<turn, round, steer_pending, wake_fold_pending, agents>>

MayToolSettle(c) ==
  \/ calls[c].phase \in {"Done", "Denied"}
  \/ calls[c].phase \in {"Requested", "Allowed"} /\ turn = "Cancelling"

ToolSettle(c) ==
  /\ MayToolSettle(c)
  /\ SetCall(c, [calls[c] EXCEPT !.phase = "Unused", !.fresh = FALSE])
  /\ round_due' = TRUE
  /\ UNCHANGED <<turn, round, steer_pending, wake_fold_pending, agents>>

\* A call whose deadline passed hands its process to a task slot.
MayToolBackground(c, a, r) ==
  /\ turn = "Running"
  /\ calls[c].phase = "Executing"
  /\ Cardinality(RunningAgents) < MaxLiveAgents
  /\ agents[a].phase = "None"
  /\ r # agents[a].rid

ToolBackground(c, a, r) ==
  /\ MayToolBackground(c, a, r)
  /\ SetCall(c, [calls[c] EXCEPT !.phase = "ExecBg"])
  /\ agents' = [agents EXCEPT ![a] = [@ EXCEPT !.phase = "Running", !.rid = r]]
  /\ UNCHANGED turnVars

-----------------------------------------------------------------------------
(* Tasks *)

SetAgent(a, slot) == agents' = [agents EXCEPT ![a] = slot]

MayAgentSpawn(a, r) ==
  /\ turn = "Running"
  /\ round = "InRound"
  /\ agents[a].phase = "None"
  /\ Cardinality(RunningAgents) < MaxLiveAgents
  /\ r # agents[a].rid

AgentSpawn(a, r) ==
  /\ MayAgentSpawn(a, r)
  /\ SetAgent(a, [agents[a] EXCEPT !.phase = "Running", !.rid = r])
  /\ round_due' = TRUE
  /\ UNCHANGED <<turn, round, steer_pending, wake_fold_pending, calls>>

MayAgentComplete(a, r) ==
  /\ agents[a].phase = "Running"
  /\ r = agents[a].rid

AgentComplete(a, r) ==
  /\ MayAgentComplete(a, r)
  /\ SetAgent(a, [agents[a] EXCEPT !.phase = "Done"])
  /\ UNCHANGED <<turnVars, calls>>

\* Mutant: a fold that leaves the slot in the wake snapshot.
AgentFoldKeepsSnapshot(a, r) ==
  /\ turn = "Running"
  /\ round = "Prep"
  /\ agents[a].phase = "Done"
  /\ r = agents[a].rid
  /\ SetAgent(a, [agents[a] EXCEPT !.phase = "None"])
  /\ round_due' = TRUE
  /\ UNCHANGED <<turn, round, steer_pending, wake_fold_pending, calls>>

\* Mutant: a fold that charges no round.
AgentFoldUncharged(a, r) ==
  /\ turn = "Running"
  /\ round = "Prep"
  /\ agents[a].phase = "Done"
  /\ r = agents[a].rid
  /\ SetAgent(a, [agents[a] EXCEPT !.phase = "None"])
  /\ wake_fold_pending' = wake_fold_pending \ {a}
  /\ UNCHANGED <<turn, round, round_due, steer_pending, calls>>

MayAgentFold(a, r) ==
  /\ turn = "Running"
  /\ round = "Prep"
  /\ agents[a].phase = "Done"
  /\ r = agents[a].rid

AgentFold(a, r) ==
  /\ MayAgentFold(a, r)
  /\ SetAgent(a, [agents[a] EXCEPT !.phase = "None"])
  /\ wake_fold_pending' = wake_fold_pending \ {a}
  /\ round_due' = TRUE
  /\ UNCHANGED <<turn, round, steer_pending, calls>>

MayTaskWait(a, r) ==
  /\ turn = "Running"
  /\ round = "InRound"
  /\ agents[a].phase # "None"
  /\ ~agents[a].waited
  /\ r = agents[a].rid

TaskWait(a, r) ==
  /\ MayTaskWait(a, r)
  /\ SetAgent(a, [agents[a] EXCEPT !.waited = TRUE])
  /\ UNCHANGED <<turnVars, calls>>

\* Neither of the next two arms looks at the turn or the round.
MayTaskWaitTimeout(a, r) ==
  /\ agents[a].waited
  /\ agents[a].phase = "Running"
  /\ r = agents[a].rid

TaskWaitTimeout(a, r) ==
  /\ MayTaskWaitTimeout(a, r)
  /\ SetAgent(a, [agents[a] EXCEPT !.waited = FALSE])
  /\ round_due' = TRUE
  /\ UNCHANGED <<turn, round, steer_pending, wake_fold_pending, calls>>

MayTaskWaitDeliver(a, r) ==
  /\ agents[a].waited
  /\ agents[a].phase = "Done"
  /\ r = agents[a].rid

TaskWaitDeliver(a, r) ==
  /\ MayTaskWaitDeliver(a, r)
  /\ SetAgent(a, [agents[a] EXCEPT !.phase = "None", !.waited = FALSE])
  /\ round_due' = TRUE
  /\ UNCHANGED <<turn, round, steer_pending, wake_fold_pending, calls>>

-----------------------------------------------------------------------------
CallStep(c) ==
  \/ \E d \in BOOLEAN : ToolRequest(c, d)
  \/ ToolDeny(c)
  \/ ToolExecStart(c)
  \/ ToolExecEnd(c)
  \/ ToolSettle(c)

TaskStep(a, r) ==
  \/ \E c \in Calls : ToolBackground(c, a, r)
  \/ AgentSpawn(a, r)
  \/ AgentComplete(a, r)
  \/ AgentFold(a, r)
  \/ TaskWait(a, r)
  \/ TaskWaitTimeout(a, r)
  \/ TaskWaitDeliver(a, r)

TurnStep ==
  \/ TurnStart
  \/ TurnCancel
  \/ TurnEnd
  \/ ContextEdit
  \/ RoundStart
  \/ RoundEnd
  \/ SteerEnqueue
  \/ SteerJoin

Next ==
  \/ TurnStep
  \/ PolicyTighten
  \/ \E c \in Calls : ToolAllow(c) \/ ToolApprove(c) \/ CallStep(c)
  \/ \E a \in Agents, r \in TaskIds : TaskStep(a, r)

Spec == Init /\ [][Next]_vars

(***************************************************************************)
(* The host closes what it started: the turn loop's teardown settles every *)
(* call, closes the round and the turn, a tool that executes returns, and  *)
(* the loop head folds every completed task before it opens a round.       *)
(* Nothing is assumed of the model, the user or the tasks.                 *)
(***************************************************************************)
HostFairness ==
  /\ WF_vars(TurnEnd)
  /\ WF_vars(RoundEnd)
  /\ \A c \in Calls : WF_vars(ToolExecEnd(c)) /\ WF_vars(ToolSettle(c))
  /\ \A a \in Agents : WF_vars(\E r \in TaskIds : AgentFold(a, r))

-----------------------------------------------------------------------------
(* Properties *)

\* Every variable stays in its Rust type.
TypeOK ==
  /\ turn \in TurnPhase
  /\ round \in RoundPhase
  /\ round_due \in BOOLEAN
  /\ steer_pending \in BOOLEAN
  /\ wake_fold_pending \subseteq Agents
  /\ calls \in [Calls -> CallSlot]
  /\ agents \in [Agents -> AgentSlot]

\* An unsettled call belongs to an open round of an active turn.  ToolAllow,
\* ToolApprove, ToolDeny, ToolExecStart and ToolBackground omit the round
\* guard and rely on this.
CallsInRound ==
  \A c \in Calls : calls[c].phase # "Unused" => round = "InRound" /\ turn # "Idle"

\* A grant that was not consumed belongs to an allowed call: ToolExecStart
\* checks `fresh` alone, so a stale bit would execute a call nobody allowed.
FreshOnlyAllowed ==
  \A c \in Calls : calls[c].fresh => calls[c].phase = "Allowed"

\* A pending wait is a wait for a live or settled task in an open round of a
\* running turn.  TaskWaitTimeout and TaskWaitDeliver omit both guards.
WaitsInRound ==
  \A a \in Agents : agents[a].waited =>
     turn = "Running" /\ round = "InRound" /\ agents[a].phase # "None"

\* Between turns nothing of a turn is left: no round, no call, no wait and no
\* obligation; only tasks, a steer and the wake snapshot survive.
IdleIsQuiescent ==
  turn = "Idle" =>
    /\ round = "Prep"
    /\ ~round_due
    /\ \A c \in Calls : calls[c].phase = "Unused" /\ ~calls[c].fresh
    /\ \A a \in Agents : ~agents[a].waited

\* AgentSpawn and ToolBackground share one limit, so the number of running
\* tasks never passes it, whatever mix created them.
WithinCapacity == Cardinality(RunningAgents) <= MaxLiveAgents

\* RoundStart waits for an empty wake snapshot and only AgentFold removes
\* from it.  Every member is therefore still foldable: a member that was
\* delivered some other way would block every later round of the turn.
WakeFoldsAreFoldable ==
  /\ wake_fold_pending \subseteq DoneAgents
  /\ round = "InRound" => wake_fold_pending = {}

\* Once cancelled, no call is requested, granted or executed and no task
\* starts until the turn is over.
CancelStopsNewWork ==
  [][turn = "Cancelling" =>
       /\ \A c \in Calls :
            calls'[c].phase # calls[c].phase => calls'[c].phase \in {"Unused", "Done"}
       /\ \A a \in Agents : agents'[a].phase = "Running" => agents[a].phase = "Running"]_vars

\* A cancelled turn ends: the host can always settle the calls of the open
\* round, close the round and close the turn.
CancelSettles == turn = "Cancelling" ~> turn = "Idle"

\* The tasks that were done when a turn started are folded, or the turn is
\* cancelled: the wake snapshot never holds up a running turn for good.
WakeFoldsHappen ==
  (turn = "Running" /\ wake_fold_pending # {}) ~>
     (wake_fold_pending = {} \/ turn # "Running")
=============================================================================
