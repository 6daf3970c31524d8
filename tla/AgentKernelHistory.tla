------------------------- MODULE AgentKernelHistory -------------------------
(***************************************************************************)
(* The agent kernel with two history variables that it does not keep but   *)
(* its comments argue with: who authorised each call, and whether the      *)
(* model has been given a round since something was last handed to it.     *)
(* They observe the steps of AgentKernel and never restrict them.          *)
(***************************************************************************)
EXTENDS AgentKernel

VARIABLES authority, \* per call: who granted it since its request and the last tightening
          unseen     \* something was handed over and no model round started since

hvars == <<vars, authority, unseen>>

HInit ==
  /\ Init
  /\ authority = [c \in Calls |-> "nobody"]
  /\ unseen = FALSE

\* A call that already runs keeps its authority; an open grant is revoked.
Begun(c) == calls[c].phase \in {"Executing", "ExecBg", "Done"}

\* What a step puts in front of the model: a settled call, a terminal result,
\* an accepted task, a withdrawn wait, a steer.
HandsOver ==
  \/ \E c \in Calls : calls[c].phase # "Unused" /\ calls'[c].phase = "Unused"
  \/ \E a \in Agents :
       \/ agents[a].phase = "Done" /\ agents'[a].phase = "None"
       \/ agents[a].waited /\ ~agents'[a].waited /\ turn' = "Running"
  \/ steer_pending /\ ~steer_pending'

Observe ==
  unseen' = IF (round = "Prep" /\ round' = "InRound") \/ (turn = "Cancelling" /\ turn' = "Idle")
            THEN FALSE
            ELSE unseen \/ HandsOver

GrantedBy(c, who) == authority' = [authority EXCEPT ![c] = who]

HNext ==
  \/ \E c \in Calls : ToolAllow(c) /\ GrantedBy(c, "host") /\ Observe
  \/ \E c \in Calls : ToolApprove(c) /\ GrantedBy(c, "user") /\ Observe
  \/ /\ PolicyTighten
     /\ authority' = [c \in Calls |-> IF Begun(c) THEN authority[c] ELSE "nobody"]
     /\ Observe
  \/ \E c \in Calls : CallStep(c) /\ Observe
       /\ authority' = [authority EXCEPT ![c] = IF calls'[c].phase = "Unused" THEN "nobody" ELSE @]
  \/ TurnStep /\ UNCHANGED authority /\ Observe
  \/ \E a \in Agents, r \in TaskIds : TaskStep(a, r) /\ UNCHANGED authority /\ Observe

HSpec == HInit /\ [][HNext]_hvars
HFairSpec == HSpec /\ HostFairness

-----------------------------------------------------------------------------
\* A call that runs, or has run, was authorised after its request and after
\* the last policy tightening: by the user when it was classified dangerous,
\* by the host otherwise.  A slot that is reused inherits no authority.
ExecutionAuthorised ==
  \A c \in Calls : Begun(c) => authority[c] = IF calls[c].danger THEN "user" ELSE "host"

\* No turn ends normally with something handed over that no model round has
\* seen: every receipt, result, withdrawn wait and steer charges round_due,
\* whichever arm handed it over.
NothingUnseenWhenIdle == turn = "Idle" => ~unseen
=============================================================================
