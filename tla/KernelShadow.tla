---------------------------- MODULE KernelShadow ----------------------------
(***************************************************************************)
(* src-tauri/src/kernel_shadow.rs: the run loop of api.rs reports what it  *)
(* does to a shadow, which projects every report onto events of the agent  *)
(* kernel.  A refused event is a divergence: it is logged, panics in       *)
(* strict mode, and never changes the host.  The shadow of a conversation  *)
(* outlives its runs, so a slot it mislays stays mislaid.                  *)
(*                                                                         *)
(* A method holds the shadow's mutex: it leaves the events it feeds in     *)
(* `script`, `lanes` and `closing`, and Feed hands them to the kernel one  *)
(* at a time, before anything else happens.  Conditions a method reads     *)
(* between two events are not touched by the events before them and are    *)
(* read at its entry.                                                      *)
(*                                                                         *)
(* The host is the run loop of one conversation and its task pool, reduced *)
(* to what it reports.  It behaves as the kernel's rules demand: whatever  *)
(* is refused is the shadow's mistake.  A name has one incarnation (no     *)
(* path of the host mints a second), so every identity is the tracked one; *)
(* the digests of the A3 audit are left out.                               *)
(***************************************************************************)
EXTENDS AgentKernel, Sequences

CONSTANTS CallIds,  \* calls the model may have open at a time
          Names     \* tasks of the conversation

\* SHADOW_CALL_SLOTS is 4; SHADOW_TASK_IDS is 2: the identities of a slot
\* alternate.
ASSUME ShadowAssumption == IsFiniteSet(Names) /\ Calls # {} /\ TaskIdCount > 1

VARIABLES entries,   \* calls: call id -> slot, danger, prompt outcome
          mapped,    \* agents: task name -> slot, rid
          unmapped,  \* call ids that found no free slot
          prompt,    \* active_prompt_call
          injection, \* pending_injection
          script,    \* the events fed next, in order
          lanes,     \* then the events of each member of a hash map, in any order
          closing,   \* and the events behind them
          refused,   \* history: the kernel refused an event
          host,      \* what the run's thread is doing
          mailbox,   \* a steering message waits for the loop head
          open,      \* the calls of the batch that are not settled yet
          watched,   \* the tasks a task_wait watches
          pool,      \* per name: what the task pool knows
          gaps       \* history: the projection's blind spots met so far

shadow == <<entries, mapped, unmapped, prompt, injection>>
run == <<host, mailbox, open, watched, pool>>
feed == <<script, lanes, closing>>
svars == <<vars, shadow, feed, refused, run, gaps>>

\* "ghost": a task the kernel refuses has a slot, because its call's approval
\* is reported later or because the kernel still counts other tasks against
\* the limit.  "untracked": a task found no slot.  "phantom": a refused handoff
\* left a task in the pool that the shadow was not told of; its result, if the
\* user stops it, asks for a round the kernel knows no reason for.  "stranded":
\* the receipt of a call that was handed over was cut off.
Saw(kinds) == gaps' = gaps \cup kinds

ShadowInit ==
  /\ Init
  /\ entries = {} /\ mapped = {} /\ unmapped = {} /\ prompt = {} /\ injection = FALSE
  /\ script = <<>> /\ lanes = {} /\ closing = <<>> /\ refused = FALSE
  /\ host = "idle" /\ mailbox = FALSE /\ open = {} /\ watched = {}
  /\ pool = [n \in Names |-> "absent"]
  /\ gaps = {}

-----------------------------------------------------------------------------
(* Feeding the kernel *)

\* ShadowInner::step: a refused event leaves the kernel alone.
Offer(may, Step) == IF may THEN Step /\ UNCHANGED refused ELSE refused' = TRUE /\ UNCHANGED vars

Do(e) ==
  \/ e[1] = "TurnStart" /\ Offer(MayTurnStart, TurnStart)
  \/ e[1] = "TurnCancel" /\ Offer(MayTurnCancel, TurnCancel)
  \/ e[1] = "TurnEnd" /\ Offer(MayTurnEnd, TurnEnd)
  \/ e[1] = "RoundStart" /\ Offer(MayRoundStart, RoundStart)
  \/ e[1] = "RoundEnd" /\ Offer(MayRoundEnd, RoundEnd)
  \/ e[1] = "SteerEnqueue" /\ Offer(MaySteerEnqueue, SteerEnqueue)
  \/ e[1] = "SteerJoin" /\ Offer(MaySteerJoin, SteerJoin)
  \/ e[1] = "ToolRequest" /\ Offer(MayToolRequest(e[2]), ToolRequest(e[2], e[3]))
  \/ e[1] = "ToolAllow" /\ Offer(MayToolAllow(e[2]), ToolAllow(e[2]))
  \/ e[1] = "ToolApprove" /\ Offer(MayToolApprove(e[2]), ToolApprove(e[2]))
  \/ e[1] = "ToolDeny" /\ Offer(MayToolDeny(e[2]), ToolDeny(e[2]))
  \/ e[1] = "ToolExecStart" /\ Offer(MayToolExecStart(e[2]), ToolExecStart(e[2]))
  \/ e[1] = "ToolExecEnd" /\ Offer(MayToolExecEnd(e[2]), ToolExecEnd(e[2]))
  \/ e[1] = "ToolSettle" /\ Offer(MayToolSettle(e[2]), ToolSettle(e[2]))
  \/ e[1] = "ToolBackground" /\ Offer(MayToolBackground(e[2], e[3], e[4]), ToolBackground(e[2], e[3], e[4]))
  \/ e[1] = "AgentSpawn" /\ Offer(MayAgentSpawn(e[2], e[3]), AgentSpawn(e[2], e[3]))
  \/ e[1] = "AgentComplete" /\ Offer(MayAgentComplete(e[2], e[3]), AgentComplete(e[2], e[3]))
  \/ e[1] = "AgentFold" /\ Offer(MayAgentFold(e[2], e[3]), AgentFold(e[2], e[3]))
  \/ e[1] = "TaskWait" /\ Offer(MayTaskWait(e[2], e[3]), TaskWait(e[2], e[3]))
  \/ e[1] = "TaskWaitTimeout" /\ Offer(MayTaskWaitTimeout(e[2], e[3]), TaskWaitTimeout(e[2], e[3]))
  \/ e[1] = "TaskWaitDeliver" /\ Offer(MayTaskWaitDeliver(e[2], e[3]), TaskWaitDeliver(e[2], e[3]))

Feed ==
  /\ script # <<>>
  /\ Do(Head(script))
  /\ script' = Tail(script)
  /\ UNCHANGED <<lanes, closing, shadow, run, gaps>>

NextLane ==
  /\ script = <<>>
  /\ \E lane \in lanes : script' = lane /\ lanes' = lanes \ {lane}
  /\ UNCHANGED <<vars, closing, shadow, refused, run, gaps>>

Close ==
  /\ script = <<>> /\ lanes = {} /\ closing # <<>>
  /\ script' = closing /\ closing' = <<>>
  /\ UNCHANGED <<vars, lanes, shadow, refused, run, gaps>>

Between == script = <<>> /\ lanes = {} /\ closing = <<>>

\* What a method leaves to be fed.
Tell(events) == script' = events /\ UNCHANGED <<lanes, closing>>
TellEach(S)  == lanes' = S /\ UNCHANGED <<script, closing>>
Tell3(first, S, last) == script' = first /\ lanes' = S /\ closing' = last
Silent == UNCHANGED feed

If(condition, events) == IF condition THEN events ELSE <<>>

-----------------------------------------------------------------------------
(* Slots *)

FreeCalls  == Calls \ {e.slot : e \in entries}
FreeAgents == Agents \ {m.slot : m \in mapped}

\* other_rid: they alternate.
Other(rid) == (rid % TaskIdCount) + 1

Mapped(ns) == {m \in mapped : m.name \in ns}

\* A task the shadow does not follow.
Untracked == Silent /\ Saw({"untracked"}) /\ UNCHANGED mapped

\* allocate_agent: the events of the caller go to the slot it got, if any.
AllocateAgent(n, ghost, Events(_, _)) ==
  \/ FreeAgents = {} /\ Untracked
  \/ \E a \in FreeAgents :
       LET r == Other(agents[a].rid) IN
       /\ mapped' = mapped \cup {[name |-> n, slot |-> a, rid |-> r]}
       /\ Tell(Events(a, r))
       /\ Saw(IF ghost THEN {"ghost"} ELSE {})

-----------------------------------------------------------------------------
(* Turns and rounds *)

Done(m) == agents[m.slot].phase = "Done"
Undelivered == {n \in Names : pool[n] = "settled"}

\* A cancelled wake leaves the same result done in the kernel and in the pool.
WakeEvents(m) == <<<<"AgentComplete", m.slot, m.rid>>>>

BeginTurn ==
  /\ host = "idle"
  /\ Tell3(<<>>, {WakeEvents(m) : m \in {x \in Mapped(Undelivered) : ~Done(x)}}, <<<<"TurnStart">>>>)
  /\ host' = "head" /\ mailbox' = FALSE
  /\ UNCHANGED <<vars, shadow, refused, open, watched, pool, gaps>>

CloseRound == If(round = "InRound", <<<<"RoundEnd">>>>)
Steer == <<<<"SteerEnqueue">>, <<"SteerJoin">>>>

\* round_boundary, and steer_joined for what the mailbox held.
LoopHead ==
  /\ host = "head"
  /\ Tell3(CloseRound, {}, If(mailbox, Steer))
  /\ mailbox' = FALSE /\ host' = "fold"
  /\ UNCHANGED <<vars, shadow, refused, open, watched, pool, gaps>>

\* Mutant: every fold completes the task first.
FoldEventsAlways(m) ==
  <<<<"AgentComplete", m.slot, m.rid>>, <<"AgentFold", m.slot, m.rid>>>>

FoldEvents(m) ==
  IF Done(m) THEN <<<<"AgentFold", m.slot, m.rid>>>>
  ELSE <<<<"AgentComplete", m.slot, m.rid>>, <<"AgentFold", m.slot, m.rid>>>>

\* The names in ns left their outbox.
Collected(ns) == pool' = [n \in Names |-> IF n \in ns THEN "gone" ELSE pool[n]]

\* fold_undrained_agent_results; a task without an entry is a scope gap.
FoldResults ==
  /\ host = "fold"
  /\ TellEach({FoldEvents(m) : m \in Mapped(Undelivered)})
  /\ mapped' = mapped \ Mapped(Undelivered)
  /\ Collected(Undelivered)
  /\ host' = "prep"
  /\ UNCHANGED <<vars, entries, unmapped, prompt, injection, refused, mailbox, open, watched, gaps>>

RoundStarted ==
  /\ host = "prep"
  /\ Tell3(If(injection, Steer), {}, <<<<"RoundStart">>>>)
  /\ injection' = FALSE
  /\ host' = "round"
  /\ UNCHANGED <<vars, entries, mapped, unmapped, prompt, refused, mailbox, open, watched, pool, gaps>>

\* A round without calls.  A hook or the schema reminder injects a message,
\* else a steering message or an uncollected result asks for another round.
FinalAnswer(injected) ==
  /\ host = "round"
  /\ injection' = injected
  /\ host' = IF injected \/ mailbox \/ Undelivered # {} THEN "head" ELSE "exit"
  /\ Silent
  /\ UNCHANGED <<vars, entries, mapped, unmapped, prompt, refused, mailbox, open, watched, pool, gaps>>

-----------------------------------------------------------------------------
(* Tool calls *)

Batch == host \in {"round", "batch"} /\ \A k \in open : k.parked
InWindow(k) == host = "batch" /\ k \in open /\ ~k.parked

\* Whether the executor runs the call, which needs the user or a hook.
Runs(k) == ~k.denied /\ (~k.danger \/ k.verdict = "granted" \/ (k.hook /\ k.verdict = "unasked"))

RejectedPrecheck(id) ==
  /\ Batch /\ id \notin {k.id : k \in open}
  /\ \/ FreeCalls = {} /\ Silent  \* unmapped, and never heard of again
     \/ \E c \in FreeCalls :
          Tell(<<<<"ToolRequest", c, FALSE>>, <<"ToolDeny", c>>, <<"ToolSettle", c>>>>)
  /\ host' = "batch"
  /\ UNCHANGED <<vars, shadow, refused, mailbox, open, watched, pool, gaps>>

\* tool_request, and tool_dispatched unless a hook denied the call.
RequestTool(id, danger, denied, hook) ==
  /\ Batch /\ id \notin {k.id : k \in open}
  /\ open' = open \cup {[id |-> id, danger |-> danger, denied |-> denied, hook |-> hook,
                         verdict |-> "unasked", parked |-> FALSE, handed |-> FALSE]}
  /\ \/ /\ FreeCalls = {}
        /\ Silent /\ unmapped' = unmapped \cup {id}
        /\ UNCHANGED <<entries, prompt>>
     \/ \E c \in FreeCalls :
          /\ Tell(IF denied \/ danger THEN <<<<"ToolRequest", c, danger>>>>
                  ELSE <<<<"ToolRequest", c, danger>>, <<"ToolAllow", c>>, <<"ToolExecStart", c>>>>)
          /\ entries' = entries \cup {[id |-> id, slot |-> c, danger |-> danger, outcome |-> "none"]}
          /\ prompt' = IF ~denied /\ danger THEN {id} ELSE prompt
          /\ UNCHANGED unmapped
  /\ host' = "batch"
  /\ UNCHANGED <<vars, mapped, injection, refused, mailbox, watched, pool, gaps>>

\* The executor asks; the wrapped callback records the first answer.  A hook's
\* permission does not spare the user a mandatory prompt.
RecordPromptOutcome(k, answer) ==
  /\ InWindow(k) /\ k.danger /\ ~k.denied /\ k.verdict = "unasked"
  /\ open' = (open \ {k}) \cup {[k EXCEPT !.verdict = answer]}
  /\ entries' = {IF e.id \in prompt /\ e.outcome = "none" THEN [e EXCEPT !.outcome = answer] ELSE e
                   : e \in entries}
  /\ Silent
  /\ UNCHANGED <<vars, mapped, unmapped, prompt, injection, refused, host, mailbox, watched, pool, gaps>>

\* web_search and web_fetch run on; they are collected behind the batch.
ParkAsync(k) ==
  /\ InWindow(k) /\ Runs(k) /\ ~k.handed
  /\ open' = (open \ {k}) \cup {[k EXCEPT !.parked = TRUE]}
  /\ Silent
  /\ UNCHANGED <<vars, shadow, refused, host, mailbox, watched, pool, gaps>>

ResolveEvents(e, k, success) ==
  LET c == e.slot IN
  IF k.denied THEN <<<<"ToolDeny", c>>, <<"ToolSettle", c>>>>
  ELSE IF ~e.danger THEN <<<<"ToolExecEnd", c>>, <<"ToolSettle", c>>>>
  ELSE IF e.outcome = "granted" \/ k.hook
  THEN <<<<"ToolApprove", c>>, <<"ToolExecStart", c>>, <<"ToolExecEnd", c>>, <<"ToolSettle", c>>>>
  ELSE IF e.outcome = "refused" \/ ~success THEN <<<<"ToolDeny", c>>, <<"ToolSettle", c>>>>
  ELSE <<<<"ToolExecStart", c>>, <<"ToolDeny", c>>, <<"ToolSettle", c>>>>

\* settle_tool_execution of the call in the window, or of a parked one once
\* the batch is through.
ToolFinished(k, success) ==
  /\ host = "batch" /\ k \in open /\ (k.parked => \A j \in open : j.parked)
  /\ success => Runs(k)
  /\ open' = open \ {k}
  /\ LET own == {e \in entries : e.id = k.id} IN
     IF k.id \in unmapped THEN Silent /\ UNCHANGED <<entries, prompt>>
     ELSE \E e \in own :
            /\ Tell(ResolveEvents(e, k, success))
            /\ entries' = entries \ own
            /\ prompt' = {}
  /\ unmapped' = unmapped \ {k.id}  \* ids are never used twice
  /\ UNCHANGED <<vars, mapped, injection, refused, host, mailbox, watched, pool, gaps>>

BatchEnds ==
  /\ host = "batch" /\ open = {}
  /\ host' = "head"
  /\ Silent
  /\ UNCHANGED <<vars, shadow, refused, mailbox, open, watched, pool, gaps>>

-----------------------------------------------------------------------------
(* Tasks *)

LiveTasks == {n \in Names : pool[n] = "running"}
CanRegister(n) == pool[n] = "absent" /\ Cardinality(LiveTasks) < MaxLiveAgents

\* The kernel counts a task until its envelope is consumed, and for ever if it
\* never had one; the pool counts it until it settles.
Counted == Cardinality(mapped) >= MaxLiveAgents

\* agent_spawn, workflow or a background shell.  A run cancelled meanwhile
\* cannot start the worker: the task ends without an envelope.
SpawnTask(k, n, starts) ==
  /\ InWindow(k) /\ Runs(k) /\ ~k.handed
  /\ CanRegister(n)
  /\ AllocateAgent(n, Counted, LAMBDA a, r : <<<<"AgentSpawn", a, r>>>>)
  /\ pool' = [pool EXCEPT ![n] = IF starts THEN "running" ELSE "gone"]
  /\ host' = IF starts THEN host ELSE "abort"
  /\ UNCHANGED <<vars, entries, unmapped, prompt, injection, refused, mailbox, open, watched>>

\* adopt_timed_out_shell: the call keeps its slot and owes its receipt.
ToolBackgrounded(k, n) ==
  /\ InWindow(k) /\ Runs(k) /\ ~k.handed
  /\ CanRegister(n)
  /\ pool' = [pool EXCEPT ![n] = "running"]
  /\ open' = (open \ {k}) \cup {[k EXCEPT !.handed = TRUE]}
  /\ IF k.id \in unmapped THEN Untracked
     ELSE \E e \in entries :
            /\ e.id = k.id
            /\ AllocateAgent(n, Counted \/ k.danger,
                             LAMBDA a, r : <<<<"ToolBackground", e.slot, a, r>>>>)
  /\ UNCHANGED <<vars, entries, unmapped, prompt, injection, refused, host, mailbox, watched>>

\* It fails behind the registration, its status event refused: the pool has the
\* task as running, the shadow does not hear of it, and the command goes back
\* to its call, which ends as any other.
HandoffRefused(k, n) ==
  /\ InWindow(k) /\ Runs(k) /\ ~k.handed
  /\ CanRegister(n)
  /\ pool' = [pool EXCEPT ![n] = "running"]
  /\ Silent /\ Saw({"phantom"})
  /\ UNCHANGED <<vars, shadow, refused, host, mailbox, open, watched>>

SettleTask(n) ==
  /\ pool[n] = "running"
  /\ pool' = [pool EXCEPT ![n] = "settled"]
  /\ Silent
  /\ UNCHANGED <<vars, shadow, refused, host, mailbox, open, watched, gaps>>

TaskWaitStarted(k, ns) ==
  /\ InWindow(k) /\ Runs(k) /\ ~k.handed
  /\ TellEach({<<<<"TaskWait", m.slot, m.rid>>>> : m \in Mapped(ns)})
  /\ watched' = ns /\ host' = "waiting"
  /\ UNCHANGED <<vars, shadow, refused, mailbox, open, pool, gaps>>

ClaimEvents(m) == <<<<"AgentComplete", m.slot, m.rid>>, <<"TaskWaitDeliver", m.slot, m.rid>>>>

\* Mutant: a delivered wait keeps the entry of the task.
TaskWaitClaimedKeeping(got) ==
  /\ host = "waiting"
  /\ TellEach({ClaimEvents(m) : m \in Mapped(got)})
  /\ Collected(got)
  /\ watched' = watched \ got /\ host' = "drained"
  /\ UNCHANGED <<vars, shadow, refused, mailbox, open, gaps>>

\* `got` is what the wait drained; a task may settle after the last drain.
TaskWaitClaimed(got) ==
  /\ host = "waiting"
  /\ TellEach({ClaimEvents(m) : m \in Mapped(got)})
  /\ mapped' = mapped \ Mapped(got)
  /\ Collected(got)
  /\ watched' = watched \ got /\ host' = "drained"
  /\ UNCHANGED <<vars, entries, unmapped, prompt, injection, refused, mailbox, open, gaps>>

TaskWaitTimedOut ==
  /\ host = "drained"
  /\ TellEach({<<<<"TaskWaitTimeout", m.slot, m.rid>>>> : m \in Mapped(watched)})
  /\ watched' = {} /\ host' = "batch"
  /\ UNCHANGED <<vars, shadow, refused, mailbox, open, pool, gaps>>

\* A heartbeat is refused: inside the pool's wait everything is put back,
\* behind it, on tasks that are not pooled, the envelopes are dropped.
TaskWaitFails(dropped) ==
  /\ host = "waiting"
  /\ Collected(dropped)
  /\ watched' = {} /\ host' = "abort"
  /\ Silent
  /\ UNCHANGED <<vars, shadow, refused, mailbox, open, gaps>>

-----------------------------------------------------------------------------
(* The end of a run *)

\* Mutant: an executing call is settled without its end.
SweepEventsPlain(e) == <<<<"ToolSettle", e.slot>>>>

\* sweep_calls: a call that was handed over is not Executing.
SweepEvents(e) ==
  IF calls[e.slot].phase = "Executing" THEN <<<<"ToolExecEnd", e.slot>>, <<"ToolSettle", e.slot>>>>
  ELSE <<<<"ToolSettle", e.slot>>>>
Sweep == {SweepEvents(e) : e \in entries}

\* Cancellation, a stream error, a hook or a stop reason leaves the loop.
RunFails ==
  /\ host \in {"head", "fold", "prep", "round", "batch"}
  /\ host' = "abort"
  /\ Silent
  /\ UNCHANGED <<vars, shadow, refused, mailbox, open, watched, pool, gaps>>

Cancel(due) == If(due /\ turn = "Running", <<<<"TurnCancel">>>>)

TurnAborting ==
  /\ host = "abort"
  /\ Tell3(Cancel(TRUE), Sweep, CloseRound)
  /\ entries' = {} /\ unmapped' = {}
  /\ Saw(IF \E k \in open : k.handed THEN {"stranded"} ELSE {})
  /\ open' = {} /\ host' = "aborted"
  /\ UNCHANGED <<vars, mapped, prompt, injection, refused, mailbox, watched, pool>>

FinalBoundary ==
  /\ host = "exit"
  /\ Tell(CloseRound)
  /\ host' = "ended"
  /\ UNCHANGED <<vars, shadow, refused, mailbox, open, watched, pool, gaps>>

\* The cancellation may also be raised while the pool is finalized.
TurnFinished(late) ==
  /\ host \in {"aborted", "ended"}
  /\ Tell3(Cancel(host = "aborted" \/ late), Sweep,
           IF round = "InRound" THEN <<<<"RoundEnd">>, <<"TurnEnd">>>> ELSE <<<<"TurnEnd">>>>)
  /\ entries' = {} /\ injection' = FALSE
  /\ host' = "idle"
  /\ UNCHANGED <<vars, mapped, unmapped, prompt, refused, mailbox, open, watched, pool, gaps>>

UserSteers ==
  /\ host # "idle" /\ ~mailbox
  /\ mailbox' = TRUE
  /\ Silent
  /\ UNCHANGED <<vars, shadow, refused, host, open, watched, pool, gaps>>

-----------------------------------------------------------------------------
ToolStep(k) ==
  \/ \E answer \in {"granted", "refused"} : RecordPromptOutcome(k, answer)
  \/ ParkAsync(k)
  \/ \E success \in BOOLEAN : ToolFinished(k, success)
  \/ \E n \in Names, starts \in BOOLEAN : SpawnTask(k, n, starts)
  \/ \E n \in Names : ToolBackgrounded(k, n) \/ HandoffRefused(k, n)
  \/ \E ns \in (SUBSET {n \in Names : pool[n] # "absent"}) \ {{}} : TaskWaitStarted(k, ns)

HostStep ==
  \/ BeginTurn
  \/ LoopHead
  \/ FoldResults
  \/ RoundStarted
  \/ \E injected \in BOOLEAN : FinalAnswer(injected)
  \/ \E id \in CallIds : RejectedPrecheck(id)
  \/ \E id \in CallIds, danger, denied, hook \in BOOLEAN : RequestTool(id, danger, denied, hook)
  \/ \E k \in open : ToolStep(k)
  \/ BatchEnds
  \/ \E got \in SUBSET (watched \cap Undelivered) : TaskWaitClaimed(got) \/ TaskWaitFails(got)
  \/ TaskWaitTimedOut
  \/ RunFails
  \/ TurnAborting
  \/ FinalBoundary
  \/ \E late \in BOOLEAN : TurnFinished(late)
  \/ UserSteers
  \/ \E n \in Names : SettleTask(n)

ShadowNext ==
  \/ Feed
  \/ NextLane
  \/ Close
  \/ Between /\ HostStep

ShadowSpec == ShadowInit /\ [][ShadowNext]_svars

-----------------------------------------------------------------------------
(* Properties *)

\* Every event of a host that keeps the kernel's rules is accepted: a refusal
\* accuses the host only after one of the projection's blind spots.
NoFalseAlarm == refused => gaps # {}

\* An abort brings the shadow back in step whatever was refused before: no call
\* is left, so the round closes and TurnEnd is accepted; without a blind spot
\* every turn ends idle.  A handoff whose receipt was cut off is excepted.
BackInStep ==
  Between /\ "stranded" \notin gaps =>
    /\ host = "aborted" => turn # "Running" /\ round = "Prep"
    /\ host = "idle" /\ gaps = {} => turn = "Idle"

\* A call slot the kernel uses is a slot the shadow knows, so none is handed
\* out twice; and without a blind spot the same goes for tasks, whose slots
\* are those the kernel uses and cover what the pool has running or uncollected
\* (a refused handoff's registration, a blind spot, is the one it has besides).
SlotsMirrored ==
  Between =>
    /\ "stranded" \notin gaps => \A c \in Calls : calls[c].phase # "Unused" => c \notin FreeCalls
    /\ gaps = {} => /\ \A a \in Agents : agents[a].phase # "None" <=> a \notin FreeAgents
                    /\ LiveTasks \cup Undelivered \subseteq {m.name : m \in mapped}

\* Whatever it is told, in whatever order, the shadow puts the kernel through
\* kernel steps only: every event it feeds names a slot and an identity of the
\* kernel's scope, and a refused one leaves no trace (ShadowInner::step).
DrivesKernel == Spec

\* "Aborted turns emit `TurnCancel`, settle stranded calls by phase, and close
\* the active round before teardown" (kernel_shadow.rs:32).  It does not hold
\* for a call that was handed off before the abort (README, Observations).
AbortRecovers == Between /\ host = "aborted" => turn # "Running" /\ round = "Prep"
=============================================================================
