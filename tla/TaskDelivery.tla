---------------------------- MODULE TaskDelivery ----------------------------
(***************************************************************************)
(* How the results of one conversation's background tasks reach the model. *)
(* It composes AgentPool with                                              *)
(*   - the run loop of api.rs (fold at the loop head, agent_spawn,         *)
(*     task_wait, the decision to end) and the run registry of state.rs;   *)
(*   - the settle observer, which publishes TaskSettled for an idle        *)
(*     conversation, and the recheck every finished run makes;             *)
(*   - the ledger of spawned agents a restart would report as lost.        *)
(* The run loop is one thread.  Who asks for a run, and when, is left open *)
(* here; TaskWake adds the renderer.                                       *)
(***************************************************************************)
EXTENDS AgentPool

VARIABLES run,        \* what the run's thread is doing
          runCancel,  \* the cancellation flag of the registered run
          recheck,    \* a finished run still has to call recheck_task_wake
          transcript, \* results in the contexts the run generated, per task
          ledger,     \* ledgered_subagents
          spawn_record, \* started by run_agent_spawn, entry still to be written
          lost,       \* history: claimed by a wait whose card was never made
          observing,  \* settled, settle_observer.notify still to be called
          pushed,     \* a TaskSettled event is on its way to the renderer
          announced   \* history: TaskSettled was published since the last run began

host == <<run, runCancel, recheck, transcript, ledger, spawn_record, lost>>
events == <<pushed, announced>>
dvars == <<agents, retired, closing, wait, claimed, host, observing, events>>

DeliveryInit ==
  /\ Init
  /\ run = "none" /\ runCancel = FALSE /\ recheck = FALSE
  /\ transcript = NoEnvelopes /\ ledger = {} /\ spawn_record = {} /\ lost = {}
  /\ observing = {} /\ pushed = FALSE /\ announced = FALSE

\* model_runs holds an entry of this conversation.
Active == run \notin {"none", "begin"}

Publish == pushed' = TRUE /\ announced' = TRUE
NotPublished == UNCHANGED <<pushed, announced>>

\* The tasks that put their result into the outbox in this step.
NewlySettled == {t \in Live : ~Running(t)' /\ HasResult(t)'}

-----------------------------------------------------------------------------
(* Workers, timers and the observer *)

Observed ==
  /\ observing' = observing \cup NewlySettled
  /\ UNCHANGED <<host, events>>

TimerStep(t) == StopTimer(t) /\ Observed

TaskStep(t) ==
  \/ \E st \in Settled : CompleteTurn(t, st) /\ Observed
  \/ WorkerPanic(t) /\ Observed
  \/ StopTask(t) /\ Observed
  \/ TimerStep(t)

\* Mutant: the observer does not look at the retired owners.
SettleObserverUnguarded(t) ==
  /\ t \in observing
  /\ observing' = observing \ {t}
  /\ IF Active THEN NotPublished ELSE Publish
  /\ UNCHANGED <<vars, host>>

SettleObserver(t) ==
  /\ t \in observing
  /\ observing' = observing \ {t}
  /\ IF retired \/ Active THEN NotPublished ELSE Publish
  /\ UNCHANGED <<vars, host>>

RetireConversationTasks ==
  /\ Retire
  /\ ledger' = {}
  /\ runCancel' = (runCancel \/ Active)
  /\ UNCHANGED <<run, recheck, transcript, spawn_record, lost, observing, events>>

-----------------------------------------------------------------------------
(* The run *)

\* The renderer invokes run_model.
InvokeRunModel ==
  /\ run = "none"
  /\ run' = "begin"
  /\ UNCHANGED <<vars, runCancel, recheck, transcript, ledger, spawn_record, lost, observing, events>>

\* The operation gate or the registry refuses the run: no recheck follows.
RefuseModelRun ==
  /\ run = "begin"
  /\ run' = "none"
  /\ UNCHANGED <<vars, runCancel, recheck, transcript, ledger, spawn_record, lost, observing, events>>

BeginModelRun ==
  /\ run = "begin" /\ ~retired
  /\ run' = "head" /\ runCancel' = FALSE /\ announced' = FALSE
  /\ UNCHANGED <<vars, recheck, transcript, ledger, spawn_record, lost, observing, pushed>>

CancelModelRun ==
  /\ Active /\ ~runCancel
  /\ runCancel' = TRUE
  /\ UNCHANGED <<vars, run, recheck, transcript, ledger, spawn_record, lost, observing, events>>

\* Mutant: an agent that is no longer running counts as delivered.
SettleDeliveredStopped(durable) ==
  ledger' = IF durable THEN {t \in ledger : Running(t)} ELSE ledger

\* settle_delivered_subagents, after a checkpoint that was confirmed or not.
SettleDelivered(durable) ==
  ledger' = IF durable THEN {t \in ledger : Running(t) \/ HasResult(t)'} ELSE ledger

\* The loop head: fold every result nobody waited for.
Fold(durable) ==
  /\ run = "head"
  /\ agents' = [t \in Tasks |-> [agents[t] EXCEPT !.outbox = Keep(@, Updates)]]
  /\ transcript' = [t \in Tasks |-> transcript[t] \o Keep(agents[t].outbox, {Result})]
  /\ SettleDelivered(durable)
  /\ run' = "round"
  /\ UNCHANGED <<retired, closing, wait, claimed, runCancel, recheck, spawn_record, lost, observing, events>>

\* Each call announces itself first: a cancelled run's sink refuses that.
Calls == run \in {"round", "batch"} /\ ~runCancel

AgentSpawn(t) ==
  /\ Calls
  /\ Register(t, "Running")
  /\ run' = "spawning"
  /\ UNCHANGED <<runCancel, recheck, transcript, ledger, spawn_record, lost, observing, events>>

\* The running delta goes out first: a cancelled run's sink refuses it.
SpawnStarts(t) ==
  /\ run = "spawning" /\ ~runCancel
  /\ StartWorker(t)
  /\ run' = "ledgering" /\ spawn_record' = {t}
  /\ UNCHANGED <<runCancel, recheck, transcript, ledger, lost, observing, events>>

\* record_spawned and note_ledgered_subagent: the worker runs already.
SpawnLedgered ==
  /\ run = "ledgering"
  /\ ledger' = ledger \cup spawn_record /\ spawn_record' = {}
  /\ run' = "batch"
  /\ UNCHANGED <<vars, runCancel, recheck, transcript, lost, observing, events>>

SpawnFails(t) ==
  /\ run = "spawning" /\ runCancel
  /\ StartFails(t)
  /\ run' = "exit"
  /\ UNCHANGED <<runCancel, recheck, transcript, ledger, spawn_record, lost, observing, events>>

TaskWait(ws) ==
  /\ Calls
  /\ WaitStart(ws, "TerminalResult")
  /\ run' = "waiting"
  /\ UNCHANGED <<runCancel, recheck, transcript, ledger, spawn_record, lost, observing, events>>

TaskWaitClock == Clock /\ UNCHANGED <<host, observing, events>>

\* The wait's own steps; its heartbeat fails exactly when the run is cancelled.
TaskWaitStep ==
  /\ run = "waiting"
  /\ \/ \E t \in Tasks : Drain(t)
     \/ WaitTest \/ WaitIdle \/ WaitReturn \/ WaitExpire
     \/ ~runCancel /\ WaitHeartbeat
  /\ UNCHANGED <<host, observing, events>>

TaskWaitAborts ==
  /\ run = "waiting" /\ runCancel
  /\ WaitAbort
  /\ run' = "exit"
  /\ UNCHANGED <<runCancel, recheck, transcript, ledger, spawn_record, lost, observing, events>>

\* The call's tail: the tasks that are not pooled, the completion event, the card.
TaskWaitSettles ==
  /\ run = "waiting" /\ wait.pc = "returned" /\ ~runCancel
  /\ transcript' = [t \in Tasks |-> transcript[t] \o claimed[t]]
  /\ claimed' = NoEnvelopes
  /\ wait' = NoWait
  /\ run' = "batch"
  /\ UNCHANGED <<agents, retired, closing, runCancel, recheck, ledger, spawn_record, lost, observing, events>>

\* A heartbeat or the completion event is refused after the wait returned.
TaskWaitRefused ==
  /\ run = "waiting" /\ wait.pc = "returned" /\ runCancel
  /\ lost' = lost \cup {t \in Tasks : claimed[t] # <<>>}
  /\ claimed' = NoEnvelopes
  /\ wait' = NoWait
  /\ run' = "exit"
  /\ UNCHANGED <<agents, retired, closing, runCancel, recheck, transcript, ledger, spawn_record, observing, events>>

\* The checkpoint behind the calls of a round; a hook, a handoff or a closed
\* question may end the run there.
BatchEnds(durable) ==
  /\ run = "batch"
  /\ UNCHANGED agents
  /\ SettleDelivered(durable)
  /\ run' \in {"head", "exit"}
  /\ UNCHANGED <<retired, closing, wait, claimed, runCancel, recheck, transcript, spawn_record, lost, observing, events>>

\* A round without tool calls: another one while a result waits to be folded.
FinalAnswer ==
  /\ run = "round"
  /\ run' = IF HasUndrainedFoldableResults THEN "head" ELSE "exit"
  /\ UNCHANGED <<vars, runCancel, recheck, transcript, ledger, spawn_record, lost, observing, events>>

\* A preflight, the provider, a hook or the user ends the run early.
RunFails ==
  /\ run \in {"head", "round", "batch"}
  /\ run' = "exit"
  /\ UNCHANGED <<vars, runCancel, recheck, transcript, ledger, spawn_record, lost, observing, events>>

\* Mutant: a run that ends leaves the wake to the observer.
FinishModelRunSilently ==
  /\ run = "exit"
  /\ run' = "none" /\ runCancel' = FALSE
  /\ UNCHANGED <<vars, recheck, transcript, ledger, spawn_record, lost, observing, events>>

FinishModelRun ==
  /\ run = "exit"
  /\ run' = "none" /\ runCancel' = FALSE /\ recheck' = TRUE
  /\ UNCHANGED <<vars, transcript, ledger, spawn_record, lost, observing, events>>

RecheckTaskWake ==
  /\ recheck
  /\ recheck' = FALSE
  /\ IF ~retired /\ HasUndrainedFoldableResults /\ ~Active THEN Publish ELSE NotPublished
  /\ UNCHANGED <<vars, run, runCancel, transcript, ledger, spawn_record, lost, observing>>

\* The renderer receives the event.
TakePushEvent ==
  /\ pushed /\ pushed' = FALSE
  /\ UNCHANGED <<vars, host, observing, announced>>

-----------------------------------------------------------------------------
RunStep ==
  \/ BeginModelRun
  \/ CancelModelRun
  \/ \E durable \in BOOLEAN : Fold(durable) \/ BatchEnds(durable)
  \/ \E t \in Tasks : AgentSpawn(t) \/ SpawnStarts(t) \/ SpawnFails(t)
  \/ SpawnLedgered
  \/ \E ws \in (SUBSET Registered) \ {{}} : TaskWait(ws)
  \/ TaskWaitClock
  \/ TaskWaitStep
  \/ TaskWaitAborts
  \/ TaskWaitSettles
  \/ TaskWaitRefused
  \/ FinalAnswer
  \/ RunFails
  \/ FinishModelRun
  \/ RecheckTaskWake

DeliveryNext ==
  \/ \E t \in Tasks : TaskStep(t) \/ SettleObserver(t)
  \/ RetireConversationTasks
  \/ RunStep
  \/ InvokeRunModel
  \/ RefuseModelRun
  \/ TakePushEvent

DeliverySpec == DeliveryInit /\ [][DeliveryNext]_dvars

-----------------------------------------------------------------------------
(* Properties *)

\* The types of the pool, of the run loop (api.rs) and of the registry (state.rs).
DeliveryTypeOK ==
  /\ TypeOK
  /\ run \in {"none", "begin", "head", "round", "batch", "spawning", "ledgering", "waiting", "exit"}
  /\ runCancel \in BOOLEAN /\ recheck \in BOOLEAN
  /\ transcript \in [Tasks -> Seq(Envelope)]
  /\ ledger \subseteq Tasks /\ spawn_record \subseteq Tasks /\ lost \subseteq Tasks /\ observing \subseteq Tasks
  /\ pushed \in BOOLEAN /\ announced \in BOOLEAN

Started(t) == agents[t].worker \in {"turn", "gone"}
Ran(t) == Started(t) /\ ~Running(t)
Delivered(t) == \E i \in DOMAIN transcript[t] : IsResult(transcript[t][i])

\* Every result is in one place at a time, and the only way to lose one is a
\* task_wait whose run was cancelled after it had collected its results.
ResultIsSomewhere ==
  \A t \in Tasks :
    /\ Len(Keep(transcript[t] \o Emitted(t), {Result})) <= 1
    /\ Ran(t) /\ t \notin lost => Len(Keep(transcript[t] \o Emitted(t), {Result})) = 1

\* The host's half of the wake protocol: when no run is registered and no
\* recheck or observer call is under way, a result that waits for delivery
\* has been announced since the last run began.
HostAnnounces ==
  ~Active /\ ~recheck /\ ~retired /\ observing = {} /\ HasUndrainedFoldableResults => announced

\* Nobody forgets an agent early: one that was started has a ledger entry or
\* its result in the transcript (lost ones apart), so a restart reports it.  The
\* exception is one agent at a time, which the run's thread has started and is
\* about to record: run_agent_spawn writes the entry behind the worker's start.
LedgerCoversOwed ==
  /\ \A t \in Tasks :
       ~retired /\ Started(t) /\ t \notin lost => t \in ledger \cup spawn_record \/ Delivered(t)
  /\ \A t, u \in spawn_record : run = "ledgering" /\ t = u

\* A deleted conversation publishes nothing, starts no run and no task.
RetiredIsSilent ==
  [][retired => /\ announced' => announced
                /\ run = "begin" => run' \in {"begin", "none"}
                /\ Live' \subseteq Live]_dvars

\* api.rs on the ledger: an agent that is no longer running and has no result
\* left in its outbox handed it to a fold or a wait, and the confirmed
\* checkpoint wrote the card that carried it.  It does not hold: see the
\* observations of the README.
LedgerSettledMeansDelivered ==
  \A t \in Tasks : ~retired /\ Ran(t) => t \in ledger \cup spawn_record \/ Delivered(t)
=============================================================================
