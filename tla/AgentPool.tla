------------------------------ MODULE AgentPool ------------------------------
(***************************************************************************)
(* src-tauri/src/agents.rs: the pool of background tasks (subagents, shell *)
(* commands, workflow runs) of one owner.  A task is shared by its worker  *)
(* thread, the stop timers, the sidebar and the owner's thread, which      *)
(* collects envelopes with `wait_until` or claims results at a round       *)
(* boundary.  Every critical section under a task's core lock is one       *)
(* action; the wait loop, which locks one task at a time, is split there.  *)
(*                                                                         *)
(* A scan over all tasks that only reads statuses is one step: a status    *)
(* that has left Running never returns to it, so the scan agrees with its  *)
(* last read when it says "none running" and with the failing read when    *)
(* not.  Usage, transcripts and wording are left out; an incarnation is    *)
(* the task itself, because registration mints the only one.  The settle   *)
(* observer, called after the critical section, is in TaskDelivery.        *)
(***************************************************************************)
EXTENDS Naturals, FiniteSets, Sequences, SequenceFilter

CONSTANTS Tasks,      \* names
          Outcomes,   \* what a child turn that was not stopped reports, and
                      \* the status of a record that is rehydrated
          MaxLive,    \* max_live of the pool
          MaxUpdates  \* bound: subagent_update messages per task

ASSUME PoolAssumption ==
  /\ IsFiniteSet(Tasks)
  /\ Outcomes \subseteq {"Idle", "Failed", "Stopped", "RoundLimit"} /\ Outcomes # {}
  /\ MaxLive \in Nat \ {0}
  /\ MaxUpdates \in Nat

VARIABLES agents,   \* AgentShared per name
          retired,  \* the owner is deleted
          closing,  \* await_quiescence of a private pool
          wait,     \* the owner's wait_until call, its locals
          claimed   \* envelopes handed to the owner's thread, per task

vars == <<agents, retired, closing, wait, claimed>>

Settled == Outcomes \cup {"Failed", "Stopped", "Interrupted"}

\* An update is its number; only the order per task is kept by the code.
Result == 0
Envelope == 0..MaxUpdates
NoEnvelopes == [t \in Tasks |-> <<>>]

AgentShared ==
  [status : {"Absent", "Running"} \cup Settled,
   worker : {"none", "starting", "turn", "gone"},
   updates : 0..MaxUpdates,
   outbox : Seq(Envelope),
   cancel : BOOLEAN,
   stopped_by_user : BOOLEAN,
   stop_timer : {"none", "armed", "fired"}]

Unregistered ==
  [status |-> "Absent", worker |-> "none", updates |-> 0, outbox |-> <<>>, cancel |-> FALSE,
   stopped_by_user |-> FALSE, stop_timer |-> "none"]

NoWait == [pc |-> "none", watched |-> {}, todo |-> {}, mode |-> "TerminalResult",
           buffered |-> NoEnvelopes, delivered |-> {}, expired |-> FALSE, timed_out |-> FALSE]

Init ==
  /\ agents = [t \in Tasks |-> Unregistered]
  /\ retired = FALSE
  /\ closing = "open"
  /\ wait = NoWait
  /\ claimed = NoEnvelopes

Registered == {t \in Tasks : agents[t].status # "Absent"}
Running(t) == agents[t].status = "Running"
Live == {t \in Tasks : Running(t)}
IsResult(e) == e = Result
Updates == Envelope \ {Result}

HasResult(t) == \E i \in DOMAIN agents[t].outbox : IsResult(agents[t].outbox[i])
HasUndrainedFoldableResults == \E t \in Tasks : HasResult(t)

\* The owner's thread is in a wait, or has left the pool to its teardown.
Waiting == wait.pc \in {"drain", "check", "redrain"}
OwnerFree == ~Waiting /\ closing = "open"

-----------------------------------------------------------------------------
(* Registration and the start of the worker *)

Available(t, st) ==
  /\ agents[t].status = "Absent"
  /\ st = "Running" => Cardinality(Live) < MaxLive

Register(t, st) ==
  /\ OwnerFree
  /\ ~retired
  /\ Available(t, st)
  /\ agents' = [agents EXCEPT ![t].status = st,
                              ![t].worker = IF st = "Running" THEN "starting" ELSE "none"]
  /\ UNCHANGED <<retired, closing, wait, claimed>>

StartWorker(t) ==
  /\ agents[t].worker = "starting"
  /\ agents' = [agents EXCEPT ![t].worker = "turn"]
  /\ UNCHANGED <<retired, closing, wait, claimed>>

\* The owner's stream is closed: the guard settles without an envelope.
StartFails(t) ==
  /\ agents[t].worker = "starting"
  /\ agents' = [agents EXCEPT ![t].worker = "none",
                              ![t].status = IF Running(t) THEN "Interrupted" ELSE @]
  /\ UNCHANGED <<retired, closing, wait, claimed>>

\* adopt_timed_out_shell gives the command back to its call, which stops it;
\* the registration it made stays as it is.
AdoptRefused(t) ==
  /\ agents[t].worker = "starting"
  /\ agents' = [agents EXCEPT ![t].worker = "none"]
  /\ UNCHANGED <<retired, closing, wait, claimed>>

-----------------------------------------------------------------------------
(* The worker *)

\* The status and the one terminal envelope, in one critical section.
Settle(a, st) ==
  [a EXCEPT !.status = st, !.outbox = Append(@, Result)]

PushUpdate(t) ==
  /\ agents[t].worker = "turn"
  /\ agents[t].updates < MaxUpdates
  /\ Running(t)
  /\ LET n == agents[t].updates + 1 IN
       agents' = [agents EXCEPT ![t].updates = n, ![t].outbox = Append(@, n)]
  /\ UNCHANGED <<retired, closing, wait, claimed>>

\* The stop flag was read before the critical section: it may be newer.
TurnStatus(t, st) == st \in Outcomes \/ (st = "Interrupted" /\ agents[t].cancel)

\* Mutant: no incumbent guard, the late turn records itself again.
CompleteTurnAlways(t, st) ==
  /\ agents[t].worker = "turn"
  /\ TurnStatus(t, st)
  /\ agents' = [agents EXCEPT ![t] = [Settle(@, st) EXCEPT !.worker = "gone"]]
  /\ UNCHANGED <<retired, closing, wait, claimed>>

CompleteTurn(t, st) ==
  /\ agents[t].worker = "turn"
  /\ TurnStatus(t, st)
  /\ agents' = [agents EXCEPT ![t] =
                  [(IF Running(t) THEN Settle(@, st) ELSE @) EXCEPT !.worker = "gone"]]
  /\ UNCHANGED <<retired, closing, wait, claimed>>

WorkerPanic(t) ==
  /\ agents[t].worker = "turn"
  /\ agents' = [agents EXCEPT ![t] =
                  [(IF Running(t) THEN Settle(@, "Failed") ELSE @) EXCEPT !.worker = "gone"]]
  /\ UNCHANGED <<retired, closing, wait, claimed>>

-----------------------------------------------------------------------------
(* Stopping *)

SettleCancelled(a) ==
  IF a.status = "Running" /\ a.cancel THEN Settle(a, "Stopped") ELSE a

\* Mutant: a task whose flag is already set is left to its first request.
StopTaskIfFirst(t) ==
  /\ Running(t)
  /\ agents' = [agents EXCEPT ![t].stopped_by_user = TRUE, ![t].cancel = TRUE,
                              ![t].stop_timer = IF agents[t].cancel THEN @ ELSE "armed"]
  /\ UNCHANGED <<retired, closing, wait, claimed>>

\* The sidebar's stop: one grace timer per task.
StopTask(t) ==
  /\ Running(t)
  /\ agents' = [agents EXCEPT ![t].stopped_by_user = TRUE, ![t].cancel = TRUE,
                              ![t].stop_timer = IF @ = "none" THEN "armed" ELSE @]
  /\ UNCHANGED <<retired, closing, wait, claimed>>

\* The timer expires, or its thread could not be started.
StopTimer(t) ==
  /\ agents[t].stop_timer = "armed"
  /\ agents' = [agents EXCEPT ![t] = [SettleCancelled(@) EXCEPT !.stop_timer = "fired"]]
  /\ UNCHANGED <<retired, closing, wait, claimed>>

\* The workflow driver skips a step or drops a race loser: no timer.
RequestStop(t) ==
  /\ t \in Registered
  /\ agents' = [agents EXCEPT ![t].cancel = TRUE]
  /\ UNCHANGED <<retired, closing, wait, claimed>>

CancelAll == [t \in Tasks |-> IF t \in Registered THEN [agents[t] EXCEPT !.cancel = TRUE] ELSE agents[t]]

Retire ==
  /\ ~retired
  /\ retired' = TRUE
  /\ agents' = CancelAll
  /\ UNCHANGED <<closing, wait, claimed>>

\* The end of a child run: its private pool is cancelled and waited for.
AwaitQuiescence ==
  /\ OwnerFree
  /\ closing' = "closing"
  /\ agents' = CancelAll
  /\ UNCHANGED <<retired, wait, claimed>>

QuiescenceReached ==
  /\ closing = "closing"
  /\ Live = {}
  /\ closing' = "closed"
  /\ UNCHANGED <<agents, retired, wait, claimed>>

QuiescenceDeadline ==
  /\ closing = "closing"
  /\ Live # {}
  /\ closing' = "closed"
  /\ agents' = [t \in Tasks |-> SettleCancelled(CancelAll[t])]
  /\ UNCHANGED <<retired, wait, claimed>>

-----------------------------------------------------------------------------
(* wait_until, on the owner's thread *)

WaitStart(ws, mode) ==
  /\ OwnerFree
  /\ wait' = [NoWait EXCEPT !.pc = "drain", !.watched = ws, !.todo = ws, !.mode = mode]
  /\ UNCHANGED <<agents, retired, closing, claimed>>

\* drain_outbox of one watched task, in either of the two passes.
Drain(t) ==
  /\ t \in wait.todo
  /\ agents' = [agents EXCEPT ![t].outbox = <<>>]
  /\ wait' = [wait EXCEPT !.todo = @ \ {t}, !.buffered[t] = @ \o agents[t].outbox,
                          !.delivered = IF HasResult(t) THEN @ \cup {t} ELSE @]
  /\ UNCHANGED <<retired, closing, claimed>>

Settles ==
  IF wait.mode = "AnyActivity"
  THEN wait.buffered # NoEnvelopes
  ELSE \A t \in wait.watched : t \in wait.delivered \/ ~Running(t)

\* WaitOutcome: the guard is emptied into it.
Return(w, timed_out) ==
  /\ claimed' = [t \in Tasks |-> claimed[t] \o w.buffered[t]]
  /\ wait' = [NoWait EXCEPT !.pc = "returned", !.watched = w.watched, !.mode = w.mode,
                            !.timed_out = timed_out]

\* Mutant: the settled wait returns what the first pass drained.
WaitTestReturnsAtOnce ==
  /\ wait.pc = "drain" /\ wait.todo = {}
  /\ IF Settles THEN Return(wait, FALSE)
     ELSE wait' = [wait EXCEPT !.pc = "check"] /\ UNCHANGED claimed
  /\ UNCHANGED <<agents, retired, closing>>

WaitTest ==
  /\ wait.pc = "drain" /\ wait.todo = {}
  /\ IF ~Settles THEN wait' = [wait EXCEPT !.pc = "check"] /\ UNCHANGED claimed
     ELSE IF wait.mode = "AnyActivity" THEN Return(wait, FALSE)
     ELSE wait' = [wait EXCEPT !.pc = "redrain", !.todo = wait.watched] /\ UNCHANGED claimed
  /\ UNCHANGED <<agents, retired, closing>>

NoneRunning == \A t \in wait.watched : ~Running(t)

WaitIdle ==
  /\ wait.pc = "check" /\ NoneRunning
  /\ wait' = [wait EXCEPT !.pc = "redrain", !.todo = wait.watched]
  /\ UNCHANGED <<agents, retired, closing, claimed>>

WaitReturn ==
  /\ wait.pc = "redrain" /\ wait.todo = {}
  /\ Return(wait, FALSE)
  /\ UNCHANGED <<agents, retired, closing>>

\* The absolute deadline passes.
Clock ==
  /\ Waiting /\ ~wait.expired
  /\ wait' = [wait EXCEPT !.expired = TRUE]
  /\ UNCHANGED <<agents, retired, closing, claimed>>

WaitExpire ==
  /\ wait.pc = "check" /\ ~NoneRunning /\ wait.expired
  /\ Return(wait, TRUE)
  /\ UNCHANGED <<agents, retired, closing>>

\* Mutant: every iteration restarts the budget.
WaitHeartbeatRestarts ==
  /\ wait.pc = "check" /\ ~NoneRunning
  /\ wait' = [wait EXCEPT !.pc = "drain", !.todo = wait.watched, !.expired = FALSE]
  /\ UNCHANGED <<agents, retired, closing, claimed>>

\* The heartbeat reached the renderer; the poll interval passes.
WaitHeartbeat ==
  /\ wait.pc = "check" /\ ~NoneRunning /\ ~wait.expired
  /\ wait' = [wait EXCEPT !.pc = "drain", !.todo = wait.watched]
  /\ UNCHANGED <<agents, retired, closing, claimed>>

\* Mutant: restored envelopes go behind what the task produced since.
RestoreBehind(t) == agents[t].outbox \o wait.buffered[t]

Restore(t) == wait.buffered[t] \o agents[t].outbox

\* The heartbeat failed or panicked: BufferedEnvelopes gives everything back.
WaitAbort ==
  /\ wait.pc = "check" /\ ~NoneRunning /\ ~wait.expired
  /\ agents' = [t \in Tasks |-> [agents[t] EXCEPT !.outbox = Restore(t)]]
  /\ wait' = NoWait
  /\ UNCHANGED <<retired, closing, claimed>>

\* The other claim, at a round boundary: results only, updates stay.
TakeUndeliveredResults ==
  /\ OwnerFree
  /\ HasUndrainedFoldableResults
  /\ agents' = [t \in Tasks |->
       [agents[t] EXCEPT !.outbox = Keep(@, Updates)]]
  /\ claimed' = [t \in Tasks |-> claimed[t] \o Keep(agents[t].outbox, {Result})]
  /\ UNCHANGED <<retired, closing, wait>>

-----------------------------------------------------------------------------
Work(t) ==
  \/ StartWorker(t)
  \/ StartFails(t)
  \/ AdoptRefused(t)
  \/ PushUpdate(t)
  \/ \E st \in Settled : CompleteTurn(t, st)
  \/ WorkerPanic(t)

WaitStep ==
  \/ \E t \in Tasks : Drain(t)
  \/ WaitTest
  \/ WaitIdle
  \/ WaitReturn
  \/ WaitExpire
  \/ WaitHeartbeat

Next ==
  \/ \E t \in Tasks : \/ \E st \in {"Running"} \cup Outcomes : Register(t, st)
                      \/ Work(t)
                      \/ StopTask(t)
                      \/ StopTimer(t)
                      \/ RequestStop(t)
  \/ Retire
  \/ AwaitQuiescence \/ QuiescenceReached \/ QuiescenceDeadline
  \/ \E ws \in (SUBSET Registered) \ {{}}, mode \in {"AnyActivity", "TerminalResult"} :
       WaitStart(ws, mode)
  \/ WaitStep
  \/ Clock
  \/ WaitAbort
  \/ TakeUndeliveredResults

Spec == Init /\ [][Next]_vars

-----------------------------------------------------------------------------
(* Properties *)

\* Types, and a buffer that holds nothing outside a wait.
TypeOK ==
  /\ agents \in [Tasks -> AgentShared]
  /\ retired \in BOOLEAN
  /\ closing \in {"open", "closing", "closed"}
  /\ wait \in [pc : {"none", "drain", "check", "redrain", "returned"}, watched : SUBSET Tasks,
               todo : SUBSET Tasks, mode : {"AnyActivity", "TerminalResult"},
               buffered : [Tasks -> Seq(Envelope)], delivered : SUBSET Tasks,
               expired : BOOLEAN, timed_out : BOOLEAN]
  /\ ~Waiting => wait.buffered = NoEnvelopes /\ wait.todo = {}
  /\ claimed \in [Tasks -> Seq(Envelope)]

\* Everything a task has emitted, wherever it is now, oldest first.
Emitted(t) == claimed[t] \o wait.buffered[t] \o agents[t].outbox
Results(t) == Keep(Emitted(t), {Result})

\* What a task emits reaches its owner once each: one terminal result if it
\* ran, none before it settles, and its progress updates in the order they were
\* written with the result behind them while unclaimed.  Neither the drain of a
\* wait, its abort (which puts drained envelopes back), the claim at a round
\* boundary, a forced stop nor the late return of a stopped worker breaks it.
EnvelopesOnceInOrder ==
  \A t \in Tasks :
    LET pending == wait.buffered[t] \o agents[t].outbox IN
    /\ Len(Results(t)) <= 1
    /\ agents[t].status \in {"Absent", "Running"} => Results(t) = <<>>
    /\ ~Running(t) /\ agents[t].worker \in {"turn", "gone"} => Len(Results(t)) = 1
    /\ Keep(Emitted(t), Updates) = [n \in 1..agents[t].updates |-> n]
    /\ \A i \in DOMAIN pending : IsResult(pending[i]) => i = Len(pending)

\* A task_wait that did not time out leaves no watched task running and none
\* of their results behind, although statuses and outboxes are read apart.
WaitCollectsEverything ==
  wait.pc = "returned" /\ wait.mode = "TerminalResult" /\ ~wait.timed_out =>
    \A t \in wait.watched : ~Running(t) /\ ~HasResult(t)

\* start_registered_agent_worker on a registration whose worker cannot start:
\* it becomes terminal instead of a Running entry that has no worker.  It does
\* not hold: AdoptRefused leaves one (README, Observations).
NoPhantomTask == \A t \in Tasks : Running(t) => agents[t].worker \in {"starting", "turn"}

\* A task the user stops leaves Running even if its worker never returns and
\* even if the host had asked it to stop before.
UserStopSettles ==
  \A t \in Tasks : agents[t].stopped_by_user ~> ~Running(t)

\* Every wait ends, whatever the tasks do.
WaitEnds == Waiting ~> ~Waiting
=============================================================================
