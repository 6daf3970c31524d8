------------------------------ MODULE TaskWake ------------------------------
(***************************************************************************)
(* The renderer's half of the wake protocol for the conversation on screen *)
(* (App.tsx, lib/sendPipeline.ts): a TaskSettled event becomes a record,   *)
(* an effect turns the record into a run without a user message unless a   *)
(* run or a queued message consumes it, and a reload adopts the runs whose *)
(* streams the hub has, and rescans.                                       *)
(* The renderer is one thread; the host's steps interleave with it.        *)
(***************************************************************************)
EXTENDS TaskDelivery

VARIABLES stream,    \* the hub's stream: a run's begins some time after it is
                     \* registered, and is settled some time after it is not
          renderer,  \* the flags of this conversation in the renderer
          swallowed  \* history: since the last run or reload, a wake was
                     \* consumed while the host had no run

wvars == <<dvars, stream, renderer, swallowed>>

Streams == {"none", "running", "ended", "settled"}

Renderer ==
  [adopted : BOOLEAN,                             \* resumableRunsAdopted
   rescan : BOOLEAN,                              \* list_wake_pending_conversations is due
   wake : BOOLEAN,                                \* pendingWakeConversationsRef
   queued : BOOLEAN,                              \* queuedMessages is not empty
   preparing : {"no", "wake", "send", "queue"},   \* preparing run, and for what
   run : {"no", "own", "adopted", "spent"}]       \* run token: of which run; spent: refused or over

Loaded == [adopted |-> TRUE, rescan |-> FALSE, wake |-> FALSE,
           queued |-> FALSE, preparing |-> "no", run |-> "no"]

WakeInit ==
  /\ DeliveryInit
  /\ stream = "none"
  /\ renderer = Loaded
  /\ swallowed = FALSE

TaskSettledArrives ==
  /\ TakePushEvent
  /\ renderer' = [renderer EXCEPT !.wake = TRUE]
  /\ UNCHANGED <<stream, swallowed>>

-----------------------------------------------------------------------------
(* The page *)

\* A run the renderer has a token of, or a queued message, stands in for the wake.
StandsIn == renderer.run # "no" \/ renderer.queued

\* Mutant: a preparing run consumes the wake as well.
WakeEffectWhilePreparing ==
  /\ renderer.adopted /\ renderer.wake
  /\ renderer' = [renderer EXCEPT !.wake = FALSE,
                     !.preparing = IF ~StandsIn /\ @ = "no" THEN "wake" ELSE @]
  /\ swallowed' = (swallowed \/ (StandsIn /\ run = "none"))
  /\ UNCHANGED <<dvars, stream>>

\* wakeConversation, up to its first await: what stands in for the wake consumes
\* it, a run that is merely preparing leaves it.  The effect that calls it reruns
\* with every change of the document and of the runs: at any time.
WakeEffect ==
  /\ renderer.adopted /\ renderer.wake
  /\ StandsIn \/ renderer.preparing = "no"
  /\ renderer' = [renderer EXCEPT !.wake = FALSE, !.preparing = IF StandsIn THEN @ ELSE "wake"]
  /\ swallowed' = (swallowed \/ (StandsIn /\ run = "none"))
  /\ UNCHANGED <<dvars, stream>>

Unoccupied == renderer.adopted /\ renderer.run = "no" /\ renderer.preparing = "no"

UserSend ==
  /\ Unoccupied /\ ~renderer.queued
  /\ renderer' = [renderer EXCEPT !.preparing = "send"]
  /\ UNCHANGED <<dvars, stream, swallowed>>

\* The composer queues behind a run.
UserQueues ==
  /\ renderer.run # "no"
  /\ renderer' = [renderer EXCEPT !.queued = TRUE]
  /\ UNCHANGED <<dvars, stream, swallowed>>

\* The last message is deleted, or was steered into a run.
QueueEmpties ==
  /\ renderer.queued
  /\ renderer' = [renderer EXCEPT !.queued = FALSE]
  /\ UNCHANGED <<dvars, stream, swallowed>>

\* By the queue effect, or by the user for a message whose promotion has failed
\* and which the effect passes over (failedQueuedPromotionIds).
DispatchNextQueuedMessage ==
  /\ Unoccupied /\ renderer.queued
  /\ renderer' = [renderer EXCEPT !.preparing = "queue"]
  /\ UNCHANGED <<dvars, stream, swallowed>>

\* The document could not be flushed, or the promotion of a message was rolled
\* back; a wake is put back without a signal.
PrepareFails ==
  /\ renderer.preparing # "no"
  /\ renderer' = [renderer EXCEPT !.preparing = "no", !.wake = @ \/ renderer.preparing = "wake"]
  /\ UNCHANGED <<dvars, stream, swallowed>>

\* The token is set and the host is asked for a run; it refuses a second one.
PerformModelRun ==
  /\ renderer.preparing # "no"
  /\ InvokeRunModel \/ (Active /\ UNCHANGED dvars)
  /\ \E more \in BOOLEAN :
       renderer' = [renderer EXCEPT !.preparing = "no",
                                    !.queued = @ /\ (renderer.preparing = "queue" => more),
                                    !.run = IF Active THEN "spent" ELSE "own"]
  /\ UNCHANGED <<stream, swallowed>>

RunRefused ==
  /\ RefuseModelRun
  /\ swallowed' = TRUE
  /\ renderer' = [renderer EXCEPT !.run = IF @ = "own" THEN "spent" ELSE @]
  /\ UNCHANGED stream

\* The invocation returns after the recheck; an adopted run is concluded by the
\* hub, which settles before it; a refusal or a claimed settlement is all there is.
RunResolves ==
  /\ \/ renderer.run = "own" /\ run = "none" /\ ~recheck
     \/ renderer.run = "adopted" /\ stream = "settled"
     \/ renderer.run = "spent"
  /\ renderer' = [renderer EXCEPT !.run = "no"]
  /\ stream' = IF renderer.run = "adopted" THEN "none" ELSE stream
  /\ UNCHANGED <<dvars, swallowed>>

\* The event in flight goes to the page that is gone; the queue is in the document.
Reload ==
  /\ renderer.adopted
  /\ renderer' = [Loaded EXCEPT !.adopted = FALSE, !.rescan = TRUE, !.queued = renderer.queued]
  /\ pushed' = FALSE /\ swallowed' = FALSE
  /\ UNCHANGED <<vars, host, observing, announced, stream>>

\* The channel is stale or the backlog overflows before the new page listens.
TaskSettledLost ==
  /\ ~renderer.adopted
  /\ TakePushEvent
  /\ UNCHANGED <<stream, renderer, swallowed>>

\* list_resumable_runs knows streams, not registrations: a run without one is
\* missed, and the settlement of one that is over is claimed.
AdoptResumableRuns ==
  /\ ~renderer.adopted
  /\ renderer' = [renderer EXCEPT !.adopted = TRUE,
                     !.run = CASE stream = "none" -> "no"
                               [] stream = "settled" -> "spent"
                               [] OTHER -> "adopted"]
  /\ stream' = IF stream = "settled" THEN "none" ELSE stream
  /\ UNCHANGED <<dvars, swallowed>>

WakePendingConversations ==
  /\ renderer.adopted /\ renderer.rescan
  /\ LET due == ~retired /\ HasUndrainedFoldableResults /\ ~Active IN
       renderer' = [renderer EXCEPT !.rescan = FALSE, !.wake = @ \/ due]
  /\ UNCHANGED <<dvars, stream, swallowed>>

RendererStep ==
  \/ TaskSettledArrives
  \/ WakeEffect
  \/ UserSend
  \/ UserQueues
  \/ QueueEmpties
  \/ DispatchNextQueuedMessage
  \/ PrepareFails
  \/ PerformModelRun
  \/ RunRefused
  \/ RunResolves
  \/ Reload
  \/ TaskSettledLost
  \/ AdoptResumableRuns
  \/ WakePendingConversations

-----------------------------------------------------------------------------
(* The host *)

HostStep ==
  \/ \E t \in Tasks : TaskStep(t) \/ SettleObserver(t)
  \/ RetireConversationTasks
  \/ RunStep

\* run_model: no round before the stream, no recheck before its settlement.  A
\* run that ends early has no stream; the one of an earlier run stays.
StreamFollows ==
  /\ run = "head" /\ run' = "round" => stream = "running"
  /\ recheck /\ ~recheck' => stream # "ended"
  /\ stream' = IF run = "exit" /\ run' = "none" /\ stream = "running" THEN "ended" ELSE stream

StreamBegins ==
  /\ run = "head" /\ stream # "running"
  /\ stream' = "running"
  /\ UNCHANGED dvars

StreamSettles ==
  /\ stream = "ended"
  /\ stream' = "settled"
  /\ UNCHANGED dvars

RendererUnaware ==
  /\ UNCHANGED renderer
  /\ swallowed' = (swallowed /\ run' # "head")

WakeNext ==
  \/ RendererStep
  \/ HostStep /\ StreamFollows /\ RendererUnaware
  \/ (StreamBegins \/ StreamSettles) /\ RendererUnaware

WakeSpec == WakeInit /\ [][WakeNext]_wvars

\* The run's thread and the clock go on while it waits, and a grace timer ends.
\* Nothing is assumed of a worker, which may block in a native call for ever,
\* nor of the renderer.
WakeFairSpec ==
  /\ WakeSpec
  /\ WF_wvars((TaskWaitStep \/ TaskWaitAborts) /\ StreamFollows /\ RendererUnaware)
  /\ WF_wvars(TaskWaitClock /\ StreamFollows /\ RendererUnaware)
  /\ \A t \in Tasks : WF_wvars(TimerStep(t) /\ StreamFollows /\ RendererUnaware)

-----------------------------------------------------------------------------
(* Properties *)

\* Nothing is under way any more on either side.
Idle ==
  /\ run = "none" /\ ~recheck /\ observing = {} /\ ~pushed
  /\ renderer.adopted /\ ~renderer.rescan /\ ~renderer.wake
  /\ renderer.preparing = "no" /\ renderer.run = "no"

\* The wake protocol as a whole (the header of wakeConversation: a wake is
\* consumed by a run or a queue that delivers the result): once nothing is under
\* way and no message is queued, no result of a living conversation is left in
\* an outbox.
NoStrandedResult == Idle /\ ~renderer.queued /\ ~retired => ~HasUndrainedFoldableResults

\* The only ways a wake is lost: the effect consumed it while the host had no
\* run, for the token of a run that was over or refused, or for a queued message
\* whose promotion brings no run; or the host refused a run before it was
\* registered.  Failed preparations, reloads that miss a run without a stream,
\* second invocations beside such a run, lost events and rescans that race a
\* settling task lose none.
StrandedOnlyBySwallow == Idle /\ ~retired /\ HasUndrainedFoldableResults => swallowed
=============================================================================
