------------------------------ MODULE RunStream ------------------------------
(***************************************************************************)
(* The hub that owns the stream of one conversation's runs (run_stream.rs),*)
(* the order in which run_model (lib.rs) registers, begins, finishes and   *)
(* settles a run, and the renderer page that starts or adopts runs         *)
(* (lib/sendPipeline.ts).  A reload replaces the page; channels of the old *)
(* page are dead, and a send to one fails or vanishes.                     *)
(***************************************************************************)
EXTENDS Naturals, Sequences, SequencesExt

CONSTANTS Runs,        \* request ids, each used once
          MaxEvents,   \* bound: events per run
          MaxReloads,  \* bound: reloads
          MaxBuffered, \* MAX_BUFFERED_EVENTS
          MaxMerged    \* DELTA_MERGE_LIMIT, in deltas

ASSUME RunStreamAssumption ==
  /\ MaxEvents \in Nat /\ MaxReloads \in Nat
  /\ MaxBuffered \in Nat \ {0} /\ MaxMerged \in Nat \ {0}

None == "none"
ASSUME NoneIsNoRun == None \notin Runs

VARIABLES registry,  \* the run in AppState::model_runs
          worker,    \* where run_model is, per run
          invoker,   \* the page that invoked it
          sent,      \* history: events published per run
          stream,    \* the ConversationStream of the hub
          page,      \* number of the live page
          adoption,  \* "due" until adoptResumableRuns has resolved
          token,     \* the run the page knows of, and how it came to
          view       \* what the page received of that run

svars == <<registry, worker, invoker, sent, stream, page, adoption, token, view>>

\* An event is <<run, number>>; a buffered element holds one or several.
Marker(r) == <<r, 0>>
NoStream == [run |-> None, buffer |-> <<>>, subscriber |-> 0, settled |-> FALSE]
NoToken == [run |-> None, by |-> "none"]
NoView == <<>>

StreamInit ==
  /\ registry = None
  /\ worker = [r \in Runs |-> "idle"]
  /\ invoker = [r \in Runs |-> 0]
  /\ sent = [r \in Runs |-> 0]
  /\ stream = NoStream
  /\ page = 1 /\ adoption = "done"
  /\ token = NoToken /\ view = NoView

-----------------------------------------------------------------------------
(* The buffer *)

Mergeable(b, kind) ==
  /\ b # <<>> /\ kind = "delta"
  /\ Last(b).kind = "delta" /\ Len(Last(b).events) < MaxMerged

\* EventBuffer::push: merge into the last delta, or append and evict the oldest.
Push(b, kind, e) ==
  IF Mergeable(b, kind) THEN [b EXCEPT ![Len(b)].events = Append(@, e)]
  ELSE LET longer == Append(b, [kind |-> kind, events |-> <<e>>])
       IN IF Len(longer) > MaxBuffered THEN Tail(longer) ELSE longer

\* The events a replay of the buffer delivers.
Replay(b) == FlattenSeq([i \in DOMAIN b |-> b[i].events])

\* Buffer, then try the subscriber: a dead channel fails or swallows.
Deliver(s, kind, e) ==
  /\ stream' \in {[s EXCEPT !.buffer = Push(@, kind, e), !.subscriber = sub] :
                    sub \in IF s.subscriber = page THEN {page} ELSE {s.subscriber, 0}}
  /\ view' = IF s.subscriber = page THEN Append(view, e) ELSE view

-----------------------------------------------------------------------------
(* run_model *)

Invoke(r) ==
  /\ adoption = "done" /\ token = NoToken
  /\ worker[r] = "idle"
  /\ worker' = [worker EXCEPT ![r] = "invoked"]
  /\ invoker' = [invoker EXCEPT ![r] = page]
  /\ token' = [run |-> r, by |-> "invoke"]
  /\ view' = NoView
  /\ UNCHANGED <<registry, sent, stream, page, adoption>>

\* begin_model_run; a conversation has one run at a time.
RegisterRun(r) ==
  /\ worker[r] = "invoked"
  /\ IF registry = None
     THEN registry' = r /\ worker' = [worker EXCEPT ![r] = "registered"]
     ELSE worker' = [worker EXCEPT ![r] = "over"] /\ UNCHANGED registry
  /\ UNCHANGED <<invoker, sent, stream, page, adoption, token, view>>

\* RunStreamHub::begin, after trust, memory and the hook dialog; it replaces
\* whatever stream the conversation had, an unclaimed settlement included.
Begin(r) ==
  /\ worker[r] = "registered"
  /\ worker' = [worker EXCEPT ![r] = "begun"]
  /\ stream' = [NoStream EXCEPT !.run = r, !.subscriber = invoker[r]]
  /\ UNCHANGED <<registry, invoker, sent, page, adoption, token, view>>

\* Trust, memory, the hooks, a stop or the fork start refuses the run.
StartFails(r) ==
  /\ worker[r] = "registered"
  /\ worker' = [worker EXCEPT ![r] = "over"]
  /\ registry' = None
  /\ UNCHANGED <<invoker, sent, stream, page, adoption, token, view>>

\* accept_fork_start committed, or the commit failed and the stream is discarded.
Accepted(r) ==
  /\ worker[r] = "begun"
  /\ worker' = [worker EXCEPT ![r] = "live"]
  /\ UNCHANGED <<registry, invoker, sent, stream, page, adoption, token, view>>

Discard(r) ==
  /\ worker[r] = "begun"
  /\ worker' = [worker EXCEPT ![r] = "over"]
  /\ registry' = None
  /\ stream' = IF stream.run = r THEN NoStream ELSE stream
  /\ UNCHANGED <<invoker, sent, page, adoption, token, view>>

\* The run's sink, or a task of the conversation through publish_live.
Publish(r, kind) ==
  /\ worker[r] = "live"
  /\ sent[r] < MaxEvents
  /\ sent' = [sent EXCEPT ![r] = @ + 1]
  /\ Deliver(stream, kind, <<r, sent[r] + 1>>)
  /\ UNCHANGED <<registry, worker, invoker, page, adoption, token>>

PublishLive ==
  /\ stream.run # None /\ ~stream.settled
  /\ sent[stream.run] < MaxEvents
  /\ sent' = [sent EXCEPT ![stream.run] = @ + 1]
  /\ Deliver(stream, "card", <<stream.run, sent[stream.run] + 1>>)
  /\ UNCHANGED <<registry, worker, invoker, page, adoption, token>>

FinishModelRun(r) ==
  /\ worker[r] = "live"
  /\ worker' = [worker EXCEPT ![r] = "finished"]
  /\ registry' = None
  /\ UNCHANGED <<invoker, sent, stream, page, adoption, token, view>>

\* Mutant: the settlement goes to whatever stream the conversation has.
SettleAnyStream(r) ==
  /\ worker[r] = "finished"
  /\ worker' = [worker EXCEPT ![r] = "over"]
  /\ IF stream.run # None
     THEN Deliver([stream EXCEPT !.settled = TRUE], "card", Marker(stream.run))
     ELSE UNCHANGED <<stream, view>>
  /\ UNCHANGED <<registry, invoker, sent, page, adoption, token>>

\* Mutant: the settlement is recorded but the marker only buffered.
SettleSilently(r) ==
  /\ worker[r] = "finished"
  /\ worker' = [worker EXCEPT ![r] = "over"]
  /\ stream' = IF stream.run # r THEN stream
               ELSE [stream EXCEPT !.settled = TRUE, !.buffer = Push(@, "card", Marker(r))]
  /\ UNCHANGED <<registry, invoker, sent, page, adoption, token, view>>

\* settle: settlement and marker under one lock; a later run may have replaced
\* the stream in the meantime.
SettleStream(r) ==
  /\ worker[r] = "finished"
  /\ worker' = [worker EXCEPT ![r] = "over"]
  /\ IF stream.run = r
     THEN Deliver([stream EXCEPT !.settled = TRUE], "card", Marker(r))
     ELSE UNCHANGED <<stream, view>>
  /\ UNCHANGED <<registry, invoker, sent, page, adoption, token>>

-----------------------------------------------------------------------------
(* The page *)

\* The promise of the invocation, or of a claimed settlement, resolves; after
\* an invocation the hub keeps the settlement.
TurnEnds ==
  /\ \/ token.by = "invoke" /\ worker[token.run] = "over"
     \/ token.by = "claim"
  /\ token' = NoToken /\ view' = NoView
  /\ UNCHANGED <<registry, worker, invoker, sent, stream, page, adoption>>

Reload ==
  /\ page <= MaxReloads
  /\ page' = page + 1
  /\ adoption' = "due"
  /\ token' = NoToken /\ view' = NoView
  /\ UNCHANGED <<registry, worker, invoker, sent, stream>>

\* Mutant: the subscription is installed without the replay.
AttachWithoutReplay ==
  /\ adoption = "due"
  /\ stream.run # None /\ ~stream.settled
  /\ stream' = [stream EXCEPT !.subscriber = page]
  /\ token' = [run |-> stream.run, by |-> "adopt"]
  /\ view' = NoView
  /\ adoption' = "done"
  /\ UNCHANGED <<registry, worker, invoker, sent, page>>

\* attach to a running stream: replay and subscription under one lock.
AttachRunning ==
  /\ adoption = "due"
  /\ stream.run # None /\ ~stream.settled
  /\ stream' = [stream EXCEPT !.subscriber = page]
  /\ token' = [run |-> stream.run, by |-> "adopt"]
  /\ view' = Replay(stream.buffer)
  /\ adoption' = "done"
  /\ UNCHANGED <<registry, worker, invoker, sent, page>>

\* attach to a settled stream claims the settlement.
AttachFinished ==
  /\ adoption = "due"
  /\ stream.settled
  /\ token' = [run |-> stream.run, by |-> "claim"]
  /\ stream' = NoStream
  /\ adoption' = "done"
  /\ UNCHANGED <<registry, worker, invoker, sent, page, view>>

\* list returned nothing for this conversation.
NothingToAdopt ==
  /\ adoption = "due"
  /\ stream.run = None
  /\ adoption' = "done"
  /\ UNCHANGED <<registry, worker, invoker, sent, stream, page, token, view>>

\* run_concluded reached an adopted run: take_settlement, then the turn ends.
TakeSettlement ==
  /\ token.by = "adopt" /\ Contains(view, Marker(token.run))
  /\ stream' = IF stream.settled THEN NoStream ELSE stream
  /\ token' = NoToken /\ view' = NoView
  /\ UNCHANGED <<registry, worker, invoker, sent, page, adoption>>

-----------------------------------------------------------------------------
RunStep(r) ==
  \/ RegisterRun(r)
  \/ Begin(r)
  \/ StartFails(r)
  \/ Accepted(r)
  \/ Discard(r)
  \/ FinishModelRun(r)
  \/ SettleStream(r)

PageStep ==
  \/ TurnEnds
  \/ AttachRunning
  \/ AttachFinished
  \/ NothingToAdopt
  \/ TakeSettlement

StreamNext ==
  \/ \E r \in Runs : Invoke(r) \/ RunStep(r) \/ \E kind \in {"delta", "card"} : Publish(r, kind)
  \/ PublishLive
  \/ PageStep
  \/ Reload

StreamSpec == StreamInit /\ [][StreamNext]_svars

\* A run ends by itself or is stopped, and the page's promises are served.
StreamFairSpec == StreamSpec /\ WF_svars(PageStep) /\ \A r \in Runs : WF_svars(RunStep(r))

-----------------------------------------------------------------------------
(* Properties *)

\* Everything published on the current stream, its conclusion included.
Published ==
  [n \in 1..sent[stream.run] |-> <<stream.run, n>>]
    \o IF stream.settled THEN <<Marker(stream.run)>> ELSE <<>>

\* A stream holds events of its own run only, in the order they were published
\* and with the conclusion last, although merging and eviction shorten it and
\* tasks of the conversation publish beside the run; and the page that follows
\* the run has everything the hub still holds, with nothing missed or repeated
\* between the replay and the live delivery (EventBuffer::push, attach).
NothingMissed ==
  stream.run # None =>
    /\ IsSuffix(Replay(stream.buffer), Published)
    /\ token.run = stream.run /\ stream.subscriber = page =>
         IsSuffix(Replay(stream.buffer), view) /\ IsSuffix(view, Published)

\* A stream is concluded only when its own run is over: the late settlement of
\* an earlier run never concludes the stream that replaced its own (settle).
ConcludedIsOver == stream.settled => worker[stream.run] = "over"

\* A page that follows a run is told of its end, as long as no other run takes
\* the conversation's stream (settle, take_settlement, adoptConversationRun).
FollowedToTheEnd ==
  \A r \in Runs :
    token.run = r /\ stream.run = r ~> token.run # r \/ stream.run # r

\* sendPipeline.ts on adoptResumableRuns: once it has resolved, every live host
\* run is visible in the controller, so that guards requiring no run hold.
\* It does not hold: see the observations of the README.
AdoptionSeesEveryRun == adoption = "done" /\ registry # None => token.run # None
=============================================================================
