------------------------- MODULE TaskDeliveryProofs -------------------------
(***************************************************************************)
(* The task pool, the delivery of its results and the wake protocol, for   *)
(* any number of tasks, updates and runs.                                  *)
(*                                                                         *)
(* An outbox is filtered by recursion (Keep); SequenceInduction proves     *)
(* what that does to sequences.  The first part here shows how one step    *)
(* changes one task (Moves) and that the steps of a wait only carry        *)
(* envelopes from place to place.  The invariants of the pool, of the      *)
(* delivery and of the wake follow from these two facts.                   *)
(***************************************************************************)
EXTENDS TaskWake, SequenceInduction

-----------------------------------------------------------------------------
(* One step of the pool, one task *)

\* What a step makes of a task's record: its worker goes on, it is registered,
\* its start is refused, it writes an update, or it settles with its result.
WorkerMoves(a, b) ==
  /\ b.outbox = a.outbox /\ b.updates = a.updates /\ b.status = a.status
  /\ \/ b.worker = a.worker
     \/ a.worker = "starting" /\ b.worker \in {"turn", "none"}
     \/ a.worker = "turn" /\ b.worker = "gone" /\ a.status # "Running"

IsRegistered(a, b) ==
  /\ b.outbox = a.outbox /\ b.updates = a.updates
  /\ a.status = "Absent" /\ b.status # "Absent"
  /\ b.worker = IF b.status = "Running" THEN "starting" ELSE "none"

StartIsRefused(a, b) ==
  /\ b.outbox = a.outbox /\ b.updates = a.updates
  /\ a.status = "Running" /\ a.worker = "starting"
  /\ b.status = "Interrupted" /\ b.worker = "none"

WritesUpdate(a, b) ==
  /\ a.status = "Running" /\ b.status = "Running" /\ b.worker = a.worker
  /\ b.updates = a.updates + 1 /\ b.outbox = Append(a.outbox, b.updates)

SettlesOnce(a, b) ==
  /\ a.status = "Running" /\ b.status \in Settled
  /\ b.worker = a.worker \/ (a.worker = "turn" /\ b.worker = "gone")
  /\ b.updates = a.updates /\ b.outbox = Append(a.outbox, Result)

Moves(a, b) ==
  WorkerMoves(a, b) \/ IsRegistered(a, b) \/ StartIsRefused(a, b) \/ WritesUpdate(a, b) \/ SettlesOnce(a, b)

\* Running is not what a task settles with.
LEMMA SettledStatus ==
  /\ "Running" \notin Settled /\ "Absent" \notin Settled
  /\ "Failed" \in Settled /\ "Stopped" \in Settled /\ "Interrupted" \in Settled
  /\ Outcomes \subseteq Settled
  BY PoolAssumption DEF Settled

\* Envelopes are numbers up to the bound, and 0 is the result.
LEMMA Envelopes ==
  /\ Result \in Envelope /\ \A n \in 0..MaxUpdates : n \in Envelope
  /\ Updates \subseteq Envelope /\ Result \notin Updates
  /\ \A n \in 1..MaxUpdates : n \in Updates /\ n # Result
  /\ Envelope \cap {Result} = {Result} /\ Envelope \cap Updates = Updates
  BY PoolAssumption DEF Envelope, Result, Updates

\* Settling a record, and the forced settling of a cancelled one.
LEMMA SettleRecord ==
  ASSUME NEW a \in AgentShared, NEW st \in Settled
  PROVE  /\ Settle(a, st) \in AgentShared
         /\ Settle(a, st).status = st /\ Settle(a, st).outbox = Append(a.outbox, Result)
         /\ Settle(a, st).worker = a.worker /\ Settle(a, st).updates = a.updates
<1> DEFINE o == Append(a.outbox, Result)
<1>1. o \in Seq(Envelope)
  BY Envelopes DEF AgentShared
<1>2. Settle(a, st) = [a EXCEPT !.status = st, !.outbox = o]
  BY DEF Settle
<1> HIDE DEF o
<1>3. /\ Settle(a, st) \in AgentShared
      /\ Settle(a, st).status = st /\ Settle(a, st).outbox = o
      /\ Settle(a, st).worker = a.worker /\ Settle(a, st).updates = a.updates
  BY <1>1, <1>2 DEF AgentShared
<1> QED  BY <1>3 DEF o

LEMMA SettleCancelledRecord ==
  ASSUME NEW a \in AgentShared
  PROVE  /\ SettleCancelled(a) \in AgentShared
         /\ SettleCancelled(a).worker = a.worker
         /\ SettleCancelled(a) = a \/ SettlesOnce(a, SettleCancelled(a))
<1>1. CASE a.status = "Running" /\ a.cancel
  <2>1. SettleCancelled(a) = Settle(a, "Stopped")
    BY <1>1 DEF SettleCancelled
  <2> QED  BY <1>1, <2>1, SettleRecord, SettledStatus DEF SettlesOnce
<1>2. CASE ~(a.status = "Running" /\ a.cancel)
  <2>1. SettleCancelled(a) = a
    BY <1>2 DEF SettleCancelled
  <2> QED  BY <2>1
<1> QED  BY <1>1, <1>2

\* A record that keeps its worker, status and envelopes has not moved.
LEMMA StandsStill ==
  ASSUME NEW a, NEW b, b.outbox = a.outbox, b.updates = a.updates, b.status = a.status, b.worker = a.worker
  PROVE  Moves(a, b)
  BY DEF Moves, WorkerMoves

\* The steps that leave the owner's wait and its claims alone.
TaskActs(t) ==
  \/ \E st \in {"Running"} \cup Outcomes : Register(t, st)
  \/ Work(t) \/ StopTask(t) \/ StopTimer(t) \/ RequestStop(t)

PoolActs == Retire \/ AwaitQuiescence \/ QuiescenceReached \/ QuiescenceDeadline

AgentsMove ==
  /\ agents' \in [Tasks -> AgentShared]
  /\ \A t \in Tasks : Moves(agents[t], agents'[t])
  /\ UNCHANGED <<wait, claimed>>
  /\ retired' \in BOOLEAN /\ closing' \in {"open", "closing", "closed"}

\* A step that replaces one record by one it may become.
LEMMA OneRecordMoves ==
  ASSUME TypeOK, NEW t \in Tasks, NEW b \in AgentShared, Moves(agents[t], b),
         agents' = [agents EXCEPT ![t] = b], UNCHANGED <<retired, closing, wait, claimed>>
  PROVE  AgentsMove
<1>1. agents' \in [Tasks -> AgentShared]
  BY DEF TypeOK
<1>2. \A s \in Tasks : Moves(agents[s], agents'[s])
  <2>1. \A s \in Tasks \ {t} : agents'[s] = agents[s]
    BY DEF TypeOK
  <2>2. agents'[t] = b
    BY DEF TypeOK
  <2> QED  BY <2>1, <2>2, StandsStill
<1> QED  BY <1>1, <1>2 DEF AgentsMove, TypeOK

LEMMA TaskActsMove ==
  ASSUME TypeOK, NEW t \in Tasks, TaskActs(t)
  PROVE  AgentsMove
<1> DEFINE a == agents[t]
<1>0. a \in AgentShared
  BY DEF TypeOK
<1>1. ASSUME NEW st \in {"Running"} \cup Outcomes, Register(t, st) PROVE AgentsMove
  <2> DEFINE b == [a EXCEPT !.status = st, !.worker = IF st = "Running" THEN "starting" ELSE "none"]
  <2>1. agents' = [agents EXCEPT ![t] = b]
    BY <1>1 DEF Register, TypeOK
  <2>2. b \in AgentShared /\ b.outbox = a.outbox /\ b.updates = a.updates /\ b.status = st
        /\ b.worker = IF st = "Running" THEN "starting" ELSE "none"
    BY <1>0, SettledStatus DEF AgentShared
  <2>3. a.status = "Absent" /\ st # "Absent"
    BY <1>1, SettledStatus DEF Register, Available
  <2> HIDE DEF b
  <2>4. Moves(a, b)
    BY <2>2, <2>3 DEF Moves, IsRegistered
  <2> QED  BY <1>1, <2>1, <2>2, <2>4, OneRecordMoves DEF Register
<1>2. CASE StartWorker(t)
  <2> DEFINE b == [a EXCEPT !.worker = "turn"]
  <2>1. agents' = [agents EXCEPT ![t] = b]
    BY <1>2 DEF StartWorker, TypeOK
  <2>2. b \in AgentShared /\ Moves(a, b)
    BY <1>0, <1>2 DEF AgentShared, Moves, WorkerMoves, StartWorker
  <2> QED  BY <1>2, <2>1, <2>2, OneRecordMoves DEF StartWorker
<1>3. CASE StartFails(t)
  <2> DEFINE b == [a EXCEPT !.worker = "none", !.status = IF Running(t) THEN "Interrupted" ELSE @]
  <2>1. agents' = [agents EXCEPT ![t] = b]
    BY <1>3 DEF StartFails, TypeOK
  <2>2. b \in AgentShared /\ b.outbox = a.outbox /\ b.updates = a.updates /\ b.worker = "none"
        /\ b.status = IF Running(t) THEN "Interrupted" ELSE a.status
    BY <1>0, SettledStatus DEF AgentShared
  <2> HIDE DEF b
  <2>3. Moves(a, b)
    BY <1>3, <2>2 DEF Moves, WorkerMoves, StartIsRefused, StartFails, Running
  <2> QED  BY <1>3, <2>1, <2>2, <2>3, OneRecordMoves DEF StartFails
<1>4. CASE AdoptRefused(t)
  <2> DEFINE b == [a EXCEPT !.worker = "none"]
  <2>1. agents' = [agents EXCEPT ![t] = b]
    BY <1>4 DEF AdoptRefused, TypeOK
  <2>2. b \in AgentShared /\ Moves(a, b)
    BY <1>0, <1>4 DEF AgentShared, Moves, WorkerMoves, AdoptRefused
  <2> QED  BY <1>4, <2>1, <2>2, OneRecordMoves DEF AdoptRefused
<1>5. CASE PushUpdate(t)
  <2> DEFINE n == a.updates + 1
             b == [a EXCEPT !.updates = n, !.outbox = Append(@, n)]
  <2>1. agents' = [agents EXCEPT ![t] = b]
    BY <1>5 DEF PushUpdate, TypeOK
  <2>2. n \in 0..MaxUpdates /\ n \in Envelope
    BY <1>0, <1>5, Envelopes, PoolAssumption DEF PushUpdate, AgentShared
  <2>3. b \in AgentShared /\ b.outbox = Append(a.outbox, n) /\ b.updates = n /\ b.worker = a.worker
        /\ b.status = a.status
    <3> DEFINE o == Append(a.outbox, n)
    <3>1. o \in Seq(Envelope)
      BY <1>0, <2>2 DEF AgentShared
    <3>2. b = [a EXCEPT !.updates = n, !.outbox = o]
      OBVIOUS
    <3> HIDE DEF b, o, n
    <3>3. b \in AgentShared /\ b.outbox = o /\ b.updates = n /\ b.worker = a.worker /\ b.status = a.status
      BY <1>0, <2>2, <3>1, <3>2 DEF AgentShared
    <3> QED  BY <3>3 DEF o
  <2> HIDE DEF b
  <2>4. Moves(a, b)
    BY <1>5, <2>3 DEF Moves, WritesUpdate, PushUpdate, Running
  <2> QED  BY <1>5, <2>1, <2>3, <2>4, OneRecordMoves DEF PushUpdate
<1>6. ASSUME NEW st \in Settled, a.worker = "turn", UNCHANGED <<retired, closing, wait, claimed>>,
             agents' = [agents EXCEPT ![t] =
                          [(IF Running(t) THEN Settle(@, st) ELSE @) EXCEPT !.worker = "gone"]]
      PROVE  AgentsMove
  <2> DEFINE c == IF Running(t) THEN Settle(a, st) ELSE a
             b == [c EXCEPT !.worker = "gone"]
  <2>1. agents' = [agents EXCEPT ![t] = b]
    BY <1>6 DEF TypeOK
  <2>2. c \in AgentShared
    BY <1>0, SettleRecord
  <2>3. b \in AgentShared /\ b.outbox = c.outbox /\ b.updates = c.updates /\ b.status = c.status
        /\ b.worker = "gone"
    <3> HIDE DEF c
    <3> QED  BY <2>2 DEF AgentShared
  <2>4. Moves(a, b)
    <3>1. CASE Running(t)
      <4>1. c.status = st /\ c.outbox = Append(a.outbox, Result) /\ c.updates = a.updates
        BY <1>0, <3>1, SettleRecord
      <4> HIDE DEF b, c
      <4> QED  BY <1>6, <2>3, <3>1, <4>1 DEF Moves, SettlesOnce, Running
    <3>2. CASE ~Running(t)
      <4>1. c = a
        BY <3>2
      <4> HIDE DEF b, c
      <4> QED  BY <1>6, <2>3, <3>2, <4>1 DEF Moves, WorkerMoves, Running
    <3> QED  BY <3>1, <3>2
  <2> HIDE DEF b
  <2> QED  BY <1>6, <2>1, <2>3, <2>4, OneRecordMoves
<1>7. ASSUME NEW st \in Settled, CompleteTurn(t, st) PROVE AgentsMove
  BY <1>6, <1>7 DEF CompleteTurn
<1>8. CASE WorkerPanic(t)
  BY <1>6, <1>8, SettledStatus DEF WorkerPanic
<1>9. CASE StopTask(t)
  <2> DEFINE b == [a EXCEPT !.stopped_by_user = TRUE, !.cancel = TRUE,
                            !.stop_timer = IF @ = "none" THEN "armed" ELSE @]
  <2>1. agents' = [agents EXCEPT ![t] = b]
    BY <1>9 DEF StopTask, TypeOK
  <2>2. b \in AgentShared /\ Moves(a, b)
    BY <1>0 DEF AgentShared, Moves, WorkerMoves
  <2> QED  BY <1>9, <2>1, <2>2, OneRecordMoves DEF StopTask
<1>10. CASE StopTimer(t)
  <2> DEFINE c == SettleCancelled(a)
             b == [c EXCEPT !.stop_timer = "fired"]
  <2>1. agents' = [agents EXCEPT ![t] = b]
    BY <1>10 DEF StopTimer, TypeOK
  <2>2. c \in AgentShared /\ (c = a \/ SettlesOnce(a, c)) /\ c.worker = a.worker
    BY <1>0, SettleCancelledRecord
  <2> HIDE DEF c
  <2>3. b \in AgentShared /\ b.outbox = c.outbox /\ b.updates = c.updates /\ b.status = c.status
        /\ b.worker = c.worker
    BY <2>2 DEF AgentShared
  <2> HIDE DEF b
  <2>4. Moves(a, b)
    BY <2>2, <2>3 DEF Moves, WorkerMoves, SettlesOnce
  <2> QED  BY <1>10, <2>1, <2>3, <2>4, OneRecordMoves DEF StopTimer
<1>11. CASE RequestStop(t)
  <2> DEFINE b == [a EXCEPT !.cancel = TRUE]
  <2>1. agents' = [agents EXCEPT ![t] = b]
    BY <1>11 DEF RequestStop, TypeOK
  <2>2. b \in AgentShared /\ Moves(a, b)
    BY <1>0 DEF AgentShared, Moves, WorkerMoves
  <2> QED  BY <1>11, <2>1, <2>2, OneRecordMoves DEF RequestStop
<1> QED  BY <1>1, <1>2, <1>3, <1>4, <1>5, <1>7, <1>8, <1>9, <1>10, <1>11 DEF TaskActs, Work

LEMMA CancelAllRecord ==
  ASSUME TypeOK, NEW t \in Tasks
  PROVE  /\ CancelAll[t] \in AgentShared /\ CancelAll[t].outbox = agents[t].outbox
         /\ CancelAll[t].updates = agents[t].updates /\ CancelAll[t].status = agents[t].status
         /\ CancelAll[t].worker = agents[t].worker
<1>1. agents[t] \in AgentShared
  BY DEF TypeOK
<1>2. CancelAll[t] = IF t \in Registered THEN [agents[t] EXCEPT !.cancel = TRUE] ELSE agents[t]
  BY DEF CancelAll
<1> QED  BY <1>1, <1>2 DEF AgentShared

LEMMA PoolActsMove ==
  ASSUME TypeOK, PoolActs
  PROVE  AgentsMove
<1>1. CASE Retire
  <2>1. \A t \in Tasks : agents'[t] = CancelAll[t]
    BY <1>1 DEF Retire
  <2>2. agents' \in [Tasks -> AgentShared]
    BY <1>1, CancelAllRecord DEF Retire, CancelAll
  <2> QED  BY <1>1, <2>1, <2>2, CancelAllRecord, StandsStill DEF Retire, AgentsMove, TypeOK
<1>2. CASE AwaitQuiescence
  <2>1. \A t \in Tasks : agents'[t] = CancelAll[t]
    BY <1>2 DEF AwaitQuiescence
  <2>2. agents' \in [Tasks -> AgentShared]
    BY <1>2, CancelAllRecord DEF AwaitQuiescence, CancelAll
  <2> QED  BY <1>2, <2>1, <2>2, CancelAllRecord, StandsStill DEF AwaitQuiescence, AgentsMove, TypeOK
<1>3. CASE QuiescenceReached
  BY <1>3, StandsStill DEF QuiescenceReached, AgentsMove, TypeOK
<1>4. CASE QuiescenceDeadline
  <2>1. agents' = [t \in Tasks |-> SettleCancelled(CancelAll[t])]
    BY <1>4 DEF QuiescenceDeadline
  <2>2. ASSUME NEW t \in Tasks
        PROVE  agents'[t] \in AgentShared /\ Moves(agents[t], agents'[t])
    <3> DEFINE c == CancelAll[t]
               b == SettleCancelled(c)
    <3>1. c \in AgentShared /\ c.outbox = agents[t].outbox /\ c.updates = agents[t].updates
          /\ c.status = agents[t].status /\ c.worker = agents[t].worker
      BY CancelAllRecord
    <3>2. b \in AgentShared /\ (b = c \/ SettlesOnce(c, b)) /\ b.worker = c.worker
      BY <3>1, SettleCancelledRecord
    <3>3. agents'[t] = b
      BY <2>1
    <3> HIDE DEF b, c
    <3> QED  BY <3>1, <3>2, <3>3 DEF Moves, WorkerMoves, SettlesOnce
  <2>3. agents' \in [Tasks -> AgentShared]
    BY <2>1, <2>2
  <2> QED  BY <1>4, <2>2, <2>3 DEF QuiescenceDeadline, AgentsMove, TypeOK
<1> QED  BY <1>1, <1>2, <1>3, <1>4 DEF PoolActs

-----------------------------------------------------------------------------
(* Counting results *)

Count(s) == Len(Keep(s, {Result}))

LEMMA CountIsNat == ASSUME NEW s \in Seq(Envelope) PROVE Count(s) \in Nat
  BY KeepType, LenProperties DEF Count

LEMMA CountConcat ==
  ASSUME NEW r \in Seq(Envelope), NEW s \in Seq(Envelope)
  PROVE  r \o s \in Seq(Envelope) /\ Count(r \o s) = Count(r) + Count(s)
<1>1. Keep(r \o s, {Result}) = Keep(r, {Result}) \o Keep(s, {Result})
  BY KeepConcat
<1>2. Keep(r, {Result}) \in Seq(Envelope \cap {Result}) /\ Keep(s, {Result}) \in Seq(Envelope \cap {Result})
  BY KeepType
<1>3. r \o s \in Seq(Envelope)
  BY ConcatProperties
<1> QED  BY <1>1, <1>2, <1>3, ConcatProperties DEF Count

LEMMA CountAppend ==
  ASSUME NEW s \in Seq(Envelope), NEW e \in Envelope
  PROVE  Count(Append(s, e)) = Count(s) + (IF e = Result THEN 1 ELSE 0)
<1>1. Keep(Append(s, e), {Result}) = IF e \in {Result} THEN Append(Keep(s, {Result}), e) ELSE Keep(s, {Result})
  BY KeepAppend
<1>2. Keep(s, {Result}) \in Seq(Envelope \cap {Result}) /\ Count(s) \in Nat
  BY KeepType, CountIsNat
<1>3. CASE e = Result
  <2>1. e \in Envelope \cap {Result}
    BY <1>3
  <2>2. Len(Append(Keep(s, {Result}), e)) = Len(Keep(s, {Result})) + 1
    BY <1>2, <2>1, AppendProperties
  <2> QED  BY <1>1, <1>3, <2>2 DEF Count
<1>4. CASE e # Result
  BY <1>1, <1>2, <1>4 DEF Count
<1> QED  BY <1>3, <1>4

LEMMA CountZero ==
  ASSUME NEW s \in Seq(Envelope)
  PROVE  /\ (Count(s) = 0) <=> (\A i \in 1..Len(s) : s[i] # Result)
         /\ (Count(s) = 0) <=> (Keep(s, {Result}) = <<>>)
<1>1. Keep(s, {Result}) \in Seq(Envelope \cap {Result})
  BY KeepType
<1>2. (Len(Keep(s, {Result})) = 0) <=> (Keep(s, {Result}) = <<>>)
  BY <1>1, EmptySeq
<1> QED  BY <1>2, KeepSome DEF Count

\* The claim at a round boundary takes all results and leaves none.
LEMMA CountSplit ==
  ASSUME NEW s \in Seq(Envelope)
  PROVE  /\ Keep(s, {Result}) \in Seq(Envelope) /\ Keep(s, Updates) \in Seq(Envelope)
         /\ Count(Keep(s, {Result})) = Count(s) /\ Count(Keep(s, Updates)) = 0
         /\ Keep(Keep(s, Updates), Updates) = Keep(s, Updates)
         /\ Keep(Keep(s, {Result}), Updates) = <<>>
<1>1. Keep(s, {Result}) \in Seq(Envelope \cap {Result}) /\ Keep(s, Updates) \in Seq(Envelope \cap Updates)
  BY KeepType
<1>2. Keep(s, {Result}) \in Seq(Envelope) /\ Keep(s, Updates) \in Seq(Envelope)
  BY <1>1, SeqMonotonic
<1>3. Keep(Keep(s, {Result}), {Result}) = Keep(s, {Result}) /\ Keep(Keep(s, Updates), Updates) = Keep(s, Updates)
  BY <1>1, KeepAll
<1>4. (Envelope \cap {Result}) \cap Updates = {} /\ (Envelope \cap Updates) \cap {Result} = {}
  BY Envelopes
<1>5. Keep(Keep(s, {Result}), Updates) = <<>> /\ Keep(Keep(s, Updates), {Result}) = <<>>
  BY <1>1, <1>4, KeepNone
<1> QED  BY <1>2, <1>3, <1>5, EmptySeq DEF Count

-----------------------------------------------------------------------------
(* The life of a task *)

\* n results of the task exist; if it is gone it may have lost its own.
Life(a, n, gone) ==
  /\ n <= 1
  /\ a.status \in {"Absent", "Running"} => n = 0
  /\ a.status = "Absent" => a.worker = "none"
  /\ a.status \notin {"Absent", "Running"} /\ a.worker # "none" => n = 1 \/ gone

\* A step of the task keeps it, whatever was emitted before.
LEMMA LifeGoesOn ==
  ASSUME NEW a \in AgentShared, NEW b \in AgentShared, Moves(a, b), NEW x \in Seq(Envelope),
         NEW gone \in BOOLEAN, Life(a, Count(x \o a.outbox), gone)
  PROVE  Life(b, Count(x \o b.outbox), gone)
<1> DEFINE n == Count(x \o a.outbox)
<1>0. a.outbox \in Seq(Envelope) /\ b.outbox \in Seq(Envelope) /\ b.updates \in 0..MaxUpdates
      /\ a.updates \in 0..MaxUpdates
  BY DEF AgentShared
<1>1. n \in Nat /\ n = Count(x) + Count(a.outbox) /\ Count(x) \in Nat /\ Count(a.outbox) \in Nat
  BY <1>0, CountConcat, CountIsNat
<1>2. Count(x \o b.outbox) = Count(x) + Count(b.outbox)
  BY <1>0, CountConcat
<1>3. ASSUME b.outbox = a.outbox PROVE Count(x \o b.outbox) = n
  BY <1>3
<1> HIDE DEF n
<1>4. CASE WorkerMoves(a, b)
  BY <1>1, <1>3, <1>4 DEF WorkerMoves, Life, n
<1>5. CASE IsRegistered(a, b)
  BY <1>1, <1>3, <1>5 DEF IsRegistered, Life, n
<1>6. CASE StartIsRefused(a, b)
  BY <1>1, <1>3, <1>6 DEF StartIsRefused, Life, n
<1>7. CASE WritesUpdate(a, b)
  <2>1. b.updates \in Envelope /\ b.updates # Result
    BY <1>0, <1>7, Envelopes, PoolAssumption DEF WritesUpdate, Result
  <2>2. Count(x \o b.outbox) = n
    BY <1>0, <1>1, <1>2, <1>7, <2>1, CountAppend DEF WritesUpdate
  <2> QED  BY <1>1, <1>7, <2>2 DEF WritesUpdate, Life, n
<1>8. CASE SettlesOnce(a, b)
  <2>1. Count(x \o b.outbox) = n + 1
    BY <1>0, <1>1, <1>2, <1>8, Envelopes, CountAppend DEF SettlesOnce
  <2>2. n = 0
    BY <1>8 DEF SettlesOnce, Life, n
  <2> QED  BY <1>8, <2>1, <2>2, SettledStatus DEF SettlesOnce, Life
<1> QED  BY <1>4, <1>5, <1>6, <1>7, <1>8 DEF Moves

\* The updates of a task are numbered as they are written.
LEMMA UpdatesGoOn ==
  ASSUME NEW a \in AgentShared, NEW b \in AgentShared, Moves(a, b), NEW x \in Seq(Envelope),
         Keep(x \o a.outbox, Updates) = [i \in 1..a.updates |-> i]
  PROVE  Keep(x \o b.outbox, Updates) = [i \in 1..b.updates |-> i]
<1>0. a.outbox \in Seq(Envelope) /\ b.outbox \in Seq(Envelope) /\ b.updates \in 0..MaxUpdates
      /\ a.updates \in 0..MaxUpdates
  BY DEF AgentShared
<1>1. CASE b.outbox = a.outbox /\ b.updates = a.updates
  BY <1>1
<1>2. ASSUME NEW e \in Envelope, b.outbox = Append(a.outbox, e)
      PROVE  Keep(x \o b.outbox, Updates) =
               IF e \in Updates THEN Append([i \in 1..a.updates |-> i], e) ELSE [i \in 1..a.updates |-> i]
  <2>1. x \o b.outbox = Append(x \o a.outbox, e)
    BY <1>0, <1>2
  <2>2. x \o a.outbox \in Seq(Envelope)
    BY <1>0, ConcatProperties
  <2>3. Keep(Append(x \o a.outbox, e), Updates) =
          IF e \in Updates THEN Append(Keep(x \o a.outbox, Updates), e) ELSE Keep(x \o a.outbox, Updates)
    <3> DEFINE s == x \o a.outbox
    <3>1. s \in Seq(Envelope)
      BY <2>2
    <3> HIDE DEF s
    <3>2. Keep(Append(s, e), Updates) = IF e \in Updates THEN Append(Keep(s, Updates), e) ELSE Keep(s, Updates)
      BY <3>1, KeepAppend
    <3> QED  BY <3>2 DEF s
  <2> QED  BY <2>1, <2>3
<1>3. CASE WritesUpdate(a, b)
  <2>1. b.updates \in Envelope /\ b.updates \in Updates /\ a.updates \in Nat
    BY <1>0, <1>3, Envelopes, PoolAssumption DEF WritesUpdate
  <2>2. Keep(x \o b.outbox, Updates) = Append([i \in 1..a.updates |-> i], b.updates)
    BY <1>2, <1>3, <2>1 DEF WritesUpdate
  <2>3. Append([i \in 1..a.updates |-> i], a.updates + 1) = [i \in 1..a.updates + 1 |-> i]
    BY <2>1
  <2> QED  BY <1>3, <2>2, <2>3 DEF WritesUpdate
<1>4. CASE SettlesOnce(a, b)
  BY <1>2, <1>4, Envelopes DEF SettlesOnce
<1> QED  BY <1>1, <1>3, <1>4 DEF Moves, WorkerMoves, IsRegistered, StartIsRefused

\* A result is the last thing that waits to be claimed.
ResultLast(s) == \A i \in 1..Len(s) : s[i] = Result => i = Len(s)

LEMMA ResultStaysLast ==
  ASSUME NEW a \in AgentShared, NEW b \in AgentShared, Moves(a, b), NEW x \in Seq(Envelope),
         ResultLast(x \o a.outbox), a.status = "Running" => Count(x \o a.outbox) = 0
  PROVE  ResultLast(x \o b.outbox)
<1>0. a.outbox \in Seq(Envelope) /\ b.outbox \in Seq(Envelope) /\ b.updates \in 0..MaxUpdates
  BY DEF AgentShared
<1>1. CASE b.outbox = a.outbox
  BY <1>1
<1>2. ASSUME NEW e \in Envelope, b.outbox = Append(a.outbox, e), a.status = "Running"
      PROVE  ResultLast(x \o b.outbox)
  <2>1. x \o b.outbox = Append(x \o a.outbox, e)
    BY <1>0, <1>2
  <2>2. x \o a.outbox \in Seq(Envelope)
    BY <1>0, ConcatProperties
  <2>3. \A i \in 1..Len(x \o a.outbox) : (x \o a.outbox)[i] # Result
    BY <1>2, <2>2, CountZero
  <2> DEFINE s == x \o a.outbox
  <2>4. s \in Seq(Envelope) /\ \A i \in 1..Len(s) : s[i] # Result
    BY <2>2, <2>3
  <2> HIDE DEF s
  <2>5. /\ Len(Append(s, e)) = Len(s) + 1 /\ Len(s) \in Nat
        /\ \A i \in 1..Len(s) : Append(s, e)[i] = s[i]
    BY <2>4, AppendProperties, LenProperties
  <2>6. ASSUME NEW i \in 1..Len(Append(s, e)), Append(s, e)[i] = Result PROVE i = Len(Append(s, e))
    BY <2>4, <2>5, <2>6
  <2> QED  BY <2>1, <2>6 DEF ResultLast, s
<1>3. CASE WritesUpdate(a, b)
  BY <1>0, <1>2, <1>3, Envelopes DEF WritesUpdate
<1>4. CASE SettlesOnce(a, b)
  BY <1>2, <1>4, Envelopes DEF SettlesOnce
<1> QED  BY <1>1, <1>3, <1>4 DEF Moves, WorkerMoves, IsRegistered, StartIsRefused

-----------------------------------------------------------------------------
(* The steps of the owner's thread *)

Pending(t) == wait.buffered[t] \o agents[t].outbox

WaitRecord ==
  [pc : {"none", "drain", "check", "redrain", "returned"}, watched : SUBSET Tasks,
   todo : SUBSET Tasks, mode : {"AnyActivity", "TerminalResult"},
   buffered : [Tasks -> Seq(Envelope)], delivered : SUBSET Tasks,
   expired : BOOLEAN, timed_out : BOOLEAN]

\* A step of a wait moves envelopes along and leaves the tasks alone.
EnvelopesShift ==
  /\ TypeOK'
  /\ \A t \in Tasks :
       /\ agents'[t].status = agents[t].status /\ agents'[t].worker = agents[t].worker
       /\ agents'[t].updates = agents[t].updates
       /\ Emitted(t)' = Emitted(t)
       /\ Pending(t)' = Pending(t) \/ Pending(t)' = agents[t].outbox

WaitActs ==
  \/ \E ws \in SUBSET Tasks, mode \in {"AnyActivity", "TerminalResult"} : WaitStart(ws, mode)
  \/ WaitStep \/ Clock \/ WaitAbort

LEMMA StreamTypes ==
  ASSUME TypeOK, NEW t \in Tasks
  PROVE  /\ agents[t] \in AgentShared /\ wait \in WaitRecord
         /\ claimed[t] \in Seq(Envelope) /\ wait.buffered[t] \in Seq(Envelope)
         /\ agents[t].outbox \in Seq(Envelope) /\ agents[t].updates \in 0..MaxUpdates
         /\ Emitted(t) \in Seq(Envelope) /\ Pending(t) \in Seq(Envelope)
         /\ claimed[t] \o wait.buffered[t] \in Seq(Envelope)
         /\ Emitted(t) = claimed[t] \o Pending(t)
<1>1. agents[t] \in AgentShared /\ claimed[t] \in Seq(Envelope) /\ wait \in WaitRecord
  BY DEF TypeOK, WaitRecord
<1>2. wait.buffered[t] \in Seq(Envelope)
  BY <1>1 DEF WaitRecord
<1>3. agents[t].outbox \in Seq(Envelope) /\ agents[t].updates \in 0..MaxUpdates
  BY <1>1 DEF AgentShared
<1>4. Pending(t) \in Seq(Envelope) /\ claimed[t] \o wait.buffered[t] \in Seq(Envelope)
  BY <1>1, <1>2, <1>3, ConcatProperties DEF Pending
<1>5. Emitted(t) \in Seq(Envelope)
  BY <1>3, <1>4, ConcatProperties DEF Emitted
<1>6. Emitted(t) = claimed[t] \o Pending(t)
  <2> DEFINE c == claimed[t]
             w == wait.buffered[t]
             o == agents[t].outbox
  <2>1. c \in Seq(Envelope) /\ w \in Seq(Envelope) /\ o \in Seq(Envelope)
    BY <1>1, <1>2, <1>3
  <2>2. Emitted(t) = (c \o w) \o o /\ Pending(t) = w \o o
    BY DEF Emitted, Pending
  <2> HIDE DEF c, w, o
  <2>3. (c \o w) \o o = c \o (w \o o)
    BY <2>1, ConcatAssociative
  <2> QED  BY <2>2, <2>3 DEF c
<1> QED  BY <1>1, <1>2, <1>3, <1>4, <1>5, <1>6

LEMMA NoWaitRecord ==
  /\ NoWait \in WaitRecord /\ NoWait.buffered = NoEnvelopes /\ NoWait.todo = {}
  /\ NoEnvelopes \in [Tasks -> Seq(Envelope)] /\ \A t \in Tasks : NoEnvelopes[t] = <<>>
<1>1. NoEnvelopes \in [Tasks -> Seq(Envelope)] /\ \A t \in Tasks : NoEnvelopes[t] = <<>>
  BY EmptySeq DEF NoEnvelopes
<1> QED  BY <1>1 DEF NoWait, WaitRecord

\* The wait goes on, or starts: nothing moves.
LEMMA NothingMoves ==
  ASSUME TypeOK, UNCHANGED <<agents, retired, closing, claimed>>, wait' \in WaitRecord,
         wait'.buffered = wait.buffered, wait'.pc \in {"drain", "check", "redrain"}
  PROVE  EnvelopesShift
<1>1. TypeOK'
  BY DEF TypeOK, WaitRecord, Waiting
<1> QED  BY <1>1 DEF EnvelopesShift, Emitted, Pending

LEMMA DrainShifts ==
  ASSUME TypeOK, NEW t \in Tasks, Drain(t), Waiting
  PROVE  EnvelopesShift
<1> DEFINE b == [agents[t] EXCEPT !.outbox = <<>>]
           f == [wait.buffered EXCEPT ![t] = @ \o agents[t].outbox]
<1>0. agents[t] \in AgentShared /\ wait \in WaitRecord /\ <<>> \in Seq(Envelope)
  BY StreamTypes, EmptySeq
<1>1. agents' = [agents EXCEPT ![t] = b] /\ b \in AgentShared /\ b.outbox = <<>> /\ b.status = agents[t].status
      /\ b.worker = agents[t].worker /\ b.updates = agents[t].updates
  <2>1. agents' = [agents EXCEPT ![t] = b]
    BY DEF Drain, TypeOK
  <2>2. b \in AgentShared /\ b.outbox = <<>> /\ b.status = agents[t].status
        /\ b.worker = agents[t].worker /\ b.updates = agents[t].updates
    BY <1>0 DEF AgentShared
  <2> QED  BY <2>1, <2>2
<1>2. f \in [Tasks -> Seq(Envelope)] /\ f[t] = Pending(t) /\ \A s \in Tasks \ {t} : f[s] = wait.buffered[s]
  BY <1>0, StreamTypes DEF Pending, WaitRecord
<1>3. wait'.buffered = f /\ wait' \in WaitRecord /\ wait'.pc = wait.pc
  <2>1. wait' = [wait EXCEPT !.todo = @ \ {t}, !.buffered = f,
                             !.delivered = IF HasResult(t) THEN @ \cup {t} ELSE @]
    BY <1>0 DEF Drain, WaitRecord
  <2> HIDE DEF f
  <2> QED  BY <1>0, <1>2, <2>1 DEF WaitRecord
<1> HIDE DEF b, f
<1>4. agents' \in [Tasks -> AgentShared] /\ agents'[t] = b /\ \A s \in Tasks \ {t} : agents'[s] = agents[s]
  BY <1>1 DEF TypeOK
<1>5. TypeOK'
  BY <1>3, <1>4 DEF TypeOK, WaitRecord, Waiting, Drain
<1>6. ASSUME NEW s \in Tasks PROVE Emitted(s)' = Emitted(s) /\ Pending(s)' = Pending(s)
  <2>1. CASE s = t
    <3>1. Pending(s)' = Pending(s) \o <<>>
      BY <1>1, <1>2, <1>3, <1>4, <2>1 DEF Pending
    <3>2. Pending(s)' = Pending(s)
      BY <3>1, StreamTypes, ConcatEmptySeq
    <3>3. Emitted(s)' = (claimed[s] \o Pending(s)) \o <<>>
      BY <1>1, <1>2, <1>3, <1>4, <2>1 DEF Emitted, Drain
    <3>4. Emitted(s)' = Emitted(s) \o <<>>
      BY <3>3, StreamTypes
    <3> QED  BY <3>2, <3>4, StreamTypes, ConcatEmptySeq
  <2>2. CASE s # t
    BY <1>2, <1>3, <1>4, <2>2 DEF Emitted, Pending, Drain
  <2> QED  BY <2>1, <2>2
<1> QED  BY <1>1, <1>4, <1>5, <1>6 DEF EnvelopesShift

LEMMA ReturnShifts ==
  ASSUME TypeOK, Waiting, NEW late \in BOOLEAN, Return(wait, late), UNCHANGED <<agents, retired, closing>>
  PROVE  EnvelopesShift
<1>0. wait \in WaitRecord
  BY DEF TypeOK, WaitRecord
<1>1. wait' \in WaitRecord /\ wait'.buffered = NoEnvelopes /\ wait'.todo = {} /\ wait'.pc = "returned"
  BY <1>0, NoWaitRecord DEF Return, WaitRecord
<1>2. \A t \in Tasks : claimed'[t] = claimed[t] \o wait.buffered[t] /\ claimed'[t] \in Seq(Envelope)
  BY StreamTypes DEF Return
<1>3. claimed' \in [Tasks -> Seq(Envelope)]
  BY <1>2 DEF Return
<1>4. TypeOK'
  BY <1>1, <1>3 DEF TypeOK, WaitRecord, Waiting
<1>5. ASSUME NEW t \in Tasks PROVE Emitted(t)' = Emitted(t) /\ Pending(t)' = agents[t].outbox
  <2>1. Pending(t)' = <<>> \o agents[t].outbox
    BY <1>1, NoWaitRecord DEF Pending
  <2>2. Pending(t)' = agents[t].outbox
    BY <2>1, StreamTypes, ConcatEmptySeq
  <2>3. Emitted(t)' = ((claimed[t] \o wait.buffered[t]) \o <<>>) \o agents[t].outbox
    BY <1>1, <1>2, NoWaitRecord DEF Emitted
  <2> QED  BY <2>2, <2>3, StreamTypes, ConcatEmptySeq DEF Emitted
<1> QED  BY <1>4, <1>5 DEF EnvelopesShift

LEMMA AbortShifts ==
  ASSUME TypeOK, WaitAbort
  PROVE  EnvelopesShift
<1>1. wait' = NoWait /\ wait' \in WaitRecord /\ wait'.pc = "none"
  BY NoWaitRecord DEF WaitAbort, NoWait
<1>2. ASSUME NEW t \in Tasks
      PROVE  /\ agents'[t] \in AgentShared /\ agents'[t].outbox = Pending(t)
             /\ agents'[t].status = agents[t].status /\ agents'[t].worker = agents[t].worker
             /\ agents'[t].updates = agents[t].updates
  <2>1. agents'[t] = [agents[t] EXCEPT !.outbox = Pending(t)]
    BY DEF WaitAbort, Restore, Pending
  <2> QED  BY <2>1, StreamTypes DEF AgentShared
<1>3. agents' \in [Tasks -> AgentShared]
  BY <1>2 DEF WaitAbort
<1>4. TypeOK'
  BY <1>1, <1>3, NoWaitRecord DEF TypeOK, WaitRecord, WaitAbort
<1>5. ASSUME NEW t \in Tasks PROVE Emitted(t)' = Emitted(t) /\ Pending(t)' = Pending(t)
  <2>1. Pending(t)' = <<>> \o Pending(t)
    BY <1>1, <1>2, NoWaitRecord DEF Pending
  <2>2. Pending(t)' = Pending(t)
    BY <2>1, StreamTypes, ConcatEmptySeq
  <2>3. Emitted(t)' = (claimed[t] \o <<>>) \o Pending(t)
    BY <1>1, <1>2, NoWaitRecord DEF Emitted, WaitAbort
  <2>4. claimed[t] \o <<>> = claimed[t]
    BY StreamTypes, ConcatEmptySeq
  <2> QED  BY <2>2, <2>3, <2>4, StreamTypes
<1> QED  BY <1>2, <1>4, <1>5 DEF EnvelopesShift

LEMMA WaitActsShift ==
  ASSUME TypeOK, WaitActs
  PROVE  EnvelopesShift
<1>0. wait \in WaitRecord /\ (wait.todo # {} => Waiting)
  BY DEF TypeOK, WaitRecord
<1>1. ASSUME NEW ws \in SUBSET Tasks, NEW mode \in {"AnyActivity", "TerminalResult"}, WaitStart(ws, mode)
      PROVE  EnvelopesShift
  <2>1. wait.buffered = NoEnvelopes
    BY <1>1 DEF WaitStart, OwnerFree, TypeOK
  <2>2. wait' \in WaitRecord /\ wait'.buffered = NoEnvelopes /\ wait'.pc = "drain"
    BY <1>1, NoWaitRecord DEF WaitStart, WaitRecord
  <2> QED  BY <1>1, <2>1, <2>2, NothingMoves DEF WaitStart
<1>2. ASSUME NEW t \in Tasks, Drain(t) PROVE EnvelopesShift
  BY <1>0, <1>2, DrainShifts DEF Drain
<1>3. CASE WaitTest
  <2>1. CASE ~Settles
    <3>1. wait' \in WaitRecord /\ wait'.buffered = wait.buffered /\ wait'.pc = "check"
      BY <1>0, <1>3, <2>1 DEF WaitTest, WaitRecord
    <3> QED  BY <1>3, <2>1, <3>1, NothingMoves DEF WaitTest
  <2>2. CASE Settles /\ wait.mode = "AnyActivity"
    BY <1>3, <2>2, ReturnShifts DEF WaitTest, Waiting
  <2>3. CASE Settles /\ wait.mode # "AnyActivity"
    <3>1. wait' \in WaitRecord /\ wait'.buffered = wait.buffered /\ wait'.pc = "redrain"
      BY <1>0, <1>3, <2>3 DEF WaitTest, WaitRecord
    <3> QED  BY <1>3, <2>3, <3>1, NothingMoves DEF WaitTest
  <2> QED  BY <2>1, <2>2, <2>3
<1>4. CASE WaitIdle
  <2>1. wait' \in WaitRecord /\ wait'.buffered = wait.buffered /\ wait'.pc = "redrain"
    BY <1>0, <1>4 DEF WaitIdle, WaitRecord
  <2> QED  BY <1>4, <2>1, NothingMoves DEF WaitIdle
<1>5. CASE WaitReturn
  BY <1>5, ReturnShifts DEF WaitReturn, Waiting
<1>6. CASE WaitExpire
  BY <1>6, ReturnShifts DEF WaitExpire, Waiting
<1>7. CASE WaitHeartbeat
  <2>1. wait' \in WaitRecord /\ wait'.buffered = wait.buffered /\ wait'.pc = "drain"
    BY <1>0, <1>7 DEF WaitHeartbeat, WaitRecord
  <2> QED  BY <1>7, <2>1, NothingMoves DEF WaitHeartbeat
<1>8. CASE Clock
  <2>1. wait' \in WaitRecord /\ wait'.buffered = wait.buffered /\ wait'.pc \in {"drain", "check", "redrain"}
    BY <1>0, <1>8 DEF Clock, WaitRecord, Waiting
  <2> QED  BY <1>8, <2>1, NothingMoves DEF Clock
<1>9. CASE WaitAbort
  BY <1>9, AbortShifts
<1> QED  BY <1>1, <1>2, <1>3, <1>4, <1>5, <1>6, <1>7, <1>8, <1>9 DEF WaitActs, WaitStep

\* take_undelivered_results: results move to the claim, updates stay.
LEMMA TakeClaims ==
  ASSUME TypeOK, TakeUndeliveredResults
  PROVE  /\ TypeOK' /\ UNCHANGED wait /\ ~Waiting
         /\ \A t \in Tasks :
              /\ agents'[t].status = agents[t].status /\ agents'[t].worker = agents[t].worker
              /\ agents'[t].updates = agents[t].updates
              /\ Count(Emitted(t)') = Count(Emitted(t))
              /\ Keep(Emitted(t)', Updates) = Keep(Emitted(t), Updates)
              /\ Pending(t)' = agents'[t].outbox /\ Count(agents'[t].outbox) = 0
              /\ agents'[t].outbox \in Seq(Envelope)
<1>0. ~Waiting /\ wait.buffered = NoEnvelopes /\ UNCHANGED <<retired, closing, wait>>
  BY DEF TakeUndeliveredResults, OwnerFree, TypeOK
<1>1. ASSUME NEW t \in Tasks
      PROVE  /\ agents'[t] \in AgentShared /\ agents'[t].outbox = Keep(agents[t].outbox, Updates)
             /\ agents'[t].status = agents[t].status /\ agents'[t].worker = agents[t].worker
             /\ agents'[t].updates = agents[t].updates
             /\ claimed'[t] = claimed[t] \o Keep(agents[t].outbox, {Result})
             /\ claimed'[t] \in Seq(Envelope)
  <2> DEFINE o == Keep(agents[t].outbox, Updates)
  <2>1. agents'[t] = [agents[t] EXCEPT !.outbox = o]
    BY DEF TakeUndeliveredResults
  <2>2. o \in Seq(Envelope) /\ Keep(agents[t].outbox, {Result}) \in Seq(Envelope)
    BY StreamTypes, CountSplit
  <2> HIDE DEF o
  <2>3. /\ agents'[t] \in AgentShared /\ agents'[t].outbox = o
        /\ agents'[t].status = agents[t].status /\ agents'[t].worker = agents[t].worker
        /\ agents'[t].updates = agents[t].updates
    BY <2>1, <2>2, StreamTypes DEF AgentShared
  <2>4. claimed'[t] = claimed[t] \o Keep(agents[t].outbox, {Result}) /\ claimed'[t] \in Seq(Envelope)
    BY <2>2, StreamTypes, ConcatProperties DEF TakeUndeliveredResults
  <2> QED  BY <2>3, <2>4 DEF o
<1>2. agents' \in [Tasks -> AgentShared] /\ claimed' \in [Tasks -> Seq(Envelope)]
  BY <1>1 DEF TakeUndeliveredResults
<1>3. TypeOK'
  BY <1>0, <1>2 DEF TypeOK, Waiting
<1>4. ASSUME NEW t \in Tasks
      PROVE  /\ Count(Emitted(t)') = Count(Emitted(t))
             /\ Keep(Emitted(t)', Updates) = Keep(Emitted(t), Updates)
             /\ Pending(t)' = agents'[t].outbox /\ Count(agents'[t].outbox) = 0
             /\ agents'[t].outbox \in Seq(Envelope)
  <2> DEFINE c == claimed[t]
             o == agents[t].outbox
             r == Keep(o, {Result})
             u == Keep(o, Updates)
  <2>1. c \in Seq(Envelope) /\ o \in Seq(Envelope)
    BY StreamTypes
  <2>2. /\ r \in Seq(Envelope) /\ u \in Seq(Envelope) /\ Count(r) = Count(o) /\ Count(u) = 0
        /\ Keep(u, Updates) = u /\ Keep(r, Updates) = <<>>
    BY <2>1, CountSplit
  <2>3. Emitted(t) = (c \o <<>>) \o o /\ Pending(t)' = <<>> \o u
        /\ Emitted(t)' = ((c \o r) \o <<>>) \o u /\ agents'[t].outbox = u
    BY <1>0, <1>1, NoWaitRecord DEF Emitted, Pending
  <2> HIDE DEF c, o, r
  <2>4. Emitted(t) = c \o o /\ Emitted(t)' = (c \o r) \o u /\ Pending(t)' = u /\ c \o r \in Seq(Envelope)
    <3>1. c \o r \in Seq(Envelope)
      BY <2>1, <2>2, ConcatProperties
    <3>2. c \o <<>> = c /\ <<>> \o u = u /\ (c \o r) \o <<>> = c \o r
      BY <2>1, <2>2, <3>1, ConcatEmptySeq
    <3> QED  BY <2>3, <3>1, <3>2
  <2>5. Count(Emitted(t)') = Count(Emitted(t))
    <3> HIDE DEF u
    <3>1. Count((c \o r) \o u) = Count(c \o r) + Count(u)
      BY <2>2, <2>4, CountConcat
    <3>2. Count(c \o r) = Count(c) + Count(r) /\ Count(c \o o) = Count(c) + Count(o)
      BY <2>1, <2>2, CountConcat
    <3>3. Count(c) \in Nat /\ Count(o) \in Nat
      BY <2>1, CountIsNat
    <3> QED  BY <2>2, <2>4, <3>1, <3>2, <3>3
  <2>6. Keep(Emitted(t)', Updates) = (Keep(c, Updates) \o Keep(r, Updates)) \o Keep(u, Updates)
    <3> HIDE DEF u
    <3>1. Keep((c \o r) \o u, Updates) = Keep(c \o r, Updates) \o Keep(u, Updates)
      BY <2>2, <2>4, KeepConcat
    <3>2. Keep(c \o r, Updates) = Keep(c, Updates) \o Keep(r, Updates)
      BY <2>1, <2>2, KeepConcat
    <3> QED  BY <2>4, <3>1, <3>2
  <2>7. Keep(c, Updates) \in Seq(Envelope \cap Updates)
    BY <2>1, KeepType
  <2>8. Keep(c, Updates) \o <<>> = Keep(c, Updates)
    BY <2>7, ConcatEmptySeq
  <2>9. Keep(Emitted(t), Updates) = Keep(c, Updates) \o u
    BY <2>1, <2>4, KeepConcat DEF o
  <2> QED  BY <2>2, <2>3, <2>4, <2>5, <2>6, <2>8, <2>9
<1> QED  BY <1>0, <1>1, <1>3, <1>4

-----------------------------------------------------------------------------
(* The invariant of the pool *)

TaskInOrder(t) ==
  /\ Life(agents[t], Count(Emitted(t)), FALSE)
  /\ Keep(Emitted(t), Updates) = [i \in 1..agents[t].updates |-> i]
  /\ ResultLast(Pending(t))

\* What the wait knows of the tasks it watches, although it looks at one at a time.
WaitKnows ==
  /\ wait.watched \subseteq Registered
  /\ \A t \in wait.delivered : agents[t].status \notin {"Absent", "Running"}
  /\ wait.pc = "redrain" => \A t \in wait.watched : ~Running(t) /\ (t \in wait.todo \/ ~HasResult(t))
  /\ WaitCollectsEverything

PoolInv == TypeOK /\ (\A t \in Tasks : TaskInOrder(t)) /\ WaitKnows

LEMMA PoolInit ==
  ASSUME Init
  PROVE  PoolInv
<1>1. Unregistered \in AgentShared
  BY EmptySeq, PoolAssumption DEF Unregistered, AgentShared
<1>2. \A t \in Tasks : agents[t] = Unregistered /\ wait.buffered[t] = <<>> /\ claimed[t] = <<>>
  BY NoWaitRecord DEF Init
<1>3. TypeOK
  BY <1>1, NoWaitRecord DEF Init, TypeOK, WaitRecord
<1>4. ASSUME NEW t \in Tasks PROVE TaskInOrder(t)
  <2>1. <<>> \o <<>> = <<>>
    BY EmptySeq, ConcatEmptySeq
  <2>2. Emitted(t) = <<>> /\ Pending(t) = <<>>
    BY <1>2, <2>1 DEF Emitted, Pending, Unregistered
  <2>3. Count(<<>>) = 0 /\ Keep(<<>>, Updates) = <<>>
    BY KeepEmpty, EmptySeq DEF Count
  <2>4. Life(agents[t], 0, FALSE)
    BY <1>2 DEF Life, Unregistered
  <2>5. [i \in 1..agents[t].updates |-> i] = <<>>
    BY <1>2 DEF Unregistered
  <2>6. ResultLast(<<>>)
    BY DEF ResultLast
  <2> QED  BY <2>2, <2>3, <2>4, <2>5, <2>6 DEF TaskInOrder
<1>5. WaitKnows
  BY DEF Init, WaitKnows, NoWait, WaitCollectsEverything
<1> QED  BY <1>3, <1>4, <1>5 DEF PoolInv

\* The tail of what waits is ordered as well.
LEMMA ResultLastTail ==
  ASSUME NEW x \in Seq(Envelope), NEW y \in Seq(Envelope), ResultLast(x \o y)
  PROVE  ResultLast(y)
<1>1. Len(x \o y) = Len(x) + Len(y) /\ Len(x) \in Nat /\ Len(y) \in Nat
  BY ConcatProperties, LenProperties
<1>2. \A i \in 1..Len(x) + Len(y) : (x \o y)[i] = IF i <= Len(x) THEN x[i] ELSE y[i - Len(x)]
  BY ConcatProperties
<1>3. ASSUME NEW i \in 1..Len(y), y[i] = Result PROVE i = Len(y)
  <2>1. Len(x) + i \in 1..Len(x) + Len(y) /\ ~(Len(x) + i <= Len(x)) /\ (Len(x) + i) - Len(x) = i
    BY <1>1
  <2>2. (x \o y)[Len(x) + i] = Result
    BY <1>2, <1>3, <2>1
  <2>3. Len(x) + i = Len(x \o y)
    BY <1>1, <2>1, <2>2 DEF ResultLast
  <2> QED  BY <1>1, <2>3
<1> QED  BY <1>3 DEF ResultLast

LEMMA TasksStayInOrder ==
  ASSUME PoolInv, Next
  PROVE  TypeOK' /\ \A t \in Tasks : TaskInOrder(t)'
<1>0. TypeOK
  BY DEF PoolInv
<1>1. ASSUME AgentsMove PROVE TypeOK' /\ \A t \in Tasks : TaskInOrder(t)'
  <2>1. TypeOK'
    BY <1>0, <1>1 DEF AgentsMove, TypeOK, Waiting
  <2>2. ASSUME NEW t \in Tasks PROVE TaskInOrder(t)'
    <3> DEFINE a == agents[t]
               b == agents'[t]
               x == claimed[t] \o wait.buffered[t]
               y == wait.buffered[t]
    <3>1. a \in AgentShared /\ x \in Seq(Envelope) /\ y \in Seq(Envelope)
      BY <1>0, StreamTypes
    <3>2. b \in AgentShared /\ Moves(a, b)
      BY <1>1 DEF AgentsMove
    <3>3. Emitted(t) = x \o a.outbox /\ Emitted(t)' = x \o b.outbox /\ Pending(t) = y \o a.outbox
          /\ Pending(t)' = y \o b.outbox
      BY <1>1 DEF AgentsMove, Emitted, Pending
    <3>4. TaskInOrder(t)
      BY DEF PoolInv
    <3>5. a.status = "Running" => Count(y \o a.outbox) = 0
      <4>1. Emitted(t) = claimed[t] \o Pending(t) /\ claimed[t] \in Seq(Envelope) /\ Pending(t) \in Seq(Envelope)
        BY <1>0, StreamTypes
      <4>2. Count(Emitted(t)) = Count(claimed[t]) + Count(Pending(t)) /\ Count(claimed[t]) \in Nat
            /\ Count(Pending(t)) \in Nat
        BY <4>1, CountConcat, CountIsNat
      <4>3. a.status = "Running" => Count(Emitted(t)) = 0
        BY <3>4 DEF TaskInOrder, Life
      <4> QED  BY <3>3, <4>2, <4>3
    <3> HIDE DEF a, b, x, y
    <3>6. Life(b, Count(x \o b.outbox), FALSE)
      BY <3>1, <3>2, <3>3, <3>4, LifeGoesOn DEF TaskInOrder, a
    <3>7. Keep(x \o b.outbox, Updates) = [i \in 1..b.updates |-> i]
      <4>1. Keep(x \o a.outbox, Updates) = [i \in 1..a.updates |-> i]
        BY <3>3, <3>4 DEF TaskInOrder, a
      <4> QED  BY <3>1, <3>2, <4>1, UpdatesGoOn
    <3>8. ResultLast(y \o b.outbox)
      BY <3>1, <3>2, <3>3, <3>4, <3>5, ResultStaysLast DEF TaskInOrder
    <3> QED  BY <3>3, <3>6, <3>7, <3>8 DEF TaskInOrder, b
  <2> QED  BY <2>1, <2>2
<1>2. CASE WaitActs
  <2>1. EnvelopesShift
    BY <1>0, <1>2, WaitActsShift
  <2>2. ASSUME NEW t \in Tasks PROVE TaskInOrder(t)'
    <3>1. TaskInOrder(t)
      BY DEF PoolInv
    <3>2. /\ agents'[t].status = agents[t].status /\ agents'[t].worker = agents[t].worker
          /\ agents'[t].updates = agents[t].updates /\ Emitted(t)' = Emitted(t)
          /\ (Pending(t)' = Pending(t) \/ Pending(t)' = agents[t].outbox)
      BY <2>1 DEF EnvelopesShift
    <3>3. ResultLast(Pending(t)')
      <4>1. wait.buffered[t] \in Seq(Envelope) /\ agents[t].outbox \in Seq(Envelope)
        BY <1>0, StreamTypes
      <4>2. ResultLast(agents[t].outbox)
        BY <3>1, <4>1, ResultLastTail DEF TaskInOrder, Pending
      <4> QED  BY <3>1, <3>2, <4>2 DEF TaskInOrder
    <3>4. Life(agents'[t], Count(Emitted(t)'), FALSE)
      BY <3>1, <3>2 DEF TaskInOrder, Life
    <3> QED  BY <3>1, <3>2, <3>3, <3>4 DEF TaskInOrder
  <2> QED  BY <2>1, <2>2 DEF EnvelopesShift
<1>3. CASE TakeUndeliveredResults
  <2>1. ASSUME NEW t \in Tasks PROVE TaskInOrder(t)'
    <3>1. TaskInOrder(t)
      BY DEF PoolInv
    <3>2. /\ agents'[t].status = agents[t].status /\ agents'[t].worker = agents[t].worker
          /\ agents'[t].updates = agents[t].updates
          /\ Count(Emitted(t)') = Count(Emitted(t))
          /\ Keep(Emitted(t)', Updates) = Keep(Emitted(t), Updates)
          /\ Pending(t)' = agents'[t].outbox /\ Count(agents'[t].outbox) = 0
          /\ agents'[t].outbox \in Seq(Envelope)
      BY <1>0, <1>3, TakeClaims
    <3>3. ResultLast(Pending(t)')
      BY <3>2, CountZero DEF ResultLast
    <3>4. Life(agents'[t], Count(Emitted(t)'), FALSE)
      BY <3>1, <3>2 DEF TaskInOrder, Life
    <3> QED  BY <3>1, <3>2, <3>3, <3>4 DEF TaskInOrder
  <2> QED  BY <1>0, <1>3, <2>1, TakeClaims
<1>4. (\E t \in Tasks : TaskActs(t)) \/ PoolActs \/ WaitActs \/ TakeUndeliveredResults
  BY DEF Next, TaskActs, PoolActs, WaitActs, Registered
<1> QED  BY <1>0, <1>1, <1>2, <1>3, <1>4, TaskActsMove, PoolActsMove

\* A registered task stays registered, and a settled one keeps status and outbox.
LEMMA SettledIsStill ==
  ASSUME NEW a, NEW b, Moves(a, b)
  PROVE  /\ a.status # "Absent" => b.status # "Absent"
         /\ a.status \notin {"Absent", "Running"} => b.status = a.status /\ b.outbox = a.outbox
<1>1. CASE SettlesOnce(a, b)
  BY <1>1, SettledStatus DEF SettlesOnce
<1>2. CASE ~SettlesOnce(a, b)
  BY <1>2 DEF Moves, WorkerMoves, IsRegistered, StartIsRefused, WritesUpdate
<1> QED  BY <1>1, <1>2

\* A result anywhere means that the task has settled.
LEMMA ResultMeansSettled ==
  ASSUME PoolInv, NEW t \in Tasks, HasResult(t)
  PROVE  agents[t].status \notin {"Absent", "Running"}
<1>0. TypeOK /\ TaskInOrder(t)
  BY DEF PoolInv
<1> DEFINE c == claimed[t] \o wait.buffered[t]
           o == agents[t].outbox
<1>1. c \in Seq(Envelope) /\ o \in Seq(Envelope) /\ Emitted(t) = c \o o
  BY <1>0, StreamTypes DEF Emitted
<1>2. \E i \in 1..Len(o) : o[i] = Result
  BY <1>1, LenProperties DEF HasResult, IsResult
<1> HIDE DEF c, o
<1>3. Count(o) # 0
  BY <1>1, <1>2, CountZero
<1>4. Count(c \o o) = Count(c) + Count(o) /\ Count(c) \in Nat /\ Count(o) \in Nat
  BY <1>1, CountConcat, CountIsNat
<1> QED  BY <1>0, <1>1, <1>3, <1>4 DEF TaskInOrder, Life

LEMMA HasResultCounts ==
  ASSUME TypeOK, NEW t \in Tasks
  PROVE  HasResult(t) <=> Count(agents[t].outbox) # 0
<1>1. agents[t].outbox \in Seq(Envelope) /\ DOMAIN agents[t].outbox = 1..Len(agents[t].outbox)
  BY StreamTypes, LenProperties
<1> QED  BY <1>1, CountZero DEF HasResult, IsResult

\* Tasks that go on do not invalidate what the wait has seen.
LEMMA WaitStillKnows ==
  ASSUME TypeOK, WaitKnows, AgentsMove
  PROVE  WaitKnows'
<1>1. \A t \in Tasks : Moves(agents[t], agents'[t])
  BY DEF AgentsMove
<1>2. wait' = wait /\ wait.watched \subseteq Tasks /\ wait.delivered \subseteq Tasks
  BY DEF AgentsMove, TypeOK
<1>3. \A t \in Tasks : /\ agents[t].status # "Absent" => agents'[t].status # "Absent"
                       /\ agents[t].status \notin {"Absent", "Running"} =>
                            agents'[t].status = agents[t].status /\ agents'[t].outbox = agents[t].outbox
  BY <1>1, SettledIsStill
<1>4. wait'.watched \subseteq Registered'
  BY <1>2, <1>3 DEF WaitKnows, Registered
<1>5. \A t \in wait'.delivered : agents'[t].status \notin {"Absent", "Running"}
  BY <1>2, <1>3 DEF WaitKnows
<1>6. \A t \in wait.watched : ~Running(t) => ~Running(t)' /\ HasResult(t)' = HasResult(t)
  BY <1>2, <1>3 DEF WaitKnows, Registered, Running, HasResult
<1>7. (wait.pc = "redrain" => \A t \in wait.watched : ~Running(t) /\ (t \in wait.todo \/ ~HasResult(t)))'
  BY <1>2, <1>6 DEF WaitKnows
<1>8. WaitCollectsEverything'
  BY <1>2, <1>6 DEF WaitKnows, WaitCollectsEverything
<1> QED  BY <1>4, <1>5, <1>7, <1>8 DEF WaitKnows

\* A wait that goes on without envelopes.
LEMMA WaitTurns ==
  ASSUME TypeOK, WaitKnows, UNCHANGED agents,
         wait' \in WaitRecord, wait'.watched = wait.watched, wait'.delivered = wait.delivered,
         \/ wait'.pc \in {"drain", "check"}
         \/ wait'.pc = "redrain" /\ wait'.todo = wait.watched /\ \A t \in wait.watched : ~Running(t)
         \/ wait'.pc = "redrain" /\ wait.pc = "redrain" /\ wait'.todo = wait.todo
  PROVE  WaitKnows'
<1>1. \A t \in Tasks : (Running(t)' <=> Running(t)) /\ (HasResult(t)' <=> HasResult(t))
  BY DEF Running, HasResult
<1>2. Registered' = Registered /\ wait.watched \subseteq Tasks
  BY DEF Registered, TypeOK
<1>3. WaitCollectsEverything'
  BY DEF WaitCollectsEverything
<1> QED  BY <1>1, <1>2, <1>3 DEF WaitKnows

LEMMA WaitLearns ==
  ASSUME PoolInv, \/ \E ws \in (SUBSET Registered), mode \in {"AnyActivity", "TerminalResult"} : WaitStart(ws, mode)
                  \/ WaitStep \/ Clock \/ WaitAbort
  PROVE  WaitKnows'
<1>0. TypeOK /\ WaitKnows /\ wait \in WaitRecord /\ (wait.todo # {} => Waiting)
  BY DEF PoolInv, TypeOK, WaitRecord
<1>1. ASSUME NEW ws \in SUBSET Registered, NEW mode \in {"AnyActivity", "TerminalResult"}, WaitStart(ws, mode)
      PROVE  WaitKnows'
  BY <1>1 DEF WaitStart, WaitKnows, WaitCollectsEverything, NoWait, Registered
<1>2. ASSUME NEW t \in Tasks, Drain(t) PROVE WaitKnows'
  <2>1. \A s \in Tasks : agents'[s].status = agents[s].status /\ (s # t => agents'[s] = agents[s])
    <3>1. Waiting
      BY <1>0, <1>2 DEF Drain
    <3>2. \A s \in Tasks : agents'[s].status = agents[s].status
      BY <1>0, <1>2, <3>1, DrainShifts DEF EnvelopesShift
    <3>3. \A s \in Tasks : s # t => agents'[s] = agents[s]
      BY <1>0, <1>2 DEF Drain, TypeOK
    <3> QED  BY <3>2, <3>3
  <2>2. agents'[t].outbox = <<>>
    BY <1>0, <1>2, StreamTypes DEF Drain, TypeOK, AgentShared
  <2>3. /\ wait'.pc = wait.pc /\ wait'.watched = wait.watched /\ wait'.todo = wait.todo \ {t}
        /\ wait'.delivered = (IF HasResult(t) THEN wait.delivered \cup {t} ELSE wait.delivered)
    BY <1>0, <1>2 DEF Drain, WaitRecord
  <2>4. Waiting /\ wait.watched \subseteq Tasks /\ wait.delivered \subseteq Tasks
    BY <1>0, <1>2 DEF Drain, TypeOK
  <2>5. wait'.watched \subseteq Registered'
    BY <1>0, <2>1, <2>3, <2>4 DEF WaitKnows, Registered
  <2>6. \A s \in wait'.delivered : agents'[s].status \notin {"Absent", "Running"}
    <3>1. HasResult(t) => agents[t].status \notin {"Absent", "Running"}
      BY ResultMeansSettled
    <3> QED  BY <1>0, <2>1, <2>3, <2>4, <3>1 DEF WaitKnows
  <2>7. ~HasResult(t)' /\ \A s \in Tasks : (Running(s)' <=> Running(s)) /\ (s # t => (HasResult(s)' <=> HasResult(s)))
    BY <2>1, <2>2 DEF HasResult, Running
  <2>8. (wait.pc = "redrain" => \A s \in wait.watched : ~Running(s) /\ (s \in wait.todo \/ ~HasResult(s)))'
    BY <1>0, <2>3, <2>4, <2>7 DEF WaitKnows
  <2>9. WaitCollectsEverything'
    BY <2>3, <2>4 DEF WaitCollectsEverything, Waiting
  <2> QED  BY <2>5, <2>6, <2>8, <2>9 DEF WaitKnows
<1>3. ASSUME NEW late \in BOOLEAN, Return(wait, late), UNCHANGED agents, wait.todo = {},
             late \/ wait.mode = "AnyActivity" \/ wait.pc = "redrain"
      PROVE  WaitKnows'
  <2>1. /\ wait'.pc = "returned" /\ wait'.watched = wait.watched /\ wait'.mode = wait.mode
        /\ wait'.timed_out = late /\ wait'.delivered = {}
    BY <1>0, <1>3 DEF Return, NoWait
  <2>2. \A t \in Tasks : (Running(t)' <=> Running(t)) /\ (HasResult(t)' <=> HasResult(t))
    BY <1>3 DEF Running, HasResult
  <2>3. Registered' = Registered /\ wait.watched \subseteq Tasks
    BY <1>0, <1>3 DEF Registered, TypeOK
  <2>4. WaitCollectsEverything'
    BY <1>0, <1>3, <2>1, <2>2, <2>3 DEF WaitKnows, WaitCollectsEverything
  <2> QED  BY <1>0, <2>1, <2>3, <2>4 DEF WaitKnows
<1>4. CASE WaitTest
  <2>1. CASE ~Settles
    <3>1. wait' \in WaitRecord /\ wait'.watched = wait.watched /\ wait'.delivered = wait.delivered /\ wait'.pc = "check"
      BY <1>0, <1>4, <2>1 DEF WaitTest, WaitRecord
    <3> QED  BY <1>0, <1>4, <3>1, WaitTurns DEF WaitTest
  <2>2. CASE Settles /\ wait.mode = "AnyActivity"
    BY <1>3, <1>4, <2>2 DEF WaitTest
  <2>3. CASE Settles /\ wait.mode # "AnyActivity"
    <3>1. wait' \in WaitRecord /\ wait'.watched = wait.watched /\ wait'.delivered = wait.delivered
          /\ wait'.pc = "redrain" /\ wait'.todo = wait.watched
      BY <1>0, <1>4, <2>3 DEF WaitTest, WaitRecord
    <3>2. \A t \in wait.watched : ~Running(t)
      BY <1>0, <2>3 DEF Settles, WaitKnows, Running
    <3> QED  BY <1>0, <1>4, <3>1, <3>2, WaitTurns DEF WaitTest
  <2> QED  BY <2>1, <2>2, <2>3
<1>5. CASE WaitIdle
  <2>1. wait' \in WaitRecord /\ wait'.watched = wait.watched /\ wait'.delivered = wait.delivered
        /\ wait'.pc = "redrain" /\ wait'.todo = wait.watched
    BY <1>0, <1>5 DEF WaitIdle, WaitRecord
  <2> QED  BY <1>0, <1>5, <2>1, WaitTurns DEF WaitIdle, NoneRunning
<1>6. CASE WaitReturn
  BY <1>3, <1>6 DEF WaitReturn
<1>7. CASE WaitExpire
  <2>1. /\ wait'.pc = "returned" /\ wait'.watched = wait.watched
        /\ wait'.timed_out = TRUE /\ wait'.delivered = {} /\ agents' = agents
    BY <1>0, <1>7 DEF WaitExpire, Return, NoWait
  <2> QED  BY <1>0, <2>1 DEF WaitKnows, WaitCollectsEverything, Registered
<1>8. CASE WaitHeartbeat
  <2>1. wait' \in WaitRecord /\ wait'.watched = wait.watched /\ wait'.delivered = wait.delivered /\ wait'.pc = "drain"
    BY <1>0, <1>8 DEF WaitHeartbeat, WaitRecord
  <2> QED  BY <1>0, <1>8, <2>1, WaitTurns DEF WaitHeartbeat
<1>9. CASE Clock
  <2>1. /\ wait' \in WaitRecord /\ wait'.watched = wait.watched /\ wait'.delivered = wait.delivered
        /\ wait'.pc = wait.pc /\ wait'.todo = wait.todo
    BY <1>0, <1>9 DEF Clock, WaitRecord
  <2> QED  BY <1>0, <1>9, <2>1, WaitTurns DEF Clock, Waiting
<1>10. CASE WaitAbort
  BY <1>10 DEF WaitAbort, WaitKnows, WaitCollectsEverything, NoWait
<1> QED  BY <1>1, <1>2, <1>4, <1>5, <1>6, <1>7, <1>8, <1>9, <1>10 DEF WaitStep

LEMMA PoolStep ==
  ASSUME PoolInv, [Next]_vars
  PROVE  PoolInv'
<1>0. TypeOK /\ WaitKnows
  BY DEF PoolInv
<1>1. CASE Next
  <2>1. TypeOK' /\ \A t \in Tasks : TaskInOrder(t)'
    BY <1>1, TasksStayInOrder
  <2>2. WaitKnows'
    <3>1. CASE (\E t \in Tasks : TaskActs(t)) \/ PoolActs
      BY <1>0, <3>1, TaskActsMove, PoolActsMove, WaitStillKnows
    <3>2. CASE TakeUndeliveredResults
      <4>1. /\ UNCHANGED wait /\ ~Waiting /\ wait.watched \subseteq Tasks /\ wait.delivered \subseteq Tasks
            /\ \A t \in Tasks : agents'[t].status = agents[t].status /\ Count(agents'[t].outbox) = 0
        BY <1>0, <3>2, TakeClaims DEF TypeOK
      <4>2. \A t \in Tasks : agents'[t].outbox \in Seq(Envelope)
        BY <1>0, <3>2, TakeClaims
      <4>3. \A t \in Tasks : ~HasResult(t)'
        <5> SUFFICES ASSUME NEW t \in Tasks PROVE ~HasResult(t)'
          OBVIOUS
        <5>1. DOMAIN agents'[t].outbox = 1..Len(agents'[t].outbox)
          BY <4>2, LenProperties
        <5> QED  BY <4>1, <4>2, <5>1, CountZero DEF HasResult, IsResult
      <4> QED  BY <1>0, <4>1, <4>3 DEF WaitKnows, WaitCollectsEverything, Registered, Running, Waiting
    <3>3. CASE \/ \E ws \in (SUBSET Registered), mode \in {"AnyActivity", "TerminalResult"} : WaitStart(ws, mode)
               \/ WaitStep \/ Clock \/ WaitAbort
      BY <3>3, WaitLearns
    <3> QED  BY <1>1, <3>1, <3>2, <3>3 DEF Next, TaskActs, PoolActs
  <2> QED  BY <2>1, <2>2 DEF PoolInv
<1>2. CASE UNCHANGED vars
  <2>1. TypeOK'
    BY <1>0, <1>2 DEF TypeOK, vars, Waiting
  <2>2. \A t \in Tasks : TaskInOrder(t)'
    BY <1>2 DEF PoolInv, TaskInOrder, Emitted, Pending, vars
  <2>3. WaitKnows'
    BY <1>0, <1>2 DEF WaitKnows, WaitCollectsEverything, Registered, Running, HasResult, vars
  <2> QED  BY <2>1, <2>2, <2>3 DEF PoolInv
<1> QED  BY <1>1, <1>2

LEMMA PoolInvariant == Spec => []PoolInv
  BY PoolInit, PoolStep, PTL DEF Spec

\* The state of the pool keeps its types; a buffer is empty outside a wait.
THEOREM PoolTypes == Spec => []TypeOK
<1>1. PoolInv => TypeOK
  BY DEF PoolInv
<1> QED  BY <1>1, PoolInvariant, PTL

\* agents.rs: however drains, aborted waits, claims, forced stops and late
\* workers interleave, each task that ran has one result, none before it
\* settled, and its updates in the order they were written.
THEOREM PoolEnvelopesOnceInOrder == Spec => []EnvelopesOnceInOrder
<1>1. ASSUME PoolInv PROVE EnvelopesOnceInOrder
  <2>1. ASSUME NEW t \in Tasks
        PROVE  /\ Len(Results(t)) <= 1
               /\ agents[t].status \in {"Absent", "Running"} => Results(t) = <<>>
               /\ ~Running(t) /\ agents[t].worker \in {"turn", "gone"} => Len(Results(t)) = 1
               /\ Keep(Emitted(t), Updates) = [n \in 1..agents[t].updates |-> n]
               /\ \A i \in DOMAIN Pending(t) : IsResult(Pending(t)[i]) => i = Len(Pending(t))
    <3>1. TaskInOrder(t) /\ TypeOK
      BY <1>1 DEF PoolInv
    <3>2. Emitted(t) \in Seq(Envelope) /\ Pending(t) \in Seq(Envelope)
      BY <3>1, StreamTypes
    <3>3. Len(Results(t)) = Count(Emitted(t)) /\ (Count(Emitted(t)) = 0 => Results(t) = <<>>)
      BY <3>2, CountZero DEF Results, Count
    <3>4. DOMAIN Pending(t) = 1..Len(Pending(t))
      BY <3>2, LenProperties
    <3>5. \A i \in DOMAIN Pending(t) : IsResult(Pending(t)[i]) => i = Len(Pending(t))
      BY <3>1, <3>4 DEF TaskInOrder, ResultLast, IsResult
    <3>6. Keep(Emitted(t), Updates) = [n \in 1..agents[t].updates |-> n]
      BY <3>1 DEF TaskInOrder
    <3>7. Life(agents[t], Count(Emitted(t)), FALSE)
      BY <3>1 DEF TaskInOrder
    <3>8. /\ Len(Results(t)) <= 1
          /\ agents[t].status \in {"Absent", "Running"} => Results(t) = <<>>
          /\ ~Running(t) /\ agents[t].worker \in {"turn", "gone"} => Len(Results(t)) = 1
      BY <3>3, <3>7 DEF Life, Running
    <3> QED  BY <3>5, <3>6, <3>8
  <2> QED  BY <2>1 DEF EnvelopesOnceInOrder, Pending
<1> QED  BY <1>1, PoolInvariant, PTL

\* agents.rs wait_until: although it reads statuses and outboxes one task at a
\* time, a wait for terminal results that did not time out leaves neither a
\* running task nor a result behind.
THEOREM PoolWaitCollectsEverything == Spec => []WaitCollectsEverything
<1>1. PoolInv => WaitCollectsEverything
  BY DEF PoolInv, WaitKnows
<1> QED  BY <1>1, PoolInvariant, PTL

-----------------------------------------------------------------------------
(* The delivery of results *)

\* Everything a task has emitted that still exists, the transcript included.
Given(t) == transcript[t] \o Emitted(t)

LivesOn == \A t \in Tasks : Life(agents[t], Count(Given(t)), t \in lost)

\* Only the run's thread waits, and only a wait that returned holds a claim.
OwnerIsRun ==
  /\ closing = "open"
  /\ run # "waiting" => wait = NoWait
  /\ wait.pc # "returned" => claimed = NoEnvelopes

\* An agent that was started is about to enter the ledger, or in it until its
\* result is delivered.
Ledgered ==
  \A t \in Tasks :
    ~retired /\ Started(t) /\ t \notin lost => t \in ledger \cup spawn_record \/ Delivered(t)

\* The run's thread holds one entry at a time, between two of its steps.
RecordsSpawn ==
  /\ run # "ledgering" => spawn_record = {}
  /\ \A t, u \in spawn_record : t = u

\* Between two runs the observer still has to look, or the result is announced.
Announces ==
  ~Active /\ ~recheck /\ ~retired /\ HasUndrainedFoldableResults => announced \/ observing # {}

DeliveryInv == DeliveryTypeOK /\ OwnerIsRun /\ LivesOn /\ Ledgered /\ RecordsSpawn /\ Announces

LEMMA CountGiven ==
  ASSUME NEW x \in Seq(Envelope), NEW c \in Seq(Envelope), NEW w \in Seq(Envelope), NEW o \in Seq(Envelope)
  PROVE  /\ Count(x \o (c \o w \o o)) = Count(x) + Count(c) + Count(w) + Count(o)
         /\ Count(x) \in Nat /\ Count(c) \in Nat /\ Count(w) \in Nat /\ Count(o) \in Nat
<1>1. c \o w \in Seq(Envelope) /\ Count(c \o w) = Count(c) + Count(w)
  BY CountConcat
<1> DEFINE d == c \o w
<1>2. d \in Seq(Envelope) /\ Count(d) = Count(c) + Count(w)
  BY <1>1
<1> HIDE DEF d
<1>3. d \o o \in Seq(Envelope) /\ Count(d \o o) = Count(d) + Count(o)
  BY <1>2, CountConcat
<1> DEFINE e == d \o o
<1>4. e \in Seq(Envelope) /\ Count(e) = Count(d) + Count(o)
  BY <1>3
<1> HIDE DEF e
<1>5. Count(x \o e) = Count(x) + Count(e)
  BY <1>4, CountConcat
<1>6. Count(x) \in Nat /\ Count(c) \in Nat /\ Count(w) \in Nat /\ Count(o) \in Nat
  BY CountIsNat
<1> QED  BY <1>2, <1>4, <1>5, <1>6 DEF d, e

LEMMA SomeResult ==
  ASSUME NEW s \in Seq(Envelope)
  PROVE  (\E i \in DOMAIN s : IsResult(s[i])) <=> Count(s) # 0
<1>1. DOMAIN s = 1..Len(s)
  BY LenProperties
<1> QED  BY <1>1, CountZero DEF IsResult

LEMMA CountEmpty == Count(<<>>) = 0 /\ <<>> \in Seq(Envelope)
  BY KeepEmpty, EmptySeq DEF Count

LEMMA GivenTypes ==
  ASSUME DeliveryTypeOK, NEW t \in Tasks
  PROVE  /\ transcript[t] \in Seq(Envelope) /\ claimed[t] \in Seq(Envelope)
         /\ wait.buffered[t] \in Seq(Envelope) /\ agents[t].outbox \in Seq(Envelope)
         /\ agents[t] \in AgentShared /\ Emitted(t) \in Seq(Envelope)
         /\ Count(Given(t)) = Count(transcript[t]) + Count(claimed[t]) + Count(wait.buffered[t]) + Count(agents[t].outbox)
         /\ Count(Given(t)) \in Nat
         /\ Count(transcript[t]) \in Nat /\ Count(claimed[t]) \in Nat
         /\ Count(wait.buffered[t]) \in Nat /\ Count(agents[t].outbox) \in Nat
<1>1. transcript[t] \in Seq(Envelope) /\ TypeOK
  BY DEF DeliveryTypeOK
<1>2. /\ claimed[t] \in Seq(Envelope) /\ agents[t] \in AgentShared /\ Emitted(t) \in Seq(Envelope)
      /\ wait.buffered[t] \in Seq(Envelope) /\ agents[t].outbox \in Seq(Envelope)
  BY <1>1, StreamTypes
<1>3. Count(Given(t)) = Count(transcript[t]) + Count(claimed[t]) + Count(wait.buffered[t]) + Count(agents[t].outbox)
  <2> DEFINE x == transcript[t]
             c == claimed[t]
             w == wait.buffered[t]
             o == agents[t].outbox
  <2>1. x \in Seq(Envelope) /\ c \in Seq(Envelope) /\ w \in Seq(Envelope) /\ o \in Seq(Envelope)
    BY <1>1, <1>2
  <2>2. Given(t) = x \o (c \o w \o o)
    BY DEF Given, Emitted
  <2> HIDE DEF x, c, w, o
  <2>3. Count(x \o (c \o w \o o)) = Count(x) + Count(c) + Count(w) + Count(o)
    BY <2>1, CountGiven
  <2> QED  BY <2>2, <2>3 DEF x, c, w, o
<1>4. Count(transcript[t]) \in Nat /\ Count(claimed[t]) \in Nat
      /\ Count(wait.buffered[t]) \in Nat /\ Count(agents[t].outbox) \in Nat
  BY <1>1, <1>2, CountGiven
<1> QED  BY <1>1, <1>2, <1>3, <1>4

\* Tasks go on while the run's thread and its history stay where they are.
LEMMA TasksLiveOn ==
  ASSUME DeliveryTypeOK, LivesOn, AgentsMove, UNCHANGED <<transcript, lost>>
  PROVE  TypeOK' /\ LivesOn'
<1>1. TypeOK'
  BY DEF AgentsMove, DeliveryTypeOK, TypeOK, Waiting
<1>2. ASSUME NEW t \in Tasks PROVE Life(agents'[t], Count(Given(t)'), t \in lost)
  <2> DEFINE a == agents[t]
             b == agents'[t]
             x == transcript[t]
             d == claimed[t] \o wait.buffered[t]
             y == x \o d
  <2>0. TypeOK /\ x \in Seq(Envelope)
    BY DEF DeliveryTypeOK
  <2>1. a \in AgentShared /\ d \in Seq(Envelope) /\ a.outbox \in Seq(Envelope)
    BY <2>0, StreamTypes
  <2>2. b \in AgentShared /\ Moves(a, b) /\ b.outbox \in Seq(Envelope)
    BY DEF AgentsMove, AgentShared
  <2>3. Given(t) = x \o (d \o a.outbox) /\ Given(t)' = x \o (d \o b.outbox)
    BY DEF AgentsMove, Given, Emitted
  <2> HIDE DEF a, b, d, x
  <2>4. y \in Seq(Envelope) /\ x \o (d \o a.outbox) = y \o a.outbox /\ x \o (d \o b.outbox) = y \o b.outbox
    <3>1. y \in Seq(Envelope)
      BY <2>0, <2>1, ConcatProperties
    <3>2. \A o \in Seq(Envelope) : (x \o d) \o o = x \o (d \o o)
      BY <2>0, <2>1, ConcatAssociative
    <3> QED  BY <2>1, <2>2, <3>1, <3>2
  <2> HIDE DEF y
  <2>5. Life(a, Count(y \o a.outbox), t \in lost)
    BY <2>3, <2>4 DEF LivesOn, a
  <2>6. Life(b, Count(y \o b.outbox), t \in lost)
    <3> DEFINE g == t \in lost
    <3>1. g \in BOOLEAN /\ Life(a, Count(y \o a.outbox), g)
      BY <2>5
    <3> HIDE DEF g
    <3>2. Life(b, Count(y \o b.outbox), g)
      BY <2>1, <2>2, <2>4, <3>1, LifeGoesOn
    <3> QED  BY <3>2 DEF g
  <2> QED  BY <2>3, <2>4, <2>6 DEF b
<1> QED  BY <1>1, <1>2 DEF LivesOn

LEMMA WaitLivesOn ==
  ASSUME DeliveryTypeOK, LivesOn, WaitActs, UNCHANGED <<transcript, lost>>
  PROVE  TypeOK' /\ LivesOn'
<1>1. EnvelopesShift
  BY WaitActsShift DEF DeliveryTypeOK
<1>2. \A t \in Tasks : Given(t)' = Given(t)
  BY <1>1 DEF Given, EnvelopesShift
<1> QED  BY <1>1, <1>2 DEF EnvelopesShift, LivesOn, Life

\* Only the start of a worker makes a task one that owes a result.
LEMMA OwedBefore ==
  ASSUME TypeOK, NEW t \in Tasks,
         \/ TaskStep(t) \/ Retire
         \/ Register(t, "Running") \/ StartFails(t)
  PROVE  \A s \in Tasks : agents'[s].worker \in {"turn", "gone"} => agents[s].worker \in {"turn", "gone"}
<1> DEFINE Good == \A s \in Tasks : agents'[s].worker \in {"turn", "gone"} => agents[s].worker \in {"turn", "gone"}
<1>0. agents[t] \in AgentShared /\ agents \in [Tasks -> AgentShared]
  BY DEF TypeOK
<1>1. ASSUME NEW b, agents' = [agents EXCEPT ![t] = b],
             b.worker \in {"turn", "gone"} => agents[t].worker \in {"turn", "gone"}
      PROVE  Good
  BY <1>0, <1>1
<1>2. ASSUME NEW st \in Settled, CompleteTurn(t, st) PROVE Good
  BY <1>0, <1>1, <1>2 DEF CompleteTurn
<1>3. CASE WorkerPanic(t)
  BY <1>0, <1>1, <1>3 DEF WorkerPanic
<1>4. CASE StopTask(t)
  BY <1>0, <1>4 DEF StopTask, AgentShared
<1>5. CASE StopTimer(t)
  <2> DEFINE c == SettleCancelled(agents[t])
             b == [c EXCEPT !.stop_timer = "fired"]
  <2>1. agents' = [agents EXCEPT ![t] = b]
    BY <1>0, <1>5 DEF StopTimer
  <2>2. c \in AgentShared /\ c.worker = agents[t].worker
    BY <1>0, SettleCancelledRecord
  <2> HIDE DEF c
  <2>3. b.worker = agents[t].worker
    BY <2>2 DEF AgentShared
  <2> HIDE DEF b
  <2> QED  BY <1>1, <2>1, <2>3
<1>6. CASE Retire
  BY <1>6, CancelAllRecord DEF Retire
<1>7. CASE Register(t, "Running")
  BY <1>0, <1>7 DEF Register, AgentShared
<1>8. CASE StartFails(t)
  BY <1>0, <1>8 DEF StartFails, AgentShared
<1> QED  BY <1>2, <1>3, <1>4, <1>5, <1>6, <1>7, <1>8 DEF TaskStep, TimerStep

\* A result that was not there before is one the observer is told of.
LEMMA NewResultsObserved ==
  ASSUME TypeOK, AgentsMove, HasUndrainedFoldableResults'
  PROVE  HasUndrainedFoldableResults \/ NewlySettled # {}
<1>1. PICK t \in Tasks : HasResult(t)'
  BY DEF HasUndrainedFoldableResults
<1> DEFINE a == agents[t]
           b == agents'[t]
<1>2. a \in AgentShared /\ a.outbox \in Seq(Envelope)
  BY StreamTypes
<1>3. b \in AgentShared /\ b.outbox \in Seq(Envelope) /\ Moves(a, b) /\ b.updates \in 0..MaxUpdates
      /\ a.updates \in 0..MaxUpdates
  BY <1>2 DEF AgentsMove, AgentShared
<1>4. (HasResult(t) <=> Count(a.outbox) # 0) /\ Count(b.outbox) # 0
  BY <1>1, <1>2, <1>3, SomeResult DEF HasResult
<1> HIDE DEF a, b
<1>5. CASE b.outbox = a.outbox
  BY <1>4, <1>5 DEF HasUndrainedFoldableResults
<1>6. CASE WritesUpdate(a, b)
  <2>1. b.updates \in Envelope /\ b.updates # Result
    BY <1>3, <1>6, Envelopes, PoolAssumption DEF WritesUpdate, Result
  <2>2. Count(b.outbox) = Count(a.outbox) + 0
    BY <1>2, <1>6, <2>1, CountAppend DEF WritesUpdate
  <2>3. Count(a.outbox) \in Nat
    BY <1>2, CountIsNat
  <2> QED  BY <1>4, <2>2, <2>3 DEF HasUndrainedFoldableResults
<1>7. CASE SettlesOnce(a, b)
  <2>1. t \in NewlySettled
    BY <1>1, <1>7, SettledStatus DEF SettlesOnce, NewlySettled, Live, Running, a, b
  <2> QED  BY <2>1
<1> QED  BY <1>3, <1>5, <1>6, <1>7 DEF Moves, WorkerMoves, IsRegistered, StartIsRefused

\* A confirmed checkpoint forgets only agents whose result is in the transcript.
LEMMA CheckpointKeepsLedger ==
  ASSUME DeliveryTypeOK, Ledgered, LivesOn', NEW durable \in BOOLEAN, SettleDelivered(durable),
         spawn_record = {}, UNCHANGED <<retired, lost>>, wait' = NoWait, claimed' = NoEnvelopes,
         \A t \in Tasks : /\ agents'[t].status = agents[t].status /\ agents'[t].worker = agents[t].worker
                          /\ agents'[t].outbox \in Seq(Envelope) /\ transcript'[t] \in Seq(Envelope)
                          /\ Delivered(t) => Delivered(t)'
  PROVE  Ledgered'
<1> SUFFICES ASSUME NEW t \in Tasks, ~retired', Started(t)', t \notin lost', ~Delivered(t)'
             PROVE  t \in ledger'
  BY DEF Ledgered
<1>1. t \in ledger /\ agents[t].worker \in {"turn", "gone"}
  BY DEF Ledgered, Started
<1> DEFINE x == transcript'[t]
           o == agents'[t].outbox
<1>2. x \in Seq(Envelope) /\ o \in Seq(Envelope)
  OBVIOUS
<1>3. Count(x) = 0
  BY <1>2, SomeResult DEF Delivered
<1>4. Given(t)' = x \o (<<>> \o <<>> \o o)
  BY NoWaitRecord DEF Given, Emitted
<1>5. Count(x \o (<<>> \o <<>> \o o)) = Count(x) + Count(<<>>) + Count(<<>>) + Count(o) /\ Count(o) \in Nat
  <2> DEFINE e == <<>>
  <2>1. e \in Seq(Envelope)
    BY CountEmpty
  <2> HIDE DEF x, o, e
  <2>2. Count(x \o (e \o e \o o)) = Count(x) + Count(e) + Count(e) + Count(o) /\ Count(o) \in Nat
    BY <1>2, <2>1, CountGiven
  <2> QED  BY <2>2 DEF e
<1>6. Count(Given(t)') = Count(o)
  BY <1>3, <1>4, <1>5, CountEmpty
<1>7. Life(agents'[t], Count(Given(t)'), t \in lost')
  BY DEF LivesOn
<1>8. agents[t].status \notin {"Absent", "Running"} => Count(o) = 1
  BY <1>1, <1>6, <1>7 DEF Life
<1>9. agents[t].status # "Absent"
  BY <1>1, <1>7 DEF Life
<1>10. agents[t].status # "Running" => HasResult(t)'
  BY <1>2, <1>8, <1>9, SomeResult DEF HasResult
<1> QED  BY <1>1, <1>10 DEF SettleDelivered, Running

\* Steps of the run's thread and of the registry that leave the pool alone.
HostActs ==
  \/ \E t \in Tasks : SettleObserver(t)
  \/ InvokeRunModel \/ RefuseModelRun \/ BeginModelRun \/ CancelModelRun
  \/ FinalAnswer \/ RunFails \/ FinishModelRun \/ RecheckTaskWake \/ TakePushEvent

LEMMA HostActsKeep ==
  ASSUME DeliveryInv, HostActs
  PROVE  DeliveryInv'
<1>0. DeliveryTypeOK /\ TypeOK /\ OwnerIsRun /\ LivesOn /\ Ledgered /\ RecordsSpawn /\ Announces
  BY DEF DeliveryInv, DeliveryTypeOK
<1>1. UNCHANGED <<agents, retired, closing, wait, claimed, transcript, ledger, spawn_record, lost>>
  BY DEF HostActs, SettleObserver, InvokeRunModel, RefuseModelRun, BeginModelRun, CancelModelRun, FinalAnswer,
         RunFails, FinishModelRun, RecheckTaskWake, TakePushEvent, vars, host
<1>2. TypeOK' /\ LivesOn' /\ Ledgered'
  BY <1>0, <1>1 DEF TypeOK, Waiting, LivesOn, Ledgered, Started, Given, Emitted, Delivered
<1>3. HasUndrainedFoldableResults' <=> HasUndrainedFoldableResults
  BY <1>1 DEF HasUndrainedFoldableResults, HasResult
<1>4. DeliveryTypeOK' /\ OwnerIsRun' /\ RecordsSpawn' /\ Announces'
  <2> USE DEF DeliveryTypeOK, OwnerIsRun, RecordsSpawn, Announces, Active
  <2>1. ASSUME NEW t \in Tasks, SettleObserver(t) PROVE DeliveryTypeOK' /\ OwnerIsRun' /\ RecordsSpawn' /\ Announces'
    BY <1>0, <1>1, <1>2, <1>3, <2>1 DEF SettleObserver, Publish, NotPublished, host
  <2>2. CASE InvokeRunModel
    BY <1>0, <1>1, <1>2, <1>3, <2>2 DEF InvokeRunModel, events
  <2>3. CASE RefuseModelRun
    BY <1>0, <1>1, <1>2, <1>3, <2>3 DEF RefuseModelRun, events
  <2>4. CASE BeginModelRun
    BY <1>0, <1>1, <1>2, <1>3, <2>4 DEF BeginModelRun
  <2>5. CASE CancelModelRun
    BY <1>0, <1>1, <1>2, <1>3, <2>5 DEF CancelModelRun, events
  <2>6. CASE FinalAnswer
    BY <1>0, <1>1, <1>2, <1>3, <2>6 DEF FinalAnswer, events
  <2>7. CASE RunFails
    BY <1>0, <1>1, <1>2, <1>3, <2>7 DEF RunFails, events
  <2>8. CASE FinishModelRun
    BY <1>0, <1>1, <1>2, <1>3, <2>8 DEF FinishModelRun, events
  <2>9. CASE RecheckTaskWake
    BY <1>0, <1>1, <1>2, <1>3, <2>9 DEF RecheckTaskWake, Publish, NotPublished
  <2>10. CASE TakePushEvent
    BY <1>0, <1>1, <1>2, <1>3, <2>10 DEF TakePushEvent, host
  <2> QED  BY <2>1, <2>2, <2>3, <2>4, <2>5, <2>6, <2>7, <2>8, <2>9, <2>10 DEF HostActs
<1> QED  BY <1>2, <1>4 DEF DeliveryInv

LEMMA TaskStepKeeps ==
  ASSUME DeliveryInv, NEW t \in Tasks, TaskStep(t)
  PROVE  DeliveryInv'
<1>0. DeliveryTypeOK /\ TypeOK /\ OwnerIsRun /\ LivesOn /\ Ledgered /\ RecordsSpawn /\ Announces
  BY DEF DeliveryInv, DeliveryTypeOK
<1>1. TaskActs(t) /\ Observed /\ retired' = retired /\ closing' = closing
  BY DEF TaskStep, TimerStep, TaskActs, Work, CompleteTurn, WorkerPanic, StopTask, StopTimer
<1>2. AgentsMove
  BY <1>0, <1>1, TaskActsMove
<1>3. UNCHANGED <<wait, claimed, run, runCancel, recheck, transcript, ledger, spawn_record, lost, pushed, announced>>
      /\ observing' = observing \cup NewlySettled
  BY <1>1, <1>2 DEF Observed, AgentsMove, host, events
<1>4. TypeOK' /\ LivesOn'
  BY <1>0, <1>2, <1>3, TasksLiveOn
<1>5. DeliveryTypeOK' /\ OwnerIsRun' /\ RecordsSpawn'
  BY <1>0, <1>1, <1>3, <1>4 DEF DeliveryTypeOK, OwnerIsRun, RecordsSpawn, NewlySettled, Live
<1>6. Ledgered'
  BY <1>0, <1>1, <1>3, OwedBefore DEF Ledgered, Started, Delivered
<1>7. Announces'
  BY <1>0, <1>1, <1>2, <1>3, NewResultsObserved DEF Announces, Active
<1> QED  BY <1>4, <1>5, <1>6, <1>7 DEF DeliveryInv

LEMMA RetireKeeps ==
  ASSUME DeliveryInv, RetireConversationTasks
  PROVE  DeliveryInv'
<1>0. DeliveryTypeOK /\ TypeOK /\ OwnerIsRun /\ LivesOn /\ RecordsSpawn
  BY DEF DeliveryInv, DeliveryTypeOK
<1>1. Retire /\ retired' = TRUE /\ closing' = closing /\ ledger' = {} /\ runCancel' = (runCancel \/ Active)
      /\ UNCHANGED <<wait, claimed, run, recheck, transcript, spawn_record, lost, observing, pushed, announced>>
  BY DEF RetireConversationTasks, Retire, events
<1>2. AgentsMove
  BY <1>0, <1>1, PoolActsMove DEF PoolActs
<1>3. TypeOK' /\ LivesOn'
  BY <1>0, <1>1, <1>2, TasksLiveOn
<1> QED  BY <1>0, <1>1, <1>3 DEF DeliveryInv, DeliveryTypeOK, OwnerIsRun, Ledgered, RecordsSpawn, Announces

LEMMA SpawnKeeps ==
  ASSUME DeliveryInv, NEW t \in Tasks, AgentSpawn(t) \/ SpawnStarts(t) \/ SpawnFails(t)
  PROVE  DeliveryInv'
<1>0. DeliveryTypeOK /\ TypeOK /\ OwnerIsRun /\ LivesOn /\ Ledgered /\ RecordsSpawn
  BY DEF DeliveryInv, DeliveryTypeOK
<1>1. TaskActs(t) /\ run \notin {"waiting", "ledgering"} /\ run' \in {"spawning", "ledgering", "exit"}
      /\ UNCHANGED <<retired, closing, runCancel, recheck, transcript, ledger, lost, observing, pushed, announced>>
  BY <1>0 DEF AgentSpawn, SpawnStarts, SpawnFails, TaskActs, Work, Register, StartWorker, StartFails, events, Calls,
         DeliveryTypeOK
<1>2. /\ spawn_record = {}
      /\ SpawnStarts(t) => spawn_record' = {t} /\ run' = "ledgering"
      /\ ~SpawnStarts(t) => spawn_record' = {}
  <2>1. spawn_record = {}
    BY <1>0, <1>1 DEF RecordsSpawn
  <2>2. CASE SpawnStarts(t)
    BY <2>1, <2>2 DEF SpawnStarts
  <2>3. CASE ~SpawnStarts(t)
    BY <2>1, <2>3 DEF AgentSpawn, SpawnFails
  <2> QED  BY <2>1, <2>2, <2>3
<1>3. AgentsMove
  BY <1>0, <1>1, TaskActsMove
<1>4. TypeOK' /\ LivesOn' /\ UNCHANGED <<wait, claimed>>
  BY <1>0, <1>1, <1>3, TasksLiveOn DEF AgentsMove
<1>5. DeliveryTypeOK' /\ OwnerIsRun' /\ Announces'
  BY <1>0, <1>1, <1>2, <1>4 DEF DeliveryTypeOK, OwnerIsRun, Announces, Active
<1>6. RecordsSpawn'
  BY <1>2 DEF RecordsSpawn
<1>7. Ledgered'
  <2>1. CASE SpawnStarts(t)
    <3>1. \A s \in Tasks \ {t} : agents'[s] = agents[s]
      BY <1>0, <2>1 DEF SpawnStarts, StartWorker, TypeOK
    <3> QED  BY <1>0, <1>1, <1>2, <2>1, <3>1 DEF Ledgered, Started, Delivered
  <2>2. CASE ~SpawnStarts(t)
    <3>1. Register(t, "Running") \/ StartFails(t)
      BY <2>2 DEF AgentSpawn, SpawnFails
    <3> QED  BY <1>0, <1>1, <1>2, <2>2, <3>1, OwedBefore DEF Ledgered, Started, Delivered
  <2> QED  BY <2>1, <2>2
<1> QED  BY <1>4, <1>5, <1>6, <1>7 DEF DeliveryInv

LEMMA SpawnLedgeredKeeps ==
  ASSUME DeliveryInv, SpawnLedgered
  PROVE  DeliveryInv'
<1>0. DeliveryTypeOK /\ TypeOK /\ OwnerIsRun /\ LivesOn /\ Ledgered
  BY DEF DeliveryInv, DeliveryTypeOK
<1>1. /\ run = "ledgering" /\ run' = "batch" /\ ledger' = ledger \cup spawn_record /\ spawn_record' = {}
      /\ UNCHANGED <<agents, retired, closing, wait, claimed, runCancel, recheck, transcript, lost, observing,
                     pushed, announced>>
  BY DEF SpawnLedgered, vars, events
<1>2. TypeOK' /\ LivesOn' /\ Ledgered'
  BY <1>0, <1>1 DEF TypeOK, Waiting, LivesOn, Ledgered, Started, Given, Emitted, Delivered
<1>3. DeliveryTypeOK' /\ OwnerIsRun' /\ RecordsSpawn' /\ Announces'
  BY <1>0, <1>1, <1>2 DEF DeliveryTypeOK, OwnerIsRun, RecordsSpawn, Announces, Active
<1> QED  BY <1>2, <1>3 DEF DeliveryInv

\* The wait of the run's thread.
LEMMA TaskWaitKeeps ==
  ASSUME DeliveryInv,
         \/ \E ws \in (SUBSET Registered) \ {{}} : TaskWait(ws)
         \/ TaskWaitClock \/ TaskWaitStep \/ TaskWaitAborts
  PROVE  DeliveryInv'
<1>0. DeliveryTypeOK /\ TypeOK /\ OwnerIsRun /\ LivesOn /\ Ledgered /\ RecordsSpawn /\ wait \in WaitRecord
      /\ (wait.todo # {} => Waiting)
  BY DEF DeliveryInv, DeliveryTypeOK, TypeOK, WaitRecord
<1>1. WaitActs
  BY DEF TaskWait, TaskWaitClock, TaskWaitStep, TaskWaitAborts, WaitActs, WaitStep, Registered
<1>2. UNCHANGED <<retired, closing, runCancel, recheck, transcript, ledger, spawn_record, lost, observing, pushed, announced>>
  BY DEF TaskWait, TaskWaitClock, TaskWaitStep, TaskWaitAborts, WaitStart, Clock, Drain, WaitTest, WaitIdle,
         WaitReturn, WaitExpire, WaitHeartbeat, WaitAbort, host, events
<1>3. TypeOK' /\ LivesOn'
  BY <1>0, <1>1, <1>2, WaitLivesOn
<1>4. /\ run' = "waiting" \/ (run' = "exit" /\ wait' = NoWait)
      /\ wait'.pc # "returned" => claimed' = NoEnvelopes
  <2>1. ASSUME NEW ws \in (SUBSET Registered) \ {{}}, TaskWait(ws)
        PROVE  run' = "waiting" /\ claimed' = NoEnvelopes
    <3>1. run # "waiting" /\ claimed' = claimed /\ run' = "waiting"
      BY <2>1 DEF TaskWait, WaitStart, Calls
    <3>2. wait.pc = "none"
      BY <1>0, <3>1 DEF OwnerIsRun, NoWait
    <3> QED  BY <1>0, <3>1, <3>2 DEF OwnerIsRun
  <2>2. CASE TaskWaitClock
    <3>1. run = "waiting" /\ run' = run /\ claimed' = claimed /\ wait'.pc = wait.pc
      BY <1>0, <2>2 DEF TaskWaitClock, Clock, host, OwnerIsRun, NoWait, Waiting, WaitRecord
    <3> QED  BY <1>0, <3>1 DEF OwnerIsRun
  <2>3. CASE TaskWaitStep
    <3>1. run' = "waiting"
      BY <2>3 DEF TaskWaitStep, host
    <3>2. ASSUME NEW t \in Tasks, Drain(t) PROVE wait'.pc # "returned" => claimed' = NoEnvelopes
      BY <1>0, <3>2 DEF Drain, OwnerIsRun, WaitRecord
    <3>3. CASE WaitTest \/ WaitIdle \/ WaitReturn \/ WaitExpire \/ WaitHeartbeat
      <4>1. Waiting /\ wait.pc # "returned"
        BY <3>3 DEF WaitTest, WaitIdle, WaitReturn, WaitExpire, WaitHeartbeat, Waiting
      <4>2. claimed' = claimed \/ wait'.pc = "returned"
        BY <1>0, <3>3 DEF WaitTest, WaitIdle, WaitReturn, WaitExpire, WaitHeartbeat, Return, NoWait
      <4> QED  BY <1>0, <3>1, <4>1, <4>2 DEF OwnerIsRun
    <3>4. (\E t \in Tasks : Drain(t)) \/ WaitTest \/ WaitIdle \/ WaitReturn \/ WaitExpire \/ WaitHeartbeat
      BY <2>3 DEF TaskWaitStep
    <3> QED  BY <3>1, <3>2, <3>3, <3>4
  <2>4. CASE TaskWaitAborts
    BY <1>0, <2>4 DEF TaskWaitAborts, WaitAbort, OwnerIsRun
  <2> QED  BY <2>1, <2>2, <2>3, <2>4
<1>5. run # "ledgering"
  BY <1>0 DEF TaskWait, Calls, TaskWaitClock, Clock, Waiting, TaskWaitStep, TaskWaitAborts, OwnerIsRun, NoWait
<1>6. DeliveryTypeOK' /\ OwnerIsRun' /\ RecordsSpawn' /\ Announces'
  BY <1>0, <1>2, <1>3, <1>4, <1>5 DEF DeliveryTypeOK, OwnerIsRun, RecordsSpawn, Announces, Active
<1>7. Ledgered'
  <2>1. \A t \in Tasks : agents'[t].worker = agents[t].worker
    BY <1>0, <1>1, WaitActsShift DEF EnvelopesShift
  <2> QED  BY <1>0, <1>2, <2>1 DEF Ledgered, Started, Delivered
<1> QED  BY <1>3, <1>6, <1>7 DEF DeliveryInv

\* Joining streams adds up their results; a result in the first part stays found.
LEMMA TranscriptGrows ==
  ASSUME NEW x \in Seq(Envelope), NEW y \in Seq(Envelope), Count(x) # 0
  PROVE  \E i \in DOMAIN (x \o y) : IsResult((x \o y)[i])
<1>1. x \o y \in Seq(Envelope) /\ Count(x \o y) = Count(x) + Count(y) /\ Count(x) \in Nat /\ Count(y) \in Nat
  BY CountConcat, CountIsNat
<1> DEFINE z == x \o y
<1>2. z \in Seq(Envelope) /\ Count(z) # 0
  BY <1>1
<1> HIDE DEF z
<1>3. \E i \in DOMAIN z : IsResult(z[i])
  BY <1>2, SomeResult
<1> QED  BY <1>3 DEF z

\* The count of what exists, after a step of known parts.
LEMMA GivenAfter ==
  ASSUME NEW t \in Tasks, NEW x \in Seq(Envelope), NEW o \in Seq(Envelope),
         transcript'[t] = x, agents'[t].outbox = o, wait' = NoWait, claimed' = NoEnvelopes
  PROVE  Count(Given(t)') = Count(x) + Count(o)
<1> DEFINE e == <<>>
<1>1. e \in Seq(Envelope) /\ Count(e) = 0
  BY CountEmpty
<1>2. Given(t)' = x \o (e \o e \o o)
  BY NoWaitRecord DEF Given, Emitted
<1> HIDE DEF e
<1>3. Count(x \o (e \o e \o o)) = Count(x) + Count(e) + Count(e) + Count(o)
      /\ Count(x) \in Nat /\ Count(o) \in Nat
  BY <1>1, CountGiven
<1> QED  BY <1>1, <1>2, <1>3

LEMMA FoldKeeps ==
  ASSUME DeliveryInv, NEW durable \in BOOLEAN, Fold(durable)
  PROVE  DeliveryInv'
<1>0. DeliveryTypeOK /\ TypeOK /\ OwnerIsRun /\ LivesOn /\ Ledgered /\ RecordsSpawn
  BY DEF DeliveryInv, DeliveryTypeOK
<1>1. /\ run = "head" /\ run' = "round" /\ SettleDelivered(durable)
      /\ UNCHANGED <<retired, closing, wait, claimed, runCancel, recheck, spawn_record, lost, observing, pushed, announced>>
  BY DEF Fold, events
<1>2. wait = NoWait /\ claimed = NoEnvelopes /\ spawn_record = {}
  BY <1>0, <1>1 DEF OwnerIsRun, NoWait, RecordsSpawn
<1>3. ASSUME NEW t \in Tasks
      PROVE  /\ agents'[t] \in AgentShared /\ agents'[t].outbox = Keep(agents[t].outbox, Updates)
             /\ agents'[t].status = agents[t].status /\ agents'[t].worker = agents[t].worker
             /\ transcript'[t] = transcript[t] \o Keep(agents[t].outbox, {Result})
             /\ transcript'[t] \in Seq(Envelope)
             /\ Count(Given(t)') = Count(Given(t))
             /\ Delivered(t) => Delivered(t)'
             /\ agents'[t].outbox \in Seq(Envelope)
  <2> DEFINE u == Keep(agents[t].outbox, Updates)
             r == Keep(agents[t].outbox, {Result})
             x == transcript[t]
  <2>1. u \in Seq(Envelope) /\ r \in Seq(Envelope) /\ Count(r) = Count(agents[t].outbox) /\ Count(u) = 0
    BY <1>0, StreamTypes, CountSplit
  <2>2. x \in Seq(Envelope) /\ agents[t] \in AgentShared
    BY <1>0, GivenTypes
  <2>3. agents'[t] = [agents[t] EXCEPT !.outbox = u] /\ transcript'[t] = x \o r
    BY DEF Fold
  <2>4. Count(Given(t)) = Count(x) + 0 + 0 + Count(agents[t].outbox) /\ Count(x) \in Nat
        /\ Count(agents[t].outbox) \in Nat
    <3>1. wait.buffered[t] = <<>> /\ claimed[t] = <<>>
      BY <1>2, NoWaitRecord
    <3> QED  BY <1>0, <3>1, GivenTypes, CountEmpty
  <2>5. Delivered(t) <=> Count(x) # 0
    BY <2>2, SomeResult DEF Delivered
  <2> HIDE DEF u, r, x
  <2>6. /\ agents'[t] \in AgentShared /\ agents'[t].outbox = u
        /\ agents'[t].status = agents[t].status /\ agents'[t].worker = agents[t].worker
    BY <2>1, <2>2, <2>3 DEF AgentShared
  <2>7. x \o r \in Seq(Envelope) /\ Count(x \o r) = Count(x) + Count(r)
    BY <2>1, <2>2, CountConcat
  <2>8. Count(Given(t)') = Count(x \o r) + Count(u)
    <3> DEFINE y == x \o r
    <3>1. y \in Seq(Envelope) /\ transcript'[t] = y
      BY <2>3, <2>7
    <3> HIDE DEF y
    <3>2. Count(Given(t)') = Count(y) + Count(u)
      BY <1>1, <1>2, <2>1, <2>6, <3>1, GivenAfter
    <3> QED  BY <3>2 DEF y
  <2>9. Delivered(t) => Delivered(t)'
    <3>1. Delivered(t) => \E i \in DOMAIN (x \o r) : IsResult((x \o r)[i])
      BY <2>1, <2>2, <2>5, TranscriptGrows
    <3> QED  BY <2>3, <3>1 DEF Delivered
  <2>10. Count(Given(t)') = Count(Given(t))
    BY <2>1, <2>4, <2>7, <2>8
  <2> QED  BY <2>1, <2>3, <2>6, <2>7, <2>9, <2>10 DEF u, r, x
<1>4. agents' \in [Tasks -> AgentShared] /\ transcript' \in [Tasks -> Seq(Envelope)]
  BY <1>3 DEF Fold
<1>5. TypeOK'
  BY <1>0, <1>1, <1>4 DEF TypeOK, Waiting
<1>6. LivesOn'
  BY <1>0, <1>1, <1>3 DEF LivesOn, Life
<1>7. Ledgered'
  BY <1>0, <1>1, <1>2, <1>3, <1>6, CheckpointKeepsLedger
<1>8. ledger' \subseteq Tasks
  BY <1>0, <1>1 DEF SettleDelivered, DeliveryTypeOK
<1>9. DeliveryTypeOK' /\ OwnerIsRun' /\ RecordsSpawn' /\ Announces'
  BY <1>0, <1>1, <1>4, <1>5, <1>8 DEF DeliveryTypeOK, OwnerIsRun, RecordsSpawn, Announces, Active
<1> QED  BY <1>6, <1>7, <1>9 DEF DeliveryInv

LEMMA BatchEndsKeeps ==
  ASSUME DeliveryInv, NEW durable \in BOOLEAN, BatchEnds(durable)
  PROVE  DeliveryInv'
<1>0. DeliveryTypeOK /\ TypeOK /\ OwnerIsRun /\ LivesOn /\ Ledgered /\ RecordsSpawn
  BY DEF DeliveryInv, DeliveryTypeOK
<1>1. /\ run = "batch" /\ run' \in {"head", "exit"} /\ SettleDelivered(durable)
      /\ UNCHANGED <<agents, retired, closing, wait, claimed, runCancel, recheck, transcript, spawn_record, lost,
                     observing, pushed, announced>>
  BY DEF BatchEnds, events
<1>2. wait = NoWait /\ claimed = NoEnvelopes /\ spawn_record = {}
  BY <1>0, <1>1 DEF OwnerIsRun, NoWait, RecordsSpawn
<1>3. TypeOK' /\ LivesOn'
  BY <1>0, <1>1 DEF TypeOK, Waiting, LivesOn, Given, Emitted
<1>4. Ledgered'
  <2>1. \A t \in Tasks : /\ agents'[t].outbox \in Seq(Envelope) /\ transcript'[t] \in Seq(Envelope)
                         /\ Delivered(t) => Delivered(t)'
    BY <1>0, <1>1, GivenTypes DEF Delivered
  <2> QED  BY <1>0, <1>1, <1>2, <1>3, <2>1, CheckpointKeepsLedger
<1>5. ledger' \subseteq Tasks
  BY <1>0, <1>1 DEF SettleDelivered, DeliveryTypeOK
<1>6. DeliveryTypeOK' /\ OwnerIsRun' /\ RecordsSpawn' /\ Announces'
  BY <1>0, <1>1, <1>3, <1>5 DEF DeliveryTypeOK, OwnerIsRun, RecordsSpawn, Announces, Active
<1> QED  BY <1>3, <1>4, <1>6 DEF DeliveryInv

\* The end of a wait: its claim goes into the transcript, or is lost.
LEMMA TaskWaitEndKeeps ==
  ASSUME DeliveryInv, TaskWaitSettles \/ TaskWaitRefused
  PROVE  DeliveryInv'
<1>0. DeliveryTypeOK /\ TypeOK /\ OwnerIsRun /\ LivesOn /\ Ledgered /\ RecordsSpawn
  BY DEF DeliveryInv, DeliveryTypeOK
<1>1. /\ run' \in {"batch", "exit"} /\ wait' = NoWait /\ claimed' = NoEnvelopes /\ ~Waiting
      /\ UNCHANGED <<agents, retired, closing, runCancel, recheck, ledger, spawn_record, observing, pushed, announced>>
      /\ run # "ledgering"
  BY DEF TaskWaitSettles, TaskWaitRefused, events, Waiting
<1>2. ASSUME NEW t \in Tasks
      PROVE  /\ Count(Given(t)) = Count(transcript[t]) + Count(claimed[t]) + Count(agents[t].outbox)
             /\ Count(transcript[t]) \in Nat /\ Count(claimed[t]) \in Nat /\ Count(agents[t].outbox) \in Nat
             /\ transcript[t] \in Seq(Envelope) /\ claimed[t] \in Seq(Envelope)
             /\ agents[t].outbox \in Seq(Envelope)
             /\ Life(agents[t], Count(Given(t)), t \in lost)
  <2>1. wait.buffered[t] = <<>>
    BY <1>0, <1>1, NoWaitRecord DEF TypeOK
  <2> QED  BY <1>0, <2>1, GivenTypes, CountEmpty DEF LivesOn
<1>3. TypeOK'
  BY <1>0, <1>1, NoWaitRecord DEF TypeOK, WaitRecord
<1>4. CASE TaskWaitSettles
  <2>1. lost' = lost
    BY <1>4 DEF TaskWaitSettles
  <2>2. ASSUME NEW t \in Tasks
        PROVE  /\ transcript'[t] \in Seq(Envelope) /\ Count(Given(t)') = Count(Given(t))
               /\ Delivered(t) => Delivered(t)'
    <3> DEFINE x == transcript[t]
               c == claimed[t]
               o == agents[t].outbox
               y == x \o c
    <3>1. transcript'[t] = y /\ agents'[t].outbox = o /\ (Delivered(t) <=> Count(x) # 0)
      BY <1>1, <1>2, <1>4, SomeResult DEF TaskWaitSettles, Delivered
    <3>2. x \in Seq(Envelope) /\ c \in Seq(Envelope) /\ o \in Seq(Envelope)
      BY <1>2
    <3>3. Count(Given(t)) = Count(x) + Count(c) + Count(o)
      BY <1>2
    <3> HIDE DEF x, c, o
    <3>4. y \in Seq(Envelope) /\ Count(y) = Count(x) + Count(c)
      BY <3>2, CountConcat
    <3>5. Count(x) # 0 => \E i \in DOMAIN y : IsResult(y[i])
      BY <3>2, TranscriptGrows
    <3> HIDE DEF y
    <3>6. Count(Given(t)') = Count(y) + Count(o)
      BY <1>1, <3>1, <3>2, <3>4, GivenAfter
    <3>7. Delivered(t) => Delivered(t)'
      BY <3>1, <3>5 DEF Delivered
    <3>8. Count(x) \in Nat /\ Count(c) \in Nat /\ Count(o) \in Nat
      BY <3>2, CountIsNat
    <3> QED  BY <3>1, <3>3, <3>4, <3>6, <3>7, <3>8
  <2>3. transcript' \in [Tasks -> Seq(Envelope)]
    BY <1>4, <2>2 DEF TaskWaitSettles
  <2>4. LivesOn'
    BY <1>0, <1>1, <2>1, <2>2 DEF LivesOn
  <2>5. Ledgered'
    BY <1>0, <1>1, <2>1, <2>2 DEF Ledgered, Started
  <2>6. DeliveryTypeOK' /\ OwnerIsRun' /\ RecordsSpawn' /\ Announces'
    BY <1>0, <1>1, <1>3, <2>1, <2>3 DEF DeliveryTypeOK, OwnerIsRun, RecordsSpawn, Announces, Active
  <2> QED  BY <2>4, <2>5, <2>6 DEF DeliveryInv
<1>5. CASE TaskWaitRefused
  <2>1. lost' = lost \cup {t \in Tasks : claimed[t] # <<>>} /\ transcript' = transcript
    BY <1>5 DEF TaskWaitRefused
  <2>2. ASSUME NEW t \in Tasks PROVE Life(agents'[t], Count(Given(t)'), t \in lost')
    <3> DEFINE n == Count(Given(t))
               m == Count(Given(t)')
    <3>1. m = Count(transcript[t]) + Count(agents[t].outbox)
      BY <1>1, <1>2, <2>1, GivenAfter
    <3>2. m \in Nat /\ m <= n /\ n \in Nat /\ (claimed[t] = <<>> => m = n)
      BY <1>2, <3>1, CountEmpty
    <3>3. agents'[t] = agents[t] /\ Life(agents[t], n, t \in lost)
      BY <1>1, <1>2
    <3> HIDE DEF n, m
    <3>4. ASSUME claimed[t] = <<>> PROVE Life(agents'[t], m, t \in lost')
      BY <2>1, <3>2, <3>3, <3>4 DEF Life
    <3>5. ASSUME claimed[t] # <<>> PROVE Life(agents'[t], m, t \in lost')
      BY <2>1, <3>2, <3>3, <3>5 DEF Life
    <3>6. Life(agents'[t], m, t \in lost')
      BY <3>4, <3>5
    <3> QED  BY <3>6 DEF m
  <2>3. LivesOn'
    BY <2>2 DEF LivesOn
  <2>4. Ledgered'
    BY <1>0, <1>1, <2>1 DEF Ledgered, Started, Delivered
  <2>5. DeliveryTypeOK' /\ OwnerIsRun' /\ RecordsSpawn' /\ Announces'
    BY <1>0, <1>1, <1>3, <2>1 DEF DeliveryTypeOK, OwnerIsRun, RecordsSpawn, Announces, Active
  <2> QED  BY <2>3, <2>4, <2>5 DEF DeliveryInv
<1> QED  BY <1>4, <1>5

LEMMA DeliveryStarts ==
  ASSUME DeliveryInit
  PROVE  DeliveryInv
<1>1. PoolInv
  BY PoolInit DEF DeliveryInit
<1>2. DeliveryTypeOK
  BY <1>1, NoWaitRecord DEF DeliveryInit, DeliveryTypeOK, PoolInv
<1>3. ASSUME NEW t \in Tasks PROVE Life(agents[t], Count(Given(t)), t \in lost)
  <2>1. Emitted(t) \in Seq(Envelope) /\ Life(agents[t], Count(Emitted(t)), FALSE)
    BY <1>1, StreamTypes DEF PoolInv, TaskInOrder
  <2>2. transcript[t] = <<>> /\ (t \in lost) = FALSE
    BY NoWaitRecord DEF DeliveryInit
  <2>3. Given(t) = Emitted(t)
    BY <2>1, <2>2, ConcatEmptySeq DEF Given
  <2> QED  BY <2>1, <2>2, <2>3
<1>4. \A t \in Tasks : agents[t].worker = "none" /\ agents[t].outbox = <<>>
  BY DEF DeliveryInit, Init, Unregistered
<1>5. Ledgered /\ Announces
  BY <1>4 DEF Ledgered, Started, Announces, HasUndrainedFoldableResults, HasResult
<1>6. OwnerIsRun /\ RecordsSpawn
  BY DEF DeliveryInit, Init, OwnerIsRun, RecordsSpawn
<1> QED  BY <1>2, <1>3, <1>5, <1>6 DEF DeliveryInv, LivesOn

LEMMA DeliveryStep ==
  ASSUME DeliveryInv, [DeliveryNext]_dvars
  PROVE  DeliveryInv'
<1>1. CASE UNCHANGED dvars
  BY <1>1 DEF dvars, host, events, DeliveryInv, DeliveryTypeOK, TypeOK, Waiting, OwnerIsRun, LivesOn, Given, Emitted,
              Ledgered, Started, RecordsSpawn, Delivered, Announces, Active, HasUndrainedFoldableResults, HasResult
<1>2. CASE HostActs
  BY <1>2, HostActsKeep
<1>3. CASE \E t \in Tasks : TaskStep(t)
  BY <1>3, TaskStepKeeps
<1>4. CASE RetireConversationTasks
  BY <1>4, RetireKeeps
<1>5. CASE \E durable \in BOOLEAN : Fold(durable) \/ BatchEnds(durable)
  BY <1>5, FoldKeeps, BatchEndsKeeps
<1>6. CASE (\E t \in Tasks : AgentSpawn(t) \/ SpawnStarts(t) \/ SpawnFails(t)) \/ SpawnLedgered
  BY <1>6, SpawnKeeps, SpawnLedgeredKeeps
<1>7. CASE \/ \E ws \in (SUBSET Registered) \ {{}} : TaskWait(ws)
           \/ TaskWaitClock \/ TaskWaitStep \/ TaskWaitAborts
  BY <1>7, TaskWaitKeeps
<1>8. CASE TaskWaitSettles \/ TaskWaitRefused
  BY <1>8, TaskWaitEndKeeps
<1> QED  BY <1>1, <1>2, <1>3, <1>4, <1>5, <1>6, <1>7, <1>8 DEF DeliveryNext, RunStep, HostActs

LEMMA DeliveryInvariant == DeliverySpec => []DeliveryInv
  BY DeliveryStarts, DeliveryStep, PTL DEF DeliverySpec

\* What the invariant says of results, the ledger and announcements.
LEMMA DeliveryInvImplies ==
  ASSUME DeliveryInv
  PROVE  ResultIsSomewhere /\ LedgerCoversOwed /\ HostAnnounces
<1>1. ASSUME NEW t \in Tasks
      PROVE  /\ Len(Keep(transcript[t] \o Emitted(t), {Result})) <= 1
             /\ Ran(t) /\ t \notin lost => Len(Keep(transcript[t] \o Emitted(t), {Result})) = 1
  <2>1. Life(agents[t], Count(Given(t)), t \in lost)
    BY DEF DeliveryInv, LivesOn
  <2>2. Count(Given(t)) = Len(Keep(transcript[t] \o Emitted(t), {Result}))
    BY DEF Count, Given
  <2> QED  BY <2>1, <2>2 DEF Life, Ran, Started, Running
<1>2. LedgerCoversOwed
  BY DEF DeliveryInv, Ledgered, RecordsSpawn, LedgerCoversOwed
<1>3. HostAnnounces
  BY DEF DeliveryInv, Announces, HostAnnounces
<1> QED  BY <1>1, <1>2, <1>3 DEF ResultIsSomewhere

\* api.rs: no fold, wait, abort, forced stop or late worker duplicates or drops
\* a result; the only loss is the card of a wait whose run was cancelled.
THEOREM DeliveryResultIsSomewhere == DeliverySpec => []ResultIsSomewhere
  BY DeliveryInvariant, DeliveryInvImplies, PTL

\* api.rs run_agent_spawn, settle_delivered_subagents: an agent that was started
\* has an entry, except while the run's thread is between its start and the
\* entry, and leaves the ledger only when its result is in the transcript.
THEOREM DeliveryLedgerCoversOwed == DeliverySpec => []LedgerCoversOwed
  BY DeliveryInvariant, DeliveryInvImplies, PTL

\* lib.rs: whether the observer or the recheck of a finished run comes first,
\* a result that waits for an idle conversation has been announced.
THEOREM DeliveryHostAnnounces == DeliverySpec => []HostAnnounces
  BY DeliveryInvariant, DeliveryInvImplies, PTL

\* A deleted conversation publishes nothing and starts no run and no task: the
\* observer, the recheck, the registry and the pool all look at the retired mark.
THEOREM DeliveryRetiredIsSilent == DeliverySpec => RetiredIsSilent
<1>1. ASSUME DeliveryInv, [DeliveryNext]_dvars, retired
      PROVE  (announced' => announced) /\ (run = "begin" => run' \in {"begin", "none"}) /\ Live' \subseteq Live
  <2> DEFINE Silent == (announced' => announced) /\ (run = "begin" => run' \in {"begin", "none"})
  <2>0. TypeOK /\ OwnerIsRun
    BY <1>1 DEF DeliveryInv, DeliveryTypeOK
  <2>1. CASE UNCHANGED dvars
    BY <2>1 DEF dvars, host, events, Live, Running
  <2>2. CASE HostActs
    <3>1. Live' = Live
      BY <2>2 DEF HostActs, SettleObserver, InvokeRunModel, RefuseModelRun, BeginModelRun, CancelModelRun, FinalAnswer,
           RunFails, FinishModelRun, RecheckTaskWake, TakePushEvent, vars, Live, Running
    <3>2. Silent
      BY <1>1, <2>2 DEF HostActs, SettleObserver, InvokeRunModel, RefuseModelRun, BeginModelRun, CancelModelRun,
           FinalAnswer, RunFails, FinishModelRun, RecheckTaskWake, TakePushEvent, host, events, NotPublished
    <3> QED  BY <3>1, <3>2
  <2>3. ASSUME NEW t \in Tasks, TaskStep(t) PROVE Silent /\ Live' \subseteq Live
    <3>1. UNCHANGED <<run, announced>>
      BY <2>3 DEF TaskStep, TimerStep, Observed, host, events
    <3>3. \A s \in Tasks \ {t} : agents'[s] = agents[s]
      BY <2>0, <2>3 DEF TaskStep, TimerStep, CompleteTurn, WorkerPanic, StopTask, StopTimer, TypeOK
    <3>5. agents'[t].status = "Running" => agents[t].status = "Running"
      <4>1. ASSUME NEW st \in Settled, CompleteTurn(t, st) PROVE agents'[t].status = "Running" => agents[t].status = "Running"
        <5>1. agents[t] \in AgentShared /\ Settle(agents[t], st).status = st /\ Settle(agents[t], st) \in AgentShared
          BY <2>0, SettleRecord DEF TypeOK
        <5> QED  BY <2>0, <4>1, <5>1 DEF CompleteTurn, TypeOK, Running, AgentShared
      <4>2. CASE WorkerPanic(t)
        <5>1. agents[t] \in AgentShared /\ Settle(agents[t], "Failed").status = "Failed"
          BY <2>0, SettleRecord, SettledStatus DEF TypeOK
        <5> QED  BY <2>0, <4>2, <5>1 DEF WorkerPanic, TypeOK, Running
      <4>3. CASE StopTask(t)
        BY <4>3 DEF StopTask, Running
      <4>4. CASE StopTimer(t)
        <5>1. agents[t] \in AgentShared
          BY <2>0 DEF TypeOK
        <5>2. SettleCancelled(agents[t]) = agents[t] \/ agents[t].status = "Running"
          BY <5>1, SettleCancelledRecord DEF SettlesOnce
        <5> QED  BY <2>0, <4>4, <5>1, <5>2 DEF StopTimer, TypeOK, AgentShared
      <4> QED  BY <2>3, <4>1, <4>2, <4>3, <4>4 DEF TaskStep, TimerStep
    <3>6. Live' \subseteq Live
      BY <3>3, <3>5 DEF Live, Running
    <3> QED  BY <3>1, <3>6
  <2>4. CASE \E durable \in BOOLEAN : Fold(durable) \/ BatchEnds(durable)
    <3>1. PICK durable \in BOOLEAN : Fold(durable) \/ BatchEnds(durable)
      BY <2>4
    <3>2. \A t \in Tasks : agents'[t].status = agents[t].status
      <4>1. CASE Fold(durable)
        <5> SUFFICES ASSUME NEW t \in Tasks PROVE agents'[t].status = agents[t].status
          OBVIOUS
        <5>1. agents[t] \in AgentShared
          BY <2>0 DEF TypeOK
        <5>2. agents'[t] = [agents[t] EXCEPT !.outbox = Keep(@, Updates)]
          BY <4>1 DEF Fold
        <5> QED  BY <5>1, <5>2 DEF AgentShared
      <4>2. CASE BatchEnds(durable)
        BY <4>2 DEF BatchEnds
      <4> QED  BY <3>1, <4>1, <4>2
    <3>3. Live' = Live
      BY <3>2 DEF Live, Running
    <3>4. announced' = announced /\ run # "begin"
      BY <3>1 DEF Fold, BatchEnds, events
    <3> QED  BY <3>3, <3>4
  <2>6. ASSUME NEW t \in Tasks, AgentSpawn(t) \/ SpawnStarts(t) \/ SpawnFails(t) PROVE Silent /\ Live' \subseteq Live
    <3>1. ~AgentSpawn(t)
      BY <1>1 DEF AgentSpawn, Register
    <3>2. \A s \in Tasks : agents'[s].status = "Running" => agents[s].status = "Running"
      <4>0. agents \in [Tasks -> AgentShared]
        BY <2>0 DEF TypeOK
      <4>1. CASE SpawnStarts(t)
        BY <4>0, <4>1 DEF SpawnStarts, StartWorker, AgentShared
      <4>2. CASE SpawnFails(t)
        BY <4>0, <4>2 DEF SpawnFails, StartFails, AgentShared, Running
      <4> QED  BY <2>6, <3>1, <4>1, <4>2
    <3>3. Live' \subseteq Live
      BY <3>2 DEF Live, Running
    <3>4. Silent
      BY <2>6, <3>1 DEF SpawnStarts, SpawnFails, events
    <3> QED  BY <3>3, <3>4
  <2>7. CASE \/ \E ws \in (SUBSET Registered) \ {{}} : TaskWait(ws)
             \/ TaskWaitClock \/ TaskWaitStep \/ TaskWaitAborts
    <3>1. WaitActs
      BY <2>7 DEF TaskWait, TaskWaitClock, TaskWaitStep, TaskWaitAborts, WaitActs, WaitStep, Registered
    <3>2. Live' = Live
      BY <2>0, <3>1, WaitActsShift DEF EnvelopesShift, Live, Running
    <3>3. Silent
      BY <2>7 DEF TaskWait, TaskWaitClock, TaskWaitStep, TaskWaitAborts, Calls, host, events
    <3> QED  BY <3>2, <3>3
  <2>8. CASE TaskWaitSettles \/ TaskWaitRefused \/ SpawnLedgered
    <3>1. agents' = agents /\ announced' = announced /\ run # "begin"
      BY <2>8 DEF TaskWaitSettles, TaskWaitRefused, SpawnLedgered, vars, events
    <3>2. Live' = Live
      BY <3>1 DEF Live, Running
    <3> QED  BY <3>1, <3>2
  <2>5. CASE RetireConversationTasks
    BY <1>1, <2>5 DEF RetireConversationTasks, Retire
  <2> QED  BY <1>1, <2>1, <2>2, <2>3, <2>4, <2>5, <2>6, <2>7, <2>8 DEF DeliveryNext, RunStep, HostActs
<1>2. DeliveryInv /\ [DeliveryNext]_dvars =>
        [retired => /\ announced' => announced
                    /\ run = "begin" => run' \in {"begin", "none"}
                    /\ Live' \subseteq Live]_dvars
  BY <1>1
<1> QED  BY <1>2, DeliveryInvariant, PTL DEF DeliverySpec, RetiredIsSilent

-----------------------------------------------------------------------------
(* The wake protocol *)

\* Whatever the renderer does, the host runs as TaskDelivery says.
THEOREM WakeImplementsDelivery == WakeSpec => DeliverySpec
<1>1. WakeInit => DeliveryInit
  BY DEF WakeInit
<1>2. ASSUME DeliveryInv, [WakeNext]_wvars PROVE [DeliveryNext]_dvars
  <2>1. CASE UNCHANGED wvars
    BY <2>1 DEF wvars
  <2>2. CASE HostStep
    BY <2>2 DEF HostStep, DeliveryNext
  <2>4. CASE StreamBegins \/ StreamSettles
    BY <2>4 DEF StreamBegins, StreamSettles
  <2>3. CASE RendererStep
    <3>1. CASE TaskSettledArrives \/ PerformModelRun \/ RunRefused \/ TaskSettledLost
      BY <3>1 DEF TaskSettledArrives, PerformModelRun, RunRefused, TaskSettledLost, DeliveryNext
    <3>2. CASE \/ WakeEffect \/ UserSend \/ UserQueues \/ QueueEmpties \/ DispatchNextQueuedMessage \/ PrepareFails
               \/ RunResolves \/ AdoptResumableRuns \/ WakePendingConversations
      BY <3>2 DEF WakeEffect, UserSend, UserQueues, QueueEmpties, DispatchNextQueuedMessage, PrepareFails,
                  RunResolves, AdoptResumableRuns, WakePendingConversations
    <3>3. CASE Reload
      <4>1. CASE pushed
        BY <3>3, <4>1 DEF Reload, TakePushEvent, DeliveryNext
      <4>2. CASE ~pushed
        <5>1. pushed' = pushed
          BY <1>2, <3>3, <4>2 DEF Reload, DeliveryInv, DeliveryTypeOK
        <5> QED  BY <3>3, <5>1 DEF Reload, dvars, events, vars
      <4> QED  BY <4>1, <4>2
    <3> QED  BY <2>3, <3>1, <3>2, <3>3 DEF RendererStep
  <2> QED  BY <1>2, <2>1, <2>2, <2>3, <2>4 DEF WakeNext
<1>3. DeliveryInv /\ [WakeNext]_wvars => [DeliveryNext]_dvars /\ DeliveryInv'
  BY <1>2, DeliveryStep
<1>4. WakeInit => DeliveryInv
  BY <1>1, DeliveryStarts
<1> QED  BY <1>1, <1>3, <1>4, PTL DEF WakeSpec, DeliverySpec

\* Something on either side will still look at a result that waits.
SomebodyLooks ==
  \/ run # "none" \/ recheck \/ observing # {} \/ pushed
  \/ renderer.rescan \/ renderer.wake \/ renderer.preparing = "wake"

WakeInv ==
  /\ DeliveryInv
  /\ renderer \in Renderer
  /\ swallowed \in BOOLEAN
  /\ ~renderer.adopted => renderer.rescan
  /\ ~retired /\ HasUndrainedFoldableResults => SomebodyLooks \/ swallowed

LEMMA RendererKeepsLooking ==
  ASSUME WakeInv, DeliveryInv', RendererStep
  PROVE  WakeInv'
<1>0. renderer \in Renderer /\ swallowed \in BOOLEAN /\ DeliveryTypeOK
  BY DEF WakeInv, DeliveryInv
<1>1. retired' = retired /\ (HasUndrainedFoldableResults' <=> HasUndrainedFoldableResults)
      /\ UNCHANGED <<recheck, observing>>
  BY DEF RendererStep, TaskSettledArrives, WakeEffect, UserSend, UserQueues, QueueEmpties, DispatchNextQueuedMessage,
         PrepareFails, PerformModelRun, RunRefused, RunResolves, events, Reload, TaskSettledLost, AdoptResumableRuns, WakePendingConversations, TakePushEvent, InvokeRunModel,
         RefuseModelRun, dvars, vars, host, HasUndrainedFoldableResults, HasResult
<1> DEFINE Keeps == /\ renderer' \in Renderer /\ swallowed' \in BOOLEAN
                    /\ ~renderer'.adopted => renderer'.rescan
                    /\ ~retired' /\ HasUndrainedFoldableResults' => SomebodyLooks' \/ swallowed'
<1> USE DEF SomebodyLooks
<1>2. CASE TaskSettledArrives
  BY <1>0, <1>1, <1>2 DEF TaskSettledArrives, WakeInv, Renderer
<1>3. CASE WakeEffect
  <2>1. UNCHANGED <<run, pushed>>
    BY <1>3 DEF WakeEffect, dvars, host, events
  <2> QED  BY <1>0, <1>1, <1>3, <2>1 DEF WakeEffect, WakeInv, Renderer
<1>4. CASE UserSend \/ UserQueues \/ QueueEmpties \/ DispatchNextQueuedMessage
  <2>1. UNCHANGED <<run, pushed>>
    BY <1>4 DEF UserSend, UserQueues, QueueEmpties, DispatchNextQueuedMessage, dvars, host, events
  <2> QED  BY <1>0, <1>1, <1>4, <2>1 DEF UserSend, UserQueues, QueueEmpties, DispatchNextQueuedMessage, Unoccupied,
               WakeInv, Renderer
<1>5. CASE PrepareFails
  <2>1. UNCHANGED <<run, pushed>>
    BY <1>5 DEF PrepareFails, dvars, host, events
  <2> QED  BY <1>0, <1>1, <1>5, <2>1 DEF PrepareFails, WakeInv, Renderer
<1>6. CASE PerformModelRun
  <2>1. run' # "none"
    BY <1>6 DEF PerformModelRun, InvokeRunModel, Active, dvars, host
  <2> QED  BY <1>0, <1>1, <1>6, <2>1 DEF PerformModelRun, WakeInv, Renderer
<1>7. CASE RunRefused
  BY <1>0, <1>1, <1>7 DEF RunRefused, WakeInv, Renderer
<1>8. CASE RunResolves
  <2>1. UNCHANGED <<run, pushed>>
    BY <1>8 DEF RunResolves, dvars, host, events
  <2> QED  BY <1>0, <1>1, <1>8, <2>1 DEF RunResolves, WakeInv, Renderer
<1>9. CASE Reload
  BY <1>0, <1>1, <1>9 DEF Reload, WakeInv, Renderer, Loaded
<1>10. CASE TaskSettledLost
  BY <1>0, <1>1, <1>10 DEF TaskSettledLost, WakeInv
<1>11. CASE AdoptResumableRuns
  <2>1. UNCHANGED <<run, pushed>>
    BY <1>11 DEF AdoptResumableRuns, dvars, host, events
  <2> QED  BY <1>0, <1>1, <1>11, <2>1 DEF AdoptResumableRuns, WakeInv, Renderer
<1>12. CASE WakePendingConversations
  <2>1. UNCHANGED <<run, pushed>>
    BY <1>12 DEF WakePendingConversations, dvars, host, events
  <2> QED  BY <1>0, <1>1, <1>12, <2>1 DEF WakePendingConversations, WakeInv, Renderer, Active
<1> QED  BY <1>2, <1>3, <1>4, <1>5, <1>6, <1>7, <1>8, <1>9, <1>10, <1>11, <1>12 DEF RendererStep

\* A step of the host: it leaves a run registered, or its own step looks.
LEMMA HostKeepsLooking ==
  ASSUME WakeInv, DeliveryInv', HostStep \/ StreamBegins \/ StreamSettles, RendererUnaware
  PROVE  WakeInv'
<1>0. /\ renderer \in Renderer /\ swallowed \in BOOLEAN /\ DeliveryInv /\ DeliveryTypeOK /\ TypeOK /\ OwnerIsRun
      /\ renderer' = renderer /\ swallowed' \in BOOLEAN
      /\ (swallowed' <=> (swallowed /\ run' # "head"))
  BY DEF WakeInv, DeliveryInv, DeliveryTypeOK, RendererUnaware
<1>1. SUFFICES ASSUME ~retired', HasUndrainedFoldableResults', run' = "none", ~recheck', observing' = {}, ~pushed',
                      ~renderer.rescan, ~renderer.wake, renderer.preparing # "wake"
               PROVE  swallowed
  BY <1>0 DEF WakeInv, SomebodyLooks
<1>2. ASSUME NEW t \in Tasks, TaskStep(t) PROVE swallowed
  <2>1. TaskActs(t) /\ Observed /\ retired' = retired
    BY <1>2 DEF TaskStep, TimerStep, TaskActs, Work, CompleteTurn, WorkerPanic, StopTask, StopTimer
  <2>2. AgentsMove
    BY <1>0, <2>1, TaskActsMove
  <2>3. HasUndrainedFoldableResults
    BY <1>0, <1>1, <2>1, <2>2, NewResultsObserved DEF Observed
  <2>4. UNCHANGED <<run, recheck, pushed>> /\ observing = {}
    BY <1>1, <2>1 DEF Observed, host, events
  <2> QED  BY <1>1, <2>1, <2>3, <2>4 DEF WakeInv, SomebodyLooks
<1>3. ASSUME NEW t \in Tasks, SettleObserver(t) PROVE swallowed
  BY <1>1, <1>3 DEF SettleObserver, Publish, Active, host, vars
<1>4. CASE RetireConversationTasks
  BY <1>1, <1>4 DEF RetireConversationTasks, Retire
<1>5. CASE RecheckTaskWake
  <2>1. HasUndrainedFoldableResults /\ ~retired /\ ~Active
    BY <1>1, <1>5 DEF RecheckTaskWake, vars, HasUndrainedFoldableResults, HasResult, Active
  <2> QED  BY <1>1, <1>5, <2>1 DEF RecheckTaskWake, Publish
<1>6. CASE FinishModelRun
  BY <1>1, <1>6 DEF FinishModelRun
<1>7. CASE TaskWaitClock
  BY <1>0, <1>1, <1>7 DEF TaskWaitClock, Clock, Waiting, OwnerIsRun, NoWait, host
<1>8. CASE RunStep /\ ~RecheckTaskWake /\ ~FinishModelRun /\ ~TaskWaitClock
  <2>1. run' # "none"
    <3>1. CASE BeginModelRun \/ CancelModelRun \/ FinalAnswer \/ RunFails \/ TaskWaitSettles \/ TaskWaitRefused
               \/ TaskWaitAborts \/ TaskWaitStep \/ SpawnLedgered
      BY <3>1 DEF SpawnLedgered, BeginModelRun, CancelModelRun, FinalAnswer, RunFails, TaskWaitSettles, TaskWaitRefused,
                  TaskWaitAborts, TaskWaitStep, host, Active
    <3>2. CASE \/ \E durable \in BOOLEAN : Fold(durable) \/ BatchEnds(durable)
               \/ \E t \in Tasks : AgentSpawn(t) \/ SpawnStarts(t) \/ SpawnFails(t)
               \/ \E ws \in (SUBSET Registered) \ {{}} : TaskWait(ws)
      BY <3>2 DEF Fold, BatchEnds, AgentSpawn, SpawnStarts, SpawnFails, TaskWait
    <3> QED  BY <1>8, <3>1, <3>2 DEF RunStep
  <2> QED  BY <1>1, <2>1
<1>9. CASE StreamBegins \/ StreamSettles
  <2>1. UNCHANGED dvars
    BY <1>9 DEF StreamBegins, StreamSettles
  <2> QED  BY <1>0, <1>1, <2>1 DEF WakeInv, SomebodyLooks, dvars, host, events, HasUndrainedFoldableResults, HasResult
<1> QED  BY <1>2, <1>3, <1>4, <1>5, <1>6, <1>7, <1>8, <1>9 DEF HostStep

LEMMA WakeInvariant == WakeSpec => []WakeInv
<1>1. WakeInit /\ DeliveryInv => WakeInv
  <2> SUFFICES ASSUME WakeInit, DeliveryInv PROVE WakeInv
    OBVIOUS
  <2>1. ~HasUndrainedFoldableResults
    BY DEF WakeInit, DeliveryInit, Init, Unregistered, HasUndrainedFoldableResults, HasResult
  <2> QED  BY <2>1 DEF WakeInit, WakeInv, Loaded, Renderer
<1>2. WakeInv /\ [WakeNext]_wvars /\ DeliveryInv' => WakeInv'
  <2> SUFFICES ASSUME WakeInv, [WakeNext]_wvars, DeliveryInv' PROVE WakeInv'
    OBVIOUS
  <2>1. CASE UNCHANGED wvars
    BY <2>1 DEF wvars, dvars, host, events, WakeInv, SomebodyLooks, HasUndrainedFoldableResults, HasResult
  <2>2. CASE RendererStep
    BY <2>2, RendererKeepsLooking
  <2>3. CASE (HostStep \/ StreamBegins \/ StreamSettles) /\ RendererUnaware
    BY <2>3, HostKeepsLooking
  <2> QED  BY <2>1, <2>2, <2>3 DEF WakeNext
<1> QED  BY <1>1, <1>2, WakeImplementsDelivery, DeliveryInvariant, PTL DEF WakeSpec

\* App.tsx, sendPipeline.ts: reloads, lost events, failed preparations, a run
\* the page does not know of and the rescan lose no wake; a result is stranded
\* only when the effect consumed the wake while the host had no run, for a token
\* or a queued message, or the run was refused.
THEOREM WakeStrandedOnlyBySwallow == WakeSpec => []StrandedOnlyBySwallow
<1>1. WakeInv => StrandedOnlyBySwallow
  BY DEF WakeInv, SomebodyLooks, StrandedOnlyBySwallow, Idle
<1> QED  BY <1>1, WakeInvariant, PTL
=============================================================================
