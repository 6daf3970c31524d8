---------------------------- MODULE WorkflowRun ----------------------------
(***************************************************************************)
(* One workflow run and what it leaves on disk (workflow.rs,               *)
(* workflow_store.rs, workflow-core/chain.rs): the driver that dispatches  *)
(* the steps of a plan, the journal a resume replays, the step records,    *)
(* the manifest, the startup sweep and the notice of an interrupted run.   *)
(*                                                                         *)
(* A plan is, per step, the earlier steps whose outcomes the script waits  *)
(* for before it asks for the step; the prompts do not quote outcomes, so  *)
(* a cache key is the step and, from the first edited step on, the script. *)
(* A value is the attempt that computed it, Null is 0.  The journal is     *)
(* kept as what load_journal makes of its lines, the last line apart when  *)
(* its end is missing.  A write can fail part way; the process can die     *)
(* between any two writes, and inside one, which leaves what a failed      *)
(* write followed by a death leaves.                                       *)
(***************************************************************************)
EXTENDS Naturals, FiniteSets

CONSTANTS Plans,        \* the plans explored, all of the same steps
          Scripts,      \* the scripts an attempt may submit
          FirstEdited,  \* the first step in which they differ
          LiveLimit,    \* steps in flight at a time
          MaxAttempts, MaxCrashes, MaxFaults   \* bounds

ASSUME WorkflowAssumption ==
  /\ Plans # {}
  /\ \A p \in Plans : DOMAIN p \subseteq Nat \ {0} /\ \A i \in DOMAIN p : p[i] \subseteq DOMAIN p
  /\ \A p, q \in Plans : DOMAIN p = DOMAIN q
  /\ {LiveLimit, MaxAttempts} \subseteq Nat \ {0}
  /\ {FirstEdited, MaxCrashes, MaxFaults} \subseteq Nat

VARIABLES plan,
          journal,    \* journal.jsonl
          record,     \* per index, the key of the step steps/<index>.json is about
          keyFile,    \* per index, steps/<index>.key
          manifest,   \* manifest.json
          driver,     \* the locals of drive_workflow_task; it holds the driver lock
          slots,      \* its StepSlots
          attempt,    \* attempts so far
          app,        \* the process, "up" once its startup sweep is through
          notice,     \* workflow_restart_notices holds the run
          budget,     \* deaths and failed writes so far
          owed,       \* history: the death of a running attempt is still to be reported
          lapses,     \* history: what the files never learnt
          diverged    \* history: the past attempts whose replay gate closed

files == <<journal, record, keyFile, manifest>>
wfvars == <<plan, files, driver, slots, attempt, app, notice, budget, owed, lapses, diverged>>

Steps == DOMAIN (CHOOSE p \in Plans : TRUE)
NoScript == "none"
StepKey(i, s) == <<i, IF i < FirstEdited THEN "any" ELSE s>>
StepKeys == {StepKey(i, s) : i \in Steps, s \in Scripts}
NoKey == <<0, "none">>
TornFile == <<0, "torn">>

Null == 0
NoResult == [at |-> 0, from |-> [i \in Steps |-> Null]]
Line(kind, k, r) == [kind |-> kind, key |-> k, result |-> r]
StartedLine(k) == Line("started", k, NoResult)
NoLine == Line("none", NoKey, NoResult)
HalfLine == Line("half", NoKey, NoResult)

FreshSlot == [st |-> "none", out |-> Null, cached |-> FALSE, rec |-> "none"]
NoDriver == [pc |-> "off", script |-> NoScript, diverged |-> FALSE, status |-> "running", cur |-> 0,
             results |-> [k \in StepKeys |-> NoResult], unsettled |-> {}, onDisk |-> {}]
NoSlots == [i \in Steps |-> FreshSlot]

WorkflowInit ==
  /\ plan \in Plans
  /\ journal = [results |-> [k \in StepKeys |-> NoResult], unsettled |-> {}, tail |-> NoLine]
  /\ record = [i \in Steps |-> NoKey] /\ keyFile = [i \in Steps |-> NoKey]
  /\ manifest = "none"
  /\ driver = NoDriver /\ slots = NoSlots /\ attempt = 0
  /\ app = "up" /\ notice = FALSE /\ owed = FALSE
  /\ budget = [crashes |-> 0, faults |-> 0]
  /\ lapses = [unlogged |-> {}, line |-> FALSE, manifest |-> FALSE, cut |-> {}]
  /\ diverged = {}

MyKey(i) == StepKey(i, driver.script)
Needs(i) == plan[i]
Basis(i) == [j \in Steps |-> IF j \in Needs(i) THEN slots[j].out ELSE Null]
StepsIn(st) == {i \in Steps : slots[i].st = st}
IsFirst(i, S) == i \in S /\ \A j \in S : i <= j

Fault == budget.faults < MaxFaults /\ budget' = [budget EXCEPT !.faults = @ + 1]

\* The driver's locals go, the latch of its cache chain with them.
DriverGone ==
  /\ driver' = NoDriver /\ slots' = NoSlots
  /\ diverged' = IF driver.diverged THEN diverged \cup {attempt} ELSE diverged

-----------------------------------------------------------------------------
(* The journal *)

\* load_journal, line by line: a result outlives what its key is given later.
Recorded(j, line) ==
  [j EXCEPT !.unsettled = IF line.kind = "started" THEN @ \cup {line.key} ELSE @ \ {line.key},
            !.results[line.key] = IF line.kind = "result" THEN line.result ELSE @]

\* A line behind one without its end makes both unreadable.
Appended(line) ==
  IF journal.tail = NoLine THEN Recorded(journal, line) ELSE [journal EXCEPT !.tail = NoLine]

\* An append that fails, the line missing, in part or but for its end.
CutShort(line) ==
  {journal} \cup {[journal EXCEPT !.tail = t] :
                     t \in IF journal.tail = NoLine THEN {HalfLine, line} ELSE {HalfLine}}

LoadJournal ==
  IF journal.tail \in {NoLine, HalfLine} THEN journal ELSE Recorded(journal, journal.tail)

\* RunStore::append: the run goes on whatever becomes of the line.
AppendLine(line) ==
  \/ /\ journal' = Appended(line)
     /\ lapses' = [lapses EXCEPT !.line = @ \/ journal.tail # NoLine]
     /\ UNCHANGED budget
  \/ /\ Fault
     /\ journal' \in CutShort(line)
     /\ lapses' = [lapses EXCEPT !.line = TRUE]

-----------------------------------------------------------------------------
(* The start of an attempt *)

\* A fresh run, or a resume under the same or another script.  A resume is the
\* model's call, made after the boundary that drained the notices.
StartAttempt(s) ==
  /\ app = "up" /\ ~notice
  /\ driver.pc = "off" /\ attempt < MaxAttempts
  /\ attempt' = attempt + 1
  /\ driver' = [NoDriver EXCEPT !.pc = "manifest", !.script = s,
                                !.results = LoadJournal.results, !.unsettled = LoadJournal.unsettled]
  /\ owed' = FALSE
  /\ UNCHANGED <<plan, files, slots, app, notice, budget, lapses, diverged>>

\* RunManifest::write at the start, after a batch, and at the end, where the
\* driver lock goes.
WriteManifest ==
  /\ driver.pc \in {"manifest", "batch", "over"}
  /\ \/ manifest' = driver.status /\ UNCHANGED <<budget, lapses>>
     \/ /\ Fault /\ manifest' \in {manifest, "torn"}
        /\ lapses' = [lapses EXCEPT !.manifest = TRUE]
  /\ IF driver.pc = "over" THEN DriverGone
     ELSE driver' = [driver EXCEPT !.pc = "loop"] /\ UNCHANGED <<slots, diverged>>
  /\ UNCHANGED <<plan, journal, record, keyFile, attempt, app, notice, owed>>

-----------------------------------------------------------------------------
(* The loop of drive *)

\* Mutant: a miss does not close the gate.
ConsultOnceMore(k) ==
  [replay |-> ~driver.diverged /\ driver.results[k] # NoResult, diverged |-> driver.diverged]

\* CacheKeyChain::consult of Journal::lookup.
Consult(k) ==
  LET hit == driver.results[k] # NoResult IN
  [replay |-> ~driver.diverged /\ hit,
   diverged |-> driver.diverged \/ (~hit /\ k \notin driver.unsettled)]

\* The script asks for its next step once it has the outcomes it waits for.
Asked(i) == IsFirst(i, StepsIn("none")) /\ Needs(i) \subseteq StepsIn("settled")
CanPump == StepsIn("queued") # {} /\ Cardinality(StepsIn("flight")) < LiveLimit

Dispatch(i) ==
  /\ driver.pc = "loop" /\ Asked(i)
  /\ LET c == Consult(MyKey(i)) IN
       /\ driver' = [driver EXCEPT !.diverged = c.diverged]
       /\ slots' = [slots EXCEPT ![i] =
            IF c.replay
            THEN [@ EXCEPT !.st = "settled", !.out = driver.results[MyKey(i)].at, !.cached = TRUE]
            ELSE [@ EXCEPT !.st = "queued"]]
  /\ UNCHANGED <<plan, files, attempt, app, notice, budget, owed, lapses, diverged>>

Pumped(i) ==
  /\ driver.pc = "loop" /\ ~\E j \in Steps : Asked(j)
  /\ CanPump /\ IsFirst(i, StepsIn("queued"))

\* The worker runs; Started is written after it was spawned.
SpawnStep(i) ==
  /\ Pumped(i)
  /\ AppendLine(StartedLine(MyKey(i)))
  /\ slots' = [slots EXCEPT ![i].st = "flight"]
  /\ UNCHANGED <<plan, record, keyFile, manifest, driver, attempt, app, notice, owed, diverged>>

\* The user skips the queued step, or its worktree or its worker cannot be
\* made: the script gets a null and the journal no line.
StepNotStarted(i) ==
  /\ Pumped(i)
  /\ driver' = [driver EXCEPT !.diverged = TRUE]
  /\ slots' = [slots EXCEPT ![i].st = "settled"]
  /\ lapses' = [lapses EXCEPT !.unlogged = @ \cup {MyKey(i)}]
  /\ UNCHANGED <<plan, files, attempt, app, notice, budget, owed, diverged>>

\* The sink is gone; a worker that was registered is left to the final harvest.
SpawnSinkDead(i, registered) ==
  /\ Pumped(i)
  /\ driver' = [driver EXCEPT !.pc = "final", !.status = "ended"]
  /\ slots' = [slots EXCEPT ![i].st = IF registered THEN "flight" ELSE @]
  /\ UNCHANGED <<plan, files, attempt, app, notice, budget, owed, lapses, diverged>>

\* A worker has ended, with a value or without; a batch goes in dispatch order.
Harvest(i, out) ==
  /\ \/ driver.pc = "loop" /\ ~CanPump /\ ~\E j \in Steps : Asked(j)
     \/ driver.pc = "batch" /\ i > driver.cur
  /\ slots[i].st = "flight"
  /\ driver' = [driver EXCEPT !.pc = "journal", !.cur = i]
  /\ slots' = [slots EXCEPT ![i].out = out]
  /\ UNCHANGED <<plan, files, attempt, app, notice, budget, owed, lapses, diverged>>

OutcomeLine(i) ==
  IF slots[i].out = Null THEN Line("settled", MyKey(i), NoResult)
  ELSE Line("result", MyKey(i), [at |-> attempt, from |-> Basis(i)])

\* journal_outcome; a null closes the gate.
JournalOutcome ==
  /\ driver.pc = "journal"
  /\ LET i == driver.cur
         failed == slots[i].out = Null IN
       /\ AppendLine(OutcomeLine(i))
       /\ driver' = [driver EXCEPT !.pc = "unkey", !.diverged = @ \/ failed]
       /\ slots' = [slots EXCEPT ![i].st = "settled"]
  /\ UNCHANGED <<plan, record, keyFile, manifest, attempt, app, notice, owed, diverged>>

\* The plan returns, the run fails, its deadline passes or it is stopped.
Finish ==
  /\ driver.pc = "loop"
  /\ driver' = [driver EXCEPT !.pc = "final", !.status = "ended"]
  /\ UNCHANGED <<plan, files, slots, attempt, app, notice, budget, owed, lapses, diverged>>

-----------------------------------------------------------------------------
(* The end of an attempt *)

\* Steps nobody waited for are harvested: a value is kept, a null is not even
\* settled.
FinalHarvest(i, out) ==
  /\ driver.pc = "final" /\ IsFirst(i, StepsIn("flight"))
  /\ IF out = Null THEN UNCHANGED <<journal, budget, lapses>>
     ELSE AppendLine(Line("result", MyKey(i), [at |-> out, from |-> Basis(i)]))
  /\ slots' = [slots EXCEPT ![i] = [@ EXCEPT !.st = "settled", !.out = out, !.rec = "due"]]
  /\ UNCHANGED <<plan, record, keyFile, manifest, driver, attempt, app, notice, owed, diverged>>

\* Mutant: a record of whatever step ran at the index will do.
StepMatchesAny(i, k) == record[i] # NoKey

\* step_matches: a record without a key is taken for one from before key files.
StepMatches(i, k) == record[i] # NoKey /\ keyFile[i] \in {k, NoKey}

DueRecords == {i \in Steps : slots[i].rec = "due"}

Harvested == driver.pc = "final" /\ StepsIn("flight") = {}

\* persist_run: the records still due, then which cards may point at a record.
PersistStep(i) ==
  /\ Harvested /\ IsFirst(i, DueRecords)
  /\ driver' = [driver EXCEPT !.pc = "unkey", !.cur = i]
  /\ UNCHANGED <<plan, files, slots, attempt, app, notice, budget, owed, lapses, diverged>>

PersistEnds ==
  /\ Harvested /\ DueRecords = {}
  /\ driver' = [driver EXCEPT !.pc = "over",
       !.onDisk = {i \in Steps :
         \/ slots[i].rec = "kept"
         \/ /\ slots[i].rec = "none" /\ slots[i].st # "none"
            /\ StepMatches(i, MyKey(i))}]
  /\ UNCHANGED <<plan, files, slots, attempt, app, notice, budget, owed, lapses, diverged>>

-----------------------------------------------------------------------------
(* write_step, at a harvest or at the end *)

\* It returns whether record and key are both there; a harvest that failed is
\* tried again at the end.
WriteStepReturns(ok) ==
  /\ driver' = [driver EXCEPT !.pc = IF driver.status = "running" THEN "batch" ELSE "final"]
  /\ slots' = [slots EXCEPT ![driver.cur].rec =
       IF ok THEN "kept" ELSE IF driver.status = "running" THEN "due" ELSE "tried"]

\* One of its three writes, on a file that fails to any of the contents bad.
WriteStepPart(pc, next, file, good, bad) ==
  /\ driver.pc = pc
  /\ \/ /\ file' = [file EXCEPT ![driver.cur] = good]
        /\ IF next = "done" THEN WriteStepReturns(TRUE)
           ELSE driver' = [driver EXCEPT !.pc = next] /\ UNCHANGED slots
        /\ UNCHANGED <<budget, lapses>>
     \/ /\ Fault
        /\ \E c \in bad : file' = [file EXCEPT ![driver.cur] = c]
        /\ WriteStepReturns(FALSE)
        /\ lapses' = [lapses EXCEPT !.cut = @ \cup {driver.cur}]
  /\ UNCHANGED <<plan, journal, manifest, attempt, app, notice, owed, diverged>>

Unkey ==
  /\ WriteStepPart("unkey", "record", keyFile, NoKey, {keyFile[driver.cur]})
  /\ UNCHANGED record
WriteRecord ==
  /\ WriteStepPart("record", "key", record, MyKey(driver.cur),
                   {record[driver.cur], TornFile, MyKey(driver.cur)})
  /\ UNCHANGED keyFile
WriteKey ==
  /\ WriteStepPart("key", "done", keyFile, MyKey(driver.cur), {NoKey, TornFile, MyKey(driver.cur)})
  /\ UNCHANGED record

-----------------------------------------------------------------------------
(* The death of the process, the next start, and the notice *)

Crash ==
  /\ app = "up" /\ budget.crashes < MaxCrashes
  /\ budget' = [budget EXCEPT !.crashes = @ + 1]
  /\ app' = "down" /\ notice' = FALSE
  /\ DriverGone
  /\ owed' = (owed \/ driver.pc \notin {"off", "manifest"})
  /\ lapses' = [lapses EXCEPT !.cut = IF driver.pc \in {"record", "key"} THEN @ \cup {driver.cur} ELSE @]
  /\ UNCHANGED <<plan, files, attempt>>

\* sweep_interrupted_runs: a run left running is claimed, a claim that was not
\* delivered is announced again; no claim on disk, no notice.
Startup ==
  /\ app = "down" /\ app' = "up"
  /\ \/ /\ manifest = "running" /\ manifest' = "claimed" /\ notice' = TRUE
        /\ UNCHANGED <<budget, lapses>>
     \/ /\ manifest = "running" /\ Fault /\ manifest' \in {manifest, "torn"} /\ notice' = FALSE
        /\ lapses' = [lapses EXCEPT !.manifest = TRUE]
     \/ /\ manifest # "running" /\ notice' = (manifest = "claimed")
        /\ UNCHANGED <<manifest, budget, lapses>>
  /\ UNCHANGED <<plan, journal, record, keyFile, driver, slots, attempt, owed, diverged>>

\* Mutant: the notice is struck off whether or not the boundary was written.
DeliverNoticeAnyway(durable) ==
  /\ app = "up" /\ notice /\ notice' = FALSE
  /\ owed' = (owed /\ ~durable)
  /\ manifest' = "told"
  /\ UNCHANGED <<plan, journal, record, keyFile, driver, slots, attempt, app, budget, lapses, diverged>>

\* A boundary of the conversation drains the notice; it is struck off once the
\* boundary is durable.
DeliverNotice(durable) ==
  /\ app = "up" /\ notice /\ notice' = FALSE
  /\ owed' = (owed /\ ~durable)
  /\ \/ /\ manifest' = IF durable THEN "told" ELSE manifest
        /\ UNCHANGED <<budget, lapses>>
     \/ /\ durable /\ Fault /\ manifest' \in {manifest, "torn"}
        /\ lapses' = [lapses EXCEPT !.manifest = TRUE]
  /\ UNCHANGED <<plan, journal, record, keyFile, driver, slots, attempt, app, diverged>>

StepRuns(i) ==
  \/ Dispatch(i) \/ SpawnStep(i) \/ StepNotStarted(i)
  \/ \E registered \in BOOLEAN : SpawnSinkDead(i, registered)
  \/ \E out \in {Null, attempt} : Harvest(i, out) \/ FinalHarvest(i, out)
  \/ PersistStep(i)

WorkflowNext ==
  \/ \E s \in Scripts : StartAttempt(s)
  \/ \E i \in Steps : StepRuns(i)
  \/ WriteManifest \/ JournalOutcome \/ Finish \/ PersistEnds
  \/ Unkey \/ WriteRecord \/ WriteKey
  \/ Crash \/ Startup
  \/ \E durable \in BOOLEAN : DeliverNotice(durable)

WorkflowSpec == WorkflowInit /\ [][WorkflowNext]_wfvars

-----------------------------------------------------------------------------
(* Properties *)

Outcomes == 0..MaxAttempts
Results == [at : Outcomes, from : [Steps -> Outcomes]]
Lines == [kind : {"started", "result", "settled"}, key : StepKeys, result : Results]
Slots == [st : {"none", "queued", "flight", "settled"}, out : Outcomes, cached : BOOLEAN,
          rec : {"none", "due", "kept", "tried"}]
Journals == [results : [StepKeys -> Results], unsettled : SUBSET StepKeys,
             tail : Lines \cup {NoLine, HalfLine}]
Budgets == [crashes : 0..MaxCrashes, faults : 0..MaxFaults]
Lapses == [unlogged : SUBSET StepKeys, line : BOOLEAN, manifest : BOOLEAN, cut : SUBSET Steps]
Drivers ==
  [pc : {"off", "manifest", "loop", "journal", "unkey", "record", "key", "batch", "final", "over"},
   script : Scripts \cup {NoScript}, diverged : BOOLEAN, status : {"running", "ended"},
   cur : Steps \cup {0}, results : [StepKeys -> Results], unsettled : SUBSET StepKeys,
   onDisk : SUBSET Steps]

\* The types of the state (workflow.rs, StepSlot; workflow_store.rs, Journal).
WorkflowTypeOK ==
  /\ plan \in Plans
  /\ journal \in Journals
  /\ record \in [Steps -> StepKeys \cup {NoKey, TornFile}]
  /\ keyFile \in [Steps -> StepKeys \cup {NoKey, TornFile}]
  /\ manifest \in {"none", "running", "ended", "claimed", "told", "torn"}
  /\ driver \in Drivers /\ slots \in [Steps -> Slots]
  /\ driver.pc # "off" => driver.script \in Scripts
  /\ driver.pc \in {"journal", "unkey", "record", "key", "batch"} => driver.cur \in Steps
  /\ attempt \in Outcomes
  /\ app \in {"up", "down"} /\ notice \in BOOLEAN /\ owed \in BOOLEAN
  /\ budget \in Budgets /\ lapses \in Lapses
  /\ diverged \in SUBSET Outcomes

\* Resumed replay (workflow.rs:1560, chain.rs): a step is replayed from a
\* result that was computed from the very outcomes this attempt gave the
\* script, unless an append was lost, an attempt in between had its gate
\* closed, a step it waited for once ended without a journal line, or its
\* result outlived a null of a later attempt and the null was the basis.
StaleReplayHasACause ==
  \A i \in Steps :
    LET r == driver.results[MyKey(i)] IN
    slots[i].cached /\ r.from # Basis(i) =>
      \/ lapses.line
      \/ \E a \in diverged : r.at < a /\ a < attempt
      \/ \E j \in Needs(i) : MyKey(j) \in lapses.unlogged
      \/ \E j \in Needs(i) : r.from[j] = Null /\ driver.results[MyKey(j)].at \in 1..(r.at - 1)

\* What journal_outcome and the skip say of a resume ("they and later dependent
\* steps rerun", workflow.rs:1640): a replayed step waited for replayed steps
\* only.  It does not hold: a step started in one attempt and skipped in the
\* next has no line that says so and reads as unsettled ever after.
ReplayedFromReplayed ==
  \A i \in Steps : slots[i].cached => \A j \in Needs(i) : slots[j].cached

\* The cards of a finished run (workflow.rs:1297, step_matches): a card that
\* points at steps/<index>.json finds the record its own step wrote, unless a
\* write_step at that index was once cut short.
OwnTranscript ==
  \A i \in driver.onDisk : record[i] = MyKey(i) \/ i \in lapses.cut

\* Interrupted runs (workflow_store.rs:956, api.rs:2945): as long as the model
\* has not durably been told of a run the process died on, the manifest keeps
\* it due for the next sweep, unless a manifest write failed.
CrashIsReported ==
  owed /\ ~lapses.manifest => manifest \in {"running", "claimed"}
=============================================================================
