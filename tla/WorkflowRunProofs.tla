------------------------- MODULE WorkflowRunProofs -------------------------
(***************************************************************************)
(* For any plans and scripts and any number of attempts, deaths and failed *)
(* writes: the types of WorkflowRun, that a card only points at its own    *)
(* step's record, that the death of a run stays due until it was told, and *)
(* why a step may be replayed from outcomes the script was not given.      *)
(***************************************************************************)
EXTENDS WorkflowRun, TLAPS

\* A run is marked running while its driver works; nothing is owed meanwhile.
ManifestInv ==
  /\ driver.pc \notin {"off", "manifest"} /\ ~lapses.manifest => manifest = "running"
  /\ driver.pc \in {"manifest", "batch"} => driver.status = "running"
  /\ driver.pc # "off" => ~owed /\ ~notice /\ app = "up"
  /\ notice /\ ~lapses.manifest => manifest = "claimed"

\* A key file names the step whose record lies beside it; a record without a
\* key file is one write_step is at work on.
Writing(i) == driver.pc \in {"record", "key"} /\ driver.cur = i

RecordInv ==
  /\ \A i \in Steps : i \notin lapses.cut =>
       /\ keyFile[i] # TornFile /\ record[i] # TornFile
       /\ keyFile[i] # NoKey => record[i] = keyFile[i]
       /\ record[i] # NoKey /\ keyFile[i] = NoKey => Writing(i)
       /\ Writing(i) => keyFile[i] = NoKey
       /\ driver.pc = "key" /\ driver.cur = i => record[i] = MyKey(i)
       /\ slots[i].rec = "kept" => keyFile[i] = MyKey(i)
  /\ driver.pc \in {"unkey", "record", "key", "journal"} => slots[driver.cur].rec # "kept"
  /\ driver.pc \in {"unkey", "record", "key"} => slots[driver.cur].st = "settled"
  /\ \A i \in Steps : slots[i].st \in {"none", "queued", "flight"} => slots[i].rec = "none"
  /\ driver.onDisk # {} => driver.pc = "over"
  /\ driver.pc = "off" => slots = NoSlots

StoreInv == ManifestInv /\ RecordInv /\ OwnTranscript /\ CrashIsReported

-----------------------------------------------------------------------------
(* Constants *)

\* The steps are positive numbers and every plan is over them.
LEMMA StepFacts ==
  /\ Steps \subseteq Nat \ {0}
  /\ \A p \in Plans : DOMAIN p = Steps /\ \A i \in Steps : p[i] \subseteq Steps
BY WorkflowAssumption DEF Steps

\* A key of a step is a key and neither of the two marks.
LEMMA KeyFacts ==
  \A i \in Steps, s \in Scripts :
    /\ StepKey(i, s) \in StepKeys
    /\ StepKey(i, s) # NoKey /\ StepKey(i, s) # TornFile
<1>1. \A i \in Steps, s \in Scripts : StepKey(i, s) \in StepKeys
  BY DEF StepKeys
<1>2. \A i \in Steps : i # 0
  BY StepFacts
<1>3. \A i \in Steps, s \in Scripts : StepKey(i, s)[1] = i
  BY DEF StepKey
<1>4. NoKey[1] = 0 /\ TornFile[1] = 0
  BY DEF NoKey, TornFile
<1> QED BY <1>1, <1>2, <1>3, <1>4

\* The marks are told apart.
LEMMA MarkFacts == NoKey # TornFile
<1>1. NoKey[2] = "none" /\ TornFile[2] = "torn"
  BY DEF NoKey, TornFile
<1> QED BY <1>1

\* The empty result is a result.
LEMMA NoResultType == NoResult \in Results /\ 0 \in Outcomes
<1>1. 0 \in Outcomes
  BY WorkflowAssumption DEF Outcomes
<1> QED BY <1>1 DEF NoResult, Results, Null

\* The state without a driver is a driver state.
LEMMA NoDriverType == NoDriver \in Drivers /\ NoSlots \in [Steps -> Slots]
BY NoResultType DEF NoDriver, NoSlots, Drivers, FreshSlot, Slots, Null

-----------------------------------------------------------------------------
(* The journal *)

\* load_journal's reading of a line keeps the journal a journal.
LEMMA RecordedType ==
  ASSUME NEW j \in Journals, NEW line \in Lines
  PROVE  Recorded(j, line) \in Journals /\ Recorded(j, line).tail = j.tail
BY DEF Recorded, Journals, Lines

\* An append, whole or failed, touches the journal, the line flag and the budget.
LEMMA AppendType ==
  ASSUME journal \in Journals, budget \in Budgets, lapses \in Lapses,
         NEW line \in Lines, AppendLine(line)
  PROVE  /\ journal' \in Journals /\ budget' \in Budgets /\ lapses' \in Lapses
         /\ lapses'.manifest = lapses.manifest /\ lapses'.cut = lapses.cut
<1>1. Appended(line) \in Journals
  <2>1. Recorded(journal, line) \in Journals
    BY RecordedType
  <2>2. [journal EXCEPT !.tail = NoLine] \in Journals
    BY DEF Journals
  <2> QED BY <2>1, <2>2 DEF Appended
<1>2. \A t \in {HalfLine, line} : [journal EXCEPT !.tail = t] \in Journals
  BY DEF Journals
<1>3. CutShort(line) \subseteq Journals
  BY <1>2 DEF CutShort
<1>4. journal' \in Journals
  BY <1>1, <1>3 DEF AppendLine
<1>5. budget' \in Budgets
  BY WorkflowAssumption DEF AppendLine, Fault, Budgets
<1>6. lapses' \in Lapses /\ lapses'.manifest = lapses.manifest /\ lapses'.cut = lapses.cut
  BY DEF AppendLine, Lapses
<1> QED BY <1>4, <1>5, <1>6

-----------------------------------------------------------------------------
(* Types *)

\* The initial state has its types.
LEMMA TypeInit == WorkflowInit => WorkflowTypeOK
<1> SUFFICES ASSUME WorkflowInit PROVE WorkflowTypeOK
  OBVIOUS
<1>1. journal \in Journals
  BY NoResultType DEF WorkflowInit, Journals
<1>2. driver \in Drivers /\ driver.pc = "off" /\ slots \in [Steps -> Slots]
  BY NoDriverType DEF WorkflowInit, NoDriver
<1>3. budget \in Budgets /\ lapses \in Lapses
  BY WorkflowAssumption DEF WorkflowInit, Budgets, Lapses
<1>4. attempt \in Outcomes
  BY NoResultType DEF WorkflowInit
<1> QED BY <1>1, <1>2, <1>3, <1>4 DEF WorkflowInit, WorkflowTypeOK

\* What the script was given is a basis for a result.
LEMMA OutcomeType ==
  ASSUME WorkflowTypeOK, NEW i \in Steps, driver.pc # "off", NEW out \in Outcomes
  PROVE  /\ MyKey(i) \in StepKeys /\ MyKey(i) # NoKey /\ MyKey(i) # TornFile
         /\ Line("result", MyKey(i), [at |-> out, from |-> Basis(i)]) \in Lines
         /\ Line("settled", MyKey(i), NoResult) \in Lines
         /\ StartedLine(MyKey(i)) \in Lines
<1>1. MyKey(i) \in StepKeys /\ MyKey(i) # NoKey /\ MyKey(i) # TornFile
  BY KeyFacts DEF WorkflowTypeOK, MyKey
<1>2. Basis(i) \in [Steps -> Outcomes]
  BY NoResultType DEF WorkflowTypeOK, Drivers, Slots, Basis, Null
<1>3. [at |-> out, from |-> Basis(i)] \in Results
  BY <1>2 DEF Results
<1> QED BY <1>1, <1>3, NoResultType DEF Line, StartedLine, Lines

\* A failed write stays within the budget.
LEMMA FaultType ==
  ASSUME budget \in Budgets, Fault
  PROVE  budget' \in Budgets
BY WorkflowAssumption DEF Fault, Budgets

\* The end of a driver.
LEMMA DriverGoneType ==
  ASSUME WorkflowTypeOK, DriverGone
  PROVE  /\ driver' \in Drivers /\ driver'.pc = "off" /\ slots' \in [Steps -> Slots]
         /\ diverged' \in SUBSET Outcomes
BY NoDriverType DEF WorkflowTypeOK, DriverGone, NoDriver

\* A write_step that returns leaves a driver at a batch or at the end.
LEMMA WriteStepReturnsType ==
  ASSUME WorkflowTypeOK, driver.cur \in Steps, driver.pc # "off", NEW ok \in BOOLEAN, WriteStepReturns(ok)
  PROVE  /\ driver' \in Drivers /\ driver'.script = driver.script /\ driver'.cur = driver.cur
         /\ driver'.pc \in {"batch", "final"} /\ slots' \in [Steps -> Slots]
<1>1. slots' \in [Steps -> Slots]
  BY DEF WorkflowTypeOK, WriteStepReturns, Slots
<1> QED BY <1>1 DEF WorkflowTypeOK, WriteStepReturns, Drivers

PartEffect ==
  /\ driver' \in Drivers /\ driver'.script = driver.script /\ driver'.cur = driver.cur
  /\ driver.cur \in Steps /\ driver.pc \in {"unkey", "record", "key"}
  /\ driver'.pc \in {"record", "key", "batch", "final"} /\ slots' \in [Steps -> Slots]
  /\ budget' \in Budgets
  /\ lapses' \in Lapses /\ lapses'.manifest = lapses.manifest

\* A part of write_step, done or failed, keeps the driver a driver.
LEMMA PartFacts ==
  ASSUME WorkflowTypeOK, Unkey \/ WriteRecord \/ WriteKey
  PROVE  PartEffect
<1>1. driver.cur \in Steps /\ driver.pc \in {"unkey", "record", "key"}
  BY DEF WorkflowTypeOK, Unkey, WriteRecord, WriteKey, WriteStepPart
<1>2. \/ UNCHANGED <<budget, lapses>>
      \/ Fault /\ lapses' = [lapses EXCEPT !.cut = @ \cup {driver.cur}]
  BY DEF Unkey, WriteRecord, WriteKey, WriteStepPart
<1>3. budget' \in Budgets /\ lapses' \in Lapses /\ lapses'.manifest = lapses.manifest
  BY <1>1, <1>2, FaultType DEF WorkflowTypeOK, Lapses
<1>4. CASE \E ok \in BOOLEAN : WriteStepReturns(ok)
  BY <1>1, <1>3, <1>4, WriteStepReturnsType DEF PartEffect
<1>5. CASE UNCHANGED slots /\ \E next \in {"record", "key"} : driver' = [driver EXCEPT !.pc = next]
  BY <1>1, <1>3, <1>5 DEF PartEffect, WorkflowTypeOK, Drivers
<1> QED BY <1>4, <1>5 DEF Unkey, WriteRecord, WriteKey, WriteStepPart

\* Every step keeps the types.
LEMMA TypeStep ==
  ASSUME WorkflowTypeOK, [WorkflowNext]_wfvars
  PROVE  WorkflowTypeOK'
<1> USE DEF files
<1>1. ASSUME NEW s \in Scripts, StartAttempt(s) PROVE WorkflowTypeOK'
  <2>1. LoadJournal \in Journals
    <3>1. journal.tail \notin {NoLine, HalfLine} => journal.tail \in Lines
      BY DEF WorkflowTypeOK, Journals
    <3> QED BY <3>1, RecordedType DEF WorkflowTypeOK, LoadJournal
  <2>2. driver' \in Drivers /\ driver'.script \in Scripts /\ driver'.pc = "manifest"
    BY <1>1, <2>1, NoDriverType DEF StartAttempt, Drivers, Journals
  <2>3. attempt' \in Outcomes
    BY <1>1, WorkflowAssumption DEF WorkflowTypeOK, StartAttempt, Outcomes
  <2> QED BY <1>1, <2>2, <2>3 DEF WorkflowTypeOK, StartAttempt
<1>2. ASSUME WriteManifest PROVE WorkflowTypeOK'
  <2>1. manifest' \in {"none", "running", "ended", "claimed", "told", "torn"}
    BY <1>2 DEF WorkflowTypeOK, WriteManifest, Drivers
  <2>2. budget' \in Budgets /\ lapses' \in Lapses
    BY <1>2, FaultType DEF WorkflowTypeOK, WriteManifest, Lapses
  <2>3. /\ driver' \in Drivers /\ diverged' \in SUBSET Outcomes /\ slots' \in [Steps -> Slots]
        /\ driver'.pc # "off" => driver'.pc = "loop" /\ driver'.script = driver.script
    BY <1>2, DriverGoneType DEF WorkflowTypeOK, WriteManifest, Drivers
  <2> QED BY <1>2, <2>1, <2>2, <2>3 DEF WorkflowTypeOK, WriteManifest
<1>3. ASSUME NEW i \in Steps, Dispatch(i) PROVE WorkflowTypeOK'
  <2>1. driver.results[MyKey(i)].at \in Outcomes
    BY <1>3, OutcomeType, NoResultType DEF WorkflowTypeOK, Dispatch, Drivers, Results
  <2>2. Consult(MyKey(i)).diverged \in BOOLEAN
    BY <1>3 DEF Consult, WorkflowTypeOK, Drivers
  <2>3. driver' \in Drivers /\ driver'.script = driver.script /\ driver'.pc = "loop"
    BY <1>3, <2>2 DEF WorkflowTypeOK, Dispatch, Drivers
  <2>4. slots' \in [Steps -> Slots]
    BY <1>3, <2>1 DEF WorkflowTypeOK, Dispatch, Slots
  <2> QED BY <1>3, <2>3, <2>4 DEF WorkflowTypeOK, Dispatch
<1>4. ASSUME NEW i \in Steps, SpawnStep(i) PROVE WorkflowTypeOK'
  <2>1. journal' \in Journals /\ budget' \in Budgets /\ lapses' \in Lapses
    BY <1>4, AppendType, OutcomeType, NoResultType DEF WorkflowTypeOK, SpawnStep, Pumped
  <2>2. slots' \in [Steps -> Slots]
    BY <1>4 DEF WorkflowTypeOK, SpawnStep, Slots
  <2> QED BY <1>4, <2>1, <2>2 DEF WorkflowTypeOK, SpawnStep, Pumped
<1>5. ASSUME NEW i \in Steps, StepNotStarted(i) PROVE WorkflowTypeOK'
  <2>1. lapses' \in Lapses
    BY <1>5, OutcomeType, NoResultType DEF WorkflowTypeOK, StepNotStarted, Pumped, Lapses
  <2>2. driver' \in Drivers /\ driver'.script = driver.script /\ driver'.pc = "loop"
    BY <1>5 DEF WorkflowTypeOK, StepNotStarted, Pumped, Drivers
  <2>3. slots' \in [Steps -> Slots]
    BY <1>5 DEF WorkflowTypeOK, StepNotStarted, Slots
  <2> QED BY <1>5, <2>1, <2>2, <2>3 DEF WorkflowTypeOK, StepNotStarted, Pumped
<1>6. ASSUME NEW i \in Steps, NEW registered \in BOOLEAN, SpawnSinkDead(i, registered) PROVE WorkflowTypeOK'
  <2>1. driver' \in Drivers /\ driver'.script = driver.script /\ driver'.pc = "final"
    BY <1>6 DEF WorkflowTypeOK, SpawnSinkDead, Pumped, Drivers
  <2>2. slots' \in [Steps -> Slots]
    BY <1>6 DEF WorkflowTypeOK, SpawnSinkDead, Slots
  <2> QED BY <1>6, <2>1, <2>2 DEF WorkflowTypeOK, SpawnSinkDead, Pumped
<1>7. ASSUME NEW i \in Steps, NEW out \in {Null, attempt}, Harvest(i, out) PROVE WorkflowTypeOK'
  <2>1. driver' \in Drivers /\ driver'.script = driver.script /\ driver'.cur \in Steps
    BY <1>7 DEF WorkflowTypeOK, Harvest, Drivers
  <2>2. slots' \in [Steps -> Slots]
    BY <1>7, NoResultType DEF WorkflowTypeOK, Harvest, Slots, Null
  <2> QED BY <1>7, <2>1, <2>2 DEF WorkflowTypeOK, Harvest
<1>8. ASSUME NEW i \in Steps, NEW out \in {Null, attempt}, FinalHarvest(i, out) PROVE WorkflowTypeOK'
  <2>1. out \in Outcomes
    BY NoResultType DEF WorkflowTypeOK, Null
  <2>2. journal' \in Journals /\ budget' \in Budgets /\ lapses' \in Lapses
    BY <1>8, <2>1, AppendType, OutcomeType DEF WorkflowTypeOK, FinalHarvest
  <2>3. slots' \in [Steps -> Slots]
    BY <1>8, <2>1 DEF WorkflowTypeOK, FinalHarvest, Slots
  <2> QED BY <1>8, <2>2, <2>3 DEF WorkflowTypeOK, FinalHarvest
<1>9. ASSUME JournalOutcome PROVE WorkflowTypeOK'
  <2>1. OutcomeLine(driver.cur) \in Lines
    BY <1>9, OutcomeType DEF WorkflowTypeOK, JournalOutcome, OutcomeLine
  <2>2. journal' \in Journals /\ budget' \in Budgets /\ lapses' \in Lapses
    BY <1>9, <2>1, AppendType DEF WorkflowTypeOK, JournalOutcome
  <2>3. /\ driver' \in Drivers /\ driver'.script = driver.script
        /\ driver'.pc = "unkey" /\ driver'.cur \in Steps
    BY <1>9 DEF WorkflowTypeOK, JournalOutcome, Drivers
  <2>4. slots' \in [Steps -> Slots]
    BY <1>9 DEF WorkflowTypeOK, JournalOutcome, Slots
  <2> QED BY <1>9, <2>2, <2>3, <2>4 DEF WorkflowTypeOK, JournalOutcome
<1>10. ASSUME Finish PROVE WorkflowTypeOK'
  <2>1. driver' \in Drivers /\ driver'.script = driver.script /\ driver'.pc = "final"
    BY <1>10 DEF WorkflowTypeOK, Finish, Drivers
  <2> QED BY <1>10, <2>1 DEF WorkflowTypeOK, Finish
<1>11. ASSUME NEW i \in Steps, PersistStep(i) PROVE WorkflowTypeOK'
  <2>1. /\ driver' \in Drivers /\ driver'.script = driver.script
        /\ driver'.pc = "unkey" /\ driver'.cur \in Steps
    BY <1>11 DEF WorkflowTypeOK, PersistStep, Harvested, Drivers
  <2> QED BY <1>11, <2>1 DEF WorkflowTypeOK, PersistStep, Harvested
<1>12. ASSUME PersistEnds PROVE WorkflowTypeOK'
  <2>1. driver' \in Drivers /\ driver'.script = driver.script /\ driver'.pc = "over"
    BY <1>12 DEF WorkflowTypeOK, PersistEnds, Harvested, Drivers
  <2> QED BY <1>12, <2>1 DEF WorkflowTypeOK, PersistEnds, Harvested
<1>13. ASSUME Unkey \/ WriteRecord \/ WriteKey PROVE WorkflowTypeOK'
  <2>1. MyKey(driver.cur) \in StepKeys
    BY <1>13, OutcomeType, NoResultType DEF WorkflowTypeOK, Unkey, WriteRecord, WriteKey, WriteStepPart
  <2>2. /\ record' \in [Steps -> StepKeys \cup {NoKey, TornFile}]
        /\ keyFile' \in [Steps -> StepKeys \cup {NoKey, TornFile}]
    <3>1. CASE Unkey
      BY <3>1 DEF WorkflowTypeOK, Unkey, WriteStepPart
    <3>2. CASE WriteRecord
      <4>1. record[driver.cur] \in StepKeys \cup {NoKey, TornFile}
        BY <3>2 DEF WorkflowTypeOK, WriteRecord, WriteStepPart
      <4>2. \E c \in StepKeys \cup {NoKey, TornFile} : record' = [record EXCEPT ![driver.cur] = c]
        BY <2>1, <3>2, <4>1 DEF WriteRecord, WriteStepPart
      <4> QED BY <3>2, <4>2 DEF WorkflowTypeOK, WriteRecord
    <3>3. CASE WriteKey
      <4>1. \E c \in StepKeys \cup {NoKey, TornFile} : keyFile' = [keyFile EXCEPT ![driver.cur] = c]
        BY <2>1, <3>3 DEF WriteKey, WriteStepPart
      <4> QED BY <3>3, <4>1 DEF WorkflowTypeOK, WriteKey
    <3> QED BY <1>13, <3>1, <3>2, <3>3
  <2>3. PartEffect
    BY <1>13, PartFacts
  <2> QED BY <1>13, <2>2, <2>3 DEF WorkflowTypeOK, Unkey, WriteRecord, WriteKey, WriteStepPart, PartEffect
<1>14. ASSUME Crash PROVE WorkflowTypeOK'
  <2>1. budget' \in Budgets
    BY <1>14, WorkflowAssumption DEF WorkflowTypeOK, Crash, Budgets
  <2>2. lapses' \in Lapses
    BY <1>14 DEF WorkflowTypeOK, Crash, Lapses
  <2>3. /\ driver' \in Drivers /\ driver'.pc = "off" /\ slots' \in [Steps -> Slots]
        /\ diverged' \in SUBSET Outcomes
    BY <1>14, DriverGoneType DEF Crash
  <2> QED BY <1>14, <2>1, <2>2, <2>3 DEF WorkflowTypeOK, Crash
<1>15. ASSUME Startup PROVE WorkflowTypeOK'
  <2>1. budget' \in Budgets /\ lapses' \in Lapses
    BY <1>15, FaultType DEF WorkflowTypeOK, Startup, Lapses
  <2> QED BY <1>15, <2>1 DEF WorkflowTypeOK, Startup
<1>16. ASSUME NEW durable \in BOOLEAN, DeliverNotice(durable) PROVE WorkflowTypeOK'
  <2>1. budget' \in Budgets /\ lapses' \in Lapses
    BY <1>16, FaultType DEF WorkflowTypeOK, DeliverNotice, Lapses
  <2> QED BY <1>16, <2>1 DEF WorkflowTypeOK, DeliverNotice
<1>17. ASSUME UNCHANGED wfvars PROVE WorkflowTypeOK'
  BY <1>17 DEF WorkflowTypeOK, wfvars
<1> QED BY <1>1, <1>2, <1>3, <1>4, <1>5, <1>6, <1>7, <1>8, <1>9, <1>10, <1>11, <1>12, <1>13, <1>14,
           <1>15, <1>16, <1>17 DEF WorkflowNext, StepRuns

\* Every state of a run has its types (StepSlot, Journal and the files of RunStore).
THEOREM WorkflowTypes == WorkflowSpec => []WorkflowTypeOK
<1>1. WorkflowInit => WorkflowTypeOK
  BY TypeInit
<1>2. WorkflowTypeOK /\ [WorkflowNext]_wfvars => WorkflowTypeOK'
  BY TypeStep
<1> QED BY <1>1, <1>2, PTL DEF WorkflowSpec

-----------------------------------------------------------------------------
(* The manifest and the notice *)

\* A step of the driver between its first and its last manifest.
Inner ==
  /\ UNCHANGED <<manifest, owed, notice, app>> /\ lapses'.manifest = lapses.manifest
  /\ {driver.pc, driver'.pc} \cap {"off", "manifest"} = {}
  /\ driver'.pc = "batch" => driver'.status = "running"

\* The steps of the driver that write no manifest.
LEMMA InnerSteps ==
  ASSUME WorkflowTypeOK, ManifestInv,
         \/ \E i \in Steps : StepRuns(i)
         \/ JournalOutcome \/ Finish \/ PersistEnds \/ Unkey \/ WriteRecord \/ WriteKey
  PROVE  Inner
<1> USE DEF files, Inner
<1>1. ASSUME NEW i \in Steps, Dispatch(i) PROVE Inner
  BY <1>1 DEF Dispatch, WorkflowTypeOK, Drivers
<1>2. ASSUME NEW i \in Steps, SpawnStep(i) PROVE Inner
  BY <1>2, AppendType, OutcomeType, NoResultType DEF SpawnStep, Pumped, WorkflowTypeOK
<1>3. ASSUME NEW i \in Steps, StepNotStarted(i) PROVE Inner
  BY <1>3 DEF StepNotStarted, Pumped, WorkflowTypeOK, Drivers, Lapses
<1>4. ASSUME NEW i \in Steps, NEW registered \in BOOLEAN, SpawnSinkDead(i, registered) PROVE Inner
  BY <1>4 DEF SpawnSinkDead, Pumped, WorkflowTypeOK, Drivers
<1>5. ASSUME NEW i \in Steps, NEW out \in {Null, attempt}, Harvest(i, out) PROVE Inner
  BY <1>5 DEF Harvest, WorkflowTypeOK, Drivers
<1>6. ASSUME NEW i \in Steps, NEW out \in {Null, attempt}, FinalHarvest(i, out) PROVE Inner
  <2>1. out \in Outcomes
    BY NoResultType DEF WorkflowTypeOK, Null
  <2>2. lapses'.manifest = lapses.manifest
    BY <1>6, <2>1, AppendType, OutcomeType DEF FinalHarvest, WorkflowTypeOK
  <2> QED BY <1>6, <2>2 DEF FinalHarvest
<1>7. ASSUME NEW i \in Steps, PersistStep(i) PROVE Inner
  BY <1>7 DEF PersistStep, Harvested, WorkflowTypeOK, Drivers
<1>8. CASE JournalOutcome
  <2>1. OutcomeLine(driver.cur) \in Lines
    BY <1>8, OutcomeType DEF WorkflowTypeOK, JournalOutcome, OutcomeLine
  <2>2. lapses'.manifest = lapses.manifest
    BY <1>8, <2>1, AppendType DEF JournalOutcome, WorkflowTypeOK
  <2> QED BY <1>8, <2>2 DEF JournalOutcome, WorkflowTypeOK, Drivers
<1>9. CASE Finish
  BY <1>9 DEF Finish, WorkflowTypeOK, Drivers
<1>10. CASE PersistEnds
  BY <1>10 DEF PersistEnds, Harvested, WorkflowTypeOK, Drivers
<1>11. CASE Unkey \/ WriteRecord \/ WriteKey
  <2>1. PartEffect
    BY <1>11, PartFacts
  <2>2. driver'.pc = "batch" => driver'.status = "running"
    <3>1. CASE \E ok \in BOOLEAN : WriteStepReturns(ok)
      BY <3>1 DEF WriteStepReturns, WorkflowTypeOK, Drivers
    <3>2. CASE \E next \in {"record", "key"} : driver' = [driver EXCEPT !.pc = next]
      BY <3>2 DEF WorkflowTypeOK, Drivers
    <3> QED BY <1>11, <3>1, <3>2 DEF Unkey, WriteRecord, WriteKey, WriteStepPart
  <2>3. UNCHANGED <<manifest, owed, notice, app>>
    BY <1>11 DEF Unkey, WriteRecord, WriteKey, WriteStepPart
  <2> QED BY <2>1, <2>2, <2>3 DEF PartEffect
<1> QED BY <1>1, <1>2, <1>3, <1>4, <1>5, <1>6, <1>7, <1>8, <1>9, <1>10, <1>11 DEF StepRuns

\* Every step keeps the manifest true to the run and a death due.
LEMMA ManifestStep ==
  ASSUME WorkflowTypeOK, ManifestInv, CrashIsReported, [WorkflowNext]_wfvars
  PROVE  ManifestInv' /\ CrashIsReported'
<1> USE DEF files, ManifestInv, CrashIsReported
<1>1. ASSUME NEW s \in Scripts, StartAttempt(s) PROVE ManifestInv' /\ CrashIsReported'
  BY <1>1 DEF StartAttempt, NoDriver
<1>2. ASSUME WriteManifest PROVE ManifestInv' /\ CrashIsReported'
  <2>1. CASE driver.pc = "over"
    BY <1>2, <2>1 DEF WriteManifest, DriverGone, NoDriver, WorkflowTypeOK, Lapses
  <2>2. CASE driver.pc \in {"manifest", "batch"}
    <3>1. driver'.pc = "loop" /\ driver.status = "running"
      BY <1>2, <2>2 DEF WriteManifest, WorkflowTypeOK, Drivers
    <3> QED BY <1>2, <2>2, <3>1 DEF WriteManifest, WorkflowTypeOK, Lapses
  <2> QED BY <1>2, <2>1, <2>2 DEF WriteManifest
<1>3. ASSUME Inner PROVE ManifestInv' /\ CrashIsReported'
  BY <1>3 DEF Inner
<1>4. ASSUME Crash PROVE ManifestInv' /\ CrashIsReported'
  BY <1>4 DEF Crash, DriverGone, NoDriver, WorkflowTypeOK, Lapses
<1>5. ASSUME Startup PROVE ManifestInv' /\ CrashIsReported'
  <2>1. driver.pc = "off"
    BY <1>5 DEF Startup
  <2> QED BY <1>5, <2>1 DEF Startup, WorkflowTypeOK, Lapses
<1>6. ASSUME NEW durable \in BOOLEAN, DeliverNotice(durable) PROVE ManifestInv' /\ CrashIsReported'
  <2>1. driver.pc = "off"
    BY <1>6 DEF DeliverNotice
  <2> QED BY <1>6, <2>1 DEF DeliverNotice, WorkflowTypeOK, Lapses
<1>7. ASSUME UNCHANGED wfvars PROVE ManifestInv' /\ CrashIsReported'
  BY <1>7 DEF wfvars
<1> QED BY <1>1, <1>2, <1>3, <1>4, <1>5, <1>6, <1>7, InnerSteps DEF WorkflowNext

-----------------------------------------------------------------------------
(* The step records *)

\* A step of the driver outside write_step, and what it does to the slots.
Aside ==
  /\ UNCHANGED <<record, keyFile>> /\ lapses'.cut = lapses.cut
  /\ driver'.script = driver.script /\ driver'.onDisk = {}
  /\ {driver.pc, driver'.pc} \cap {"off", "record", "key"} = {}
  /\ driver'.pc \in {"unkey", "journal"} => slots'[driver'.cur].rec # "kept"
  /\ driver'.pc = "unkey" => slots'[driver'.cur].st = "settled"
  /\ \A i \in Steps :
       /\ slots'[i].rec = "kept" => slots[i].rec = "kept"
       /\ slots'[i].st \in {"none", "queued", "flight"} => slots'[i].rec = "none"

\* Such a step disturbs no record.
LEMMA AsideKeeps ==
  ASSUME RecordInv, Aside
  PROVE  RecordInv' /\ OwnTranscript'
BY DEF Aside, RecordInv, OwnTranscript, Writing, MyKey

\* The steps of the driver outside write_step and persist_run.
LEMMA AsideSteps ==
  ASSUME WorkflowTypeOK, RecordInv,
         \/ \E i \in Steps : StepRuns(i)
         \/ JournalOutcome \/ Finish
         \/ WriteManifest /\ driver.pc # "over"
  PROVE  Aside
<1> USE DEF files, Aside
<1>1. driver.pc # "over" => driver.onDisk = {}
  BY DEF RecordInv
<1>2. ASSUME NEW i \in Steps, Dispatch(i) PROVE Aside
  BY <1>1, <1>2 DEF Dispatch, Asked, IsFirst, StepsIn, WorkflowTypeOK, Drivers, Slots, RecordInv
<1>3. ASSUME NEW i \in Steps, SpawnStep(i) PROVE Aside
  <2>1. lapses'.cut = lapses.cut
    BY <1>3, AppendType, OutcomeType, NoResultType DEF SpawnStep, Pumped, WorkflowTypeOK
  <2> QED BY <1>1, <1>3, <2>1 DEF SpawnStep, Pumped, IsFirst, StepsIn, WorkflowTypeOK, Slots, RecordInv
<1>4. ASSUME NEW i \in Steps, StepNotStarted(i) PROVE Aside
  BY <1>1, <1>4 DEF StepNotStarted, Pumped, IsFirst, StepsIn, WorkflowTypeOK, Drivers, Slots, Lapses, RecordInv
<1>5. ASSUME NEW i \in Steps, NEW registered \in BOOLEAN, SpawnSinkDead(i, registered) PROVE Aside
  BY <1>1, <1>5 DEF SpawnSinkDead, Pumped, IsFirst, StepsIn, WorkflowTypeOK, Drivers, Slots, RecordInv
<1>6. ASSUME NEW i \in Steps, NEW out \in {Null, attempt}, Harvest(i, out) PROVE Aside
  BY <1>1, <1>6 DEF Harvest, WorkflowTypeOK, Drivers, Slots, RecordInv
<1>7. ASSUME NEW i \in Steps, NEW out \in {Null, attempt}, FinalHarvest(i, out) PROVE Aside
  <2>1. out \in Outcomes
    BY NoResultType DEF WorkflowTypeOK, Null
  <2>2. lapses'.cut = lapses.cut
    BY <1>7, <2>1, AppendType, OutcomeType DEF FinalHarvest, WorkflowTypeOK
  <2> QED BY <1>1, <1>7, <2>2 DEF FinalHarvest, IsFirst, StepsIn, WorkflowTypeOK, Slots, RecordInv
<1>8. ASSUME NEW i \in Steps, PersistStep(i) PROVE Aside
  BY <1>1, <1>8 DEF PersistStep, Harvested, IsFirst, DueRecords, WorkflowTypeOK, Drivers, Slots, RecordInv
<1>9. CASE JournalOutcome
  <2>1. OutcomeLine(driver.cur) \in Lines
    BY <1>9, OutcomeType DEF WorkflowTypeOK, JournalOutcome, OutcomeLine
  <2>2. lapses'.cut = lapses.cut
    BY <1>9, <2>1, AppendType DEF JournalOutcome, WorkflowTypeOK
  <2> QED BY <1>1, <1>9, <2>2 DEF JournalOutcome, WorkflowTypeOK, Drivers, Slots, RecordInv
<1>10. CASE Finish
  BY <1>1, <1>10 DEF Finish, WorkflowTypeOK, Drivers, RecordInv
<1>11. CASE WriteManifest /\ driver.pc # "over"
  BY <1>1, <1>11 DEF WriteManifest, WorkflowTypeOK, Drivers, Lapses, RecordInv
<1> QED BY <1>2, <1>3, <1>4, <1>5, <1>6, <1>7, <1>8, <1>9, <1>10, <1>11 DEF StepRuns

\* A driver that is gone leaves the records and no slots.
LEMMA GoneKeeps ==
  ASSUME WorkflowTypeOK, RecordInv, DriverGone, UNCHANGED <<record, keyFile>>,
         \A i \in Steps : Writing(i) \/ i \in lapses.cut => i \in lapses'.cut
  PROVE  RecordInv' /\ OwnTranscript'
<1>1. /\ driver'.pc = "off" /\ driver'.onDisk = {} /\ slots' = NoSlots
      /\ \A i \in Steps : slots'[i].rec = "none"
  BY DEF DriverGone, NoDriver, NoSlots, FreshSlot
<1> QED BY <1>1 DEF RecordInv, OwnTranscript, Writing

\* The parts of write_step keep the record and its key together, or are cut.
LEMMA WriteKeeps ==
  ASSUME WorkflowTypeOK, RecordInv, Unkey \/ WriteRecord \/ WriteKey
  PROVE  RecordInv' /\ OwnTranscript'
<1> DEFINE c == driver.cur
<1>1. PartEffect
  BY PartFacts
<1>2. /\ MyKey(c) # NoKey /\ MyKey(c) # TornFile /\ \A i \in Steps : MyKey(i)' = MyKey(i)
      /\ driver.onDisk = {} /\ slots[c].rec # "kept"
  BY <1>1, OutcomeType, NoResultType DEF PartEffect, MyKey, RecordInv
<1>3. driver'.onDisk = {}
  BY <1>2 DEF WorkflowTypeOK, Drivers, Unkey, WriteRecord, WriteKey, WriteStepPart, WriteStepReturns
<1>4. \A i \in Steps \ {c} : record'[i] = record[i] /\ keyFile'[i] = keyFile[i]
  BY <1>1 DEF WorkflowTypeOK, PartEffect, Unkey, WriteRecord, WriteKey, WriteStepPart
<1>5. /\ \A i \in Steps \ {c} : slots'[i] = slots[i]
      /\ slots'[c].st = slots[c].st
  BY <1>1 DEF WorkflowTypeOK, Slots, PartEffect, Unkey, WriteRecord, WriteKey, WriteStepPart, WriteStepReturns
<1>6. slots[c].st = "settled"
  BY <1>1 DEF PartEffect, RecordInv
<1>7. CASE WriteStepReturns(FALSE) /\ lapses' = [lapses EXCEPT !.cut = @ \cup {c}]
  <2>1. driver'.pc \in {"batch", "final"} /\ lapses'.cut = lapses.cut \cup {c}
    BY <1>1, <1>7, WriteStepReturnsType DEF PartEffect, WorkflowTypeOK, Lapses
  <2> QED BY <1>1, <1>2, <1>3, <1>4, <1>5, <1>6, <2>1 DEF PartEffect, RecordInv, OwnTranscript, Writing
<1>8. CASE /\ keyFile' = [keyFile EXCEPT ![c] = NoKey]
           /\ driver' = [driver EXCEPT !.pc = "record"] /\ UNCHANGED <<record, slots, lapses>>
  <2>1. driver'.pc = "record" /\ keyFile'[c] = NoKey
    BY <1>1, <1>8 DEF WorkflowTypeOK, Drivers, PartEffect
  <2> QED BY <1>1, <1>2, <1>3, <1>4, <1>5, <1>6, <1>8, <2>1, MarkFacts
          DEF PartEffect, RecordInv, OwnTranscript, Writing
<1>9. CASE /\ driver.pc = "record" /\ record' = [record EXCEPT ![c] = MyKey(c)]
           /\ driver' = [driver EXCEPT !.pc = "key"] /\ UNCHANGED <<keyFile, slots, lapses>>
  <2>1. driver'.pc = "key" /\ record'[c] = MyKey(c)
    BY <1>1, <1>9 DEF WorkflowTypeOK, Drivers, PartEffect
  <2>2. c \notin lapses.cut => keyFile[c] = NoKey
    BY <1>1, <1>9 DEF PartEffect, RecordInv, Writing
  <2> QED BY <1>1, <1>2, <1>3, <1>4, <1>5, <1>6, <1>9, <2>1, <2>2
          DEF PartEffect, RecordInv, OwnTranscript, Writing
<1>10. CASE /\ driver.pc = "key" /\ keyFile' = [keyFile EXCEPT ![c] = MyKey(c)]
            /\ WriteStepReturns(TRUE) /\ UNCHANGED <<record, lapses>>
  <2>1. keyFile'[c] = MyKey(c)
    BY <1>1, <1>10 DEF WorkflowTypeOK, PartEffect
  <2>2. driver'.pc \in {"batch", "final"}
    BY <1>1, <1>10, WriteStepReturnsType DEF PartEffect
  <2> QED BY <1>1, <1>2, <1>3, <1>4, <1>5, <1>6, <1>10, <2>1, <2>2
          DEF PartEffect, RecordInv, OwnTranscript, Writing
<1> QED BY <1>7, <1>8, <1>9, <1>10 DEF Unkey, WriteRecord, WriteKey, WriteStepPart

\* Every step keeps the records and their keys together.
LEMMA RecordStep ==
  ASSUME WorkflowTypeOK, RecordInv, OwnTranscript, [WorkflowNext]_wfvars
  PROVE  RecordInv' /\ OwnTranscript'
<1> USE DEF files
<1>1. ASSUME NEW s \in Scripts, StartAttempt(s) PROVE RecordInv' /\ OwnTranscript'
  <2>1. driver'.pc = "manifest" /\ driver'.onDisk = {} /\ driver.pc = "off"
    BY <1>1 DEF StartAttempt, NoDriver
  <2>2. \A i \in Steps : slots'[i].rec = "none"
    BY <1>1, <2>1 DEF StartAttempt, RecordInv, NoSlots, FreshSlot
  <2> QED BY <1>1, <2>1, <2>2 DEF StartAttempt, RecordInv, OwnTranscript, Writing
<1>2. ASSUME WriteManifest, driver.pc = "over" PROVE RecordInv' /\ OwnTranscript'
  <2>1. lapses'.cut = lapses.cut /\ \A i \in Steps : ~Writing(i)
    BY <1>2 DEF WriteManifest, WorkflowTypeOK, Lapses, Writing
  <2> QED BY <1>2, <2>1, GoneKeeps DEF WriteManifest
<1>3. ASSUME Crash PROVE RecordInv' /\ OwnTranscript'
  <2>1. \A i \in Steps : Writing(i) \/ i \in lapses.cut => i \in lapses'.cut
    BY <1>3 DEF Crash, WorkflowTypeOK, Lapses, Writing
  <2> QED BY <1>3, <2>1, GoneKeeps DEF Crash
<1>4. ASSUME PersistEnds PROVE RecordInv' /\ OwnTranscript'
  <2>1. driver'.pc = "over" /\ driver'.script = driver.script /\ driver.pc = "final"
    BY <1>4 DEF PersistEnds, Harvested, WorkflowTypeOK, Drivers
  <2>2. ASSUME NEW i \in driver'.onDisk PROVE record[i] = MyKey(i) \/ i \in lapses.cut
    <3>1. i \in Steps /\ (slots[i].rec = "kept" \/ StepMatches(i, MyKey(i)))
      BY <1>4, <2>2 DEF PersistEnds, WorkflowTypeOK, Drivers
    <3>2. MyKey(i) # NoKey
      BY <2>1, <3>1, OutcomeType, NoResultType
    <3> QED BY <2>1, <3>1, <3>2 DEF StepMatches, RecordInv, Writing
  <2> QED BY <1>4, <2>1, <2>2 DEF PersistEnds, RecordInv, OwnTranscript, Writing, MyKey
<1>5. ASSUME Startup PROVE RecordInv' /\ OwnTranscript'
  <2>1. lapses'.cut = lapses.cut
    BY <1>5 DEF Startup, WorkflowTypeOK, Lapses
  <2> QED BY <1>5, <2>1 DEF Startup, RecordInv, OwnTranscript, Writing, MyKey
<1>6. ASSUME NEW durable \in BOOLEAN, DeliverNotice(durable) PROVE RecordInv' /\ OwnTranscript'
  <2>1. lapses'.cut = lapses.cut
    BY <1>6 DEF DeliverNotice, WorkflowTypeOK, Lapses
  <2> QED BY <1>6, <2>1 DEF DeliverNotice, RecordInv, OwnTranscript, Writing, MyKey
<1>7. ASSUME UNCHANGED wfvars PROVE RecordInv' /\ OwnTranscript'
  BY <1>7 DEF wfvars, RecordInv, OwnTranscript, Writing, MyKey
<1> QED BY <1>1, <1>2, <1>3, <1>4, <1>5, <1>6, <1>7, WriteKeeps, AsideSteps, AsideKeeps DEF WorkflowNext

-----------------------------------------------------------------------------
(* What a resume replays: the invariant *)

\* The attempts whose replay gate closed, the running one included.
GatesClosed == diverged \cup (IF driver.diverged THEN {attempt} ELSE {})

\* A result r counts on v for an earlier step, and that may since have changed:
\* a later attempt had its gate closed, or the null has no line.
Forgiven(r, v, k, unlogged, gates) ==
  \/ \E a \in gates : r.at < a
  \/ v = Null /\ k \in unlogged

\* Otherwise the journal still has v for the step of key k, or an older value
\* that the null v did not remove.
Explained(r, v, k, results, unsettled, unlogged, gates) ==
  \/ Forgiven(r, v, k, unlogged, gates)
  \/ results[k].at = v /\ (v = Null => k \notin unsettled)
  \/ v = Null /\ results[k].at \in 1..(r.at - 1)

\* Every result of a journal counts on what the journal explains.
Sound(p, results, unsettled, unlogged, gates) ==
  \A i \in Steps, s \in Scripts :
    LET r == results[StepKey(i, s)] IN
    r # NoResult =>
      /\ r.at # 0
      /\ \A j \in Steps \ p[i] : r.from[j] = Null
      /\ \A j \in p[i] :
           Explained(r, r.from[j], StepKey(j, s), results, unsettled, unlogged, gates)

\* The journal has what the script was told of the step.
Told(j) ==
  /\ slots[j].st = "settled"
  /\ slots[j].out # Null => journal.results[MyKey(j)].at = slots[j].out
  /\ slots[j].out = Null =>
       \/ MyKey(j) \in lapses.unlogged
       \/ /\ journal.results[MyKey(j)] = driver.results[MyKey(j)]
          /\ MyKey(j) \notin journal.unsettled

\* The step has no result of an earlier attempt and was only started.
OnlyStarted(j) == driver.results[MyKey(j)] = NoResult /\ MyKey(j) \in driver.unsettled

PhaseInv ==
  /\ driver.pc = "off" => driver = NoDriver /\ slots = NoSlots
  /\ driver.pc \in {"manifest", "loop", "journal", "batch"} => driver.status = "running"
  /\ driver.pc \in {"final", "over"} => driver.status = "ended"
  /\ driver.pc = "journal" => slots[driver.cur].st = "flight"
  /\ \A a \in diverged : a <= attempt
  /\ driver.pc # "off" => attempt # 0 /\ attempt \notin diverged

SlotOK(i) ==
  /\ slots[i].st = "none" => \A j \in Steps : i < j => slots[j].st = "none"
  /\ slots[i].st \in {"none", "queued"} => slots[i].out = Null
  /\ slots[i].st = "flight" => slots[i].out \in {Null, attempt}
  /\ slots[i].st # "none" => \A j \in plan[i] : j < i /\ slots[j].st = "settled"
  /\ slots[i].st # "none" /\ ~slots[i].cached => driver.diverged \/ OnlyStarted(i)
  /\ slots[i].cached =>
       /\ slots[i].st = "settled" /\ driver.results[MyKey(i)] # NoResult
       /\ slots[i].out = driver.results[MyKey(i)].at
       /\ \A j \in plan[i] : slots[j].cached \/ OnlyStarted(j)

SlotInv == \A i \in Steps : SlotOK(i)

\* The journal of a run of which no line was lost.
AtInv ==
  \A k \in StepKeys :
    /\ journal.results[k].at <= attempt
    /\ driver.pc # "off" => driver.results[k].at < attempt

SoundInv ==
  /\ Sound(plan, journal.results, journal.unsettled, lapses.unlogged, GatesClosed)
  /\ driver.pc # "off" =>
       Sound(plan, driver.results, driver.unsettled, lapses.unlogged, diverged)

CopyInv ==
  driver.pc # "off" =>
    \A k \in StepKeys :
      \/ journal.results[k] = driver.results[k]
      \/ \E i \in Steps : k = MyKey(i) /\ slots[i].st = "settled" /\ ~slots[i].cached

ToldInv ==
  driver.pc # "off" =>
    /\ driver.status = "running" => \A j \in Steps : slots[j].st = "settled" => Told(j)
    /\ \A i \in Steps : slots[i].st # "none" => \A j \in plan[i] : Told(j)

JournalInv == journal.tail = NoLine /\ AtInv /\ SoundInv /\ CopyInv /\ ToldInv

ReplayInv == PhaseInv /\ SlotInv /\ (~lapses.line => JournalInv)

-----------------------------------------------------------------------------
(* What a resume replays: keys and sound journals *)

\* Keys of different steps differ; scripts that share a key of a step share the
\* keys of the earlier steps.
LEMMA KeyApart ==
  ASSUME NEW i \in Steps, NEW j \in Steps, NEW s \in Scripts, NEW t \in Scripts
  PROVE  /\ StepKey(i, s) = StepKey(j, t) => i = j
         /\ StepKey(i, s) = StepKey(i, t) /\ j < i => StepKey(j, s) = StepKey(j, t)
<1>1. StepKey(i, s) = StepKey(j, t) => i = j
  <2>1. StepKey(i, s)[1] = i /\ StepKey(j, t)[1] = j
    BY DEF StepKey
  <2> QED BY <2>1
<1>2. ASSUME StepKey(i, s) = StepKey(i, t), j < i PROVE StepKey(j, s) = StepKey(j, t)
  <2>1. CASE i < FirstEdited
    BY <1>2, <2>1, StepFacts, WorkflowAssumption DEF StepKey
  <2>2. CASE ~(i < FirstEdited)
    <3>1. StepKey(i, s)[2] = s /\ StepKey(i, t)[2] = t
      BY <2>2 DEF StepKey
    <3> QED BY <1>2, <3>1
  <2> QED BY <2>1, <2>2
<1> QED BY <1>1, <1>2

\* A journal stays sound as gates close, nulls go unlogged and keys settle.
LEMMA SoundGrows ==
  ASSUME NEW p, NEW R, NEW U, NEW L, NEW G, Sound(p, R, U, L, G),
         NEW U2 \in SUBSET U, NEW L2, L \subseteq L2, NEW G2, G \subseteq G2
  PROVE  Sound(p, R, U2, L2, G2)
BY DEF Sound, Explained, Forgiven

\* A started line leaves it sound if the results that count on the step are
\* forgiven.
LEMMA SoundStarts ==
  ASSUME NEW p, NEW R, NEW U, NEW L, NEW G, Sound(p, R, U, L, G), NEW k,
         \A i \in Steps, s \in Scripts : \A j \in p[i] :
           StepKey(j, s) = k /\ R[StepKey(i, s)] # NoResult =>
             Forgiven(R[StepKey(i, s)], R[StepKey(i, s)].from[j], k, L, G)
  PROVE  Sound(p, R, U \cup {k}, L, G)
<1> SUFFICES ASSUME NEW i \in Steps, NEW s \in Scripts, R[StepKey(i, s)] # NoResult,
                    NEW j \in p[i]
             PROVE  Explained(R[StepKey(i, s)], R[StepKey(i, s)].from[j], StepKey(j, s),
                              R, U \cup {k}, L, G)
  BY DEF Sound
<1> DEFINE r == R[StepKey(i, s)]
<1>1. Explained(r, r.from[j], StepKey(j, s), R, U, L, G)
  BY DEF Sound
<1>2. CASE StepKey(j, s) = k
  BY <1>2 DEF Explained
<1>3. CASE StepKey(j, s) # k
  BY <1>1, <1>3 DEF Explained
<1> QED BY <1>2, <1>3

\* So does a result line, whose own result has to be explained.
LEMMA SoundWrites ==
  ASSUME NEW p \in Plans, NEW R \in [StepKeys -> Results], NEW U, NEW L, NEW G, Sound(p, R, U, L, G),
         NEW c \in Steps, NEW t \in Scripts, NEW q \in Results, q.at # 0,
         \A j \in Steps \ p[c] : q.from[j] = Null,
         \A j \in p[c] : j < c /\ Explained(q, q.from[j], StepKey(j, t), R, U, L, G),
         \A i \in Steps, s \in Scripts : \A j \in p[i] :
           StepKey(j, s) = StepKey(c, t) /\ R[StepKey(i, s)] # NoResult =>
             Forgiven(R[StepKey(i, s)], R[StepKey(i, s)].from[j], StepKey(c, t), L, G)
  PROVE  Sound(p, [R EXCEPT ![StepKey(c, t)] = q], U \ {StepKey(c, t)}, L, G)
<1> DEFINE k == StepKey(c, t)
           R2 == [R EXCEPT ![k] = q]
           U2 == U \ {k}
<1>1. k \in StepKeys /\ R2[k] = q /\ \A x \in StepKeys : x # k => R2[x] = R[x]
  BY KeyFacts
<1> HIDE DEF k, R2, U2
<1>2. ASSUME NEW i \in Steps, NEW s \in Scripts, R2[StepKey(i, s)] # NoResult
      PROVE  /\ R2[StepKey(i, s)].at # 0
             /\ \A j \in Steps \ p[i] : R2[StepKey(i, s)].from[j] = Null
             /\ \A j \in p[i] : Explained(R2[StepKey(i, s)], R2[StepKey(i, s)].from[j],
                                          StepKey(j, s), R2, U2, L, G)
  <2>1. CASE StepKey(i, s) = k
    <3>1. i = c
      BY <2>1, KeyApart DEF k
    <3>2. ASSUME NEW j \in p[c]
          PROVE  Explained(q, q.from[j], StepKey(j, s), R2, U2, L, G)
      <4>1. j \in Steps /\ j < c /\ j # c
        BY StepFacts
      <4>2. StepKey(j, s) = StepKey(j, t)
        BY <2>1, <3>1, <4>1, KeyApart DEF k
      <4>3. StepKey(j, t) # k /\ StepKey(j, t) \in StepKeys
        BY <4>1, KeyApart, KeyFacts DEF k
      <4>4. R2[StepKey(j, t)] = R[StepKey(j, t)]
        BY <1>1, <4>3
      <4> QED BY <4>2, <4>4 DEF Explained, U2
    <3> QED BY <1>1, <2>1, <3>1, <3>2
  <2>2. CASE StepKey(i, s) # k
    <3> DEFINE r == R[StepKey(i, s)]
    <3>1. R2[StepKey(i, s)] = r
      BY <1>1, <2>2, KeyFacts
    <3>2. ASSUME NEW j \in p[i]
          PROVE  Explained(r, r.from[j], StepKey(j, s), R2, U2, L, G)
      <4>1. j \in Steps /\ StepKey(j, s) \in StepKeys
        BY StepFacts, KeyFacts
      <4>2. Explained(r, r.from[j], StepKey(j, s), R, U, L, G)
        BY <1>2, <3>1 DEF Sound
      <4>3. CASE StepKey(j, s) = k
        BY <1>2, <3>1, <4>3 DEF Explained, k
      <4>4. CASE StepKey(j, s) # k
        BY <1>1, <4>1, <4>2, <4>4 DEF Explained, U2
      <4> QED BY <4>3, <4>4
    <3> QED BY <1>2, <3>1, <3>2 DEF Sound
  <2> QED BY <2>1, <2>2
<1> QED BY <1>2 DEF Sound, k, R2, U2

-----------------------------------------------------------------------------
(* What a resume replays: the phases and the slots *)

\* A step that leaves the journal and the driver's copy of it alone: no slot
\* moves but from queued to flight and, at the end, from flight to settled.
Quiet ==
  /\ UNCHANGED <<plan, journal, attempt, diverged>>
  /\ lapses'.unlogged = lapses.unlogged /\ lapses'.line = lapses.line
  /\ driver'.results = driver.results /\ driver'.unsettled = driver.unsettled
  /\ driver'.script = driver.script /\ driver'.diverged = driver.diverged
  /\ driver'.status \in {driver.status, "ended"}
  /\ driver'.pc = "off" <=> driver.pc = "off"
  /\ \A i \in Steps :
       /\ slots'[i].cached = slots[i].cached
       /\ \/ slots'[i].st = slots[i].st /\ slots'[i].out = slots[i].out
          \/ slots'[i].st = "flight" /\ slots'[i].out \in {Null, attempt}
             /\ slots[i].st \in {"queued", "flight"}
          \/ slots'[i].st = "settled" /\ slots[i].st = "flight" /\ driver.status = "ended"

\* The quiet steps keep the phases in order.
LEMMA QuietSteps ==
  ASSUME WorkflowTypeOK, PhaseInv, SlotInv,
         \/ WriteManifest /\ driver.pc # "over"
         \/ \E i \in Steps, registered \in BOOLEAN : SpawnSinkDead(i, registered)
         \/ \E i \in Steps, out \in {Null, attempt} : Harvest(i, out)
         \/ \E i \in Steps : FinalHarvest(i, Null) \/ PersistStep(i)
         \/ Finish \/ PersistEnds \/ Unkey \/ WriteRecord \/ WriteKey \/ Startup
         \/ \E durable \in BOOLEAN : DeliverNotice(durable)
         \/ UNCHANGED wfvars
  PROVE  Quiet /\ PhaseInv'
<1> USE DEF files
<1>1. CASE WriteManifest /\ driver.pc # "over"
  BY <1>1 DEF WriteManifest, Quiet, PhaseInv, WorkflowTypeOK, Drivers, Lapses
<1>2. ASSUME NEW i \in Steps, NEW registered \in BOOLEAN, SpawnSinkDead(i, registered) PROVE Quiet /\ PhaseInv'
  <2>1. slots[i].st = "queued" /\ slots[i].out = Null
    BY <1>2 DEF SpawnSinkDead, Pumped, IsFirst, StepsIn, SlotInv, SlotOK
  <2> QED BY <1>2, <2>1 DEF SpawnSinkDead, Pumped, Quiet, PhaseInv, WorkflowTypeOK, Drivers, Slots
<1>3. ASSUME NEW i \in Steps, NEW out \in {Null, attempt}, Harvest(i, out) PROVE Quiet /\ PhaseInv'
  BY <1>3 DEF Harvest, Quiet, PhaseInv, WorkflowTypeOK, Drivers, Slots
<1>4. ASSUME NEW i \in Steps, FinalHarvest(i, Null) PROVE Quiet /\ PhaseInv'
  <2>1. slots[i].st = "flight"
    BY <1>4 DEF FinalHarvest, IsFirst, StepsIn
  <2> QED BY <1>4, <2>1 DEF FinalHarvest, Quiet, PhaseInv, WorkflowTypeOK, Drivers, Slots
<1>5. ASSUME NEW i \in Steps, PersistStep(i) PROVE Quiet /\ PhaseInv'
  BY <1>5 DEF PersistStep, Harvested, Quiet, PhaseInv, WorkflowTypeOK, Drivers
<1>6. CASE Finish
  BY <1>6 DEF Finish, Quiet, PhaseInv, WorkflowTypeOK, Drivers
<1>7. CASE PersistEnds
  BY <1>7 DEF PersistEnds, Harvested, Quiet, PhaseInv, WorkflowTypeOK, Drivers
<1>8. CASE Unkey \/ WriteRecord \/ WriteKey
  <2>1. PartEffect
    BY <1>8, PartFacts
  <2>2. /\ UNCHANGED <<plan, journal, attempt, diverged>>
        /\ lapses'.unlogged = lapses.unlogged /\ lapses'.line = lapses.line
    BY <1>8 DEF Unkey, WriteRecord, WriteKey, WriteStepPart, WorkflowTypeOK, Lapses
  <2>3. CASE \E ok \in BOOLEAN : WriteStepReturns(ok)
    BY <2>1, <2>2, <2>3 DEF WriteStepReturns, PartEffect, Quiet, PhaseInv, WorkflowTypeOK, Drivers, Slots
  <2>4. CASE UNCHANGED slots /\ \E next \in {"record", "key"} : driver' = [driver EXCEPT !.pc = next]
    BY <2>1, <2>2, <2>4 DEF PartEffect, Quiet, PhaseInv, WorkflowTypeOK, Drivers
  <2> QED BY <1>8, <2>3, <2>4 DEF Unkey, WriteRecord, WriteKey, WriteStepPart
<1>9. CASE Startup
  BY <1>9 DEF Startup, Quiet, PhaseInv, WorkflowTypeOK, Lapses
<1>10. ASSUME NEW durable \in BOOLEAN, DeliverNotice(durable) PROVE Quiet /\ PhaseInv'
  BY <1>10 DEF DeliverNotice, Quiet, PhaseInv, WorkflowTypeOK, Lapses
<1>11. CASE UNCHANGED wfvars
  BY <1>11 DEF wfvars, Quiet, PhaseInv
<1> QED BY <1>1, <1>2, <1>3, <1>4, <1>5, <1>6, <1>7, <1>8, <1>9, <1>10, <1>11

\* Slots move on, and nothing else the slots are judged by changes.
Moves ==
  /\ UNCHANGED <<plan, attempt>>
  /\ driver'.results = driver.results /\ driver'.unsettled = driver.unsettled
  /\ driver'.script = driver.script /\ (driver.diverged => driver'.diverged)
  /\ \A i \in Steps :
       /\ slots'[i].cached = slots[i].cached
       /\ slots'[i].st = "none" <=> slots[i].st = "none"
       /\ slots[i].st = "settled" => slots'[i].st = "settled" /\ slots'[i].out = slots[i].out
       /\ slots'[i].st \in {"none", "queued"} => slots'[i].out = Null
       /\ slots'[i].st = "flight" => slots'[i].out \in {Null, attempt}

\* Such a step keeps what the slots say.
LEMMA MovesKeep ==
  ASSUME WorkflowTypeOK, SlotInv, Moves
  PROVE  SlotInv'
<1>1. \A i \in Steps : plan[i] \subseteq Steps
  BY StepFacts DEF WorkflowTypeOK
<1>2. \A i \in Steps : MyKey(i)' = MyKey(i) /\ OnlyStarted(i)' = OnlyStarted(i)
  BY DEF Moves, MyKey, OnlyStarted
<1> QED BY <1>1, <1>2 DEF Moves, SlotInv, SlotOK

\* Quiet steps are among them.
LEMMA QuietMoves ==
  ASSUME SlotInv, Quiet
  PROVE  Moves
<1>1. /\ UNCHANGED <<plan, attempt>>
      /\ driver'.results = driver.results /\ driver'.unsettled = driver.unsettled
      /\ driver'.script = driver.script /\ (driver.diverged => driver'.diverged)
  BY DEF Quiet
<1>2. \A i \in Steps :
       /\ slots'[i].cached = slots[i].cached
       /\ slots'[i].st = "none" <=> slots[i].st = "none"
       /\ slots[i].st = "settled" => slots'[i].st = "settled" /\ slots'[i].out = slots[i].out
       /\ slots'[i].st \in {"none", "queued"} => slots'[i].out = Null
       /\ slots'[i].st = "flight" => slots'[i].out \in {Null, attempt}
  BY DEF Quiet, SlotInv, SlotOK
<1> QED BY <1>1, <1>2 DEF Moves

\* One slot that moves on.
LEMMA OneMoves ==
  ASSUME WorkflowTypeOK, SlotInv, UNCHANGED <<plan, attempt>>,
         driver'.results = driver.results, driver'.unsettled = driver.unsettled,
         driver'.script = driver.script, driver.diverged => driver'.diverged,
         NEW c \in Steps, \A i \in Steps : i # c => slots'[i] = slots[i],
         slots[c].st \in {"queued", "flight"}, slots'[c].cached = slots[c].cached,
         slots'[c].st \in {"flight", "settled"},
         slots'[c].st = "flight" => slots'[c].out = slots[c].out
  PROVE  SlotInv'
<1>1. \A i \in Steps :
       /\ slots'[i].cached = slots[i].cached
       /\ slots'[i].st = "none" <=> slots[i].st = "none"
       /\ slots[i].st = "settled" => slots'[i].st = "settled" /\ slots'[i].out = slots[i].out
       /\ slots'[i].st \in {"none", "queued"} => slots'[i].out = Null
       /\ slots'[i].st = "flight" => slots'[i].out \in {Null, attempt}
  BY DEF SlotInv, SlotOK
<1> QED BY <1>1, MovesKeep DEF Moves

\* A driver that is gone leaves no slots, and the gate of its attempt.
LEMMA GonePhases ==
  ASSUME WorkflowTypeOK, PhaseInv, DriverGone, UNCHANGED <<plan, attempt>>
  PROVE  PhaseInv' /\ SlotInv' /\ GatesClosed' = GatesClosed /\ driver'.pc = "off"
<1>1. driver' = NoDriver /\ driver'.pc = "off" /\ driver'.diverged = FALSE /\ slots' = NoSlots
  BY DEF DriverGone, NoDriver
<1>2. \A i \in Steps : slots'[i].st = "none" /\ slots'[i].out = Null /\ slots'[i].cached = FALSE
  BY <1>1 DEF NoSlots, FreshSlot
<1>3. GatesClosed' = GatesClosed
  BY <1>1 DEF GatesClosed, DriverGone
<1>4. \A a \in diverged' : a <= attempt'
  BY DEF DriverGone, PhaseInv, WorkflowTypeOK, Outcomes
<1> QED BY <1>1, <1>2, <1>3, <1>4 DEF PhaseInv, SlotInv, SlotOK

\* Every step keeps the phases and the slots in order.
LEMMA SlotStep ==
  ASSUME WorkflowTypeOK, PhaseInv, SlotInv, [WorkflowNext]_wfvars
  PROVE  PhaseInv' /\ SlotInv'
<1> USE DEF files
<1>a. \A i \in Steps : plan[i] \subseteq Steps
  BY StepFacts DEF WorkflowTypeOK
<1>b. Steps \subseteq Nat
  BY StepFacts
<1>1. ASSUME NEW s \in Scripts, StartAttempt(s) PROVE PhaseInv' /\ SlotInv'
  <2>1. /\ driver'.pc = "manifest" /\ driver'.status = "running" /\ driver'.diverged = FALSE
        /\ driver.pc = "off" /\ slots' = NoSlots
    BY <1>1 DEF StartAttempt, NoDriver, PhaseInv
  <2>2. \A i \in Steps : slots'[i].st = "none" /\ slots'[i].out = Null /\ slots'[i].cached = FALSE
    BY <2>1 DEF NoSlots, FreshSlot
  <2>3. attempt' = attempt + 1 /\ attempt \in Nat /\ diverged' = diverged /\ diverged \subseteq Nat
    BY <1>1 DEF StartAttempt, WorkflowTypeOK, Outcomes
  <2>4. PhaseInv'
    BY <2>1, <2>3 DEF PhaseInv
  <2>5. SlotInv'
    BY <2>2 DEF SlotInv, SlotOK
  <2> QED BY <2>4, <2>5
<1>2. ASSUME WriteManifest, driver.pc = "over" PROVE PhaseInv' /\ SlotInv'
  BY <1>2, GonePhases DEF WriteManifest
<1>3. ASSUME Crash PROVE PhaseInv' /\ SlotInv'
  BY <1>3, GonePhases DEF Crash
<1>4. ASSUME NEW c \in Steps, Dispatch(c) PROVE PhaseInv' /\ SlotInv'
  <2> DEFINE hit == driver.results[MyKey(c)] # NoResult
             rep == ~driver.diverged /\ hit
  <2>1. /\ slots[c].st = "none" /\ \A j \in Steps : slots[j].st = "none" => c <= j
        /\ \A j \in plan[c] : slots[j].st = "settled"
    BY <1>4 DEF Dispatch, Asked, IsFirst, StepsIn, Needs
  <2>2. \A j \in plan[c] : j < c
    <3>1. SUFFICES ASSUME NEW j \in plan[c] PROVE j < c
      OBVIOUS
    <3>2. j \in Steps /\ j \in Nat /\ c \in Nat
      BY <1>a, <1>b
    <3>3. slots[j].st = "settled"
      BY <2>1
    <3>4. SlotOK(c)
      BY DEF SlotInv
    <3>5. ~(c < j) /\ j # c
      BY <2>1, <3>2, <3>3, <3>4 DEF SlotOK
    <3> QED BY <3>2, <3>5
  <2>3. /\ UNCHANGED <<plan, attempt, diverged>>
        /\ driver'.results = driver.results /\ driver'.unsettled = driver.unsettled
        /\ driver'.script = driver.script /\ driver'.status = driver.status /\ driver'.pc = "loop"
        /\ driver'.cur = driver.cur
        /\ driver'.diverged = (driver.diverged \/ (~hit /\ MyKey(c) \notin driver.unsettled))
    BY <1>4 DEF Dispatch, Consult, WorkflowTypeOK, Drivers
  <2>4. \A i \in Steps : MyKey(i)' = MyKey(i) /\ OnlyStarted(i)' = OnlyStarted(i)
    BY <2>3 DEF MyKey, OnlyStarted
  <2>5. \A i \in Steps : i # c => slots'[i] = slots[i]
    BY <1>4 DEF Dispatch, WorkflowTypeOK
  <2>6. slots[c].out = Null /\ ~slots[c].cached
    BY <2>1 DEF SlotInv, SlotOK
  <2>7. \A j \in Steps :
          /\ slots[j].st = "settled" => slots'[j] = slots[j]
          /\ slots[j].cached => slots'[j].cached
          /\ slots'[j].st = "none" => c < j /\ slots[j].st = "none"
    <3>1. slots'[c].st # "none"
      BY <1>4 DEF Dispatch, WorkflowTypeOK, Slots
    <3>2. ASSUME NEW j \in Steps, slots'[j].st = "none" PROVE c < j /\ slots[j].st = "none"
      BY <1>b, <2>1, <2>5, <3>1, <3>2
    <3> QED BY <2>1, <2>5, <2>6, <3>2
  <2>8. ASSUME NEW i \in Steps, i # c PROVE SlotOK(i)'
    <3>1. SlotOK(i) /\ slots'[i] = slots[i] /\ MyKey(i)' = MyKey(i) /\ OnlyStarted(i)' = OnlyStarted(i)
      BY <2>4, <2>5, <2>8 DEF SlotInv
    <3>2. slots'[i].st = "none" => \A j \in Steps : i < j => slots'[j].st = "none"
      <4>1. SUFFICES ASSUME slots'[i].st = "none", NEW j \in Steps, i < j PROVE slots'[j].st = "none"
        OBVIOUS
      <4>2. c < i /\ slots[j].st = "none"
        BY <2>7, <3>1, <4>1 DEF SlotOK
      <4>3. j # c
        BY <1>b, <4>1, <4>2
      <4> QED BY <2>5, <4>2, <4>3
    <3>3. /\ slots'[i].st \in {"none", "queued"} => slots'[i].out = Null
          /\ slots'[i].st = "flight" => slots'[i].out \in {Null, attempt'}
      BY <2>3, <3>1 DEF SlotOK
    <3>4. slots'[i].st # "none" => \A j \in plan'[i] : j < i /\ slots'[j].st = "settled"
      BY <1>a, <2>3, <2>7, <3>1 DEF SlotOK
    <3>5. slots'[i].st # "none" /\ ~slots'[i].cached => driver'.diverged \/ OnlyStarted(i)'
      BY <2>3, <3>1 DEF SlotOK
    <3>6. slots'[i].cached =>
            /\ slots'[i].st = "settled" /\ driver'.results[MyKey(i)'] # NoResult
            /\ slots'[i].out = driver'.results[MyKey(i)'].at
      BY <2>3, <3>1 DEF SlotOK
    <3>7. slots'[i].cached => \A j \in plan'[i] : slots'[j].cached \/ OnlyStarted(j)'
      BY <1>a, <2>3, <2>4, <2>7, <3>1 DEF SlotOK
    <3> QED BY <3>2, <3>3, <3>4, <3>5, <3>6, <3>7 DEF SlotOK
  <2>9. \A j \in plan'[c] : j \in Steps /\ j < c /\ slots'[j].st = "settled"
    BY <1>a, <2>1, <2>2, <2>3, <2>7
  <2>10. CASE rep
    <3>1. slots'[c].st = "settled" /\ slots'[c].cached = TRUE /\ slots'[c].out = driver.results[MyKey(c)].at
      BY <1>4, <2>10 DEF Dispatch, Consult, WorkflowTypeOK, Slots
    <3>2. \A j \in plan[c] : slots[j].cached \/ OnlyStarted(j)
      BY <1>a, <2>1, <2>10 DEF SlotInv, SlotOK
    <3>3. SlotInv'
      <4>1. \A j \in plan'[c] : slots'[j].cached \/ OnlyStarted(j)'
        BY <1>a, <2>3, <2>4, <2>7, <3>2
      <4>2. SlotOK(c)'
        BY <2>3, <2>4, <2>10, <2>9, <3>1, <4>1 DEF SlotOK
      <4> QED BY <2>8, <4>2 DEF SlotInv
    <3> QED BY <1>4, <2>3, <3>3 DEF PhaseInv, Dispatch
  <2>11. CASE ~rep
    <3>1. slots'[c].st = "queued" /\ slots'[c].cached = slots[c].cached /\ slots'[c].out = Null
      BY <1>4, <2>6, <2>11 DEF Dispatch, Consult, WorkflowTypeOK, Slots
    <3>2. driver'.diverged \/ OnlyStarted(c)
      BY <2>3, <2>11 DEF OnlyStarted, WorkflowTypeOK, Drivers
    <3>3. SlotInv'
      <4>1. SlotOK(c)'
        BY <2>4, <2>6, <2>9, <3>1, <3>2 DEF SlotOK
      <4> QED BY <2>8, <4>1 DEF SlotInv
    <3> QED BY <1>4, <2>3, <3>3 DEF PhaseInv, Dispatch
  <2> QED BY <2>10, <2>11
<1>5. ASSUME NEW c \in Steps, SpawnStep(c) PROVE PhaseInv' /\ SlotInv'
  <2>1. slots[c].st = "queued" /\ UNCHANGED <<plan, driver, attempt, diverged>>
    BY <1>5 DEF SpawnStep, Pumped, IsFirst, StepsIn
  <2>2. /\ \A i \in Steps : i # c => slots'[i] = slots[i]
        /\ slots'[c].st = "flight" /\ slots'[c].out = slots[c].out /\ slots'[c].cached = slots[c].cached
    BY <1>5 DEF SpawnStep, WorkflowTypeOK, Slots
  <2>4. SlotInv'
    BY <2>1, <2>2, OneMoves
  <2> QED BY <1>5, <2>1, <2>4 DEF PhaseInv, SpawnStep, Pumped
<1>6. ASSUME NEW c \in Steps, StepNotStarted(c) PROVE PhaseInv' /\ SlotInv'
  <2>1. /\ slots[c].st = "queued" /\ UNCHANGED <<plan, attempt, diverged>>
        /\ driver'.results = driver.results /\ driver'.unsettled = driver.unsettled
        /\ driver'.script = driver.script /\ driver'.status = driver.status /\ driver'.pc = "loop"
        /\ driver'.diverged = TRUE /\ driver.pc = "loop"
    BY <1>6 DEF StepNotStarted, Pumped, IsFirst, StepsIn, WorkflowTypeOK, Drivers
  <2>2. /\ \A i \in Steps : i # c => slots'[i] = slots[i]
        /\ slots'[c].st = "settled" /\ slots'[c].out = slots[c].out /\ slots'[c].cached = slots[c].cached
    BY <1>6 DEF StepNotStarted, WorkflowTypeOK, Slots
  <2>4. SlotInv'
    BY <2>1, <2>2, OneMoves
  <2> QED BY <2>1, <2>4 DEF PhaseInv
<1>7. ASSUME JournalOutcome PROVE PhaseInv' /\ SlotInv'
  <2> DEFINE c == driver.cur
  <2>1. /\ c \in Steps /\ slots[c].st = "flight" /\ UNCHANGED <<plan, attempt, diverged>>
        /\ driver'.results = driver.results /\ driver'.unsettled = driver.unsettled
        /\ driver'.script = driver.script /\ driver'.status = driver.status /\ driver'.pc = "unkey"
        /\ driver.diverged => driver'.diverged
        /\ driver.pc = "journal"
    BY <1>7 DEF JournalOutcome, PhaseInv, WorkflowTypeOK, Drivers
  <2>2. /\ \A i \in Steps : i # c => slots'[i] = slots[i]
        /\ slots'[c].st = "settled" /\ slots'[c].out = slots[c].out /\ slots'[c].cached = slots[c].cached
    BY <1>7, <2>1 DEF JournalOutcome, WorkflowTypeOK, Slots
  <2> HIDE DEF c
  <2>4. SlotInv'
    BY <2>1, <2>2, OneMoves
  <2> QED BY <2>1, <2>4 DEF PhaseInv
<1>8. ASSUME NEW c \in Steps, FinalHarvest(c, attempt) PROVE PhaseInv' /\ SlotInv'
  <2>1. slots[c].st = "flight" /\ UNCHANGED <<plan, driver, attempt, diverged>> /\ driver.pc = "final"
    BY <1>8 DEF FinalHarvest, IsFirst, StepsIn
  <2>2. /\ \A i \in Steps : i # c => slots'[i] = slots[i]
        /\ slots'[c].st = "settled" /\ slots'[c].out = attempt /\ slots'[c].cached = slots[c].cached
    BY <1>8 DEF FinalHarvest, WorkflowTypeOK, Slots
  <2>4. SlotInv'
    BY <2>1, <2>2, OneMoves
  <2> QED BY <2>1, <2>4 DEF PhaseInv
<1>9. CASE \/ WriteManifest /\ driver.pc # "over"
           \/ \E i \in Steps, registered \in BOOLEAN : SpawnSinkDead(i, registered)
           \/ \E i \in Steps, out \in {Null, attempt} : Harvest(i, out)
           \/ \E i \in Steps : FinalHarvest(i, Null) \/ PersistStep(i)
           \/ Finish \/ PersistEnds \/ Unkey \/ WriteRecord \/ WriteKey \/ Startup
           \/ \E durable \in BOOLEAN : DeliverNotice(durable)
           \/ UNCHANGED wfvars
  BY <1>9, QuietSteps, QuietMoves, MovesKeep
<1> QED BY <1>1, <1>2, <1>3, <1>4, <1>5, <1>6, <1>7, <1>8, <1>9 DEF WorkflowNext, StepRuns

-----------------------------------------------------------------------------
(* What a resume replays: the journal *)

\* A line is there, or the run knows that one was lost.
LEMMA AppendKept ==
  ASSUME WorkflowTypeOK, journal.tail = NoLine, NEW line \in Lines, AppendLine(line), ~lapses'.line
  PROVE  /\ journal' = Recorded(journal, line) /\ journal'.tail = NoLine
         /\ lapses'.unlogged = lapses.unlogged
<1>1. journal' = Appended(line) /\ lapses'.unlogged = lapses.unlogged
  BY DEF AppendLine, WorkflowTypeOK, Lapses
<1>2. Recorded(journal, line).tail = NoLine
  BY RecordedType DEF WorkflowTypeOK
<1> QED BY <1>1, <1>2 DEF Appended

\* A lost line stays lost.
LEMMA LineStays ==
  ASSUME WorkflowTypeOK, [WorkflowNext]_wfvars, lapses.line
  PROVE  lapses'.line
<1> USE DEF files
<1>1. ASSUME NEW line, AppendLine(line) PROVE lapses'.line
  BY <1>1 DEF AppendLine, WorkflowTypeOK, Lapses
<1>2. ASSUME NEW i \in Steps, StepRuns(i) PROVE lapses'.line
  BY <1>1, <1>2 DEF StepRuns, Dispatch, SpawnStep, StepNotStarted, SpawnSinkDead, Harvest, FinalHarvest,
                    PersistStep, WorkflowTypeOK, Lapses
<1>3. CASE \/ \E s \in Scripts : StartAttempt(s)
           \/ WriteManifest \/ Finish \/ PersistEnds \/ Crash \/ Startup
           \/ \E durable \in BOOLEAN : DeliverNotice(durable)
  BY <1>3 DEF StartAttempt, WriteManifest, Finish, PersistEnds, Crash, Startup, DeliverNotice,
              WorkflowTypeOK, Lapses
<1>4. CASE JournalOutcome
  BY <1>1, <1>4 DEF JournalOutcome
<1>5. CASE Unkey \/ WriteRecord \/ WriteKey
  BY <1>5 DEF Unkey, WriteRecord, WriteKey, WriteStepPart, WorkflowTypeOK, Lapses
<1>6. CASE UNCHANGED wfvars
  BY <1>6 DEF wfvars
<1> QED BY <1>2, <1>3, <1>4, <1>5, <1>6 DEF WorkflowNext

\* The results that count on a step that is run again are of earlier attempts:
\* the gate is closed, or the step was only started and they were forgiven.
LEMMA RunningForgives ==
  ASSUME WorkflowTypeOK, PhaseInv, SlotInv, JournalInv, driver.pc # "off",
         NEW c \in Steps, slots[c].st \in {"queued", "flight"}
  PROVE  \A i \in Steps, s \in Scripts : \A j \in plan[i] :
           StepKey(j, s) = MyKey(c) /\ journal.results[StepKey(i, s)] # NoResult =>
             Forgiven(journal.results[StepKey(i, s)], journal.results[StepKey(i, s)].from[j],
                      MyKey(c), lapses.unlogged, GatesClosed)
<1> SUFFICES ASSUME NEW i \in Steps, NEW s \in Scripts, NEW j \in plan[i],
                    StepKey(j, s) = MyKey(c), journal.results[StepKey(i, s)] # NoResult
             PROVE  Forgiven(journal.results[StepKey(i, s)], journal.results[StepKey(i, s)].from[j],
                             MyKey(c), lapses.unlogged, GatesClosed)
  OBVIOUS
<1> DEFINE k == StepKey(i, s)
           r == journal.results[k]
<1>1. k \in StepKeys /\ driver.script \in Scripts /\ plan \in Plans /\ plan[i] \subseteq Steps
  BY KeyFacts, StepFacts DEF WorkflowTypeOK
<1>2. j = c
  BY <1>1, KeyApart DEF MyKey
<1>3. r = driver.results[k]
  <2>1. ASSUME NEW n \in Steps, k = MyKey(n), slots[n].st = "settled" PROVE FALSE
    <3>1. n = i
      BY <1>1, <2>1, KeyApart DEF MyKey
    <3>2. slots[c].st = "settled"
      BY <1>2, <2>1, <3>1 DEF SlotInv, SlotOK
    <3> QED BY <3>2
  <2> QED BY <1>1, <2>1 DEF JournalInv, CopyInv
<1>4. r.at < attempt
  BY <1>1, <1>3 DEF JournalInv, AtInv
<1>5. ~slots[c].cached
  BY DEF SlotInv, SlotOK
<1>6. CASE driver.diverged
  BY <1>4, <1>6 DEF Forgiven, GatesClosed
<1>7. CASE OnlyStarted(c)
  <2>1. Explained(r, r.from[j], MyKey(c), driver.results, driver.unsettled, lapses.unlogged, diverged)
    BY <1>3 DEF JournalInv, SoundInv, Sound
  <2>2. driver.results[MyKey(c)].at = Null /\ MyKey(c) \in driver.unsettled
    BY <1>7 DEF OnlyStarted, NoResult, Null
  <2>3. Forgiven(r, r.from[j], MyKey(c), lapses.unlogged, diverged)
    <3>1. 0 \notin 1..(r.at - 1)
      BY SMT
    <3> QED BY <2>1, <2>2, <3>1 DEF Explained, Null
  <2> QED BY <2>3 DEF Forgiven, GatesClosed
<1> QED BY <1>5, <1>6, <1>7 DEF SlotInv, SlotOK

\* What the script was told explains a result that counts on it.
LEMMA ToldExplains ==
  ASSUME WorkflowTypeOK, PhaseInv, JournalInv, driver.pc # "off",
         NEW j \in Steps, Told(j), NEW q, q.at = attempt
  PROVE  Explained(q, slots[j].out, MyKey(j), journal.results, journal.unsettled, lapses.unlogged, GatesClosed)
<1>1. MyKey(j) \in StepKeys
  BY OutcomeType, NoResultType
<1>2. CASE slots[j].out # Null
  BY <1>2 DEF Told, Explained
<1>3. CASE slots[j].out = Null /\ MyKey(j) \in lapses.unlogged
  BY <1>3 DEF Explained, Forgiven
<1>4. CASE /\ slots[j].out = Null /\ journal.results[MyKey(j)] = driver.results[MyKey(j)]
           /\ MyKey(j) \notin journal.unsettled
  <2>1. journal.results[MyKey(j)].at \in Nat /\ journal.results[MyKey(j)].at < attempt /\ attempt \in Nat
    BY <1>1, <1>4 DEF JournalInv, AtInv, WorkflowTypeOK, Journals, Results, Outcomes
  <2>2. CASE journal.results[MyKey(j)].at = 0
    BY <1>4, <2>2 DEF Explained, Null
  <2>3. CASE journal.results[MyKey(j)].at # 0
    <3>1. journal.results[MyKey(j)].at \in 1..(q.at - 1)
      BY <2>1, <2>3
    <3> QED BY <1>4, <3>1 DEF Explained
  <2> QED BY <2>2, <2>3
<1> QED BY <1>2, <1>3, <1>4 DEF Told

\* A quiet step keeps the journal's invariant.
LEMMA QuietJournal ==
  ASSUME WorkflowTypeOK, PhaseInv, SlotInv, JournalInv, Quiet
  PROVE  JournalInv'
<1>1. \A i \in Steps : plan[i] \subseteq Steps
  BY StepFacts DEF WorkflowTypeOK
<1>2. \A i \in Steps : MyKey(i)' = MyKey(i)
  BY DEF Quiet, MyKey
<1>3. journal'.tail = NoLine /\ AtInv'
  BY DEF Quiet, JournalInv, AtInv
<1>4. SoundInv'
  <2>1. GatesClosed' = GatesClosed
    BY DEF Quiet, GatesClosed
  <2> QED BY <2>1 DEF Quiet, JournalInv, SoundInv
<1>5. Moves
  BY QuietMoves
<1>6. CopyInv'
  BY <1>2, <1>5 DEF Quiet, Moves, JournalInv, CopyInv
<1>7. \A j \in Steps : Told(j) => Told(j)'
  BY <1>2, <1>5 DEF Quiet, Moves, Told
<1>8. ToldInv'
  <2>1. ASSUME driver'.pc # "off", driver'.status = "running", NEW j \in Steps, slots'[j].st = "settled"
        PROVE  Told(j)'
    <3>1. driver.pc # "off" /\ driver.status = "running" /\ slots[j].st = "settled"
      BY <2>1 DEF Quiet
    <3> QED BY <1>7, <3>1 DEF JournalInv, ToldInv
  <2>2. ASSUME driver'.pc # "off", NEW i \in Steps, slots'[i].st # "none", NEW j \in plan[i] PROVE Told(j)'
    <3>1. driver.pc # "off" /\ slots[i].st # "none" /\ j \in Steps
      BY <1>1, <1>5, <2>2 DEF Quiet, Moves
    <3> QED BY <1>7, <3>1 DEF JournalInv, ToldInv
  <2>3. plan' = plan
    BY DEF Quiet
  <2> QED BY <2>1, <2>2, <2>3 DEF ToldInv
<1> QED BY <1>3, <1>4, <1>6, <1>8 DEF JournalInv

\* So does the end of a driver.
LEMMA GoneJournal ==
  ASSUME WorkflowTypeOK, PhaseInv, JournalInv, DriverGone, UNCHANGED <<plan, journal, attempt>>,
         lapses'.unlogged = lapses.unlogged
  PROVE  JournalInv'
<1>1. GatesClosed' = GatesClosed /\ driver'.pc = "off"
  BY GonePhases
<1> QED BY <1>1 DEF JournalInv, AtInv, SoundInv, CopyInv, ToldInv

\* And the start of one, which reads the journal.
LEMMA StartJournal ==
  ASSUME WorkflowTypeOK, PhaseInv, JournalInv, NEW s \in Scripts, StartAttempt(s)
  PROVE  JournalInv'
<1> USE DEF files
<1>1. /\ driver'.results = journal.results /\ driver'.unsettled = journal.unsettled
      /\ driver'.diverged = FALSE /\ driver.pc = "off" /\ driver.diverged = FALSE
      /\ driver'.pc = "manifest" /\ slots' = NoSlots /\ UNCHANGED <<plan, journal, diverged, lapses>>
  BY DEF StartAttempt, LoadJournal, JournalInv, NoDriver, PhaseInv
<1>2. attempt' = attempt + 1 /\ attempt \in Nat /\ \A k \in StepKeys : journal.results[k].at \in Nat
  BY DEF StartAttempt, WorkflowTypeOK, Journals, Results, Outcomes
<1>3. AtInv'
  BY <1>1, <1>2 DEF JournalInv, AtInv
<1>4. GatesClosed = diverged /\ GatesClosed' = diverged
  BY <1>1 DEF GatesClosed
<1>5. SoundInv'
  BY <1>1, <1>4 DEF JournalInv, SoundInv
<1>6. \A i \in Steps : slots'[i].st = "none"
  BY <1>1 DEF NoSlots, FreshSlot
<1>7. CopyInv' /\ ToldInv'
  BY <1>1, <1>6 DEF CopyInv, ToldInv
<1> QED BY <1>1, <1>3, <1>5, <1>7 DEF JournalInv

\* A step of the driver that touches one slot, of a step not yet settled, and
\* the journal under its key.
Local(c) ==
  /\ UNCHANGED <<plan, attempt, diverged>>
  /\ driver.pc # "off" /\ driver'.pc # "off"
  /\ driver'.results = driver.results /\ driver'.unsettled = driver.unsettled
  /\ driver'.script = driver.script /\ driver'.status = driver.status
  /\ (driver.diverged => driver'.diverged)
  /\ lapses.unlogged \subseteq lapses'.unlogged
  /\ journal'.tail = NoLine
  /\ \A k \in StepKeys : k # MyKey(c) =>
       journal'.results[k] = journal.results[k] /\ (k \in journal'.unsettled <=> k \in journal.unsettled)
  /\ \A i \in Steps : i # c => slots'[i] = slots[i]
  /\ slots[c].st # "settled"

\* It keeps the journal's invariant if the journal stays sound and the slot is
\* told what the journal has.
LEMMA LocalKeeps ==
  ASSUME WorkflowTypeOK, PhaseInv, SlotInv, JournalInv, NEW c \in Steps, Local(c),
         journal'.results[MyKey(c)].at <= attempt,
         Sound(plan, journal'.results, journal'.unsettled, lapses'.unlogged, GatesClosed'),
         \/ journal'.results[MyKey(c)] = journal.results[MyKey(c)]
         \/ slots'[c].st = "settled" /\ ~slots'[c].cached,
         driver.status = "running" /\ slots'[c].st = "settled" => Told(c)',
         \A j \in plan[c] : j # c /\ Told(j)
  PROVE  JournalInv'
<1>1. \A i \in Steps : plan[i] \subseteq Steps /\ MyKey(i) \in StepKeys /\ MyKey(i)' = MyKey(i)
  <2>1. \A i \in Steps : plan[i] \subseteq Steps
    BY StepFacts DEF WorkflowTypeOK
  <2>2. \A i \in Steps : MyKey(i) \in StepKeys
    BY OutcomeType, NoResultType DEF Local
  <2> QED BY <2>1, <2>2 DEF Local, MyKey
<1>2. \A i \in Steps : i # c => MyKey(i) # MyKey(c)
  BY KeyApart DEF MyKey, WorkflowTypeOK, Local
<1>3. AtInv'
  BY DEF Local, JournalInv, AtInv
<1>4. SoundInv'
  <2>1. Sound(plan, driver.results, driver.unsettled, lapses'.unlogged, diverged)
    BY SoundGrows DEF Local, JournalInv, SoundInv
  <2> QED BY <2>1 DEF Local, SoundInv
<1>5. CopyInv'
  <2>1. ASSUME NEW k \in StepKeys
        PROVE  \/ journal'.results[k] = driver.results[k]
               \/ \E i \in Steps : k = MyKey(i) /\ slots'[i].st = "settled" /\ ~slots'[i].cached
    <3>1. CASE k = MyKey(c)
      <4>1. journal.results[k] = driver.results[k]
        BY <1>2, <3>1 DEF Local, JournalInv, CopyInv
      <4> QED BY <3>1, <4>1
    <3>2. CASE k # MyKey(c)
      BY <3>2 DEF Local, JournalInv, CopyInv
    <3> QED BY <3>1, <3>2
  <2> QED BY <1>1, <2>1 DEF Local, CopyInv
<1>6. ASSUME NEW j \in Steps, j # c, Told(j) PROVE Told(j)'
  <2>1. /\ journal'.results[MyKey(j)] = journal.results[MyKey(j)]
        /\ MyKey(j) \in journal'.unsettled <=> MyKey(j) \in journal.unsettled
        /\ slots'[j] = slots[j] /\ driver'.results = driver.results /\ MyKey(j)' = MyKey(j)
        /\ lapses.unlogged \subseteq lapses'.unlogged
    BY <1>1, <1>2, <1>6 DEF Local
  <2> QED BY <1>6, <2>1 DEF Told
<1>7. ToldInv'
  <2>1. ASSUME driver.status = "running", NEW j \in Steps, slots'[j].st = "settled" PROVE Told(j)'
    <3>1. CASE j = c
      BY <2>1, <3>1
    <3>2. CASE j # c
      <4>1. Told(j)
        BY <2>1, <3>2 DEF Local, JournalInv, ToldInv
      <4> QED BY <1>6, <3>2, <4>1
    <3> QED BY <3>1, <3>2
  <2>2. ASSUME NEW i \in Steps, slots'[i].st # "none", NEW j \in plan[i] PROVE Told(j)'
    <3>1. j \in Steps /\ Told(j)
      BY <1>1, <2>2 DEF Local, JournalInv, ToldInv
    <3>2. j # c
      BY <3>1 DEF Told, Local
    <3> QED BY <1>6, <3>1, <3>2
  <2> QED BY <2>1, <2>2 DEF Local, ToldInv
<1> QED BY <1>3, <1>4, <1>5, <1>7 DEF Local, JournalInv

\* A gate once closed is on record.
LEMMA GatesGrow ==
  ASSUME NEW c \in Steps, Local(c)
  PROVE  GatesClosed \subseteq GatesClosed'
BY DEF Local, GatesClosed

\* Dispatch keeps the invariant: a replayed outcome is the journal's.
LEMMA DispatchJournal ==
  ASSUME WorkflowTypeOK, PhaseInv, SlotInv, JournalInv, NEW c \in Steps, Dispatch(c)
  PROVE  JournalInv'
<1> USE DEF files
<1>1. slots[c].st = "none" /\ \A j \in plan[c] : slots[j].st = "settled"
  BY DEF Dispatch, Asked, IsFirst, StepsIn, Needs
<1>2. Local(c) /\ UNCHANGED <<journal, lapses>>
  BY <1>1 DEF Local, Dispatch, Consult, JournalInv, WorkflowTypeOK, Drivers
<1>3. MyKey(c) \in StepKeys /\ plan[c] \subseteq Steps /\ MyKey(c)' = MyKey(c)
  BY <1>2, OutcomeType, NoResultType, StepFacts DEF WorkflowTypeOK, Local, MyKey
<1>4. Sound(plan, journal.results, journal.unsettled, lapses.unlogged, GatesClosed')
  BY <1>2, GatesGrow, SoundGrows DEF JournalInv, SoundInv
<1>5. \A j \in plan[c] : j # c /\ Told(j)
  BY <1>1, <1>3 DEF JournalInv, ToldInv, PhaseInv, Dispatch
<1>6. ASSUME slots'[c].st = "settled" PROVE Told(c)'
  <2>1. slots'[c].out = driver.results[MyKey(c)].at /\ driver.results[MyKey(c)] # NoResult
    BY <1>6 DEF Dispatch, Consult, WorkflowTypeOK, Slots
  <2>2. journal.results[MyKey(c)] = driver.results[MyKey(c)]
    <3>1. \A n \in Steps : MyKey(c) = MyKey(n) => n = c
      BY <1>2, KeyApart DEF MyKey, WorkflowTypeOK, Local
    <3> QED BY <1>1, <1>2, <1>3, <3>1 DEF JournalInv, CopyInv, Local
  <2>3. driver.results[MyKey(c)].at # Null
    <3>1. PICK s \in Scripts : MyKey(c) = StepKey(c, s)
      BY <1>2 DEF MyKey, WorkflowTypeOK, Local
    <3> QED BY <1>2, <2>1, <3>1 DEF JournalInv, SoundInv, Sound, Local, Null
  <2> QED BY <1>2, <1>3, <1>6, <2>1, <2>2, <2>3 DEF Told
<1>7. journal'.results[MyKey(c)].at <= attempt
  BY <1>2, <1>3 DEF JournalInv, AtInv
<1> QED BY <1>2, <1>4, <1>5, <1>6, <1>7, LocalKeeps

\* A null without a line is forgiven from now on.
LEMMA NotStartedJournal ==
  ASSUME WorkflowTypeOK, PhaseInv, SlotInv, JournalInv, NEW c \in Steps, StepNotStarted(c)
  PROVE  JournalInv'
<1> USE DEF files
<1>1. slots[c].st = "queued" /\ slots[c].out = Null
  BY DEF StepNotStarted, Pumped, IsFirst, StepsIn, SlotInv, SlotOK
<1>2. Local(c) /\ UNCHANGED journal /\ lapses'.unlogged = lapses.unlogged \cup {MyKey(c)}
  BY <1>1 DEF Local, StepNotStarted, Pumped, JournalInv, WorkflowTypeOK, Drivers, Lapses
<1>3. MyKey(c) \in StepKeys /\ plan[c] \subseteq Steps /\ MyKey(c)' = MyKey(c)
  BY <1>2, OutcomeType, NoResultType, StepFacts DEF WorkflowTypeOK, Local, MyKey
<1>4. Sound(plan, journal.results, journal.unsettled, lapses'.unlogged, GatesClosed')
  BY <1>2, GatesGrow, SoundGrows DEF JournalInv, SoundInv
<1>5. \A j \in plan[c] : j # c /\ Told(j)
  BY <1>1, <1>2, <1>3 DEF JournalInv, ToldInv, Told, Local
<1>6. slots'[c].st = "settled" /\ slots'[c].out = Null
  BY <1>1 DEF StepNotStarted, WorkflowTypeOK, Slots
<1>7. Told(c)'
  BY <1>2, <1>3, <1>6 DEF Told
<1>8. journal'.results[MyKey(c)].at <= attempt
  BY <1>2, <1>3 DEF JournalInv, AtInv
<1> QED BY <1>2, <1>4, <1>5, <1>7, <1>8, LocalKeeps

\* What a line does to the journal, key by key.
LEMMA RecordedFacts ==
  ASSUME NEW j \in Journals, NEW kind \in {"started", "result", "settled"},
         NEW k \in StepKeys, NEW r \in Results
  PROVE  LET n == Recorded(j, Line(kind, k, r)) IN
         /\ n.results = IF kind = "result" THEN [j.results EXCEPT ![k] = r] ELSE j.results
         /\ n.unsettled = IF kind = "started" THEN j.unsettled \cup {k} ELSE j.unsettled \ {k}
<1>1. [j.results EXCEPT ![k] = j.results[k]] = j.results
  BY DEF Journals
<1> QED BY <1>1 DEF Recorded, Line, Journals

\* Started: the results that count on the step are forgiven.
LEMMA SpawnJournal ==
  ASSUME WorkflowTypeOK, PhaseInv, SlotInv, JournalInv, NEW c \in Steps, SpawnStep(c), ~lapses'.line
  PROVE  JournalInv'
<1> USE DEF files
<1>1. slots[c].st = "queued" /\ driver.pc = "loop" /\ driver' = driver /\ UNCHANGED <<plan, attempt, diverged>>
  BY DEF SpawnStep, Pumped, IsFirst, StepsIn
<1>2. MyKey(c) \in StepKeys /\ plan[c] \subseteq Steps /\ StartedLine(MyKey(c)) \in Lines
  BY <1>1, OutcomeType, NoResultType, StepFacts DEF WorkflowTypeOK
<1>3. /\ journal' = Recorded(journal, StartedLine(MyKey(c))) /\ journal'.tail = NoLine
      /\ lapses'.unlogged = lapses.unlogged
  BY <1>2, AppendKept DEF SpawnStep, JournalInv
<1>4. journal'.results = journal.results /\ journal'.unsettled = journal.unsettled \cup {MyKey(c)}
  BY <1>2, <1>3, RecordedFacts, NoResultType DEF StartedLine, WorkflowTypeOK
<1>5. /\ \A i \in Steps : i # c => slots'[i] = slots[i]
      /\ slots'[c].st = "flight"
  BY DEF SpawnStep, WorkflowTypeOK, Slots
<1>6. Local(c)
  BY <1>1, <1>3, <1>4, <1>5 DEF Local
<1>7. GatesClosed' = GatesClosed
  BY <1>1 DEF GatesClosed
<1>8. Sound(plan, journal.results, journal.unsettled \cup {MyKey(c)}, lapses.unlogged, GatesClosed)
  <2>1. Sound(plan, journal.results, journal.unsettled, lapses.unlogged, GatesClosed)
    BY DEF JournalInv, SoundInv
  <2>2. \A i \in Steps, s \in Scripts : \A j \in plan[i] :
           StepKey(j, s) = MyKey(c) /\ journal.results[StepKey(i, s)] # NoResult =>
             Forgiven(journal.results[StepKey(i, s)], journal.results[StepKey(i, s)].from[j],
                      MyKey(c), lapses.unlogged, GatesClosed)
    BY <1>1, RunningForgives
  <2> QED BY <2>1, <2>2, SoundStarts
<1>9. \A j \in plan[c] : j # c /\ Told(j)
  BY <1>1, <1>2 DEF JournalInv, ToldInv, Told
<1>10. journal'.results[MyKey(c)].at <= attempt
  BY <1>2, <1>4 DEF JournalInv, AtInv
<1> QED BY <1>3, <1>4, <1>5, <1>6, <1>7, <1>8, <1>9, <1>10, LocalKeeps

\* A value: the result counts on what the script was told.
LEMMA ResultJournal ==
  ASSUME WorkflowTypeOK, PhaseInv, SlotInv, JournalInv, NEW c \in Steps,
         slots[c].st = "flight", driver.pc # "off", driver'.pc # "off",
         UNCHANGED <<plan, attempt, diverged>>,
         driver'.results = driver.results, driver'.unsettled = driver.unsettled,
         driver'.script = driver.script, driver'.status = driver.status,
         driver'.diverged = driver.diverged,
         \A i \in Steps : i # c => slots'[i] = slots[i],
         slots'[c].st = "settled", slots'[c].out = attempt, slots'[c].cached = slots[c].cached,
         AppendLine(Line("result", MyKey(c), [at |-> attempt, from |-> Basis(c)])), ~lapses'.line
  PROVE  JournalInv'
<1> DEFINE q == [at |-> attempt, from |-> Basis(c)]
<1>1. /\ MyKey(c) \in StepKeys /\ MyKey(c)' = MyKey(c) /\ plan \in Plans /\ plan[c] \subseteq Steps
      /\ attempt \in Outcomes /\ driver.script \in Scripts /\ attempt # 0
  BY OutcomeType, NoResultType, StepFacts DEF WorkflowTypeOK, MyKey, PhaseInv
<1>2. Line("result", MyKey(c), q) \in Lines /\ q \in Results
  <2>1. Line("result", MyKey(c), q) \in Lines
    BY <1>1, OutcomeType
  <2> QED BY <2>1 DEF Line, Lines
<1>3. /\ journal' = Recorded(journal, Line("result", MyKey(c), q)) /\ journal'.tail = NoLine
      /\ lapses'.unlogged = lapses.unlogged
  BY <1>2, AppendKept DEF JournalInv
<1>4. q.at = attempt /\ q.from = Basis(c)
  OBVIOUS
<1> HIDE DEF q
<1>5. /\ journal'.results = [journal.results EXCEPT ![MyKey(c)] = q]
      /\ journal'.unsettled = journal.unsettled \ {MyKey(c)}
      /\ journal.results \in [StepKeys -> Results]
  <2>1. journal \in Journals
    BY DEF WorkflowTypeOK
  <2>2. journal.results \in [StepKeys -> Results]
    BY <2>1 DEF Journals
  <2> QED BY <1>1, <1>2, <1>3, <2>1, <2>2, RecordedFacts
<1>6. journal'.results[MyKey(c)] = q /\ Local(c)
  BY <1>1, <1>3, <1>5 DEF Local
<1>7. GatesClosed' = GatesClosed
  BY DEF GatesClosed
<1>8. \A j \in plan[c] : j # c /\ j < c /\ Told(j)
  BY <1>1 DEF JournalInv, ToldInv, Told, SlotInv, SlotOK
<1>9. Sound(plan, journal'.results, journal'.unsettled, lapses'.unlogged, GatesClosed')
  <2>1. Sound(plan, journal.results, journal.unsettled, lapses.unlogged, GatesClosed)
    BY DEF JournalInv, SoundInv
  <2>2. \A i \in Steps, s \in Scripts : \A j \in plan[i] :
           StepKey(j, s) = MyKey(c) /\ journal.results[StepKey(i, s)] # NoResult =>
             Forgiven(journal.results[StepKey(i, s)], journal.results[StepKey(i, s)].from[j],
                      MyKey(c), lapses.unlogged, GatesClosed)
    BY RunningForgives
  <2>3. \A j \in Steps \ plan[c] : q.from[j] = Null
    BY <1>4 DEF Basis, Needs
  <2>4. ASSUME NEW j \in plan[c]
        PROVE  j < c /\ Explained(q, q.from[j], StepKey(j, driver.script), journal.results,
                                  journal.unsettled, lapses.unlogged, GatesClosed)
    <3>1. j \in Steps /\ q.from[j] = slots[j].out /\ Told(j) /\ j < c
      BY <1>1, <1>4, <1>8 DEF Basis, Needs
    <3>2. Explained(q, slots[j].out, MyKey(j), journal.results, journal.unsettled, lapses.unlogged, GatesClosed)
      BY <1>4, <3>1, ToldExplains
    <3> QED BY <3>1, <3>2 DEF MyKey
  <2>5. Sound(plan, [journal.results EXCEPT ![StepKey(c, driver.script)] = q],
              journal.unsettled \ {StepKey(c, driver.script)}, lapses.unlogged, GatesClosed)
    BY <1>1, <1>2, <1>4, <1>5, <2>1, <2>2, <2>3, <2>4, SoundWrites DEF MyKey
  <2> QED BY <1>3, <1>5, <1>7, <2>5 DEF MyKey
<1>10. Told(c)'
  BY <1>1, <1>4, <1>6 DEF Told, Null
<1>11. attempt <= attempt /\ ~slots'[c].cached
  BY <1>1 DEF Outcomes, SlotInv, SlotOK
<1> QED BY <1>4, <1>6, <1>8, <1>9, <1>10, <1>11, LocalKeeps

\* A null: its line settles the key and leaves an older result.
LEMMA NullJournal ==
  ASSUME WorkflowTypeOK, PhaseInv, SlotInv, JournalInv, JournalOutcome,
         NEW c \in Steps, c = driver.cur, slots[c].out = Null, ~lapses'.line
  PROVE  JournalInv'
<1>1. /\ slots[c].st = "flight" /\ driver.pc = "journal"
      /\ UNCHANGED <<plan, attempt, diverged>>
      /\ driver'.results = driver.results /\ driver'.unsettled = driver.unsettled
      /\ driver'.script = driver.script /\ driver'.status = driver.status /\ driver'.pc = "unkey"
      /\ driver'.diverged = TRUE
  BY DEF JournalOutcome, PhaseInv, WorkflowTypeOK, Drivers
<1>2. /\ \A i \in Steps : i # c => slots'[i] = slots[i]
      /\ slots'[c].st = "settled" /\ slots'[c].out = Null
      /\ AppendLine(Line("settled", MyKey(c), NoResult))
  BY <1>1 DEF JournalOutcome, OutcomeLine, WorkflowTypeOK, Slots
<1>3. /\ MyKey(c) \in StepKeys /\ MyKey(c)' = MyKey(c) /\ plan[c] \subseteq Steps
      /\ Line("settled", MyKey(c), NoResult) \in Lines
  BY <1>1, OutcomeType, NoResultType, StepFacts DEF WorkflowTypeOK, MyKey
<1>4. /\ journal' = Recorded(journal, Line("settled", MyKey(c), NoResult)) /\ journal'.tail = NoLine
      /\ lapses'.unlogged = lapses.unlogged
  BY <1>2, <1>3, AppendKept DEF JournalInv
<1>5. journal'.results = journal.results /\ journal'.unsettled = journal.unsettled \ {MyKey(c)}
  BY <1>3, <1>4, RecordedFacts, NoResultType DEF WorkflowTypeOK
<1>6. Local(c)
  BY <1>1, <1>2, <1>4, <1>5 DEF Local
<1>7. Sound(plan, journal'.results, journal'.unsettled, lapses'.unlogged, GatesClosed')
  <2>1. journal'.unsettled \in SUBSET journal.unsettled
    BY <1>5
  <2> QED BY <1>1, <1>4, <1>5, <1>6, <2>1, GatesGrow, SoundGrows DEF JournalInv, SoundInv
<1>8. \A j \in plan[c] : j # c /\ Told(j)
  BY <1>1, <1>3 DEF JournalInv, ToldInv, Told
<1>9. journal.results[MyKey(c)] = driver.results[MyKey(c)]
  <2>1. \A n \in Steps : MyKey(c) = MyKey(n) => n = c
    BY <1>1, KeyApart DEF MyKey, WorkflowTypeOK
  <2> QED BY <1>1, <1>3, <2>1 DEF JournalInv, CopyInv
<1>10. Told(c)'
  BY <1>1, <1>2, <1>3, <1>5, <1>9 DEF Told
<1>11. journal'.results[MyKey(c)].at <= attempt
  BY <1>3, <1>5 DEF JournalInv, AtInv
<1> QED BY <1>1, <1>5, <1>6, <1>7, <1>8, <1>10, <1>11, LocalKeeps

\* Every step keeps the journal's invariant as long as no line is lost.
LEMMA JournalStep ==
  ASSUME WorkflowTypeOK, PhaseInv, SlotInv, ~lapses.line => JournalInv,
         [WorkflowNext]_wfvars, ~lapses'.line
  PROVE  JournalInv'
<1> USE DEF files
<1>1. JournalInv
  BY LineStays
<1>2. ASSUME NEW s \in Scripts, StartAttempt(s) PROVE JournalInv'
  BY <1>1, <1>2, StartJournal
<1>3. ASSUME WriteManifest, driver.pc = "over" PROVE JournalInv'
  <2>1. lapses'.unlogged = lapses.unlogged
    BY <1>3 DEF WriteManifest, WorkflowTypeOK, Lapses
  <2> QED BY <1>1, <1>3, <2>1, GoneJournal DEF WriteManifest
<1>4. ASSUME Crash PROVE JournalInv'
  <2>1. lapses'.unlogged = lapses.unlogged
    BY <1>4 DEF Crash, WorkflowTypeOK, Lapses
  <2> QED BY <1>1, <1>4, <2>1, GoneJournal DEF Crash
<1>5. ASSUME NEW c \in Steps, Dispatch(c) \/ SpawnStep(c) \/ StepNotStarted(c) PROVE JournalInv'
  BY <1>1, <1>5, DispatchJournal, SpawnJournal, NotStartedJournal
<1>6. ASSUME JournalOutcome PROVE JournalInv'
  <2> PICK c \in Steps : c = driver.cur
    BY <1>6 DEF JournalOutcome, WorkflowTypeOK
  <2>1. /\ slots[c].st = "flight" /\ driver.pc = "journal"
        /\ UNCHANGED <<plan, attempt, diverged>>
        /\ driver'.results = driver.results /\ driver'.unsettled = driver.unsettled
        /\ driver'.script = driver.script /\ driver'.status = driver.status /\ driver'.pc = "unkey"
    BY <1>6 DEF JournalOutcome, PhaseInv, WorkflowTypeOK, Drivers
  <2>2. CASE slots[c].out = Null
    BY <1>1, <1>6, <2>2, NullJournal
  <2>3. CASE slots[c].out # Null
    <3>1. slots[c].out = attempt
      BY <2>1, <2>3 DEF SlotInv, SlotOK
    <3>2. /\ driver'.diverged = driver.diverged
          /\ AppendLine(Line("result", MyKey(c), [at |-> attempt, from |-> Basis(c)]))
      BY <1>6, <2>1, <2>3 DEF JournalOutcome, OutcomeLine, WorkflowTypeOK, Drivers
    <3>3. /\ \A i \in Steps : i # c => slots'[i] = slots[i]
          /\ slots'[c].st = "settled" /\ slots'[c].out = attempt /\ slots'[c].cached = slots[c].cached
      BY <1>6, <2>1, <3>1 DEF JournalOutcome, WorkflowTypeOK, Slots
    <3> QED BY <1>1, <2>1, <3>2, <3>3, ResultJournal
  <2> QED BY <2>2, <2>3
<1>7. ASSUME NEW c \in Steps, FinalHarvest(c, attempt) PROVE JournalInv'
  <2>1. slots[c].st = "flight" /\ driver.pc = "final" /\ UNCHANGED <<plan, driver, attempt, diverged>>
    BY <1>7 DEF FinalHarvest, IsFirst, StepsIn
  <2>2. /\ \A i \in Steps : i # c => slots'[i] = slots[i]
        /\ slots'[c].st = "settled" /\ slots'[c].out = attempt /\ slots'[c].cached = slots[c].cached
    BY <1>7 DEF FinalHarvest, WorkflowTypeOK, Slots
  <2>3. AppendLine(Line("result", MyKey(c), [at |-> attempt, from |-> Basis(c)]))
    BY <1>7, <2>1 DEF FinalHarvest, PhaseInv, Null
  <2> QED BY <1>1, <2>1, <2>2, <2>3, ResultJournal
<1>8. CASE \/ WriteManifest /\ driver.pc # "over"
           \/ \E i \in Steps, registered \in BOOLEAN : SpawnSinkDead(i, registered)
           \/ \E i \in Steps, out \in {Null, attempt} : Harvest(i, out)
           \/ \E i \in Steps : FinalHarvest(i, Null) \/ PersistStep(i)
           \/ Finish \/ PersistEnds \/ Unkey \/ WriteRecord \/ WriteKey \/ Startup
           \/ \E durable \in BOOLEAN : DeliverNotice(durable)
           \/ UNCHANGED wfvars
  BY <1>1, <1>8, QuietSteps, QuietJournal
<1> QED BY <1>2, <1>3, <1>4, <1>5, <1>6, <1>7, <1>8 DEF WorkflowNext, StepRuns

\* A step that was replayed from another basis has one of the causes.
LEMMA StaleExplained ==
  ASSUME WorkflowTypeOK, ReplayInv
  PROVE  StaleReplayHasACause
<1> SUFFICES ASSUME NEW i \in Steps, slots[i].cached, ~lapses.line,
                    driver.results[MyKey(i)].from # Basis(i)
             PROVE  LET r == driver.results[MyKey(i)] IN
                    \/ \E a \in diverged : r.at < a /\ a < attempt
                    \/ \E j \in Needs(i) : MyKey(j) \in lapses.unlogged
                    \/ \E j \in Needs(i) : r.from[j] = Null /\ driver.results[MyKey(j)].at \in 1..(r.at - 1)
  BY DEF StaleReplayHasACause
<1> DEFINE r == driver.results[MyKey(i)]
<1>1. PhaseInv /\ SlotInv /\ JournalInv
  BY DEF ReplayInv
<1>2. driver.pc # "off"
  BY <1>1 DEF PhaseInv, NoSlots, FreshSlot
<1>3. MyKey(i) \in StepKeys /\ driver.script \in Scripts /\ plan[i] \subseteq Steps
  BY <1>2, OutcomeType, NoResultType, StepFacts DEF WorkflowTypeOK
<1>4. r.from \in [Steps -> Outcomes] /\ r # NoResult
  BY <1>1, <1>3 DEF WorkflowTypeOK, Drivers, Results, SlotInv, SlotOK
<1>5. PICK j \in Steps : r.from[j] # Basis(i)[j]
  BY <1>4 DEF Basis
<1>6. Sound(plan, driver.results, driver.unsettled, lapses.unlogged, diverged)
  BY <1>1, <1>2 DEF JournalInv, SoundInv
<1>7. j \in plan[i]
  BY <1>3, <1>4, <1>5, <1>6 DEF Sound, MyKey, Basis, Needs
<1>8. Explained(r, r.from[j], MyKey(j), driver.results, driver.unsettled, lapses.unlogged, diverged)
  BY <1>3, <1>4, <1>6, <1>7 DEF Sound, MyKey
<1>9. r.from[j] # slots[j].out
  BY <1>5, <1>7 DEF Basis, Needs
<1>10. \A a \in diverged : a < attempt
  BY <1>1, <1>2 DEF PhaseInv, WorkflowTypeOK, Outcomes
<1>11. CASE Forgiven(r, r.from[j], MyKey(j), lapses.unlogged, diverged)
  BY <1>7, <1>10, <1>11 DEF Forgiven, Needs
<1>12. CASE r.from[j] = Null /\ driver.results[MyKey(j)].at \in 1..(r.at - 1)
  BY <1>7, <1>12 DEF Needs
<1>13. CASE driver.results[MyKey(j)].at = r.from[j] /\ (r.from[j] = Null => MyKey(j) \notin driver.unsettled)
  <2>1. slots[j].cached => slots[j].out = driver.results[MyKey(j)].at
    BY <1>1 DEF SlotInv, SlotOK
  <2>2. ~slots[j].cached => OnlyStarted(j)
    BY <1>1, <1>7 DEF SlotInv, SlotOK
  <2> QED BY <1>9, <1>13, <2>1, <2>2 DEF OnlyStarted, NoResult, Null
<1> QED BY <1>8, <1>11, <1>12, <1>13 DEF Explained

\* The initial state has an empty journal and no driver.
LEMMA ReplayInit == WorkflowInit => ReplayInv
<1> SUFFICES ASSUME WorkflowInit PROVE ReplayInv
  OBVIOUS
<1>1. driver = NoDriver /\ driver.pc = "off" /\ slots = NoSlots /\ attempt = 0 /\ diverged = {}
  BY DEF WorkflowInit, NoDriver
<1>2. \A i \in Steps : slots[i].st = "none" /\ slots[i].out = Null /\ slots[i].cached = FALSE
  BY <1>1 DEF NoSlots, FreshSlot
<1>3. journal.tail = NoLine /\ \A k \in StepKeys : journal.results[k] = NoResult /\ journal.results[k].at = 0
  BY DEF WorkflowInit, NoResult
<1>4. PhaseInv
  BY <1>1 DEF PhaseInv
<1>5. SlotInv
  BY <1>2 DEF SlotInv, SlotOK
<1>6. AtInv /\ CopyInv /\ ToldInv
  BY <1>1, <1>3 DEF AtInv, CopyInv, ToldInv
<1>7. SoundInv
  BY <1>1, <1>3, KeyFacts DEF SoundInv, Sound
<1> QED BY <1>3, <1>4, <1>5, <1>6, <1>7 DEF ReplayInv, JournalInv

-----------------------------------------------------------------------------
(* The theorems *)

\* The initial state satisfies the inductive invariant.
LEMMA StoreInvInit == WorkflowInit => StoreInv
<1> SUFFICES ASSUME WorkflowInit PROVE StoreInv
  OBVIOUS
<1>1. driver.pc = "off" /\ driver.onDisk = {} /\ slots = NoSlots
  BY DEF WorkflowInit, NoDriver
<1>2. \A i \in Steps : slots[i].rec = "none" /\ slots[i].st = "none"
  BY <1>1 DEF NoSlots, FreshSlot
<1>3. ManifestInv /\ CrashIsReported
  BY <1>1 DEF WorkflowInit, ManifestInv, CrashIsReported
<1>4. RecordInv /\ OwnTranscript
  BY <1>1, <1>2, MarkFacts DEF WorkflowInit, RecordInv, OwnTranscript, Writing
<1> QED BY <1>3, <1>4 DEF StoreInv

\* The invariant holds throughout (drive_workflow_task, RunStore, the sweep).
THEOREM WorkflowInvariant == WorkflowSpec => [](WorkflowTypeOK /\ StoreInv)
<1>1. WorkflowInit => WorkflowTypeOK /\ StoreInv
  BY TypeInit, StoreInvInit
<1>2. WorkflowTypeOK /\ StoreInv /\ [WorkflowNext]_wfvars => (WorkflowTypeOK /\ StoreInv)'
  BY TypeStep, ManifestStep, RecordStep DEF StoreInv
<1> QED BY <1>1, <1>2, PTL DEF WorkflowSpec

\* A card points at its own step's record unless a write there was cut short
\* (persist_run, write_step, step_matches).
THEOREM WorkflowOwnTranscript == WorkflowSpec => []OwnTranscript
<1>1. StoreInv => OwnTranscript
  BY DEF StoreInv
<1> QED BY <1>1, WorkflowInvariant, PTL

\* A run the process died on stays due until the model was durably told of it
\* (sweep_interrupted_runs, mark_crash_notice_delivered).
THEOREM WorkflowCrashIsReported == WorkflowSpec => []CrashIsReported
<1>1. StoreInv => CrashIsReported
  BY DEF StoreInv
<1> QED BY <1>1, WorkflowInvariant, PTL

\* A step is replayed from other outcomes than its result was computed from
\* only for one of the four causes (CacheKeyChain, journal_outcome).
THEOREM WorkflowStaleReplayHasACause == WorkflowSpec => []StaleReplayHasACause
<1>1. WorkflowInit => ReplayInv
  BY ReplayInit
<1>2. WorkflowTypeOK /\ ReplayInv /\ [WorkflowNext]_wfvars => ReplayInv'
  BY SlotStep, JournalStep DEF ReplayInv
<1>3. WorkflowTypeOK /\ ReplayInv => StaleReplayHasACause
  BY StaleExplained
<1>4. WorkflowSpec => []WorkflowTypeOK
  BY WorkflowInvariant, PTL
<1> QED BY <1>1, <1>2, <1>3, <1>4, PTL DEF WorkflowSpec
=============================================================================
