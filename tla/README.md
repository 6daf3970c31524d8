# Mework: a TLA+ model of the agent's core protocols

Mework is a desktop coding agent: a Tauri host in Rust (`src-tauri/`) and a React
page (`src/`). The host runs model turns, executes tools, keeps background tasks
alive after a turn, asks the user for approval, runs scripted workflows that can be
resumed, follows processes on remote machines and persists a settings document and
conversations. The page draws all this and starts runs. This directory models the
parts of the program where several threads, the page, the network and the disk meet,
checks them with TLC on small instances, and proves the safety of most of them with
TLAPS, for every value of the constants.

The repository has a formal model of the kernel of its own (`formal/`); the modules
here were written from the Rust and TypeScript sources and share nothing with it.

## The system and its parts

| Part | State | Operations | Meets | What makes it correct |
|---|---|---|---|---|
| Agent kernel (`agent-kernel/src/machine.rs`) | turn and round phase, `round_due`, `steer_pending`, call slots, task slots, wake snapshot | `step(event)`: 23 events, each refused or applied | the shadow that replays a live run | a call runs only if it was granted; a turn leaves nothing behind; nothing handed over is unseen; a cancelled turn ends |
| Operation coordinator (`operation_coordinator.rs`) | counters per conversation, one exclusive mark per workspace | four acquisitions, drop | every command and tool | held leases are pairwise compatible; a drop undoes its own share |
| Task pool (`agents.rs`) | status, outbox, stop flags, worker and timer of each task | register, rehydrate, update, settle, stop, wait, claim, teardown | workers, timers, sidebar, the owner's thread | one result per task, in order, never lost; waits and stops end |
| Task delivery (`api.rs`, `state.rs`, `lib.rs`) | run registry, run loop position, transcript, ledger | fold, spawn, wait, checkpoint, finish, recheck, retire | pool, push events | a result reaches the transcript once; an idle conversation is told |
| Wake (`App.tsx`, `lib/sendPipeline.ts`) | wake record, run token, page | receive, effect, reload, adopt, rescan | delivery | an idle conversation never keeps an undelivered result |
| Approval cards (`tool_prompt.rs`, `api.rs`) | open cards, answers, allowances, stop flags | ask, resolve, stop, time out, end of run, reset | workers, user | only the user allows; a stop wins; nothing passes for a refusal; no card outlives its waiter |
| Run stream (`run_stream.rs`, `lib.rs`, `sendPipeline.ts`) | one buffered stream per conversation, subscriber, settlement | begin, publish, settle, attach, list, take settlement, discard | runs, page reloads | replay and live delivery have no hole; a followed run is seen to its end |
| Git status reads (`git_flight.rs`) | the flight of each checkout | summary, settle, forget | Git actions under leases | an answer is never older than the question |
| Document store (`document_store.rs`, `storage.rs`) | snapshot, queued write, writer, file, fingerprint | read, commit, flush, write, reset | every command, exit, manual edits | the newest commit ends on disk; a flush is a barrier |
| Kernel shadow (`kernel_shadow.rs`, its calls in `api.rs`) | maps of calls and tasks to kernel slots, pending injection | one observation per thing the run loop does, sweep at an abort | run loop, pool, kernel | a run that keeps the rules is never accused; after a refusal the shadow is back in step |
| Workflow run (`workflow.rs`, `workflow_store.rs`, `workflow-core/src/chain.rs`) | step slots, cache chain; journal, step records and keys, manifest, driver lock | dispatch, start, harvest, finish, persist; sweep and notice after a death | pool, disk, conversation | a resume replays what it may; a card shows its own transcript; a death is reported |
| Conversation bodies (`conversation_store.rs`, `memory_pool.rs`, `storage.rs`) | registry of open stores, the database file, generations, bodies in the pool | open, read, fill, write and invalidate, unload, reset | commands, wire warmer, usage statistics | a cached body is never older than its database; what is registered is the file on disk |
| Remote link (`remote-agent/src`) | pending requests, session pipe, input buffer; connections; the daemon's session and rings | connect, resume, spawn, input, output, signal, release, give up | SSH, remote process | bytes arrive once and in order or are counted as lost; one process per spawn; end and signals get through |

Commands take a lease from the coordinator, read and commit the document under
`storage_lock`, and start runs. A run owns the run loop, steps the kernel's shadow,
publishes on the run stream, blocks on approval cards and spawns tasks in the pool.
Tasks settle on their own threads and call an observer, which tells the page through
push events when no run is registered. The page starts a run for what it was told.

The hard parts are: results, settlements and announcements of several threads in any order
(pool, delivery, wake); state read under one lock and used after it (waits, flush, attach,
filling a cache); timeouts racing late answers (stops, approval, flush); events lost at a
reload; writes that fail, or fail half, and are retried; a cancellation in the middle of a
round; a crash between a result and its transcript, or between and inside the writes of a
workflow's journal; a link that breaks with requests, input and output under way. `PROJECT.json`
lists them line by line under `hazards`, and every other part of the repository with the reason
it is not modelled under `components`.

## Modules

One module is one component unless said otherwise; definitions keep the source's
names, and `PROJECT.json` maps each to its lines.

- **AgentKernel** has one action per arm of `Kernel::step`; its conjuncts are the
  arm's guards in the code's order, and a refused event is a stuttering step. Slots
  are model values; task identities keep their numbers, because every slot starts
  with identity 1. **AgentKernelHistory** adds two observers that restrict nothing:
  who granted each call since its request and the last tightening, and whether a
  model round has started since something was last handed over.
- **LeaseTable** is the coordinator's promise: a table of held leases, granted
  exactly when compatible with all that are held. **OperationCoordinator** extends
  it with the counters and marks the code keeps, decides from these alone, and is
  shown to implement it: the coordinator's `leases` is the table's.
- **AgentPool**: every critical section under a task's lock is one action;
  `wait_until`, which locks one task at a time, is split there, with the envelopes
  it has drained in `wait.buffered`. **TaskDelivery** extends it with the run loop,
  the registry, the settle observer (a step of its own after the critical section),
  the recheck of a finished run and the ledger. A spawn has three steps, as in
  `run_agent_spawn`: register, start the worker, and only then write the ledger entry
  (`run = "ledgering"`, `spawn_record`). **TaskWake** extends that with the
  page; its steps are the effects and callbacks of one JavaScript thread. The page has a
  queue of messages, which consumes a wake as a run does, and whose promotion may fail;
  `stream` is what the hub knows of the host's run, since adoption after a reload
  asks the hub. An adopted run ends with the conversation's stream; a failed promotion
  puts nothing back but leaves the message, which the effect or the user may dispatch again
  (`failedQueuedPromotionIds` only decides which of the two); an invocation made while the
  host decides an earlier one waits for that; fork starts and the stream they discard are
  left out.
  **SequenceFilter** has the filter of a queue (`retain`, `partition`) that the pool and
  the remote link use, as a recursive function, so that it can be proved about.
- **ToolPrompts**: the registry, the blocked workers, the user and the run's end.
  The waiter re-reads its stop flag after it was woken, as the code does; that is
  where a late answer and a stop meet.
- **BodyCache**: the bodies of conversations in the memory pool. A reader looks into the
  pool, notes the generation, reads the database and fills the pool if the generation is
  still the same; a writer commits first and invalidates after it: one action each, since
  each takes another mutex. The pieces of a body are read as one step under the
  connection's mutex, and `store_for` is one step under the registry's. Files are
  numbered, and a deleted file stays with those who have it open. Threads in `Unfenced`
  (the wire warmer, `token_usage_statistics`) use a store under neither `storage_lock`
  nor a lease, so a reset does not wait for them; a body in the pool remembers whether
  one of them brought it (`fenced`, a history field that no guard reads).
- **RunStream**: one conversation, its runs, the hub, and the page before and after
  reloads. Events are numbered, so a hole or a swap shows; merging and eviction
  follow `EventBuffer`, with capacities in events instead of bytes.
- **GitFlight**: one checkout, since checkouts share nothing. The content is the
  number of actions so far, so an answer's age can be compared with its question's.
- **DocumentStore**: a document is its content; metadata are compared only for
  equality with the file's present ones and become one bit. `save_unchecked` skips a
  write when the fingerprint matches and may fail before, or with `SyncMayFail`
  after, the rename. Four constants switch behaviours on, so that each run can say
  which of them its claim survives.

- **KernelShadow** extends AgentKernel with the shadow's maps and with the run loop and
  pool that report to it. A report leaves the kernel events the method feeds: `script` in
  order, then the events of each of `lanes` (a hash map's members, in any order), then
  `closing`. Feed hands them to the kernel one by one before anything else happens, as the
  shadow's mutex does. A refused event is recorded and changes nothing; what the kernel
  would refuse are the guards `MayX` that AgentKernel states beside each action `X`.
  `gaps` is a history variable that names the projection's blind spots (see Observations).
- **OutputStream** is what a remote session promises about its output: everything in
  order, once each, except for runs of bytes that are counted as lost, and an end that is
  known only when all before it is accounted for. **RemoteLink** is one session with all
  it takes: the ring on both sides, the host's Link with supervisor and readers, the
  daemon with its read and write loop per connection, its janitor, and connections that
  are cut with frames under way. The janitor goes by the daemon's clock alone. A scope says
  whether the host may sleep through its lifetimes (`sleeps`); an observer, `overslept`,
  notes that a session was forgotten while its spawn was pending, to be resent or
  travelling. Until then RemoteLink implements OutputStream (ImplementsStream, an
  INSTANCE with a refinement mapping). The few theorems about OutputStream are in the
  module itself, so that RemoteLink's instance has them too.
- **WorkflowRun**: one run, its driver, its files, the startup sweep and the notice. The journal
  is kept as what `load_journal` makes of it plus a last line whose end may be missing; a write
  may fail before, within or after its content, and the process may die between any two writes,
  or inside one. A step's value is the attempt that computed it, with the outcomes it was
  computed from, so that a stale replay shows.
- **HostServices** puts the coordinator, GitFlight, RunStream and DocumentStore into one
  specification. They share no state, so a behaviour exercises the service it starts with
  and leaves the others as they began; the constant `Services` says which an instance is
  about (`services` all four, `store` the document store alone).

- **MCHostTables** does the same for AgentPool, ToolPrompts and BodyCache.

MC modules otherwise only add symmetry sets, plans and scopes. `*Proofs` modules hold the
theorems: one module for the components a combined module puts together
(HostServicesProofs, HostTablesProofs) and for a stack (TaskDeliveryProofs), one each for
the others; the second part of AgentKernelProofs is about the kernel shadow. SequenceInduction holds
lemmas about sequences that several of them need.

## Runs

Bounds are named constants of the modules. What the proofs below establish for every
value of the constants is repeated in a run only where the run's mutant or an unproved
companion makes it worthwhile. Symmetry is used only in runs without
liveness properties, over sets whose elements the specification treats alike.

| Run | Instance | Shows |
|---|---|---|
| `kernel` | 2 calls, 2 tasks, limit 1, 2 identities (the scope of machine.rs's own explorer); 169,408 states | a turn leaves nothing behind, the authority of every execution, that nothing stays unseen; a cancelled turn ends; the wake snapshot is folded |
| `delivery` | 2 tasks; 2.5 million states | where results are, announcements, the ledger, silence after deletion |
| `wake` | 1 task, queued messages, streams; 805,356 states | the only ways a wake is lost; user stops and waits end although workers may hang and the run may be cancelled |
| `shadow` | 1 kernel call slot, 2 task slots, 2 calls, 2 tasks, limit 1; 3.9 million states | no accusation outside the blind spots, back in step after an abort, slots mirrored |
| `tables` | 2 tasks, 1 update each; 2 cards, 1 conversation, 2 risks, capacity 1; 2 conversations, 3 threads (one unfenced), 2 writes, 1 reset; 2.4 million states | everything a task emits reaches its owner once and in order, what a finished wait has collected; authority of answers, stops; no stale body in the cache |
| `services` | 4 leases, 3 workspaces; 3 status calls, 2 Git actions; 2 runs, 3 events, 2 reloads, buffer 2, merges of 2; a command and a flush outside the lock with every switch of the store on; 98,057 states | refinement of LeaseTable and refusals only because of holders; fresh answers, every call answered; no hole, conclusions, followed runs; every flush returns |
| `store` | 3 documents, 2 commands, writer may fail to start; 33,096 states | latest wins, no commit lost, flush is a barrier, retries reach the disk |
| `remote` | six scopes of `MCRemoteLink`: 4 bytes of output over a break, a process without output over a break with a host that oversleeps, 2 of input and a close over a break, spawn, release and signal over breaks and give-ups, a signal with a host that oversleeps; rings of 3 and 4 bytes; 447,944 states | refinement of OutputStream, input in order, one process, end and signal get through |
| `workflow` | 2 steps, 2 scripts that differ in the second, 3 attempts, 1 death, 1 failed write; 8.3 million states | causes of a stale replay, own transcripts, reported deaths |

Why the bounds suffice: two calls, tasks or cards are needed for one to overtake the other and
two suffice for every pairwise race the code can have, since no operation looks at three of them
at once; the kernel's limit is one below the number of competitors. A user stop concerns one
task, and a wait's deadline does not depend on how many tasks it watches, so `wake` has one. The
coordinator gets four leases, because a lost decrement shows only when a third holder remains
after a second dropped and a fourth asks. The claims about cards that compare conversations are
proved for any number of them. A stale body needs a reader and a writer, and a reset that
overtakes both; a second conversation tells one invalidation from the other's. Three documents
let a failed write be superseded twice. The buffer of the stream is shorter than a run, so that
it overflows after a merge. The agent's ring is shorter than the output, so that a break longer
than the ring makes a gap; a host oversleeps where the process ends by itself and where it is
signalled, which are the two ways a session comes to be forgotten with its spawn under way; the
frames are longer than a burst, so that frames overlap after a resume; a break may be followed
by a failed launch (`MaxConns`). A stale replay needs a result, an attempt that changes what it
rests on and a third that meets it: three attempts.

Three further runs are expected to be violated; each is a disagreement between
the code and a sentence of the repository:

| Run | Property | What TLC finds |
|---|---|---|
| `wake_stranded` | NoStrandedResult | the recheck announces a result while the page still holds the finished run's token; the wake is consumed by a run that is over |
| `store_exit` | LatestWins | a flush outside `storage_lock` queues its failed job over a newer commit: the older document stays on disk with nothing queued and no error |
| `body_reset` | StoreIsTheFile | a thread outside the reset's locks opens the store again between its removal from the registry and the deletion of its file; that store stays registered, and what is written afterwards is in a file without a name |

`store_exit` assumes a writer that has already tried what is queued at a flush's
deadline (`PromptWriter`), so it does not rest on a starved thread.

### Observations

Further disagreements met on the way. Where a property is named, TLC shows it violated
when it is checked with the constants given; none has a run of its own.

Tasks and runs:

- `LedgerSettledMeansDelivered` (TaskDelivery, the constants of `delivery`): a run is
  cancelled after `task_wait` collected its results; they go down with the call's
  error (`api.rs:4690`), and a later checkpoint settles the ledger entry although no
  card carries the result (`api.rs:13135` says one does).
- The ledger entry of an agent is written after its worker was started
  (`api.rs:10546`, `:10549`). A worker that settles in between, or one that runs when the
  host dies in between, is an agent the model is owed an answer about without a file; the
  header of `subagent_ledger.rs` says of the files at startup that each "is therefore exactly
  an agent the model is still owed an answer about". LedgerCoversOwed excepts the one
  spawn in this window (`spawn_record`) and nothing else. The entry may also be written after the
  conversation was deleted, and a failed write only warns.
- A wake that finds a message in the queue is consumed (`sendPipeline.ts:1520`) although
  the host may have no run and the message's promotion may fail, be rolled back and be
  latched (`:1711`), or the message be deleted: the result then waits for the next message
  or reload. StrandedOnlyBySwallow names this among the ways a wake is lost
  (`swallowed`); NoStrandedResult sets it aside with a queue that is not empty, and `wake_stranded`
  does not need it.
- `AdoptionSeesEveryRun` (RunStream, the constants of `services`): a run that waits
  for its hook dialog is registered but has no stream yet; a reloaded page does not
  adopt it (`sendPipeline.ts:783`). TaskWake has the same adoption: the page may then invoke a
  second run, which the host refuses.
- `NoPhantomTask` (AgentPool, the constants of `tables`): a command that reaches its
  deadline is registered as Running and its status event is refused by a cancelled run
  (`api.rs:10934`, action AdoptRefused). The command goes back to its call and nothing
  settles the registration, which counts against the limit and makes every wait on it run
  to its deadline. The sibling path (`api.rs:10271`) has a guard so as not to leave "a
  `Running` pool entry that has no worker".

Document store:

- `FlushIsBarrier` (DocumentStore, the constants of `store_exit`): through the same
  overwritten queue a durable save reports success for a document that was never
  written.
- `LatestWins` with `Barriers = {}` and `ExternalEdits = TRUE`: an edit that falls
  before the writer's look at the metadata (`document_store.rs:667`) becomes the
  store's own baseline and is not reloaded.
- `LatestWins` with `Barriers = {}` and `SyncMayFail = TRUE`: a rename whose directory
  sync failed (`storage.rs:4389`) leaves the fingerprint of the earlier content, and
  the commit that restores that content is skipped.

Conversation bodies:

- The wire warmer may keep a store across a reset. It misses in the pool, notes the
  generation after the reset, reads the deleted file and fills the pool, so that a later
  read through the new store is given a body the new database has not got. CachedIsCurrent
  names this exception (`fenced`): any other body in the pool is from the registered
  store's file. `conversation_store.rs:768` says without it that "a cached body is never
  older than the database".

Kernel shadow:

- The blind spots `gaps` names, after which a lawful run is accused. `ghost`: the handoff
  of a dangerous call, whose grant and start are reported only by `tool_finished`; a spawn
  the pool admits while the kernel still counts a settled task whose envelope nobody has
  collected; and a task that ended without an envelope (a refused start, or a `task_wait`
  with foreign names, `api.rs:11771`), whose entry stays for ever and counts against the
  limit from then on. `untracked`: a task that found no slot; when its result is all that
  asks for another round, its fold feeds nothing and RoundStart is refused. With 32 slots
  and a limit of 8 a ghost always comes first. `phantom`: the registration a refused handoff
  leaves (NoPhantomTask above) is one the shadow is not told of either, since the refusal
  returns before `tool_backgrounded` (`api.rs:10934`, action HandoffRefused): the pool has
  a running task without a slot, and if the user stops it, its result asks for a round
  the kernel knows no reason for. `stranded` is the next.
- `AbortRecovers` (KernelShadow, the constants of `shadow`): a call that was handed to the
  pool is ExecBg until its receipt (`machine.rs:655`), and the PostToolUse hook or the
  completion event may fail before that (`api.rs:4050`, `:4690`). The sweep of the abort
  ends Executing calls only (`kernel_shadow.rs:556`): settlement, end of round and end of
  turn are refused, and the conversation's shadow stays in the cancelled turn.
  `kernel_shadow.rs:32` says that aborted turns "settle stranded calls by phase, and close
  the active round before teardown".
- An answer of the user is recorded under the call of the open prompt, whichever call of
  the batch it was given for (`record_prompt_outcome`). The proof shows that it does no
  harm: while a dangerous call is in the window, the prompt is its own.
- A mandatory prompt the user refuses although a hook had allowed the call is projected as
  approved and executed (`kernel_shadow.rs:377`).

Remote link:

- `CloseAfterInput` (RemoteLink, scope out 0, in 1, one break, close): `connect_once`
  resends pending requests, a CloseStdin among them, before unconfirmed input
  (`client/mod.rs:938`, `:946`); the agent closes the process's input first and refuses the
  input behind it. `client/session.rs:242` says "Writes are queued and delivered in order
  across reconnects".
- `ReleasingCovers` (scope out 0, in 0, one break, timeout): the release that follows a
  spawn without a reply can be handled while the spawn is still starting, and the process
  stays (`client/mod.rs:389`).
- `give_up` drops detached requests, signals and releases among them
  (`client/mod.rs:964`), though `client/session.rs:298` calls them queued; KillReaches
  excepts this (`link.lost`).
- The daemon's janitor forgets a finished session of an absent host after
  `finished_ttl`, ten minutes of its own clock (`agent/mod.rs:921`, `protocol.rs:176`), and
  does not know of spawns the host still has to resend. With the reply lost and the host
  asleep longer than that, while the deadline of its spawn stands still, the resent spawn
  starts a second process; so does a copy of an answered spawn that the supervisor was
  about to resend. `protocol.rs:19` names the sleeping laptop first when it says that
  "nothing the agent runs may be lost or done twice". OneProcess, ImplementsStream,
  ExitReaches and KillReaches except what follows such a case (`overslept`); without the
  exception TLC finds OneProcess violated with the constants of `remote`.
- A ring that overflows on the
  host, and what `finish` skips of an unfollowed stream, are not counted as lost; `HostCap` is
  not exceeded in the run.

Workflows:

- `ReplayedFromReplayed` (WorkflowRun, the constants of `workflow`): a step that is
  skipped before it starts, or whose worker cannot start, writes no journal line. If an
  earlier attempt had started it, it reads as unsettled ever after, its dependents keep the
  results they computed from the null, and a later resume replays them. The comment at
  `workflow.rs:1640` says "They and later dependent steps rerun on resume".
- The latch of the cache chain is not persisted: the first attempt computes the second
  step from a null first step; the second attempt runs the first step again, gets a value
  and dies; the third replays the first step's value and the second step's result from the
  null (the second cause of StaleReplayHasACause).
- A null does not make a key read as a miss when an earlier attempt left it a result, since
  `load_journal` keeps a result whenever it was written (`workflow_store.rs:135`). With
  three steps: the second has a value from the first attempt and ends null in the second
  attempt, and the third step is computed from that null; the third attempt replays the
  second step's old value and the third step's result from the null (the last cause of
  StaleReplayHasACause). The comment at `workflow.rs:1857` says "The plan consumes that
  null, so a resume reads the key as a miss". Found while the proof was
  attempted; two steps, the instance of `workflow`, are too few for it.
- An append that lacks its line end makes the next line unreadable as well, so that two
  records are lost (`workflow_store.rs:584`).
- A death between the removal of a step's key and the new record leaves another step's
  record without a key, which `step_matches` accepts as one from before key files; the
  comment at `workflow_store.rs:390` considers only the step that was being written.
- The manifest is truncated and written in place: a death inside that write loses the
  notice of the death itself (`lapses.manifest`).

### Fairness

- `kernel`: the host closes what it opened (end of execution, settlement, end
  of round and turn, folds). The run loop does these unconditionally on its way out.
  The model, the user and the tasks are under no obligation.
- `wake`: the waiting run's thread, the clock and grace timers run. Nothing is assumed
  of a worker, which may hang in a native call; that is what the timers are for.
  Nothing is assumed of the page or of a run that does not wait.
- `services`: a Git read ends with an answer, an error or a panic; a run ends or is
  stopped and the page's promises are served; the store as below.
- `remote`: threads of host and agent, the reader of the process and connections that are
  up make progress (`SystemStep`). Nothing is assumed of the process, the user, breaks or
  the supervisor's giving up.
- `store`, and the store in `services`: threads are scheduled, and a disk that is written to again
  and again accepts a write at last (strong fairness of a successful write), since
  the code retries for ever. `FlushEnds` does not rest on the latter: a flush's
  deadline and its one attempt to write both end.

Deadlock checking is off where everything may come to an end: each call, run or card
of a bounded instance is used once.

## Proofs

Each theorem holds for every value of the constants under the module's named
assumption. The components, in the order of the table above:

- **Kernel** (AgentKernelProofs). Types, FreshOnlyAllowed, IdleIsQuiescent,
  WakeFoldsAreFoldable, WithinCapacity and CancelStopsNewWork. Several arms of `step`
  omit a guard that the others have: `ToolExecStart` looks only at `fresh`,
  `TaskWaitDeliver` at neither turn nor round. None of the properties is inductive
  for that reason; their conjunction with CallsInRound and WaitsInRound (`Inv`) is,
  and shows that the missing guards are implied. The limit needs cardinalities and is
  proved beside the rest from two counting lemmas. ExecutionAuthorised and
  NothingUnseenWhenIdle speak of observers of the run; `Inv` holds beside these, and two
  more facts make the claims inductive: an open grant carries its authority too
  (GrantsAuthorised), and what the model has not seen keeps a round due while a turn
  runs (UnseenIsDue).
- **Kernel shadow** (AgentKernelProofs, second part). NoFalseAlarm, BackInStep, SlotsMirrored and
  DrivesKernel, for any number of kernel slots, identities, open calls and tasks and any
  limit, from ConfigAssumption and ShadowAssumption (finitely many tasks, at least one call
  slot, two identities a slot). The three invariants speak of moments between two reports,
  while events are taken or refused in the middle of one, so the invariant is a proof
  outline (ShadowInv). Sane holds always: the kernel's own `Inv`, that entries and open
  calls match (Ledger), that an entry knows the verdict of its call (Verdicts), and that
  the pool's tasks are mapped (Tasks). Outline says for each of the twelve points of the
  run loop which scripts may still be ahead and what the kernel looks like then: which
  slots a lane about to be fed will release (Folding, Claiming, Completing), which waits it
  will arm or disarm (Waiting, Expiring), which task it will announce (Bearing), how far the
  one call at work has come (Opening, Resolving) and what an abort has yet to sweep (Swept).
  Half of it is claimed only while the shadow is in step; the other half (calls, turn, what
  is ahead) survives every refusal and gives BackInStep. Feed keeps it event by event
  (FeedKeeps), each step of the host sets up the next report (HostKeeps). Nothing is claimed
  once a call is stranded, because then even AbortRecovers fails. DrivesKernel holds even then and
  has an invariant of its own: all that is ahead names slots and identities of the kernel
  (InScope); with it every theorem about the kernel is one about every shadow.
- **Coordinator** (HostServicesProofs). PairwiseCompatible, DropFindsItsOwn, the
  refinement of LeaseTable, RefusedOnlyByHolders. The invariant ties counters to leases:
  Accounting says the counters count them, MarksHeld that an exclusive lease finds its own
  mark, and compatibility is needed in turn for a drop to clear a mark unasked. The steps
  are counting lemmas (a grant adds one holder to one descriptor), "what the counters
  admit is compatible with every holder", and one lemma each for acquire and drop. That
  no refusal is without a holder needs the converse of MarksHeld: no mark outlives its
  lease (MarksOwned).
- **Pool** (TaskDeliveryProofs). Types, EnvelopesOnceInOrder, WaitCollectsEverything, for any
  number of tasks and updates. What the properties speak of is the sequence a recursive filter
  leaves. SequenceInduction therefore proves induction over the length of a sequence (each use
  names its predicate as a set, since the library's induction takes an operator) and from it
  what Keep does to a concatenation. Every step changes one task in one of a few ways (Moves),
  and the steps of a wait only carry envelopes from one place to another (EnvelopesShift); so
  TaskInOrder (at most one result, none before the task settled, exactly one after it if a
  worker ran, updates in order) needs one lemma for each of these, not one for each action.
  WaitKnows adds what a wait that looks at one task at a time still knows of those it looked at
  before: results do not come back.
- **Delivery** (TaskDeliveryProofs). ResultIsSomewhere, LedgerCoversOwed, HostAnnounces,
  RetiredIsSilent. Beside the life of each task over transcript, claim, wait and outbox together
  (LivesOn) the invariant says that only the run's thread waits (OwnerIsRun), that a task keeps
  its ledger entry until its result is delivered and has none only while its spawn has yet to
  write it, and that between two runs a waiting result is announced or still has an observer to
  look at it.
- **Wake** (TaskDeliveryProofs). The page's protocol implements the delivery protocol step
  by step, so everything above holds beside it. StrandedOnlyBySwallow: as long as no
  wake was swallowed, a waiting result has somebody who will look: a run, a recheck, an observer, a
  message under way, a rescan or the page's own wake record (SomebodyLooks). A run token or
  a queued message is nobody.
- **Approval cards** (HostTablesProofs). AllowedByTheUser, NoFabricatedRefusal, StopWins,
  NoOrphanCard. The invariant adds what a waiter may rely on: an answer is the user's, an
  allowance goes back to an "always" on a card at least as risky, and a call that was
  stopped before it was answered is still stopped when its waiter concludes (LateIsStopped).
- **Run stream** (HostServicesProofs). NothingMissed and ConcludedIsOver, for any number of
  runs, events and reloads, any buffer and any merge limit. A lemma on EventBuffer shows that
  merging leaves the replay as it was and eviction takes from its front (Replay concatenates
  recursively, by the induction of SequenceInduction). The invariant says that the registry
  admits one run at a time to the stream (OneRunStreams), and what a page knows: the run it
  invoked, or a stream it adopted or claimed; a stream it is subscribed to is its token's
  (PageKnows).
- **Git reads** (HostServicesProofs). FreshAnswers and OneRead, for any number of calls and
  actions. The invariant says that whoever holds the lease asked about the present state
  and that the flight in the map, once finished, tells it.
- **Document store** (HostServicesProofs). Types, LatestWins, NoCommitLost and
  FlushIsBarrier, under `Desktop`: every flush holds `storage_lock`, nobody edits the file,
  and a failed write leaves the file alone. `store_exit` and the observations above show
  that each of the three is needed. The invariant says that one command at a time is in
  progress (Exclusive), that only the newest commit is queued and that an unsuperseded job
  in flight is the newest (QueueInv), that a synchronous write has no rival (SyncInv), that
  the fingerprint is the file's (CacheInv), and that with no write left the file has been
  looked at and holds the snapshot unless an error is outstanding (IdleInv). It follows
  that `read` never reloads under these assumptions (lemma NoReload), which is why no
  commit is lost.
- **Workflow** (WorkflowRunProofs). Types, OwnTranscript, CrashIsReported and
  StaleReplayHasACause, for any plans, scripts, live limit and any number of attempts, deaths
  and failed writes. ManifestInv says that the manifest reads running while a driver works and
  claimed while a notice waits; RecordInv that a key file names the step whose record lies
  beside it, that a record without a key is one `write_step` is at work on, and what a slot
  knows of its record. Both need each other's phase facts, so they are proved inductive
  together. A replay compares results of several attempts. Its invariant (ReplayInv) says of
  every result in the journal that each outcome it was computed from is still what the journal
  has for that step, or one of the named causes explains the difference (SoundInv), that the
  driver's copy differs from the journal only where this attempt has settled a step (CopyInv),
  and that the journal has what the script was told of a settled step (ToldInv); a step whose
  key has no result was started and nothing more (OnlyStarted), which is where the latch of the
  cache chain comes in.
- **Conversation bodies** (HostTablesProofs). BodyTypeOK and CachedIsCurrent, for any
  number of conversations, threads, writes and resets, whichever threads are fenced.
  CachedIsCurrent alone is not inductive, because a fill makes it depend on what the reader
  holds: ReadIsCurrent says that a body read at the present generation is its file's
  unless its writer has yet to invalidate, and SeenIsPast that a generation once passed
  never comes back. FilesFit and StoresHaveFiles say that every store in use has a file,
  FencedUseRegistered and FencedBringRegistered that who holds a lock or lease uses, and
  has brought bodies of, the registered store alone.
- **Output stream** (OutputStream). StreamAccounted: in every implementation of
  OutputStream, for streams of any length and gaps of any size, bytes arrive once each and
  in order, and when the end is known every byte was received or counted. The
  invariant says where the last byte received lies and that received and lost bytes add up
  to the position.
- **Remote link** (RemoteLinkProofs). Types, InputInOrder, OneProcess and the refinement of
  OutputStream, for any number of connections, breaks, give-ups and bytes. The refinement
  and StreamAccounted give RemoteOutputAccounted: what the host has of the output is in
  order and once each, and when it knows the exit, received and lost bytes add up to what
  the process wrote.
  LinkBase types every frame in flight, and AskedStep says once which requests can be
  pending, resent or travelling, so that "no spawn is under way" is a type of the wires.
  Input needs only that nothing was fed past what the session counts (FedInv). One process
  needs SpawnInv: while the host wants the session nothing that travels ends it, and a
  spawn under way finds no process, or the live session of its first. Only the janitor can
  break it, by forgetting a session whose spawn is under way; the invariants are therefore
  proved as long as `overslept` is false, and the theorems say so. The refinement rests
  on four more facts. The only connection not yet introduced is the dialled one (DialInv).
  A hello without a position was sent before there was a process (HelloInv), or the agent
  would start the host's cursor too late. Frames tell the truth about what was written, and
  the host is not past it (WroteInv). And whatever travels before an exit carries the host
  to the end, as what the current connection carries does to where the agent believes it is
  (CoverInv): this is why an exit, when it is delivered, finds nothing missing. The steps
  are classified first by what they do to each wire, to the session and to the pipe
  (HostWireMoves, AgentWireMoves, SessionMoves, StreamKept), so that each invariant meets a
  few kinds of step and not every action.

Only model-checked:

- Every liveness property: fairness and ENABLED are outside what the prover does.
- That a thread blocked on a card is released in the end is not checked at all.

## What is not modelled

Texts, prompts, provider formats, classification of commands and paths, file and
process I/O and rendering are inputs, or absent: a tool's outcome, a hook's verdict, a
risk level and the user's choice are nondeterministic. Of the modelled files, these
are left out: usage accounting and transcripts in `agents.rs`, heartbeats and debug
bodies in `run_stream.rs`, `known_revision` in `git_flight.rs`, the process lease,
the startup load and the failure observer in `document_store.rs`, the set of cards
the page keeps and corrects with lists (`App.tsx`, `reconcileToolPrompts`). A restart is a step of
WorkflowRun only; TaskDelivery keeps what a restart would read (the ledger) and says what
it must contain.

RemoteLink leaves out a restarted host (a new epoch reclaims every session), a restarted daemon,
tunnels, sandboxed cells and installation; a scope without `sleeps` assumes that a spawn is
answered or given up before the janitor's lifetimes are over (`LifetimePasses`), one with it
does not; `register` inserts and writes in one step; a hello delayed beyond a newer connection
is excluded (`2 * breaks < MaxConns`). WorkflowRun leaves out the script interpreter, prompts
that quote outcomes (their keys would change with them), a second instance of the application,
and that the journal is read just before the driver lock is taken. KernelShadow leaves out
parameter digests and second incarnations. BodyCache leaves out the list of summaries, streaming
turns, errors of opening, the side files (`-wal`, `-shm`) and what two stores on one file do to
each other inside SQLite.

The map covers a few percent of the repository's implementation lines. Most of the rest
is request building and provider formats (`api.rs`), browser and terminal panes, Git
parsing, storage migrations, tool bodies and rendering: data transformations and
platform calls with no protocol of their own for a model checker. What has a protocol and is
still missing is under Plan.

## Plan

Done, in this order: the kernel, because every run is measured against it; the
coordinator and its promise; the pool, delivery and wake as one stack; Git reads and
run streams; approval cards; the document store; the remote link over its stream
specification; the kernel shadow over the kernel; the workflow run with its files; the
cache of conversation bodies.
Next, most important first:

1. **ConversationStore** beside BodyCache: streaming turns and prose journals under crashes.
2. **ApprovalNonces**, **ForkRequests**, **AppExit**, **PlanMode**: small registries
   and switches with one-shot or two-copy state.
3. **ToolPromptCards** over ToolPrompts: the page's cards, events in order and list
   replies that nothing orders against them (`App.tsx:7599`).
4. **ShellTasks**, **SubagentLedger** recovery, **PushEvents**; epochs and tunnels of the
   remote link.

Theorems to come: those of the modules above, each beside the component it belongs to. Every
safety property a passing run checks is proved today.

## Running

In this directory, `tlc -config X.cfg M` runs the module `M` of a run, as listed in
`PROJECT.json`, and `tlapm M.tla` checks the proofs of a `*Proofs` module, of OutputStream and of
SequenceInduction.
