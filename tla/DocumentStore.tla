---------------------------- MODULE DocumentStore ----------------------------
(***************************************************************************)
(* The settings document (document_store.rs, storage.rs): the snapshot in  *)
(* memory, the background writer, the synchronous writes of flush and of a *)
(* commit without a writer thread, the fingerprint that skips equal writes *)
(* and the detection of edits from outside.                                *)
(*                                                                         *)
(* A document is its anchor content, a member of Docs.  disk_meta is only  *)
(* ever compared with the file's current metadata, and every replacement   *)
(* of the file changes those, so it is one bit, "seen".  Callers are the   *)
(* threads that save, reset or flush; all but Barriers (the exit barrier   *)
(* and flush_document_saves) hold storage_lock meanwhile.                  *)
(***************************************************************************)
EXTENDS Naturals, FiniteSets

CONSTANTS Docs, NoDoc, Seed,   \* Seed: the default document of a reset
          Callers, Barriers,
          SpawnMayFail,        \* the writer thread may fail to start
          ExternalEdits,       \* the file is edited by hand meanwhile
          SyncMayFail,         \* the directory sync after the rename may fail
          PromptWriter         \* what is still queued at a flush's deadline is
                               \* what the writer has failed to write

ASSUME DocumentStoreAssumption ==
  /\ Seed \in Docs /\ NoDoc \notin Docs
  /\ Barriers \subseteq Callers
  /\ {SpawnMayFail, ExternalEdits, SyncMayFail, PromptWriter} \subseteq BOOLEAN

VARIABLES snapshot,   \* Snapshot::document
          seen,       \* Snapshot::disk_meta is the file's
          pending,    \* StoreState::pending
          error,      \* StoreState::last_write_error is set
          writer,     \* the background writer
          caller,     \* saves, resets and flushes in progress
          lock,       \* who holds storage_lock
          disk,       \* the file
          cache,      \* LAYOUT_WRITE_CACHE
          committed,  \* history: the last document a command committed
          owed        \* history: what a flush may find on disk when it succeeds

store == <<snapshot, committed, owed>>
file == <<disk, cache>>
dvars == <<snapshot, seen, pending, error, writer, caller, lock, disk, cache, committed, owed>>

Rest(pc) == [pc |-> pc, kind |-> "none", job |-> NoDoc, commit |-> FALSE]

StoreInit ==
  /\ disk \in Docs
  /\ snapshot = disk /\ committed = disk /\ cache = disk
  /\ seen = TRUE /\ error = FALSE
  /\ pending = NoDoc
  /\ writer = [pc |-> "none", job |-> NoDoc]
  /\ caller = [c \in Callers |-> Rest("idle")]
  /\ lock = {}
  /\ owed = [c \in Callers |-> {}]

InFlight == writer.pc \in {"writing", "saved", "failed"}
Quiet == pending = NoDoc /\ ~InFlight
Resting(c) == caller[c].pc \in {"idle", "ok", "error"}

\* save_unchecked, one at a time under the cache's mutex: skipped when the
\* fingerprint says that the file has this content already.
SaveUnchecked(job, ok) ==
  \/ cache = job /\ ok /\ UNCHANGED <<disk, cache, seen>>
  \/ cache # job /\ ok /\ disk' = job /\ cache' = job /\ seen' = FALSE
  \/ cache # job /\ ~ok /\ UNCHANGED <<disk, cache, seen>>
  \/ cache # job /\ ~ok /\ SyncMayFail /\ disk' = job /\ seen' = FALSE /\ UNCHANGED cache

\* commit_inner up to the queue.
PublishSnapshot(d) ==
  /\ snapshot' = d /\ committed' = d
  /\ error' = FALSE

-----------------------------------------------------------------------------
(* Commands that save *)

After(kind) == IF kind = "save" THEN Rest("idle") ELSE [Rest("waiting") EXCEPT !.kind = kind]

\* The writer thread is there, or starts now.
CommitToWriter(c, d, kind) ==
  /\ PublishSnapshot(d)
  /\ pending' = d
  /\ writer' = [writer EXCEPT !.pc = IF @ = "none" THEN "idle" ELSE @]
  /\ caller' = [caller EXCEPT ![c] = After(kind)]
  /\ lock' = IF kind = "save" THEN {} ELSE {c}

\* It does not start: the commit writes the document itself.
CommitWithoutWriter(c, d, kind) ==
  /\ SpawnMayFail /\ writer.pc = "none"
  /\ PublishSnapshot(d)
  /\ pending' = NoDoc
  /\ caller' = [caller EXCEPT ![c] = [pc |-> "writing", kind |-> kind, job |-> d, commit |-> TRUE]]
  /\ lock' = {c}
  /\ UNCHANGED writer

\* save_document and the other commands that commit; a durable save flushes
\* before it returns.
Save(c, d, kind) ==
  /\ c \notin Barriers /\ Resting(c) /\ lock = {}
  /\ CommitToWriter(c, d, kind) \/ CommitWithoutWriter(c, d, kind)
  /\ owed' = [[x \in Callers |-> owed[x] \cup {d}] EXCEPT ![c] = {d}]
  /\ UNCHANGED <<seen, disk, cache>>

\* reset_document: flush, then ResetCommit, then flush again.
Reset(c) ==
  /\ c \notin Barriers /\ Resting(c) /\ lock = {}
  /\ lock' = {c}
  /\ caller' = [caller EXCEPT ![c] = After("reset")]
  /\ owed' = [owed EXCEPT ![c] = {snapshot}]
  /\ UNCHANGED <<snapshot, committed, seen, pending, error, writer, disk, cache>>

\* purge_conversation_bodies forgets the fingerprint; a reported write error
\* ends the reset although the seed is committed.
ResetCommit(c) ==
  /\ caller[c].pc = "purging"
  /\ \/ CommitToWriter(c, Seed, "seed") /\ ~error
     \/ CommitWithoutWriter(c, Seed, "seed") /\ ~error
     \/ /\ error /\ PublishSnapshot(Seed) /\ pending' = Seed
        /\ caller' = [caller EXCEPT ![c] = Rest("error")] /\ lock' = {}
        /\ writer' = [writer EXCEPT !.pc = IF @ = "none" THEN "idle" ELSE @]
  /\ cache' = NoDoc
  /\ owed' = [[x \in Callers |-> owed[x] \cup {Seed}] EXCEPT ![c] = {Seed}]
  /\ UNCHANGED <<seen, disk>>

-----------------------------------------------------------------------------
(* flush *)

BeginBarrier(c) ==
  /\ c \in Barriers /\ Resting(c)
  /\ caller' = [caller EXCEPT ![c] = After("barrier")]
  /\ owed' = [owed EXCEPT ![c] = {snapshot}]
  /\ UNCHANGED <<snapshot, committed, seen, pending, error, writer, lock, disk, cache>>

\* What the caller does with flush's result.
Return(c, ok) ==
  IF ok /\ caller[c].kind = "reset"
  THEN caller' = [caller EXCEPT ![c].pc = "purging"] /\ UNCHANGED lock
  ELSE caller' = [caller EXCEPT ![c] = Rest(IF ok THEN "ok" ELSE "error")] /\ lock' = lock \ {c}

\* Mutant: what is in flight is not waited for.
FlushReturnsOnEmptyQueue(c) ==
  /\ caller[c].pc = "waiting" /\ pending = NoDoc
  /\ Return(c, ~error)
  /\ UNCHANGED <<store, file, seen, pending, error, writer>>

FlushReturns(c) ==
  /\ caller[c].pc = "waiting" /\ Quiet
  /\ Return(c, ~error)
  /\ UNCHANGED <<store, file, seen, pending, error, writer>>

\* Mutant: the deadline is only looked at when the writer has finished.
FlushTimesOutWhenIdle(c) ==
  /\ caller[c].pc = "waiting" /\ ~Quiet /\ ~InFlight
  /\ caller' = [caller EXCEPT ![c].pc = "writing", ![c].job = pending] /\ pending' = NoDoc
  /\ UNCHANGED <<store, file, seen, error, writer, lock>>

\* The deadline has passed: give up while the writer writes, else take over.
FlushTimesOut(c) ==
  /\ caller[c].pc = "waiting" /\ ~Quiet
  /\ IF InFlight
     THEN Return(c, FALSE) /\ UNCHANGED pending
     ELSE /\ PromptWriter => error
          /\ caller' = [caller EXCEPT ![c].pc = "writing", ![c].job = pending]
          /\ pending' = NoDoc
          /\ UNCHANGED lock
  /\ UNCHANGED <<store, file, seen, error, writer>>

SyncSave(c, ok) ==
  /\ caller[c].pc = "writing"
  /\ SaveUnchecked(caller[c].job, ok)
  /\ caller' = [caller EXCEPT ![c].pc = IF ok THEN "saved" ELSE "failed"]
  /\ UNCHANGED <<store, pending, error, writer, lock>>

\* The end of flush's own write: a failed job is queued again.
FlushTakeoverEnds(c) ==
  /\ caller[c].pc \in {"saved", "failed"} /\ ~caller[c].commit
  /\ LET ok == caller[c].pc = "saved" IN
       /\ error' = ~ok
       /\ seen' = (ok \/ seen)
       /\ pending' = IF ok THEN pending ELSE caller[c].job
       /\ Return(c, ok)
  /\ UNCHANGED <<store, file, writer>>

\* The end of a commit's own write.
CommitWriteEnds(c) ==
  /\ caller[c].pc \in {"saved", "failed"} /\ caller[c].commit
  /\ LET ok == caller[c].pc = "saved"
         kind == caller[c].kind IN
       /\ error' = (~ok \/ error)
       /\ seen' = ((ok /\ Quiet) \/ seen)
       /\ IF kind = "save" \/ (kind = "seed" /\ ~ok)
          THEN caller' = [caller EXCEPT ![c] = Rest(IF ok THEN "idle" ELSE "error")] /\ lock' = {}
          ELSE caller' = [caller EXCEPT ![c] = After(kind)] /\ UNCHANGED lock
  /\ UNCHANGED <<store, file, pending, writer>>

-----------------------------------------------------------------------------
(* The background writer, reads, and edits from outside *)

WriterTakes ==
  /\ writer.pc = "idle" /\ pending # NoDoc
  /\ writer' = [pc |-> "writing", job |-> pending]
  /\ pending' = NoDoc
  /\ UNCHANGED <<store, file, seen, error, caller, lock>>

WriterSaves(ok) ==
  /\ writer.pc = "writing"
  /\ SaveUnchecked(writer.job, ok)
  /\ writer' = [writer EXCEPT !.pc = IF ok THEN "saved" ELSE "failed"]
  /\ UNCHANGED <<store, pending, error, caller, lock>>

\* Mutant: a failed write is not queued again.
WriterEndsForgetting ==
  /\ writer.pc \in {"saved", "failed"}
  /\ error' = (writer.pc = "failed")
  /\ seen' = ((writer.pc = "saved" /\ pending = NoDoc) \/ seen)
  /\ writer' = [pc |-> "idle", job |-> NoDoc]
  /\ UNCHANGED <<store, file, pending, caller, lock>>

\* Mutant: a failed write is queued again although a newer commit waits.
WriterEndsRequeueing ==
  /\ writer.pc \in {"saved", "failed"}
  /\ error' = (writer.pc = "failed")
  /\ seen' = ((writer.pc = "saved" /\ pending = NoDoc) \/ seen)
  /\ pending' = IF writer.pc = "failed" THEN writer.job ELSE pending
  /\ writer' = [pc |-> "idle", job |-> NoDoc]
  /\ UNCHANGED <<store, file, caller, lock>>

\* A failed job stays queued unless a newer commit has superseded it.
WriterEnds ==
  /\ writer.pc \in {"saved", "failed"}
  /\ error' = (writer.pc = "failed")
  /\ seen' = ((writer.pc = "saved" /\ pending = NoDoc) \/ seen)
  /\ pending' = IF writer.pc = "failed" /\ pending = NoDoc THEN writer.job ELSE pending
  /\ writer' = [pc |-> "idle", job |-> NoDoc]
  /\ UNCHANGED <<store, file, caller, lock>>

\* Mutant: a write of our own counts as an edit from outside.
ReadDocumentAnyChange ==
  /\ ~seen
  /\ snapshot' = disk /\ cache' = disk /\ seen' = TRUE
  /\ UNCHANGED <<pending, error, writer, caller, lock, disk, committed, owed>>

\* Every command reads under storage_lock; a save that heard of an earlier
\* failure reads once more before it flushes.
MayRead == lock = {} \/ \E c \in lock : caller[c].pc = "waiting" /\ caller[c].kind = "durable"

\* read, when it reloads.
ReadDocument ==
  /\ MayRead /\ Quiet /\ ~seen
  /\ snapshot' = disk /\ cache' = disk /\ seen' = TRUE
  /\ UNCHANGED <<pending, error, writer, caller, lock, disk, committed, owed>>

Edit(d) ==
  /\ ExternalEdits /\ d # disk
  /\ disk' = d /\ seen' = FALSE
  /\ UNCHANGED <<store, pending, error, writer, caller, lock, cache>>

WriterStep == WriterTakes \/ (\E ok \in BOOLEAN : WriterSaves(ok)) \/ WriterEnds

CallerStep(c) ==
  \/ ResetCommit(c)
  \/ FlushReturns(c)
  \/ FlushTimesOut(c)
  \/ \E ok \in BOOLEAN : SyncSave(c, ok)
  \/ FlushTakeoverEnds(c)
  \/ CommitWriteEnds(c)

StoreNext ==
  \/ \E c \in Callers : \/ \E d \in Docs, kind \in {"save", "durable"} : Save(c, d, kind)
                        \/ Reset(c)
                        \/ BeginBarrier(c)
                        \/ CallerStep(c)
  \/ WriterStep
  \/ ReadDocument
  \/ \E d \in Docs : Edit(d)

StoreSpec == StoreInit /\ [][StoreNext]_dvars

\* Threads are scheduled and clocks run; a disk that is written to again and
\* again accepts a write at last.
StoreFairSpec ==
  /\ StoreSpec
  /\ WF_dvars(WriterStep)
  /\ SF_dvars(WriterSaves(TRUE))
  /\ \A c \in Callers : WF_dvars(CallerStep(c)) /\ SF_dvars(SyncSave(c, TRUE))

-----------------------------------------------------------------------------
(* Properties *)

Job == [pc : {"none", "idle", "writing", "saved", "failed"}, job : Docs \cup {NoDoc}]
CallerRecord ==
  [pc : {"idle", "ok", "error", "waiting", "purging", "writing", "saved", "failed"},
   kind : {"none", "save", "durable", "reset", "seed", "barrier"},
   job : Docs \cup {NoDoc}, commit : BOOLEAN]

\* The types of the state (document_store.rs, StoreState).
StoreTypeOK ==
  /\ snapshot \in Docs /\ disk \in Docs /\ committed \in Docs
  /\ pending \in Docs \cup {NoDoc} /\ cache \in Docs \cup {NoDoc}
  /\ seen \in BOOLEAN /\ error \in BOOLEAN
  /\ writer \in Job
  /\ caller \in [Callers -> CallerRecord]
  /\ lock \in SUBSET Callers
  /\ owed \in [Callers -> SUBSET Docs]

Settled ==
  /\ Quiet /\ ~error /\ seen
  /\ \A c \in Callers : caller[c].pc \notin {"writing", "saved", "failed"}

\* When nothing is queued, nothing is being written, no error is outstanding
\* and the file is as the store last saw it, the file holds the snapshot: the
\* writes are "latest-wins" whatever failed and was retried on the way
\* (commit_inner, writer_loop, flush, save_unchecked).
LatestWins == Settled => disk = snapshot

\* Without edits from outside no read ever replaces a committed document by
\* what happens to be on disk (read, "the file changed under us").
NoCommitLost == snapshot = committed

\* A flush that succeeds leaves on disk what was committed when it was called,
\* or something committed since (flush; "Durability barrier: resolves after
\* every commit so far is on disk").
FlushIsBarrier ==
  [][\A c \in Callers :
       (/\ caller[c].pc \notin {"ok", "purging"}
        /\ caller'[c].pc \in {"ok", "purging"})
       => disk \in owed[c]]_dvars

\* Every flush returns, whatever the disk and the other threads do (flush's
\* deadline).
FlushEnds ==
  \A c \in Callers : caller[c].pc = "waiting" ~> caller[c].pc \in {"ok", "error", "purging"}

\* A committed document is written unless another one supersedes it; only a
\* commit that could not start the writer reports its failure and leaves it at
\* that (writer_loop's retries).
WrittenUnlessSuperseded ==
  \A d \in Docs : snapshot = d ~> (disk = d \/ snapshot # d \/ (error /\ writer.pc = "none"))
=============================================================================
