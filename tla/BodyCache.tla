------------------------------ MODULE BodyCache ------------------------------
(***************************************************************************)
(* Conversation bodies in memory (conversation_store.rs, BodyCache): the   *)
(* read-through cache in the shared memory pool, the generations that keep *)
(* a read that raced a write out of it, the registry of open stores, and   *)
(* the reset that closes a store and deletes its file.                     *)
(*                                                                         *)
(* A body is the number of the write that stored it, 0 for no row.  Files  *)
(* are numbered as they are created: a deleted one lives on for those who  *)
(* have it open.  A store is the file it is open on.  Threads outside      *)
(* Unfenced hold storage_lock or a lease of the coordinator while they use *)
(* a store, which excludes a reset; the wire warmer and the usage          *)
(* statistics hold neither, and only read.  An entry of the pool also says *)
(* who brought it (history, for the properties).                           *)
(***************************************************************************)
EXTENDS Naturals

CONSTANTS Ids, Threads, Unfenced,
          MaxCommits, MaxResets   \* bounds of the instance

ASSUME BodyCacheAssumption ==
  /\ Unfenced \subseteq Threads
  /\ MaxCommits \in Nat /\ MaxResets \in Nat

VARIABLES path,     \* the file of that name, 0 for none
          made,     \* files created so far
          registered, \* the registered store, 0 for none
          rows,     \* what each file holds
          epoch,    \* BodyGenerations::epoch
          byId,     \* BodyGenerations::by_id
          bodies,   \* the bodies in the memory pool
          thread,   \* the users of a store
          reset,    \* purge_conversation_bodies and what follows it
          writes, resets

conn == <<path, made, registered>>
cached == <<epoch, byId, bodies>>
bvars == <<path, made, registered, rows, epoch, byId, bodies, thread, reset, writes, resets>>

Files == 1..(MaxResets + 1)
NoBody == [file |-> 0, body |-> 0, fenced |-> TRUE]
Local(pc, f) == [pc |-> pc, store |-> f, ids |-> {}, seen |-> <<0, 0>>, body |-> 0]
Away == Local("away", 0)
Has(f) == Local("has", f)

BodyInit ==
  /\ path = 1 /\ made = 1 /\ registered = 0
  /\ rows = [f \in Files |-> [i \in Ids |-> 0]]
  /\ epoch = 0
  /\ byId = [i \in Ids |-> 0]
  /\ bodies = [i \in Ids |-> NoBody]
  /\ thread = [t \in Threads |-> Away]
  /\ reset = "idle" /\ writes = 0 /\ resets = 0

Generation(i) == <<epoch, byId[i]>>

InvalidateAll ==
  /\ epoch' = epoch + 1
  /\ bodies' = [i \in Ids |-> NoBody]
  /\ UNCHANGED byId

Invalidate(i) ==
  /\ byId' = [byId EXCEPT ![i] = @ + 1]
  /\ bodies' = [bodies EXCEPT ![i] = NoBody]
  /\ UNCHANGED epoch

\* store_for, under the registry's mutex: the store of that name, or one
\* opened (and its file created) now.
StoreFor ==
  IF registered # 0
  THEN UNCHANGED <<conn, cached>>
  ELSE /\ made' = IF path = 0 THEN made + 1 ELSE made
       /\ path' = IF path = 0 THEN made + 1 ELSE path
       /\ registered' = path'
       /\ InvalidateAll

\* The call returns; t keeps the store.
Returns(t) == thread' = [thread EXCEPT ![t] = Has(@.store)]

-----------------------------------------------------------------------------
(* Users of a store *)

Take(t) ==
  /\ thread[t].pc = "away"
  /\ t \in Unfenced \/ reset = "idle"
  /\ StoreFor
  /\ thread' = [thread EXCEPT ![t] = Has(registered')]
  /\ UNCHANGED <<rows, reset, writes, resets>>

Leave(t) ==
  /\ thread[t].pc = "has"
  /\ thread' = [thread EXCEPT ![t] = Away]
  /\ UNCHANGED <<conn, rows, cached, reset, writes, resets>>

\* conversation_shared finds no body in the pool; a body it finds it returns.
Misses(t, i) ==
  /\ thread[t].pc = "has" /\ bodies[i] = NoBody
  /\ thread' = [thread EXCEPT ![t].pc = "missed", ![t].ids = {i}]
  /\ UNCHANGED <<conn, rows, cached, reset, writes, resets>>

NotesGeneration(t, i) ==
  /\ thread[t].pc = "missed" /\ thread[t].ids = {i}
  /\ thread' = [thread EXCEPT ![t].pc = "noted", ![t].seen = Generation(i)]
  /\ UNCHANGED <<conn, rows, cached, reset, writes, resets>>

\* conversation_from_disk; a missing row, or an error, ends the read.
ReadsDisk(t, i) ==
  /\ thread[t].pc = "noted" /\ thread[t].ids = {i}
  /\ \/ rows[thread[t].store][i] # 0
        /\ thread' = [thread EXCEPT ![t].pc = "read", ![t].body = rows[thread[t].store][i]]
     \/ Returns(t)
  /\ UNCHANGED <<conn, rows, cached, reset, writes, resets>>

Filled(t, i) ==
  [bodies EXCEPT ![i] = [file |-> thread[t].store, body |-> thread[t].body, fenced |-> t \notin Unfenced]]

\* Mutant: what was read is kept whatever happened meanwhile.
FillsUnchecked(t, i) ==
  /\ thread[t].pc = "read" /\ thread[t].ids = {i}
  /\ bodies' = Filled(t, i)
  /\ Returns(t)
  /\ UNCHANGED <<conn, rows, epoch, byId, reset, writes, resets>>

\* fill, under the generations' mutex.
Fills(t, i) ==
  /\ thread[t].pc = "read" /\ thread[t].ids = {i}
  /\ bodies' = IF Generation(i) = thread[t].seen THEN Filled(t, i) ELSE bodies
  /\ Returns(t)
  /\ UNCHANGED <<conn, rows, epoch, byId, reset, writes, resets>>

Stored(t, i) == rows[thread[t].store][i]

MayWrite(t) == thread[t].pc = "has" /\ t \notin Unfenced

Commits(t, ids, new) ==
  /\ writes < MaxCommits /\ writes' = writes + 1
  /\ rows' = [rows EXCEPT ![thread[t].store] = new]
  /\ thread' = [thread EXCEPT ![t].pc = "wrote", ![t].ids = ids]
  /\ UNCHANGED <<conn, cached, reset, resets>>

\* A write transaction of one conversation.  It stores a new body or, when it
\* fails or has nothing to do, the one that was there.
CommitsOne(t, i) ==
  /\ MayWrite(t)
  /\ \E body \in {writes + 1, Stored(t, i)} :
       Commits(t, {i}, [rows[thread[t].store] EXCEPT ![i] = body])

\* One that may touch them all: delete_conversation and set_workspace_order
\* change the parents of others, reconcile_streaming what was streaming.
CommitsAll(t) ==
  /\ MayWrite(t)
  /\ \E changed, gone \in SUBSET Ids :
       Commits(t, Ids, [i \in Ids |-> IF i \in gone THEN 0
                                     ELSE IF i \in changed /\ Stored(t, i) # 0 THEN writes + 1
                                     ELSE Stored(t, i)])

\* What every such write does next, whether it succeeded or not.
Invalidates(t) ==
  /\ thread[t].pc = "wrote"
  /\ \/ \E i \in Ids : thread[t].ids = {i} /\ Invalidate(i)
     \/ thread[t].ids = Ids /\ InvalidateAll
  /\ Returns(t)
  /\ UNCHANGED <<conn, rows, reset, writes, resets>>

\* The pool is over its cap.
Unloads(i) ==
  /\ bodies[i] # NoBody
  /\ bodies' = [bodies EXCEPT ![i] = NoBody]
  /\ UNCHANGED <<conn, rows, epoch, byId, thread, reset, writes, resets>>

-----------------------------------------------------------------------------
(* reset_document *)

\* It holds storage_lock and the exclusive lease; close_store_for takes the
\* store out of the registry.
ResetCloses ==
  /\ reset = "idle" /\ resets < MaxResets
  /\ \A t \in Threads \ Unfenced : thread[t].pc = "away"
  /\ reset' = "closed" /\ resets' = resets + 1
  /\ registered' = 0
  /\ UNCHANGED <<path, made, rows, cached, thread, writes>>

ResetInvalidates ==
  /\ reset = "closed"
  /\ reset' = "deleting"
  /\ InvalidateAll
  /\ UNCHANGED <<conn, rows, thread, writes, resets>>

\* The file goes, or the reset ends with an error.
ResetDeletes ==
  /\ reset = "deleting"
  /\ \/ reset' = "deleted" /\ path' = 0
     \/ reset' = "idle" /\ UNCHANGED path
  /\ UNCHANGED <<made, registered, rows, cached, thread, writes, resets>>

\* install_builtin_preset writes its template to the store of that name.
ResetReopens ==
  /\ reset = "deleted"
  /\ reset' = "idle"
  /\ StoreFor
  /\ UNCHANGED <<rows, thread, writes, resets>>

ThreadStep(t) ==
  \/ Take(t)
  \/ Leave(t)
  \/ \E i \in Ids : Misses(t, i) \/ NotesGeneration(t, i) \/ ReadsDisk(t, i) \/ Fills(t, i) \/ CommitsOne(t, i)
  \/ CommitsAll(t)
  \/ Invalidates(t)

BodyNext ==
  \/ \E t \in Threads : ThreadStep(t)
  \/ \E i \in Ids : Unloads(i)
  \/ ResetCloses \/ ResetInvalidates \/ ResetDeletes \/ ResetReopens

BodySpec == BodyInit /\ [][BodyNext]_bvars

-----------------------------------------------------------------------------
(* Properties *)

ThreadRecord ==
  [pc : {"away", "has", "missed", "noted", "read", "wrote"},
   store : 0..(MaxResets + 1), ids : SUBSET Ids, seen : Nat \X Nat, body : Nat]

\* The types of the state (BodyGenerations, registry, the pool's entries).
BodyTypeOK ==
  /\ path \in 0..(MaxResets + 1) /\ registered \in 0..(MaxResets + 1) /\ made \in Nat
  /\ rows \in [Files -> [Ids -> Nat]]
  /\ epoch \in Nat /\ byId \in [Ids -> Nat]
  /\ bodies \in [Ids -> [file : 0..(MaxResets + 1), body : Nat, fenced : BOOLEAN]]
  /\ thread \in [Threads -> ThreadRecord]
  /\ reset \in {"idle", "closed", "deleting", "deleted"}
  /\ writes \in Nat /\ resets \in Nat

\* A write of i to the file f has committed and has not yet invalidated.
Unfinished(f, i) == \E t \in Threads : thread[t].pc = "wrote" /\ i \in thread[t].ids /\ thread[t].store = f

\* A read that finds its body in the pool gets what the open store holds: the
\* body is the one its database holds, except while a write of it is between
\* commit and invalidation, and its database is that of the registered store.
\* The one exception is a body that a reader without storage_lock or lease
\* brought from the deleted file, having kept its store over a reset: fill's
\* generation does not tell the two files apart (fill, generation, invalidate,
\* close_store_for; "a cached body is never older than the database",
\* conversation_store.rs:768, says it without that exception).
CachedIsCurrent ==
  \A i \in Ids : bodies[i] # NoBody =>
    /\ bodies[i].body = rows[bodies[i].file][i] \/ Unfinished(bodies[i].file, i)
    /\ registered # 0 => bodies[i].file = registered \/ ~bodies[i].fenced

\* When no reset is under way, the registered store is the file of that name:
\* what is written through it is there after a restart (close_store_for,
\* purge_conversation_bodies: "Close the store before deleting files").
StoreIsTheFile == reset = "idle" /\ registered # 0 => registered = path
=============================================================================
