------------------------ MODULE OperationCoordinator ------------------------
(***************************************************************************)
(* src-tauri/src/operation_coordinator.rs: the try-only leases that keep   *)
(* tools, agents and workspace mutations of one process apart.  The        *)
(* coordinator does not keep its leases; it keeps counters per             *)
(* conversation and one exclusive mark per workspace, checks them under a  *)
(* mutex and undoes its own lease's share when the lease is dropped.  Each *)
(* acquisition and each drop is one critical section and one action; a     *)
(* refused acquisition changes nothing and has no action.                  *)
(*                                                                         *)
(* A map entry that the code removes when its count reaches zero, or when  *)
(* its slot is idle, is an entry with count 0 and no exclusive holder here.*)
(***************************************************************************)
EXTENDS LeaseTable, Naturals

CONSTANT Nobody    \* exclusive = None

ASSUME CoordinatorAssumption ==
  /\ IsFiniteSet(Leases)
  /\ Nobody \notin Conversations
  /\ NoLease \notin LeaseDescriptor

VARIABLES global_shared,    \* leases per conversation
          global_exclusive, \* its holder
          workspaces        \* WorkspaceSlot per workspace

cvars == <<leases, global_shared, global_exclusive, workspaces>>

NoCount == [conv \in Conversations |-> 0]
IdleSlot == [shared |-> NoCount, exclusive |-> Nobody]

CoordinatorInit ==
  /\ leases = [l \in Leases |-> NoLease]
  /\ global_shared = NoCount
  /\ global_exclusive = Nobody
  /\ workspaces = [w \in Workspaces |-> IdleSlot]

NewLease(l, d) ==
  /\ leases[l] = NoLease
  /\ leases' = [leases EXCEPT ![l] = d]

AdmitsGlobalShared ==
  /\ global_exclusive = Nobody
  /\ \A w \in Workspaces : workspaces[w].exclusive = Nobody

TryGlobalShared(l, conv) ==
  /\ AdmitsGlobalShared
  /\ NewLease(l, GlobalShared(conv))
  /\ global_shared' = [global_shared EXCEPT ![conv] = @ + 1]
  /\ UNCHANGED <<global_exclusive, workspaces>>

AdmitsWorkspaceShared(w) ==
  /\ global_exclusive = Nobody
  /\ workspaces[w].exclusive = Nobody

TryWorkspaceShared(l, w, conv) ==
  /\ AdmitsWorkspaceShared(w)
  /\ NewLease(l, WorkspaceShared(w, conv))
  /\ workspaces' = [workspaces EXCEPT ![w].shared[conv] = @ + 1]
  /\ UNCHANGED <<global_shared, global_exclusive>>

IsIdle(w) == workspaces[w] = IdleSlot

\* Mutant: a writer that checks the first of its workspaces only.
AdmitsIfOneIdle(ws) ==
  /\ global_exclusive = Nobody
  /\ global_shared = NoCount
  /\ \E w \in ws : IsIdle(w)

AdmitsWorkspacesExclusive(ws) ==
  /\ global_exclusive = Nobody
  /\ global_shared = NoCount
  /\ \A w \in ws : IsIdle(w)

TryWorkspacesExclusive(l, ws, conv) ==
  /\ AdmitsWorkspacesExclusive(ws)
  /\ NewLease(l, WorkspaceExclusive(ws, conv))
  /\ workspaces' = [w \in Workspaces |->
                      IF w \in ws THEN [workspaces[w] EXCEPT !.exclusive = conv] ELSE workspaces[w]]
  /\ UNCHANGED <<global_shared, global_exclusive>>

AdmitsGlobalExclusive ==
  /\ global_exclusive = Nobody
  /\ global_shared = NoCount
  /\ \A w \in Workspaces : IsIdle(w)

TryGlobalExclusive(l, conv) ==
  /\ AdmitsGlobalExclusive
  /\ NewLease(l, GlobalExclusive(conv))
  /\ global_exclusive' = conv
  /\ UNCHANGED <<global_shared, workspaces>>

-----------------------------------------------------------------------------
(* Drop, one action per arm of its match.  The debug assertions of the arms *)
(* are the invariant DropFindsItsOwn.                                       *)

Drops(l, mode) ==
  /\ leases[l] # NoLease
  /\ leases[l].mode = mode
  /\ leases' = [leases EXCEPT ![l] = NoLease]

DropGlobalShared(l) ==
  /\ Drops(l, "GlobalShared")
  /\ global_shared' = [global_shared EXCEPT ![leases[l].attribution] = @ - 1]
  /\ UNCHANGED <<global_exclusive, workspaces>>

DropWorkspaceShared(l) ==
  /\ Drops(l, "WorkspaceShared")
  /\ \E w \in leases[l].workspaces :
       workspaces' = [workspaces EXCEPT ![w].shared[leases[l].attribution] = @ - 1]
  /\ UNCHANGED <<global_shared, global_exclusive>>

\* Mutant: a multi-workspace lease gives back one of its workspaces only.
DropWorkspacesExclusiveFirst(l) ==
  /\ Drops(l, "WorkspaceExclusive")
  /\ \E w \in leases[l].workspaces : workspaces' = [workspaces EXCEPT ![w].exclusive = Nobody]
  /\ UNCHANGED <<global_shared, global_exclusive>>

DropWorkspacesExclusive(l) ==
  /\ Drops(l, "WorkspaceExclusive")
  /\ workspaces' = [w \in Workspaces |->
                      IF w \in leases[l].workspaces
                      THEN [workspaces[w] EXCEPT !.exclusive = Nobody] ELSE workspaces[w]]
  /\ UNCHANGED <<global_shared, global_exclusive>>

DropGlobalExclusive(l) ==
  /\ Drops(l, "GlobalExclusive")
  /\ global_exclusive' = Nobody
  /\ UNCHANGED <<global_shared, workspaces>>

Acquire(l, conv) ==
  \/ TryGlobalShared(l, conv)
  \/ \E w \in Workspaces : TryWorkspaceShared(l, w, conv)
  \/ \E ws \in (SUBSET Workspaces) \ {{}} : TryWorkspacesExclusive(l, ws, conv)
  \/ TryGlobalExclusive(l, conv)

Drop(l) ==
  \/ DropGlobalShared(l)
  \/ DropWorkspaceShared(l)
  \/ DropWorkspacesExclusive(l)
  \/ DropGlobalExclusive(l)

CoordinatorNext == \E l \in Leases : Drop(l) \/ \E conv \in Conversations : Acquire(l, conv)

CoordinatorSpec == CoordinatorInit /\ [][CoordinatorNext]_cvars

-----------------------------------------------------------------------------
(* Properties *)

CountType == [Conversations -> Nat]

\* The counters never run below zero and the holders are conversations.
CoordinatorTypeOK ==
  /\ leases \in [Leases -> LeaseDescriptor \cup {NoLease}]
  /\ global_shared \in CountType
  /\ global_exclusive \in Conversations \cup {Nobody}
  /\ workspaces \in [Workspaces -> [shared : CountType, exclusive : Conversations \cup {Nobody}]]

\* The holders of a descriptor: the counters are their numbers.
HoldersOf(d) == {l \in Leases : leases[l] = d}

\* The counters are the leases: per conversation the number of shared leases,
\* per workspace the exclusive lease that names it, and nothing else.  A drop
\* that undoes more or less than its own lease, or a partial acquisition,
\* breaks this long before two operations collide.
Accounting ==
  /\ \A conv \in Conversations :
       global_shared[conv] = Cardinality(HoldersOf(GlobalShared(conv)))
  /\ \A w \in Workspaces, conv \in Conversations :
       workspaces[w].shared[conv] = Cardinality(HoldersOf(WorkspaceShared(w, conv)))

\* The assertions of `drop`: every held lease finds its own share registered.
DropFindsItsOwn ==
  \A l \in Held :
    LET d == leases[l] IN
    /\ d.mode = "GlobalShared" => global_shared[d.attribution] > 0
    /\ d.mode = "WorkspaceShared" =>
         \A w \in d.workspaces : workspaces[w].shared[d.attribution] > 0
    /\ d.mode = "WorkspaceExclusive" =>
         \A w \in d.workspaces : workspaces[w].exclusive = d.attribution
    /\ d.mode = "GlobalExclusive" => global_exclusive = d.attribution

\* An acquisition is refused only because of a lease that is held: when every
\* holder has dropped, or the remaining ones are compatible, the counters
\* admit it.  (That they admit nothing else is the refinement of LeaseTable.)
RefusedOnlyByHolders ==
  /\ \A conv \in Conversations :
       (\A k \in Held : Compatible(GlobalShared(conv), leases[k])) => AdmitsGlobalShared
  /\ \A conv \in Conversations, w \in Workspaces :
       (\A k \in Held : Compatible(WorkspaceShared(w, conv), leases[k])) => AdmitsWorkspaceShared(w)
  /\ \A conv \in Conversations, ws \in (SUBSET Workspaces) \ {{}} :
       (\A k \in Held : Compatible(WorkspaceExclusive(ws, conv), leases[k]))
          => AdmitsWorkspacesExclusive(ws)
  /\ \A conv \in Conversations :
       (\A k \in Held : Compatible(GlobalExclusive(conv), leases[k])) => AdmitsGlobalExclusive

\* The counters implement the table of compatible leases: every acquisition
\* they admit is compatible with every lease held, whole sets at once.
ImplementsLeaseTable == TableSpec
=============================================================================
