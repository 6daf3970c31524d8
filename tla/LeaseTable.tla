----------------------------- MODULE LeaseTable -----------------------------
(***************************************************************************)
(* What the operation coordinator promises: a table of held leases in      *)
(* which any two are compatible.  A lease is granted exactly when it is    *)
(* compatible with every lease that is held, at once or not at all, and is *)
(* given back once.  The modes and their compatibility are those of the    *)
(* doc comments of operation_coordinator.rs.                               *)
(***************************************************************************)
EXTENDS FiniteSets

CONSTANTS Leases,        \* the lease objects the program may hold at once
          Workspaces,    \* canonical workspace identities
          Conversations, \* conversation_id values, the absent one included
          NoLease        \* a lease object that is not alive

VARIABLE leases          \* LeaseDescriptor per lease object, or NoLease

GlobalShared(conv)           == [mode |-> "GlobalShared", workspaces |-> {}, attribution |-> conv]
WorkspaceShared(w, conv)     == [mode |-> "WorkspaceShared", workspaces |-> {w}, attribution |-> conv]
WorkspaceExclusive(ws, conv) == [mode |-> "WorkspaceExclusive", workspaces |-> ws, attribution |-> conv]
GlobalExclusive(conv)        == [mode |-> "GlobalExclusive", workspaces |-> {}, attribution |-> conv]

LeaseDescriptor ==
  {GlobalShared(conv) : conv \in Conversations}
  \cup {WorkspaceShared(w, conv) : w \in Workspaces, conv \in Conversations}
  \cup {WorkspaceExclusive(ws, conv) : ws \in (SUBSET Workspaces) \ {{}}, conv \in Conversations}
  \cup {GlobalExclusive(conv) : conv \in Conversations}

Reads(d)       == d.mode \in {"GlobalShared", "WorkspaceShared"}
IsWorkspace(d) == d.mode \in {"WorkspaceShared", "WorkspaceExclusive"}

\* Readers coexist; otherwise only operations on different workspaces do.
Compatible(d, e) ==
  \/ Reads(d) /\ Reads(e)
  \/ IsWorkspace(d) /\ IsWorkspace(e) /\ d.workspaces \cap e.workspaces = {}

Held == {l \in Leases : leases[l] # NoLease}

Grant(l, d) ==
  /\ leases[l] = NoLease
  /\ \A k \in Held : Compatible(d, leases[k])
  /\ leases' = [leases EXCEPT ![l] = d]

Release(l) ==
  /\ leases[l] # NoLease
  /\ leases' = [leases EXCEPT ![l] = NoLease]

TableInit == leases = [l \in Leases |-> NoLease]

TableNext ==
  \E l \in Leases : Release(l) \/ \E d \in LeaseDescriptor : Grant(l, d)

TableSpec == TableInit /\ [][TableNext]_leases

-----------------------------------------------------------------------------
\* Two leases that are held together are compatible: no writer runs beside a
\* reader or another writer of its workspace, nor beside a global operation.
PairwiseCompatible ==
  \A k, l \in Held : k # l => Compatible(leases[k], leases[l])
=============================================================================
