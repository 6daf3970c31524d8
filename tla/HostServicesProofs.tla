------------------------- MODULE HostServicesProofs -------------------------
(***************************************************************************)
(* The four services of HostServices, proved about one after another: the  *)
(* operation coordinator, the shared Git reads, the document store and the *)
(* run stream hub.  They have no variable in common; each part has its own *)
(* inductive invariant.                                                    *)
(***************************************************************************)
EXTENDS HostServices, FiniteSetTheorems, SequenceInduction

-----------------------------------------------------------------------------
(* The operation coordinator: its counters implement the table of pairwise   *)
(* compatible leases, for any number of leases, workspaces and conversations.*)
(*                                                                           *)
(* The coordinator decides from counters, the promise is about leases, so    *)
(* the invariant ties the two: the counters count the leases (Accounting),   *)
(* every exclusive lease finds its own mark (MarksHeld), and the leases are  *)
(* pairwise compatible, which is what lets a drop clear a mark without       *)
(* asking who else holds it.                                                 *)

\* The exclusive half of DropFindsItsOwn.
MarksHeld ==
  \A l \in Held :
    LET d == leases[l] IN
    /\ d.mode = "WorkspaceExclusive" =>
         \A w \in d.workspaces : workspaces[w].exclusive = d.attribution
    /\ d.mode = "GlobalExclusive" => global_exclusive = d.attribution

\* The converse: a mark belongs to a lease that is held.
MarksOwned ==
  /\ global_exclusive # Nobody => \E k \in Held : leases[k].mode = "GlobalExclusive"
  /\ \A w \in Workspaces : workspaces[w].exclusive # Nobody =>
       \E k \in Held : leases[k].mode = "WorkspaceExclusive" /\ w \in leases[k].workspaces

CoordinatorInv == CoordinatorTypeOK /\ Accounting /\ MarksHeld /\ PairwiseCompatible

-----------------------------------------------------------------------------
(* Counting holders. *)

\* The holders of a descriptor can be counted.
LEMMA HoldersFinite ==
  ASSUME NEW d
  PROVE  IsFiniteSet(HoldersOf(d)) /\ Cardinality(HoldersOf(d)) \in Nat
  BY CoordinatorAssumption, FS_Subset, FS_CardinalityType DEF HoldersOf

\* A descriptor is never the mark of a dead lease.
LEMMA DescriptorIsLease ==
  ASSUME NEW d \in LeaseDescriptor
  PROVE  d # NoLease
  BY CoordinatorAssumption

\* A new lease adds one holder to its own descriptor and to no other.
LEMMA GrantCounts ==
  ASSUME leases \in [Leases -> LeaseDescriptor \cup {NoLease}],
         NEW l \in Leases, NEW d \in LeaseDescriptor, NewLease(l, d)
  PROVE  /\ Cardinality(HoldersOf(d)') = Cardinality(HoldersOf(d)) + 1
         /\ \A e \in LeaseDescriptor \ {d} : HoldersOf(e)' = HoldersOf(e)
<1>1. HoldersOf(d)' = HoldersOf(d) \cup {l} /\ l \notin HoldersOf(d)
  BY DescriptorIsLease DEF NewLease, HoldersOf
<1>2. Cardinality(HoldersOf(d) \cup {l}) = Cardinality(HoldersOf(d)) + 1
  BY <1>1, HoldersFinite, FS_AddElement
<1>3. \A e \in LeaseDescriptor \ {d} : HoldersOf(e)' = HoldersOf(e)
  BY DescriptorIsLease DEF NewLease, HoldersOf
<1> QED  BY <1>1, <1>2, <1>3

\* A dropped lease takes one holder from its own descriptor and from no other.
LEMMA DropCounts ==
  ASSUME leases \in [Leases -> LeaseDescriptor \cup {NoLease}],
         NEW l \in Leases, NEW d \in LeaseDescriptor, leases[l] = d,
         leases' = [leases EXCEPT ![l] = NoLease]
  PROVE  /\ Cardinality(HoldersOf(d)') = Cardinality(HoldersOf(d)) - 1
         /\ \A e \in LeaseDescriptor \ {d} : HoldersOf(e)' = HoldersOf(e)
<1>1. HoldersOf(d)' = HoldersOf(d) \ {l} /\ l \in HoldersOf(d)
  BY DescriptorIsLease DEF HoldersOf
<1>2. Cardinality(HoldersOf(d) \ {l}) = Cardinality(HoldersOf(d)) - 1
  BY <1>1, HoldersFinite, FS_RemoveElement
<1>3. \A e \in LeaseDescriptor \ {d} : HoldersOf(e)' = HoldersOf(e)
  BY DescriptorIsLease DEF HoldersOf
<1> QED  BY <1>1, <1>2, <1>3

\* A descriptor that is held has at least one holder.
LEMMA HolderCounts ==
  ASSUME NEW l \in Leases, NEW d, leases[l] = d
  PROVE  Cardinality(HoldersOf(d)) > 0
<1>1. HoldersOf(d) # {}
  BY DEF HoldersOf
<1>2. Cardinality(HoldersOf(d)) # 0
  BY <1>1, HoldersFinite, FS_EmptySet
<1> QED  BY <1>2, HoldersFinite

\* Descriptors of the four modes are descriptors.
LEMMA Descriptors ==
  /\ \A conv \in Conversations :
       GlobalShared(conv) \in LeaseDescriptor /\ GlobalExclusive(conv) \in LeaseDescriptor
  /\ \A w \in Workspaces, conv \in Conversations : WorkspaceShared(w, conv) \in LeaseDescriptor
  /\ \A ws \in (SUBSET Workspaces) \ {{}}, conv \in Conversations :
       WorkspaceExclusive(ws, conv) \in LeaseDescriptor
  BY DEF LeaseDescriptor

\* The mode and the attribution tell descriptors apart.
LEMMA DescriptorFields ==
  /\ \A conv : GlobalShared(conv).mode = "GlobalShared" /\ GlobalShared(conv).attribution = conv
  /\ \A w, conv : /\ WorkspaceShared(w, conv).mode = "WorkspaceShared"
                  /\ WorkspaceShared(w, conv).attribution = conv
                  /\ WorkspaceShared(w, conv).workspaces = {w}
  BY DEF GlobalShared, WorkspaceShared

\* The shared half of DropFindsItsOwn follows from the accounts.
LEMMA OwnShareRegistered == CoordinatorInv => DropFindsItsOwn
<1> SUFFICES ASSUME CoordinatorInv, NEW l \in Held PROVE
      LET d == leases[l] IN
      /\ d.mode = "GlobalShared" => global_shared[d.attribution] > 0
      /\ d.mode = "WorkspaceShared" => \A w \in d.workspaces : workspaces[w].shared[d.attribution] > 0
      /\ d.mode = "WorkspaceExclusive" => \A w \in d.workspaces : workspaces[w].exclusive = d.attribution
      /\ d.mode = "GlobalExclusive" => global_exclusive = d.attribution
  BY DEF DropFindsItsOwn
<1>1. PICK d \in LeaseDescriptor : d = leases[l] /\ l \in Leases
  BY DEF CoordinatorInv, CoordinatorTypeOK, Held
<1>2. Cardinality(HoldersOf(d)) > 0
  BY <1>1, HolderCounts
<1>3. ASSUME d.mode = "GlobalShared" PROVE global_shared[d.attribution] > 0
  <2>1. d.attribution \in Conversations /\ d = GlobalShared(d.attribution)
    BY <1>1, <1>3 DEF LeaseDescriptor, GlobalShared, WorkspaceShared, WorkspaceExclusive, GlobalExclusive
  <2> QED  BY <2>1, <1>2 DEF CoordinatorInv, Accounting
<1>4. ASSUME d.mode = "WorkspaceShared", NEW w \in d.workspaces
      PROVE  workspaces[w].shared[d.attribution] > 0
  <2>1. w \in Workspaces /\ d.attribution \in Conversations /\ d = WorkspaceShared(w, d.attribution)
    BY <1>1, <1>4 DEF LeaseDescriptor, GlobalShared, WorkspaceShared, WorkspaceExclusive, GlobalExclusive
  <2> QED  BY <2>1, <1>2 DEF CoordinatorInv, Accounting
<1> QED  BY <1>1, <1>3, <1>4 DEF CoordinatorInv, MarksHeld

-----------------------------------------------------------------------------
(* The counters admit only what the table would grant. *)

\* The fields of a held lease.
LEMMA HeldDescriptor ==
  ASSUME CoordinatorTypeOK, NEW k \in Held
  PROVE  /\ k \in Leases
         /\ leases[k] \in LeaseDescriptor
         /\ leases[k].attribution \in Conversations
         /\ leases[k].workspaces \subseteq Workspaces
         /\ leases[k].mode \in {"GlobalShared", "WorkspaceShared", "WorkspaceExclusive", "GlobalExclusive"}
         /\ IsWorkspace(leases[k]) => leases[k].workspaces # {}
<1>1. PICK d \in LeaseDescriptor : d = leases[k] /\ k \in Leases
  BY DEF CoordinatorTypeOK, Held
<1> USE DEF IsWorkspace
<1>2. ASSUME NEW conv \in Conversations, d = GlobalShared(conv) \/ d = GlobalExclusive(conv)
      PROVE  d.attribution = conv /\ d.workspaces = {} /\ ~IsWorkspace(d)
             /\ d.mode \in {"GlobalShared", "GlobalExclusive"}
  BY <1>2 DEF GlobalShared, GlobalExclusive
<1>3. ASSUME NEW conv \in Conversations, NEW w \in Workspaces, d = WorkspaceShared(w, conv)
      PROVE  d.attribution = conv /\ d.workspaces = {w} /\ d.mode = "WorkspaceShared"
  BY <1>3 DEF WorkspaceShared
<1>4. ASSUME NEW conv \in Conversations, NEW ws \in (SUBSET Workspaces) \ {{}},
             d = WorkspaceExclusive(ws, conv)
      PROVE  d.attribution = conv /\ d.workspaces = ws /\ d.mode = "WorkspaceExclusive"
  BY <1>4 DEF WorkspaceExclusive
<1>5. \/ \E conv \in Conversations : d = GlobalShared(conv) \/ d = GlobalExclusive(conv)
      \/ \E conv \in Conversations, w \in Workspaces : d = WorkspaceShared(w, conv)
      \/ \E conv \in Conversations, ws \in (SUBSET Workspaces) \ {{}} : d = WorkspaceExclusive(ws, conv)
  BY DEF LeaseDescriptor
<1>6. CASE \E conv \in Conversations : d = GlobalShared(conv) \/ d = GlobalExclusive(conv)
  BY <1>1, <1>2, <1>6
<1>7. CASE \E conv \in Conversations, w \in Workspaces : d = WorkspaceShared(w, conv)
  BY <1>1, <1>3, <1>7
<1>8. CASE \E conv \in Conversations, ws \in (SUBSET Workspaces) \ {{}} : d = WorkspaceExclusive(ws, conv)
  <2>1. PICK conv \in Conversations, ws \in (SUBSET Workspaces) \ {{}} : d = WorkspaceExclusive(ws, conv)
    BY <1>8
  <2>2. d.attribution = conv /\ d.workspaces = ws /\ d.mode = "WorkspaceExclusive"
    BY <1>4, <2>1
  <2>3. ws \subseteq Workspaces /\ ws # {}
    OBVIOUS
  <2> QED  BY <1>1, <2>2, <2>3
<1> QED  BY <1>5, <1>6, <1>7, <1>8

\* What the counters admit is compatible with every held lease.
LEMMA AdmittedIsCompatible ==
  ASSUME CoordinatorInv, NEW k \in Held, NEW conv \in Conversations
  PROVE  /\ AdmitsGlobalShared => Compatible(GlobalShared(conv), leases[k])
         /\ \A w \in Workspaces :
              AdmitsWorkspaceShared(w) => Compatible(WorkspaceShared(w, conv), leases[k])
         /\ \A ws \in (SUBSET Workspaces) \ {{}} :
              AdmitsWorkspacesExclusive(ws) => Compatible(WorkspaceExclusive(ws, conv), leases[k])
         /\ AdmitsGlobalExclusive => Compatible(GlobalExclusive(conv), leases[k])
<1> DEFINE d == leases[k]
<1>1. /\ d.attribution \in Conversations
      /\ d.workspaces \subseteq Workspaces
      /\ d.mode \in {"GlobalShared", "WorkspaceShared", "WorkspaceExclusive", "GlobalExclusive"}
      /\ IsWorkspace(d) => d.workspaces # {}
  BY HeldDescriptor DEF CoordinatorInv
<1>2. /\ d.mode = "GlobalShared" => global_shared[d.attribution] > 0
      /\ d.mode = "WorkspaceShared" => \A w \in d.workspaces : workspaces[w].shared[d.attribution] > 0
      /\ d.mode = "WorkspaceExclusive" => \A w \in d.workspaces : workspaces[w].exclusive = d.attribution
      /\ d.mode = "GlobalExclusive" => global_exclusive = d.attribution
  BY OwnShareRegistered DEF DropFindsItsOwn
<1>3. d.mode = "GlobalShared" => global_shared # NoCount
  BY <1>1, <1>2 DEF NoCount
<1>4. d.mode = "WorkspaceShared" => \A w \in d.workspaces : ~IsIdle(w)
  BY <1>1, <1>2 DEF IsIdle, IdleSlot, NoCount
<1>5. d.mode = "WorkspaceExclusive" =>
        \A w \in d.workspaces : ~IsIdle(w) /\ workspaces[w].exclusive # Nobody
  BY <1>1, <1>2, CoordinatorAssumption DEF IsIdle, IdleSlot
<1>6. d.mode = "GlobalExclusive" => global_exclusive # Nobody
  BY <1>1, <1>2, CoordinatorAssumption
<1> HIDE DEF d
<1>7. AdmitsGlobalShared => Reads(d)
  BY <1>1, <1>5, <1>6 DEF AdmitsGlobalShared, Reads, IsWorkspace
<1>8. ASSUME NEW w \in Workspaces, AdmitsWorkspaceShared(w)
      PROVE  Reads(d) \/ (IsWorkspace(d) /\ w \notin d.workspaces)
  BY <1>1, <1>5, <1>6, <1>8 DEF AdmitsWorkspaceShared, Reads, IsWorkspace
<1>9. ASSUME NEW ws \in (SUBSET Workspaces) \ {{}}, AdmitsWorkspacesExclusive(ws)
      PROVE  IsWorkspace(d) /\ ws \cap d.workspaces = {}
  BY <1>1, <1>3, <1>4, <1>5, <1>6, <1>9 DEF AdmitsWorkspacesExclusive, IsWorkspace
<1>10. ~AdmitsGlobalExclusive
  BY <1>1, <1>3, <1>4, <1>5, <1>6 DEF AdmitsGlobalExclusive, IsWorkspace
<1> QED
  BY <1>7, <1>8, <1>9, <1>10 DEF d, Compatible, Reads, IsWorkspace, GlobalShared, WorkspaceShared,
                                 WorkspaceExclusive

\* Every step of the coordinator is a step of the table or changes no lease.
LEMMA StepIsTableStep == CoordinatorInv /\ [CoordinatorNext]_cvars => [TableNext]_leases
<1> SUFFICES ASSUME CoordinatorInv, CoordinatorNext PROVE TableNext
  BY DEF cvars
<1>1. PICK l \in Leases : Drop(l) \/ \E conv \in Conversations : Acquire(l, conv)
  BY DEF CoordinatorNext
<1>2. CASE Drop(l)
  BY <1>2 DEF Drop, DropGlobalShared, DropWorkspaceShared, DropWorkspacesExclusive,
              DropGlobalExclusive, Drops, Release, TableNext
<1>3. ASSUME NEW conv \in Conversations, Acquire(l, conv) PROVE TableNext
  <2>1. CASE TryGlobalShared(l, conv)
    BY <2>1, AdmittedIsCompatible, Descriptors DEF TryGlobalShared, NewLease, Grant, TableNext
  <2>2. ASSUME NEW w \in Workspaces, TryWorkspaceShared(l, w, conv) PROVE TableNext
    BY <2>2, AdmittedIsCompatible, Descriptors DEF TryWorkspaceShared, NewLease, Grant, TableNext
  <2>3. ASSUME NEW ws \in (SUBSET Workspaces) \ {{}}, TryWorkspacesExclusive(l, ws, conv) PROVE TableNext
    BY <2>3, AdmittedIsCompatible, Descriptors DEF TryWorkspacesExclusive, NewLease, Grant, TableNext
  <2>4. CASE TryGlobalExclusive(l, conv)
    BY <2>4, AdmittedIsCompatible, Descriptors DEF TryGlobalExclusive, NewLease, Grant, TableNext
  <2> QED  BY <1>3, <2>1, <2>2, <2>3, <2>4 DEF Acquire
<1> QED  BY <1>1, <1>2, <1>3

\* Granting only what is compatible keeps the table compatible.
LEMMA TableStepKeepsCompatible ==
  ASSUME leases \in [Leases -> LeaseDescriptor \cup {NoLease}], PairwiseCompatible,
         [TableNext]_leases
  PROVE  PairwiseCompatible'
<1>1. CASE UNCHANGED leases
  BY <1>1 DEF PairwiseCompatible, Held
<1>2. ASSUME NEW l \in Leases, Release(l) PROVE PairwiseCompatible'
  BY <1>2 DEF Release, PairwiseCompatible, Held
<1>3. ASSUME NEW l \in Leases, NEW d \in LeaseDescriptor, Grant(l, d) PROVE PairwiseCompatible'
  <2> SUFFICES ASSUME NEW j \in Held', NEW k \in Held', j # k
               PROVE  Compatible(leases'[j], leases'[k])
    BY DEF PairwiseCompatible
  <2>1. \A i \in Held' : i # l => i \in Held /\ leases'[i] = leases[i]
    BY <1>3 DEF Grant, Held
  <2>2. leases'[l] = d
    BY <1>3 DEF Grant
  <2>3. CASE j = l
    BY <1>3, <2>1, <2>2, <2>3 DEF Grant
  <2>4. CASE k = l
    <3>1. Compatible(d, leases[j])
      BY <1>3, <2>1, <2>4 DEF Grant
    <3> QED  BY <3>1, <2>1, <2>2, <2>4 DEF Compatible
  <2>5. CASE j # l /\ k # l
    BY <2>1, <2>5 DEF PairwiseCompatible
  <2> QED  BY <2>3, <2>4, <2>5
<1> QED  BY <1>1, <1>2, <1>3 DEF TableNext

-----------------------------------------------------------------------------
(* The invariant step by step: every critical section moves the counters by *)
(* exactly the lease it grants or takes back.                               *)

\* An acquisition keeps the invariant.
LEMMA AcquireKeepsInv ==
  ASSUME CoordinatorInv, NEW l \in Leases, NEW conv \in Conversations, Acquire(l, conv)
  PROVE  CoordinatorTypeOK' /\ Accounting' /\ MarksHeld'
<1> USE DEF CountType
<1>1. CASE TryGlobalShared(l, conv)
  <2> DEFINE d == GlobalShared(conv)
  <2>1. d \in LeaseDescriptor /\ NewLease(l, d)
    BY <1>1, Descriptors DEF TryGlobalShared
  <2>2. CoordinatorTypeOK'
    BY <1>1, <2>1 DEF CoordinatorInv, CoordinatorTypeOK, TryGlobalShared, NewLease
  <2>3. Cardinality(HoldersOf(d)') = Cardinality(HoldersOf(d)) + 1
        /\ \A e \in LeaseDescriptor \ {d} : HoldersOf(e)' = HoldersOf(e)
    BY <2>1, GrantCounts DEF CoordinatorInv, CoordinatorTypeOK
  <2>4. Accounting'
    <3>1. \A v \in Conversations \ {conv} : GlobalShared(v) \in LeaseDescriptor \ {d}
      BY Descriptors DEF GlobalShared
    <3>2. \A w \in Workspaces, v \in Conversations : WorkspaceShared(w, v) \in LeaseDescriptor \ {d}
      BY Descriptors DEF GlobalShared, WorkspaceShared
    <3> QED  BY <1>1, <2>3, <3>1, <3>2 DEF CoordinatorInv, CoordinatorTypeOK, Accounting, TryGlobalShared
  <2>5. MarksHeld'
    BY <1>1, <2>1 DEF CoordinatorInv, CoordinatorTypeOK, MarksHeld, TryGlobalShared, NewLease, Held, GlobalShared
  <2> QED  BY <2>2, <2>4, <2>5
<1>2. ASSUME NEW w \in Workspaces, TryWorkspaceShared(l, w, conv)
      PROVE  CoordinatorTypeOK' /\ Accounting' /\ MarksHeld'
  <2> DEFINE d == WorkspaceShared(w, conv)
  <2>1. d \in LeaseDescriptor /\ NewLease(l, d)
    BY <1>2, Descriptors DEF TryWorkspaceShared
  <2>2. CoordinatorTypeOK'
    <3>1. [workspaces[w].shared EXCEPT ![conv] = @ + 1] \in CountType
      BY DEF CoordinatorInv, CoordinatorTypeOK
    <3>2. workspaces' = [workspaces EXCEPT ![w] =
                           [workspaces[w] EXCEPT !.shared = [workspaces[w].shared EXCEPT ![conv] = @ + 1]]]
      BY <1>2 DEF TryWorkspaceShared
    <3> HIDE DEF CountType
    <3> QED  BY <1>2, <2>1, <3>1, <3>2 DEF CoordinatorInv, CoordinatorTypeOK, TryWorkspaceShared, NewLease
  <2>3. Cardinality(HoldersOf(d)') = Cardinality(HoldersOf(d)) + 1
        /\ \A e \in LeaseDescriptor \ {d} : HoldersOf(e)' = HoldersOf(e)
    BY <2>1, GrantCounts DEF CoordinatorInv, CoordinatorTypeOK
  <2>4. Accounting'
    <3>1. \A v \in Conversations : GlobalShared(v) \in LeaseDescriptor \ {d}
      BY Descriptors DEF GlobalShared, WorkspaceShared
    <3>2. \A x \in Workspaces, v \in Conversations :
             x # w \/ v # conv => WorkspaceShared(x, v) \in LeaseDescriptor \ {d}
      BY Descriptors DEF WorkspaceShared
    <3> QED  BY <1>2, <2>3, <3>1, <3>2 DEF CoordinatorInv, CoordinatorTypeOK, Accounting, TryWorkspaceShared
  <2>5. MarksHeld'
    BY <1>2, <2>1, HeldDescriptor
       DEF CoordinatorInv, CoordinatorTypeOK, MarksHeld, TryWorkspaceShared, NewLease, Held, WorkspaceShared
  <2> QED  BY <2>2, <2>4, <2>5
<1>3. ASSUME NEW ws \in (SUBSET Workspaces) \ {{}}, TryWorkspacesExclusive(l, ws, conv)
      PROVE  CoordinatorTypeOK' /\ Accounting' /\ MarksHeld'
  <2> DEFINE d == WorkspaceExclusive(ws, conv)
  <2>1. d \in LeaseDescriptor /\ NewLease(l, d)
    BY <1>3, Descriptors DEF TryWorkspacesExclusive
  <2>2. CoordinatorTypeOK'
    BY <1>3, <2>1 DEF CoordinatorInv, CoordinatorTypeOK, TryWorkspacesExclusive, NewLease
  <2>3. \A e \in LeaseDescriptor \ {d} : HoldersOf(e)' = HoldersOf(e)
    BY <2>1, GrantCounts DEF CoordinatorInv, CoordinatorTypeOK
  <2>4. Accounting'
    <3>1. \A v \in Conversations : GlobalShared(v) \in LeaseDescriptor \ {d}
      BY Descriptors DEF GlobalShared, WorkspaceExclusive
    <3>2. \A x \in Workspaces, v \in Conversations : WorkspaceShared(x, v) \in LeaseDescriptor \ {d}
      BY Descriptors DEF WorkspaceShared, WorkspaceExclusive
    <3> QED  BY <1>3, <2>3, <3>1, <3>2 DEF CoordinatorInv, CoordinatorTypeOK, Accounting, TryWorkspacesExclusive
  <2>5. MarksHeld'
    <3>1. \A k \in Held : leases[k].mode = "WorkspaceExclusive" => leases[k].workspaces \cap ws = {}
      BY <1>3, AdmittedIsCompatible
         DEF TryWorkspacesExclusive, Compatible, Reads, IsWorkspace, WorkspaceExclusive
    <3> QED
      BY <1>3, <2>1, <3>1, HeldDescriptor
         DEF CoordinatorInv, CoordinatorTypeOK, MarksHeld, TryWorkspacesExclusive, NewLease, Held, WorkspaceExclusive
  <2> QED  BY <2>2, <2>4, <2>5
<1>4. CASE TryGlobalExclusive(l, conv)
  <2> DEFINE d == GlobalExclusive(conv)
  <2>1. d \in LeaseDescriptor /\ NewLease(l, d)
    BY <1>4, Descriptors DEF TryGlobalExclusive
  <2>2. CoordinatorTypeOK'
    BY <1>4, <2>1 DEF CoordinatorInv, CoordinatorTypeOK, TryGlobalExclusive, NewLease
  <2>3. \A e \in LeaseDescriptor \ {d} : HoldersOf(e)' = HoldersOf(e)
    BY <2>1, GrantCounts DEF CoordinatorInv, CoordinatorTypeOK
  <2>4. Accounting'
    <3>1. \A v \in Conversations : GlobalShared(v) \in LeaseDescriptor \ {d}
      BY Descriptors DEF GlobalShared, GlobalExclusive
    <3>2. \A x \in Workspaces, v \in Conversations : WorkspaceShared(x, v) \in LeaseDescriptor \ {d}
      BY Descriptors DEF WorkspaceShared, GlobalExclusive
    <3> QED  BY <1>4, <2>3, <3>1, <3>2 DEF CoordinatorInv, CoordinatorTypeOK, Accounting, TryGlobalExclusive
  <2>5. MarksHeld'
    <3>1. Held = {}
      BY <1>4, AdmittedIsCompatible
         DEF TryGlobalExclusive, Compatible, Reads, IsWorkspace, GlobalExclusive
    <3> QED
      BY <1>4, <2>1, <3>1 DEF CoordinatorInv, CoordinatorTypeOK, MarksHeld, TryGlobalExclusive, NewLease, Held, GlobalExclusive
  <2> QED  BY <2>2, <2>4, <2>5
<1> QED  BY <1>1, <1>2, <1>3, <1>4 DEF Acquire

\* A drop keeps the invariant.
LEMMA DropKeepsInv ==
  ASSUME CoordinatorInv, NEW l \in Leases, Drop(l)
  PROVE  CoordinatorTypeOK' /\ Accounting' /\ MarksHeld'
<1> USE DEF CountType
<1>1. PICK d \in LeaseDescriptor :
         /\ d = leases[l]
         /\ leases' = [leases EXCEPT ![l] = NoLease]
         /\ l \in Held
  BY DEF CoordinatorInv, CoordinatorTypeOK, Held, Drop, DropGlobalShared, DropWorkspaceShared,
         DropWorkspacesExclusive, DropGlobalExclusive, Drops
<1>2. /\ d.attribution \in Conversations
      /\ d.workspaces \subseteq Workspaces
  BY <1>1, HeldDescriptor DEF CoordinatorInv
<1>3. Cardinality(HoldersOf(d)') = Cardinality(HoldersOf(d)) - 1
      /\ \A e \in LeaseDescriptor \ {d} : HoldersOf(e)' = HoldersOf(e)
  BY <1>1, DropCounts DEF CoordinatorInv, CoordinatorTypeOK
<1>4. Held' = Held \ {l} /\ \A k \in Held' : leases'[k] = leases[k]
  BY <1>1 DEF CoordinatorInv, CoordinatorTypeOK, Held
<1>5. \A k \in Held' : Compatible(leases[k], d)
  BY <1>1, <1>4 DEF CoordinatorInv, PairwiseCompatible
<1>6. leases' \in [Leases -> LeaseDescriptor \cup {NoLease}]
  BY <1>1 DEF CoordinatorInv, CoordinatorTypeOK
<1>7. CASE DropGlobalShared(l)
  <2>1. d.mode = "GlobalShared" /\ d = GlobalShared(d.attribution)
    BY <1>1, <1>7 DEF DropGlobalShared, Drops, LeaseDescriptor, GlobalShared, WorkspaceShared,
                      WorkspaceExclusive, GlobalExclusive
  <2>2. global_shared[d.attribution] > 0
    BY <1>1, <2>1, OwnShareRegistered DEF DropFindsItsOwn
  <2>3. CoordinatorTypeOK'
    BY <1>1, <1>2, <1>6, <1>7, <2>2 DEF CoordinatorInv, CoordinatorTypeOK, DropGlobalShared
  <2>4. Accounting'
    <3>1. \A v \in Conversations \ {d.attribution} : GlobalShared(v) \in LeaseDescriptor \ {d}
      BY <2>1, Descriptors, DescriptorFields
    <3>2. \A w \in Workspaces, v \in Conversations : WorkspaceShared(w, v) \in LeaseDescriptor \ {d}
      BY <2>1, Descriptors, DescriptorFields
    <3>3. global_shared[d.attribution] = Cardinality(HoldersOf(d))
      BY <1>2, <2>1 DEF CoordinatorInv, Accounting
    <3>4. global_shared' = [global_shared EXCEPT ![d.attribution] = @ - 1] /\ UNCHANGED workspaces
      BY <1>1, <1>7 DEF DropGlobalShared
    <3> QED  BY <1>2, <1>3, <2>1, <3>1, <3>2, <3>3, <3>4 DEF CoordinatorInv, CoordinatorTypeOK, Accounting
  <2>5. MarksHeld'
    BY <1>4, <1>7 DEF CoordinatorInv, MarksHeld, DropGlobalShared
  <2> QED  BY <2>3, <2>4, <2>5
<1>8. CASE DropWorkspaceShared(l)
  <2>1. PICK w \in d.workspaces :
           workspaces' = [workspaces EXCEPT ![w] =
              [workspaces[w] EXCEPT !.shared = [workspaces[w].shared EXCEPT ![d.attribution] = @ - 1]]]
    BY <1>1, <1>8 DEF DropWorkspaceShared
  <2>2. d.mode = "WorkspaceShared" /\ d = WorkspaceShared(w, d.attribution)
    BY <1>1, <1>8 DEF DropWorkspaceShared, Drops, LeaseDescriptor, GlobalShared, WorkspaceShared,
                      WorkspaceExclusive, GlobalExclusive
  <2>3. workspaces[w].shared[d.attribution] > 0
    BY <1>1, <2>2, OwnShareRegistered DEF DropFindsItsOwn
  <2>4. CoordinatorTypeOK'
    <3>1. [workspaces[w].shared EXCEPT ![d.attribution] = @ - 1] \in CountType
      BY <1>2, <2>3 DEF CoordinatorInv, CoordinatorTypeOK
    <3> HIDE DEF CountType
    <3> QED  BY ZenonT(60), <1>2, <1>6, <1>8, <2>1, <3>1 DEF CoordinatorInv, CoordinatorTypeOK, DropWorkspaceShared
  <2>5. Accounting'
    <3>1. \A v \in Conversations : GlobalShared(v) \in LeaseDescriptor \ {d}
      BY <2>2, Descriptors, DescriptorFields
    <3>2. \A x \in Workspaces, v \in Conversations :
             x # w \/ v # d.attribution => WorkspaceShared(x, v) \in LeaseDescriptor \ {d}
      BY <2>2, Descriptors, DescriptorFields
    <3>3. workspaces[w].shared[d.attribution] = Cardinality(HoldersOf(d))
      BY <1>2, <2>2 DEF CoordinatorInv, Accounting
    <3>4. UNCHANGED global_shared
      BY <1>8 DEF DropWorkspaceShared
    <3> QED  BY <1>2, <1>3, <2>1, <2>2, <3>1, <3>2, <3>3, <3>4 DEF CoordinatorInv, CoordinatorTypeOK, Accounting
  <2>6. MarksHeld'
    BY <1>2, <1>4, <1>8, <2>1, HeldDescriptor DEF CoordinatorInv, CoordinatorTypeOK, MarksHeld, DropWorkspaceShared
  <2> QED  BY <2>4, <2>5, <2>6
<1>9. CASE DropWorkspacesExclusive(l)
  <2>1. d.mode = "WorkspaceExclusive"
    BY <1>1, <1>9 DEF DropWorkspacesExclusive, Drops
  <2>2. CoordinatorTypeOK'
    BY <1>1, <1>6, <1>9 DEF CoordinatorInv, CoordinatorTypeOK, DropWorkspacesExclusive
  <2>3. Accounting'
    <3>1. \A v \in Conversations : GlobalShared(v) \in LeaseDescriptor \ {d}
      BY <2>1, Descriptors, DescriptorFields
    <3>2. \A x \in Workspaces, v \in Conversations : WorkspaceShared(x, v) \in LeaseDescriptor \ {d}
      BY <2>1, Descriptors, DescriptorFields
    <3> QED  BY <1>3, <1>9, <3>1, <3>2 DEF CoordinatorInv, CoordinatorTypeOK, Accounting, DropWorkspacesExclusive
  <2>4. MarksHeld'
    <3>1. \A k \in Held' : leases[k].mode = "WorkspaceExclusive" => leases[k].workspaces \cap d.workspaces = {}
      BY <1>5, <2>1 DEF Compatible, Reads
    <3> QED
      BY <1>1, <1>4, <1>9, <3>1, HeldDescriptor DEF CoordinatorInv, CoordinatorTypeOK, MarksHeld, DropWorkspacesExclusive
  <2> QED  BY <2>2, <2>3, <2>4
<1>10. CASE DropGlobalExclusive(l)
  <2>1. d.mode = "GlobalExclusive"
    BY <1>1, <1>10 DEF DropGlobalExclusive, Drops
  <2>2. CoordinatorTypeOK'
    BY <1>6, <1>10 DEF CoordinatorInv, CoordinatorTypeOK, DropGlobalExclusive
  <2>3. Accounting'
    <3>1. \A v \in Conversations : GlobalShared(v) \in LeaseDescriptor \ {d}
      BY <2>1, Descriptors, DescriptorFields
    <3>2. \A x \in Workspaces, v \in Conversations : WorkspaceShared(x, v) \in LeaseDescriptor \ {d}
      BY <2>1, Descriptors, DescriptorFields
    <3> QED  BY <1>3, <1>10, <3>1, <3>2 DEF CoordinatorInv, CoordinatorTypeOK, Accounting, DropGlobalExclusive
  <2>4. Held' = {}
    BY <1>5, <2>1 DEF Compatible, Reads, IsWorkspace
  <2> QED  BY <2>2, <2>3, <2>4 DEF MarksHeld
<1> QED  BY <1>7, <1>8, <1>9, <1>10 DEF Drop

-----------------------------------------------------------------------------
(* The counters always count the leases that are held, and any two of them  *)
(* are compatible.                                                          *)
THEOREM CoordinatorInvariant == CoordinatorSpec => []CoordinatorInv
<1>1. CoordinatorInit => CoordinatorInv
  <2> SUFFICES ASSUME CoordinatorInit PROVE CoordinatorInv
    OBVIOUS
  <2>1. Held = {} /\ \A d \in LeaseDescriptor : HoldersOf(d) = {}
    BY DescriptorIsLease DEF CoordinatorInit, Held, HoldersOf
  <2>2. CoordinatorTypeOK
    BY DEF CoordinatorInit, CoordinatorTypeOK, NoCount, IdleSlot, CountType
  <2>3. Accounting
    BY <2>1, Descriptors, FS_EmptySet DEF CoordinatorInit, Accounting, NoCount, IdleSlot
  <2> QED  BY <2>1, <2>2, <2>3 DEF CoordinatorInv, MarksHeld, PairwiseCompatible
<1>2. CoordinatorInv /\ [CoordinatorNext]_cvars => CoordinatorInv'
  <2> SUFFICES ASSUME CoordinatorInv, [CoordinatorNext]_cvars PROVE CoordinatorInv'
    OBVIOUS
  <2>1. PairwiseCompatible'
    BY StepIsTableStep, TableStepKeepsCompatible DEF CoordinatorInv, CoordinatorTypeOK
  <2>2. CASE UNCHANGED cvars
    BY <2>1, <2>2 DEF cvars, CoordinatorInv, CoordinatorTypeOK, Accounting, MarksHeld, Held, HoldersOf
  <2>3. CASE CoordinatorNext
    BY <2>1, <2>3, AcquireKeepsInv, DropKeepsInv DEF CoordinatorNext, CoordinatorInv
  <2> QED  BY <2>2, <2>3
<1> QED  BY <1>1, <1>2, PTL DEF CoordinatorSpec

(* No two leases that are held together conflict: the promise the callers   *)
(* of OperationGate rely on.                                                *)
THEOREM CoordinatorPairwiseCompatible == CoordinatorSpec => []PairwiseCompatible
<1>1. CoordinatorInv => PairwiseCompatible
  BY DEF CoordinatorInv
<1> QED  BY <1>1, CoordinatorInvariant, PTL

(* None of the debug assertions of `drop` can fire.                         *)
THEOREM CoordinatorDropFindsItsOwn == CoordinatorSpec => []DropFindsItsOwn
  BY OwnShareRegistered, CoordinatorInvariant, PTL

(* The coordinator implements the table of compatible leases.               *)
THEOREM CoordinatorImplementsTable == CoordinatorSpec => ImplementsLeaseTable
<1>1. CoordinatorInit => TableInit
  BY DEF CoordinatorInit, TableInit
<1> QED  BY <1>1, StepIsTableStep, CoordinatorInvariant, PTL DEF CoordinatorSpec, ImplementsLeaseTable, TableSpec

-----------------------------------------------------------------------------
(* Refusals.  The invariant above lets a mark outlive its lease; MarksOwned  *)
(* says that none does, and then a refusal has a holder to blame.            *)

\* An acquisition marks only what its own lease names.
LEMMA AcquireOwnsMarks ==
  ASSUME CoordinatorTypeOK, MarksOwned, NEW l \in Leases, NEW conv \in Conversations, Acquire(l, conv)
  PROVE  MarksOwned'
<1>1. ASSUME NEW d \in LeaseDescriptor, NewLease(l, d)
      PROVE  /\ l \in Held' /\ leases'[l] = d
             /\ \A k \in Held : k \in Held' /\ leases'[k] = leases[k]
  BY <1>1, DescriptorIsLease DEF CoordinatorTypeOK, NewLease, Held
<1>2. CASE TryGlobalShared(l, conv)
  BY <1>1, <1>2, Descriptors DEF TryGlobalShared, MarksOwned
<1>3. ASSUME NEW w \in Workspaces, TryWorkspaceShared(l, w, conv) PROVE MarksOwned'
  <2>1. \A k \in Held : k \in Held' /\ leases'[k] = leases[k]
    BY <1>1, <1>3, Descriptors DEF TryWorkspaceShared
  <2>2. \A x \in Workspaces : workspaces'[x].exclusive = workspaces[x].exclusive
    BY <1>3 DEF TryWorkspaceShared, CoordinatorTypeOK
  <2> QED  BY <1>3, <2>1, <2>2 DEF TryWorkspaceShared, MarksOwned
<1>4. ASSUME NEW ws \in (SUBSET Workspaces) \ {{}}, TryWorkspacesExclusive(l, ws, conv)
      PROVE  MarksOwned'
  <2>1. l \in Held' /\ leases'[l] = WorkspaceExclusive(ws, conv)
    BY <1>1, <1>4, Descriptors DEF TryWorkspacesExclusive
  <2>2. leases'[l].mode = "WorkspaceExclusive" /\ leases'[l].workspaces = ws
    BY <2>1 DEF WorkspaceExclusive
  <2>3. \A k \in Held : k \in Held' /\ leases'[k] = leases[k]
    BY <1>1, <1>4, Descriptors DEF TryWorkspacesExclusive
  <2>4. \A x \in Workspaces : x \notin ws => workspaces'[x].exclusive = workspaces[x].exclusive
    BY <1>4 DEF TryWorkspacesExclusive, CoordinatorTypeOK
  <2> QED  BY <1>4, <2>1, <2>2, <2>3, <2>4 DEF TryWorkspacesExclusive, MarksOwned
<1>5. CASE TryGlobalExclusive(l, conv)
  <2>1. l \in Held' /\ leases'[l] = GlobalExclusive(conv)
    BY <1>1, <1>5, Descriptors DEF TryGlobalExclusive
  <2>2. leases'[l].mode = "GlobalExclusive"
    BY <2>1 DEF GlobalExclusive
  <2>3. \A k \in Held : k \in Held' /\ leases'[k] = leases[k]
    BY <1>1, <1>5, Descriptors DEF TryGlobalExclusive
  <2> QED  BY <1>5, <2>1, <2>2, <2>3 DEF TryGlobalExclusive, MarksOwned
<1> QED  BY <1>2, <1>3, <1>4, <1>5 DEF Acquire

\* A drop clears every mark its lease owned.
LEMMA DropOwnsMarks ==
  ASSUME CoordinatorTypeOK, MarksOwned, NEW l \in Leases, Drop(l)
  PROVE  MarksOwned'
<1>1. \A k \in Held : k # l => k \in Held' /\ leases'[k] = leases[k]
  BY DEF CoordinatorTypeOK, Held, Drop, DropGlobalShared, DropWorkspaceShared,
         DropWorkspacesExclusive, DropGlobalExclusive, Drops
<1>2. CASE DropGlobalShared(l)
  BY <1>1, <1>2 DEF DropGlobalShared, Drops, MarksOwned
<1>3. CASE DropWorkspaceShared(l)
  <2>1. \A x \in Workspaces : workspaces'[x].exclusive = workspaces[x].exclusive
    BY <1>3 DEF DropWorkspaceShared, CoordinatorTypeOK
  <2> QED  BY <1>1, <1>3, <2>1 DEF DropWorkspaceShared, Drops, MarksOwned
<1>4. CASE DropWorkspacesExclusive(l)
  <2>1. \A x \in Workspaces :
          workspaces'[x].exclusive = IF x \in leases[l].workspaces THEN Nobody ELSE workspaces[x].exclusive
    BY <1>4 DEF DropWorkspacesExclusive, CoordinatorTypeOK
  <2> QED  BY <1>1, <1>4, <2>1 DEF DropWorkspacesExclusive, Drops, MarksOwned
<1>5. CASE DropGlobalExclusive(l)
  BY <1>1, <1>5 DEF DropGlobalExclusive, Drops, MarksOwned
<1> QED  BY <1>2, <1>3, <1>4, <1>5 DEF Drop

\* A descriptor nobody holds is counted as 0.
LEMMA NobodyCounts ==
  ASSUME NEW d \in LeaseDescriptor, \A k \in Held : leases[k] # d
  PROVE  Cardinality(HoldersOf(d)) = 0
<1>1. HoldersOf(d) = {}
  BY DescriptorIsLease DEF HoldersOf, Held
<1> QED  BY <1>1, FS_EmptySet

\* With no global reader the global counters are empty; with no reader and no
\* writer of a workspace its slot is.
LEMMA EmptyCounters ==
  ASSUME CoordinatorInv, MarksOwned
  PROVE  /\ (\A k \in Held : leases[k].mode # "GlobalShared") => global_shared = NoCount
         /\ \A w \in Workspaces :
              (\A k \in Held : IsWorkspace(leases[k]) => w \notin leases[k].workspaces) => IsIdle(w)
<1>1. ASSUME \A k \in Held : leases[k].mode # "GlobalShared" PROVE global_shared = NoCount
  <2>1. \A v \in Conversations : global_shared[v] = 0
    BY <1>1, NobodyCounts, Descriptors, DescriptorFields DEF CoordinatorInv, Accounting
  <2> QED  BY <2>1 DEF CoordinatorInv, CoordinatorTypeOK, CountType, NoCount
<1>2. ASSUME NEW w \in Workspaces,
             \A k \in Held : IsWorkspace(leases[k]) => w \notin leases[k].workspaces
      PROVE  IsIdle(w)
  <2>1. ASSUME NEW v \in Conversations PROVE workspaces[w].shared[v] = 0
    <3>1. \A k \in Held : leases[k] # WorkspaceShared(w, v)
      BY <1>2, DescriptorFields DEF IsWorkspace
    <3> QED  BY <3>1, NobodyCounts, Descriptors DEF CoordinatorInv, Accounting
  <2>2. workspaces[w].shared = NoCount
    BY <2>1 DEF CoordinatorInv, CoordinatorTypeOK, CountType, NoCount
  <2>3. workspaces[w].exclusive = Nobody
    BY <1>2 DEF MarksOwned, IsWorkspace
  <2> QED  BY <2>2, <2>3 DEF CoordinatorInv, CoordinatorTypeOK, IsIdle, IdleSlot
<1> QED  BY <1>1, <1>2

\* What is compatible with every holder is admitted.
LEMMA CompatibleIsAdmitted == CoordinatorInv /\ MarksOwned => RefusedOnlyByHolders
<1> SUFFICES ASSUME CoordinatorInv, MarksOwned PROVE RefusedOnlyByHolders
  OBVIOUS
<1> USE DEF Compatible, Reads, IsWorkspace
<1>1. ASSUME NEW conv \in Conversations, \A k \in Held : Compatible(GlobalShared(conv), leases[k])
      PROVE  AdmitsGlobalShared
  <2>1. \A k \in Held : leases[k].mode \in {"GlobalShared", "WorkspaceShared"}
    BY <1>1, DescriptorFields
  <2> QED  BY <2>1 DEF MarksOwned, AdmitsGlobalShared
<1>2. ASSUME NEW conv \in Conversations, NEW w \in Workspaces,
             \A k \in Held : Compatible(WorkspaceShared(w, conv), leases[k])
      PROVE  AdmitsWorkspaceShared(w)
  <2>1. \A k \in Held : \/ leases[k].mode \in {"GlobalShared", "WorkspaceShared"}
                        \/ leases[k].mode = "WorkspaceExclusive" /\ w \notin leases[k].workspaces
    BY <1>2, DescriptorFields
  <2> QED  BY <2>1 DEF MarksOwned, AdmitsWorkspaceShared
<1>3. ASSUME NEW conv \in Conversations, NEW ws \in (SUBSET Workspaces) \ {{}},
             \A k \in Held : Compatible(WorkspaceExclusive(ws, conv), leases[k])
      PROVE  AdmitsWorkspacesExclusive(ws)
  <2>1. WorkspaceExclusive(ws, conv).mode = "WorkspaceExclusive"
        /\ WorkspaceExclusive(ws, conv).workspaces = ws
    BY DEF WorkspaceExclusive
  <2>2. \A k \in Held : /\ leases[k].mode \in {"WorkspaceShared", "WorkspaceExclusive"}
                        /\ ws \cap leases[k].workspaces = {}
    BY <1>3, <2>1
  <2>3. global_shared = NoCount /\ \A w \in ws : IsIdle(w)
    BY <2>2, EmptyCounters
  <2> QED  BY <2>2, <2>3 DEF MarksOwned, AdmitsWorkspacesExclusive
<1>4. ASSUME NEW conv \in Conversations, \A k \in Held : Compatible(GlobalExclusive(conv), leases[k])
      PROVE  AdmitsGlobalExclusive
  <2>1. GlobalExclusive(conv).mode = "GlobalExclusive"
    BY DEF GlobalExclusive
  <2>2. Held = {}
    BY <1>4, <2>1
  <2>3. global_shared = NoCount /\ \A w \in Workspaces : IsIdle(w)
    BY <2>2, EmptyCounters
  <2> QED  BY <2>2, <2>3 DEF MarksOwned, AdmitsGlobalExclusive
<1> QED  BY <1>1, <1>2, <1>3, <1>4 DEF RefusedOnlyByHolders

(* An acquisition is refused only because of a lease that is held: no drop   *)
(* and no refused acquisition leaves a count or a mark behind.               *)
THEOREM CoordinatorRefusedOnlyByHolders == CoordinatorSpec => []RefusedOnlyByHolders
<1>1. CoordinatorInit => MarksOwned
  BY DEF CoordinatorInit, MarksOwned, IdleSlot
<1>2. CoordinatorInv /\ MarksOwned /\ [CoordinatorNext]_cvars => MarksOwned'
  <2> SUFFICES ASSUME CoordinatorInv, MarksOwned, [CoordinatorNext]_cvars PROVE MarksOwned'
    OBVIOUS
  <2>1. CASE UNCHANGED cvars
    BY <2>1 DEF cvars, MarksOwned, Held
  <2>2. CASE CoordinatorNext
    BY <2>2, AcquireOwnsMarks, DropOwnsMarks DEF CoordinatorNext, CoordinatorInv
  <2> QED  BY <2>1, <2>2
<1> QED  BY <1>1, <1>2, CoordinatorInvariant, CompatibleIsAdmitted, PTL DEF CoordinatorSpec

-----------------------------------------------------------------------------
(* Git reads: any number of calls and actions.                               *)

\* A call that is under way asked about the present state of the checkout,
\* because it holds the lease that keeps actions out.
AskedNow == \A c \in Holding : call[c].asked = checkout

\* The flight the map holds, once finished, tells the present state.
MapIsCurrent ==
  gitAction = "idle" /\ map # NoFlight /\ flight[map].kind = "ok" => flight[map].seen = checkout

\* A call waits for a flight whose outcome will be or is the present state.
JoinedIsCurrent ==
  \A c \in Calls : call[c].pc = "waiting" =>
    /\ call[c].joins \in Calls
    /\ flight[call[c].joins].kind = "ok" => flight[call[c].joins].seen = checkout

\* The reader of the flight in the map; every other flight is over.
ReaderOwnsMap ==
  \A c \in Calls :
    /\ call[c].pc = "reading" => map = c
    /\ call[c].pc \in {"idle", "reading"} => flight[c] = Pending
    /\ call[c].pc = "waiting" => map # c
    /\ map = c => call[c].pc # "idle" /\ (flight[c] = Pending => call[c].pc = "reading")

FlightInv == FlightTypeOK /\ AskedNow /\ MapIsCurrent /\ JoinedIsCurrent /\ ReaderOwnsMap /\ FreshAnswers

\* The three kinds of outcome, told apart by their tag.
LEMMA OutcomeKinds ==
  /\ Pending.kind = "pending" /\ Failed.kind = "err"
  /\ \A v : Read(v).kind = "ok" /\ Read(v).seen = v
  /\ \A o \in Outcome : o.kind = "ok" => o.seen \in 0..MaxWrites
  /\ \A o \in Outcome : o.kind = "pending" => o = Pending
  /\ Pending \in Outcome /\ Failed \in Outcome
  /\ \A v \in 0..MaxWrites : Read(v) \in Outcome
<1>1. /\ Pending.kind = "pending" /\ Failed.kind = "err"
      /\ \A v : Read(v).kind = "ok" /\ Read(v).seen = v
  BY DEF Pending, Failed, Read
<1>2. \A o \in Outcome : o = Pending \/ o = Failed \/ \E v \in 0..MaxWrites : o = Read(v)
  BY DEF Outcome
<1>3. /\ Pending \in Outcome /\ Failed \in Outcome
      /\ \A v \in 0..MaxWrites : Read(v) \in Outcome
  BY DEF Outcome
<1>4. \A o \in Outcome : o.kind = "ok" => o.seen \in 0..MaxWrites
  BY <1>1, <1>2
<1>5. \A o \in Outcome : o.kind = "pending" => o = Pending
  BY <1>1, <1>2
<1> QED BY <1>1, <1>3, <1>4, <1>5

\* Initially there are no calls, no flight and no action.
LEMMA FlightInitInv == FlightInit => FlightInv
  BY OutcomeKinds, GitFlightAssumption
     DEF FlightInit, FlightInv, FlightTypeOK, AskedNow, MapIsCurrent, JoinedIsCurrent, ReaderOwnsMap, FreshAnswers, Holding

\* The reader stores an error or the present state.
LEMMA SettleStep ==
  ASSUME FlightInv, NEW c \in Calls, NEW o \in Outcome, o.kind = "ok" => o.seen = checkout, o # Pending,
         SettleFlight(c, o)
  PROVE FlightInv'
<1>1. FlightTypeOK'
  BY ZenonT(60) DEF FlightInv, FlightTypeOK, SettleFlight, Holding
<1>2. AskedNow'
  BY DEF FlightInv, AskedNow, FlightTypeOK, SettleFlight, Holding
<1>3. MapIsCurrent'
  BY DEF FlightInv, MapIsCurrent, FlightTypeOK, SettleFlight
<1>4. JoinedIsCurrent'
  BY DEF FlightInv, JoinedIsCurrent, FlightTypeOK, SettleFlight
<1>5. ReaderOwnsMap'
  BY DEF FlightInv, ReaderOwnsMap, FlightTypeOK, SettleFlight
<1>6. FreshAnswers'
  BY GitFlightAssumption DEF FlightInv, FreshAnswers, AskedNow, FlightTypeOK, SettleFlight, Holding
<1> QED BY <1>1, <1>2, <1>3, <1>4, <1>5, <1>6 DEF FlightInv

\* A summary call joins a flight that tells the present state, or reads itself.
LEMMA AskStep ==
  ASSUME FlightInv, NEW c \in Calls, Summary(c)
  PROVE FlightInv'
<1> DEFINE joined == IF Retained(map) THEN map ELSE c
<1>0. /\ joined \in Calls
      /\ joined # c => Retained(map) /\ map = joined
  BY DEF Retained, FlightInv, FlightTypeOK
<1>a. joined = c => ~Retained(map)
  BY DEF Retained, FlightInv, FlightTypeOK, ReaderOwnsMap, Summary
<1>b. /\ call' = [call EXCEPT ![c] = [@ EXCEPT !.pc = IF joined = c THEN "reading" ELSE "waiting",
                                               !.asked = checkout, !.joins = joined]]
      /\ map' = joined
      /\ UNCHANGED <<checkout, gitAction, flight, fresh>>
      /\ gitAction = "idle" /\ call[c].pc = "idle"
  BY DEF Summary
<1> HIDE DEF joined
<1>1. FlightTypeOK'
  <2>1. call'[c] = [call[c] EXCEPT !.pc = IF joined = c THEN "reading" ELSE "waiting",
                                   !.asked = checkout, !.joins = joined]
    BY <1>b DEF FlightInv, FlightTypeOK
  <2>2. call'[c] \in [pc : {"idle", "reading", "waiting", "done"}, asked : 0..MaxWrites,
                      joins : Calls \cup {NoFlight}, answer : Outcome]
    BY <2>1, <1>0 DEF FlightInv, FlightTypeOK
  <2>3. gitAction' = "idle"
    BY <1>b
  <2> QED BY <2>2, <2>3, <1>0, <1>b DEF FlightInv, FlightTypeOK
<1>2. AskedNow'
  BY <1>b DEF FlightInv, AskedNow, FlightTypeOK, Holding
<1>3. MapIsCurrent'
  BY <1>0, <1>b, OutcomeKinds DEF FlightInv, MapIsCurrent, ReaderOwnsMap, FlightTypeOK
<1>4. JoinedIsCurrent'
  BY <1>0, <1>b, OutcomeKinds DEF FlightInv, JoinedIsCurrent, MapIsCurrent, FlightTypeOK, Retained
<1>5. ReaderOwnsMap'
  <2>1. \A d \in Calls : call[d].pc # "reading" \/ Retained(map)
    BY GitFlightAssumption DEF FlightInv, ReaderOwnsMap, Retained
  <2> QED BY <2>1, <1>0, <1>a, <1>b, GitFlightAssumption DEF FlightInv, ReaderOwnsMap, FlightTypeOK, Retained
<1>6. FreshAnswers'
  BY <1>b DEF FlightInv, FreshAnswers, FlightTypeOK
<1> QED BY <1>1, <1>2, <1>3, <1>4, <1>5, <1>6 DEF FlightInv

\* A waiter is woken with the outcome of the flight it joined.
LEMMA WakeStep ==
  ASSUME FlightInv, NEW c \in Calls, Wake(c)
  PROVE FlightInv'
<1>1. FlightTypeOK'
  BY ZenonT(60) DEF FlightInv, FlightTypeOK, JoinedIsCurrent, Wake, Holding
<1>2. AskedNow' /\ MapIsCurrent' /\ JoinedIsCurrent'
  BY DEF FlightInv, AskedNow, MapIsCurrent, JoinedIsCurrent, FlightTypeOK, Wake, Holding
<1>3. ReaderOwnsMap'
  BY DEF FlightInv, ReaderOwnsMap, FlightTypeOK, Wake
<1>4. FreshAnswers'
  BY DEF FlightInv, FreshAnswers, AskedNow, JoinedIsCurrent, FlightTypeOK, Wake, Holding
<1> QED BY <1>1, <1>2, <1>3, <1>4 DEF FlightInv

\* An action runs while no call is under way, and forgets the flight.
LEMMA GitActionStep ==
  ASSUME FlightInv, ExecuteAction \/ Forget
  PROVE FlightInv'
<1>1. CASE ExecuteAction
  <2>1. FlightTypeOK' /\ AskedNow' /\ MapIsCurrent'
    BY <1>1, GitFlightAssumption DEF FlightInv, FlightTypeOK, AskedNow, MapIsCurrent, ExecuteAction, Holding
  <2>2. JoinedIsCurrent'
    BY <1>1 DEF FlightInv, JoinedIsCurrent, FlightTypeOK, ExecuteAction, Holding
  <2>3. ReaderOwnsMap' /\ FreshAnswers'
    BY <1>1 DEF FlightInv, ReaderOwnsMap, FreshAnswers, ExecuteAction
  <2> QED BY <2>1, <2>2, <2>3 DEF FlightInv
<1>2. CASE Forget
  <2>1. FlightTypeOK' /\ AskedNow' /\ MapIsCurrent' /\ JoinedIsCurrent' /\ FreshAnswers'
    BY <1>2 DEF FlightInv, FlightTypeOK, AskedNow, MapIsCurrent, JoinedIsCurrent, FreshAnswers, Forget, Holding
  <2>2. ReaderOwnsMap'
    BY <1>2, GitFlightAssumption DEF FlightInv, ReaderOwnsMap, FlightTypeOK, Forget, Holding
  <2> QED BY <2>1, <2>2 DEF FlightInv
<1> QED BY <1>1, <1>2

\* Every step keeps the invariant.
LEMMA FlightNextInv == FlightInv /\ [FlightNext]_fvars => FlightInv'
<1> SUFFICES ASSUME FlightInv, [FlightNext]_fvars PROVE FlightInv'
  OBVIOUS
<1>1. CASE \E c \in Calls : Summary(c)
  BY <1>1, AskStep
<1>2. CASE \E c \in Calls : ReadSucceeds(c)
  <2>1. PICK c \in Calls : SettleFlight(c, Read(checkout))
    BY <1>2 DEF ReadSucceeds
  <2>2. Read(checkout) \in Outcome /\ Read(checkout).seen = checkout /\ Read(checkout) # Pending
    BY OutcomeKinds DEF FlightInv, FlightTypeOK
  <2> QED BY <2>1, <2>2, SettleStep
<1>3. CASE \E c \in Calls : ReadFails(c) \/ ReaderPanics(c)
  <2>1. PICK c \in Calls : SettleFlight(c, Failed)
    BY <1>3 DEF ReadFails, ReaderPanics
  <2>2. Failed \in Outcome /\ Failed.kind # "ok" /\ Failed # Pending
    BY OutcomeKinds
  <2> QED BY <2>1, <2>2, SettleStep
<1>4. CASE \E c \in Calls : Wake(c)
  BY <1>4, WakeStep
<1>5. CASE \E c \in Calls : Expire(c)
  BY <1>5 DEF Expire, FlightInv, FlightTypeOK, AskedNow, MapIsCurrent, JoinedIsCurrent, ReaderOwnsMap, FreshAnswers, Holding
<1>6. CASE ExecuteAction \/ Forget
  BY <1>6, GitActionStep
<1>7. CASE UNCHANGED fvars
  BY <1>7 DEF fvars, FlightInv, FlightTypeOK, AskedNow, MapIsCurrent, JoinedIsCurrent, ReaderOwnsMap, FreshAnswers, Holding
<1> QED BY <1>1, <1>2, <1>3, <1>4, <1>5, <1>6, <1>7 DEF FlightNext, CallStep

\* The inductive invariant holds in every reachable state.
THEOREM GitFlightInvariant == FlightSpec => []FlightInv
  BY FlightInitInv, FlightNextInv, PTL DEF FlightSpec

\* git_flight.rs: nobody who asks after a Git action is answered with the
\* state from before it, for any number of callers and actions.
THEOREM GitFlightFresh == FlightSpec => []FreshAnswers
<1>1. FlightInv => FreshAnswers
  BY DEF FlightInv
<1> QED BY <1>1, GitFlightInvariant, PTL

\* Two reads of one checkout never run at the same time.
THEOREM GitFlightOneRead == FlightSpec => []OneRead
<1>1. FlightInv => OneRead
  BY DEF FlightInv, ReaderOwnsMap, OneRead
<1> QED BY <1>1, GitFlightInvariant, PTL

-----------------------------------------------------------------------------
(* The document store: any documents and any number of callers, when every   *)
(* flush holds storage_lock, nobody edits the file and a failed write leaves *)
(* the file alone.                                                           *)

\* What the theorems assume of the callers and of the file system.
Desktop == Barriers = {} /\ ~ExternalEdits /\ ~SyncMayFail

Writing(c) == caller[c].pc \in {"writing", "saved", "failed"}

\* A command in progress holds storage_lock alone, and only one that writes
\* does so as the end of a commit.
Exclusive ==
  \A c \in Callers : (~Resting(c) => lock = {c}) /\ (caller[c].commit => Writing(c))

\* Only the newest commit is queued; the writer's job is newest unless a newer
\* one is queued, and its result is what the file holds.
QueueInv ==
  /\ pending # NoDoc => pending = snapshot /\ writer.pc # "none"
  /\ InFlight => writer.job \in Docs
  /\ InFlight /\ pending = NoDoc => writer.job = snapshot
  /\ writer.pc = "saved" => disk = writer.job

\* A synchronous write is the only write, and it writes the snapshot.
SyncInv ==
  \A c \in Callers : Writing(c) =>
    /\ caller[c].job = snapshot /\ Quiet
    /\ caller[c].pc = "saved" => disk = snapshot
    /\ caller[c].commit /\ caller[c].pc # "saved" => seen
    /\ ~caller[c].commit => writer.pc # "none"

\* The fingerprint never vouches for a content the file does not have.
CacheInv == cache # NoDoc => cache = disk

\* With no write left to do the file has been looked at, and unless an error
\* is outstanding it holds the snapshot.
IdleInv ==
  Quiet /\ (\A c \in Callers : ~Writing(c)) => seen /\ (~error => disk = snapshot)

OwedInv == \A c \in Callers : ~Resting(c) => snapshot \in owed[c]

StoreInv ==
  /\ StoreTypeOK /\ Exclusive /\ QueueInv /\ SyncInv /\ CacheInv /\ IdleInv
  /\ OwedInv /\ NoCommitLost

\* StoreInit establishes the invariant.
LEMMA StoreInitInv == StoreInit => StoreInv
<1>. SUFFICES ASSUME StoreInit PROVE StoreInv
  OBVIOUS
<1>1. \A c \in Callers : caller[c] = Rest("idle")
  BY DEF StoreInit
<1>2. StoreTypeOK
  <2>1. Rest("idle") \in CallerRecord
    BY DEF Rest, CallerRecord
  <2>. QED BY <2>1, DocumentStoreAssumption DEF StoreInit, StoreTypeOK, Job
<1>3. \A c \in Callers : Resting(c) /\ ~Writing(c) /\ ~caller[c].commit
  BY <1>1 DEF Rest, Resting, Writing
<1>. QED
  BY <1>2, <1>3 DEF StoreInit, StoreInv, Exclusive, QueueInv, SyncInv, CacheInv, IdleInv, OwedInv,
                    NoCommitLost, InFlight, Quiet

\* Every command in progress shares storage_lock with nobody.
LEMMA Alone ==
  ASSUME Exclusive, NEW c \in Callers, ~Resting(c)
  PROVE  /\ lock = {c}
         /\ \A x \in Callers \ {c} : Resting(x) /\ ~Writing(x)
BY DEF Exclusive, Resting, Writing

\* How a caller leaves a flush or ends a write of its own.
Leaves(c) ==
  /\ caller' \in [Callers -> CallerRecord]
  /\ ~Writing(c)' /\ ~caller'[c].commit
  /\ Resting(c)' \/ lock' = {c}
  /\ \A x \in Callers \ {c} : caller'[x] = caller[x]
  /\ lock' \in SUBSET Callers

\* The caller's next state after flush has a result (flush's callers in
\* save_document and reset_document).
LEMMA ReturnLeaves ==
  ASSUME StoreTypeOK, NEW c \in Callers, lock = {c}, ~caller[c].commit, NEW ok \in BOOLEAN, Return(c, ok)
  PROVE  Leaves(c) /\ (caller'[c].pc \in {"ok", "purging"} => ok)
<1>1. CASE ok /\ caller[c].kind = "reset"
  <2>1. caller' = [caller EXCEPT ![c].pc = "purging"] /\ lock' = lock
    BY <1>1 DEF Return
  <2>2. caller' \in [Callers -> CallerRecord]
    BY <2>1 DEF StoreTypeOK, CallerRecord
  <2>3. caller'[c].pc = "purging" /\ ~caller'[c].commit
    BY <2>1 DEF StoreTypeOK, CallerRecord
  <2>. QED BY <1>1, <2>1, <2>2, <2>3 DEF Leaves, Writing, StoreTypeOK
<1>2. CASE ~(ok /\ caller[c].kind = "reset")
  <2> DEFINE pc == IF ok THEN "ok" ELSE "error"
  <2>1. caller' = [caller EXCEPT ![c] = Rest(pc)] /\ lock' = lock \ {c}
    BY <1>2 DEF Return
  <2>2. Rest(pc) \in CallerRecord /\ Rest(pc).pc = pc /\ ~Rest(pc).commit
    BY DEF Rest, CallerRecord
  <2>3. caller' \in [Callers -> CallerRecord] /\ caller'[c] = Rest(pc)
    BY <2>1, <2>2 DEF StoreTypeOK
  <2>. QED BY <2>1, <2>2, <2>3 DEF Leaves, Writing, Resting, StoreTypeOK
<1>. QED BY <1>1, <1>2

\* A commit while no other command is in progress keeps the invariant
\* (commit_inner).
LEMMA CommitStep ==
  ASSUME Desktop, StoreInv, NEW c \in Callers, NEW d \in Docs,
         NEW kind \in {"save", "durable", "seed"},
         CommitToWriter(c, d, kind) \/ CommitWithoutWriter(c, d, kind),
         ~Writing(c), \A x \in Callers \ {c} : Resting(x),
         owed' = [[x \in Callers |-> owed[x] \cup {d}] EXCEPT ![c] = {d}],
         cache' \in {cache, NoDoc}, UNCHANGED <<seen, disk>>
  PROVE  StoreInv'
<1>1. \A x \in Callers : ~Writing(x)
  BY DEF Resting, Writing
<1>2. /\ d # NoDoc
      /\ snapshot' = d /\ committed' = d /\ error' = FALSE
      /\ disk' = disk /\ cache' \in {cache, NoDoc} /\ seen' = seen
      /\ owed' \in [Callers -> SUBSET Docs] /\ d \in owed'[c]
  BY DocumentStoreAssumption DEF CommitToWriter, CommitWithoutWriter, PublishSnapshot, StoreInv, StoreTypeOK
<1>3. CASE CommitToWriter(c, d, kind)
  <2>1. /\ After(kind) \in CallerRecord /\ ~After(kind).commit
        /\ After(kind).pc \in {"idle", "waiting"}
        /\ kind = "save" => After(kind).pc = "idle"
    BY DEF After, Rest, CallerRecord
  <2>2. /\ pending' = d
        /\ writer' \in Job /\ writer'.job = writer.job /\ writer'.pc # "none"
        /\ writer.pc = "none" => writer'.pc = "idle"
        /\ writer.pc # "none" => writer'.pc = writer.pc
    BY <1>3 DEF CommitToWriter, StoreInv, StoreTypeOK, Job
  <2>3. /\ caller' \in [Callers -> CallerRecord]
        /\ caller'[c] = After(kind)
        /\ \A x \in Callers \ {c} : caller'[x] = caller[x]
    BY <1>3, <2>1 DEF CommitToWriter, StoreInv, StoreTypeOK
  <2>4. \A x \in Callers : ~Writing(x)' /\ ~caller'[x].commit /\ (x # c => Resting(x)')
    BY <1>1, <2>1, <2>3 DEF Writing, Resting, StoreInv, Exclusive
  <2>5. lock' \in SUBSET Callers /\ (Resting(c)' \/ lock' = {c})
    BY <1>3, <2>1, <2>3 DEF CommitToWriter, Resting
  <2>6. StoreTypeOK'
    BY <1>2, <2>2, <2>3, <2>5 DEF StoreTypeOK, StoreInv
  <2>7. QueueInv'
    BY <1>2, <2>2 DEF QueueInv, InFlight, StoreInv, StoreTypeOK, Job
  <2>. QED
    BY <1>2, <2>2, <2>4, <2>5, <2>6, <2>7
    DEF StoreInv, Exclusive, SyncInv, CacheInv, IdleInv, OwedInv, NoCommitLost, Quiet
<1>4. CASE CommitWithoutWriter(c, d, kind)
  <2>1. writer.pc = "none" /\ writer' = writer /\ pending' = NoDoc /\ lock' = {c}
    BY <1>4 DEF CommitWithoutWriter
  <2>2. pending = NoDoc /\ seen
    BY <1>1, <2>1 DEF StoreInv, QueueInv, IdleInv, Quiet, InFlight
  <2> DEFINE r == [pc |-> "writing", kind |-> kind, job |-> d, commit |-> TRUE]
  <2>3. r \in CallerRecord
    BY DEF CallerRecord
  <2>4. caller' = [caller EXCEPT ![c] = r]
    BY <1>4 DEF CommitWithoutWriter
  <2>5. /\ caller' \in [Callers -> CallerRecord]
        /\ caller'[c].pc = "writing" /\ caller'[c].job = d /\ caller'[c].commit
        /\ \A x \in Callers \ {c} : caller'[x] = caller[x]
    BY <2>3, <2>4 DEF StoreInv, StoreTypeOK
  <2>6. \A x \in Callers \ {c} : Resting(x)' /\ ~Writing(x)' /\ ~caller'[x].commit
    BY <1>1, <2>5 DEF Resting, Writing, StoreInv, Exclusive
  <2>7. StoreTypeOK'
    BY <1>2, <2>1, <2>5 DEF StoreTypeOK, StoreInv
  <2>8. ~InFlight' /\ Quiet'
    BY <2>1 DEF InFlight, Quiet
  <2>. QED
    BY <1>2, <2>1, <2>2, <2>5, <2>6, <2>7, <2>8
    DEF StoreInv, Exclusive, QueueInv, SyncInv, CacheInv, IdleInv, OwedInv, NoCommitLost, Writing, InFlight
<1>. QED BY <1>3, <1>4

\* The start of a command keeps the invariant (save_document, reset_document).
LEMMA StartStep ==
  ASSUME Desktop, StoreInv, NEW c \in Callers,
         \/ \E d \in Docs, kind \in {"save", "durable"} : Save(c, d, kind)
         \/ Reset(c)
  PROVE  StoreInv'
<1>1. lock = {}
  BY DEF Save, Reset
<1>2. \A x \in Callers : Resting(x) /\ ~Writing(x) /\ ~caller[x].commit
  BY <1>1 DEF StoreInv, Exclusive, Resting, Writing
<1>3. CASE \E d \in Docs, kind \in {"save", "durable"} : Save(c, d, kind)
  BY <1>2, <1>3, CommitStep DEF Save
<1>4. CASE Reset(c)
  <2>1. After("reset") \in CallerRecord /\ ~After("reset").commit /\ After("reset").pc = "waiting"
    BY DEF After, Rest, CallerRecord
  <2>2. /\ caller' \in [Callers -> CallerRecord]
        /\ caller'[c] = After("reset")
        /\ \A x \in Callers \ {c} : caller'[x] = caller[x]
        /\ owed' \in [Callers -> SUBSET Docs] /\ snapshot \in owed'[c]
    BY <1>4, <2>1 DEF Reset, StoreInv, StoreTypeOK
  <2>3. \A x \in Callers : ~Writing(x)' /\ ~caller'[x].commit /\ (x # c => Resting(x)')
    BY <1>2, <2>1, <2>2 DEF Writing, Resting
  <2>. QED
    BY <1>2, <1>4, <2>2, <2>3
    DEF Reset, StoreInv, StoreTypeOK, Exclusive, QueueInv, SyncInv, CacheInv, IdleInv, OwedInv, NoCommitLost,
        Quiet, InFlight
<1>. QED BY <1>3, <1>4

\* Committing the seed keeps the invariant (reset_document).
LEMMA ResetCommitStep ==
  ASSUME Desktop, StoreInv, NEW c \in Callers, ResetCommit(c)
  PROVE  StoreInv'
<1>1. ~Resting(c) /\ ~Writing(c) /\ ~caller[c].commit
  BY DEF ResetCommit, Resting, Writing, StoreInv, Exclusive
<1>2. lock = {c} /\ \A x \in Callers \ {c} : Resting(x) /\ ~Writing(x) /\ ~caller[x].commit
  BY <1>1, Alone DEF StoreInv, Exclusive
<1>3. Seed \in Docs /\ Seed # NoDoc
  BY DocumentStoreAssumption
<1>4. CASE CommitToWriter(c, Seed, "seed") \/ CommitWithoutWriter(c, Seed, "seed")
  BY <1>1, <1>2, <1>3, <1>4, CommitStep DEF ResetCommit
<1>5. CASE /\ PublishSnapshot(Seed) /\ pending' = Seed
           /\ caller' = [caller EXCEPT ![c] = Rest("error")] /\ lock' = {}
           /\ writer' = [writer EXCEPT !.pc = IF @ = "none" THEN "idle" ELSE @]
  <2>1. Rest("error") \in CallerRecord /\ ~Rest("error").commit /\ Rest("error").pc = "error"
    BY DEF Rest, CallerRecord
  <2>2. /\ caller' \in [Callers -> CallerRecord]
        /\ caller'[c] = Rest("error")
        /\ \A x \in Callers \ {c} : caller'[x] = caller[x]
    BY <1>5, <2>1 DEF StoreInv, StoreTypeOK
  <2>3. \A x \in Callers : ~Writing(x)' /\ ~caller'[x].commit /\ Resting(x)'
    BY <1>2, <2>1, <2>2 DEF Writing, Resting
  <2>4. /\ snapshot' = Seed /\ committed' = Seed /\ error' = FALSE /\ pending' = Seed /\ lock' = {}
        /\ disk' = disk /\ cache' = NoDoc /\ seen' = seen
        /\ owed' \in [Callers -> SUBSET Docs]
    BY <1>3, <1>5 DEF ResetCommit, PublishSnapshot, StoreInv, StoreTypeOK
  <2>5. /\ writer' \in Job /\ writer'.job = writer.job /\ writer'.pc # "none"
        /\ writer.pc = "none" => writer'.pc = "idle"
        /\ writer.pc # "none" => writer'.pc = writer.pc
    BY <1>5 DEF StoreInv, StoreTypeOK, Job
  <2>6. StoreTypeOK'
    BY <1>3, <2>2, <2>4, <2>5 DEF StoreTypeOK, StoreInv
  <2>7. QueueInv'
    BY <1>3, <2>4, <2>5 DEF QueueInv, InFlight, StoreInv, StoreTypeOK, Job
  <2>. QED
    BY <1>3, <2>3, <2>4, <2>6, <2>7
    DEF StoreInv, Exclusive, SyncInv, CacheInv, IdleInv, OwedInv, NoCommitLost, Quiet
<1>. QED BY <1>4, <1>5 DEF ResetCommit

\* A flush that returns or gives up keeps the invariant, and it succeeds only
\* when the file holds the snapshot (flush).
LEMMA FlushStep ==
  ASSUME Desktop, StoreInv, NEW c \in Callers, FlushReturns(c) \/ FlushTimesOut(c)
  PROVE  StoreInv' /\ (caller'[c].pc \in {"ok", "purging"} => disk = snapshot)
<1>1. ~Resting(c) /\ ~Writing(c) /\ ~caller[c].commit
  BY DEF FlushReturns, FlushTimesOut, Resting, Writing, StoreInv, Exclusive
<1>2. lock = {c} /\ \A x \in Callers \ {c} : Resting(x) /\ ~Writing(x) /\ ~caller[x].commit
  BY <1>1, Alone DEF StoreInv, Exclusive
<1>3. ASSUME NEW ok \in BOOLEAN, Return(c, ok), UNCHANGED <<store, file, seen, pending, error, writer>>
      PROVE  StoreInv' /\ (caller'[c].pc \in {"ok", "purging"} => ok)
  <2>1. Leaves(c) /\ (caller'[c].pc \in {"ok", "purging"} => ok)
    BY <1>1, <1>2, <1>3, ReturnLeaves DEF StoreInv
  <2>2. /\ snapshot' = snapshot /\ committed' = committed /\ owed' = owed
        /\ disk' = disk /\ cache' = cache /\ seen' = seen
        /\ pending' = pending /\ error' = error /\ writer' = writer
    BY <1>3 DEF store, file
  <2>3. \A x \in Callers : ~Writing(x)' /\ ~caller'[x].commit /\ (x # c => Resting(x)')
    BY <1>2, <2>1 DEF Leaves, Writing, Resting
  <2>4. StoreTypeOK'
    BY <2>1, <2>2 DEF Leaves, StoreTypeOK, StoreInv
  <2>. QED
    BY <1>1, <1>2, <2>1, <2>2, <2>3, <2>4
    DEF Leaves, StoreInv, Exclusive, QueueInv, SyncInv, CacheInv, IdleInv, OwedInv, NoCommitLost, Quiet, InFlight
<1>4. CASE FlushReturns(c)
  <2>1. (~error) \in BOOLEAN
    BY DEF StoreInv, StoreTypeOK
  <2>2. StoreInv' /\ (caller'[c].pc \in {"ok", "purging"} => ~error)
    BY <1>3, <1>4, <2>1 DEF FlushReturns
  <2>3. ~error => disk = snapshot
    BY <1>1, <1>2, <1>4 DEF FlushReturns, StoreInv, IdleInv
  <2>. QED BY <2>2, <2>3
<1>5. CASE FlushTimesOut(c) /\ InFlight
  BY <1>3, <1>5 DEF FlushTimesOut
<1>6. CASE FlushTimesOut(c) /\ ~InFlight
  <2>1. /\ caller' = [caller EXCEPT ![c].pc = "writing", ![c].job = pending]
        /\ pending' = NoDoc /\ lock' = lock
        /\ snapshot' = snapshot /\ committed' = committed /\ owed' = owed
        /\ disk' = disk /\ cache' = cache /\ seen' = seen /\ error' = error /\ writer' = writer
    BY <1>6 DEF FlushTimesOut, store, file
  <2>2. pending # NoDoc /\ pending = snapshot /\ writer.pc # "none"
    BY <1>6 DEF FlushTimesOut, Quiet, StoreInv, QueueInv
  <2> DEFINE r == [caller[c] EXCEPT !.pc = "writing", !.job = pending]
  <2>3. caller[c] \in CallerRecord /\ pending \in Docs
    BY <2>2 DEF StoreInv, StoreTypeOK
  <2>4. r \in CallerRecord
    BY <2>3 DEF CallerRecord
  <2>5. r.pc = "writing" /\ r.job = pending /\ r.commit = caller[c].commit
    BY <2>3 DEF CallerRecord
  <2>6. caller' = [caller EXCEPT ![c] = r]
    BY <2>1 DEF StoreInv, StoreTypeOK
  <2>7. /\ caller' \in [Callers -> CallerRecord] /\ caller'[c] = r
        /\ \A x \in Callers \ {c} : caller'[x] = caller[x]
    BY <2>4, <2>6 DEF StoreInv, StoreTypeOK
  <2>8. caller'[c].pc = "writing" /\ caller'[c].job = snapshot /\ ~caller'[c].commit
    BY <1>1, <2>2, <2>5, <2>7
  <2>9. \A x \in Callers \ {c} : Resting(x)' /\ ~Writing(x)' /\ ~caller'[x].commit
    BY <1>2, <2>7 DEF Resting, Writing
  <2>10. StoreTypeOK'
    BY <2>1, <2>7 DEF StoreTypeOK, StoreInv
  <2>11. ~InFlight' /\ Quiet'
    BY <1>6, <2>1 DEF InFlight, Quiet
  <2>. QED
    BY <1>1, <1>2, <2>1, <2>2, <2>7, <2>8, <2>9, <2>10, <2>11
    DEF StoreInv, Exclusive, QueueInv, SyncInv, CacheInv, IdleInv, OwedInv, NoCommitLost, Writing, InFlight
<1>. QED BY <1>4, <1>5, <1>6

\* A synchronous write keeps the invariant (save_unchecked under flush or
\* commit_inner).
LEMMA SyncSaveStep ==
  ASSUME Desktop, StoreInv, NEW c \in Callers, NEW ok \in BOOLEAN, SyncSave(c, ok)
  PROVE  StoreInv' /\ caller'[c].pc \in {"saved", "failed"}
<1>1. /\ ~Resting(c) /\ Writing(c)
      /\ caller[c].job = snapshot /\ Quiet /\ snapshot \in Docs /\ snapshot # NoDoc
      /\ caller[c].commit => seen
      /\ ~caller[c].commit => writer.pc # "none"
  BY DocumentStoreAssumption DEF SyncSave, Resting, Writing, StoreInv, SyncInv, StoreTypeOK
<1>2. lock = {c} /\ \A x \in Callers \ {c} : Resting(x) /\ ~Writing(x) /\ ~caller[x].commit
  BY <1>1, Alone DEF StoreInv, Exclusive
<1>3. /\ snapshot' = snapshot /\ committed' = committed /\ owed' = owed
      /\ pending' = pending /\ error' = error /\ writer' = writer /\ lock' = lock
  BY DEF SyncSave, store
<1>4. /\ disk' \in Docs /\ cache' \in Docs \cup {NoDoc} /\ seen' \in BOOLEAN
      /\ ok => disk' = snapshot
      /\ ~ok => seen' = seen
      /\ cache' # NoDoc => cache' = disk'
  BY <1>1 DEF SyncSave, SaveUnchecked, Desktop, StoreInv, StoreTypeOK, CacheInv
<1>5. /\ caller' \in [Callers -> CallerRecord]
      /\ caller'[c].pc = IF ok THEN "saved" ELSE "failed"
      /\ caller'[c].job = snapshot /\ caller'[c].commit = caller[c].commit
      /\ \A x \in Callers \ {c} : caller'[x] = caller[x]
  <2>1. caller' = [caller EXCEPT ![c].pc = IF ok THEN "saved" ELSE "failed"]
    BY DEF SyncSave
  <2>2. caller' \in [Callers -> CallerRecord]
    BY <2>1 DEF StoreInv, StoreTypeOK, CallerRecord
  <2>. QED BY <1>1, <2>1, <2>2 DEF StoreInv, StoreTypeOK, CallerRecord
<1>6. Writing(c)' /\ ~Resting(c)' /\ \A x \in Callers \ {c} : Resting(x)' /\ ~Writing(x)' /\ ~caller'[x].commit
  BY <1>2, <1>5 DEF Resting, Writing
<1>7. StoreTypeOK'
  BY <1>3, <1>4, <1>5 DEF StoreTypeOK, StoreInv
<1>8. Quiet' /\ ~InFlight'
  BY <1>1, <1>3 DEF Quiet, InFlight
<1>9. SyncInv'
  BY <1>1, <1>3, <1>4, <1>5, <1>6, <1>8 DEF SyncInv
<1>. QED
  BY <1>1, <1>2, <1>3, <1>4, <1>5, <1>6, <1>7, <1>8, <1>9
  DEF StoreInv, Exclusive, QueueInv, CacheInv, IdleInv, OwedInv, NoCommitLost, InFlight, Quiet

\* The end of a synchronous write keeps the invariant, and a flush that took
\* the write over succeeds only when the file holds the snapshot.
LEMMA SyncEndStep ==
  ASSUME Desktop, StoreInv, NEW c \in Callers, FlushTakeoverEnds(c) \/ CommitWriteEnds(c)
  PROVE  StoreInv' /\ (caller'[c].pc \in {"ok", "purging"} => disk = snapshot)
<1> DEFINE ok == caller[c].pc = "saved"
<1>1. /\ ~Resting(c) /\ Writing(c)
      /\ caller[c].job = snapshot /\ Quiet /\ snapshot \in Docs /\ snapshot # NoDoc
      /\ ok => disk = snapshot
      /\ caller[c].commit /\ ~ok => seen
      /\ ~caller[c].commit => writer.pc # "none"
  BY DocumentStoreAssumption
  DEF FlushTakeoverEnds, CommitWriteEnds, Resting, Writing, StoreInv, SyncInv, StoreTypeOK
<1>2. lock = {c} /\ \A x \in Callers \ {c} : Resting(x) /\ ~Writing(x) /\ ~caller[x].commit
  BY <1>1, Alone DEF StoreInv, Exclusive
<1>3. /\ snapshot' = snapshot /\ committed' = committed /\ owed' = owed
      /\ disk' = disk /\ cache' = cache /\ writer' = writer
  BY DEF FlushTakeoverEnds, CommitWriteEnds, store, file
<1>4. ASSUME Leaves(c), error' \in BOOLEAN, seen' \in BOOLEAN, pending' \in {NoDoc, snapshot},
             pending' # NoDoc => writer.pc # "none",
             pending' = NoDoc => seen' /\ (~error' => disk = snapshot)
      PROVE  StoreInv'
  <2>1. \A x \in Callers : ~Writing(x)' /\ ~caller'[x].commit /\ (x # c => Resting(x)')
    BY <1>2, <1>4 DEF Leaves, Writing, Resting
  <2>2. StoreTypeOK'
    BY <1>3, <1>4 DEF Leaves, StoreTypeOK, StoreInv
  <2>3. ~InFlight'
    BY <1>1, <1>3 DEF Quiet, InFlight
  <2>. QED
    BY <1>1, <1>3, <1>4, <2>1, <2>2, <2>3
    DEF Leaves, StoreInv, Exclusive, QueueInv, SyncInv, CacheInv, IdleInv, OwedInv, NoCommitLost, Quiet, InFlight
<1>5. CASE FlushTakeoverEnds(c)
  <2>1. /\ error' = ~ok /\ seen' = (ok \/ seen)
        /\ pending' = IF ok THEN pending ELSE caller[c].job
        /\ Return(c, ok) /\ ~caller[c].commit
    BY <1>5 DEF FlushTakeoverEnds
  <2>2. Leaves(c) /\ (caller'[c].pc \in {"ok", "purging"} => ok)
    BY <1>2, <2>1, ReturnLeaves DEF StoreInv
  <2>3. StoreInv'
    BY <1>1, <1>4, <2>1, <2>2 DEF Quiet, StoreInv, StoreTypeOK
  <2>. QED BY <1>1, <2>2, <2>3
<1>6. CASE CommitWriteEnds(c)
  <2> DEFINE kind == caller[c].kind
             over == kind = "save" \/ (kind = "seed" /\ ~ok)
             pc == IF ok THEN "idle" ELSE "error"
  <2>1. /\ error' = (~ok \/ error) /\ seen' = ((ok /\ Quiet) \/ seen)
        /\ pending' = pending /\ caller[c].commit
        /\ over => caller' = [caller EXCEPT ![c] = Rest(pc)] /\ lock' = {}
        /\ ~over => caller' = [caller EXCEPT ![c] = After(kind)] /\ lock' = lock
    BY <1>6 DEF CommitWriteEnds
  <2>2. Leaves(c) /\ caller'[c].pc \notin {"ok", "purging"}
    <3>1. CASE over
      <4>1. Rest(pc) \in CallerRecord /\ Rest(pc).pc = pc /\ ~Rest(pc).commit
        BY DEF Rest, CallerRecord
      <4>2. caller' \in [Callers -> CallerRecord] /\ caller'[c] = Rest(pc)
        BY <2>1, <3>1, <4>1 DEF StoreInv, StoreTypeOK
      <4>. QED BY <2>1, <3>1, <4>1, <4>2 DEF Leaves, Writing, Resting, StoreInv, StoreTypeOK
    <3>2. CASE ~over
      <4>1. kind # "save" /\ kind \in {"none", "durable", "reset", "seed", "barrier"}
        BY <3>2 DEF StoreInv, StoreTypeOK, CallerRecord
      <4>2. After(kind) \in CallerRecord /\ After(kind).pc = "waiting" /\ ~After(kind).commit
        BY <4>1 DEF After, Rest, CallerRecord
      <4>3. caller' \in [Callers -> CallerRecord] /\ caller'[c] = After(kind)
        BY <2>1, <3>2, <4>2 DEF StoreInv, StoreTypeOK
      <4>. QED BY <1>2, <2>1, <3>2, <4>2, <4>3 DEF Leaves, Writing, StoreInv, StoreTypeOK
    <3>. QED BY <3>1, <3>2
  <2>3. StoreInv'
    BY <1>1, <1>4, <2>1, <2>2 DEF Quiet, StoreInv, StoreTypeOK
  <2>. QED BY <2>2, <2>3
<1>. QED BY <1>5, <1>6

\* The background writer keeps the invariant (writer_loop).
LEMMA WriterKeeps ==
  ASSUME Desktop, StoreInv, WriterStep
  PROVE  StoreInv' /\ caller' = caller
<1>1. /\ snapshot' = snapshot /\ committed' = committed /\ owed' = owed
      /\ caller' = caller /\ lock' = lock
  BY DEF WriterStep, WriterTakes, WriterSaves, WriterEnds, store
<1>2. ~Quiet
  BY DEF WriterStep, WriterTakes, WriterSaves, WriterEnds, Quiet, InFlight
<1>3. \A c \in Callers : ~Writing(c)
  BY <1>2 DEF StoreInv, SyncInv
<1>4. ASSUME StoreTypeOK', QueueInv', CacheInv', Quiet' => seen' /\ (~error' => disk' = snapshot)
      PROVE  StoreInv'
  BY <1>1, <1>3, <1>4
  DEF StoreInv, Exclusive, SyncInv, IdleInv, OwedInv, NoCommitLost, Writing, Resting
<1>5. CASE WriterTakes
  <2>1. /\ writer' = [pc |-> "writing", job |-> pending] /\ pending' = NoDoc
        /\ pending # NoDoc /\ pending = snapshot /\ pending \in Docs
        /\ disk' = disk /\ cache' = cache /\ seen' = seen /\ error' = error
    BY <1>5 DEF WriterTakes, file, StoreInv, QueueInv, StoreTypeOK
  <2>2. StoreTypeOK' /\ QueueInv' /\ CacheInv' /\ ~Quiet'
    BY <1>1, <2>1 DEF StoreInv, StoreTypeOK, Job, QueueInv, CacheInv, InFlight, Quiet
  <2>. QED BY <1>1, <1>4, <2>2
<1>6. ASSUME NEW ok \in BOOLEAN, WriterSaves(ok)
      PROVE  StoreInv'
  <2>1. /\ writer.pc = "writing" /\ writer.job \in Docs /\ writer.job # NoDoc
        /\ writer' = [writer EXCEPT !.pc = IF ok THEN "saved" ELSE "failed"]
        /\ pending' = pending /\ error' = error
    BY <1>6, DocumentStoreAssumption DEF WriterSaves, StoreInv, QueueInv, InFlight
  <2>2. /\ writer' \in Job /\ writer'.job = writer.job
        /\ writer'.pc = IF ok THEN "saved" ELSE "failed"
    BY <2>1 DEF StoreInv, StoreTypeOK, Job
  <2>3. /\ disk' \in Docs /\ cache' \in Docs \cup {NoDoc} /\ seen' \in BOOLEAN
        /\ ok => disk' = writer.job
        /\ cache' # NoDoc => cache' = disk'
    BY <1>6, <2>1 DEF WriterSaves, SaveUnchecked, Desktop, StoreInv, StoreTypeOK, CacheInv
  <2>4. StoreTypeOK' /\ CacheInv'
    BY <1>1, <2>1, <2>2, <2>3 DEF StoreInv, StoreTypeOK, CacheInv
  <2>5. QueueInv' /\ ~Quiet'
    BY <1>1, <2>1, <2>2, <2>3 DEF StoreInv, QueueInv, InFlight, Quiet
  <2>. QED BY <1>4, <2>4, <2>5
<1>7. CASE WriterEnds
  <2>1. /\ writer.pc \in {"saved", "failed"} /\ writer.job \in Docs /\ writer.job # NoDoc
        /\ pending = NoDoc => writer.job = snapshot
        /\ writer.pc = "saved" => disk = writer.job
        /\ pending # NoDoc => pending = snapshot
    BY <1>7, DocumentStoreAssumption DEF WriterEnds, StoreInv, QueueInv, InFlight
  <2>2. /\ error' = (writer.pc = "failed")
        /\ seen' = ((writer.pc = "saved" /\ pending = NoDoc) \/ seen)
        /\ pending' = IF writer.pc = "failed" /\ pending = NoDoc THEN writer.job ELSE pending
        /\ writer' = [pc |-> "idle", job |-> NoDoc]
        /\ disk' = disk /\ cache' = cache
    BY <1>7 DEF WriterEnds, file
  <2>3. StoreTypeOK' /\ CacheInv'
    BY <1>1, <2>1, <2>2 DEF StoreInv, StoreTypeOK, Job, CacheInv
  <2>4. QueueInv'
    BY <1>1, <2>1, <2>2 DEF QueueInv, InFlight
  <2>5. Quiet' => seen' /\ (~error' => disk' = snapshot)
    BY <2>1, <2>2 DEF Quiet
  <2>. QED BY <1>1, <1>4, <2>3, <2>4, <2>5
<1>. QED BY <1>1, <1>5, <1>6, <1>7 DEF WriterStep

\* Under the assumptions no read reloads: the store has always looked at the
\* file after its own last write (read).
LEMMA NoReload == StoreInv => ~ReadDocument
<1>. SUFFICES ASSUME StoreInv, ReadDocument PROVE FALSE
  OBVIOUS
<1>1. Quiet /\ ~seen /\ MayRead
  BY DEF ReadDocument
<1>2. CASE lock = {}
  <2>1. \A c \in Callers : ~Writing(c)
    BY <1>2 DEF StoreInv, Exclusive, Resting, Writing
  <2>. QED BY <1>1, <2>1 DEF StoreInv, IdleInv
<1>3. CASE lock # {}
  <2>1. PICK c \in lock : caller[c].pc = "waiting"
    BY <1>1, <1>3 DEF MayRead
  <2>2. c \in Callers /\ ~Resting(c) /\ ~Writing(c)
    BY <2>1 DEF StoreInv, StoreTypeOK, Resting, Writing
  <2>3. \A x \in Callers : ~Writing(x)
    BY <2>2, Alone DEF StoreInv
  <2>. QED BY <1>1, <2>3 DEF StoreInv, IdleInv
<1>. QED BY <1>2, <1>3

\* Every step keeps the invariant, and a caller reaches "ok" or "purging" only
\* when the file holds the snapshot.
LEMMA StoreNextInv ==
  ASSUME Desktop, StoreInv, [StoreNext]_dvars
  PROVE  /\ StoreInv'
         /\ \A c \in Callers :
              caller[c].pc \notin {"ok", "purging"} /\ caller'[c].pc \in {"ok", "purging"}
              => disk = snapshot /\ ~Resting(c)
<1> DEFINE Reach(c) == caller[c].pc \notin {"ok", "purging"} /\ caller'[c].pc \in {"ok", "purging"}
<1>1. CASE UNCHANGED dvars
  BY <1>1 DEF dvars, StoreInv, StoreTypeOK, Exclusive, QueueInv, SyncInv, CacheInv, IdleInv, OwedInv, NoCommitLost,
              Quiet, InFlight, Writing, Resting
<1>2. ASSUME NEW c \in Callers,
             \/ \E d \in Docs, kind \in {"save", "durable"} : Save(c, d, kind)
             \/ Reset(c)
      PROVE  StoreInv' /\ \A x \in Callers : ~Reach(x)
  <2>1. PICK r \in CallerRecord : caller' = [caller EXCEPT ![c] = r] /\ r.pc \notin {"ok", "purging"}
    <3>1. \A kind \in {"save", "durable", "reset"} :
            After(kind) \in CallerRecord /\ After(kind).pc \in {"idle", "waiting"}
      BY DEF After, Rest, CallerRecord
    <3>2. \A d \in Docs, kind \in {"save", "durable"} :
            [pc |-> "writing", kind |-> kind, job |-> d, commit |-> TRUE] \in CallerRecord
      BY DEF CallerRecord
    <3>3. CASE Reset(c)
      BY <3>1, <3>3 DEF Reset
    <3>4. ASSUME NEW d \in Docs, NEW kind \in {"save", "durable"}, Save(c, d, kind)
          PROVE  \/ caller' = [caller EXCEPT ![c] = After(kind)]
                 \/ caller' = [caller EXCEPT ![c] =
                                 [pc |-> "writing", kind |-> kind, job |-> d, commit |-> TRUE]]
      BY <3>4 DEF Save, CommitToWriter, CommitWithoutWriter
    <3>. QED BY <1>2, <3>1, <3>2, <3>3, <3>4
  <2>. QED BY <1>2, <2>1, StartStep DEF StoreInv, StoreTypeOK
<1>3. ASSUME NEW c \in Callers, CallerStep(c)
      PROVE  StoreInv' /\ \A x \in Callers : Reach(x) => disk = snapshot /\ ~Resting(x)
  <2>1. ~Resting(c)
    BY <1>3 DEF CallerStep, ResetCommit, FlushReturns, FlushTimesOut, SyncSave, FlushTakeoverEnds,
                CommitWriteEnds, Resting
  <2>2. StoreInv' /\ (Reach(c) => disk = snapshot)
    BY <1>3, ResetCommitStep, FlushStep, SyncSaveStep, SyncEndStep DEF CallerStep, ResetCommit
  <2>3. \A x \in Callers \ {c} : caller'[x] = caller[x]
    <3>1. \A v : [caller EXCEPT ![c] = v] \in [Callers -> UNION {{caller[x] : x \in Callers}, {v}}]
                 /\ \A x \in Callers \ {c} : [caller EXCEPT ![c] = v][x] = caller[x]
      BY DEF StoreInv, StoreTypeOK
    <3>. QED
      BY <1>3, <3>1 DEF CallerStep, ResetCommit, CommitToWriter, CommitWithoutWriter, FlushReturns,
        FlushTimesOut, SyncSave, FlushTakeoverEnds, CommitWriteEnds, Return, StoreInv, StoreTypeOK
  <2>. QED BY <2>1, <2>2, <2>3
<1>4. CASE WriterStep
  BY <1>4, WriterKeeps
<1>5. ~ReadDocument /\ (\A c \in Callers : ~BeginBarrier(c)) /\ (\A d \in Docs : ~Edit(d))
  BY NoReload DEF Desktop, BeginBarrier, Edit
<1>. QED BY <1>1, <1>2, <1>3, <1>4, <1>5 DEF StoreNext

\* For any documents and any number of callers the store keeps its invariant
\* (document_store.rs and its callers under storage_lock).
THEOREM StoreInvariant ==
  ASSUME Desktop
  PROVE  StoreSpec => []StoreInv
<1>1. StoreInv /\ [StoreNext]_dvars => StoreInv'
  BY StoreNextInv
<1>. QED BY <1>1, StoreInitInv, PTL DEF StoreSpec

\* The state keeps its types (document_store.rs, StoreState).
THEOREM StoreTypes ==
  ASSUME Desktop
  PROVE  StoreSpec => []StoreTypeOK
<1>1. StoreInv => StoreTypeOK
  BY DEF StoreInv
<1>. QED BY <1>1, StoreInvariant, PTL

\* Failed and retried writes never leave an older document on disk once the
\* store has settled (commit_inner, writer_loop, flush).
THEOREM StoreLatestWins ==
  ASSUME Desktop
  PROVE  StoreSpec => []LatestWins
<1>1. StoreInv => LatestWins
  BY DEF StoreInv, IdleInv, LatestWins, Settled, Writing
<1>. QED BY <1>1, StoreInvariant, PTL

\* No read replaces a committed document (read).
THEOREM StoreNoCommitLost ==
  ASSUME Desktop
  PROVE  StoreSpec => []NoCommitLost
<1>1. StoreInv => NoCommitLost
  BY DEF StoreInv
<1>. QED BY <1>1, StoreInvariant, PTL

\* A flush that succeeds has what was committed before it on disk (flush).
THEOREM StoreFlushIsBarrier ==
  ASSUME Desktop
  PROVE  StoreSpec => FlushIsBarrier
<1> DEFINE Barrier ==
      \A c \in Callers :
        (/\ caller[c].pc \notin {"ok", "purging"}
         /\ caller'[c].pc \in {"ok", "purging"})
        => disk \in owed[c]
<1>1. StoreInv /\ [StoreNext]_dvars => [Barrier]_dvars
  BY StoreNextInv DEF StoreInv, OwedInv
<1>2. FlushIsBarrier <=> [][Barrier]_dvars
  BY DEF FlushIsBarrier
<1>. QED BY <1>1, <1>2, StoreInvariant, PTL DEF StoreSpec

-----------------------------------------------------------------------------
(* The run stream hub, for any number of runs, events and reloads, and any   *)
(* bounds of the buffer.                                                     *)
(*                                                                           *)
(* First, by induction, what a replay of the buffer yields after an event is *)
(* pushed; then that the stream, the registry and the page agree on whose    *)
(* stream it is.                                                             *)

-----------------------------------------------------------------------------
(* The run stream: what FlattenSeq computes *)

\* g solves the recursion of FlattenSeq on 1..n.
FlatRule(g, ss, n) == g = [i \in 1..n |-> IF i = 1 THEN ss[i] ELSE g[i - 1] \o ss[i]]

\* The solution of the recursion on 1..n.
Flat(ss, n) == CHOOSE g : FlatRule(g, ss, n)

\* The recursion has a solution on every 1..k.
LEMMA FlatRuleHasSolution ==
  ASSUME NEW ss, NEW k \in Nat
  PROVE  \E g : FlatRule(g, ss, k)
<1> DEFINE T == {n \in Nat : \E g : FlatRule(g, ss, n)}
<1>1. 0 \in T
  <2> DEFINE g == [i \in 1..0 |-> ss]
  <2>1. FlatRule(g, ss, 0)
    BY DEF FlatRule
  <2> QED  BY <2>1
<1>2. ASSUME NEW n \in Nat, n \in T PROVE n + 1 \in T
  <2>1. PICK g : FlatRule(g, ss, n)
    BY <1>2
  <2> DEFINE h == [i \in 1..(n + 1) |->
                     IF i = n + 1 THEN (IF i = 1 THEN ss[i] ELSE g[n] \o ss[i]) ELSE g[i]]
  <2>2. \A i \in 1..n : h[i] = g[i]
    OBVIOUS
  <2>3. \A i \in 1..(n + 1) : h[i] = IF i = 1 THEN ss[i] ELSE h[i - 1] \o ss[i]
    <3>1. \A i \in 1..n : g[i] = IF i = 1 THEN ss[i] ELSE g[i - 1] \o ss[i]
      BY <2>1 DEF FlatRule
    <3>2. h[n + 1] = IF n + 1 = 1 THEN ss[n + 1] ELSE g[n] \o ss[n + 1]
      OBVIOUS
    <3> HIDE DEF h
    <3>3. TAKE i \in 1..(n + 1)
    <3>4. CASE i = n + 1
      <4>1. i # 1 => n \in 1..n /\ i - 1 = n
        BY <3>4
      <4> QED  BY <2>2, <3>2, <3>4, <4>1
    <3>5. CASE i \in 1..n
      <4>1. i # 1 => i - 1 \in 1..n
        BY <3>5
      <4> QED  BY <2>2, <3>1, <3>5, <4>1
    <3> QED  BY <3>4, <3>5
  <2>4. FlatRule(h, ss, n + 1)
    BY <2>3 DEF FlatRule
  <2> QED  BY <2>4
<1> HIDE DEF T
<1>3. k \in T
  BY <1>1, <1>2, SetInduction
<1> QED  BY <1>3 DEF T

\* FlattenSeq takes the last value of the solution.
LEMMA FlatIsChosen ==
  ASSUME NEW ss, Len(ss) # 0
  PROVE  FlattenSeq(ss) = Flat(ss, Len(ss))[Len(ss)]
  BY DEF FlattenSeq, FlatRule, Flat

\* The recursion, written out.
LEMMA FlatEquations ==
  ASSUME NEW ss, NEW n \in Nat
  PROVE  \A i \in 1..n : Flat(ss, n)[i] = IF i = 1 THEN ss[i] ELSE Flat(ss, n)[i - 1] \o ss[i]
<1> DEFINE g == Flat(ss, n)
<1>1. FlatRule(g, ss, n)
  BY FlatRuleHasSolution DEF Flat
<1> HIDE DEF g
<1>2. \A i \in 1..n : g[i] = IF i = 1 THEN ss[i] ELSE g[i - 1] \o ss[i]
  BY <1>1 DEF FlatRule
<1> QED  BY <1>2 DEF g

\* Sequences that agree up to k are flattened alike up to k.
LEMMA FlatAgrees ==
  ASSUME NEW ss, NEW tt, NEW m \in Nat, NEW n \in Nat, NEW k \in Nat,
         k <= m, k <= n, \A i \in 1..k : ss[i] = tt[i]
  PROVE  k # 0 => Flat(ss, m)[k] = Flat(tt, n)[k]
<1> DEFINE T == {j \in Nat : j # 0 /\ j <= k => Flat(ss, m)[j] = Flat(tt, n)[j]}
<1>1. 0 \in T
  OBVIOUS
<1>2. ASSUME NEW j \in Nat, j \in T PROVE j + 1 \in T
  <2> SUFFICES ASSUME j + 1 <= k PROVE Flat(ss, m)[j + 1] = Flat(tt, n)[j + 1]
    OBVIOUS
  <2>1. j # 0 => Flat(ss, m)[j] = Flat(tt, n)[j]
    BY <1>2
  <2>2. j + 1 \in 1..m /\ j + 1 \in 1..n /\ (j + 1) - 1 = j /\ ss[j + 1] = tt[j + 1]
    OBVIOUS
  <2>3. Flat(ss, m)[j + 1] = IF j + 1 = 1 THEN ss[j + 1] ELSE Flat(ss, m)[j] \o ss[j + 1]
    BY <2>2, FlatEquations
  <2>4. Flat(tt, n)[j + 1] = IF j + 1 = 1 THEN tt[j + 1] ELSE Flat(tt, n)[j] \o tt[j + 1]
    BY <2>2, FlatEquations
  <2> QED  BY <2>1, <2>2, <2>3, <2>4
<1> HIDE DEF T
<1>3. k \in T
  BY <1>1, <1>2, SetInduction
<1> QED  BY <1>3 DEF T

\* An empty sequence is flattened to itself, and one more element comes last.
LEMMA FlattenEmpty == FlattenSeq(<<>>) = <<>>
  BY DEF FlattenSeq

LEMMA FlattenAppend ==
  ASSUME NEW E, NEW ss \in Seq(Seq(E)), NEW s \in Seq(E)
  PROVE  FlattenSeq(Append(ss, s)) = FlattenSeq(ss) \o s
<1> DEFINE tt == Append(ss, s)
<1> DEFINE n == Len(ss)
<1>1. /\ n \in Nat /\ Len(tt) = n + 1 /\ tt[n + 1] = s
      /\ \A i \in 1..n : tt[i] = ss[i]
  BY AppendProperties, LenProperties
<1>2. n = 0 => ss = <<>>
  BY EmptySeq
<1>3. FlattenSeq(tt) = Flat(tt, n + 1)[n + 1]
  <2> HIDE DEF tt, n
  <2> QED  BY <1>1, FlatIsChosen
<1>4. n # 0 => FlattenSeq(ss) = Flat(ss, n)[n]
  BY FlatIsChosen
<1> HIDE DEF tt, n
<1>5. Flat(tt, n + 1)[n + 1] = IF n + 1 = 1 THEN tt[n + 1] ELSE Flat(tt, n + 1)[n] \o tt[n + 1]
  <2>1. n + 1 \in 1..(n + 1) /\ (n + 1) - 1 = n /\ n + 1 \in Nat
    BY <1>1
  <2> QED  BY <2>1, FlatEquations
<1>6. CASE n = 0
  <2>1. <<>> \o s = s
    BY ConcatEmptySeq
  <2>2. FlattenSeq(tt) = s
    BY <1>1, <1>3, <1>5, <1>6
  <2>3. FlattenSeq(ss) = <<>>
    BY <1>2, <1>6, FlattenEmpty
  <2> QED  BY <2>1, <2>2, <2>3 DEF tt
<1>7. CASE n # 0
  <2>1. Flat(tt, n + 1)[n] = Flat(ss, n)[n]
    BY <1>1, <1>7, FlatAgrees
  <2>2. n + 1 # 1
    BY <1>1, <1>7
  <2>3. FlattenSeq(tt) = Flat(ss, n)[n] \o s
    BY Zenon, <1>1, <1>3, <1>5, <2>1, <2>2
  <2> QED  BY <1>4, <1>7, <2>3 DEF tt
<1> QED  BY <1>6, <1>7

-----------------------------------------------------------------------------
(* Suffixes *)

\* A suffix, position by position.
LEMMA SuffixIs ==
  ASSUME NEW E, NEW s \in Seq(E), NEW t \in Seq(E)
  PROVE  IsSuffix(s, t) <=>
           /\ Len(s) <= Len(t)
           /\ \A i \in 1..Len(s) : s[i] = t[(Len(t) - Len(s)) + i]
<1> DEFINE m == Len(s)
<1> DEFINE n == Len(t)
<1> DEFINE rs == Reverse(s)
<1> DEFINE rt == Reverse(t)
<1>1. m \in Nat /\ n \in Nat
  BY LenProperties
<1>2. rs \in Seq(E) /\ Len(rs) = m /\ \A i \in 1..m : rs[i] = s[m - i + 1]
  <2>1. rs = [i \in 1..m |-> s[m - i + 1]]
    BY DEF Reverse
  <2>2. \A i \in 1..m : m - i + 1 \in 1..m
    BY <1>1
  <2> HIDE DEF m, rs
  <2>3. \A i \in 1..m : s[m - i + 1] \in E
    BY <2>2, ElementOfSeq DEF m
  <2> QED  BY <1>1, <2>1, <2>3
<1>3. rt \in Seq(E) /\ Len(rt) = n /\ \A i \in 1..n : rt[i] = t[n - i + 1]
  <2>1. rt = [i \in 1..n |-> t[n - i + 1]]
    BY DEF Reverse
  <2>2. \A i \in 1..n : n - i + 1 \in 1..n
    BY <1>1
  <2> HIDE DEF n, rt
  <2>3. \A i \in 1..n : t[n - i + 1] \in E
    BY <2>2, ElementOfSeq DEF n
  <2> QED  BY <1>1, <2>1, <2>3
<1>4. IsSuffix(s, t) <=> m <= n /\ SubSeq(rs, 1, m) = SubSeq(rt, 1, m)
  BY <1>2, <1>3 DEF IsSuffix, IsPrefix
<1> HIDE DEF m, n, rs, rt
<1>5. ASSUME m <= n
      PROVE  SubSeq(rs, 1, m) = SubSeq(rt, 1, m) <=> \A i \in 1..m : s[i] = t[(n - m) + i]
  <2>1. /\ SubSeq(rs, 1, m) \in Seq(E) /\ Len(SubSeq(rs, 1, m)) = m
        /\ \A i \in 1..m : SubSeq(rs, 1, m)[i] = rs[i]
    <3>1. \A i \in 1..m : rs[i] \in E
      BY <1>2, ElementOfSeq
    <3> QED  BY <1>1, <3>1, SubSeqProperties
  <2>2. /\ SubSeq(rt, 1, m) \in Seq(E) /\ Len(SubSeq(rt, 1, m)) = m
        /\ \A i \in 1..m : SubSeq(rt, 1, m)[i] = rt[i]
    <3>1. \A i \in 1..m : rt[i] \in E
      BY <1>1, <1>3, <1>5, ElementOfSeq
    <3> QED  BY <1>1, <3>1, SubSeqProperties
  <2>3. SubSeq(rs, 1, m) = SubSeq(rt, 1, m) <=> \A i \in 1..m : rs[i] = rt[i]
    BY <2>1, <2>2, SeqEqual
  <2>4. \A i \in 1..m : rs[i] = s[m - i + 1] /\ rt[i] = t[n - i + 1]
    BY <1>1, <1>2, <1>3, <1>5
  <2>5. (\A i \in 1..m : rs[i] = rt[i]) => \A i \in 1..m : s[i] = t[(n - m) + i]
    <3> SUFFICES ASSUME \A i \in 1..m : rs[i] = rt[i], NEW i \in 1..m PROVE s[i] = t[(n - m) + i]
      OBVIOUS
    <3>1. m - i + 1 \in 1..m /\ m - (m - i + 1) + 1 = i /\ n - (m - i + 1) + 1 = (n - m) + i
      BY <1>1
    <3> QED  BY <2>4, <3>1
  <2>6. (\A i \in 1..m : s[i] = t[(n - m) + i]) => \A i \in 1..m : rs[i] = rt[i]
    <3> SUFFICES ASSUME \A i \in 1..m : s[i] = t[(n - m) + i], NEW i \in 1..m PROVE rs[i] = rt[i]
      OBVIOUS
    <3>1. m - i + 1 \in 1..m /\ (n - m) + (m - i + 1) = n - i + 1
      BY <1>1
    <3> QED  BY <2>4, <3>1
  <2> QED  BY <2>3, <2>5, <2>6
<1>6. IsSuffix(s, t) <=> m <= n /\ \A i \in 1..m : s[i] = t[(n - m) + i]
  BY <1>4, <1>5
<1> QED  BY <1>6 DEF m, n

\* A sequence is its own suffix, and the empty one is everybody's.
LEMMA SuffixSelf ==
  ASSUME NEW E, NEW s \in Seq(E)
  PROVE  IsSuffix(s, s) /\ IsSuffix(<<>>, s)
<1>1. Len(s) \in Nat /\ Len(<<>>) = 0 /\ <<>> \in Seq(E)
  BY LenProperties, EmptySeq
<1>2. IsSuffix(s, s)
  BY <1>1, SuffixIs
<1>3. IsSuffix(<<>>, s)
  <2>1. 0 <= Len(s) /\ 1..0 = {}
    BY <1>1
  <2> QED  BY <1>1, <2>1, SuffixIs
<1> QED  BY <1>2, <1>3

LEMMA SuffixTransitive ==
  ASSUME NEW E, NEW s \in Seq(E), NEW t \in Seq(E), NEW u \in Seq(E),
         IsSuffix(s, t), IsSuffix(t, u)
  PROVE  IsSuffix(s, u)
<1> DEFINE k == Len(s)
<1> DEFINE m == Len(t)
<1> DEFINE n == Len(u)
<1>1. k \in Nat /\ m \in Nat /\ n \in Nat
  BY LenProperties
<1>2. k <= m /\ \A i \in 1..k : s[i] = t[(m - k) + i]
  BY SuffixIs
<1>3. m <= n /\ \A i \in 1..m : t[i] = u[(n - m) + i]
  BY SuffixIs
<1> HIDE DEF k, m, n
<1>4. ASSUME NEW i \in 1..k PROVE s[i] = u[(n - k) + i]
  <2>1. (m - k) + i \in 1..m /\ (n - m) + ((m - k) + i) = (n - k) + i
    BY <1>1, <1>2
  <2> QED  BY <1>2, <1>3, <2>1
<1>5. k <= n
  BY <1>1, <1>2, <1>3
<1> QED  BY <1>4, <1>5, SuffixIs DEF k, m, n

\* The same sequence at the end of both.
LEMMA SuffixConcatBoth ==
  ASSUME NEW E, NEW s \in Seq(E), NEW t \in Seq(E), NEW r \in Seq(E), IsSuffix(s, t)
  PROVE  IsSuffix(s \o r, t \o r)
<1> DEFINE a == s \o r
<1> DEFINE b == t \o r
<1> DEFINE k == Len(r)
<1> DEFINE m == Len(s)
<1> DEFINE n == Len(t)
<1>1. k \in Nat /\ m \in Nat /\ n \in Nat
  BY LenProperties
<1>2. m <= n /\ \A i \in 1..m : s[i] = t[(n - m) + i]
  BY SuffixIs
<1>3. /\ a \in Seq(E) /\ Len(a) = m + k
      /\ \A i \in 1..(m + k) : a[i] = IF i <= m THEN s[i] ELSE r[i - m]
  BY ConcatProperties
<1>4. /\ b \in Seq(E) /\ Len(b) = n + k
      /\ \A i \in 1..(n + k) : b[i] = IF i <= n THEN t[i] ELSE r[i - n]
  BY ConcatProperties
<1> HIDE DEF a, b, k, m, n
<1>5. ASSUME NEW i \in 1..(m + k) PROVE a[i] = b[((n + k) - (m + k)) + i]
  <2>1. ((n + k) - (m + k)) + i = (n - m) + i /\ (n - m) + i \in 1..(n + k)
    BY <1>1, <1>2
  <2>2. CASE i <= m
    <3>1. (n - m) + i <= n /\ i \in 1..m
      BY <1>1, <1>2, <2>2
    <3> QED  BY <1>2, <1>3, <1>4, <2>1, <2>2, <3>1
  <2>3. CASE ~(i <= m)
    <3>1. ~((n - m) + i <= n) /\ ((n - m) + i) - n = i - m
      BY <1>1, <1>2, <2>3
    <3>2. a[i] = r[i - m]
      BY <1>3, <2>3
    <3>3. b[(n - m) + i] = r[i - m]
      BY <1>4, <2>1, <3>1
    <3> QED  BY <2>1, <3>2, <3>3
  <2> QED  BY <2>2, <2>3
<1>6. m + k <= n + k
  BY <1>1, <1>2
<1>7. IsSuffix(a, b)
  BY <1>3, <1>4, <1>5, <1>6, SuffixIs
<1> QED  BY <1>7 DEF a, b

\* One more element at the end of both.
LEMMA SuffixAppend ==
  ASSUME NEW E, NEW s \in Seq(E), NEW t \in Seq(E), NEW e \in E, IsSuffix(s, t)
  PROVE  IsSuffix(Append(s, e), Append(t, e))
<1>1. <<e>> \in Seq(E)
  OBVIOUS
<1>2. IsSuffix(s \o <<e>>, t \o <<e>>)
  BY <1>1, SuffixConcatBoth
<1> QED  BY <1>2, AppendIsConcat

-----------------------------------------------------------------------------
(* What a replay delivers *)

\* An event, and an element of the buffer.
Event == Runs \X Nat
Element == [kind : {"delta", "card"}, events : Seq(Event)]

EventsOf(b) == [i \in DOMAIN b |-> b[i].events]

LEMMA EventsOfType ==
  ASSUME NEW b \in Seq(Element)
  PROVE  EventsOf(b) \in Seq(Seq(Event)) /\ Len(EventsOf(b)) = Len(b)
<1>1. Len(b) \in Nat /\ DOMAIN b = 1..Len(b)
  BY LenProperties
<1>2. \A i \in 1..Len(b) : b[i].events \in Seq(Event)
  <2> TAKE i \in 1..Len(b)
  <2>1. b[i] \in Element
    BY ElementOfSeq
  <2> QED  BY <2>1 DEF Element
<1>3. EventsOf(b) = [i \in 1..Len(b) |-> b[i].events]
  BY <1>1 DEF EventsOf
<1> QED  BY <1>1, <1>2, <1>3

LEMMA EventsOfAppend ==
  ASSUME NEW b \in Seq(Element), NEW x \in Element
  PROVE  EventsOf(Append(b, x)) = Append(EventsOf(b), x.events)
<1> DEFINE c == Append(b, x)
<1> DEFINE es == EventsOf(b)
<1> DEFINE n == Len(b)
<1>1. n \in Nat /\ DOMAIN b = 1..n
  BY LenProperties
<1>2. c \in Seq(Element) /\ Len(c) = n + 1 /\ c[n + 1] = x /\ \A i \in 1..n : c[i] = b[i]
  BY AppendProperties
<1>3. es \in Seq(Seq(Event)) /\ Len(es) = n /\ \A i \in 1..n : es[i] = b[i].events
  BY <1>1, EventsOfType DEF EventsOf
<1>4. x.events \in Seq(Event)
  BY DEF Element
<1> DEFINE a == Append(es, x.events)
<1> HIDE DEF c, es, n
<1>5. a \in Seq(Seq(Event)) /\ Len(a) = n + 1 /\ a[n + 1] = x.events /\ \A i \in 1..n : a[i] = es[i]
  BY <1>3, <1>4, AppendProperties
<1>6. EventsOf(c) \in Seq(Seq(Event)) /\ Len(EventsOf(c)) = n + 1
  BY <1>2, EventsOfType
<1>7. \A i \in 1..(n + 1) : EventsOf(c)[i] = c[i].events
  <2>1. DOMAIN c = 1..(n + 1)
    BY <1>2, LenProperties
  <2> QED  BY <2>1 DEF EventsOf
<1> HIDE DEF a
<1>8. \A i \in 1..(n + 1) : EventsOf(c)[i] = a[i]
  <2> TAKE i \in 1..(n + 1)
  <2>1. CASE i = n + 1
    BY <1>2, <1>5, <1>7, <2>1
  <2>2. CASE i \in 1..n
    BY <1>2, <1>3, <1>5, <1>7, <2>2
  <2> QED  BY <1>1, <2>1, <2>2
<1>9. EventsOf(c) = a
  BY <1>5, <1>6, <1>8, SeqEqual
<1> QED  BY <1>9 DEF a, c, es

LEMMA ReplayEmpty == Replay(<<>>) = <<>>
<1>1. EventsOf(<<>>) = <<>>
  <2>1. <<>> \in Seq(Element) /\ Len(<<>>) = 0
    BY EmptySeq
  <2>2. EventsOf(<<>>) \in Seq(Seq(Event)) /\ Len(EventsOf(<<>>)) = 0
    BY <2>1, EventsOfType
  <2> QED  BY <2>2, EmptySeq
<1> QED  BY <1>1, FlattenEmpty DEF Replay, EventsOf

LEMMA ReplayAppend ==
  ASSUME NEW b \in Seq(Element), NEW x \in Element
  PROVE  Replay(Append(b, x)) = Replay(b) \o x.events
<1>1. EventsOf(b) \in Seq(Seq(Event)) /\ x.events \in Seq(Event)
  BY EventsOfType DEF Element
<1>2. FlattenSeq(Append(EventsOf(b), x.events)) = FlattenSeq(EventsOf(b)) \o x.events
  BY <1>1, FlattenAppend
<1>3. FlattenSeq(EventsOf(Append(b, x))) = FlattenSeq(EventsOf(b)) \o x.events
  BY <1>2, EventsOfAppend
<1> QED  BY <1>3 DEF Replay, EventsOf

\* A replay is a sequence of events.
LEMMA ReplayType == \A b \in Seq(Element) : Replay(b) \in Seq(Event)
<1> DEFINE T == {b \in Seq(Element) : Replay(b) \in Seq(Event)}
<1>1. <<>> \in T
  BY ReplayEmpty, EmptySeq
<1>2. ASSUME NEW b \in Seq(Element), NEW x \in Element, b \in T PROVE Append(b, x) \in T
  <2>1. Append(b, x) \in Seq(Element)
    BY AppendProperties
  <2>2. Replay(b) \in Seq(Event) /\ x.events \in Seq(Event)
    BY <1>2 DEF Element
  <2>3. Replay(b) \o x.events \in Seq(Event)
    BY <2>2, ConcatProperties
  <2> QED  BY <2>1, <2>3, ReplayAppend
<1> HIDE DEF T
<1>3. \A b \in Seq(Element) : b \in T
  BY <1>1, <1>2, SeqInduction
<1> QED  BY <1>3 DEF T

\* Without its oldest element a buffer replays a suffix of what it did.
LEMMA ReplayTail ==
  \A b \in Seq(Element) : b # <<>> => IsSuffix(Replay(Tail(b)), Replay(b))
<1> DEFINE T == {b \in Seq(Element) : b # <<>> => IsSuffix(Replay(Tail(b)), Replay(b))}
<1>1. <<>> \in T
  BY EmptySeq
<1>2. ASSUME NEW b \in Seq(Element), NEW x \in Element, b \in T PROVE Append(b, x) \in T
  <2> DEFINE c == Append(b, x)
  <2>1. c \in Seq(Element) /\ c # <<>>
    BY AppendProperties
  <2>2. Replay(c) = Replay(b) \o x.events /\ Replay(c) \in Seq(Event)
    BY <2>1, ReplayAppend, ReplayType
  <2>3. x.events \in Seq(Event) /\ Replay(b) \in Seq(Event)
    BY ReplayType DEF Element
  <2>4. Tail(c) = IF b = <<>> THEN <<>> ELSE Append(Tail(b), x)
    BY HeadTailAppend
  <2>5. CASE b = <<>>
    <3>1. IsSuffix(<<>>, Replay(c))
      BY <2>2, SuffixSelf
    <3> QED  BY <2>1, <2>4, <2>5, <3>1, ReplayEmpty
  <2>6. CASE b # <<>>
    <3>1. Tail(b) \in Seq(Element)
      BY <2>6, HeadTailProperties
    <3>2. Replay(Tail(c)) = Replay(Tail(b)) \o x.events
      BY <2>4, <2>6, <3>1, ReplayAppend
    <3>3. IsSuffix(Replay(Tail(b)), Replay(b)) /\ Replay(Tail(b)) \in Seq(Event)
      BY <1>2, <2>6, <3>1, ReplayType
    <3>4. IsSuffix(Replay(Tail(b)) \o x.events, Replay(b) \o x.events)
      BY <2>3, <3>3, SuffixConcatBoth
    <3> QED  BY <2>1, <2>2, <3>2, <3>4
  <2> QED  BY <2>5, <2>6
<1> HIDE DEF T
<1>3. \A b \in Seq(Element) : b \in T
  BY <1>1, <1>2, SeqInduction
<1> QED  BY <1>3 DEF T

\* EventBuffer::push: afterwards a replay delivers what it did before and the
\* new event, or less at the front.
LEMMA PushReplays ==
  ASSUME NEW b \in Seq(Element), NEW kind \in {"delta", "card"}, NEW e \in Event
  PROVE  /\ Push(b, kind, e) \in Seq(Element)
         /\ IsSuffix(Replay(Push(b, kind, e)), Append(Replay(b), e))
<1>0. Replay(b) \in Seq(Event) /\ Append(Replay(b), e) \in Seq(Event)
  <2>1. Replay(b) \in Seq(Event)
    BY ReplayType
  <2> QED  BY <2>1, AppendProperties
<1>1. CASE Mergeable(b, kind)
  <2>1. PICK c \in Seq(Element), x \in Element : b = Append(c, x)
    BY <1>1, SequenceEmptyOrAppend DEF Mergeable
  <2> DEFINE y == [x EXCEPT !.events = Append(@, e)]
  <2>2. x.events \in Seq(Event) /\ Append(x.events, e) \in Seq(Event)
    <3>1. x.events \in Seq(Event)
      BY DEF Element
    <3> QED  BY <3>1, AppendProperties
  <2>3. y \in Element /\ y.events = Append(x.events, e)
    BY <2>2 DEF Element
  <2>4. Len(c) \in Nat /\ Len(b) = Len(c) + 1 /\ b[Len(b)] = x /\ \A i \in 1..Len(c) : b[i] = c[i]
    BY <2>1, AppendProperties, LenProperties
  <2> DEFINE d == [b EXCEPT ![Len(b)] = y]
  <2>5. Push(b, kind, e) = d
    BY <1>1, <2>4 DEF Push
  <2> HIDE DEF y
  <2>6. /\ d \in Seq(Element) /\ Len(d) = Len(b)
        /\ \A i \in 1..Len(b) : d[i] = IF i = Len(b) THEN y ELSE b[i]
    BY <2>3, <2>4, ExceptSeq
  <2> DEFINE f == Append(c, y)
  <2>7. /\ f \in Seq(Element) /\ Len(f) = Len(c) + 1 /\ f[Len(c) + 1] = y
        /\ \A i \in 1..Len(c) : f[i] = c[i]
    BY <2>3, AppendProperties
  <2> HIDE DEF d, f
  <2>8. d = f
    <3>1. \A i \in 1..Len(d) : d[i] = f[i]
      BY <2>4, <2>6, <2>7
    <3>2. Len(d) = Len(f)
      BY <2>4, <2>6, <2>7
    <3> QED  BY <2>6, <2>7, <3>1, <3>2, SeqEqual
  <2>9. Replay(f) = Replay(c) \o Append(x.events, e)
    BY <2>3, ReplayAppend DEF f
  <2>10. Replay(b) = Replay(c) \o x.events
    BY <2>1, ReplayAppend
  <2>11. Replay(c) \in Seq(Event)
    BY ReplayType
  <2>12. Replay(c) \o Append(x.events, e) = Append(Replay(c) \o x.events, e)
    BY <2>2, <2>11
  <2>13. Replay(d) = Append(Replay(b), e)
    BY <2>8, <2>9, <2>10, <2>12
  <2> QED  BY <1>0, <2>5, <2>6, <2>13, SuffixSelf
<1>2. CASE ~Mergeable(b, kind)
  <2> DEFINE x == [kind |-> kind, events |-> <<e>>]
  <2> DEFINE longer == Append(b, x)
  <2>1. x \in Element /\ x.events = <<e>>
    BY DEF Element
  <2>2. Push(b, kind, e) = IF Len(longer) > MaxBuffered THEN Tail(longer) ELSE longer
    BY <1>2 DEF Push
  <2> HIDE DEF x
  <2>3. longer \in Seq(Element) /\ longer # <<>>
    BY <2>1, AppendProperties
  <2>4. Replay(longer) = Append(Replay(b), e)
    BY <1>0, <2>1, ReplayAppend, AppendIsConcat
  <2> HIDE DEF longer
  <2>5. Tail(longer) \in Seq(Element)
    BY <2>3, HeadTailProperties
  <2>6. IsSuffix(Replay(Tail(longer)), Replay(longer))
    BY <2>3, ReplayTail
  <2>7. IsSuffix(Replay(longer), Replay(longer))
    BY <1>0, <2>4, SuffixSelf
  <2> QED  BY <2>2, <2>3, <2>4, <2>5, <2>6, <2>7
<1> QED  BY <1>1, <1>2

-----------------------------------------------------------------------------
(* The invariant *)

StreamTypes ==
  /\ registry \in Runs \cup {None}
  /\ worker \in [Runs -> {"idle", "invoked", "registered", "begun", "live", "finished", "over"}]
  /\ invoker \in [Runs -> Nat] /\ sent \in [Runs -> Nat]
  /\ stream \in [run : Runs \cup {None}, buffer : Seq(Element), subscriber : Nat, settled : BOOLEAN]
  /\ page \in Nat /\ page >= 1 /\ adoption \in {"due", "done"}
  /\ token \in [run : Runs \cup {None}, by : {"none", "invoke", "adopt", "claim"}]
  /\ view \in Seq(Event)

\* A run that has not begun its stream.
Waiting(r) == worker[r] \in {"idle", "invoked", "registered"}

\* The registry admits one run at a time to the stream, and the stream is that
\* run's from its begin to its end.
OneRunStreams ==
  \A r \in Runs :
    /\ worker[r] \in {"registered", "begun", "live"} => registry = r
    /\ worker[r] \in {"begun", "live"} => stream.run = r /\ ~stream.settled
    /\ Waiting(r) => sent[r] = 0

\* A stream has a run, which has begun and ends with it.
StreamHasRun ==
  /\ stream.settled => stream.run # None
  /\ stream.run # None /\ ~stream.settled => worker[stream.run] \in {"begun", "live", "finished"}

\* No channel is of a page to come.
PagesPast ==
  /\ stream.subscriber <= page
  /\ \A r \in Runs : invoker[r] <= page

\* What the page knows: nothing before it has asked; the run it invoked; a
\* stream it adopted or claimed.  A stream it is subscribed to is of its run.
PageKnows ==
  /\ adoption = "due" => token = NoToken
  /\ token.run # None /\ token.by # "invoke" => ~Waiting(token.run)
  /\ token.run = None <=> token.by = "none"
  /\ token.by = "claim" => worker[token.run] = "over"
  /\ \A r \in Runs :
       /\ worker[r] \in {"invoked", "registered"} /\ invoker[r] = page =>
            token.run = r /\ token.by = "invoke"
       /\ token.run = r /\ Waiting(r) => view = NoView
  /\ stream.run # None /\ ~stream.settled /\ stream.subscriber = page => token.run = stream.run

StreamInv ==
  /\ StreamTypes /\ OneRunStreams /\ StreamHasRun /\ PagesPast /\ PageKnows
  /\ NothingMissed /\ ConcludedIsOver

-----------------------------------------------------------------------------
(* What is published *)

\* The events 1 to n of a run.
Numbered(r, n) == [i \in 1..n |-> <<r, i>>]

LEMMA NumberedIs ==
  ASSUME NEW r \in Runs, NEW n \in Nat
  PROVE  /\ Numbered(r, n) \in Seq(Event) /\ Len(Numbered(r, n)) = n
         /\ \A i \in 1..n : Numbered(r, n)[i] = <<r, i>>
<1>1. \A i \in 1..n : <<r, i>> \in Event
  BY DEF Event
<1> QED  BY <1>1 DEF Numbered

LEMMA NumberedGrows ==
  ASSUME NEW r \in Runs, NEW n \in Nat
  PROVE  Numbered(r, n + 1) = Append(Numbered(r, n), <<r, n + 1>>)
<1> DEFINE s == Numbered(r, n)
<1> DEFINE t == Numbered(r, n + 1)
<1> DEFINE e == <<r, n + 1>>
<1> DEFINE a == Append(s, e)
<1>1. s \in Seq(Event) /\ Len(s) = n /\ \A i \in 1..n : s[i] = <<r, i>>
  BY NumberedIs
<1>2. t \in Seq(Event) /\ Len(t) = n + 1 /\ \A i \in 1..(n + 1) : t[i] = <<r, i>>
  BY NumberedIs
<1>3. e \in Event
  BY DEF Event
<1> HIDE DEF s, t
<1>4. a \in Seq(Event) /\ Len(a) = n + 1 /\ a[n + 1] = <<r, n + 1>> /\ \A i \in 1..n : a[i] = s[i]
  BY <1>1, <1>3, AppendProperties
<1> HIDE DEF a
<1>5. \A i \in 1..(n + 1) : t[i] = a[i]
  <2> TAKE i \in 1..(n + 1)
  <2>1. CASE i = n + 1
    BY <1>2, <1>4, <2>1
  <2>2. CASE i \in 1..n
    BY <1>1, <1>2, <1>4, <2>2
  <2> QED  BY <2>1, <2>2
<1>6. t = a
  BY <1>2, <1>4, <1>5, SeqEqual
<1> QED  BY <1>6 DEF a, s, t

\* Everything published of an open stream is its numbered events; a settled one
\* has its marker behind them.
PublishedOf(r, n, settled) == Numbered(r, n) \o IF settled THEN <<Marker(r)>> ELSE <<>>

LEMMA PublishedOfIs ==
  ASSUME NEW r \in Runs, NEW n \in Nat
  PROVE  /\ PublishedOf(r, n, FALSE) = Numbered(r, n)
         /\ PublishedOf(r, n, TRUE) = Append(Numbered(r, n), Marker(r))
         /\ \A settled \in BOOLEAN : PublishedOf(r, n, settled) \in Seq(Event)
<1> DEFINE s == Numbered(r, n)
<1> DEFINE e == Marker(r)
<1>1. s \in Seq(Event) /\ e \in Event
  BY NumberedIs DEF Marker, Event
<1>2. PublishedOf(r, n, FALSE) = s \o <<>> /\ PublishedOf(r, n, TRUE) = s \o <<e>>
  BY DEF PublishedOf
<1> HIDE DEF s, e
<1>3. s \o <<>> = s /\ Append(s, e) = s \o <<e>> /\ Append(s, e) \in Seq(Event)
  BY <1>1, ConcatEmptySeq, AppendIsConcat, AppendProperties
<1>4. PublishedOf(r, n, FALSE) = s /\ PublishedOf(r, n, TRUE) = Append(s, e)
  BY <1>2, <1>3
<1> QED  BY <1>1, <1>3, <1>4 DEF s, e

\* Deliver: the event is published, and whoever follows the stream has it.
LEMMA DeliverKeeps ==
  ASSUME StreamInv, stream.run # None,
         NEW s \in [run : Runs \cup {None}, buffer : Seq(Element), subscriber : Nat, settled : BOOLEAN],
         s.run = stream.run, s.buffer = stream.buffer, s.subscriber = stream.subscriber,
         NEW kind \in {"delta", "card"}, NEW e \in Event,
         Deliver(s, kind, e), token' = token, page' = page,
         Published' = Append(Published, e)
  PROVE  /\ stream' \in [run : Runs \cup {None}, buffer : Seq(Element), subscriber : Nat, settled : BOOLEAN]
         /\ view' \in Seq(Event)
         /\ stream'.run = stream.run /\ stream'.settled = s.settled
         /\ stream'.subscriber <= page
         /\ stream'.subscriber = page => stream.subscriber = page
         /\ stream.subscriber # page => view' = view
         /\ NothingMissed'
<1> DEFINE b == stream.buffer
<1> DEFINE c == Push(b, kind, e)
<1>1. b \in Seq(Element) /\ view \in Seq(Event) /\ page \in Nat /\ page >= 1 /\ stream.subscriber \in Nat
  BY DEF StreamInv, StreamTypes
<1>2. c \in Seq(Element) /\ IsSuffix(Replay(c), Append(Replay(b), e))
  BY <1>1, PushReplays
<1> HIDE DEF b, c
<1>3. PICK sub \in (IF s.subscriber = page THEN {page} ELSE {s.subscriber, 0}) :
        stream' = [s EXCEPT !.buffer = Push(@, kind, e), !.subscriber = sub]
  BY DEF Deliver
<1>4. stream' = [s EXCEPT !.buffer = c, !.subscriber = sub]
  BY <1>3 DEF b, c
<1>5. sub \in Nat /\ sub <= page /\ (sub = page => stream.subscriber = page)
  BY <1>1, <1>3 DEF StreamInv, PagesPast
<1>6. /\ stream' \in [run : Runs \cup {None}, buffer : Seq(Element), subscriber : Nat, settled : BOOLEAN]
      /\ stream'.run = stream.run /\ stream'.settled = s.settled
      /\ stream'.subscriber = sub /\ stream'.buffer = c
  BY <1>2, <1>4, <1>5
<1>7. view' = IF stream.subscriber = page THEN Append(view, e) ELSE view
  BY DEF Deliver
<1>8. Append(view, e) \in Seq(Event)
  BY <1>1, AppendProperties
<1>9. Replay(b) \in Seq(Event) /\ Append(Replay(b), e) \in Seq(Event) /\ Replay(c) \in Seq(Event)
  <2>1. Replay(b) \in Seq(Event) /\ Replay(c) \in Seq(Event)
    BY <1>1, <1>2, ReplayType
  <2> QED  BY <2>1, AppendProperties
<1>10. Published \in Seq(Event) /\ Append(Published, e) \in Seq(Event)
  <2>1. Published = PublishedOf(stream.run, sent[stream.run], stream.settled)
    BY DEF Published, PublishedOf, Numbered
  <2>2. stream.run \in Runs /\ sent[stream.run] \in Nat /\ stream.settled \in BOOLEAN
    BY DEF StreamInv, StreamTypes
  <2>3. Published \in Seq(Event)
    BY <2>1, <2>2, PublishedOfIs
  <2> QED  BY <2>3, AppendProperties
<1>11. IsSuffix(Replay(b), Published)
  BY DEF StreamInv, NothingMissed, b
<1>12. IsSuffix(Replay(c), Append(Published, e))
  <2>1. IsSuffix(Append(Replay(b), e), Append(Published, e))
    BY <1>9, <1>10, <1>11, SuffixAppend
  <2> QED  BY <1>2, <1>9, <1>10, <2>1, SuffixTransitive
<1>13. ASSUME token.run = stream.run, stream.subscriber = page
       PROVE  IsSuffix(Replay(c), Append(view, e)) /\ IsSuffix(Append(view, e), Append(Published, e))
  <2>1. IsSuffix(Replay(b), view) /\ IsSuffix(view, Published)
    BY <1>13 DEF StreamInv, NothingMissed, b
  <2>2. IsSuffix(Append(Replay(b), e), Append(view, e))
    BY <1>1, <1>9, <2>1, SuffixAppend
  <2>3. IsSuffix(Append(view, e), Append(Published, e))
    BY <1>1, <1>10, <2>1, SuffixAppend
  <2> QED  BY <1>2, <1>8, <1>9, <2>2, <2>3, SuffixTransitive
<1>14. NothingMissed'
  BY <1>5, <1>6, <1>7, <1>12, <1>13 DEF NothingMissed
<1> QED  BY <1>1, <1>5, <1>6, <1>7, <1>8, <1>14

-----------------------------------------------------------------------------
(* The steps *)

LEMMA StreamInitInv == StreamInit => StreamInv
<1> SUFFICES ASSUME StreamInit PROVE StreamInv
  OBVIOUS
<1> USE NoneIsNoRun DEF StreamInit
<1>1. StreamTypes
  <2>1. <<>> \in Seq(Element) /\ <<>> \in Seq(Event)
    BY EmptySeq
  <2> QED  BY <2>1 DEF StreamTypes, NoStream, NoToken, NoView
<1>2. OneRunStreams /\ StreamHasRun /\ PagesPast
  BY DEF OneRunStreams, StreamHasRun, PagesPast, Waiting, NoStream
<1>3. PageKnows
  BY DEF PageKnows, NoStream, NoToken, NoView, Waiting
<1>4. NothingMissed /\ ConcludedIsOver
  BY DEF NothingMissed, ConcludedIsOver, NoStream
<1> QED  BY <1>1, <1>2, <1>3, <1>4 DEF StreamInv

\* The page invokes a run.
LEMMA InvokeKeeps ==
  ASSUME StreamInv, NEW r \in Runs, Invoke(r)
  PROVE  StreamInv'
<1> USE NoneIsNoRun DEF StreamInv
<1>1. /\ worker[r] = "idle" /\ token = NoToken /\ adoption = "done"
      /\ worker' = [worker EXCEPT ![r] = "invoked"] /\ invoker' = [invoker EXCEPT ![r] = page]
      /\ token' = [run |-> r, by |-> "invoke"] /\ view' = <<>>
      /\ registry' = registry /\ sent' = sent /\ stream' = stream /\ page' = page /\ adoption' = adoption
  BY DEF Invoke, NoView
<1>2. StreamTypes'
  <2>1. <<>> \in Seq(Event)
    BY EmptySeq
  <2> QED  BY <1>1, <2>1 DEF StreamTypes
<1>3. \A x \in Runs : worker'[x] = IF x = r THEN "invoked" ELSE worker[x]
  BY <1>1 DEF StreamTypes
<1>4. \A x \in Runs : invoker'[x] = IF x = r THEN page ELSE invoker[x]
  BY <1>1 DEF StreamTypes
<1>5. stream.run # r
  BY <1>1 DEF StreamTypes, StreamHasRun, ConcludedIsOver
<1>6. OneRunStreams' /\ StreamHasRun'
  BY <1>1, <1>3, <1>5 DEF OneRunStreams, StreamHasRun, Waiting, StreamTypes
<1>7. PagesPast'
  BY <1>1, <1>4 DEF PagesPast, StreamTypes
<1>8. ~(stream.run # None /\ ~stream.settled /\ stream.subscriber = page)
  BY <1>1 DEF PageKnows, NoToken
<1>9. PageKnows'
  BY <1>1, <1>3, <1>4, <1>8 DEF PageKnows, NoToken, NoView, Waiting, StreamTypes
<1>10. NothingMissed' /\ ConcludedIsOver'
  BY <1>1, <1>3, <1>5 DEF NothingMissed, ConcludedIsOver, Published, StreamTypes, StreamHasRun
<1> QED  BY <1>2, <1>6, <1>7, <1>9, <1>10 DEF StreamInv

\* A step of a run that leaves the stream and the page alone.
LEMMA RunMoves ==
  ASSUME StreamInv, NEW r \in Runs,
         NEW to \in {"registered", "live", "finished", "over"},
         worker' = [worker EXCEPT ![r] = to],
         registry' \in Runs \cup {None},
         UNCHANGED <<invoker, sent, stream, page, adoption, token, view>>,
         \/ /\ worker[r] = "invoked" /\ registry = None /\ registry' = r /\ to = "registered"
         \/ /\ worker[r] = "invoked" /\ registry' = registry /\ to = "over"
         \/ /\ worker[r] = "registered" /\ registry' = None /\ to = "over"
         \/ /\ worker[r] = "begun" /\ registry' = registry /\ to = "live"
         \/ /\ worker[r] = "live" /\ registry' = None /\ to = "finished"
  PROVE  StreamInv'
<1> USE NoneIsNoRun DEF StreamInv
<1>1. StreamTypes'
  BY DEF StreamTypes
<1>2. \A x \in Runs : worker'[x] = IF x = r THEN to ELSE worker[x]
  BY DEF StreamTypes
<1>3. OneRunStreams'
  BY <1>2 DEF OneRunStreams, Waiting, StreamTypes
<1>4. StreamHasRun' /\ ConcludedIsOver'
  BY <1>2 DEF StreamHasRun, ConcludedIsOver, StreamTypes
<1>5. PagesPast'
  BY DEF PagesPast
<1>6. PageKnows'
  BY <1>2 DEF PageKnows, Waiting, StreamTypes
<1>7. NothingMissed'
  BY DEF NothingMissed, Published
<1> QED  BY <1>1, <1>3, <1>4, <1>5, <1>6, <1>7 DEF StreamInv

LEMMA RunMovesKeep ==
  ASSUME StreamInv, NEW r \in Runs,
         RegisterRun(r) \/ StartFails(r) \/ Accepted(r) \/ FinishModelRun(r)
  PROVE  StreamInv'
<1>0. registry \in Runs \cup {None}
  BY DEF StreamInv, StreamTypes
<1>1. CASE RegisterRun(r)
  <2>1. CASE registry = None
    BY <1>1, <2>1, RunMoves DEF RegisterRun
  <2>2. CASE registry # None
    BY <1>0, <1>1, <2>2, RunMoves DEF RegisterRun
  <2> QED  BY <2>1, <2>2
<1>2. CASE StartFails(r)
  BY <1>2, RunMoves DEF StartFails
<1>3. CASE Accepted(r)
  BY <1>0, <1>3, RunMoves DEF Accepted
<1>4. CASE FinishModelRun(r)
  BY <1>4, RunMoves DEF FinishModelRun
<1> QED  BY <1>1, <1>2, <1>3, <1>4

\* A run begins its stream: nothing is published of it, and the page that
\* invoked it, if it is still there, has nothing else in view.
LEMMA BeginKeeps ==
  ASSUME StreamInv, NEW r \in Runs, Begin(r)
  PROVE  StreamInv'
<1> USE NoneIsNoRun DEF StreamInv
<1>1. /\ worker[r] = "registered" /\ worker' = [worker EXCEPT ![r] = "begun"]
      /\ stream' = [NoStream EXCEPT !.run = r, !.subscriber = invoker[r]]
      /\ UNCHANGED <<registry, invoker, sent, page, adoption, token, view>>
  BY DEF Begin
<1>2. /\ stream' \in [run : Runs \cup {None}, buffer : Seq(Element), subscriber : Nat, settled : BOOLEAN]
      /\ stream'.run = r /\ stream'.buffer = <<>> /\ stream'.subscriber = invoker[r] /\ ~stream'.settled
  <2>1. <<>> \in Seq(Element)
    BY EmptySeq
  <2> QED  BY <1>1, <2>1 DEF NoStream, StreamTypes
<1>3. StreamTypes'
  BY <1>1, <1>2 DEF StreamTypes
<1>4. \A x \in Runs : worker'[x] = IF x = r THEN "begun" ELSE worker[x]
  BY <1>1 DEF StreamTypes
<1>5. OneRunStreams'
  BY <1>1, <1>2, <1>4 DEF OneRunStreams, Waiting, StreamTypes
<1>6. StreamHasRun' /\ ConcludedIsOver' /\ PagesPast'
  BY <1>1, <1>2, <1>4 DEF StreamHasRun, ConcludedIsOver, PagesPast
<1>7. PageKnows'
  BY <1>1, <1>2, <1>4 DEF PageKnows, Waiting, StreamTypes
<1>8. NothingMissed'
  <2>1. sent'[r] = 0
    BY <1>1 DEF OneRunStreams, Waiting
  <2>2. Published' = PublishedOf(r, 0, FALSE)
    BY <1>2, <2>1 DEF Published, PublishedOf, Numbered
  <2>3. Published' \in Seq(Event)
    BY <2>2, PublishedOfIs
  <2>4. Replay(stream'.buffer) = <<>>
    BY <1>2, ReplayEmpty
  <2>5. token'.run = r => view' = <<>>
    BY <1>1 DEF PageKnows, Waiting, NoView
  <2>6. IsSuffix(<<>>, Published') /\ IsSuffix(<<>>, <<>>)
    <3>1. <<>> \in Seq(Event)
      BY EmptySeq
    <3> QED  BY <2>3, <3>1, SuffixSelf
  <2> QED  BY <1>2, <2>4, <2>5, <2>6 DEF NothingMissed
<1> QED  BY <1>3, <1>5, <1>6, <1>7, <1>8 DEF StreamInv

\* The stream of a run whose start is refused is dropped.
LEMMA DiscardKeeps ==
  ASSUME StreamInv, NEW r \in Runs, Discard(r)
  PROVE  StreamInv'
<1> USE NoneIsNoRun DEF StreamInv
<1>1. /\ worker[r] = "begun" /\ worker' = [worker EXCEPT ![r] = "over"] /\ registry' = None
      /\ stream' = NoStream
      /\ UNCHANGED <<invoker, sent, page, adoption, token, view>>
  BY DEF Discard, OneRunStreams
<1>2. StreamTypes'
  <2>1. NoStream \in [run : Runs \cup {None}, buffer : Seq(Element), subscriber : Nat, settled : BOOLEAN]
    BY EmptySeq DEF NoStream
  <2> QED  BY <1>1, <2>1 DEF StreamTypes
<1>3. \A x \in Runs : worker'[x] = IF x = r THEN "over" ELSE worker[x]
  BY <1>1 DEF StreamTypes
<1>4. stream'.run = None /\ ~stream'.settled /\ stream'.subscriber = 0
  BY <1>1 DEF NoStream
<1>5. OneRunStreams'
  BY <1>1, <1>3 DEF OneRunStreams, Waiting
<1>6. StreamHasRun' /\ ConcludedIsOver' /\ NothingMissed' /\ PagesPast'
  BY <1>1, <1>4 DEF StreamHasRun, ConcludedIsOver, NothingMissed, PagesPast, StreamTypes
<1>7. PageKnows'
  BY <1>1, <1>3, <1>4 DEF PageKnows, Waiting, StreamTypes
<1> QED  BY <1>2, <1>5, <1>6, <1>7 DEF StreamInv

\* An event is published on the open stream r.
LEMMA EventKeeps ==
  ASSUME StreamInv, NEW r \in Runs, stream.run = r, ~stream.settled,
         NEW kind \in {"delta", "card"},
         sent' = [sent EXCEPT ![r] = @ + 1],
         Deliver(stream, kind, <<r, sent[r] + 1>>),
         UNCHANGED <<registry, worker, invoker, page, adoption, token>>
  PROVE  StreamInv'
<1> USE NoneIsNoRun DEF StreamInv
<1> DEFINE e == <<r, sent[r] + 1>>
<1>1. sent[r] \in Nat /\ e \in Event /\ sent' \in [Runs -> Nat] /\ sent'[r] = sent[r] + 1
  BY DEF StreamTypes, Event
<1>2. stream.run' = r /\ stream.settled' = FALSE
  BY DEF Deliver, StreamTypes
<1>3. Published' = Append(Published, e)
  <2>1. Published = PublishedOf(r, sent[r], FALSE) /\ Published' = PublishedOf(r, sent[r] + 1, FALSE)
    BY <1>1, <1>2 DEF Published, PublishedOf, Numbered
  <2>2. Published = Numbered(r, sent[r]) /\ Published' = Numbered(r, sent[r] + 1)
    BY <1>1, <2>1, PublishedOfIs
  <2> QED  BY <1>1, <2>2, NumberedGrows
<1>4. stream \in [run : Runs \cup {None}, buffer : Seq(Element), subscriber : Nat, settled : BOOLEAN]
      /\ stream.run # None
  BY DEF StreamTypes
<1>5. /\ stream' \in [run : Runs \cup {None}, buffer : Seq(Element), subscriber : Nat, settled : BOOLEAN]
      /\ view' \in Seq(Event) /\ stream'.run = stream.run /\ stream'.settled = stream.settled
      /\ stream'.subscriber <= page
      /\ stream'.subscriber = page => stream.subscriber = page
      /\ stream.subscriber # page => view' = view
      /\ NothingMissed'
  <2> HIDE DEF e, StreamInv
  <2> QED  BY <1>1, <1>3, <1>4, DeliverKeeps DEF e
<1>6. StreamTypes' /\ PagesPast'
  BY <1>1, <1>5 DEF StreamTypes, PagesPast
<1>7. worker[r] \in {"begun", "live", "finished"}
  BY DEF StreamHasRun
<1>8. OneRunStreams'
  <2>1. \A x \in Runs : x # r => sent'[x] = sent[x]
    BY DEF StreamTypes
  <2> QED  BY <1>5, <1>7, <2>1 DEF OneRunStreams, Waiting
<1>9. StreamHasRun' /\ ConcludedIsOver'
  BY <1>5 DEF StreamHasRun, ConcludedIsOver
<1>10. PageKnows'
  <2>1. stream.subscriber = page => token.run = r
    BY DEF PageKnows
  <2> QED  BY <1>5, <1>7, <2>1 DEF PageKnows, Waiting, NoView
<1> QED  BY <1>5, <1>6, <1>8, <1>9, <1>10 DEF StreamInv

LEMMA PublishKeeps ==
  ASSUME StreamInv,
         \/ \E r \in Runs, kind \in {"delta", "card"} : Publish(r, kind)
         \/ PublishLive
  PROVE  StreamInv'
<1>1. CASE \E r \in Runs, kind \in {"delta", "card"} : Publish(r, kind)
  <2>1. PICK r \in Runs, kind \in {"delta", "card"} : Publish(r, kind)
    BY <1>1
  <2>2. stream.run = r /\ ~stream.settled
    BY <2>1 DEF Publish, StreamInv, OneRunStreams
  <2> QED  BY <2>1, <2>2, EventKeeps DEF Publish
<1>2. CASE PublishLive
  <2>1. stream.run \in Runs
    BY <1>2 DEF PublishLive, StreamInv, StreamTypes
  <2> QED  BY <1>2, <2>1, EventKeeps DEF PublishLive
<1> QED  BY <1>1, <1>2

\* A run settles: its own stream is still open, or another has replaced it.
LEMMA SettleKeeps ==
  ASSUME StreamInv, NEW r \in Runs, SettleStream(r)
  PROVE  StreamInv'
<1> USE NoneIsNoRun DEF StreamInv
<1>1. /\ worker[r] = "finished" /\ worker' = [worker EXCEPT ![r] = "over"]
      /\ UNCHANGED <<registry, invoker, sent, page, adoption, token>>
  BY DEF SettleStream
<1>2. \A x \in Runs : worker'[x] = IF x = r THEN "over" ELSE worker[x]
  BY <1>1 DEF StreamTypes
<1>3. CASE stream.run = r
  <2> DEFINE s == [stream EXCEPT !.settled = TRUE]
  <2>1. Deliver(s, "card", Marker(r))
    BY <1>3 DEF SettleStream
  <2>2. ~stream.settled
    BY <1>1, <1>3 DEF ConcludedIsOver
  <2>3. /\ s \in [run : Runs \cup {None}, buffer : Seq(Element), subscriber : Nat, settled : BOOLEAN]
        /\ s.run = stream.run /\ s.buffer = stream.buffer /\ s.subscriber = stream.subscriber
        /\ s.settled = TRUE
    BY DEF StreamTypes
  <2>4. sent[r] \in Nat /\ Marker(r) \in Event
    BY DEF StreamTypes, Marker, Event
  <2> HIDE DEF s
  <2>5. stream'.run = r /\ stream'.settled = TRUE
    BY <1>3, <2>1, <2>3 DEF Deliver
  <2>6. Published' = Append(Published, Marker(r))
    <3>1. Published = PublishedOf(r, sent[r], FALSE) /\ Published' = PublishedOf(r, sent[r], TRUE)
      BY <1>1, <1>3, <2>2, <2>5 DEF Published, PublishedOf, Numbered
    <3> QED  BY <2>4, <3>1, PublishedOfIs
  <2>7. /\ stream' \in [run : Runs \cup {None}, buffer : Seq(Element), subscriber : Nat, settled : BOOLEAN]
        /\ view' \in Seq(Event) /\ stream'.run = r /\ stream'.settled
        /\ stream'.subscriber <= page
        /\ stream.subscriber # page => view' = view
        /\ NothingMissed'
    <3>1. stream.run # None
      BY <1>3
    <3> HIDE DEF StreamInv
    <3> QED  BY <1>1, <1>3, <2>1, <2>3, <2>4, <2>6, <3>1, DeliverKeeps
  <2>8. StreamTypes' /\ PagesPast'
    BY <1>1, <2>7 DEF StreamTypes, PagesPast
  <2>9. OneRunStreams'
    BY <1>1, <1>2, <1>3, <2>7 DEF OneRunStreams, Waiting
  <2>10. StreamHasRun' /\ ConcludedIsOver'
    BY <1>2, <2>7 DEF StreamHasRun, ConcludedIsOver
  <2>11. PageKnows'
    <3>1. stream.subscriber = page => token.run = r
      BY <1>3, <2>2 DEF PageKnows
    <3> QED  BY <1>1, <1>2, <2>7, <3>1 DEF PageKnows, Waiting, NoView, StreamTypes
  <2> QED  BY <2>7, <2>8, <2>9, <2>10, <2>11 DEF StreamInv
<1>4. CASE stream.run # r
  <2>1. stream' = stream /\ view' = view
    BY <1>4 DEF SettleStream
  <2>2. StreamTypes' /\ PagesPast'
    BY <1>1, <2>1 DEF StreamTypes, PagesPast
  <2>3. OneRunStreams' /\ StreamHasRun' /\ ConcludedIsOver'
    BY <1>1, <1>2, <1>4, <2>1 DEF OneRunStreams, Waiting, StreamHasRun, ConcludedIsOver, StreamTypes
  <2>4. PageKnows'
    BY <1>1, <1>2, <2>1 DEF PageKnows, Waiting, StreamTypes
  <2>5. NothingMissed'
    BY <1>1, <2>1 DEF NothingMissed, Published
  <2> QED  BY <2>2, <2>3, <2>4, <2>5 DEF StreamInv
<1> QED  BY <1>3, <1>4

\* The page has nothing of a run any more: an open stream must not count on it.
LEMMA PageForgets ==
  ASSUME StreamInv, token' = NoToken, view' = NoView,
         UNCHANGED <<registry, worker, invoker, sent, page, adoption>>,
         stream' = stream \/ (stream.settled /\ stream' = NoStream),
         \A r \in Runs : ~(worker[r] \in {"invoked", "registered"} /\ invoker[r] = page),
         ~(stream.run # None /\ ~stream.settled /\ stream.subscriber = page)
  PROVE  StreamInv'
<1> USE NoneIsNoRun DEF StreamInv
<1>1. StreamTypes'
  <2>1. NoStream \in [run : Runs \cup {None}, buffer : Seq(Element), subscriber : Nat, settled : BOOLEAN]
    BY EmptySeq DEF NoStream
  <2>2. NoToken \in [run : Runs \cup {None}, by : {"none", "invoke", "adopt", "claim"}]
    BY DEF NoToken
  <2>3. NoView \in Seq(Event)
    BY EmptySeq DEF NoView
  <2> QED  BY <2>1, <2>2, <2>3 DEF StreamTypes
<1>2. token'.run = None /\ token'.by = "none"
  BY DEF NoToken
<1>3. CASE stream' = stream
  <2>1. OneRunStreams' /\ StreamHasRun' /\ ConcludedIsOver' /\ PagesPast'
    BY <1>3 DEF OneRunStreams, Waiting, StreamHasRun, ConcludedIsOver, PagesPast
  <2>2. PageKnows'
    BY <1>2, <1>3 DEF PageKnows, Waiting
  <2>3. NothingMissed'
    BY <1>2, <1>3 DEF NothingMissed, Published
  <2> QED  BY <1>1, <2>1, <2>2, <2>3 DEF StreamInv
<1>4. CASE stream.settled /\ stream' = NoStream
  <2>1. stream'.run = None /\ ~stream'.settled /\ stream'.subscriber = 0
    BY <1>4 DEF NoStream
  <2>2. OneRunStreams' /\ StreamHasRun' /\ ConcludedIsOver' /\ PagesPast'
    BY <1>4, <2>1 DEF OneRunStreams, Waiting, StreamHasRun, ConcludedIsOver, PagesPast, StreamTypes
  <2>3. PageKnows'
    BY <1>2, <2>1 DEF PageKnows, Waiting
  <2>4. NothingMissed'
    BY <2>1 DEF NothingMissed
  <2> QED  BY <1>1, <2>2, <2>3, <2>4 DEF StreamInv
<1> QED  BY <1>3, <1>4

LEMMA TurnEndsKeeps ==
  ASSUME StreamInv, TurnEnds
  PROVE  StreamInv'
<1>1. token.by \in {"invoke", "claim"} /\ worker[token.run] = "over"
  BY DEF TurnEnds, StreamInv, PageKnows
<1>2. \A r \in Runs : ~(worker[r] \in {"invoked", "registered"} /\ invoker[r] = page)
  BY <1>1 DEF StreamInv, PageKnows
<1>3. ~(stream.run # None /\ ~stream.settled /\ stream.subscriber = page)
  BY <1>1 DEF StreamInv, PageKnows, StreamHasRun
<1> QED  BY <1>2, <1>3, PageForgets DEF TurnEnds

\* The marker is no event of an open stream, so a page that has it in view does
\* not follow one.
LEMMA TakeSettlementKeeps ==
  ASSUME StreamInv, TakeSettlement
  PROVE  StreamInv'
<1>1. \A r \in Runs : ~(worker[r] \in {"invoked", "registered"} /\ invoker[r] = page)
  BY DEF TakeSettlement, StreamInv, PageKnows
<1>2. ASSUME stream.run # None, ~stream.settled, stream.subscriber = page PROVE FALSE
  <2> DEFINE r == stream.run
  <2> DEFINE n == sent[r]
  <2> DEFINE p == Numbered(r, n)
  <2>1. r \in Runs /\ n \in Nat /\ token.run = r /\ view \in Seq(Event)
    BY <1>2 DEF StreamInv, StreamTypes, PageKnows
  <2>2. PICK i \in 1..Len(view) : view[i] = <<r, 0>>
    BY <2>1 DEF TakeSettlement, Contains, Marker
  <2>3. Published = p
    <3>1. Published = PublishedOf(r, n, FALSE)
      BY <1>2 DEF Published, PublishedOf, Numbered
    <3> QED  BY <2>1, <3>1, PublishedOfIs
  <2>4. p \in Seq(Event) /\ Len(p) = n /\ \A j \in 1..n : p[j] = <<r, j>>
    BY <2>1, NumberedIs
  <2>5. IsSuffix(view, p)
    BY <1>2, <2>1, <2>3 DEF StreamInv, NothingMissed
  <2> HIDE DEF p, n, r
  <2>6. Len(view) <= n /\ \A j \in 1..Len(view) : view[j] = p[(n - Len(view)) + j]
    BY <2>1, <2>4, <2>5, SuffixIs
  <2>7. Len(view) \in Nat
    BY <2>1, LenProperties
  <2>8. (n - Len(view)) + i \in 1..n /\ (n - Len(view)) + i # 0
    BY <2>1, <2>6, <2>7
  <2>9. view[i] = <<r, (n - Len(view)) + i>>
    BY <2>4, <2>6, <2>8
  <2> QED  BY <2>2, <2>8, <2>9
<1>3. stream' = stream \/ (stream.settled /\ stream' = NoStream)
  BY DEF TakeSettlement
<1> QED  BY <1>1, <1>2, <1>3, PageForgets DEF TakeSettlement

\* A reload: every channel is of an earlier page now.
LEMMA ReloadKeeps ==
  ASSUME StreamInv, Reload
  PROVE  StreamInv'
<1> USE NoneIsNoRun DEF StreamInv
<1>1. /\ page' = page + 1 /\ adoption' = "due" /\ token' = NoToken /\ view' = <<>>
      /\ UNCHANGED <<registry, worker, invoker, sent, stream>>
      /\ token'.run = None /\ token'.by = "none"
  BY DEF Reload, NoView, NoToken
<1>2. page \in Nat /\ stream.subscriber \in Nat /\ \A r \in Runs : invoker[r] \in Nat
  BY DEF StreamTypes
<1>3. stream.subscriber < page' /\ \A r \in Runs : invoker[r] < page'
  BY <1>1, <1>2 DEF PagesPast
<1>4. StreamTypes'
  <2>1. NoToken \in [run : Runs \cup {None}, by : {"none", "invoke", "adopt", "claim"}]
    BY DEF NoToken
  <2>2. <<>> \in Seq(Event)
    BY EmptySeq
  <2> QED  BY <1>1, <2>1, <2>2 DEF StreamTypes
<1>5. OneRunStreams' /\ StreamHasRun' /\ ConcludedIsOver'
  BY <1>1 DEF OneRunStreams, Waiting, StreamHasRun, ConcludedIsOver
<1>6. PagesPast'
  BY <1>1, <1>2 DEF PagesPast
<1>7. PageKnows'
  BY <1>1, <1>2, <1>3 DEF PageKnows, Waiting
<1>8. NothingMissed'
  BY <1>1 DEF NothingMissed, Published
<1> QED  BY <1>4, <1>5, <1>6, <1>7, <1>8 DEF StreamInv

\* The new page adopts an open stream: its view is the replay.
LEMMA AttachRunningKeeps ==
  ASSUME StreamInv, AttachRunning
  PROVE  StreamInv'
<1> USE NoneIsNoRun DEF StreamInv
<1> DEFINE r == stream.run
<1>1. /\ adoption = "due" /\ r \in Runs /\ ~stream.settled
      /\ stream' = [stream EXCEPT !.subscriber = page]
      /\ token' = [run |-> r, by |-> "adopt"] /\ view' = Replay(stream.buffer) /\ adoption' = "done"
      /\ UNCHANGED <<registry, worker, invoker, sent, page>>
  BY DEF AttachRunning, StreamTypes
<1>2. /\ stream' \in [run : Runs \cup {None}, buffer : Seq(Element), subscriber : Nat, settled : BOOLEAN]
      /\ stream'.run = r /\ stream'.buffer = stream.buffer /\ stream'.subscriber = page
      /\ ~stream'.settled
  BY <1>1 DEF StreamTypes
<1>3. Replay(stream.buffer) \in Seq(Event)
  BY ReplayType DEF StreamTypes
<1>4. StreamTypes'
  BY <1>1, <1>2, <1>3 DEF StreamTypes
<1>5. OneRunStreams' /\ StreamHasRun' /\ ConcludedIsOver'
  BY <1>1, <1>2 DEF OneRunStreams, Waiting, StreamHasRun, ConcludedIsOver
<1>6. PagesPast'
  BY <1>1, <1>2 DEF PagesPast, StreamTypes
<1>7. PageKnows'
  <2>1. worker[r] \in {"begun", "live", "finished"}
    BY <1>1 DEF StreamHasRun
  <2>2. token = NoToken
    BY <1>1 DEF PageKnows
  <2>3. \A x \in Runs : ~(worker[x] \in {"invoked", "registered"} /\ invoker[x] = page)
    BY <2>2 DEF PageKnows, NoToken
  <2> QED  BY <1>1, <1>2, <2>1, <2>3 DEF PageKnows, Waiting
<1>8. NothingMissed'
  <2>1. Published' = Published
    BY <1>1, <1>2 DEF Published
  <2>2. IsSuffix(Replay(stream.buffer), Published)
    BY <1>1 DEF NothingMissed
  <2>3. IsSuffix(Replay(stream.buffer), Replay(stream.buffer))
    BY <1>3, SuffixSelf
  <2> QED  BY <1>1, <1>2, <2>1, <2>2, <2>3 DEF NothingMissed
<1> QED  BY <1>4, <1>5, <1>6, <1>7, <1>8 DEF StreamInv

\* It claims a settled one, or finds none.
LEMMA AdoptionEndsKeeps ==
  ASSUME StreamInv, AttachFinished \/ NothingToAdopt
  PROVE  StreamInv'
<1> USE NoneIsNoRun DEF StreamInv
<1>1. /\ adoption = "due" /\ adoption' = "done" /\ token = NoToken
      /\ UNCHANGED <<registry, worker, invoker, sent, page, view>>
  BY DEF AttachFinished, NothingToAdopt, PageKnows
<1>2. token.run = None /\ token.by = "none"
  BY <1>1 DEF NoToken
<1>3. \A x \in Runs : ~(worker[x] \in {"invoked", "registered"} /\ invoker[x] = page)
  BY <1>2 DEF PageKnows
<1>4. /\ stream' \in [run : Runs \cup {None}, buffer : Seq(Element), subscriber : Nat, settled : BOOLEAN]
      /\ stream'.run = None /\ ~stream'.settled /\ stream'.subscriber <= page
  <2>1. CASE AttachFinished
    <3>1. /\ NoStream \in [run : Runs \cup {None}, buffer : Seq(Element), subscriber : Nat, settled : BOOLEAN]
          /\ NoStream.run = None /\ NoStream.subscriber = 0 /\ ~NoStream.settled
      BY EmptySeq DEF NoStream
    <3> QED  BY <2>1, <3>1 DEF AttachFinished, StreamTypes
  <2>2. CASE NothingToAdopt
    <3>1. stream' = stream /\ stream.run = None
      BY <2>2 DEF NothingToAdopt
    <3> QED  BY <3>1 DEF StreamTypes, StreamHasRun, PagesPast
  <2> QED  BY <2>1, <2>2
<1>5. /\ token' \in [run : Runs \cup {None}, by : {"none", "invoke", "adopt", "claim"}]
      /\ token'.run = None <=> token'.by = "none"
      /\ token'.run # None => token'.by = "claim" /\ worker[token'.run] = "over"
  <2>1. CASE AttachFinished
    <3>1. stream.run \in Runs /\ worker[stream.run] = "over"
      BY <2>1 DEF AttachFinished, StreamTypes, StreamHasRun, ConcludedIsOver
    <3> QED  BY <2>1, <3>1 DEF AttachFinished
  <2>2. CASE NothingToAdopt
    BY <1>2, <2>2 DEF NothingToAdopt, StreamTypes
  <2> QED  BY <2>1, <2>2
<1>6. StreamTypes' /\ PagesPast'
  BY <1>1, <1>4, <1>5 DEF StreamTypes, PagesPast
<1>7. \A r \in Runs : worker[r] \notin {"begun", "live"}
  BY DEF AttachFinished, NothingToAdopt, OneRunStreams
<1>8. OneRunStreams' /\ StreamHasRun' /\ ConcludedIsOver' /\ NothingMissed'
  BY <1>1, <1>4, <1>7 DEF OneRunStreams, Waiting, StreamHasRun, ConcludedIsOver, NothingMissed
<1>9. PageKnows'
  BY <1>1, <1>3, <1>4, <1>5 DEF PageKnows, Waiting
<1> QED  BY <1>6, <1>8, <1>9 DEF StreamInv

LEMMA StreamStep == StreamInv /\ [StreamNext]_svars => StreamInv'
<1> SUFFICES ASSUME StreamInv, [StreamNext]_svars PROVE StreamInv'
  OBVIOUS
<1>1. CASE UNCHANGED svars
  BY <1>1 DEF svars, StreamInv, StreamTypes, OneRunStreams, Waiting, StreamHasRun, PagesPast,
              PageKnows, NothingMissed, Published, ConcludedIsOver
<1>2. ASSUME NEW r \in Runs, Invoke(r) PROVE StreamInv'
  BY <1>2, InvokeKeeps
<1>3. ASSUME NEW r \in Runs, RunStep(r) PROVE StreamInv'
  BY <1>3, RunMovesKeep, BeginKeeps, DiscardKeeps, SettleKeeps DEF RunStep
<1>4. CASE PageStep
  BY <1>4, TurnEndsKeeps, AttachRunningKeeps, AdoptionEndsKeeps, TakeSettlementKeeps DEF PageStep
<1> QED  BY <1>1, <1>2, <1>3, <1>4, PublishKeeps, ReloadKeeps DEF StreamNext

LEMMA StreamInvariant == StreamSpec => []StreamInv
  BY StreamInitInv, StreamStep, PTL DEF StreamSpec

\* The buffer, whatever was merged or evicted, ends what was published, and the
\* page that follows the run has everything the buffer holds, whether by replay
\* or as it was sent (EventBuffer::push, attach).
THEOREM StreamNothingMissed == StreamSpec => []NothingMissed
<1>1. StreamInv => NothingMissed
  BY DEF StreamInv
<1> QED  BY <1>1, StreamInvariant, PTL

\* Only the end of its own run concludes a stream (settle).
THEOREM StreamConcludedIsOver == StreamSpec => []ConcludedIsOver
<1>1. StreamInv => ConcludedIsOver
  BY DEF StreamInv
<1> QED  BY <1>1, StreamInvariant, PTL
=============================================================================
