---------------------------- MODULE HostServices ----------------------------
(***************************************************************************)
(* Four services of the host that share no variable: the operation         *)
(* coordinator, the shared Git reads, the run stream hub and the document  *)
(* store.  Their product has no more to say than each alone, so a          *)
(* behaviour exercises the one it starts with and leaves the others as     *)
(* they began; one instance of this module then checks all of `Services`.  *)
(***************************************************************************)
EXTENDS OperationCoordinator, GitFlight, RunStream, DocumentStore

CONSTANT Services   \* those an instance is about

ASSUME ServicesAssumption == Services \subseteq {"coordinator", "flight", "stream", "store"}

VARIABLE service    \* the one that runs

hvars == <<cvars, fvars, svars, dvars, service>>

ServicesInit ==
  /\ service \in Services
  /\ CoordinatorInit /\ FlightInit /\ StreamInit /\ StoreInit
  /\ service # "store" => disk = Seed

\* A step of the service s; its module leaves the other services open.
Only(s, step, others) == service = s /\ step /\ UNCHANGED <<others, service>>

CoordinatorRuns == Only("coordinator", CoordinatorNext, <<fvars, svars, dvars>>)
FlightRuns      == Only("flight", FlightNext, <<cvars, svars, dvars>>)
StreamRuns      == Only("stream", StreamNext, <<cvars, fvars, dvars>>)
StoreRuns       == Only("store", StoreNext, <<cvars, fvars, svars>>)

ServicesNext == CoordinatorRuns \/ FlightRuns \/ StreamRuns \/ StoreRuns

\* The fairness of each service's own specification, for the one that runs.
ServicesSpec ==
  /\ ServicesInit /\ [][ServicesNext]_hvars
  /\ \A c \in Calls : WF_fvars(service = "flight" /\ CallStep(c))
  /\ WF_svars(service = "stream" /\ PageStep)
  /\ \A r \in Runs : WF_svars(service = "stream" /\ RunStep(r))
  /\ WF_dvars(service = "store" /\ WriterStep)
  /\ SF_dvars(service = "store" /\ WriterSaves(TRUE))
  /\ \A c \in Callers : /\ WF_dvars(service = "store" /\ CallerStep(c))
                        /\ SF_dvars(service = "store" /\ SyncSave(c, TRUE))
=============================================================================
