---------------------------- MODULE MCHostTables ----------------------------
(***************************************************************************)
(* Three tables the host's threads share, each on its own: the task pool,  *)
(* the approval cards and the cache of conversation bodies.  They share no *)
(* variable, so a behaviour exercises the one it starts with.              *)
(***************************************************************************)
EXTENDS AgentPool, ToolPrompts, BodyCache, TLC

VARIABLE table

PoolRuns   == table = "pool" /\ Next /\ UNCHANGED <<pvars, bvars, table>>
CardsRun   == table = "cards" /\ PromptNext /\ UNCHANGED <<vars, bvars, table>>
BodiesRun  == table = "bodies" /\ BodyNext /\ UNCHANGED <<vars, pvars, table>>

TablesInit ==
  /\ table \in {"pool", "cards", "bodies"}
  /\ Init
  /\ PromptInit
  /\ BodyInit

TablesNext == PoolRuns \/ CardsRun \/ BodiesRun

TablesSpec == TablesInit /\ [][TablesNext]_<<vars, pvars, bvars, table>>

\* Task names are interchangeable.
Interchangeable == Permutations(Tasks)
=============================================================================
