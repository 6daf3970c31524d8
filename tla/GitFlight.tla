------------------------------ MODULE GitFlight ------------------------------
(***************************************************************************)
(* Shared status reads of one checkout (git_flight.rs) under the leases    *)
(* their callers hold (lib.rs): a summary call joins the read in flight or *)
(* one that just finished, or becomes the reader; a Git action changes the *)
(* checkout and forgets its read.  Calls of a summary hold the checkout's  *)
(* shared lease, actions its exclusive one.  Checkouts do not interact:    *)
(* one is modelled.  A flight is named by the call that reads for it.      *)
(***************************************************************************)
EXTENDS Naturals

CONSTANTS Calls,     \* get_git_workspace_summary calls, each made once
          MaxWrites  \* bound: Git actions

NoFlight == "no flight"

ASSUME GitFlightAssumption ==
  /\ MaxWrites \in Nat
  /\ NoFlight \notin Calls

VARIABLES checkout,  \* the state of the checkout: the number of actions that changed it
          gitAction, \* execute_git_action
          map,       \* the flight in FLIGHTS, if any
          flight,    \* Flight.outcome per reader
          fresh,     \* the outcome is younger than FRESHNESS
          call       \* summary() per call, its locals and its answer

fvars == <<checkout, gitAction, map, flight, fresh, call>>

Pending == [kind |-> "pending"]
Failed == [kind |-> "err"]
Read(v) == [kind |-> "ok", seen |-> v]
Outcome == {Pending, Failed} \cup {Read(v) : v \in 0..MaxWrites}

FlightInit ==
  /\ checkout = 0
  /\ gitAction = "idle"
  /\ map = NoFlight
  /\ flight = [c \in Calls |-> Pending]
  /\ fresh = [c \in Calls |-> TRUE]
  /\ call = [c \in Calls |-> [pc |-> "idle", asked |-> 0, joins |-> NoFlight, answer |-> Pending]]

\* The shared lease of a call, the exclusive one of the action.
Holding == {c \in Calls : call[c].pc \in {"reading", "waiting"}}

\* map.retain at the start of every call.
Retained(f) ==
  /\ f # NoFlight
  /\ \/ flight[f] = Pending
     \/ flight[f].kind = "ok" /\ fresh[f]

Summary(c) ==
  /\ call[c].pc = "idle"
  /\ gitAction = "idle"
  /\ LET joined == IF Retained(map) THEN map ELSE c IN
       /\ map' = joined
       /\ call' = [call EXCEPT ![c] = [@ EXCEPT !.pc = IF joined = c THEN "reading" ELSE "waiting",
                                                !.asked = checkout, !.joins = joined]]
  /\ UNCHANGED <<checkout, gitAction, flight, fresh>>

\* Mutant: the panicking reader leaves the flight open.
ReaderPanicsSilently(c) ==
  /\ call[c].pc = "reading"
  /\ call' = [call EXCEPT ![c].pc = "done", ![c].answer = Failed]
  /\ UNCHANGED <<checkout, gitAction, map, flight, fresh>>

\* The reader's outcome is stored, then handed to the reader itself.
SettleFlight(c, outcome) ==
  /\ call[c].pc = "reading"
  /\ flight' = [flight EXCEPT ![c] = outcome]
  /\ call' = [call EXCEPT ![c].pc = "done", ![c].answer = outcome]
  /\ UNCHANGED <<checkout, gitAction, map, fresh>>

ReadSucceeds(c) == SettleFlight(c, Read(checkout))

ReadFails(c) == SettleFlight(c, Failed)

\* Settle::drop while the reader unwinds.
ReaderPanics(c) == SettleFlight(c, Failed)

Wake(c) ==
  /\ call[c].pc = "waiting"
  /\ flight[call[c].joins] # Pending
  /\ call' = [call EXCEPT ![c].pc = "done", ![c].answer = flight[call[c].joins]]
  /\ UNCHANGED <<checkout, gitAction, map, flight, fresh>>

Expire(c) ==
  /\ flight[c] # Pending /\ fresh[c]
  /\ fresh' = [fresh EXCEPT ![c] = FALSE]
  /\ UNCHANGED <<checkout, gitAction, map, flight, call>>

\* The action runs; it may fail after it changed the checkout.
ExecuteAction ==
  /\ gitAction = "idle" /\ Holding = {}
  /\ checkout < MaxWrites
  /\ checkout' = checkout + 1
  /\ gitAction' = "wrote"
  /\ UNCHANGED <<map, flight, fresh, call>>

\* Mutant: a failed action returns before it forgets.
ForgetIfSuccessful ==
  /\ gitAction = "wrote"
  /\ map' \in {map, NoFlight}
  /\ gitAction' = "idle"
  /\ UNCHANGED <<checkout, flight, fresh, call>>

\* Still under the exclusive lease, whatever the action returned.
Forget ==
  /\ gitAction = "wrote"
  /\ map' = NoFlight
  /\ gitAction' = "idle"
  /\ UNCHANGED <<checkout, flight, fresh, call>>

CallStep(c) ==
  \/ ReadSucceeds(c)
  \/ ReadFails(c)
  \/ ReaderPanics(c)
  \/ Wake(c)

FlightNext ==
  \/ \E c \in Calls : Summary(c) \/ CallStep(c) \/ Expire(c)
  \/ ExecuteAction
  \/ Forget

FlightSpec == FlightInit /\ [][FlightNext]_fvars

\* Reads end, by an answer, an error or a panic, and woken threads run.
FlightFairSpec == FlightSpec /\ \A c \in Calls : WF_fvars(CallStep(c))

-----------------------------------------------------------------------------
(* Properties *)

\* Types, and the lease: no call is under way while an action is.
FlightTypeOK ==
  /\ checkout \in 0..MaxWrites
  /\ gitAction \in {"idle", "wrote"}
  /\ map \in Calls \cup {NoFlight}
  /\ flight \in [Calls -> Outcome]
  /\ fresh \in [Calls -> BOOLEAN]
  /\ call \in [Calls -> [pc : {"idle", "reading", "waiting", "done"}, asked : 0..MaxWrites,
                         joins : Calls \cup {NoFlight}, answer : Outcome]]
  /\ gitAction = "wrote" => Holding = {}

\* Nobody who asks after a write is answered with the state from before it,
\* although a finished read keeps answering for a while.
FreshAnswers ==
  \A c \in Calls :
    call[c].pc = "done" /\ call[c].answer.kind = "ok" => call[c].answer.seen >= call[c].asked

\* A checkout is asked one question at a time.
OneRead ==
  \A c, d \in Calls : call[c].pc = "reading" /\ call[d].pc = "reading" => c = d

\* Every call is answered although it may wait for another call's reader.
EveryCallAnswered ==
  \A c \in Calls : call[c].pc = "waiting" ~> call[c].pc = "done"
=============================================================================
