----------------------------- MODULE ToolPrompts -----------------------------
(***************************************************************************)
(* Approval cards (tool_prompt.rs): worker threads that block in           *)
(* ask_answer, the registry of open cards and standing allowances, the     *)
(* user who answers, the stop flags, the end of a run, and a reset.        *)
(*                                                                         *)
(* A call is one card.  "offered" says that its class may be answered by   *)
(* an allowance (a tool card, not mandatory, not a shell or preview tool); *)
(* allowances are those of one tool name.  A manual call is one of the     *)
(* tool editor: nobody blocks on it.                                       *)
(***************************************************************************)
EXTENDS Naturals, FiniteSets

CONSTANTS Cards, Chats,
          MaxRisk,   \* risk levels are 1..MaxRisk
          Capacity   \* MAX_PENDING_PROMPTS_PER_CONVERSATION

ASSUME ToolPromptsAssumption ==
  /\ MaxRisk \in Nat \ {0}
  /\ Capacity \in Nat \ {0}
  /\ Cards # {} /\ Chats # {}

VARIABLES card,        \* the locals of ask_answer, or the manual request, per call
          openCards,   \* ToolPromptRegistry::pending
          allowances,  \* ToolPromptRegistry::allowances, 0 for none
          run,         \* the model run of each conversation, with its stop flag
          stopped,     \* calls whose task has been stopped
          aged         \* manual cards older than MANUAL_PROMPT_TTL

pvars == <<card, openCards, allowances, run, stopped, aged>>

\* How a card can come about: only a run's own thread raises plan and
\* question cards, always as mandatory ones.
CallSites ==
  [conv : Chats, by : {"task"}, kind : {"tool"}, offered : BOOLEAN, risk : 1..MaxRisk]
    \cup [conv : Chats, by : {"run"}, kind : {"tool"}, offered : BOOLEAN, risk : 1..MaxRisk]
    \cup [conv : Chats, by : {"run"}, kind : {"plan", "question"}, offered : {FALSE}, risk : {1}]
    \cup [conv : Chats, by : {"page"}, kind : {"manual"}, offered : BOOLEAN, risk : 1..MaxRisk]

NoSite == [conv |-> "none", by |-> "none", kind |-> "none", offered |-> FALSE, risk |-> 0]
Idle == [pc |-> "idle", site |-> NoSite, answer |-> "none", late |-> FALSE, outcome |-> "none"]

PromptInit ==
  /\ card = [c \in Cards |-> Idle]
  /\ openCards = {}
  /\ allowances = [v \in Chats |-> 0]
  /\ run = [v \in Chats |-> "idle"]
  /\ stopped = {}
  /\ aged = {}

Site(c) == card[c].site

\* The one flag the waiter watches: its run's or its task's.
Stopped(c) ==
  \/ Site(c).by = "run" /\ run[Site(c).conv] = "stopping"
  \/ c \in stopped

\* Who may retract the card.  The run's approval callback passes its own flag
\* as the task flag, so only plan and question cards belong to the run.
Owner(c) == IF Site(c).kind \in {"plan", "question"} THEN "run" ELSE "task"

End(c, outcome) == [card EXCEPT ![c].pc = "done", ![c].outcome = outcome]

\* Mutant: the allowance is kept by tool name alone.
IsAlwaysAllowedAtAnyRisk(site) == allowances[site.conv] > 0

IsAlwaysAllowed(site) == site.risk <= allowances[site.conv]

\* remember_allowance keeps the highest risk granted.
Remember(site) ==
  allowances' = [allowances EXCEPT ![site.conv] = IF site.risk > @ THEN site.risk ELSE @]

-----------------------------------------------------------------------------
(* The waiter *)

\* A standing allowance answers at once.
Ask(c, site) ==
  /\ card[c].pc = "idle"
  /\ site.by = "run" => run[site.conv] # "idle"
  /\ card' = [card EXCEPT ![c] =
       IF site.offered /\ IsAlwaysAllowed(site)
       THEN [@ EXCEPT !.pc = "done", !.site = site, !.outcome = "allowed"]
       ELSE [@ EXCEPT !.pc = "asking", !.site = site]]
  /\ UNCHANGED <<openCards, allowances, run, stopped, aged>>

Full(v, open) == Cardinality({d \in open : Site(d).conv = v}) >= Capacity

\* register: sweep the abandoned manual cards, then insert unless the
\* conversation is full.  A stopped waiter does not even ask.
RegisterCard(c) ==
  /\ card[c].pc = "asking"
  /\ IF Stopped(c)
     THEN card' = End(c, "error") /\ UNCHANGED openCards
     ELSE LET open == openCards \ aged IN
          IF Full(Site(c).conv, open)
          THEN card' = End(c, "error") /\ openCards' = open
          ELSE /\ openCards' = open \cup {c}
               /\ card' = [card EXCEPT ![c].pc = IF Site(c).kind = "manual" THEN "open" ELSE "waiting"]
  /\ UNCHANGED <<allowances, run, stopped, aged>>

Receive(c) ==
  /\ card[c].pc = "waiting"
  /\ card[c].answer # "none"
  /\ card' = [card EXCEPT ![c].pc = "answered"]
  /\ openCards' = openCards \ {c}
  /\ UNCHANGED <<allowances, run, stopped, aged>>

SeesStop(c) ==
  /\ card[c].pc = "waiting"
  /\ Stopped(c)
  /\ card' = [card EXCEPT ![c].pc = "closing"]
  /\ UNCHANGED <<openCards, allowances, run, stopped, aged>>

TimesOut(c) ==
  /\ card[c].pc = "waiting"
  /\ card[c].answer = "none"
  /\ Site(c).kind # "question"
  /\ card' = [card EXCEPT ![c].pc = "closing"]
  /\ UNCHANGED <<openCards, allowances, run, stopped, aged>>

\* close and return an error; an answer sent after the wait ended is not read.
Close(c) ==
  /\ card[c].pc = "closing"
  /\ card' = End(c, "error")
  /\ openCards' = openCards \ {c}
  /\ UNCHANGED <<allowances, run, stopped, aged>>

\* The entry, and the sender in it, disappeared without an answer.
Retracted(c) ==
  /\ card[c].pc = "waiting"
  /\ c \notin openCards /\ card[c].answer = "none"
  /\ card' = End(c, "error")
  /\ UNCHANGED <<openCards, allowances, run, stopped, aged>>

\* Mutant: the stop flag is not read again after the answer.
ConcludeWithoutRecheck(c) ==
  /\ card[c].pc = "answered"
  /\ card' = End(c, IF card[c].answer = "deny" THEN "denied" ELSE "allowed")
  /\ IF Site(c).offered /\ card[c].answer = "always" THEN Remember(Site(c)) ELSE UNCHANGED allowances
  /\ UNCHANGED <<openCards, run, stopped, aged>>

\* After the answer: the stop wins over it, and "always" is remembered.
Conclude(c) ==
  /\ card[c].pc = "answered"
  /\ IF Stopped(c)
     THEN card' = End(c, "error") /\ UNCHANGED allowances
     ELSE /\ card' = End(c, IF card[c].answer = "deny" THEN "denied" ELSE "allowed")
          /\ IF Site(c).offered /\ card[c].answer = "always"
             THEN Remember(Site(c)) ELSE UNCHANGED allowances
  /\ UNCHANGED <<openCards, run, stopped, aged>>

-----------------------------------------------------------------------------
(* The user and the application *)

\* The page offers "always" only where the card does.
Decisions(c) == {"once", "deny"} \cup IF Site(c).offered THEN {"always"} ELSE {}

\* resolve, and resolve_question whose submit allows and whose other actions
\* do not.  A manual card has no waiter: the command itself acts on the answer.
Resolve(c, decision) ==
  /\ c \in openCards
  /\ decision \in Decisions(c)
  /\ openCards' = openCards \ {c}
  /\ LET heard == [card EXCEPT ![c].answer = decision, ![c].late = Stopped(c)] IN
       IF Site(c).kind = "manual"
       THEN /\ card' = [heard EXCEPT ![c].pc = "done",
                                     ![c].outcome = IF decision = "deny" THEN "denied" ELSE "allowed"]
            /\ IF decision = "always" THEN Remember(Site(c)) ELSE UNCHANGED allowances
       ELSE card' = heard /\ UNCHANGED allowances
  /\ UNCHANGED <<run, stopped, aged>>

ManualAges(c) ==
  /\ card[c].pc = "open" /\ c \in openCards \ aged
  /\ aged' = aged \cup {c}
  /\ UNCHANGED <<card, openCards, allowances, run, stopped>>

StopAsker(c) ==
  /\ Site(c).by = "task" /\ card[c].pc # "done"
  /\ c \notin stopped
  /\ stopped' = stopped \cup {c}
  /\ UNCHANGED <<card, openCards, allowances, run, aged>>

StartRun(v) ==
  /\ run[v] = "idle"
  /\ run' = [run EXCEPT ![v] = "live"]
  /\ UNCHANGED <<card, openCards, allowances, stopped, aged>>

StopRun(v) ==
  /\ run[v] = "live"
  /\ run' = [run EXCEPT ![v] = "stopping"]
  /\ UNCHANGED <<card, openCards, allowances, stopped, aged>>

\* finish_model_run: the run's own calls have returned, cancel_run_prompts
\* retracts what is left of its cards.
FinishRun(v) ==
  /\ run[v] # "idle"
  /\ \A c \in Cards : Site(c).by = "run" /\ Site(c).conv = v => card[c].pc \in {"idle", "done"}
  /\ run' = [run EXCEPT ![v] = "idle"]
  /\ openCards' = {c \in openCards : Owner(c) = "run" => Site(c).conv # v}
  /\ UNCHANGED <<card, allowances, stopped, aged>>

\* reset_document, under the exclusive lease no run or tool editor call holds.
Clear ==
  /\ \A v \in Chats : run[v] = "idle"
  /\ openCards # {} \/ \E v \in Chats : allowances[v] > 0
  /\ openCards' = {}
  /\ allowances' = [v \in Chats |-> 0]
  /\ UNCHANGED <<card, run, stopped, aged>>

WaiterStep(c) ==
  \/ RegisterCard(c)
  \/ Receive(c)
  \/ SeesStop(c)
  \/ TimesOut(c)
  \/ Close(c)
  \/ Retracted(c)
  \/ Conclude(c)

PromptNext ==
  \/ \E c \in Cards : \/ \E site \in CallSites : Ask(c, site)
                      \/ WaiterStep(c)
                      \/ \E decision \in {"once", "always", "deny"} : Resolve(c, decision)
                      \/ ManualAges(c)
                      \/ StopAsker(c)
  \/ \E v \in Chats : StartRun(v) \/ StopRun(v) \/ FinishRun(v)
  \/ Clear

PromptSpec == PromptInit /\ [][PromptNext]_pvars

-----------------------------------------------------------------------------
(* Properties *)

CallRecord ==
  [pc : {"idle", "asking", "waiting", "open", "answered", "closing", "done"},
   site : CallSites \cup {NoSite},
   answer : {"none", "once", "always", "deny"},
   late : BOOLEAN,
   outcome : {"none", "allowed", "denied", "error"}]

\* The types of the state (tool_prompt.rs, PendingPrompt and ToolPromptRegistry).
PromptTypeOK ==
  /\ card \in [Cards -> CallRecord]
  /\ openCards \subseteq Cards
  /\ allowances \in [Chats -> 0..MaxRisk]
  /\ run \in [Chats -> {"idle", "live", "stopping"}]
  /\ stopped \subseteq Cards /\ aged \subseteq Cards

SaidYes(c) == card[c].answer \in {"once", "always"}

\* A call is allowed only by the user: on its own card, or by "always" on an
\* earlier card of the conversation that was at least as risky and offered it
\* (is_always_allowed, remember_allowance, ask_answer, resolve).
AllowedByTheUser ==
  \A c \in Cards : card[c].outcome = "allowed" =>
    \/ SaidYes(c)
    \/ /\ Site(c).offered
       /\ \E d \in Cards : /\ card[d].answer = "always" /\ Site(d).offered
                           /\ Site(d).conv = Site(c).conv
                           /\ Site(d).risk >= Site(c).risk

\* A refusal is reported only when the user refused: stopped, timed out and
\* retracted cards are errors (ask_answer, "callers must not attribute a
\* refusal to the user when the user did not answer").
NoFabricatedRefusal ==
  \A c \in Cards : card[c].outcome = "denied" => card[c].answer = "deny"

\* A call that was stopped before the user answered is never allowed, whatever
\* the waiter had in hand when it woke up (ask_answer, "cancellation wins").
StopWins == \A c \in Cards : card[c].late => card[c].outcome # "allowed"

\* No card outlives its waiter, and every waiter that has no card any more has
\* been answered or will see that it was retracted: a card that is answerable
\* belongs to a call that can still use the answer (register, close).
NoOrphanCard ==
  \A c \in openCards : card[c].pc \in {"waiting", "closing", "open"} /\ card[c].answer = "none"
=============================================================================
