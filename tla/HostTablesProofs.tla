-------------------------- MODULE HostTablesProofs --------------------------
(***************************************************************************)
(* Two tables the host's threads share, proved about one after another:    *)
(* the approval cards and the cache of conversation bodies.  They have no  *)
(* variable in common; each part has its own inductive invariant.          *)
(***************************************************************************)
EXTENDS ToolPrompts, BodyCache, TLAPS

-----------------------------------------------------------------------------
(* Approval cards: any number of calls, conversations and risk levels, and   *)
(* any capacity.                                                             *)

\* A call that has not started has nothing, and only tasks are in "stopped".
Started ==
  \A c \in Cards :
    /\ card[c].pc = "idle" => Site(c) = NoSite /\ card[c].answer = "none" /\ ~card[c].late
    /\ card[c].pc # "idle" => Site(c) \in CallSites
    /\ c \in stopped => Site(c).by = "task"

\* What the waiter knows follows what the user did.
AnswerKept ==
  \A c \in Cards :
    /\ card[c].pc = "answered" => card[c].answer # "none"
    /\ card[c].answer = "always" => Site(c).offered
    /\ card[c].outcome # "none" => card[c].pc = "done"
    /\ card[c].pc = "asking" => card[c].answer = "none" /\ ~card[c].late
    /\ card[c].late => Site(c).kind # "manual"

\* An allowance goes back to an "always" on a card at least as risky.
AllowanceFromUser ==
  \A v \in Chats : allowances[v] # 0 =>
    \E d \in Cards : /\ card[d].answer = "always" /\ Site(d).offered
                     /\ Site(d).conv = v /\ Site(d).risk >= allowances[v]

\* A stop that preceded the answer still holds when the waiter concludes.
LateIsStopped ==
  \A c \in Cards : card[c].late /\ card[c].pc # "done" => Stopped(c)

PromptInv ==
  /\ PromptTypeOK /\ Started /\ AnswerKept
  /\ AllowanceFromUser /\ LateIsStopped
  /\ AllowedByTheUser /\ NoFabricatedRefusal /\ StopWins /\ NoOrphanCard

\* The fields of a call site.
LEMMA SiteFields ==
  ASSUME NEW s \in CallSites \cup {NoSite}
  PROVE  /\ s.offered \in BOOLEAN
         /\ s.risk \in Nat
         /\ s \in CallSites => s.conv \in Chats /\ s.risk \in 1..MaxRisk
         /\ s.kind = "manual" => s.by = "page"
<1>1. CASE s = NoSite
  <2>1. "none" \notin {"manual"} /\ FALSE \in BOOLEAN /\ 0 \in Nat
    OBVIOUS
  <2>2. NoSite \notin CallSites
    BY DEF NoSite, CallSites
  <2>. QED BY <1>1, <2>1, <2>2 DEF NoSite
<1>2. CASE s \in CallSites
  <2>1. s.offered \in BOOLEAN
    BY <1>2 DEF CallSites
  <2>2. s.risk \in 1..MaxRisk
    <3>1. s.risk \in 1..MaxRisk \/ s.risk = 1
      BY <1>2 DEF CallSites
    <3>. QED BY <3>1, ToolPromptsAssumption
  <2>3. s.conv \in Chats
    BY <1>2 DEF CallSites
  <2>4. s.kind = "manual" => s.by = "page"
    BY <1>2 DEF CallSites
  <2>. QED BY <2>1, <2>2, <2>3, <2>4, ToolPromptsAssumption
<1>. QED BY <1>1, <1>2

\* Initially nothing is asked, allowed or open.
LEMMA PromptInitInv == PromptInit => PromptInv
<1>. SUFFICES ASSUME PromptInit PROVE PromptInv
  OBVIOUS
<1>1. \A c \in Cards : card[c] = Idle
  BY DEF PromptInit
<1>2. Idle \in CallRecord
  BY DEF Idle, CallRecord
<1>3. PromptTypeOK
  BY <1>2, ToolPromptsAssumption DEF PromptInit, PromptTypeOK
<1>4. Started /\ AnswerKept /\ LateIsStopped /\ AllowanceFromUser
  BY <1>1 DEF PromptInit, Started, AnswerKept, LateIsStopped, AllowanceFromUser, Idle, Site
<1>5. AllowedByTheUser /\ NoFabricatedRefusal /\ StopWins /\ NoOrphanCard
  BY <1>1 DEF PromptInit, AllowedByTheUser, NoFabricatedRefusal, StopWins, NoOrphanCard, Idle
<1>. QED BY <1>3, <1>4, <1>5 DEF PromptInv

\* A step of one waiter moves its program counter and perhaps its outcome and
\* its card; what the user said stays.
WaiterMoves(c) ==
  /\ card' \in [Cards -> CallRecord]
  /\ \A d \in Cards : /\ card'[d].site = card[d].site
                      /\ card'[d].answer = card[d].answer
                      /\ card'[d].late = card[d].late
  /\ \A d \in Cards : d # c => card'[d] = card[d]
  /\ card[c].pc \notin {"idle", "done"} /\ card'[c].pc \notin {"idle", "asking"}
  /\ openCards' \subseteq openCards \cup {c}
  /\ run' = run /\ stopped' = stopped /\ aged' = aged

\* Such a step keeps the invariant when its outcome is honest.
LEMMA HonestMove ==
  ASSUME PromptInv, NEW c \in Cards, WaiterMoves(c),
         allowances' \in [Chats -> 0..MaxRisk], AllowanceFromUser',
         card'[c].pc = "answered" => card[c].answer # "none",
         card'[c].outcome # "none" => card'[c].pc = "done",
         card'[c].outcome = "allowed" => SaidYes(c) /\ ~card[c].late,
         card'[c].outcome = "denied" => card[c].answer = "deny",
         c \in openCards' => card'[c].pc \in {"waiting", "closing", "open"} /\ card[c].answer = "none"
  PROVE  PromptInv'
<1>1. PromptTypeOK'
  BY DEF PromptInv, PromptTypeOK, WaiterMoves
<1>2. Started'
  BY DEF PromptInv, Started, WaiterMoves, Site
<1>3. AnswerKept'
  BY DEF PromptInv, AnswerKept, WaiterMoves, Site
<1>4. LateIsStopped'
  BY DEF PromptInv, LateIsStopped, WaiterMoves, Site, Stopped
<1>5. AllowedByTheUser'
  BY DEF PromptInv, AllowedByTheUser, SaidYes, WaiterMoves, Site
<1>6. NoFabricatedRefusal' /\ StopWins'
  BY DEF PromptInv, NoFabricatedRefusal, StopWins, WaiterMoves
<1>7. NoOrphanCard'
  BY DEF PromptInv, NoOrphanCard, PromptTypeOK, WaiterMoves
<1>. QED BY <1>1, <1>2, <1>3, <1>4, <1>5, <1>6, <1>7 DEF PromptInv

\* An unchanged set of allowances keeps its witnesses.
LEMMA AllowancesKept ==
  ASSUME PromptInv, NEW c \in Cards, WaiterMoves(c), allowances' = allowances
  PROVE  allowances' \in [Chats -> 0..MaxRisk] /\ AllowanceFromUser'
  BY DEF PromptInv, PromptTypeOK, AllowanceFromUser, WaiterMoves, Site

\* A remembered "always" has its own call as a witness.
LEMMA RememberKeeps ==
  ASSUME PromptInv, NEW c \in Cards, Remember(Site(c)), Site(c).offered,
         card'[c].answer = "always", card[c].pc # "idle",
         \A d \in Cards : /\ card'[d].site = card[d].site
                          /\ d # c => card'[d].answer = card[d].answer
  PROVE  allowances' \in [Chats -> 0..MaxRisk] /\ AllowanceFromUser'
<1>. DEFINE s == Site(c)
<1>1. s \in CallSites
  BY DEF PromptInv, Started
<1>2. s.conv \in Chats /\ s.risk \in 1..MaxRisk /\ s.risk \in Nat
  BY <1>1, SiteFields
<1>3. \A v \in Chats :
        allowances'[v] = IF v = s.conv /\ s.risk > allowances[v] THEN s.risk ELSE allowances[v]
  BY <1>2 DEF Remember, PromptInv, PromptTypeOK
<1>4. allowances' \in [Chats -> 0..MaxRisk]
  BY <1>2, ToolPromptsAssumption DEF Remember, PromptInv, PromptTypeOK
<1>5. AllowanceFromUser'
  <2>. SUFFICES ASSUME NEW v \in Chats, allowances'[v] # 0
       PROVE  \E d \in Cards : /\ card'[d].answer = "always" /\ card'[d].site.offered
                              /\ card'[d].site.conv = v /\ card'[d].site.risk >= allowances'[v]
    BY DEF AllowanceFromUser, Site
  <2>1. CASE v = s.conv /\ s.risk > allowances[v]
    BY <1>2, <1>3, <2>1 DEF Site
  <2>2. CASE ~(v = s.conv /\ s.risk > allowances[v])
    <3>1. PICK d \in Cards : /\ card[d].answer = "always" /\ Site(d).offered
                             /\ Site(d).conv = v /\ Site(d).risk >= allowances[v]
      BY <1>3, <2>2 DEF PromptInv, AllowanceFromUser
    <3>. QED BY <1>3, <2>2, <3>1 DEF Site
  <2>. QED BY <2>1, <2>2
<1>. QED BY <1>4, <1>5

\* A card is registered, or the ask ends with an error.
LEMMA RegisterCardPreserves ==
  ASSUME PromptInv, NEW c \in Cards, RegisterCard(c)
  PROVE  PromptInv'
<1>1. WaiterMoves(c)
  BY DEF RegisterCard, End, WaiterMoves, PromptInv, PromptTypeOK, CallRecord
<1>2. allowances' = allowances
  BY DEF RegisterCard
<1>3. /\ card'[c].pc \in {"done", "open", "waiting"}
      /\ card'[c].outcome # "none" => card'[c].pc = "done"
      /\ card'[c].outcome \notin {"allowed", "denied"}
      /\ c \in openCards' => card'[c].pc # "done"
  BY DEF RegisterCard, End, PromptInv, PromptTypeOK, CallRecord, AnswerKept, NoOrphanCard
<1>4. card[c].answer = "none"
  BY DEF RegisterCard, PromptInv, AnswerKept
<1>. QED BY <1>1, <1>2, <1>3, <1>4, AllowancesKept, HonestMove

\* The waiter takes the answer.
LEMMA ReceivePreserves ==
  ASSUME PromptInv, NEW c \in Cards, Receive(c)
  PROVE  PromptInv'
<1>1. WaiterMoves(c)
  BY DEF Receive, WaiterMoves, PromptInv, PromptTypeOK, CallRecord
<1>2. allowances' = allowances /\ c \notin openCards' /\ card[c].answer # "none"
  BY DEF Receive
<1>3. card'[c].pc = "answered" /\ card'[c].outcome = "none"
  BY DEF Receive, PromptInv, PromptTypeOK, CallRecord, AnswerKept
<1>. QED BY <1>1, <1>2, <1>3, AllowancesKept, HonestMove

\* The waiter stops waiting.
LEMMA ClosingPreserves ==
  ASSUME PromptInv, NEW c \in Cards, SeesStop(c) \/ TimesOut(c)
  PROVE  PromptInv'
<1>1. WaiterMoves(c)
  BY DEF SeesStop, TimesOut, WaiterMoves, PromptInv, PromptTypeOK, CallRecord
<1>2. allowances' = allowances /\ openCards' = openCards
  BY DEF SeesStop, TimesOut
<1>3. card'[c].pc = "closing" /\ card'[c].outcome = "none"
  BY DEF SeesStop, TimesOut, PromptInv, PromptTypeOK, CallRecord, AnswerKept
<1>4. c \in openCards => card[c].answer = "none"
  BY DEF PromptInv, NoOrphanCard
<1>. QED BY <1>1, <1>2, <1>3, <1>4, AllowancesKept, HonestMove

\* The waiter returns without an answer.
LEMMA ErrorPreserves ==
  ASSUME PromptInv, NEW c \in Cards, Close(c) \/ Retracted(c)
  PROVE  PromptInv'
<1>1. WaiterMoves(c)
  BY DEF Close, Retracted, End, WaiterMoves, PromptInv, PromptTypeOK, CallRecord
<1>2. allowances' = allowances /\ c \notin openCards'
  BY DEF Close, Retracted
<1>3. card'[c].pc = "done" /\ card'[c].outcome = "error"
  BY DEF Close, Retracted, End, PromptInv, PromptTypeOK, CallRecord
<1>. QED BY <1>1, <1>2, <1>3, AllowancesKept, HonestMove

\* The waiter returns the answer unless it has been stopped.
LEMMA ConcludePreserves ==
  ASSUME PromptInv, NEW c \in Cards, Conclude(c)
  PROVE  PromptInv'
<1>1. WaiterMoves(c)
  BY DEF Conclude, End, WaiterMoves, PromptInv, PromptTypeOK, CallRecord
<1>2. /\ c \notin openCards'
      /\ card[c].answer # "none"
      /\ card[c].late => Stopped(c)
  BY DEF Conclude, PromptInv, NoOrphanCard, AnswerKept, LateIsStopped
<1>3. CASE Stopped(c)
  <2>1. allowances' = allowances /\ card'[c].pc = "done" /\ card'[c].outcome = "error"
    BY <1>3 DEF Conclude, End, PromptInv, PromptTypeOK, CallRecord
  <2>. QED BY <1>1, <1>2, <2>1, AllowancesKept, HonestMove
<1>4. CASE ~Stopped(c)
  <2>1. /\ card'[c].pc = "done"
        /\ card'[c].outcome = IF card[c].answer = "deny" THEN "denied" ELSE "allowed"
    BY <1>4 DEF Conclude, End, PromptInv, PromptTypeOK, CallRecord
  <2>2. card[c].answer # "deny" => SaidYes(c)
    BY <1>2 DEF PromptInv, PromptTypeOK, CallRecord, SaidYes
  <2>3. CASE allowances' = allowances
    BY <1>1, <1>2, <1>4, <2>1, <2>2, <2>3, AllowancesKept, HonestMove
  <2>4. CASE allowances' # allowances
    <3>1. card[c].answer = "always" /\ Site(c).offered /\ Remember(Site(c))
      BY <1>4, <2>4 DEF Conclude
    <3>2. allowances' \in [Chats -> 0..MaxRisk] /\ AllowanceFromUser'
      BY <1>1, <3>1, RememberKeeps DEF WaiterMoves
    <3>. QED BY <1>1, <1>2, <1>4, <2>1, <2>2, <3>2, HonestMove
  <2>. QED BY <2>3, <2>4
<1>. QED BY <1>3, <1>4

\* A call asks; a standing allowance may answer it.
LEMMA AskPreserves ==
  ASSUME PromptInv, NEW c \in Cards, NEW site \in CallSites, Ask(c, site)
  PROVE  PromptInv'
<1>1. card[c].pc = "idle" /\ card[c].answer = "none" /\ ~card[c].late /\ card[c].outcome = "none"
  BY DEF Ask, PromptInv, PromptTypeOK, CallRecord, Started, AnswerKept
<1>2. /\ card' \in [Cards -> CallRecord]
      /\ \A d \in Cards : d # c => card'[d] = card[d]
      /\ card'[c].site = site /\ card'[c].answer = "none" /\ ~card'[c].late
      /\ \/ card'[c].pc = "asking" /\ card'[c].outcome = "none"
         \/ /\ card'[c].pc = "done" /\ card'[c].outcome = "allowed"
            /\ site.offered /\ site.risk <= allowances[site.conv]
  BY ZenonT(60), <1>1 DEF Ask, IsAlwaysAllowed, PromptInv, PromptTypeOK, CallRecord
<1>3. UNCHANGED <<openCards, allowances, run, stopped, aged>>
  BY DEF Ask
<1>4. c \notin openCards /\ c \notin stopped
  <2>1. c \notin openCards
    BY <1>1 DEF PromptInv, NoOrphanCard
  <2>2. c \in stopped => Site(c).by = "task"
    BY DEF PromptInv, Started
  <2>3. Site(c) = NoSite
    BY <1>1 DEF PromptInv, Started
  <2>. QED BY <2>1, <2>2, <2>3 DEF NoSite
<1>5. PromptTypeOK'
  BY <1>2, <1>3 DEF PromptInv, PromptTypeOK
<1>6. Started'
  BY <1>2, <1>3, <1>4 DEF PromptInv, Started, Site
<1>7. AnswerKept'
  BY <1>2 DEF PromptInv, AnswerKept, Site
<1>8. AllowanceFromUser'
  BY <1>1, <1>2, <1>3 DEF PromptInv, AllowanceFromUser, Site
<1>9. LateIsStopped'
  BY <1>2, <1>3 DEF PromptInv, LateIsStopped, Site, Stopped
<1>10. AllowedByTheUser'
  <2>. SUFFICES ASSUME NEW b \in Cards, card'[b].outcome = "allowed"
       PROVE  \/ card'[b].answer \in {"once", "always"}
              \/ /\ card'[b].site.offered
                 /\ \E d \in Cards : /\ card'[d].answer = "always" /\ card'[d].site.offered
                                     /\ card'[d].site.conv = card'[b].site.conv
                                     /\ card'[d].site.risk >= card'[b].site.risk
    BY DEF AllowedByTheUser, SaidYes, Site
  <2>1. CASE b # c
    BY <1>1, <1>2, <2>1 DEF PromptInv, AllowedByTheUser, SaidYes, Site
  <2>2. CASE b = c
    <3>1. site.conv \in Chats /\ site.risk \in 1..MaxRisk /\ site.risk \in Nat
      BY SiteFields
    <3>2. site.offered /\ site.risk <= allowances[site.conv]
      BY <1>2, <2>2
    <3>3. allowances[site.conv] \in Nat /\ allowances[site.conv] # 0
      BY <3>1, <3>2, ToolPromptsAssumption DEF PromptInv, PromptTypeOK
    <3>4. PICK d \in Cards : /\ card[d].answer = "always" /\ Site(d).offered
                             /\ Site(d).conv = site.conv /\ Site(d).risk >= allowances[site.conv]
      BY <3>1, <3>3 DEF PromptInv, AllowanceFromUser
    <3>5. Site(d).risk \in Nat
      BY SiteFields DEF PromptInv, PromptTypeOK, CallRecord, Site
    <3>6. d # c /\ Site(d).risk >= site.risk
      BY <1>1, <3>1, <3>2, <3>3, <3>4, <3>5
    <3>. QED BY <1>2, <2>2, <3>2, <3>4, <3>6 DEF Site
  <2>. QED BY <2>1, <2>2
<1>11. NoFabricatedRefusal' /\ StopWins'
  BY <1>2 DEF PromptInv, NoFabricatedRefusal, StopWins
<1>12. NoOrphanCard'
  BY <1>2, <1>3, <1>4 DEF PromptInv, NoOrphanCard, PromptTypeOK
<1>. QED BY <1>5, <1>6, <1>7, <1>8, <1>9, <1>10, <1>11, <1>12 DEF PromptInv

\* The user answers a card.
LEMMA ResolvePreserves ==
  ASSUME PromptInv, NEW c \in Cards, NEW decision \in {"once", "always", "deny"}, Resolve(c, decision)
  PROVE  PromptInv'
<1>1. /\ c \in openCards /\ openCards' = openCards \ {c}
      /\ card[c].pc \in {"waiting", "closing", "open"} /\ card[c].answer = "none"
      /\ decision = "always" => Site(c).offered
      /\ run' = run /\ stopped' = stopped /\ aged' = aged
  BY DEF Resolve, Decisions, PromptInv, NoOrphanCard
<1>2. card[c].outcome = "none" /\ Site(c) \in CallSites
  BY <1>1 DEF PromptInv, AnswerKept, Started
<1>3. Site(c).kind = "manual" => ~Stopped(c)
  BY <1>2, SiteFields DEF Stopped, PromptInv, Started
<1>4. Stopped(c) \in BOOLEAN
  BY DEF Stopped
<1>5. /\ card' \in [Cards -> CallRecord]
      /\ \A d \in Cards : d # c => card'[d] = card[d]
      /\ card'[c].site = card[c].site /\ card'[c].answer = decision
      /\ card'[c].late = Stopped(c)
      /\ \/ Site(c).kind # "manual" /\ card'[c].pc = card[c].pc /\ card'[c].outcome = "none"
         \/ /\ Site(c).kind = "manual" /\ card'[c].pc = "done"
            /\ card'[c].outcome = IF decision = "deny" THEN "denied" ELSE "allowed"
  BY <1>2, <1>4 DEF Resolve, PromptInv, PromptTypeOK, CallRecord
<1>6. \/ allowances' = allowances
      \/ decision = "always" /\ Remember(Site(c))
  BY DEF Resolve
<1>7. allowances' \in [Chats -> 0..MaxRisk] /\ AllowanceFromUser'
  <2>1. CASE allowances' = allowances
    BY <1>1, <1>5, <2>1 DEF PromptInv, PromptTypeOK, AllowanceFromUser, Site
  <2>2. CASE decision = "always" /\ Remember(Site(c))
    BY <1>1, <1>5, <2>2, RememberKeeps
  <2>. QED BY <1>6, <2>1, <2>2
<1>8. PromptTypeOK'
  BY <1>1, <1>5, <1>7 DEF PromptInv, PromptTypeOK
<1>9. Started'
  BY <1>1, <1>2, <1>5 DEF PromptInv, Started, Site
<1>10. AnswerKept'
  BY <1>1, <1>3, <1>5 DEF PromptInv, AnswerKept, Site
<1>11. LateIsStopped'
  BY ZenonT(60), <1>1, <1>5 DEF PromptInv, LateIsStopped, Site, Stopped
<1>12. AllowedByTheUser'
  BY <1>1, <1>5 DEF PromptInv, AllowedByTheUser, SaidYes, Site
<1>13. NoFabricatedRefusal'
  BY <1>1, <1>5 DEF PromptInv, NoFabricatedRefusal
<1>14. StopWins'
  BY <1>3, <1>5 DEF PromptInv, StopWins
<1>15. NoOrphanCard'
  BY <1>1, <1>5 DEF PromptInv, NoOrphanCard, PromptTypeOK
<1>. QED BY <1>7, <1>8, <1>9, <1>10, <1>11, <1>12, <1>13, <1>14, <1>15 DEF PromptInv

\* A task is stopped, or a manual card gets old.
LEMMA StopAskerPreserves ==
  ASSUME PromptInv, NEW c \in Cards, StopAsker(c) \/ ManualAges(c)
  PROVE  PromptInv'
  BY DEF StopAsker, ManualAges, PromptInv, PromptTypeOK, Started, AnswerKept, AllowanceFromUser, LateIsStopped,
         AllowedByTheUser, SaidYes, NoFabricatedRefusal, StopWins, NoOrphanCard, Site, Stopped

\* A run starts, is stopped or ends; it ends only after its calls.
LEMMA RunPreserves ==
  ASSUME PromptInv, NEW v \in Chats, StartRun(v) \/ StopRun(v) \/ FinishRun(v)
  PROVE  PromptInv'
<1>1. /\ card' = card /\ allowances' = allowances /\ stopped' = stopped /\ aged' = aged
      /\ openCards' \subseteq openCards
      /\ run' \in [Chats -> {"idle", "live", "stopping"}]
  BY DEF StartRun, StopRun, FinishRun, PromptInv, PromptTypeOK
<1>2. LateIsStopped'
  <2>. SUFFICES ASSUME NEW c \in Cards, card[c].late, card[c].pc # "done"
       PROVE  Stopped(c)'
    BY <1>1 DEF LateIsStopped
  <2>1. Stopped(c) /\ card[c].pc # "idle" /\ Site(c) \in CallSites
    BY DEF PromptInv, LateIsStopped, Started
  <2>2. CASE c \in stopped
    BY <1>1, <2>2 DEF Stopped
  <2>3. CASE Site(c).by = "run" /\ run[Site(c).conv] = "stopping"
    <3>1. Site(c).conv \in Chats
      BY <2>1, SiteFields
    <3>2. run'[Site(c).conv] = "stopping"
      <4>1. CASE StartRun(v) \/ StopRun(v)
        BY <2>3, <3>1, <4>1 DEF StartRun, StopRun, PromptInv, PromptTypeOK
      <4>2. CASE FinishRun(v)
        BY <2>1, <2>3, <3>1, <4>2 DEF FinishRun, PromptInv, PromptTypeOK
      <4>. QED BY <4>1, <4>2
    <3>. QED BY <1>1, <2>3, <3>2 DEF Stopped, Site
  <2>. QED BY <2>1, <2>2, <2>3 DEF Stopped
<1>3. PromptTypeOK' /\ Started' /\ AnswerKept' /\ AllowanceFromUser'
  BY <1>1 DEF PromptInv, PromptTypeOK, Started, AnswerKept, AllowanceFromUser, Site
<1>4. AllowedByTheUser' /\ NoFabricatedRefusal' /\ StopWins' /\ NoOrphanCard'
  BY <1>1 DEF PromptInv, AllowedByTheUser, SaidYes, NoFabricatedRefusal, StopWins, NoOrphanCard, Site
<1>. QED BY <1>2, <1>3, <1>4 DEF PromptInv

\* A reset forgets cards and allowances.
LEMMA ClearPreserves ==
  ASSUME PromptInv, Clear
  PROVE  PromptInv'
<1>1. /\ card' = card /\ run' = run /\ stopped' = stopped /\ aged' = aged /\ openCards' = {}
      /\ allowances' = [v \in Chats |-> 0]
  BY DEF Clear
<1>2. PromptTypeOK' /\ AllowanceFromUser'
  BY <1>1, ToolPromptsAssumption DEF PromptInv, PromptTypeOK, AllowanceFromUser
<1>3. Started' /\ AnswerKept' /\ LateIsStopped' /\ NoOrphanCard'
  BY <1>1 DEF PromptInv, Started, AnswerKept, LateIsStopped, NoOrphanCard, Site, Stopped
<1>4. AllowedByTheUser' /\ NoFabricatedRefusal' /\ StopWins'
  BY <1>1 DEF PromptInv, AllowedByTheUser, SaidYes, NoFabricatedRefusal, StopWins, Site
<1>. QED BY <1>2, <1>3, <1>4 DEF PromptInv

\* PromptInv is an invariant of the registry.
THEOREM ToolPromptsInvariant == PromptSpec => []PromptInv
<1>1. PromptInv /\ [PromptNext]_pvars => PromptInv'
  <2>. SUFFICES ASSUME PromptInv, [PromptNext]_pvars PROVE PromptInv'
    OBVIOUS
  <2>1. CASE UNCHANGED pvars
    BY <2>1 DEF pvars, PromptInv, PromptTypeOK, Started, AnswerKept, AllowanceFromUser, LateIsStopped,
       AllowedByTheUser, SaidYes, NoFabricatedRefusal, StopWins, NoOrphanCard, Site, Stopped
  <2>2. ASSUME NEW c \in Cards, NEW site \in CallSites, Ask(c, site) PROVE PromptInv'
    BY <2>2, AskPreserves
  <2>3. ASSUME NEW c \in Cards, WaiterStep(c) PROVE PromptInv'
    BY <2>3, RegisterCardPreserves, ReceivePreserves, ClosingPreserves, ErrorPreserves, ConcludePreserves
    DEF WaiterStep
  <2>4. ASSUME NEW c \in Cards, NEW decision \in {"once", "always", "deny"}, Resolve(c, decision)
        PROVE  PromptInv'
    BY <2>4, ResolvePreserves
  <2>5. ASSUME NEW c \in Cards, StopAsker(c) \/ ManualAges(c) PROVE PromptInv'
    BY <2>5, StopAskerPreserves
  <2>6. ASSUME NEW v \in Chats, StartRun(v) \/ StopRun(v) \/ FinishRun(v) PROVE PromptInv'
    BY <2>6, RunPreserves
  <2>7. CASE Clear
    BY <2>7, ClearPreserves
  <2>. QED BY <2>1, <2>2, <2>3, <2>4, <2>5, <2>6, <2>7 DEF PromptNext
<1>. QED BY PromptInitInv, <1>1, PTL DEF PromptSpec

\* A call is allowed only by the user's own words on a card at least as risky.
THEOREM ToolPromptsAllowedByTheUser == PromptSpec => []AllowedByTheUser
  BY ToolPromptsInvariant, PTL DEF PromptInv

\* A refusal is never made up.
THEOREM ToolPromptsNoFabricatedRefusal == PromptSpec => []NoFabricatedRefusal
  BY ToolPromptsInvariant, PTL DEF PromptInv

\* A stop that came before the answer wins over it.
THEOREM ToolPromptsStopWins == PromptSpec => []StopWins
  BY ToolPromptsInvariant, PTL DEF PromptInv

\* An open card belongs to a call that can still use an answer.
THEOREM ToolPromptsNoOrphanCard == PromptSpec => []NoOrphanCard
  BY ToolPromptsInvariant, PTL DEF PromptInv

-----------------------------------------------------------------------------
(* The body cache: any number of conversations and threads, whichever of     *)
(* them are fenced, and any number of writes and resets.                     *)

\* Every reset makes room for one more file, and uses it up when it deletes
\* one.
FilesFit ==
  /\ resets <= MaxResets
  /\ made + (IF path = 0 THEN 1 ELSE 0)
       <= resets + (IF reset \in {"closed", "deleting"} THEN 0 ELSE 1)

\* Whoever uses a store, and whatever is cached, has a file.
StoresHaveFiles ==
  /\ \A t \in Threads : thread[t].pc # "away" => thread[t].store \in Files
  /\ \A i \in Ids : bodies[i] # NoBody => bodies[i].file \in Files

\* A generation once noted is never ahead of the present one.
SeenIsPast ==
  \A t \in Threads, i \in Ids :
    thread[t].pc \in {"noted", "read"} /\ thread[t].ids = {i} =>
      thread[t].seen[1] <= epoch /\ thread[t].seen[2] <= byId[i]

\* What was read is what fill may keep, as long as the generation is the same.
ReadIsCurrent ==
  \A t \in Threads, i \in Ids :
    thread[t].pc = "read" /\ thread[t].ids = {i} /\ thread[t].seen = Generation(i) =>
      \/ thread[t].body = rows[thread[t].store][i]
      \/ Unfinished(thread[t].store, i)

\* What is cached is what its file holds.
CachedIsStored ==
  \A i \in Ids : bodies[i] # NoBody =>
    bodies[i].body = rows[bodies[i].file][i] \/ Unfinished(bodies[i].file, i)

\* A store that a lease or storage_lock protects is the registered one.
FencedUseRegistered ==
  \A t \in Threads \ Unfenced : thread[t].pc # "away" => thread[t].store = registered

\* So what its users bring is of the registered store, as long as there is one.
FencedBringRegistered ==
  \A i \in Ids : bodies[i] # NoBody /\ registered # 0 =>
    bodies[i].file = registered \/ ~bodies[i].fenced

BodyInv ==
  /\ BodyTypeOK /\ FilesFit /\ StoresHaveFiles
  /\ SeenIsPast /\ ReadIsCurrent /\ CachedIsStored
  /\ FencedUseRegistered /\ FencedBringRegistered

\* The values that steps reset the state to are of its types.
LEMMA Records ==
  /\ NoBody \in [file : 0..(MaxResets + 1), body : Nat, fenced : BOOLEAN]
  /\ [i \in Ids |-> NoBody] \in [Ids -> [file : 0..(MaxResets + 1), body : Nat, fenced : BOOLEAN]]
  /\ \A f \in 0..(MaxResets + 1) :
       Has(f) \in ThreadRecord /\ Has(f).pc = "has" /\ Has(f).store = f
  /\ Files \subseteq 0..(MaxResets + 1)
<1>1. NoBody \in [file : 0..(MaxResets + 1), body : Nat, fenced : BOOLEAN]
  BY BodyCacheAssumption DEF NoBody
<1>2. [i \in Ids |-> NoBody] \in [Ids -> [file : 0..(MaxResets + 1), body : Nat, fenced : BOOLEAN]]
  BY <1>1
<1>3. ASSUME NEW f \in 0..(MaxResets + 1)
      PROVE  Has(f) \in ThreadRecord /\ Has(f).pc = "has" /\ Has(f).store = f
  BY DEF Has, Local, ThreadRecord
<1>4. Files \subseteq 0..(MaxResets + 1)
  BY BodyCacheAssumption DEF Files
<1>. QED BY <1>1, <1>2, <1>3, <1>4

LEMMA InitBodyInv == BodyInit => BodyInv
<1>. SUFFICES ASSUME BodyInit PROVE BodyInv
  OBVIOUS
<1>1. BodyTypeOK
  BY BodyCacheAssumption DEF BodyInit, BodyTypeOK, Files, NoBody, Away, Local, ThreadRecord
<1>2. FilesFit
  BY BodyCacheAssumption DEF BodyInit, FilesFit
<1>3. StoresHaveFiles /\ SeenIsPast /\ ReadIsCurrent /\ CachedIsStored
  BY DEF BodyInit, StoresHaveFiles, SeenIsPast, ReadIsCurrent, CachedIsStored, Away, Local
<1>4. FencedUseRegistered /\ FencedBringRegistered
  BY DEF BodyInit, FencedUseRegistered, FencedBringRegistered, Away, Local
<1>. QED BY <1>1, <1>2, <1>3, <1>4 DEF BodyInv

\* What a step that changes neither database nor generations, and no thread
\* but t, which does not end a write, leaves as it was.
LEMMA OneThreadMoves ==
  ASSUME BodyInv,
         NEW t \in Threads, NEW r \in ThreadRecord,
         thread' = [thread EXCEPT ![t] = r],
         thread[t].pc # "wrote",
         r.pc # "away" => r.store \in Files /\ (t \notin Unfenced => r.store = registered),
         UNCHANGED <<path, made, registered, rows, epoch, byId, reset, writes, resets>>,
         \A i \in Ids : r.pc \in {"noted", "read"} /\ r.ids = {i} =>
           r.seen[1] <= epoch /\ r.seen[2] <= byId[i],
         \A i \in Ids : r.pc = "read" /\ r.ids = {i} => r.body = rows[r.store][i] \/ r.seen # Generation(i),
         bodies' = bodies
  PROVE  BodyInv'
<1>1. BodyTypeOK' /\ FilesFit' /\ StoresHaveFiles'
  BY DEF BodyInv, BodyTypeOK, FilesFit, StoresHaveFiles
<1>2. \A x \in Threads : thread'[x] = IF x = t THEN r ELSE thread[x]
  BY DEF BodyInv, BodyTypeOK
<1>3. SeenIsPast'
  BY <1>2 DEF BodyInv, SeenIsPast
<1>4. ASSUME NEW f, NEW i \in Ids, Unfinished(f, i) PROVE Unfinished(f, i)'
  BY <1>4, <1>2 DEF Unfinished
<1>5. ReadIsCurrent'
  BY <1>2, <1>4 DEF BodyInv, ReadIsCurrent, Generation
<1>6. CachedIsStored'
  BY <1>4 DEF BodyInv, CachedIsStored
<1>7. FencedUseRegistered' /\ FencedBringRegistered'
  BY <1>2 DEF BodyInv, FencedUseRegistered, FencedBringRegistered
<1>. QED BY <1>1, <1>3, <1>5, <1>6, <1>7 DEF BodyInv

\* invalidate_all drops every body and outdates every generation noted.
LEMMA InvalidateAllClears ==
  ASSUME BodyInv, InvalidateAll,
         BodyTypeOK', FilesFit', StoresHaveFiles', FencedUseRegistered',
         \A x \in Threads, i \in Ids :
           thread'[x].pc \in {"noted", "read"} /\ thread'[x].ids = {i} =>
             /\ thread[x].pc \in {"noted", "read"} /\ thread[x].ids = {i}
             /\ thread'[x].seen = thread[x].seen
  PROVE  BodyInv'
<1>1. SeenIsPast'
  <2>. SUFFICES ASSUME NEW x \in Threads, NEW i \in Ids,
                       thread'[x].pc \in {"noted", "read"}, thread'[x].ids = {i}
                PROVE  thread'[x].seen[1] <= epoch' /\ thread'[x].seen[2] <= byId'[i]
    BY DEF SeenIsPast
  <2>1. thread[x].seen[1] <= epoch /\ thread[x].seen[2] <= byId[i] /\ thread'[x].seen = thread[x].seen
    BY DEF BodyInv, SeenIsPast
  <2>2. thread[x].seen[1] \in Nat /\ epoch \in Nat /\ epoch' = epoch + 1 /\ byId' = byId
    BY DEF BodyInv, BodyTypeOK, ThreadRecord, InvalidateAll
  <2>. QED BY <2>1, <2>2
<1>2. ReadIsCurrent'
  <2>. SUFFICES ASSUME NEW x \in Threads, NEW i \in Ids,
                       thread'[x].pc = "read", thread'[x].ids = {i}
                PROVE  thread'[x].seen # Generation(i)'
    BY DEF ReadIsCurrent
  <2>1. thread'[x].seen[1] <= epoch /\ epoch' = epoch + 1 /\ epoch \in Nat
    BY DEF BodyInv, SeenIsPast, InvalidateAll, BodyTypeOK
  <2>2. Generation(i)'[1] = epoch'
    BY DEF Generation
  <2>. QED BY <2>1, <2>2
<1>3. CachedIsStored' /\ FencedBringRegistered'
  BY DEF InvalidateAll, CachedIsStored, FencedBringRegistered
<1>. QED BY <1>1, <1>2, <1>3 DEF BodyInv

\* Opening a store forgets what was cached; taking an open one changes
\* nothing.
LEMMA StoreForFits ==
  ASSUME BodyInv, StoreFor, reset' \in {"idle", "closed", "deleting", "deleted"},
         resets' = resets,
         (reset' \in {"closed", "deleting"}) = (reset \in {"closed", "deleting"})
  PROVE  /\ FilesFit' /\ registered' \in Files
         /\ path' \in 0..(MaxResets + 1) /\ made' \in Nat
         /\ registered # 0 => UNCHANGED <<path, made, registered, epoch, byId, bodies>>
         /\ registered = 0 => InvalidateAll
<1>. USE BodyCacheAssumption
<1>1. CASE registered # 0
  BY <1>1 DEF BodyInv, StoreFor, conn, cached, FilesFit, BodyTypeOK, Files
<1>2. CASE registered = 0
  BY <1>2 DEF BodyInv, StoreFor, FilesFit, BodyTypeOK, Files
<1>. QED BY <1>1, <1>2

LEMMA TakePreserves ==
  ASSUME BodyInv, NEW t \in Threads, Take(t)
  PROVE  BodyInv'
<1>. DEFINE r == Has(registered')
<1>1. /\ thread[t].pc = "away" /\ StoreFor
      /\ thread' = [thread EXCEPT ![t] = r]
      /\ UNCHANGED <<rows, reset, writes, resets>>
  BY DEF Take
<1>2. /\ FilesFit' /\ registered' \in Files
      /\ path' \in 0..(MaxResets + 1) /\ made' \in Nat
      /\ registered # 0 => UNCHANGED <<path, made, registered, epoch, byId, bodies>>
      /\ registered = 0 => InvalidateAll
  BY <1>1, StoreForFits DEF BodyInv, BodyTypeOK
<1>3. r \in ThreadRecord /\ r.pc = "has" /\ r.store = registered'
  BY <1>2, Records
<1>. HIDE DEF r
<1>4. CASE registered # 0
  BY <1>1, <1>2, <1>3, <1>4, OneThreadMoves
<1>5. CASE registered = 0
  <2>1. BodyTypeOK'
    BY <1>1, <1>2, <1>3, <1>5, Records DEF BodyInv, BodyTypeOK, InvalidateAll
  <2>2. \A x \in Threads : thread'[x] = IF x = t THEN r ELSE thread[x]
    BY <1>1 DEF BodyInv, BodyTypeOK
  <2>3. StoresHaveFiles'
    BY <1>2, <1>3, <1>5, <2>2 DEF BodyInv, StoresHaveFiles, InvalidateAll
  <2>4. FencedUseRegistered'
    BY <1>3, <1>5, <2>2 DEF BodyInv, FencedUseRegistered, StoresHaveFiles, Files
  <2>. QED BY <1>2, <1>3, <1>5, <2>1, <2>2, <2>3, <2>4, InvalidateAllClears
<1>. QED BY <1>4, <1>5

\* The steps of a read, and leaving.
LEMMA LeavePreserves ==
  ASSUME BodyInv, NEW t \in Threads, Leave(t)
  PROVE  BodyInv'
<1>1. Away \in ThreadRecord /\ Away.pc = "away"
  BY BodyCacheAssumption DEF Away, Local, ThreadRecord
<1>. QED BY <1>1, OneThreadMoves DEF Leave, conn, cached

LEMMA HasIsRecord ==
  ASSUME BodyInv, NEW t \in Threads, thread[t].pc # "away"
  PROVE  /\ Has(thread[t].store) \in ThreadRecord
         /\ Has(thread[t].store).pc = "has" /\ Has(thread[t].store).store \in Files
         /\ Has(thread[t].store).store = thread[t].store
         /\ t \notin Unfenced => thread[t].store = registered
  BY Records DEF BodyInv, StoresHaveFiles, FencedUseRegistered

LEMMA MissesPreserves ==
  ASSUME BodyInv, NEW t \in Threads, NEW i \in Ids, Misses(t, i)
  PROVE  BodyInv'
<1>. DEFINE r == [thread[t] EXCEPT !.pc = "missed", !.ids = {i}]
<1>1. thread[t] \in ThreadRecord /\ thread[t].pc = "has" /\ thread[t].store \in Files
  BY DEF BodyInv, BodyTypeOK, StoresHaveFiles, Misses
<1>2. r \in ThreadRecord /\ r.pc = "missed" /\ r.store \in Files /\ r.store = thread[t].store
  BY <1>1 DEF ThreadRecord
<1>3. thread' = [thread EXCEPT ![t] = r]
  BY DEF Misses, BodyInv, BodyTypeOK
<1>. HIDE DEF r
<1>. QED BY <1>1, <1>2, <1>3, HasIsRecord, OneThreadMoves DEF Misses, conn, cached

LEMMA NotesPreserves ==
  ASSUME BodyInv, NEW t \in Threads, NEW i \in Ids, NotesGeneration(t, i)
  PROVE  BodyInv'
<1>. DEFINE r == [thread[t] EXCEPT !.pc = "noted", !.seen = Generation(i)]
<1>1. thread[t] \in ThreadRecord /\ thread[t].pc = "missed" /\ thread[t].ids = {i} /\ thread[t].store \in Files
  BY DEF BodyInv, BodyTypeOK, StoresHaveFiles, NotesGeneration
<1>2. Generation(i) \in Nat \X Nat /\ Generation(i)[1] = epoch /\ Generation(i)[2] = byId[i]
      /\ epoch \in Nat /\ byId[i] \in Nat
  BY DEF BodyInv, BodyTypeOK, Generation
<1>3. r \in ThreadRecord /\ r.pc = "noted" /\ r.store \in Files /\ r.ids = {i} /\ r.seen = Generation(i)
      /\ r.store = thread[t].store
  BY <1>1, <1>2 DEF ThreadRecord
<1>4. thread' = [thread EXCEPT ![t] = r]
  BY DEF NotesGeneration, BodyInv, BodyTypeOK
<1>5. \A j \in Ids : r.ids = {j} => j = i
  BY <1>3
<1>. HIDE DEF r
<1>6. \A j \in Ids : r.ids = {j} => r.seen[1] <= epoch /\ r.seen[2] <= byId[j]
  BY <1>2, <1>3, <1>5
<1>. QED BY <1>1, <1>3, <1>4, <1>6, HasIsRecord, OneThreadMoves DEF NotesGeneration, conn, cached

LEMMA ReadsDiskPreserves ==
  ASSUME BodyInv, NEW t \in Threads, NEW i \in Ids, ReadsDisk(t, i)
  PROVE  BodyInv'
<1>. DEFINE r == [thread[t] EXCEPT !.pc = "read", !.body = rows[thread[t].store][i]]
<1>1. thread[t] \in ThreadRecord /\ thread[t].pc = "noted" /\ thread[t].ids = {i} /\ thread[t].store \in Files
  BY DEF BodyInv, BodyTypeOK, StoresHaveFiles, ReadsDisk
<1>2. CASE thread' = [thread EXCEPT ![t].pc = "read", ![t].body = rows[thread[t].store][i]]
  <2>1. rows[thread[t].store][i] \in Nat
    BY <1>1 DEF BodyInv, BodyTypeOK
  <2>2. /\ r \in ThreadRecord /\ r.pc = "read" /\ r.store = thread[t].store /\ r.ids = {i}
        /\ r.seen = thread[t].seen /\ r.body = rows[r.store][i]
    BY <1>1, <2>1 DEF ThreadRecord
  <2>3. thread' = [thread EXCEPT ![t] = r]
    BY <1>2 DEF BodyInv, BodyTypeOK
  <2>4. \A j \in Ids : r.ids = {j} => j = i
    BY <2>2
  <2>. HIDE DEF r
  <2>5. \A j \in Ids : r.ids = {j} => r.seen[1] <= epoch /\ r.seen[2] <= byId[j]
    BY <1>1, <2>2, <2>4 DEF BodyInv, SeenIsPast
  <2>6. \A j \in Ids : r.ids = {j} => r.body = rows[r.store][j]
    BY <2>2, <2>4
  <2>. QED BY <1>1, <2>2, <2>3, <2>5, <2>6, HasIsRecord, OneThreadMoves DEF ReadsDisk, conn, cached
<1>3. CASE Returns(t)
  BY <1>1, <1>3, HasIsRecord, OneThreadMoves DEF Returns, ReadsDisk, conn, cached
<1>. QED BY <1>2, <1>3 DEF ReadsDisk

\* fill keeps only what is current.
LEMMA FillsPreserves ==
  ASSUME BodyInv, NEW t \in Threads, NEW i \in Ids, Fills(t, i)
  PROVE  BodyInv'
<1>. DEFINE r == Has(thread[t].store)
<1>1. /\ thread[t] \in ThreadRecord /\ thread[t].pc = "read" /\ thread[t].ids = {i}
      /\ thread[t].store \in Files
  BY DEF BodyInv, BodyTypeOK, StoresHaveFiles, Fills
<1>2. /\ r \in ThreadRecord /\ r.pc = "has" /\ r.store \in Files
      /\ r.store = thread[t].store /\ (t \notin Unfenced => thread[t].store = registered)
  BY <1>1, HasIsRecord
<1>3. /\ thread' = [thread EXCEPT ![t] = r]
      /\ UNCHANGED <<path, made, registered, rows, epoch, byId, reset, writes, resets>>
  BY DEF Fills, Returns, conn
<1>4. CASE Generation(i) # thread[t].seen
  <2>1. bodies' = bodies
    BY <1>4 DEF Fills
  <2>. HIDE DEF r
  <2>. QED BY <1>1, <1>2, <1>3, <2>1, OneThreadMoves
<1>5. CASE Generation(i) = thread[t].seen
  <2>. DEFINE e == [file |-> thread[t].store, body |-> thread[t].body, fenced |-> t \notin Unfenced]
  <2>1. /\ e \in [file : 0..(MaxResets + 1), body : Nat, fenced : BOOLEAN]
        /\ e.file = thread[t].store /\ e.body = thread[t].body /\ e.fenced = (t \notin Unfenced)
    BY <1>1 DEF ThreadRecord
  <2>2. bodies' = [bodies EXCEPT ![i] = e]
    BY <1>5 DEF Fills, Filled
  <2>3. \A j \in Ids : bodies'[j] = IF j = i THEN e ELSE bodies[j]
    BY <2>2 DEF BodyInv, BodyTypeOK
  <2>. HIDE DEF r, e
  <2>4. \A x \in Threads : thread'[x] = IF x = t THEN r ELSE thread[x]
    BY <1>3 DEF BodyInv, BodyTypeOK
  <2>5. BodyTypeOK' /\ FilesFit'
    BY <1>2, <1>3, <2>1, <2>2 DEF BodyInv, BodyTypeOK, FilesFit
  <2>6. StoresHaveFiles'
    BY <1>1, <1>2, <2>1, <2>3, <2>4 DEF BodyInv, StoresHaveFiles
  <2>7. SeenIsPast'
    BY <1>2, <1>3, <2>4 DEF BodyInv, SeenIsPast
  <2>8. ASSUME NEW f, NEW j \in Ids, Unfinished(f, j) PROVE Unfinished(f, j)'
    BY <1>1, <2>4, <2>8 DEF Unfinished
  <2>9. ReadIsCurrent'
    BY <1>2, <1>3, <2>4, <2>8 DEF BodyInv, ReadIsCurrent, Generation
  <2>10. e.body = rows[e.file][i] \/ Unfinished(e.file, i)
    BY <1>1, <1>5, <2>1 DEF BodyInv, ReadIsCurrent
  <2>11. CachedIsStored'
    BY <1>3, <2>3, <2>8, <2>10 DEF BodyInv, CachedIsStored
  <2>12. FencedUseRegistered'
    BY <1>2, <1>3, <2>4 DEF BodyInv, FencedUseRegistered
  <2>13. FencedBringRegistered'
    BY <1>2, <1>3, <2>1, <2>3 DEF BodyInv, FencedBringRegistered
  <2>. QED BY <2>5, <2>6, <2>7, <2>9, <2>11, <2>12, <2>13 DEF BodyInv
<1>. QED BY <1>4, <1>5

\* A write marks whatever it changes as unfinished.
LEMMA CommitsPreserves ==
  ASSUME BodyInv, NEW t \in Threads, MayWrite(t),
         NEW ids \in SUBSET Ids, NEW new \in [Ids -> Nat],
         \A i \in Ids \ ids : new[i] = rows[thread[t].store][i],
         Commits(t, ids, new)
  PROVE  BodyInv'
<1>. DEFINE Open(f, j) == \E y \in Threads : thread'[y].pc = "wrote" /\ j \in thread'[y].ids /\ thread'[y].store = f
<1>. DEFINE r == [thread[t] EXCEPT !.pc = "wrote", !.ids = ids]
<1>1. thread[t] \in ThreadRecord /\ thread[t].pc = "has" /\ thread[t].store \in Files
  BY DEF BodyInv, BodyTypeOK, StoresHaveFiles, MayWrite
<1>2. r \in ThreadRecord /\ r.pc = "wrote" /\ r.store = thread[t].store /\ r.ids = ids
  BY <1>1 DEF ThreadRecord
<1>3. /\ thread' = [thread EXCEPT ![t] = r]
      /\ rows' = [rows EXCEPT ![thread[t].store] = new]
      /\ writes' = writes + 1
      /\ UNCHANGED <<path, made, registered, epoch, byId, bodies, reset, resets>>
  BY DEF Commits, conn, cached, BodyInv, BodyTypeOK
<1>. HIDE DEF r
<1>4. \A x \in Threads : thread'[x] = IF x = t THEN r ELSE thread[x]
  BY <1>3 DEF BodyInv, BodyTypeOK
<1>5. \A f \in Files : rows'[f] = IF f = thread[t].store THEN new ELSE rows[f]
  BY <1>3 DEF BodyInv, BodyTypeOK
<1>6. BodyTypeOK' /\ FilesFit'
  BY <1>1, <1>2, <1>3 DEF BodyInv, BodyTypeOK, FilesFit
<1>7. StoresHaveFiles' /\ SeenIsPast' /\ FencedUseRegistered' /\ FencedBringRegistered'
  BY <1>1, <1>2, <1>3, <1>4
  DEF BodyInv, StoresHaveFiles, SeenIsPast, FencedUseRegistered, FencedBringRegistered
<1>8. ASSUME NEW f \in Files, NEW i \in Ids
      PROVE  /\ Unfinished(f, i) => Open(f, i)
             /\ rows'[f][i] = rows[f][i] \/ Open(f, i)
  <2>1. Unfinished(f, i) => Open(f, i)
    BY <1>1, <1>4 DEF Unfinished
  <2>2. CASE f = thread[t].store /\ i \in ids
    BY <1>2, <1>4, <2>1, <2>2
  <2>3. CASE ~(f = thread[t].store /\ i \in ids)
    BY <1>5, <2>1, <2>3
  <2>. QED BY <2>1, <2>2, <2>3
<1>9. ReadIsCurrent'
  <2>. SUFFICES ASSUME NEW x \in Threads, NEW i \in Ids,
                       thread'[x].pc = "read", thread'[x].ids = {i}, thread'[x].seen = Generation(i)'
                PROVE  thread'[x].body = rows'[thread'[x].store][i] \/ Open(thread'[x].store, i)
    BY DEF ReadIsCurrent, Unfinished
  <2>1. thread'[x] = thread[x] /\ thread[x].store \in Files /\ Generation(i)' = Generation(i)
    BY <1>2, <1>3, <1>4 DEF BodyInv, StoresHaveFiles, Generation
  <2>2. thread[x].body = rows[thread[x].store][i] \/ Unfinished(thread[x].store, i)
    BY <2>1 DEF BodyInv, ReadIsCurrent
  <2>3. thread[x].body = rows'[thread[x].store][i] \/ Open(thread[x].store, i)
    BY <1>8, <2>1, <2>2
  <2>. QED BY <2>1, <2>3 DEF Unfinished
<1>10. CachedIsStored'
  <2>. SUFFICES ASSUME NEW i \in Ids, bodies[i] # NoBody
                PROVE  bodies[i].body = rows'[bodies[i].file][i] \/ Open(bodies[i].file, i)
    BY <1>3 DEF CachedIsStored, Unfinished
  <2>1. bodies[i].file \in Files /\ (bodies[i].body = rows[bodies[i].file][i] \/ Unfinished(bodies[i].file, i))
    BY DEF BodyInv, StoresHaveFiles, CachedIsStored
  <2>. QED BY <1>8, <2>1
<1>. QED BY <1>6, <1>7, <1>9, <1>10 DEF BodyInv

LEMMA WritesPreserve ==
  ASSUME BodyInv, NEW t \in Threads, CommitsAll(t) \/ \E i \in Ids : CommitsOne(t, i)
  PROVE  BodyInv'
<1>1. ASSUME MayWrite(t) PROVE rows[thread[t].store] \in [Ids -> Nat] /\ writes + 1 \in Nat
  BY <1>1 DEF BodyInv, BodyTypeOK, StoresHaveFiles, MayWrite
<1>2. ASSUME NEW i \in Ids, CommitsOne(t, i) PROVE BodyInv'
  <2>1. MayWrite(t)
    BY <1>2 DEF CommitsOne
  <2>2. PICK body \in {writes + 1, Stored(t, i)} :
          Commits(t, {i}, [rows[thread[t].store] EXCEPT ![i] = body])
    BY <1>2 DEF CommitsOne
  <2>3. body \in Nat
    BY <1>1, <2>1, <2>2 DEF Stored
  <2>. DEFINE new == [rows[thread[t].store] EXCEPT ![i] = body]
  <2>4. new \in [Ids -> Nat] /\ \A j \in Ids \ {i} : new[j] = rows[thread[t].store][j]
    BY <1>1, <2>1, <2>3
  <2>. HIDE DEF new
  <2>. QED BY <2>1, <2>2, <2>4, CommitsPreserves DEF new
<1>3. ASSUME CommitsAll(t) PROVE BodyInv'
  <2>1. MayWrite(t)
    BY <1>3 DEF CommitsAll
  <2>2. PICK changed \in SUBSET Ids, gone \in SUBSET Ids :
          Commits(t, Ids, [i \in Ids |-> IF i \in gone THEN 0
                                        ELSE IF i \in changed /\ Stored(t, i) # 0 THEN writes + 1
                                        ELSE Stored(t, i)])
    BY <1>3 DEF CommitsAll
  <2>. DEFINE new == [i \in Ids |-> IF i \in gone THEN 0
                                   ELSE IF i \in changed /\ Stored(t, i) # 0 THEN writes + 1
                                   ELSE Stored(t, i)]
  <2>3. new \in [Ids -> Nat]
    BY <1>1, <2>1 DEF Stored
  <2>4. Commits(t, Ids, new)
    BY <2>2
  <2>. HIDE DEF new
  <2>. QED BY <2>1, <2>3, <2>4, CommitsPreserves
<1>. QED BY <1>2, <1>3

\* The end of a write: what it covered is no longer cached, and no read of it
\* that began before can be kept.
LEMMA InvalidatesPreserves ==
  ASSUME BodyInv, NEW t \in Threads, Invalidates(t)
  PROVE  BodyInv'
<1>. DEFINE Open(f, j) == \E y \in Threads : thread'[y].pc = "wrote" /\ j \in thread'[y].ids /\ thread'[y].store = f
<1>. DEFINE r == Has(thread[t].store)
<1>1. /\ thread[t].pc = "wrote" /\ thread' = [thread EXCEPT ![t] = r]
      /\ UNCHANGED <<path, made, registered, rows, reset, writes, resets>>
  BY DEF Invalidates, Returns, conn
<1>2. /\ r \in ThreadRecord /\ r.pc = "has" /\ r.store \in Files
      /\ r.store = thread[t].store /\ (t \notin Unfenced => thread[t].store = registered)
  BY <1>1, HasIsRecord
<1>. HIDE DEF r
<1>3. \A x \in Threads : thread'[x] = IF x = t THEN r ELSE thread[x]
  BY <1>1 DEF BodyInv, BodyTypeOK
<1>4. CASE InvalidateAll
  <2>1. BodyTypeOK' /\ FilesFit'
    BY <1>1, <1>2, <1>4, Records DEF BodyInv, BodyTypeOK, FilesFit, InvalidateAll
  <2>2. StoresHaveFiles'
    BY <1>2, <1>3, <1>4 DEF BodyInv, StoresHaveFiles, InvalidateAll
  <2>3. FencedUseRegistered'
    BY <1>1, <1>2, <1>3 DEF BodyInv, FencedUseRegistered
  <2>. QED BY <1>2, <1>3, <1>4, <2>1, <2>2, <2>3, InvalidateAllClears
<1>5. ASSUME NEW i \in Ids, thread[t].ids = {i}, Invalidate(i) PROVE BodyInv'
  <2>1. /\ \A j \in Ids : bodies'[j] = IF j = i THEN NoBody ELSE bodies[j]
        /\ \A j \in Ids : byId'[j] = IF j = i THEN byId[j] + 1 ELSE byId[j]
        /\ epoch' = epoch /\ epoch \in Nat /\ \A j \in Ids : byId[j] \in Nat
    BY <1>5 DEF Invalidate, BodyInv, BodyTypeOK
  <2>2. BodyTypeOK' /\ FilesFit'
    BY <1>1, <1>2, <1>5, Records DEF BodyInv, BodyTypeOK, FilesFit, Invalidate
  <2>3. StoresHaveFiles'
    BY <1>2, <1>3, <2>1 DEF BodyInv, StoresHaveFiles
  <2>4. SeenIsPast'
    <3>. SUFFICES ASSUME NEW x \in Threads, NEW j \in Ids,
                         thread'[x].pc \in {"noted", "read"}, thread'[x].ids = {j}
                  PROVE  thread'[x].seen[1] <= epoch' /\ thread'[x].seen[2] <= byId'[j]
      BY DEF SeenIsPast
    <3>1. thread'[x] = thread[x]
      BY <1>2, <1>3
    <3>2. thread[x].seen[1] <= epoch /\ thread[x].seen[2] <= byId[j] /\ thread[x].seen[2] \in Nat
      BY <3>1 DEF BodyInv, SeenIsPast, BodyTypeOK, ThreadRecord
    <3>. QED BY <2>1, <3>1, <3>2
  <2>5. ASSUME NEW f, NEW j \in Ids, j # i, Unfinished(f, j) PROVE Open(f, j)
    BY <1>3, <1>5, <2>5 DEF Unfinished
  <2>6. ReadIsCurrent'
    <3>. SUFFICES ASSUME NEW x \in Threads, NEW j \in Ids,
                         thread'[x].pc = "read", thread'[x].ids = {j}, thread'[x].seen = Generation(j)'
                  PROVE  thread'[x].body = rows'[thread'[x].store][j] \/ Open(thread'[x].store, j)
      BY DEF ReadIsCurrent, Unfinished
    <3>1. thread'[x] = thread[x]
      BY <1>2, <1>3
    <3>2. thread[x].seen[2] <= byId[j] /\ Generation(j)'[2] = byId'[j]
      BY <3>1 DEF BodyInv, SeenIsPast, Generation
    <3>3. j # i
      BY <2>1, <3>1, <3>2
    <3>4. Generation(j)' = Generation(j)
      BY <2>1, <3>3 DEF Generation
    <3>5. thread[x].body = rows[thread[x].store][j] \/ Unfinished(thread[x].store, j)
      BY <3>1, <3>4 DEF BodyInv, ReadIsCurrent
    <3>6. thread[x].body = rows[thread[x].store][j] \/ Open(thread[x].store, j)
      BY <2>5, <3>3, <3>5
    <3>. QED BY <1>1, <3>1, <3>6 DEF Unfinished
  <2>7. CachedIsStored'
    <3>. SUFFICES ASSUME NEW j \in Ids, bodies'[j] # NoBody
                  PROVE  bodies'[j].body = rows'[bodies'[j].file][j] \/ Open(bodies'[j].file, j)
      BY DEF CachedIsStored, Unfinished
    <3>1. j # i /\ bodies'[j] = bodies[j]
      BY <2>1
    <3>2. bodies[j].body = rows[bodies[j].file][j] \/ Unfinished(bodies[j].file, j)
      BY <3>1 DEF BodyInv, CachedIsStored
    <3>3. bodies[j].body = rows[bodies[j].file][j] \/ Open(bodies[j].file, j)
      BY <2>5, <3>1, <3>2
    <3>. QED BY <1>1, <3>1, <3>3 DEF Unfinished
  <2>8. FencedUseRegistered' /\ FencedBringRegistered'
    BY <1>1, <1>2, <1>3, <2>1 DEF BodyInv, FencedUseRegistered, FencedBringRegistered
  <2>. QED BY <2>2, <2>3, <2>4, <2>6, <2>7, <2>8 DEF BodyInv
<1>. QED BY <1>4, <1>5 DEF Invalidates

\* The pool may drop a body at any time.
LEMMA UnloadsPreserves ==
  ASSUME BodyInv, NEW i \in Ids, Unloads(i)
  PROVE  BodyInv'
<1>1. /\ \A j \in Ids : bodies'[j] = IF j = i THEN NoBody ELSE bodies[j]
      /\ UNCHANGED <<path, made, registered, rows, epoch, byId, thread, reset, writes, resets>>
  BY DEF Unloads, conn, BodyInv, BodyTypeOK
<1>2. BodyTypeOK' /\ FilesFit'
  BY <1>1, Records DEF BodyInv, BodyTypeOK, FilesFit, Unloads
<1>3. StoresHaveFiles' /\ SeenIsPast' /\ ReadIsCurrent' /\ CachedIsStored'
  BY <1>1 DEF BodyInv, StoresHaveFiles, SeenIsPast, ReadIsCurrent, CachedIsStored, Unfinished, Generation
<1>4. FencedUseRegistered' /\ FencedBringRegistered'
  BY <1>1 DEF BodyInv, FencedUseRegistered, FencedBringRegistered
<1>. QED BY <1>2, <1>3, <1>4 DEF BodyInv

\* The reset changes files and registered, and forgets.
LEMMA ResetPreserves ==
  ASSUME BodyInv, ResetCloses \/ ResetInvalidates \/ ResetDeletes \/ ResetReopens
  PROVE  BodyInv'
<1>. USE BodyCacheAssumption
<1>1. ASSUME BodyTypeOK', FilesFit', FencedUseRegistered', registered' \in {0, registered},
             UNCHANGED <<rows, epoch, byId, bodies, thread>>
      PROVE  BodyInv'
  <2>1. StoresHaveFiles' /\ SeenIsPast' /\ ReadIsCurrent' /\ CachedIsStored'
    BY <1>1 DEF BodyInv, StoresHaveFiles, SeenIsPast, ReadIsCurrent, CachedIsStored, Unfinished, Generation
  <2>2. FencedBringRegistered'
    BY <1>1 DEF BodyInv, FencedBringRegistered
  <2>. QED BY <1>1, <2>1, <2>2 DEF BodyInv
<1>2. ASSUME BodyTypeOK', FilesFit', FencedUseRegistered', InvalidateAll, thread' = thread PROVE BodyInv'
  <2>1. StoresHaveFiles'
    BY <1>2 DEF BodyInv, StoresHaveFiles, InvalidateAll
  <2>. QED BY <1>2, <2>1, InvalidateAllClears
<1>3. CASE ResetCloses
  <2>1. BodyTypeOK' /\ FilesFit' /\ registered' = 0
    BY <1>3 DEF ResetCloses, cached, BodyInv, BodyTypeOK, FilesFit
  <2>2. FencedUseRegistered'
    BY <1>3 DEF ResetCloses, FencedUseRegistered
  <2>. QED BY <1>1, <1>3, <2>1, <2>2 DEF ResetCloses, cached
<1>4. CASE ResetInvalidates
  <2>1. BodyTypeOK' /\ FilesFit'
    BY <1>4, Records DEF ResetInvalidates, conn, InvalidateAll, BodyInv, BodyTypeOK, FilesFit
  <2>2. FencedUseRegistered'
    BY <1>4 DEF ResetInvalidates, conn, BodyInv, FencedUseRegistered
  <2>. QED BY <1>2, <1>4, <2>1, <2>2 DEF ResetInvalidates
<1>5. CASE ResetDeletes
  <2>1. BodyTypeOK' /\ FilesFit'
    BY <1>5 DEF ResetDeletes, cached, BodyInv, BodyTypeOK, FilesFit
  <2>2. FencedUseRegistered' /\ registered' = registered
    BY <1>5 DEF ResetDeletes, BodyInv, FencedUseRegistered
  <2>. QED BY <1>1, <1>5, <2>1, <2>2 DEF ResetDeletes, cached
<1>6. CASE ResetReopens
  <2>1. /\ reset = "deleted" /\ reset' = "idle" /\ StoreFor
        /\ UNCHANGED <<rows, thread, writes, resets>>
    BY <1>6 DEF ResetReopens
  <2>2. /\ FilesFit' /\ registered' \in Files
        /\ path' \in 0..(MaxResets + 1) /\ made' \in Nat
        /\ registered # 0 => UNCHANGED <<path, made, registered, epoch, byId, bodies>>
        /\ registered = 0 => InvalidateAll
    BY <2>1, StoreForFits
  <2>3. BodyTypeOK'
    BY <2>1, <2>2, Records DEF BodyInv, BodyTypeOK, InvalidateAll
  <2>4. FencedUseRegistered'
    BY <2>1, <2>2 DEF BodyInv, FencedUseRegistered, StoresHaveFiles, Files
  <2>. QED BY <1>1, <1>2, <2>1, <2>2, <2>3, <2>4
<1>. QED BY <1>3, <1>4, <1>5, <1>6

\* The cache, its generations and the reads in progress fit together
\* (BodyCache, with_write_tx, store_for, close_store_for).
THEOREM BodyCacheInvariant == BodySpec => []BodyInv
<1>1. BodyInv /\ [BodyNext]_bvars => BodyInv'
  <2>. SUFFICES ASSUME BodyInv, [BodyNext]_bvars PROVE BodyInv'
    OBVIOUS
  <2>1. CASE UNCHANGED bvars
    <3>1. BodyTypeOK' /\ FilesFit' /\ StoresHaveFiles' /\ SeenIsPast'
      BY <2>1 DEF bvars, BodyInv, BodyTypeOK, FilesFit, StoresHaveFiles, SeenIsPast
    <3>2. ReadIsCurrent' /\ CachedIsStored'
      BY <2>1 DEF bvars, BodyInv, ReadIsCurrent, CachedIsStored, Unfinished, Generation
    <3>3. FencedUseRegistered' /\ FencedBringRegistered'
      BY <2>1 DEF bvars, BodyInv, FencedUseRegistered, FencedBringRegistered
    <3>. QED BY <3>1, <3>2, <3>3 DEF BodyInv
  <2>2. ASSUME NEW t \in Threads, ThreadStep(t) PROVE BodyInv'
    BY <2>2, TakePreserves, LeavePreserves, MissesPreserves, NotesPreserves, ReadsDiskPreserves,
       FillsPreserves, WritesPreserve, InvalidatesPreserves DEF ThreadStep
  <2>3. ASSUME NEW i \in Ids, Unloads(i) PROVE BodyInv'
    BY <2>3, UnloadsPreserves
  <2>4. CASE ResetCloses \/ ResetInvalidates \/ ResetDeletes \/ ResetReopens
    BY <2>4, ResetPreserves
  <2>. QED BY <2>1, <2>2, <2>3, <2>4 DEF BodyNext
<1>. QED BY InitBodyInv, <1>1, PTL DEF BodySpec

\* A cached body is the one its database holds unless a write of it has not
\* yet invalidated it, and its database is the registered store's unless a
\* reader without lock or lease brought it (fill, invalidate, close_store_for).
THEOREM BodyCacheCurrent == BodySpec => []CachedIsCurrent
<1>1. BodyInv => CachedIsCurrent
  BY DEF BodyInv, CachedIsStored, FencedBringRegistered, CachedIsCurrent
<1>. QED BY <1>1, BodyCacheInvariant, PTL
=============================================================================
