----------------------------- MODULE RemoteLink -----------------------------
(***************************************************************************)
(* One process on a remote machine, followed over a link that breaks       *)
(* (remote-agent/src): the host's Link with its supervisor, reader threads *)
(* and one SessionPipe; the daemon with its read and write loop per        *)
(* connection and one Session; the connections between them.  The session  *)
(* has one output stream, which stands for stdout and stderr, and an input *)
(* stream.  Bytes are their numbers in the stream.  A connection delivers  *)
(* in order; when it breaks, what is still under way is cut off somewhere, *)
(* and what had arrived may still be read by a loop that has not noticed.  *)
(***************************************************************************)
EXTENDS Integers, Sequences, Functions, SequenceFilter

CONSTANTS Scopes,    \* the instances explored; each fixes, for one behaviour:
                     \*   out, in: bytes the process and the user write
                     \*   breaks, giveUps: how often the link breaks, the supervisor gives up
                     \*   ends: whether the process ends by itself
                     \*   sleeps: whether the host may sleep through the janitor's lifetimes
                     \*   ops: what the user does besides writing
          MaxConns,  \* bound: connections
          RingCap,   \* bytes the agent keeps (output_limit)
          HostCap,   \* HOST_OUTPUT_LIMIT
          InRetain,  \* INPUT_RETAIN
          Chunk,     \* OUTPUT_CHUNK_BYTES
          Burst      \* bytes the process writes at a time

ASSUME RemoteAssumption ==
  /\ \A s \in Scopes : /\ {s.out, s.in, s.breaks, s.giveUps} \subseteq Nat
                       /\ s.ops \subseteq {"close", "kill", "release", "shut", "timeout"}
                       /\ {s.ends, s.sleeps} \subseteq BOOLEAN
                       /\ 2 * s.breaks < MaxConns
  /\ {RingCap, HostCap, InRetain, Chunk, Burst, MaxConns} \subseteq Nat \ {0}

Conns == 1..MaxConns
None == -1

VARIABLES scope,   \* the bounds of this behaviour; never changes
          link,    \* Link: status, connection, generation, wake, give-ups, handshake
          pend,    \* LinkState.pending in the order of the ids
          pipe,    \* the SessionPipe and whether the link still lists it
          inp,     \* InputBuffer
          user,    \* the thread that writes input and closes it
          sup,     \* what connect_once has still to write after the welcome
          hconn,   \* the host's end of each connection
          up, h2a, a2h,  \* the connections
          aconn,   \* the agent's end of each connection
          client,  \* Client: current connection, outbox; the spawn under way
          ses,     \* Session: ring, cursors, end, input port
          fed,     \* observer: the input the latest process was given
          got,     \* observer: the output the pipe took
          wrote,   \* observer: how much the first process wrote, and whether it is done
          overslept \* observer: a session was forgotten with its spawn still under way

hostVars == <<link, pend, pipe, inp, user, sup, hconn>>
vars == <<scope, link, pend, pipe, inp, user, sup, hconn, up, h2a, a2h, aconn, client, ses, fed, got, wrote, overslept>>

Larger(a, b) == IF a >= b THEN a ELSE b
Smaller(a, b) == IF a <= b THEN a ELSE b

-----------------------------------------------------------------------------
(* Ring: the most recent part of a stream, by absolute offset.             *)

EmptyRing == [start |-> 0, bytes |-> <<>>]
RingEnd(r) == r.start + Len(r.bytes)

RingPush(r, data, cap) ==
  LET all  == r.bytes \o data
      over == Larger(Len(all) - cap, 0)
  IN [start |-> r.start + over, bytes |-> SubSeq(all, over + 1, Len(all))]

\* Up to max bytes from offset, and where they really start.
ReadFrom(r, offset, max) ==
  LET from == Smaller(Larger(offset, r.start), RingEnd(r))
      skip == from - r.start
  IN [from |-> from, data |-> SubSeq(r.bytes, skip + 1, Smaller(skip + max, Len(r.bytes)))]

ConsumeTo(r, offset) ==
  LET to == Smaller(offset, RingEnd(r)) IN
  IF to > r.start THEN [start |-> to, bytes |-> SubSeq(r.bytes, to - r.start + 1, Len(r.bytes))]
                  ELSE r

SkipTo(r, offset) ==
  IF offset > RingEnd(r) THEN [start |-> offset, bytes |-> <<>>] ELSE ConsumeTo(r, offset)

-----------------------------------------------------------------------------
(* Frames and connections                                                  *)

Request(op)       == [k |-> "request", op |-> op]
Hello(at)         == [k |-> "hello", at |-> at]
Input(from, data) == [k |-> "input", from |-> from, data |-> data]
Bye(release)      == [k |-> "bye", release |-> release]
Welcome(known, n) == [k |-> "welcome", known |-> known, input |-> n]
Response(op, ok)  == [k |-> "response", op |-> op, ok |-> ok]
Output(from, d)   == [k |-> "output", from |-> from, data |-> d]
Gap(to)           == [k |-> "gap", to |-> to]
Exit(end)         == [k |-> "exit", end |-> end]

\* A write to a broken connection goes nowhere.
Written(ch, c, frames) ==
  IF c \in Conns /\ up[c] THEN [ch EXCEPT ![c] = @ \o frames] ELSE ch

\* Connection c breaks: each direction is cut somewhere.
Cut(c) ==
  IF c \in Conns /\ up[c]
  THEN /\ up' = [up EXCEPT ![c] = FALSE]
       /\ \E i \in 0..Len(h2a[c]) : h2a' = [h2a EXCEPT ![c] = SubSeq(@, 1, i)]
       /\ \E j \in 0..Len(a2h[c]) : a2h' = [a2h EXCEPT ![c] = SubSeq(@, 1, j)]
  ELSE UNCHANGED <<up, h2a, a2h>>

Init ==
  /\ scope \in Scopes
  /\ link = [status |-> "connecting", conn |-> 0, gen |-> 0, wake |-> FALSE, lost |-> 0, dial |-> 0]
  /\ pend = <<>>
  /\ pipe = [st |-> "none", spawned |-> FALSE, exit |-> None, failed |-> FALSE,
             ring |-> EmptyRing, lost |-> 0, consumed |-> 0, read |-> 0, eof |-> FALSE]
  /\ inp = [base |-> 0, bytes |-> <<>>, sent |-> 0, closed |-> FALSE]
  /\ user = [pc |-> "idle", conn |-> 0, to |-> 0, then |-> "idle", kills |-> 0]
  /\ sup = [pc |-> "idle", frames |-> <<>>]
  /\ hconn = [c \in Conns |-> "none"]
  /\ up = [c \in Conns |-> FALSE]
  /\ h2a = [c \in Conns |-> <<>>] /\ a2h = [c \in Conns |-> <<>>]
  /\ aconn = [c \in Conns |-> "none"]
  /\ client = [cur |-> 0, outbox |-> <<>>, spawning |-> 0]
  /\ ses = [live |-> FALSE, starts |-> 0, ring |-> EmptyRing, done |-> FALSE, reaped |-> FALSE,
            told |-> FALSE, exit |-> None, ccon |-> 0, cout |-> 0, csent |-> FALSE,
            received |-> 0, open |-> FALSE]
  /\ fed = <<>> /\ got = <<>> /\ wrote = [n |-> 0, done |-> FALSE]
  /\ overslept = FALSE

-----------------------------------------------------------------------------
(* The host: requests                                                      *)

Refusing == link.status \in {"closed", "unavailable"}

\* Link::register over the pending requests ps.
Register(op, ps) ==
  IF Refusing
  THEN pend' = ps /\ UNCHANGED <<link, h2a>>
  ELSE /\ pend' = Append(ps, [op |-> op, conn |-> link.conn, answered |-> FALSE, ok |-> TRUE])
       /\ h2a' = Written(h2a, link.conn, <<Request(op)>>)
       /\ link' = [link EXCEPT !.wake = @ \/ link.status = "lost"]

Without(op) == Keep(pend, {p \in Range(pend) : p.op # op})
Pending(op) == \E i \in 1..Len(pend) : pend[i].op = op

\* SessionPipe::fail
Failing(p) == IF p.exit = None THEN [p EXCEPT !.failed = TRUE] ELSE p

Spawn ==
  /\ pipe.st = "none" /\ ~Refusing
  /\ pipe' = [pipe EXCEPT !.st = "open"]
  /\ Register("spawn", pend)
  /\ UNCHANGED <<inp, user, sup, hconn, up, a2h, aconn, client, ses, fed, got, wrote>>

\* call_inner returns the reply.  A refused spawn is forgotten silently.
SpawnReturns ==
  /\ \E i \in 1..Len(pend) :
       /\ pend[i].op = "spawn" /\ pend[i].answered
       /\ pipe' = IF pend[i].ok THEN [pipe EXCEPT !.spawned = TRUE]
                                ELSE [pipe EXCEPT !.st = "gone"]
  /\ pend' = Without("spawn")
  /\ UNCHANGED <<link, inp, user, sup, hconn, up, h2a, a2h, aconn, client, ses, fed, got, wrote>>

\* No reply in time, or the link gave up while the caller waited: the
\* session is forgotten and released, since it may have started.
SpawnFails ==
  /\ Pending("spawn") /\ ("timeout" \in scope.ops \/ link.status \in {"lost", "unavailable"})
  /\ \A i \in 1..Len(pend) : pend[i].op = "spawn" => ~pend[i].answered
  /\ pipe' = [pipe EXCEPT !.st = "gone"]
  /\ Register("release", Without("spawn"))
  /\ UNCHANGED <<inp, user, sup, hconn, up, a2h, aconn, client, ses, fed, got, wrote>>

\* RemoteProcess::signal, once.
Kill ==
  /\ "kill" \in scope.ops /\ pipe.st = "open" /\ pipe.spawned
  /\ user.kills = 0
  /\ user' = [user EXCEPT !.kills = 1]
  /\ Register("kill", pend)
  /\ UNCHANGED <<pipe, inp, sup, hconn, up, a2h, aconn, client, ses, fed, got, wrote>>

\* Drop for RemoteProcess
Release ==
  /\ "release" \in scope.ops /\ pipe.st = "open" /\ pipe.spawned /\ user.pc = "idle"
  /\ pipe' = [pipe EXCEPT !.st = "gone"]
  /\ Register("release", pend)
  /\ UNCHANGED <<inp, user, sup, hconn, up, a2h, aconn, client, ses, fed, got, wrote>>

-----------------------------------------------------------------------------
(* The host: input                                                         *)

InNext == inp.base + Len(inp.bytes)

Overflowed(b) ==
  LET over == Larger(Len(b.bytes) - InRetain, 0) IN
  [b EXCEPT !.base = @ + over, !.bytes = SubSeq(@, over + 1, Len(@)),
            !.sent = Larger(@, b.base + over)]

\* SessionWriter::write up to send_input.
WriteInput ==
  /\ user.pc = "idle" /\ pipe.st = "open" /\ pipe.spawned
  /\ ~pipe.failed /\ pipe.exit = None /\ ~inp.closed
  /\ InNext < scope.in
  /\ inp' = Overflowed([inp EXCEPT !.bytes = Append(@, InNext + 1)])
  /\ user' = [user EXCEPT !.pc = "send", !.then = "idle"]
  /\ UNCHANGED <<link, pend, pipe, sup, hconn, up, h2a, a2h, aconn, client, ses, fed, got, wrote>>

\* close_stdin up to send_input.
CloseStdin ==
  /\ "close" \in scope.ops
  /\ user.pc = "idle" /\ pipe.st = "open" /\ pipe.spawned /\ ~inp.closed
  /\ inp' = [inp EXCEPT !.closed = TRUE]
  /\ user' = [user EXCEPT !.pc = "send", !.then = "register"]
  /\ UNCHANGED <<link, pend, pipe, sup, hconn, up, h2a, a2h, aconn, client, ses, fed, got, wrote>>

\* send_input takes the current writer before it takes the sending lock.
FetchWriter ==
  /\ user.pc = "send"
  /\ user' = [user EXCEPT !.pc = IF link.conn = 0 THEN user.then ELSE "locked", !.conn = link.conn]
  /\ UNCHANGED <<link, pend, pipe, inp, sup, hconn, up, h2a, a2h, aconn, client, ses, fed, got, wrote>>

Unsent == SubSeq(inp.bytes, inp.sent - inp.base + 1, Len(inp.bytes))
InputFrames == IF Unsent = <<>> THEN <<>> ELSE <<Input(inp.sent, Unsent)>>

\* What is unsent is written, to a writer that may be stale.
UserWrites ==
  /\ user.pc = "locked"
  /\ h2a' = Written(h2a, user.conn, InputFrames)
  /\ user' = [user EXCEPT !.pc = IF Unsent = <<>> THEN user.then ELSE "wrote", !.to = InNext]
  /\ UNCHANGED <<link, pend, pipe, inp, sup, hconn, up, a2h, aconn, client, ses, fed, got, wrote>>

\* The generation is compared ...
CheckGeneration ==
  /\ user.pc = "wrote"
  /\ user' = [user EXCEPT !.pc = IF link.gen = user.conn THEN "mark" ELSE user.then]
  /\ UNCHANGED <<link, pend, pipe, inp, sup, hconn, up, h2a, a2h, aconn, client, ses, fed, got, wrote>>

\* ... and the position recorded under another lock.
MarkSent ==
  /\ user.pc = "mark"
  /\ inp' = [inp EXCEPT !.sent = Larger(@, user.to)]
  /\ user' = [user EXCEPT !.pc = user.then]
  /\ UNCHANGED <<link, pend, pipe, sup, hconn, up, h2a, a2h, aconn, client, ses, fed, got, wrote>>

\* The rest of close_stdin.
RegisterClose ==
  /\ user.pc = "register"
  /\ Register("close", pend)
  /\ user' = [user EXCEPT !.pc = "idle"]
  /\ UNCHANGED <<pipe, inp, sup, hconn, up, a2h, aconn, client, ses, fed, got, wrote>>

\* InputBuffer::rewind
Rewound(b, confirmed) ==
  LET to == Smaller(confirmed, b.base + Len(b.bytes))
      n  == Larger(to - b.base, 0)
  IN [b EXCEPT !.base = b.base + n, !.bytes = SubSeq(@, n + 1, Len(@)),
               !.sent = Larger(to, b.base + n)]

-----------------------------------------------------------------------------
(* The host: the supervisor                                                *)

\* connect_once up to the hello.  A link that gave up waits for a request.
Launch ==
  /\ link.conn = 0 /\ link.dial = 0 /\ sup.pc = "idle"
  /\ \/ link.status \in {"connecting", "reconnecting"}
     \/ link.status = "lost" /\ link.wake
  /\ \E c \in Conns :
       /\ hconn[c] = "none" /\ \A d \in 1..(c - 1) : hconn[d] # "none"
       /\ hconn' = [hconn EXCEPT ![c] = "hello"]
       /\ up' = [up EXCEPT ![c] = TRUE]
       /\ h2a' = [h2a EXCEPT ![c] = <<Hello(IF pipe.st = "open" THEN RingEnd(pipe.ring) ELSE None)>>]
       /\ link' = [link EXCEPT !.dial = c, !.wake = FALSE,
                               !.status = IF link.gen = 0 THEN "connecting" ELSE "reconnecting"]
  /\ UNCHANGED <<pend, pipe, inp, user, sup, a2h, aconn, client, ses, fed, got, wrote>>

\* The handshake fails or takes too long.
LaunchFails(c) ==
  /\ link.dial = c /\ a2h[c] = <<>> /\ ~up[c]
  /\ link' = [link EXCEPT !.dial = 0]
  /\ hconn' = [hconn EXCEPT ![c] = "done"]
  /\ UNCHANGED <<pend, pipe, inp, user, sup, up, h2a, a2h, aconn, client, ses, fed, got, wrote>>

\* Mutant: a request sent on a connection that broke is not sent again.
ResentNone == <<>>

\* Pending requests go out again in the order of their ids.
Resent == [i \in 1..Len(pend) |-> Request(pend[i].op)]

\* The welcome is read and the connection installed in one critical section.
Install(c) ==
  /\ link.dial = c /\ a2h[c] # <<>>
  /\ LET w == Head(a2h[c])
         kept == w.known \/ Pending("spawn")
     IN /\ w.k = "welcome"
        /\ a2h' = [a2h EXCEPT ![c] = Tail(@)]
        /\ IF link.status = "closed"
           THEN /\ link' = [link EXCEPT !.dial = 0]
                /\ hconn' = [hconn EXCEPT ![c] = "done"]
                /\ up' = [up EXCEPT ![c] = FALSE]
                /\ UNCHANGED <<pend, pipe, inp, sup>>
           ELSE /\ link' = [link EXCEPT !.dial = 0, !.conn = c, !.gen = c, !.status = "connected"]
                /\ hconn' = [hconn EXCEPT ![c] = "reader"]
                /\ inp' = IF pipe.st = "open" /\ w.known THEN Rewound(inp, w.input) ELSE inp
                /\ pipe' = IF pipe.st = "open" /\ ~kept
                           THEN Failing([pipe EXCEPT !.st = "gone"]) ELSE pipe
                /\ sup' = [pc |-> "resend", frames |-> Resent]
                /\ pend' = [i \in 1..Len(pend) |-> [pend[i] EXCEPT !.conn = c]]
                /\ UNCHANGED up
  /\ UNCHANGED <<user, h2a, aconn, client, ses, fed, got, wrote>>

\* Resending happens after the lock was released, one frame at a time.
Resend ==
  /\ sup.pc = "resend" /\ sup.frames # <<>>
  /\ h2a' = Written(h2a, link.gen, <<Head(sup.frames)>>)
  /\ sup' = [sup EXCEPT !.frames = Tail(@)]
  /\ UNCHANGED <<link, pend, pipe, inp, user, hconn, up, a2h, aconn, client, ses, fed, got, wrote>>

\* connect_once's own send_input.
ResendInput ==
  /\ sup.pc = "resend" /\ sup.frames = <<>>
  /\ user.pc \notin {"wrote", "mark"}
  /\ sup' = [sup EXCEPT !.pc = "idle"]
  /\ IF link.conn # 0 /\ pipe.st = "open" /\ pipe.spawned
     THEN /\ h2a' = Written(h2a, link.conn, InputFrames)
          /\ inp' = [inp EXCEPT !.sent = Larger(@, InNext)]
     ELSE UNCHANGED <<h2a, inp>>
  /\ UNCHANGED <<link, pend, pipe, user, hconn, up, a2h, aconn, client, ses, fed, got, wrote>>

Abandoned(c) ==
  IF link.conn = c
  THEN [link EXCEPT !.conn = 0, !.status = IF @ = "closed" THEN @ ELSE "reconnecting"]
  ELSE link

\* No heartbeat, or a failed write: connection_lost closes the transport.
ConnectionLost(c) ==
  /\ link.conn = c /\ c <= scope.breaks
  /\ link' = Abandoned(c)
  /\ Cut(c)
  /\ UNCHANGED <<pend, pipe, inp, user, sup, hconn, aconn, client, ses, fed, got, wrote>>

\* The reader thread of c comes to the end of its stream.
ReaderDone(c) ==
  /\ hconn[c] = "reader" /\ a2h[c] = <<>> /\ ~up[c]
  /\ hconn' = [hconn EXCEPT ![c] = "done"]
  /\ link' = Abandoned(c)
  /\ UNCHANGED <<pend, pipe, inp, user, sup, up, h2a, a2h, aconn, client, ses, fed, got, wrote>>

\* Attempts failed for too long (Lost) or the agent cannot run (Unavailable).
GiveUp(status) ==
  /\ link.conn = 0 /\ link.dial = 0 /\ sup.pc = "idle"
  /\ link.status \in {"connecting", "reconnecting"} /\ link.lost < scope.giveUps
  /\ link' = [link EXCEPT !.status = status, !.lost = @ + 1, !.wake = FALSE]
  /\ pend' = Keep(pend, {p \in Range(pend) : p.op = "spawn"})
  /\ pipe' = IF pipe.st = "open"
             THEN Failing([pipe EXCEPT !.st = IF status = "lost" THEN @ ELSE "gone"]) ELSE pipe
  /\ UNCHANGED <<inp, user, sup, hconn, up, h2a, a2h, aconn, client, ses, fed, got, wrote>>

-----------------------------------------------------------------------------
(* The host: the end of the link, and frames from the agent                *)

\* Link::close: requests and sessions are dropped and the agent is told.
LinkClose ==
  /\ "shut" \in scope.ops /\ link.status # "closed" /\ user.pc = "idle"
  /\ link' = [link EXCEPT !.status = "closed", !.conn = 0]
  /\ pend' = <<>>
  /\ pipe' = IF pipe.st = "open" THEN Failing([pipe EXCEPT !.st = "gone"]) ELSE pipe
  /\ \E release \in BOOLEAN : h2a' = Written(h2a, link.conn, <<Bye(release)>>)
  /\ UNCHANGED <<inp, user, sup, hconn, up, a2h, aconn, client, ses, fed, got, wrote>>

\* The closer of a closed link runs once the agent ended the connection, or
\* after two seconds.
Closer(c) ==
  /\ link.status = "closed" /\ hconn[c] = "reader" /\ up[c]
  /\ Cut(c)
  /\ UNCHANGED <<hostVars, aconn, client, ses, fed, got, wrote>>

Listed == pipe.st = "open"

\* Mutant: an overlapping chunk is not trimmed to its new part.
DeliverWhole(f) ==
  LET end == RingEnd(pipe.ring) IN
  IF ~Listed \/ f.from + Len(f.data) <= end
  THEN UNCHANGED <<pipe, got>>
  ELSE /\ pipe' = [pipe EXCEPT !.ring = RingPush(IF f.from > end THEN SkipTo(pipe.ring, f.from) ELSE pipe.ring,
                                                 f.data, HostCap),
                               !.lost = @ + Larger(f.from - end, 0)]
       /\ got' = got \o f.data

\* SessionPipe::deliver: the new part of a chunk, over a gap if there is one.
Deliver(f) ==
  LET end  == RingEnd(pipe.ring)
      new  == SubSeq(f.data, Larger(end - f.from, 0) + 1, Len(f.data))
      base == IF f.from > end THEN SkipTo(pipe.ring, f.from) ELSE pipe.ring
  IN IF ~Listed \/ f.from + Len(f.data) <= end
     THEN UNCHANGED <<pipe, got>>
     ELSE /\ pipe' = [pipe EXCEPT !.ring = RingPush(base, new, HostCap),
                                  !.lost = @ + Larger(f.from - end, 0)]
          /\ got' = got \o new

\* SessionPipe::gap
TakeGap(f) ==
  LET end == RingEnd(pipe.ring) IN
  /\ pipe' = IF Listed /\ f.to > end
             THEN [pipe EXCEPT !.ring = SkipTo(@, f.to), !.lost = @ + f.to - end] ELSE pipe
  /\ UNCHANGED got

\* SessionPipe::finish
Finish(f) ==
  /\ pipe' = IF Listed /\ pipe.exit = None
             THEN [pipe EXCEPT !.exit = f.end,
                               !.ring = IF f.end > RingEnd(@) THEN SkipTo(@, f.end) ELSE @]
             ELSE pipe
  /\ UNCHANGED got

\* A reply settles its request; nobody waits for a detached one.
TakeResponse(f) ==
  pend' = IF f.op = "spawn"
          THEN [i \in 1..Len(pend) |-> IF pend[i].op = "spawn"
                                       THEN [pend[i] EXCEPT !.answered = TRUE, !.ok = f.ok] ELSE pend[i]]
          ELSE Without(f.op)

\* dispatch, on the reader thread of c, current or not.
Dispatch(c) ==
  /\ hconn[c] = "reader" /\ a2h[c] # <<>>
  /\ a2h' = [a2h EXCEPT ![c] = Tail(@)]
  /\ LET f == Head(a2h[c]) IN
       \/ f.k = "output" /\ Deliver(f) /\ UNCHANGED pend
       \/ f.k = "gap" /\ TakeGap(f) /\ UNCHANGED pend
       \/ f.k = "exit" /\ Finish(f) /\ UNCHANGED pend
       \/ f.k = "response" /\ TakeResponse(f) /\ UNCHANGED <<pipe, got>>
  /\ UNCHANGED <<link, inp, user, sup, hconn, up, h2a, aconn, client, ses, fed, wrote>>

\* SessionReader::read of all there is.  Gaps are stepped over.
Read ==
  /\ pipe.st # "none" /\ pipe.consumed < RingEnd(pipe.ring)
  /\ LET r == ReadFrom(pipe.ring, pipe.consumed, HostCap)
         to == r.from + Len(r.data)
     IN pipe' = [pipe EXCEPT !.consumed = to, !.read = @ + Len(r.data),
                             !.ring = IF r.data = <<>> THEN @ ELSE ConsumeTo(@, to)]
  /\ UNCHANGED <<link, pend, inp, user, sup, hconn, up, h2a, a2h, aconn, client, ses, fed, got, wrote>>

\* The reader returns end of file.
ReadEof ==
  /\ ~pipe.eof /\ pipe.exit # None
  /\ pipe.consumed >= RingEnd(pipe.ring) /\ pipe.consumed >= pipe.exit
  /\ pipe' = [pipe EXCEPT !.eof = TRUE]
  /\ UNCHANGED <<link, pend, inp, user, sup, hconn, up, h2a, a2h, aconn, client, ses, fed, got, wrote>>

-----------------------------------------------------------------------------
(* The agent: connections and requests                                     *)

Reading(c) == aconn[c] \in {"open", "serving"} /\ client.spawning # c

\* Mutant: an exit sent on an earlier connection counts as sent.
ResumedSent(c, at) == [ses EXCEPT !.ccon = c, !.cout = IF at = None THEN ses.ring.start ELSE at]

\* The cursors of a new connection: where the host is, nothing of the end
\* sent.  A session the host did not mention gets what is still held.
Resumed(c, at) ==
  [ses EXCEPT !.ccon = c, !.csent = FALSE, !.cout = IF at = None THEN ses.ring.start ELSE at]

\* introduce: the new connection replaces the current one, takes over the
\* session's cursors and is owed a welcome.
Introduce(c) ==
  /\ aconn[c] = "none" /\ h2a[c] # <<>> /\ Head(h2a[c]).k = "hello"
  /\ aconn' = [aconn EXCEPT ![c] = "open"]
  /\ client' = [client EXCEPT !.cur = c, !.outbox = <<Welcome(ses.live, ses.received)>>]
  /\ ses' = IF ses.live
            THEN Resumed(c, Head(h2a[c]).at)
            ELSE ses
  /\ LET old == client.cur IN
       IF old \in Conns /\ up[old]
       THEN /\ up' = [up EXCEPT ![old] = FALSE]
            /\ \E i \in 0..Len(h2a[old]) :
                 h2a' = [h2a EXCEPT ![c] = Tail(@), ![old] = SubSeq(@, 1, i)]
            /\ \E j \in 0..Len(a2h[old]) : a2h' = [a2h EXCEPT ![old] = SubSeq(@, 1, j)]
       ELSE /\ h2a' = [h2a EXCEPT ![c] = Tail(@)]
            /\ UNCHANGED <<up, a2h>>
  /\ UNCHANGED <<hostVars, fed, got, wrote>>

\* Mutant: retransmitted input is not recognised.
TakeInputWhole(f) ==
  IF ~ses.live
  THEN UNCHANGED <<ses, fed>>
  ELSE /\ ses' = [ses EXCEPT !.received = f.from + Len(f.data)]
       /\ fed' = IF ses.open THEN fed \o f.data ELSE fed

\* Session::write_input: what is new of a frame, also past a hole.
TakeInput(f) ==
  LET end == f.from + Len(f.data)
      new == SubSeq(f.data, Larger(ses.received - f.from, 0) + 1, Len(f.data))
  IN IF ~ses.live \/ end <= ses.received
     THEN UNCHANGED <<ses, fed>>
     ELSE /\ ses' = [ses EXCEPT !.received = end]
          /\ fed' = IF ses.open THEN fed \o new ELSE fed

\* terminate, and what a signal does while the session has not ended.
Terminated(s) == IF s.exit = None THEN [s EXCEPT !.told = TRUE, !.open = FALSE] ELSE s

\* handle, for everything but a spawn, and the queued response.
Handle(op) ==
  /\ \/ op = "close"   /\ ses' = IF ses.live THEN [ses EXCEPT !.open = FALSE] ELSE ses
     \/ op = "kill"    /\ ses' = IF ses.live /\ ses.exit = None THEN [ses EXCEPT !.told = TRUE] ELSE ses
     \/ op = "release" /\ ses' = IF ses.live THEN [Terminated(ses) EXCEPT !.live = FALSE] ELSE ses
  /\ client' = [client EXCEPT !.outbox = Append(@, Response(op, TRUE))]

\* read_loop of connection c: input, a request, or the host's goodbye.
ReadLoop(c) ==
  /\ Reading(c) /\ h2a[c] # <<>>
  /\ h2a' = [h2a EXCEPT ![c] = Tail(@)]
  /\ LET f == Head(h2a[c]) IN
       \/ f.k = "input" /\ TakeInput(f) /\ UNCHANGED <<client, up>>
       \/ f.k = "request" /\ f.op # "spawn" /\ Handle(f.op) /\ UNCHANGED <<fed, up>>
       \/ /\ f.k = "bye"
          /\ ses' = IF f.release /\ ses.live THEN [Terminated(ses) EXCEPT !.live = FALSE] ELSE ses
          /\ up' = [up EXCEPT ![c] = FALSE]
          /\ UNCHANGED <<client, fed>>
  /\ UNCHANGED <<hostVars, a2h, aconn, got, wrote>>

\* Mutant: the session a retransmitted spawn already started is not looked up.
BeginSpawnAgain(c) ==
  /\ Reading(c) /\ h2a[c] # <<>> /\ Head(h2a[c]) = Request("spawn")
  /\ client.spawning = 0
  /\ h2a' = [h2a EXCEPT ![c] = Tail(@)]
  /\ client' = [client EXCEPT !.spawning = c]
  /\ UNCHANGED <<hostVars, up, a2h, aconn, ses, fed, got, wrote>>

\* A spawn holds the client's spawning lock; a session that exists is the
\* reply to a retransmitted one.
BeginSpawn(c) ==
  /\ Reading(c) /\ h2a[c] # <<>> /\ Head(h2a[c]) = Request("spawn")
  /\ client.spawning = 0
  /\ h2a' = [h2a EXCEPT ![c] = Tail(@)]
  /\ client' = IF ses.live THEN [client EXCEPT !.outbox = Append(@, Response("spawn", TRUE))]
                           ELSE [client EXCEPT !.spawning = c]
  /\ UNCHANGED <<hostVars, up, a2h, aconn, ses, fed, got, wrote>>

\* The process has started: the session is listed under whichever connection
\* is current now.
EndSpawn ==
  /\ client.spawning # 0
  /\ ses' = [ses EXCEPT !.live = TRUE, !.starts = @ + 1, !.ring = EmptyRing, !.done = FALSE,
                        !.reaped = FALSE, !.told = FALSE, !.exit = None, !.ccon = client.cur,
                        !.cout = 0, !.csent = FALSE, !.received = 0, !.open = TRUE]
  /\ client' = [client EXCEPT !.spawning = 0, !.outbox = Append(@, Response("spawn", TRUE))]
  /\ fed' = <<>>
  /\ UNCHANGED <<hostVars, up, h2a, a2h, aconn, got, wrote>>

\* No such program, no such directory, too many sessions.
RefuseSpawn ==
  /\ client.spawning # 0
  /\ client' = [client EXCEPT !.spawning = 0, !.outbox = Append(@, Response("spawn", FALSE))]
  /\ UNCHANGED <<hostVars, up, h2a, a2h, aconn, ses, fed, got, wrote>>

\* The read loop of c ends; only the current connection's end matters.
ServeEnds(c) ==
  /\ Reading(c) /\ h2a[c] = <<>> /\ ~up[c]
  /\ aconn' = [aconn EXCEPT ![c] = "ended"]
  /\ client' = IF client.cur = c THEN [client EXCEPT !.cur = 0, !.outbox = <<>>] ELSE client
  /\ UNCHANGED <<hostVars, up, h2a, a2h, ses, fed, got, wrote>>

\* write_loop of the current connection: queued frames first, so the welcome
\* precedes any output.
Flush(c) ==
  /\ client.cur = c /\ client.outbox # <<>> /\ up[c]
  /\ a2h' = [a2h EXCEPT ![c] = @ \o client.outbox]
  /\ client' = [client EXCEPT !.outbox = <<>>]
  /\ aconn' = [aconn EXCEPT ![c] = "serving"]
  /\ UNCHANGED <<hostVars, up, h2a, ses, fed, got, wrote>>

\* next_frames: a gap where the ring dropped bytes, a chunk, and the exit once
\* everything before it is out.
NextFrames ==
  LET r     == ReadFrom(ses.ring, ses.cout, Chunk)
      more  == ses.cout < RingEnd(ses.ring)
      next  == IF more THEN r.from + Len(r.data) ELSE ses.cout
      exits == ses.exit # None /\ next >= ses.exit /\ ~ses.csent
  IN [next   |-> next, exits |-> exits,
      frames |-> (IF more /\ r.from > ses.cout THEN <<Gap(r.from)>> ELSE <<>>)
                 \o (IF more /\ r.data # <<>> THEN <<Output(r.from, r.data)>> ELSE <<>>)
                 \o (IF exits THEN <<Exit(ses.exit)>> ELSE <<>>)]

SendFrames(c) ==
  /\ client.cur = c /\ aconn[c] = "serving" /\ up[c]
  /\ ses.live /\ ses.ccon = c
  /\ NextFrames.frames # <<>>
  /\ a2h' = [a2h EXCEPT ![c] = @ \o NextFrames.frames]
  /\ ses' = [ses EXCEPT !.cout = NextFrames.next, !.csent = @ \/ NextFrames.exits]
  /\ UNCHANGED <<hostVars, up, h2a, aconn, client, fed, got, wrote>>

-----------------------------------------------------------------------------
(* The agent: the process and the janitor                                  *)

\* SessionState::settle
Settled(s) ==
  IF s.exit = None /\ s.done /\ s.reaped THEN [s EXCEPT !.exit = RingEnd(s.ring)] ELSE s

\* The process writes once more.
RecordOutput ==
  /\ ses.starts > 0 /\ ~ses.done /\ RingEnd(ses.ring) < scope.out
  /\ ses' = [ses EXCEPT !.ring = RingPush(@, [i \in 1..Burst |-> RingEnd(ses.ring) + i], RingCap)]
  /\ wrote' = IF ses.starts = 1 THEN [wrote EXCEPT !.n = @ + Burst] ELSE wrote
  /\ UNCHANGED <<hostVars, up, h2a, a2h, aconn, client, fed, got>>

\* The process ends by itself once it has written its bytes, or when told to.
Ending == ses.told \/ (scope.ends /\ RingEnd(ses.ring) = scope.out)

\* End of file on the output, possibly after the process itself is gone.
StreamDone ==
  /\ ses.starts > 0 /\ ~ses.done /\ Ending
  /\ ses' = Settled([ses EXCEPT !.done = TRUE])
  /\ wrote' = IF ses.starts = 1 THEN [wrote EXCEPT !.done = TRUE] ELSE wrote
  /\ UNCHANGED <<hostVars, up, h2a, a2h, aconn, client, fed, got>>

\* The process ends, by itself or because it was told to.
Reaped ==
  /\ ses.starts > 0 /\ ~ses.reaped /\ Ending
  /\ ses' = Settled([ses EXCEPT !.reaped = TRUE])
  /\ UNCHANGED <<hostVars, up, h2a, a2h, aconn, client, fed, got, wrote>>

\* The host waits for its spawn to be answered, or a copy of it is on its way.
SpawnUnderWay ==
  \/ Pending("spawn") \/ client.spawning # 0
  \/ Request("spawn") \in Range(sup.frames)
  \/ \E c \in Conns : Request("spawn") \in Range(h2a[c])

\* The janitor asks only its own clock.  Its lifetimes outlast the host's wait
\* for a reply, unless the host, and the clock of that wait, are asleep.
LifetimePasses == scope.sleeps \/ ~SpawnUnderWay

\* A session nobody has been connected to for its orphan time is terminated.
Reclaim ==
  /\ LifetimePasses
  /\ ses.live /\ client.cur = 0 /\ ses.exit = None /\ ~ses.told
  /\ ses' = Terminated(ses)
  /\ UNCHANGED <<hostVars, up, h2a, a2h, aconn, client, fed, got, wrote>>

\* A finished session is forgotten; a host connected for all of
\* finished_linger, an hour, has been sent its end long before.
Forget ==
  /\ LifetimePasses
  /\ ses.live /\ ses.exit # None
  /\ client.cur = 0 \/ ses.csent
  /\ ses' = [ses EXCEPT !.live = FALSE]
  /\ UNCHANGED <<hostVars, up, h2a, a2h, aconn, client, fed, got, wrote>>

\* The network, or the janitor's silence timeout, ends a connection.
Break(c) ==
  /\ c <= scope.breaks /\ up[c]
  /\ Cut(c)
  /\ UNCHANGED <<hostVars, aconn, client, ses, fed, got, wrote>>

-----------------------------------------------------------------------------
HostStep ==
  \/ SpawnReturns \/ FetchWriter \/ UserWrites \/ CheckGeneration \/ MarkSent \/ RegisterClose
  \/ Launch \/ Resend \/ ResendInput \/ Read \/ ReadEof
  \/ \E c \in Conns : LaunchFails(c) \/ Install(c) \/ ReaderDone(c) \/ Dispatch(c) \/ Closer(c)

AgentStep ==
  \/ EndSpawn
  \/ \E c \in Conns : Introduce(c) \/ ReadLoop(c) \/ BeginSpawn(c) \/ ServeEnds(c) \/ Flush(c) \/ SendFrames(c)

ProcessStep == RecordOutput \/ StreamDone \/ Reaped

\* What users, the network and the clock may do but need not.
OtherStep ==
  \/ Spawn \/ SpawnFails \/ Kill \/ Release \/ WriteInput \/ CloseStdin \/ LinkClose
  \/ GiveUp("lost") \/ GiveUp("unavailable")
  \/ RefuseSpawn \/ Reclaim \/ Forget
  \/ \E c \in Conns : Break(c) \/ ConnectionLost(c)

Next ==
  /\ HostStep \/ AgentStep \/ ProcessStep \/ OtherStep
  /\ UNCHANGED scope
  /\ overslept' = (overslept \/ (Forget /\ SpawnUnderWay))

Spec == Init /\ [][Next]_vars

\* Every thread of the host and the agent keeps running.  No behaviour within
\* the bounds repeats a state, so together is as good as each.
SystemStep == (HostStep \/ AgentStep) /\ UNCHANGED <<scope, overslept>>

FairSpec ==
  /\ Spec
  /\ WF_vars(SystemStep)

-----------------------------------------------------------------------------
(* Properties                                                              *)

\* What the host makes of the session's output is a gap stream of what the
\* process wrote: in order, once each, every skipped byte counted in `lost`,
\* and the end known only when everything before it is accounted for
\* (deliver, gap, finish, next_frames and introduce across reconnects).
Stream == INSTANCE OutputStream WITH
            written <- wrote.n,
            ended   <- wrote.done,
            got     <- got,
            at      <- RingEnd(pipe.ring),
            lost    <- pipe.lost,
            known   <- pipe.exit # None

\* A host that overslept follows two processes as if they were one.
ImplementsStream ==
  /\ Stream!StreamInit
  /\ [][Stream!StreamNext \/ overslept']_<<wrote.n, wrote.done, got, RingEnd(pipe.ring), pipe.lost, pipe.exit # None>>

\* However often a spawn is sent again, one process is started for a session
\* the host still wants (the spawning lock, pending and resend), as long as
\* the session of a spawn under way is not forgotten: the janitor's ten minutes
\* (protocol.rs:176) outlast the wait for a reply, unless the host sleeps
\* through them (README, Observations; protocol.rs:19-27 has no exception).
OneProcess == pipe.st = "open" /\ ~overslept => ses.starts <= 1

\* A process is given no input twice and none out of order, whatever is sent
\* again (rewind, send_input, write_input).
InputInOrder == \A i, j \in 1..Len(fed) : i < j => fed[i] < fed[j]

\* The end of a session is known to the host in the end, or it has said that
\* it cannot follow the session; a host that overslept follows another one.
ExitReaches == (ses.exit # None) ~> (pipe.exit # None \/ pipe.failed \/ pipe.st = "gone" \/ overslept)

\* A signal reaches the process, or the process or the session ends first;
\* only a supervisor that gives up drops it (signal, register, resend), and a
\* host that overslept may have signalled the process before this one.
KillReaches ==
  (user.kills > 0) ~> (ses.told \/ ses.exit # None \/ pipe.st = "gone" \/ link.lost > 0 \/ overslept)

-----------------------------------------------------------------------------
(* What the comments promise and the code does not always do               *)

\* Input written before close_stdin reaches the process before its input
\* ends: "Writes are queued and delivered in order across reconnects".
CloseAfterInput ==
  (ses.starts = 1 /\ ses.live /\ ~ses.open /\ ~ses.told) => Len(fed) = InNext

\* "Without a reply the process may or may not have started; releasing covers
\* both": once the agent has answered the release, nothing is left running.
ReleasingCovers ==
  (pipe.st = "gone" /\ pend = <<>> /\ link.lost = 0 /\ link.status = "connected" /\ sup.pc = "idle"
     /\ client.spawning = 0 /\ \A c \in Conns : h2a[c] = <<>>)
  => ~(ses.live /\ ses.exit = None)
=============================================================================
