-------------------------- MODULE RemoteLinkProofs --------------------------
(***************************************************************************)
(* The remote link, for any number of connections, breaks, give-ups and    *)
(* bytes: what travels on the connections, and from it that a spawn sent   *)
(* again starts one process, that input is applied once and in order, and  *)
(* that what the host makes of the output implements OutputStream.         *)
(***************************************************************************)
EXTENDS RemoteLink, SequenceInduction

-----------------------------------------------------------------------------
(* What travels *)

\* Bytes are their numbers in the stream, without a hole.
Numbered(from, s) == \A i \in 1..Len(s) : s[i] = from + i

Rings == {r \in [start : Nat, bytes : Seq(Nat)] : Numbered(r.start, r.bytes)}

Ops == {"spawn", "kill", "close", "release"}

RequestsOf(O) == [k : {"request"}, op : O]
Hellos(n)     == [k : {"hello"}, at : {None} \cup (0..n)]
Inputs        == {f \in [k : {"input"}, from : Nat, data : Seq(Nat)] : Numbered(f.from, f.data)}
Byes(B)       == [k : {"bye"}, release : B]

\* Frames to the agent: requests for O, goodbyes of B, hellos up to n.
HostFrames(O, B, n) == RequestsOf(O) \cup Hellos(n) \cup Inputs \cup Byes(B)

Replies   == [k : {"welcome"}, known : BOOLEAN, input : Nat] \cup [k : {"response"}, op : Ops, ok : BOOLEAN]
Outputs   == {f \in [k : {"output"}, from : Nat, data : Seq(Nat)] : Numbered(f.from, f.data)}
AgentFrames == Replies \cup Outputs \cup [k : {"gap"}, to : Nat] \cup [k : {"exit"}, end : Nat]

\* Frames that are true of a process that has written n bytes.
TrueFrames(n, done) ==
  {f \in AgentFrames : /\ f.k = "output" => f.from + Len(f.data) <= n
                       /\ f.k = "gap" => f.to <= n
                       /\ f.k = "exit" => done /\ f.end = n}

PendingFor(O) == [op : O, conn : 0..MaxConns, answered : BOOLEAN, ok : BOOLEAN]

\* Nothing but O was asked for, said goodbye with or announced.
Asked(O, B, n) ==
  /\ pend \in Seq(PendingFor(O))
  /\ sup.frames \in Seq(RequestsOf(O))
  /\ h2a \in [Conns -> Seq(HostFrames(O, B, n))]

-----------------------------------------------------------------------------
(* Types *)

Links == [status : {"connecting", "connected", "reconnecting", "lost", "unavailable", "closed"},
          conn : 0..MaxConns, gen : 0..MaxConns, wake : BOOLEAN, lost : Nat, dial : 0..MaxConns]

Pipes == [st : {"none", "open", "gone"}, spawned : BOOLEAN, exit : Nat \cup {None}, failed : BOOLEAN,
          ring : Rings, lost : Nat, consumed : Nat, read : Nat, eof : BOOLEAN]

InputBuffers ==
  {b \in [base : Nat, bytes : Seq(Nat), sent : Nat, closed : BOOLEAN] :
     Numbered(b.base, b.bytes) /\ b.base <= b.sent}

Users == [pc : {"idle", "send", "locked", "wrote", "mark", "register"}, conn : 0..MaxConns, to : Nat,
          then : {"idle", "register"}, kills : Nat]

Clients == [cur : 0..MaxConns, outbox : Seq(Replies), spawning : 0..MaxConns]

Sessions == [live : BOOLEAN, starts : Nat, ring : Rings, done : BOOLEAN, reaped : BOOLEAN,
             told : BOOLEAN, exit : Nat \cup {None}, ccon : 0..MaxConns, cout : Nat, csent : BOOLEAN,
             received : Nat, open : BOOLEAN]

HostTypes ==
  /\ link \in Links /\ pipe \in Pipes /\ inp \in InputBuffers /\ user \in Users
  /\ pend \in Seq(PendingFor(Ops))
  /\ sup \in [pc : {"idle", "resend"}, frames : Seq(RequestsOf(Ops))]
  /\ hconn \in [Conns -> {"none", "hello", "reader", "done"}]

AgentTypes ==
  /\ aconn \in [Conns -> {"none", "open", "serving", "ended"}]
  /\ client \in Clients /\ ses \in Sessions

WireTypes ==
  /\ up \in [Conns -> BOOLEAN]
  /\ h2a \in [Conns -> Seq(HostFrames(Ops, BOOLEAN, RingEnd(pipe.ring)))]
  /\ a2h \in [Conns -> Seq(AgentFrames)]

ObserverTypes ==
  /\ fed \in Seq(Nat) /\ got \in Seq(Nat) /\ wrote \in [n : Nat, done : BOOLEAN]
  /\ overslept \in BOOLEAN

RemoteTypeOK == scope \in Scopes /\ HostTypes /\ AgentTypes /\ WireTypes /\ ObserverTypes

-----------------------------------------------------------------------------
(* Rings *)

LEMMA ConstantsFit ==
  /\ RingCap \in Nat \ {0} /\ HostCap \in Nat \ {0} /\ InRetain \in Nat \ {0}
  /\ Chunk \in Nat \ {0} /\ Burst \in Nat \ {0} /\ MaxConns \in Nat \ {0}
  BY RemoteAssumption

\* A part of a numbered sequence is numbered from where it begins.
LEMMA NumberedPart ==
  ASSUME NEW s \in Seq(Nat), NEW from \in Int, Numbered(from, s),
         NEW k \in Nat, NEW m \in Nat, m <= Len(s), NEW start, start = from + k
  PROVE  /\ SubSeq(s, k + 1, m) \in Seq(Nat)
         /\ Len(SubSeq(s, k + 1, m)) = IF k <= m THEN m - k ELSE 0
         /\ Numbered(start, SubSeq(s, k + 1, m))
<1> DEFINE part == SubSeq(s, k + 1, m)
<1>1. Len(s) \in Nat /\ \A i \in 1..Len(s) : s[i] \in Nat
  BY LenProperties
<1>2. \A i \in (k + 1)..m : s[i] \in Nat
  BY <1>1
<1>3. /\ part \in Seq(Nat)
      /\ Len(part) = IF k + 1 <= m THEN m - (k + 1) + 1 ELSE 0
      /\ \A i \in 1..(m - (k + 1) + 1) : part[i] = s[k + 1 + i - 1]
  BY <1>2, SubSeqProperties, k + 1 \in Int, m \in Int
<1>4. \A i \in 1..Len(part) : part[i] = from + k + i
  <2> SUFFICES ASSUME NEW i \in 1..Len(part) PROVE part[i] = from + k + i
    OBVIOUS
  <2>1. k + i \in 1..Len(s) /\ i \in 1..(m - (k + 1) + 1)
    BY <1>1, <1>3
  <2>2. part[i] = s[k + 1 + i - 1] /\ k + 1 + i - 1 = k + i
    BY <1>3, <2>1
  <2>3. s[k + i] = from + (k + i)
    BY <2>1 DEF Numbered
  <2> QED  BY <2>2, <2>3
<1> QED  BY <1>3, <1>4 DEF Numbered

\* A numbered sequence continued where it ends is numbered.
LEMMA NumberedConcat ==
  ASSUME NEW s \in Seq(Nat), NEW t \in Seq(Nat), NEW from \in Int, NEW next,
         Numbered(from, s), next = from + Len(s), Numbered(next, t)
  PROVE  s \o t \in Seq(Nat) /\ Len(s \o t) = Len(s) + Len(t) /\ Numbered(from, s \o t)
<1>1. /\ s \o t \in Seq(Nat)
      /\ Len(s \o t) = Len(s) + Len(t)
      /\ \A i \in 1..(Len(s) + Len(t)) : (s \o t)[i] = IF i <= Len(s) THEN s[i] ELSE t[i - Len(s)]
  BY ConcatProperties
<1>2. Len(s) \in Nat /\ Len(t) \in Nat
  BY LenProperties
<1>3. ASSUME NEW i \in 1..(Len(s) + Len(t)) PROVE (s \o t)[i] = from + i
  <2>1. CASE i <= Len(s)
    BY <1>1, <1>2, <2>1 DEF Numbered
  <2>2. CASE i > Len(s)
    <3>1. i - Len(s) \in 1..Len(t)
      BY <1>2, <2>2
    <3>2. t[i - Len(s)] = next + (i - Len(s))
      BY <3>1 DEF Numbered
    <3> QED  BY <1>1, <1>2, <2>2, <3>2
  <2> QED  BY <1>2, <2>1, <2>2
<1> QED  BY <1>1, <1>3 DEF Numbered

LEMMA RingEndIs ==
  ASSUME NEW r \in Rings
  PROVE  /\ RingEnd(r) \in Nat /\ r.start \in Nat /\ r.bytes \in Seq(Nat) /\ Len(r.bytes) \in Nat
         /\ RingEnd(r) = r.start + Len(r.bytes) /\ r.start <= RingEnd(r)
         /\ Numbered(r.start, r.bytes)
<1>1. r.start \in Nat /\ r.bytes \in Seq(Nat) /\ Numbered(r.start, r.bytes)
  BY DEF Rings
<1>2. Len(r.bytes) \in Nat
  BY <1>1, LenProperties
<1> QED  BY <1>1, <1>2 DEF RingEnd

LEMMA RingIs ==
  ASSUME NEW start \in Nat, NEW bytes \in Seq(Nat), Numbered(start, bytes)
  PROVE  /\ [start |-> start, bytes |-> bytes] \in Rings
         /\ RingEnd([start |-> start, bytes |-> bytes]) = start + Len(bytes)
  BY DEF Rings, RingEnd

LEMMA EmptyRingIs == EmptyRing \in Rings /\ RingEnd(EmptyRing) = 0 /\ EmptyRing.start = 0
<1>1. <<>> \in Seq(Nat) /\ Len(<<>>) = 0
  BY EmptySeq
<1>2. Numbered(0, <<>>)
  BY <1>1 DEF Numbered
<1> QED  BY <1>1, <1>2 DEF EmptyRing, Rings, RingEnd

LEMMA RingPushIs ==
  ASSUME NEW r \in Rings, NEW data \in Seq(Nat), Numbered(RingEnd(r), data), NEW cap \in Nat
  PROVE  RingPush(r, data, cap) \in Rings /\ RingEnd(RingPush(r, data, cap)) = RingEnd(r) + Len(data)
<1> DEFINE all  == r.bytes \o data
           over == Larger(Len(all) - cap, 0)
           rest == SubSeq(all, over + 1, Len(all))
<1>1. r.start \in Nat /\ r.bytes \in Seq(Nat) /\ Numbered(r.start, r.bytes) /\ RingEnd(r) = r.start + Len(r.bytes)
  BY RingEndIs
<1>2. Len(r.bytes) \in Nat /\ Len(data) \in Nat
  BY <1>1, LenProperties
<1>3. all \in Seq(Nat) /\ Len(all) = Len(r.bytes) + Len(data) /\ Numbered(r.start, all)
  <2>1. r.start \in Int
    BY <1>1
  <2> QED  BY <1>1, <2>1, NumberedConcat
<1>4. over \in Nat /\ over <= Len(all) /\ Len(all) \in Nat
  BY <1>2, <1>3 DEF Larger
<1>5. RingPush(r, data, cap) = [start |-> r.start + over, bytes |-> rest]
  BY DEF RingPush
<1> HIDE DEF all, over
<1>6. rest \in Seq(Nat) /\ Len(rest) = Len(all) - over /\ Numbered(r.start + over, rest)
  <2>1. r.start \in Int
    BY <1>1
  <2>2. rest \in Seq(Nat) /\ Len(rest) = IF over <= Len(all) THEN Len(all) - over ELSE 0
    BY <1>3, <1>4, <2>1, NumberedPart
  <2>3. Numbered(r.start + over, rest)
    BY <1>3, <1>4, <2>1, NumberedPart
  <2> QED  BY <1>4, <2>2, <2>3
<1> HIDE DEF rest
<1>7. r.start + over \in Nat
  BY <1>1, <1>4
<1>8. RingPush(r, data, cap) \in Rings /\ RingEnd(RingPush(r, data, cap)) = r.start + over + Len(rest)
  BY <1>5, <1>6, <1>7, RingIs
<1>9. r.start + over + Len(rest) = RingEnd(r) + Len(data)
  BY <1>1, <1>2, <1>3, <1>4, <1>6
<1> QED  BY <1>8, <1>9

LEMMA ReadFromIs ==
  ASSUME NEW r \in Rings, NEW offset \in Nat, NEW max \in Nat \ {0}
  PROVE  LET x == ReadFrom(r, offset, max) IN
         /\ x.from \in Nat /\ x.from = Smaller(Larger(offset, r.start), RingEnd(r))
         /\ x.data \in Seq(Nat) /\ Numbered(x.from, x.data)
         /\ x.from + Len(x.data) <= RingEnd(r)
         /\ x.from < RingEnd(r) => Len(x.data) > 0
<1> DEFINE from == Smaller(Larger(offset, r.start), RingEnd(r))
           skip == from - r.start
           upto == Smaller(skip + max, Len(r.bytes))
           part == SubSeq(r.bytes, skip + 1, upto)
<1>1. r.start \in Nat /\ Len(r.bytes) \in Nat /\ RingEnd(r) \in Nat /\ RingEnd(r) = r.start + Len(r.bytes)
  BY RingEndIs
<1>2. r.bytes \in Seq(Nat) /\ Numbered(r.start, r.bytes)
  BY RingEndIs
<1>3. from \in Nat /\ skip \in Nat /\ skip <= Len(r.bytes) /\ from = r.start + skip
  BY <1>1 DEF Larger, Smaller
<1>4. upto \in Nat /\ upto <= Len(r.bytes) /\ skip <= upto /\ (skip < Len(r.bytes) => skip < upto)
  BY <1>1, <1>3 DEF Smaller
<1>5. ReadFrom(r, offset, max) = [from |-> from, data |-> part]
  BY DEF ReadFrom
<1> HIDE DEF skip, upto
<1>6. part \in Seq(Nat) /\ Len(part) = upto - skip /\ Numbered(from, part)
  <2> HIDE DEF from
  <2>1. r.start \in Int
    BY <1>1
  <2>2. part \in Seq(Nat) /\ Len(part) = IF skip <= upto THEN upto - skip ELSE 0
    BY <1>2, <1>3, <1>4, <2>1, NumberedPart
  <2>3. Numbered(from, part)
    BY <1>2, <1>3, <1>4, <2>1, NumberedPart
  <2> QED  BY <1>4, <2>2, <2>3
<1> HIDE DEF part
<1>7. from + Len(part) <= RingEnd(r) /\ (from < RingEnd(r) => Len(part) > 0)
  <2> HIDE DEF from
  <2> QED  BY <1>1, <1>3, <1>4, <1>6
<1> QED  BY <1>3, <1>5, <1>6, <1>7

LEMMA ConsumeToIs ==
  ASSUME NEW r \in Rings, NEW offset \in Nat
  PROVE  ConsumeTo(r, offset) \in Rings /\ RingEnd(ConsumeTo(r, offset)) = RingEnd(r)
<1> DEFINE to == Smaller(offset, RingEnd(r))
<1>0. r.bytes \in Seq(Nat) /\ Numbered(r.start, r.bytes)
  BY RingEndIs
<1>1. r.start \in Nat /\ Len(r.bytes) \in Nat /\ RingEnd(r) \in Nat /\ RingEnd(r) = r.start + Len(r.bytes)
  BY RingEndIs
<1>2. to \in Nat /\ to <= RingEnd(r)
  BY <1>1 DEF Smaller
<1>3. CASE to > r.start
  <2> DEFINE k == to - r.start
  <2>1. k \in Nat /\ k <= Len(r.bytes) /\ r.start + k = to
    BY <1>1, <1>2, <1>3
  <2>2. ConsumeTo(r, offset) = [start |-> to, bytes |-> SubSeq(r.bytes, k + 1, Len(r.bytes))]
    BY <1>3 DEF ConsumeTo
  <2> HIDE DEF k, to
  <2> DEFINE rest == SubSeq(r.bytes, k + 1, Len(r.bytes))
  <2>3. rest \in Seq(Nat) /\ Len(rest) = Len(r.bytes) - k /\ Numbered(to, rest)
    BY <1>0, <1>1, <2>1, NumberedPart
  <2> HIDE DEF rest
  <2>4. [start |-> to, bytes |-> rest] \in Rings /\ RingEnd([start |-> to, bytes |-> rest]) = to + Len(rest)
    BY <1>2, <2>3, RingIs
  <2>5. to + Len(rest) = RingEnd(r)
    <3>1. Len(rest) = Len(r.bytes) - k
      BY <2>3
    <3>2. to = r.start + k
      BY <2>1
    <3> QED  BY <1>1, <2>1, <3>1, <3>2
  <2> QED  BY <2>2, <2>4, <2>5 DEF rest
<1>4. CASE ~(to > r.start)
  BY <1>4 DEF ConsumeTo
<1> QED  BY <1>3, <1>4

LEMMA SkipToIs ==
  ASSUME NEW r \in Rings, NEW offset \in Nat
  PROVE  SkipTo(r, offset) \in Rings /\ RingEnd(SkipTo(r, offset)) = Larger(offset, RingEnd(r))
<1>0. RingEnd(r) \in Nat
  BY RingEndIs
<1>1. CASE offset > RingEnd(r)
  <2>1. <<>> \in Seq(Nat) /\ Len(<<>>) = 0
    BY EmptySeq
  <2>2. Numbered(offset, <<>>)
    BY <2>1 DEF Numbered
  <2>3. SkipTo(r, offset) = [start |-> offset, bytes |-> <<>>]
    BY <1>1 DEF SkipTo
  <2>4. SkipTo(r, offset) \in Rings /\ RingEnd(SkipTo(r, offset)) = offset + 0
    BY <2>1, <2>2, <2>3, RingIs
  <2> QED  BY <1>0, <1>1, <2>4 DEF Larger
<1>2. CASE ~(offset > RingEnd(r))
  <2>1. SkipTo(r, offset) = ConsumeTo(r, offset)
    BY <1>2 DEF SkipTo
  <2> QED  BY <1>0, <1>2, <2>1, ConsumeToIs DEF Larger
<1> QED  BY <1>1, <1>2

-----------------------------------------------------------------------------
(* Connections *)

LEMMA PrefixIs ==
  ASSUME NEW F, NEW s \in Seq(F), NEW i \in 0..Len(s)
  PROVE  /\ SubSeq(s, 1, i) \in Seq(F) /\ Len(SubSeq(s, 1, i)) = i
         /\ \A j \in 1..i : SubSeq(s, 1, i)[j] = s[j]
<1>1. Len(s) \in Nat /\ \A j \in 1..Len(s) : s[j] \in F
  BY LenProperties
<1>2. \A j \in 1..i : s[j] \in F
  BY <1>1
<1>3. /\ SubSeq(s, 1, i) \in Seq(F)
      /\ Len(SubSeq(s, 1, i)) = IF 1 <= i THEN i - 1 + 1 ELSE 0
      /\ \A j \in 1..(i - 1 + 1) : SubSeq(s, 1, i)[j] = s[1 + j - 1]
  BY <1>1, <1>2, SubSeqProperties, i \in Int, 1 \in Int
<1> QED  BY <1>1, <1>3

LEMMA FramesFit ==
  ASSUME NEW O, NEW P, NEW B, NEW C, NEW m \in Nat, NEW n \in Nat, O \subseteq P, B \subseteq C, m <= n
  PROVE  HostFrames(O, B, m) \subseteq HostFrames(P, C, n)
<1>1. RequestsOf(O) \subseteq RequestsOf(P)
  BY DEF RequestsOf
<1>2. Byes(B) \subseteq Byes(C)
  BY DEF Byes
<1>3. Hellos(m) \subseteq Hellos(n)
  BY DEF Hellos
<1> QED  BY <1>1, <1>2, <1>3 DEF HostFrames

LEMMA ChannelsFit ==
  ASSUME NEW F, NEW G, F \subseteq G, NEW ch \in [Conns -> Seq(F)]
  PROVE  ch \in [Conns -> Seq(G)]
  BY SeqMonotonic

\* Writing on a connection.
LEMMA WrittenIs ==
  ASSUME NEW F, NEW ch \in [Conns -> Seq(F)], NEW c, NEW E, E \subseteq F, NEW frames \in Seq(E)
  PROVE  Written(ch, c, frames) \in [Conns -> Seq(F)]
<1>1. frames \in Seq(F)
  BY SeqMonotonic
<1>2. CASE c \in Conns /\ up[c]
  <2>1. Written(ch, c, frames) = [ch EXCEPT ![c] = @ \o frames]
    BY <1>2 DEF Written
  <2>2. ch[c] \o frames \in Seq(F) /\ ch[c] \in Seq(F)
    BY <1>1, <1>2, ConcatProperties
  <2> QED  BY <1>2, <2>1, <2>2
<1>3. CASE ~(c \in Conns /\ up[c])
  BY <1>3 DEF Written
<1> QED  BY <1>2, <1>3

\* What was first on a connection stays first.
LEMMA WrittenHead ==
  ASSUME NEW F, NEW ch \in [Conns -> Seq(F)], NEW d, NEW E, E \subseteq F, NEW frames \in Seq(E),
         NEW c \in Conns, NEW s, s = Written(ch, d, frames)[c]
  PROVE  /\ ~up[c] => s = ch[c]
         /\ ch[c] # <<>> => s # <<>> /\ Head(s) = Head(ch[c])
         /\ ch[c] = <<>> /\ s # <<>> => Head(s) \in E
<1>1. frames \in Seq(F) /\ ch[c] \in Seq(F)
  BY SeqMonotonic
<1>2. CASE d = c /\ up[c]
  <2>1. s = ch[c] \o frames
    BY <1>2 DEF Written
  <2>2. ch[c] # <<>> => ch[c] \o frames # <<>> /\ Head(ch[c] \o frames) = Head(ch[c])
    BY <1>1, ConcatProperties, EmptySeq, LenProperties
  <2>3. ch[c] = <<>> => ch[c] \o frames = frames
    BY <1>1, ConcatEmptySeq
  <2>4. frames # <<>> => Head(frames) \in E
    BY HeadTailProperties
  <2> QED  BY <1>2, <2>1, <2>2, <2>3, <2>4
<1>3. CASE ~(d = c /\ up[c])
  <2>1. s = ch[c]
    BY <1>3 DEF Written
  <2> QED  BY <2>1
<1> QED  BY <1>2, <1>3

\* The frame of a request.
LEMMA RequestIs == ASSUME NEW O, NEW op \in O PROVE Request(op) \in RequestsOf(O)
  BY DEF Request, RequestsOf

\* What send_input writes is numbered input.
LEMMA InputFramesAre ==
  ASSUME inp \in InputBuffers
  PROVE  /\ InputFrames \in Seq(Inputs) /\ Unsent \in Seq(Nat)
         /\ InNext \in Nat
<1> DEFINE k == inp.sent - inp.base
<1>1. inp.base \in Nat /\ inp.sent \in Nat /\ inp.base <= inp.sent
  BY DEF InputBuffers
<1>2. inp.bytes \in Seq(Nat) /\ Numbered(inp.base, inp.bytes)
  BY DEF InputBuffers
<1>3. k \in Nat /\ inp.sent = inp.base + k /\ inp.base \in Int
  BY <1>1
<1>4. Len(inp.bytes) \in Nat
  BY <1>2, LenProperties
<1>5. Unsent = SubSeq(inp.bytes, k + 1, Len(inp.bytes))
  BY DEF Unsent
<1> HIDE DEF k
<1>6. Unsent \in Seq(Nat) /\ Numbered(inp.sent, Unsent)
  <2>1. Len(inp.bytes) <= Len(inp.bytes)
    BY <1>4
  <2> QED  BY <1>2, <1>3, <1>4, <1>5, <2>1, NumberedPart
<1>7. Input(inp.sent, Unsent) \in Inputs
  BY <1>1, <1>6 DEF Input, Inputs
<1>8. <<>> \in Seq(Inputs) /\ <<Input(inp.sent, Unsent)>> \in Seq(Inputs)
  BY <1>7, EmptySeq
<1>9. InputFrames \in Seq(Inputs)
  BY <1>8 DEF InputFrames
<1> QED  BY <1>1, <1>4, <1>6, <1>9 DEF InNext

\* Link::register adds one request, to the pending ones and to the wire.
LEMMA RegisterAsks ==
  ASSUME NEW O \in SUBSET Ops, NEW B \in SUBSET BOOLEAN, NEW n \in Nat, NEW op \in O,
         NEW ps \in Seq(PendingFor(O)), link \in Links,
         h2a \in [Conns -> Seq(HostFrames(O, B, n))], Register(op, ps)
  PROVE  /\ pend' \in Seq(PendingFor(O))
         /\ h2a' \in [Conns -> Seq(HostFrames(O, B, n))]
         /\ h2a' = h2a \/ h2a' = Written(h2a, link.conn, <<Request(op)>>)
         /\ link' \in Links
         /\ link'.status = link.status /\ link'.conn = link.conn /\ link'.dial = link.dial
<1>1. CASE Refusing
  BY <1>1 DEF Register
<1>2. CASE ~Refusing
  <2>1. /\ pend' = Append(ps, [op |-> op, conn |-> link.conn, answered |-> FALSE, ok |-> TRUE])
        /\ h2a' = Written(h2a, link.conn, <<Request(op)>>)
        /\ link' = [link EXCEPT !.wake = @ \/ link.status = "lost"]
    BY <1>2 DEF Register
  <2>2. [op |-> op, conn |-> link.conn, answered |-> FALSE, ok |-> TRUE] \in PendingFor(O)
    BY DEF PendingFor, Links
  <2>3. <<Request(op)>> \in Seq(RequestsOf(O)) /\ RequestsOf(O) \subseteq HostFrames(O, B, n)
    BY RequestIs DEF HostFrames
  <2>4. link' \in Links /\ link'.status = link.status /\ link'.conn = link.conn /\ link'.dial = link.dial
    BY <2>1 DEF Links
  <2>5. pend' \in Seq(PendingFor(O))
    BY <2>1, <2>2, AppendProperties
  <2>6. h2a' \in [Conns -> Seq(HostFrames(O, B, n))]
    BY <2>1, <2>3, WrittenIs
  <2> QED  BY <2>1, <2>4, <2>5, <2>6
<1> QED  BY <1>1, <1>2

LEMMA TailIs ==
  ASSUME NEW F, NEW ch \in [Conns -> Seq(F)], NEW c \in Conns, ch[c] # <<>>
  PROVE  /\ [ch EXCEPT ![c] = Tail(@)] \in [Conns -> Seq(F)]
         /\ Head(ch[c]) \in F
<1>1. ch[c] \in Seq(F)
  OBVIOUS
<1>2. Head(ch[c]) \in F /\ Tail(ch[c]) \in Seq(F)
  BY <1>1, HeadTailProperties
<1> QED  BY <1>2

\* A connection that breaks keeps a part of what was under way; the others
\* keep everything.
Shortened(s, r) == \E i \in 0..Len(r) : s = SubSeq(r, 1, i)

LEMMA ShortenedIs ==
  ASSUME NEW F, NEW ch \in [Conns -> Seq(F)], NEW c \in Conns, NEW i \in 0..Len(ch[c])
  PROVE  /\ [ch EXCEPT ![c] = SubSeq(@, 1, i)] \in [Conns -> Seq(F)]
         /\ \A d \in Conns : Shortened([ch EXCEPT ![c] = SubSeq(@, 1, i)][d], ch[d])
<1>1. SubSeq(ch[c], 1, i) \in Seq(F)
  BY PrefixIs
<1>2. \A d \in Conns : Len(ch[d]) \in Nat /\ SubSeq(ch[d], 1, Len(ch[d])) = ch[d]
  BY LenProperties, SubSeqFull
<1>3. \A d \in Conns : d # c => Shortened([ch EXCEPT ![c] = SubSeq(@, 1, i)][d], ch[d])
  BY <1>2 DEF Shortened
<1>4. Shortened([ch EXCEPT ![c] = SubSeq(@, 1, i)][c], ch[c])
  BY DEF Shortened
<1> QED  BY <1>1, <1>3, <1>4

LEMMA NothingShortened ==
  ASSUME NEW F, NEW ch \in [Conns -> Seq(F)]
  PROVE  \A d \in Conns : Shortened(ch[d], ch[d])
<1>1. \A d \in Conns : Len(ch[d]) \in Nat /\ SubSeq(ch[d], 1, Len(ch[d])) = ch[d]
  BY LenProperties, SubSeqFull
<1> QED  BY <1>1 DEF Shortened

LEMMA CutIs ==
  ASSUME NEW F, NEW G, h2a \in [Conns -> Seq(F)], a2h \in [Conns -> Seq(G)], up \in [Conns -> BOOLEAN],
         NEW c, Cut(c)
  PROVE  /\ h2a' \in [Conns -> Seq(F)] /\ a2h' \in [Conns -> Seq(G)] /\ up' \in [Conns -> BOOLEAN]
         /\ \A d \in Conns :
              /\ up'[d] => up[d] /\ h2a'[d] = h2a[d] /\ a2h'[d] = a2h[d]
              /\ Shortened(h2a'[d], h2a[d]) /\ Shortened(a2h'[d], a2h[d])
<1>1. CASE c \in Conns /\ up[c]
  <2>1. up' = [up EXCEPT ![c] = FALSE]
    BY <1>1 DEF Cut
  <2>2. PICK i \in 0..Len(h2a[c]) : h2a' = [h2a EXCEPT ![c] = SubSeq(@, 1, i)]
    BY <1>1 DEF Cut
  <2>3. PICK j \in 0..Len(a2h[c]) : a2h' = [a2h EXCEPT ![c] = SubSeq(@, 1, j)]
    BY <1>1 DEF Cut
  <2>4. h2a' \in [Conns -> Seq(F)] /\ \A d \in Conns : Shortened(h2a'[d], h2a[d])
    BY <1>1, <2>2, ShortenedIs
  <2>5. a2h' \in [Conns -> Seq(G)] /\ \A d \in Conns : Shortened(a2h'[d], a2h[d])
    BY <1>1, <2>3, ShortenedIs
  <2>6. \A d \in Conns : up'[d] => up[d] /\ h2a'[d] = h2a[d] /\ a2h'[d] = a2h[d]
    BY <1>1, <2>1, <2>2, <2>3
  <2> QED  BY <2>1, <2>4, <2>5, <2>6
<1>2. CASE ~(c \in Conns /\ up[c])
  <2>1. UNCHANGED <<up, h2a, a2h>>
    BY <1>2 DEF Cut
  <2> QED  BY <2>1, NothingShortened
<1> QED  BY <1>1, <1>2

\* introduce takes the hello from c and cuts the connection it replaces.
LEMMA IntroduceIs ==
  ASSUME NEW F, NEW G, h2a \in [Conns -> Seq(F)], a2h \in [Conns -> Seq(G)], up \in [Conns -> BOOLEAN],
         NEW c \in Conns, Introduce(c), client.cur # c
  PROVE  /\ h2a' \in [Conns -> Seq(F)] /\ a2h' \in [Conns -> Seq(G)] /\ up' \in [Conns -> BOOLEAN]
         /\ Head(h2a[c]) \in F /\ h2a'[c] = Tail(h2a[c])
         /\ \A d \in Conns :
              /\ up'[d] => up[d] /\ a2h'[d] = a2h[d] /\ (d # c => h2a'[d] = h2a[d])
              /\ d # c => Shortened(h2a'[d], h2a[d])
              /\ Shortened(a2h'[d], a2h[d])
<1> DEFINE old    == client.cur
           popped == [h2a EXCEPT ![c] = Tail(@)]
<1>0. h2a[c] # <<>> /\ Head(h2a[c]) \in F /\ popped \in [Conns -> Seq(F)]
  BY TailIs DEF Introduce
<1>1. CASE old \in Conns /\ up[old]
  <2>1. up' = [up EXCEPT ![old] = FALSE]
    BY <1>1 DEF Introduce
  <2>2. PICK i \in 0..Len(h2a[old]) : h2a' = [h2a EXCEPT ![c] = Tail(@), ![old] = SubSeq(@, 1, i)]
    BY <1>1 DEF Introduce
  <2>3. PICK j \in 0..Len(a2h[old]) : a2h' = [a2h EXCEPT ![old] = SubSeq(@, 1, j)]
    BY <1>1 DEF Introduce
  <2>4. popped[old] = h2a[old] /\ h2a' = [popped EXCEPT ![old] = SubSeq(@, 1, i)]
    BY <1>1, <2>2
  <2>5. h2a' \in [Conns -> Seq(F)] /\ \A d \in Conns : Shortened(h2a'[d], popped[d])
    <3>1. i \in 0..Len(popped[old])
      BY <2>2, <2>4
    <3> HIDE DEF popped, old
    <3> QED  BY <1>0, <1>1, <2>4, <3>1, ShortenedIs
  <2>6. a2h' \in [Conns -> Seq(G)] /\ \A d \in Conns : Shortened(a2h'[d], a2h[d])
    BY <1>1, <2>3, ShortenedIs
  <2>7. \A d \in Conns : up'[d] => up[d] /\ a2h'[d] = a2h[d] /\ (d # c => h2a'[d] = h2a[d])
    BY <1>1, <2>1, <2>2, <2>3
  <2>8. h2a'[c] = Tail(h2a[c])
    BY <2>2
  <2> QED  BY <1>0, <2>1, <2>5, <2>6, <2>7, <2>8
<1>2. CASE ~(old \in Conns /\ up[old])
  <2>1. h2a' = popped /\ UNCHANGED <<up, a2h>>
    BY <1>2 DEF Introduce
  <2>2. \A d \in Conns : Shortened(h2a[d], h2a[d]) /\ Shortened(a2h[d], a2h[d])
    BY NothingShortened
  <2> QED  BY <1>0, <2>1, <2>2
<1> QED  BY <1>1, <1>2

-----------------------------------------------------------------------------
(* Frames by kind *)

LEMMA HostFrameKinds ==
  ASSUME NEW O, NEW B, NEW n, NEW f \in HostFrames(O, B, n)
  PROVE  /\ f.k = "request" => f \in RequestsOf(O) /\ f.op \in O
         /\ f.k = "hello" => f \in Hellos(n) /\ f.at \in {None} \cup (0..n)
         /\ f.k = "input" => f.from \in Nat /\ f.data \in Seq(Nat) /\ Numbered(f.from, f.data)
         /\ f.k = "bye" => f.release \in B
  BY DEF HostFrames, RequestsOf, Hellos, Inputs, Byes

LEMMA AgentFrameKinds ==
  ASSUME NEW f \in AgentFrames
  PROVE  /\ f.k = "welcome" => f.known \in BOOLEAN /\ f.input \in Nat
         /\ f.k = "response" => f.op \in Ops /\ f.ok \in BOOLEAN
         /\ f.k = "output" => f.from \in Nat /\ f.data \in Seq(Nat) /\ Numbered(f.from, f.data)
         /\ f.k = "gap" => f.to \in Nat
         /\ f.k = "exit" => f.end \in Nat
  BY DEF AgentFrames, Replies, Outputs

-----------------------------------------------------------------------------
(* What a step asks for *)

\* The agent knows the connection it writes to.
CurrentIsKnown == client.cur # 0 => aconn[client.cur] # "none"

LinkBase == RemoteTypeOK /\ CurrentIsKnown

\* What the step adds to what was asked for is in O and B.
AddsOnly(O, B) ==
  /\ Spawn => "spawn" \in O
  /\ SpawnFails \/ Release => "release" \in O
  /\ Kill => "kill" \in O
  /\ RegisterClose => "close" \in O
  /\ LinkClose => B = BOOLEAN

LEMMA WithoutIs ==
  ASSUME NEW O, pend \in Seq(PendingFor(O)), NEW S
  PROVE  Keep(pend, S) \in Seq(PendingFor(O))
<1>1. Keep(pend, S) \in Seq(PendingFor(O) \cap S)
  BY KeepType
<1> QED  BY <1>1, SeqMonotonic, PendingFor(O) \cap S \subseteq PendingFor(O)

LEMMA PendingChanged ==
  ASSUME NEW O, NEW p \in PendingFor(O), NEW c \in Conns, NEW ok \in BOOLEAN
  PROVE  /\ [p EXCEPT !.conn = c] \in PendingFor(O)
         /\ [p EXCEPT !.answered = TRUE, !.ok = ok] \in PendingFor(O)
<1>1. c \in 0..MaxConns
  BY ConstantsFit DEF Conns
<1>2. p \in [op : O, conn : 0..MaxConns, answered : BOOLEAN, ok : BOOLEAN]
  BY DEF PendingFor
<1>3. [p EXCEPT !.conn = c] \in [op : O, conn : 0..MaxConns, answered : BOOLEAN, ok : BOOLEAN]
  BY <1>1, <1>2
<1>4. [p EXCEPT !.answered = TRUE, !.ok = ok] \in [op : O, conn : 0..MaxConns, answered : BOOLEAN, ok : BOOLEAN]
  BY <1>2
<1> QED  BY <1>3, <1>4 DEF PendingFor

LEMMA PendingMapped ==
  ASSUME NEW O, pend \in Seq(PendingFor(O))
  PROVE  /\ Resent \in Seq(RequestsOf(O))
         /\ \A c \in Conns : [i \in 1..Len(pend) |-> [pend[i] EXCEPT !.conn = c]] \in Seq(PendingFor(O))
         /\ \A ok \in BOOLEAN :
              [i \in 1..Len(pend) |-> IF pend[i].op = "spawn"
                                      THEN [pend[i] EXCEPT !.answered = TRUE, !.ok = ok] ELSE pend[i]]
                \in Seq(PendingFor(O))
<1>1. Len(pend) \in Nat /\ \A i \in 1..Len(pend) : pend[i] \in PendingFor(O)
  BY LenProperties
<1>2. \A i \in 1..Len(pend) : Request(pend[i].op) \in RequestsOf(O)
  BY <1>1, RequestIs DEF PendingFor
<1>3. \A c \in Conns, i \in 1..Len(pend) : [pend[i] EXCEPT !.conn = c] \in PendingFor(O)
  BY <1>1, PendingChanged
<1>4. \A ok \in BOOLEAN, i \in 1..Len(pend) : [pend[i] EXCEPT !.answered = TRUE, !.ok = ok] \in PendingFor(O)
  <2>1. 1 \in Conns
    BY ConstantsFit DEF Conns
  <2> QED  BY <1>1, <2>1, PendingChanged
<1>5. Resent \in Seq(RequestsOf(O))
  BY <1>1, <1>2 DEF Resent
<1>6. ASSUME NEW c \in Conns
      PROVE  [i \in 1..Len(pend) |-> [pend[i] EXCEPT !.conn = c]] \in Seq(PendingFor(O))
  BY <1>1, <1>3
<1>7. ASSUME NEW ok \in BOOLEAN
      PROVE  [i \in 1..Len(pend) |-> IF pend[i].op = "spawn"
                                      THEN [pend[i] EXCEPT !.answered = TRUE, !.ok = ok] ELSE pend[i]]
                \in Seq(PendingFor(O))
  <2> DEFINE q(i) == IF pend[i].op = "spawn" THEN [pend[i] EXCEPT !.answered = TRUE, !.ok = ok] ELSE pend[i]
  <2>1. \A i \in 1..Len(pend) : q(i) \in PendingFor(O)
    BY <1>1, <1>4
  <2> HIDE DEF q
  <2>2. [i \in 1..Len(pend) |-> q(i)] \in Seq(PendingFor(O))
    BY <1>1, <2>1
  <2> QED  BY <2>2 DEF q
<1> QED  BY <1>5, <1>6, <1>7

LEMMA AskedByUsers ==
  ASSUME NEW O \in SUBSET Ops, NEW B \in SUBSET BOOLEAN, NEW n \in Nat, LinkBase, Asked(O, B, n),
         AddsOnly(O, B),
         Spawn \/ SpawnReturns \/ SpawnFails \/ Kill \/ Release \/ UserWrites \/ RegisterClose \/ LinkClose
  PROVE  Asked(O, B, n)'
<1>0. /\ link \in Links /\ inp \in InputBuffers
      /\ pend \in Seq(PendingFor(O)) /\ sup.frames \in Seq(RequestsOf(O))
      /\ h2a \in [Conns -> Seq(HostFrames(O, B, n))]
  BY DEF LinkBase, RemoteTypeOK, HostTypes, Asked
<1>1. CASE Spawn
  BY <1>0, <1>1, RegisterAsks DEF Spawn, AddsOnly, Asked
<1>2. CASE SpawnReturns
  BY <1>0, <1>2, WithoutIs DEF SpawnReturns, Without, Asked
<1>3. CASE SpawnFails
  <2>1. Without("spawn") \in Seq(PendingFor(O))
    BY <1>0, WithoutIs DEF Without
  <2> QED  BY <1>0, <1>3, <2>1, RegisterAsks DEF SpawnFails, AddsOnly, Asked
<1>4. CASE Kill
  BY <1>0, <1>4, RegisterAsks DEF Kill, AddsOnly, Asked
<1>5. CASE Release
  BY <1>0, <1>5, RegisterAsks DEF Release, AddsOnly, Asked
<1>6. CASE UserWrites
  <2>1. InputFrames \in Seq(Inputs) /\ Inputs \subseteq HostFrames(O, B, n)
    BY <1>0, InputFramesAre DEF HostFrames
  <2>2. h2a' = Written(h2a, user.conn, InputFrames)
    BY <1>6 DEF UserWrites
  <2>3. h2a' \in [Conns -> Seq(HostFrames(O, B, n))]
    BY <1>0, <2>1, <2>2, WrittenIs
  <2> QED  BY <1>0, <1>6, <2>3 DEF UserWrites, Asked
<1>7. CASE RegisterClose
  BY <1>0, <1>7, RegisterAsks DEF RegisterClose, AddsOnly, Asked
<1>8. CASE LinkClose
  <2>1. PICK release \in BOOLEAN : h2a' = Written(h2a, link.conn, <<Bye(release)>>)
    BY <1>8 DEF LinkClose
  <2>2. <<Bye(release)>> \in Seq(Byes(B)) /\ Byes(B) \subseteq HostFrames(O, B, n)
    BY <1>8 DEF AddsOnly, Byes, Bye, HostFrames
  <2>3. h2a' \in [Conns -> Seq(HostFrames(O, B, n))]
    BY <1>0, <2>1, <2>2, WrittenIs
  <2>4. pend' = <<>> /\ <<>> \in Seq(PendingFor(O))
    BY <1>8, EmptySeq DEF LinkClose
  <2> QED  BY <1>0, <1>8, <2>3, <2>4 DEF LinkClose, Asked
<1> QED  BY <1>1, <1>2, <1>3, <1>4, <1>5, <1>6, <1>7, <1>8

LEMMA AskedBySupervisor ==
  ASSUME NEW O \in SUBSET Ops, NEW B \in SUBSET BOOLEAN, NEW n \in Nat, LinkBase, Asked(O, B, n),
         RingEnd(pipe.ring) <= n,
         \/ Launch \/ Resend \/ ResendInput \/ GiveUp("lost") \/ GiveUp("unavailable")
         \/ \E c \in Conns : Install(c) \/ ConnectionLost(c) \/ Dispatch(c) \/ Closer(c) \/ Break(c)
  PROVE  Asked(O, B, n)'
<1>0. /\ link \in Links /\ inp \in InputBuffers /\ pipe \in Pipes /\ sup.frames \in Seq(RequestsOf(O))
      /\ pend \in Seq(PendingFor(O)) /\ h2a \in [Conns -> Seq(HostFrames(O, B, n))]
      /\ a2h \in [Conns -> Seq(AgentFrames)] /\ up \in [Conns -> BOOLEAN]
      /\ sup \in [pc : {"idle", "resend"}, frames : Seq(RequestsOf(Ops))]
  BY DEF LinkBase, RemoteTypeOK, HostTypes, WireTypes, Asked
<1>1. CASE Launch
  <2>1. RingEnd(pipe.ring) \in 0..n
    BY <1>0, RingEndIs DEF Pipes
  <2>2. Hello(IF pipe.st = "open" THEN RingEnd(pipe.ring) ELSE None) \in HostFrames(O, B, n)
    BY <2>1 DEF HostFrames, Hellos, Hello
  <2>3. PICK c \in Conns :
          h2a' = [h2a EXCEPT ![c] = <<Hello(IF pipe.st = "open" THEN RingEnd(pipe.ring) ELSE None)>>]
    BY <1>1 DEF Launch
  <2>4. h2a' \in [Conns -> Seq(HostFrames(O, B, n))]
    BY <1>0, <2>2, <2>3
  <2> QED  BY <1>0, <1>1, <2>4 DEF Launch, Asked
<1>2. CASE Resend
  <2>1. <<Head(sup.frames)>> \in Seq(RequestsOf(O)) /\ Tail(sup.frames) \in Seq(RequestsOf(O))
    BY <1>0, <1>2, HeadTailProperties DEF Resend
  <2>2. RequestsOf(O) \subseteq HostFrames(O, B, n)
    BY DEF HostFrames
  <2>3. h2a' = Written(h2a, link.gen, <<Head(sup.frames)>>)
    BY <1>2 DEF Resend
  <2>4. h2a' \in [Conns -> Seq(HostFrames(O, B, n))]
    BY <1>0, <2>1, <2>2, <2>3, WrittenIs
  <2>5. sup'.frames = Tail(sup.frames)
    BY <1>0, <1>2 DEF Resend
  <2> QED  BY <1>0, <1>2, <2>1, <2>4, <2>5 DEF Resend, Asked
<1>3. CASE ResendInput
  <2>1. InputFrames \in Seq(Inputs) /\ Inputs \subseteq HostFrames(O, B, n)
    BY <1>0, InputFramesAre DEF HostFrames
  <2>2. h2a' = h2a \/ h2a' = Written(h2a, link.conn, InputFrames)
    BY <1>3 DEF ResendInput
  <2>5. Written(h2a, link.conn, InputFrames) \in [Conns -> Seq(HostFrames(O, B, n))]
    BY <1>0, <2>1, WrittenIs
  <2>3. h2a' \in [Conns -> Seq(HostFrames(O, B, n))]
    BY <1>0, <2>2, <2>5
  <2>4. sup'.frames = sup.frames /\ pend' = pend
    BY <1>0, <1>3 DEF ResendInput
  <2> QED  BY <1>0, <2>3, <2>4 DEF Asked
<1>4. CASE GiveUp("lost") \/ GiveUp("unavailable")
  BY <1>0, <1>4, WithoutIs DEF GiveUp, Asked
<1>5. ASSUME NEW c \in Conns, Install(c) PROVE Asked(O, B, n)'
  <2>1. CASE link.status = "closed"
    BY <1>0, <1>5, <2>1 DEF Install, Asked
  <2>2. CASE link.status # "closed"
    <3>1. /\ sup' = [pc |-> "resend", frames |-> Resent]
          /\ pend' = [i \in 1..Len(pend) |-> [pend[i] EXCEPT !.conn = c]]
          /\ h2a' = h2a
      BY <1>5, <2>2 DEF Install
    <3>2. pend' \in Seq(PendingFor(O)) /\ Resent \in Seq(RequestsOf(O))
      BY <1>0, <3>1, PendingMapped
    <3> QED  BY <1>0, <3>1, <3>2 DEF Asked
  <2> QED  BY <2>1, <2>2
<1>6. ASSUME NEW c \in Conns, ConnectionLost(c) \/ Closer(c) \/ Break(c) PROVE Asked(O, B, n)'
  <2>1. Cut(c) /\ UNCHANGED <<pend, sup>>
    BY <1>6 DEF ConnectionLost, Closer, Break, hostVars
  <2> QED  BY <1>0, <2>1, CutIs DEF Asked
<1>7. ASSUME NEW c \in Conns, Dispatch(c) PROVE Asked(O, B, n)'
  <2>1. Head(a2h[c]) \in AgentFrames /\ h2a' = h2a /\ sup' = sup
    BY <1>0, <1>7, TailIs DEF Dispatch
  <2>2. \/ pend' = pend
        \/ Head(a2h[c]).k = "response" /\ TakeResponse(Head(a2h[c]))
    <3> DEFINE f == Head(a2h[c])
    <3>1. \/ f.k = "output" /\ Deliver(f) /\ UNCHANGED pend
          \/ f.k = "gap" /\ TakeGap(f) /\ UNCHANGED pend
          \/ f.k = "exit" /\ Finish(f) /\ UNCHANGED pend
          \/ f.k = "response" /\ TakeResponse(f) /\ UNCHANGED <<pipe, got>>
      BY <1>7 DEF Dispatch
    <3> QED  BY <3>1
  <2>3. ASSUME Head(a2h[c]).k = "response", TakeResponse(Head(a2h[c])) PROVE pend' \in Seq(PendingFor(O))
    <3>1. Head(a2h[c]).ok \in BOOLEAN
      BY <2>1, <2>3, AgentFrameKinds
    <3>2. CASE Head(a2h[c]).op = "spawn"
      BY <1>0, <2>3, <3>1, <3>2, PendingMapped DEF TakeResponse
    <3>3. CASE Head(a2h[c]).op # "spawn"
      BY <1>0, <2>3, <3>3, WithoutIs DEF TakeResponse, Without
    <3> QED  BY <3>2, <3>3
  <2> QED  BY <1>0, <2>1, <2>2, <2>3 DEF Asked
<1> QED  BY <1>1, <1>2, <1>3, <1>4, <1>5, <1>6, <1>7

LEMMA AskedByAgent ==
  ASSUME NEW O \in SUBSET Ops, NEW B \in SUBSET BOOLEAN, NEW n \in Nat, LinkBase, Asked(O, B, n),
         NEW c \in Conns, Introduce(c) \/ ReadLoop(c) \/ BeginSpawn(c)
  PROVE  Asked(O, B, n)'
<1>0. h2a \in [Conns -> Seq(HostFrames(O, B, n))] /\ a2h \in [Conns -> Seq(AgentFrames)] /\ up \in [Conns -> BOOLEAN]
  BY DEF LinkBase, RemoteTypeOK, WireTypes, Asked
<1>1. UNCHANGED <<pend, sup>>
  BY DEF Introduce, ReadLoop, BeginSpawn, hostVars
<1>2. CASE Introduce(c)
  <2>1. client.cur # c
    BY <1>2, ConstantsFit DEF Introduce, LinkBase, CurrentIsKnown, Conns
  <2> QED  BY <1>0, <1>1, <1>2, <2>1, IntroduceIs DEF Asked
<1>3. CASE ReadLoop(c) \/ BeginSpawn(c)
  <2>1. h2a[c] # <<>> /\ h2a' = [h2a EXCEPT ![c] = Tail(@)]
    BY <1>3 DEF ReadLoop, BeginSpawn
  <2> QED  BY <1>0, <1>1, <2>1, TailIs DEF Asked
<1> QED  BY <1>2, <1>3

\* The steps that neither ask for anything nor read or break a connection.
QuietStep ==
  \/ WriteInput \/ CloseStdin \/ FetchWriter \/ CheckGeneration \/ MarkSent \/ Read \/ ReadEof
  \/ EndSpawn \/ RefuseSpawn \/ RecordOutput \/ StreamDone \/ Reaped \/ Reclaim \/ Forget
  \/ \E c \in Conns : LaunchFails(c) \/ ReaderDone(c) \/ ServeEnds(c) \/ Flush(c) \/ SendFrames(c)

LEMMA QuietAsks == QuietStep => UNCHANGED <<pend, sup, h2a>>
  BY DEF QuietStep, WriteInput, CloseStdin, FetchWriter, CheckGeneration, MarkSent, Read, ReadEof, EndSpawn,
         RefuseSpawn, RecordOutput, StreamDone, Reaped, Reclaim, Forget, LaunchFails, ReaderDone, ServeEnds,
         Flush, SendFrames, hostVars

LEMMA AskedStep ==
  ASSUME NEW O \in SUBSET Ops, NEW B \in SUBSET BOOLEAN, NEW n \in Nat, LinkBase, Asked(O, B, n),
         RingEnd(pipe.ring) <= n, AddsOnly(O, B), [Next]_vars
  PROVE  Asked(O, B, n)'
<1>1. CASE UNCHANGED vars
  BY <1>1 DEF vars, Asked
<1>2. CASE QuietStep
  BY <1>2, QuietAsks DEF Asked
<1>3. CASE ~QuietStep /\ Next
  BY <1>3, AskedByUsers, AskedBySupervisor, AskedByAgent
     DEF Next, HostStep, AgentStep, ProcessStep, OtherStep, QuietStep
<1> QED  BY <1>1, <1>2, <1>3

-----------------------------------------------------------------------------
(* The pipe *)

\* A step that leaves the stream where it is; the pipe may be dropped.
StreamKept ==
  /\ pipe' \in Pipes /\ got' = got
  /\ RingEnd(pipe'.ring) = RingEnd(pipe.ring)
  /\ pipe'.lost = pipe.lost /\ pipe'.exit = pipe.exit
  /\ pipe'.st \in {pipe.st, "gone"} \/ Spawn

LEMMA PipeFields ==
  ASSUME NEW p \in Pipes
  PROVE  /\ p.st \in {"none", "open", "gone"} /\ p.exit \in Nat \cup {None} /\ p.ring \in Rings
         /\ p.lost \in Nat /\ p.consumed \in Nat /\ p.read \in Nat /\ RingEnd(p.ring) \in Nat
<1>1. p.ring \in Rings
  BY DEF Pipes
<1> QED  BY <1>1, RingEndIs DEF Pipes

LEMMA StateIs ==
  ASSUME NEW p \in Pipes, NEW st \in {"none", "open", "gone"}
  PROVE  LET q == [p EXCEPT !.st = st] IN
         /\ q \in Pipes /\ q.ring = p.ring /\ q.lost = p.lost /\ q.exit = p.exit /\ q.st = st
  BY DEF Pipes

LEMMA FailingIs ==
  ASSUME NEW p \in Pipes
  PROVE  /\ Failing(p) \in Pipes /\ Failing(p).ring = p.ring /\ Failing(p).lost = p.lost
         /\ Failing(p).exit = p.exit /\ Failing(p).st = p.st
<1>1. CASE p.exit = None
  <2>1. Failing(p) = [p EXCEPT !.failed = TRUE]
    BY <1>1 DEF Failing
  <2> QED  BY <2>1 DEF Pipes
<1>2. CASE p.exit # None
  BY <1>2 DEF Failing
<1> QED  BY <1>1, <1>2

\* The pipe is dropped, and fails unless it has its end.
LEMMA DroppedIs ==
  ASSUME pipe \in Pipes, NEW st \in {"none", "open", "gone"}
  PROVE  LET q == Failing([pipe EXCEPT !.st = st]) IN
         /\ q \in Pipes /\ q.ring = pipe.ring /\ q.lost = pipe.lost /\ q.exit = pipe.exit /\ q.st = st
<1> DEFINE p == [pipe EXCEPT !.st = st]
<1>1. p \in Pipes /\ p.ring = pipe.ring /\ p.lost = pipe.lost /\ p.exit = pipe.exit /\ p.st = st
  BY StateIs
<1> HIDE DEF p
<1>2. /\ Failing(p) \in Pipes /\ Failing(p).ring = p.ring /\ Failing(p).lost = p.lost
      /\ Failing(p).exit = p.exit /\ Failing(p).st = p.st
  BY <1>1, FailingIs
<1> QED  BY <1>1, <1>2 DEF p

\* The steps that touch neither the pipe nor what it got.
PipeIdle ==
  \/ Kill \/ WriteInput \/ CloseStdin \/ FetchWriter \/ UserWrites \/ CheckGeneration \/ MarkSent \/ RegisterClose
  \/ Launch \/ Resend \/ ResendInput
  \/ EndSpawn \/ RefuseSpawn \/ RecordOutput \/ StreamDone \/ Reaped \/ Reclaim \/ Forget
  \/ \E c \in Conns : \/ LaunchFails(c) \/ ConnectionLost(c) \/ ReaderDone(c) \/ Closer(c) \/ Break(c)
                      \/ Introduce(c) \/ ReadLoop(c) \/ BeginSpawn(c) \/ ServeEnds(c) \/ Flush(c) \/ SendFrames(c)

LEMMA PipeIdles == PipeIdle => UNCHANGED <<pipe, got>>
  BY DEF PipeIdle, Kill, WriteInput, CloseStdin, FetchWriter, UserWrites, CheckGeneration, MarkSent,
         RegisterClose, Launch, Resend, ResendInput, EndSpawn, RefuseSpawn, RecordOutput, StreamDone, Reaped,
         Reclaim, Forget, LaunchFails, ConnectionLost, ReaderDone, Closer, Break, Introduce, ReadLoop,
         BeginSpawn, ServeEnds, Flush, SendFrames, hostVars

LEMMA ReadKeeps == ASSUME pipe \in Pipes, Read PROVE StreamKept
<1> DEFINE r  == ReadFrom(pipe.ring, pipe.consumed, HostCap)
           to == r.from + Len(r.data)
<1>1. pipe.ring \in Rings /\ pipe.consumed \in Nat /\ pipe.read \in Nat /\ HostCap \in Nat \ {0}
  BY PipeFields, ConstantsFit
<1>2. r.from \in Nat /\ r.data \in Seq(Nat)
  BY <1>1, ReadFromIs
<1>3. Len(r.data) \in Nat /\ to \in Nat /\ pipe.read + Len(r.data) \in Nat
  BY <1>1, <1>2, LenProperties
<1>4. /\ pipe' = [pipe EXCEPT !.consumed = to, !.read = @ + Len(r.data),
                              !.ring = IF r.data = <<>> THEN @ ELSE ConsumeTo(@, to)]
      /\ got' = got
  BY DEF Read
<1> HIDE DEF to, r
<1> DEFINE ring == IF r.data = <<>> THEN pipe.ring ELSE ConsumeTo(pipe.ring, to)
<1>5. ring \in Rings /\ RingEnd(ring) = RingEnd(pipe.ring)
  BY <1>1, <1>3, ConsumeToIs
<1>6. pipe' = [pipe EXCEPT !.consumed = to, !.read = pipe.read + Len(r.data), !.ring = ring]
  BY <1>4 DEF Pipes
<1> HIDE DEF ring
<1>7. pipe' \in Pipes /\ pipe'.ring = ring /\ pipe'.lost = pipe.lost /\ pipe'.exit = pipe.exit /\ pipe'.st = pipe.st
  BY <1>1, <1>3, <1>5, <1>6 DEF Pipes
<1> QED  BY <1>4, <1>5, <1>7 DEF StreamKept

LEMMA StreamKeptStep ==
  ASSUME pipe \in Pipes, [Next]_vars, \A c \in Conns : ~Dispatch(c)
  PROVE  StreamKept
<1>1. CASE UNCHANGED vars \/ PipeIdle
  BY <1>1, PipeIdles DEF vars, StreamKept
<1>2. CASE Spawn
  BY <1>2, StateIs DEF Spawn, StreamKept
<1>3. CASE SpawnReturns
  <2>1. CASE pipe' = [pipe EXCEPT !.spawned = TRUE]
    <3>1. pipe' \in Pipes /\ pipe'.ring = pipe.ring /\ pipe'.lost = pipe.lost /\ pipe'.exit = pipe.exit
          /\ pipe'.st = pipe.st
      BY <2>1 DEF Pipes
    <3> QED  BY <1>3, <3>1 DEF SpawnReturns, StreamKept
  <2>2. CASE pipe' = [pipe EXCEPT !.st = "gone"]
    BY <1>3, <2>2, StateIs DEF SpawnReturns, StreamKept
  <2> QED  BY <1>3, <2>1, <2>2 DEF SpawnReturns
<1>4. CASE SpawnFails
  BY <1>4, StateIs DEF SpawnFails, StreamKept
<1>5. CASE Release
  BY <1>5, StateIs DEF Release, StreamKept
<1>6. CASE GiveUp("lost") \/ GiveUp("unavailable")
  <2>1. PICK status \in {"lost", "unavailable"} : GiveUp(status)
    BY <1>6
  <2> DEFINE st == IF status = "lost" THEN pipe.st ELSE "gone"
  <2>2. st \in {"none", "open", "gone"} /\ st \in {pipe.st, "gone"}
    BY PipeFields
  <2>3. pipe' = IF pipe.st = "open" THEN Failing([pipe EXCEPT !.st = st]) ELSE pipe
    BY <2>1 DEF GiveUp, Pipes
  <2> HIDE DEF st
  <2>4. got' = got
    BY <2>1 DEF GiveUp
  <2> QED  BY <2>2, <2>3, <2>4, DroppedIs DEF StreamKept
<1>7. CASE LinkClose
  BY <1>7, DroppedIs DEF LinkClose, StreamKept
<1>8. CASE \E c \in Conns : Install(c)
  <2>1. got' = got /\ (pipe' = pipe \/ pipe' = Failing([pipe EXCEPT !.st = "gone"]))
    BY <1>8 DEF Install
  <2> QED  BY <2>1, DroppedIs DEF StreamKept
<1>9. CASE Read
  BY <1>9, ReadKeeps
<1>10. CASE ReadEof
  <2>1. pipe' = [pipe EXCEPT !.eof = TRUE] /\ got' = got
    BY <1>10 DEF ReadEof
  <2>2. pipe' \in Pipes /\ pipe'.ring = pipe.ring /\ pipe'.lost = pipe.lost /\ pipe'.exit = pipe.exit
          /\ pipe'.st = pipe.st
    BY <2>1 DEF Pipes
  <2> QED  BY <2>1, <2>2 DEF StreamKept
<1> QED  BY <1>1, <1>2, <1>3, <1>4, <1>5, <1>6, <1>7, <1>8, <1>9, <1>10
         DEF PipeIdle, Next, HostStep, AgentStep, ProcessStep, OtherStep

-----------------------------------------------------------------------------
(* The stream moves on *)

\* SessionPipe::deliver, when the chunk has something new.
LEMMA DeliverIs ==
  ASSUME pipe \in Pipes, got \in Seq(Nat),
         NEW f, f.from \in Nat, f.data \in Seq(Nat), Numbered(f.from, f.data),
         Deliver(f), Listed, f.from + Len(f.data) > RingEnd(pipe.ring)
  PROVE  \E gap, count \in Nat, new \in Seq(Nat) :
           /\ RingEnd(pipe.ring) + gap + count = f.from + Len(f.data)
           /\ Len(new) = count /\ Numbered(RingEnd(pipe.ring) + gap, new)
           /\ pipe' \in Pipes /\ RingEnd(pipe'.ring) = f.from + Len(f.data)
           /\ pipe'.lost = pipe.lost + gap /\ pipe'.exit = pipe.exit /\ pipe'.st = pipe.st
           /\ got' = got \o new /\ got' \in Seq(Nat)
<1> DEFINE end  == RingEnd(pipe.ring)
           k    == Larger(end - f.from, 0)
           gap  == Larger(f.from - end, 0)
           new  == SubSeq(f.data, k + 1, Len(f.data))
           base == IF f.from > end THEN SkipTo(pipe.ring, f.from) ELSE pipe.ring
           ring == RingPush(base, new, HostCap)
<1>1. pipe.ring \in Rings /\ end \in Nat /\ pipe.lost \in Nat /\ HostCap \in Nat
  BY PipeFields, ConstantsFit
<1>2. Len(f.data) \in Nat
  BY LenProperties
<1>3. pipe' = [pipe EXCEPT !.ring = ring, !.lost = pipe.lost + gap] /\ got' = got \o new
  <2>1. ~(~Listed \/ f.from + Len(f.data) <= end)
    BY <1>1, <1>2
  <2>2. got' = got \o new /\ pipe' = [pipe EXCEPT !.ring = ring, !.lost = @ + gap]
    BY <2>1 DEF Deliver
  <2> HIDE DEF ring, gap, new
  <2> QED  BY <2>2 DEF Pipes
<1>4. base \in Rings /\ RingEnd(base) = Larger(f.from, end)
  BY <1>1, SkipToIs DEF Larger
<1> HIDE DEF base
<1>5. k \in Nat /\ k <= Len(f.data) /\ gap \in Nat /\ f.from + k = end + gap /\ end + gap = Larger(f.from, end)
  BY <1>1, <1>2 DEF Larger
<1> HIDE DEF k, gap, end
<1>6. f.from \in Int /\ Len(f.data) <= Len(f.data) /\ end + gap = f.from + k
  BY <1>2, <1>5
<1>7. new \in Seq(Nat) /\ Len(new) = IF k <= Len(f.data) THEN Len(f.data) - k ELSE 0
  BY <1>2, <1>5, <1>6, NumberedPart
<1>8. Numbered(end + gap, new)
  BY <1>2, <1>5, <1>6, NumberedPart
<1>9. Len(new) = Len(f.data) - k
  BY <1>5, <1>7
<1> HIDE DEF new
<1>10. Len(new) \in Nat /\ end + gap + Len(new) = f.from + Len(f.data)
  <2>1. end \in Nat /\ gap \in Nat /\ k \in Nat /\ k <= Len(f.data) /\ end + gap = f.from + k
    BY <1>1, <1>5 DEF end
  <2>2. Len(new) \in Nat
    BY <1>7, LenProperties
  <2>3. ASSUME NEW x \in Nat, NEW l \in Nat, NEW m \in Nat, end + gap = x + k, m = l - k
        PROVE  end + gap + m = x + l
    BY <2>1, <2>3
  <2>4. f.from \in Nat /\ Len(f.data) \in Nat /\ end + gap = f.from + k
    BY <2>1, <1>2
  <2>5. end + gap + Len(new) = f.from + Len(f.data)
    BY <2>2, <2>3, <2>4, <1>9
  <2> QED  BY <2>2, <2>5
<1>11. Numbered(RingEnd(base), new) /\ RingEnd(base) = end + gap
  BY <1>4, <1>5, <1>8
<1>12. ring \in Rings /\ RingEnd(ring) = RingEnd(base) + Len(new)
  BY <1>1, <1>4, <1>7, <1>11, RingPushIs
<1>13. RingEnd(ring) = f.from + Len(f.data)
  BY <1>10, <1>11, <1>12
<1> HIDE DEF ring
<1>14. pipe.lost + gap \in Nat
  BY <1>1, <1>5
<1>15. /\ pipe' \in Pipes /\ pipe'.ring = ring /\ pipe'.lost = pipe.lost + gap
       /\ pipe'.exit = pipe.exit /\ pipe'.st = pipe.st
  BY <1>3, <1>12, <1>14 DEF Pipes
<1>16. got' \in Seq(Nat)
  BY <1>3, <1>7, ConcatProperties
<1> QED  BY <1>3, <1>5, <1>7, <1>8, <1>10, <1>13, <1>15, <1>16 DEF end

\* SessionPipe::gap, when it is new.
LEMMA TakeGapIs ==
  ASSUME pipe \in Pipes, NEW f, f.to \in Nat, TakeGap(f), Listed, f.to > RingEnd(pipe.ring)
  PROVE  /\ pipe' \in Pipes /\ RingEnd(pipe'.ring) = f.to
         /\ pipe'.lost = pipe.lost + (f.to - RingEnd(pipe.ring))
         /\ pipe'.exit = pipe.exit /\ pipe'.st = pipe.st /\ got' = got
<1> DEFINE end == RingEnd(pipe.ring)
           ring == SkipTo(pipe.ring, f.to)
<1>1. pipe.ring \in Rings /\ end \in Nat /\ pipe.lost \in Nat
  BY PipeFields
<1>2. ring \in Rings /\ RingEnd(ring) = f.to
  BY <1>1, SkipToIs DEF Larger
<1>3. pipe' = [pipe EXCEPT !.ring = ring, !.lost = pipe.lost + f.to - end] /\ got' = got
  BY DEF TakeGap, Pipes
<1>4. pipe.lost + f.to - end = pipe.lost + (f.to - end) /\ pipe.lost + f.to - end \in Nat
  BY <1>1
<1> HIDE DEF ring, end
<1>5. /\ pipe' \in Pipes /\ pipe'.ring = ring /\ pipe'.lost = pipe.lost + f.to - end
      /\ pipe'.exit = pipe.exit /\ pipe'.st = pipe.st
  BY <1>2, <1>3, <1>4 DEF Pipes
<1> QED  BY <1>2, <1>3, <1>4, <1>5 DEF end

\* SessionPipe::finish, the first time.
LEMMA FinishIs ==
  ASSUME pipe \in Pipes, NEW f, f.end \in Nat, Finish(f), Listed, pipe.exit = None
  PROVE  /\ pipe' \in Pipes /\ RingEnd(pipe'.ring) = Larger(f.end, RingEnd(pipe.ring))
         /\ pipe'.lost = pipe.lost /\ pipe'.exit = f.end /\ pipe'.st = pipe.st /\ got' = got
<1> DEFINE ring == IF f.end > RingEnd(pipe.ring) THEN SkipTo(pipe.ring, f.end) ELSE pipe.ring
<1>1. pipe.ring \in Rings /\ RingEnd(pipe.ring) \in Nat
  BY PipeFields
<1>2. ring \in Rings /\ RingEnd(ring) = Larger(f.end, RingEnd(pipe.ring))
  BY <1>1, SkipToIs DEF Larger
<1>3. pipe' = [pipe EXCEPT !.exit = f.end, !.ring = ring] /\ got' = got
  BY DEF Finish, Pipes
<1> HIDE DEF ring
<1>4. /\ pipe' \in Pipes /\ pipe'.ring = ring /\ pipe'.lost = pipe.lost
      /\ pipe'.exit = f.end /\ pipe'.st = pipe.st
  BY <1>2, <1>3 DEF Pipes
<1> QED  BY <1>2, <1>3, <1>4

LEMMA PipeStep ==
  ASSUME pipe \in Pipes, got \in Seq(Nat), a2h \in [Conns -> Seq(AgentFrames)], [Next]_vars
  PROVE  /\ pipe' \in Pipes /\ got' \in Seq(Nat)
         /\ RingEnd(pipe.ring) <= RingEnd(pipe'.ring)
         /\ RingEnd(pipe.ring) \in Nat /\ RingEnd(pipe'.ring) \in Nat
         /\ pipe'.st \in {pipe.st, "gone"} \/ Spawn
<1>0. RingEnd(pipe.ring) \in Nat
  BY PipeFields
<1>1. CASE \A c \in Conns : ~Dispatch(c)
  BY <1>0, <1>1, StreamKeptStep DEF StreamKept
<1>2. ASSUME NEW c \in Conns, Dispatch(c)
      PROVE  pipe' \in Pipes /\ got' \in Seq(Nat) /\ RingEnd(pipe.ring) <= RingEnd(pipe'.ring) /\ pipe'.st = pipe.st
  <2> DEFINE f == Head(a2h[c])
  <2>1. f \in AgentFrames
    BY <1>2, TailIs DEF Dispatch
  <2>2. \/ f.k = "output" /\ Deliver(f)
        \/ f.k = "gap" /\ TakeGap(f)
        \/ f.k = "exit" /\ Finish(f)
        \/ UNCHANGED <<pipe, got>>
    BY <1>2 DEF Dispatch
  <2> HIDE DEF f
  <2>3. CASE UNCHANGED <<pipe, got>>
    BY <1>0, <2>3
  <2>4. CASE f.k = "output" /\ Deliver(f)
    <3>1. f.from \in Nat /\ f.data \in Seq(Nat) /\ Numbered(f.from, f.data)
      BY <2>1, <2>4, AgentFrameKinds
    <3>2. CASE ~Listed \/ f.from + Len(f.data) <= RingEnd(pipe.ring)
      BY <1>0, <2>4, <3>2 DEF Deliver
    <3>3. CASE Listed /\ f.from + Len(f.data) > RingEnd(pipe.ring)
      BY <1>0, <2>4, <3>1, <3>3, DeliverIs
    <3>4. f.from + Len(f.data) \in Nat
      BY <3>1, LenProperties
    <3> QED  BY <1>0, <3>2, <3>3, <3>4
  <2>5. CASE f.k = "gap" /\ TakeGap(f)
    <3>1. f.to \in Nat
      BY <2>1, <2>5, AgentFrameKinds
    <3>2. CASE ~(Listed /\ f.to > RingEnd(pipe.ring))
      BY <1>0, <2>5, <3>2 DEF TakeGap
    <3>3. CASE Listed /\ f.to > RingEnd(pipe.ring)
      BY <1>0, <2>5, <3>1, <3>3, TakeGapIs
    <3> QED  BY <3>2, <3>3
  <2>6. CASE f.k = "exit" /\ Finish(f)
    <3>1. f.end \in Nat
      BY <2>1, <2>6, AgentFrameKinds
    <3>2. CASE ~(Listed /\ pipe.exit = None)
      BY <1>0, <2>6, <3>2 DEF Finish
    <3>3. CASE Listed /\ pipe.exit = None
      BY <1>0, <2>6, <3>1, <3>3, FinishIs DEF Larger
    <3> QED  BY <3>2, <3>3
  <2> QED  BY <2>2, <2>3, <2>4, <2>5, <2>6
<1>3. pipe' \in Pipes /\ got' \in Seq(Nat) /\ RingEnd(pipe.ring) <= RingEnd(pipe'.ring)
      /\ (pipe'.st \in {pipe.st, "gone"} \/ Spawn)
  BY <1>1, <1>2
<1>4. RingEnd(pipe'.ring) \in Nat
  BY <1>3, PipeFields
<1> QED  BY <1>0, <1>3, <1>4

-----------------------------------------------------------------------------
(* Which steps change what *)

LEMMA Changes ==
  ASSUME [Next]_vars
  PROVE  /\ scope' = scope
         /\ (link' = link \/ Spawn \/ SpawnFails \/ Kill \/ Release \/ RegisterClose \/ Launch \/
              GiveUp("lost") \/ GiveUp("unavailable") \/ LinkClose \/ \E c \in Conns : LaunchFails(c) \/
              Install(c) \/ ConnectionLost(c) \/ ReaderDone(c))
         /\ (inp' = inp \/ WriteInput \/ CloseStdin \/ MarkSent \/ ResendInput \/ \E c \in Conns :
              Install(c))
         /\ (user' = user \/ Kill \/ WriteInput \/ CloseStdin \/ FetchWriter \/ UserWrites \/
              CheckGeneration \/ MarkSent \/ RegisterClose)
         /\ (sup' = sup \/ Resend \/ ResendInput \/ \E c \in Conns : Install(c))
         /\ (hconn' = hconn \/ Launch \/ \E c \in Conns : LaunchFails(c) \/ Install(c) \/ ReaderDone(c))
         /\ (aconn' = aconn \/ \E c \in Conns : Introduce(c) \/ ServeEnds(c) \/ Flush(c))
         /\ (client' = client \/ EndSpawn \/ RefuseSpawn \/ \E c \in Conns : Introduce(c) \/ ReadLoop(c) \/
              BeginSpawn(c) \/ ServeEnds(c) \/ Flush(c))
         /\ (ses' = ses \/ EndSpawn \/ RecordOutput \/ StreamDone \/ Reaped \/ Reclaim \/ Forget \/ \E c \in
              Conns : Introduce(c) \/ ReadLoop(c) \/ SendFrames(c))
         /\ (up' = up \/ Launch \/ \E c \in Conns : Install(c) \/ ConnectionLost(c) \/ Closer(c) \/
              Introduce(c) \/ ReadLoop(c) \/ Break(c))
         /\ (a2h' = a2h \/ \E c \in Conns : Install(c) \/ ConnectionLost(c) \/ Closer(c) \/ Dispatch(c) \/
              Introduce(c) \/ Flush(c) \/ SendFrames(c) \/ Break(c))
         /\ (fed' = fed \/ EndSpawn \/ \E c \in Conns : ReadLoop(c))
         /\ (wrote' = wrote \/ RecordOutput \/ StreamDone)
<1>0. scope' = scope
  BY DEF Next, vars
<1>1. link' = link \/ Spawn \/ SpawnFails \/ Kill \/ Release \/ RegisterClose \/ Launch \/ GiveUp("lost") \/
      GiveUp("unavailable") \/ LinkClose \/ \E c \in Conns : LaunchFails(c) \/ Install(c) \/
      ConnectionLost(c) \/ ReaderDone(c)
  BY DEF Next, vars, hostVars, HostStep, AgentStep, ProcessStep, OtherStep, SpawnReturns, WriteInput,
         CloseStdin, FetchWriter, UserWrites, CheckGeneration, MarkSent, Resend, ResendInput, Closer,
         Dispatch, Read, ReadEof, Introduce, ReadLoop, BeginSpawn, EndSpawn, RefuseSpawn, ServeEnds, Flush,
         SendFrames, RecordOutput, StreamDone, Reaped, Reclaim, Forget, Break
<1>2. inp' = inp \/ WriteInput \/ CloseStdin \/ MarkSent \/ ResendInput \/ \E c \in Conns : Install(c)
  BY DEF Next, vars, hostVars, HostStep, AgentStep, ProcessStep, OtherStep, Spawn, SpawnReturns, SpawnFails,
         Kill, Release, FetchWriter, UserWrites, CheckGeneration, RegisterClose, Launch, LaunchFails,
         Resend, ConnectionLost, ReaderDone, GiveUp, LinkClose, Closer, Dispatch, Read, ReadEof, Introduce,
         ReadLoop, BeginSpawn, EndSpawn, RefuseSpawn, ServeEnds, Flush, SendFrames, RecordOutput,
         StreamDone, Reaped, Reclaim, Forget, Break
<1>3. user' = user \/ Kill \/ WriteInput \/ CloseStdin \/ FetchWriter \/ UserWrites \/ CheckGeneration \/
      MarkSent \/ RegisterClose
  BY DEF Next, vars, hostVars, HostStep, AgentStep, ProcessStep, OtherStep, Spawn, SpawnReturns, SpawnFails,
         Release, Launch, LaunchFails, Install, Resend, ResendInput, ConnectionLost, ReaderDone, GiveUp,
         LinkClose, Closer, Dispatch, Read, ReadEof, Introduce, ReadLoop, BeginSpawn, EndSpawn, RefuseSpawn,
         ServeEnds, Flush, SendFrames, RecordOutput, StreamDone, Reaped, Reclaim, Forget, Break
<1>4. sup' = sup \/ Resend \/ ResendInput \/ \E c \in Conns : Install(c)
  BY DEF Next, vars, hostVars, HostStep, AgentStep, ProcessStep, OtherStep, Spawn, SpawnReturns, SpawnFails,
         Kill, Release, WriteInput, CloseStdin, FetchWriter, UserWrites, CheckGeneration, MarkSent,
         RegisterClose, Launch, LaunchFails, ConnectionLost, ReaderDone, GiveUp, LinkClose, Closer,
         Dispatch, Read, ReadEof, Introduce, ReadLoop, BeginSpawn, EndSpawn, RefuseSpawn, ServeEnds, Flush,
         SendFrames, RecordOutput, StreamDone, Reaped, Reclaim, Forget, Break
<1>5. hconn' = hconn \/ Launch \/ \E c \in Conns : LaunchFails(c) \/ Install(c) \/ ReaderDone(c)
  BY DEF Next, vars, hostVars, HostStep, AgentStep, ProcessStep, OtherStep, Spawn, SpawnReturns, SpawnFails,
         Kill, Release, WriteInput, CloseStdin, FetchWriter, UserWrites, CheckGeneration, MarkSent,
         RegisterClose, Resend, ResendInput, ConnectionLost, GiveUp, LinkClose, Closer, Dispatch, Read,
         ReadEof, Introduce, ReadLoop, BeginSpawn, EndSpawn, RefuseSpawn, ServeEnds, Flush, SendFrames,
         RecordOutput, StreamDone, Reaped, Reclaim, Forget, Break
<1>6. aconn' = aconn \/ \E c \in Conns : Introduce(c) \/ ServeEnds(c) \/ Flush(c)
  BY DEF Next, vars, hostVars, HostStep, AgentStep, ProcessStep, OtherStep, Spawn, SpawnReturns, SpawnFails,
         Kill, Release, WriteInput, CloseStdin, FetchWriter, UserWrites, CheckGeneration, MarkSent,
         RegisterClose, Launch, LaunchFails, Install, Resend, ResendInput, ConnectionLost, ReaderDone,
         GiveUp, LinkClose, Closer, Dispatch, Read, ReadEof, ReadLoop, BeginSpawn, EndSpawn, RefuseSpawn,
         SendFrames, RecordOutput, StreamDone, Reaped, Reclaim, Forget, Break
<1>7. client' = client \/ EndSpawn \/ RefuseSpawn \/ \E c \in Conns : Introduce(c) \/ ReadLoop(c) \/
      BeginSpawn(c) \/ ServeEnds(c) \/ Flush(c)
  BY DEF Next, vars, hostVars, HostStep, AgentStep, ProcessStep, OtherStep, Spawn, SpawnReturns, SpawnFails,
         Kill, Release, WriteInput, CloseStdin, FetchWriter, UserWrites, CheckGeneration, MarkSent,
         RegisterClose, Launch, LaunchFails, Install, Resend, ResendInput, ConnectionLost, ReaderDone,
         GiveUp, LinkClose, Closer, Dispatch, Read, ReadEof, SendFrames, RecordOutput, StreamDone, Reaped,
         Reclaim, Forget, Break
<1>8. ses' = ses \/ EndSpawn \/ RecordOutput \/ StreamDone \/ Reaped \/ Reclaim \/ Forget \/ \E c \in Conns
      : Introduce(c) \/ ReadLoop(c) \/ SendFrames(c)
  BY DEF Next, vars, hostVars, HostStep, AgentStep, ProcessStep, OtherStep, Spawn, SpawnReturns, SpawnFails,
         Kill, Release, WriteInput, CloseStdin, FetchWriter, UserWrites, CheckGeneration, MarkSent,
         RegisterClose, Launch, LaunchFails, Install, Resend, ResendInput, ConnectionLost, ReaderDone,
         GiveUp, LinkClose, Closer, Dispatch, Read, ReadEof, BeginSpawn, RefuseSpawn, ServeEnds, Flush,
         Break
<1>9. up' = up \/ Launch \/ \E c \in Conns : Install(c) \/ ConnectionLost(c) \/ Closer(c) \/ Introduce(c) \/
      ReadLoop(c) \/ Break(c)
  BY DEF Next, vars, hostVars, HostStep, AgentStep, ProcessStep, OtherStep, Spawn, SpawnReturns, SpawnFails,
         Kill, Release, WriteInput, CloseStdin, FetchWriter, UserWrites, CheckGeneration, MarkSent,
         RegisterClose, LaunchFails, Resend, ResendInput, ReaderDone, GiveUp, LinkClose, Dispatch, Read,
         ReadEof, BeginSpawn, EndSpawn, RefuseSpawn, ServeEnds, Flush, SendFrames, RecordOutput, StreamDone,
         Reaped, Reclaim, Forget
<1>10. a2h' = a2h \/ \E c \in Conns : Install(c) \/ ConnectionLost(c) \/ Closer(c) \/ Dispatch(c) \/
      Introduce(c) \/ Flush(c) \/ SendFrames(c) \/ Break(c)
  BY DEF Next, vars, hostVars, HostStep, AgentStep, ProcessStep, OtherStep, Spawn, SpawnReturns, SpawnFails,
         Kill, Release, WriteInput, CloseStdin, FetchWriter, UserWrites, CheckGeneration, MarkSent,
         RegisterClose, Launch, LaunchFails, Resend, ResendInput, ReaderDone, GiveUp, LinkClose, Read,
         ReadEof, ReadLoop, BeginSpawn, EndSpawn, RefuseSpawn, ServeEnds, RecordOutput, StreamDone, Reaped,
         Reclaim, Forget
<1>11. fed' = fed \/ EndSpawn \/ \E c \in Conns : ReadLoop(c)
  BY DEF Next, vars, hostVars, HostStep, AgentStep, ProcessStep, OtherStep, Spawn, SpawnReturns, SpawnFails,
         Kill, Release, WriteInput, CloseStdin, FetchWriter, UserWrites, CheckGeneration, MarkSent,
         RegisterClose, Launch, LaunchFails, Install, Resend, ResendInput, ConnectionLost, ReaderDone,
         GiveUp, LinkClose, Closer, Dispatch, Read, ReadEof, Introduce, BeginSpawn, RefuseSpawn, ServeEnds,
         Flush, SendFrames, RecordOutput, StreamDone, Reaped, Reclaim, Forget, Break
<1>12. wrote' = wrote \/ RecordOutput \/ StreamDone
  BY DEF Next, vars, hostVars, HostStep, AgentStep, ProcessStep, OtherStep, Spawn, SpawnReturns, SpawnFails,
         Kill, Release, WriteInput, CloseStdin, FetchWriter, UserWrites, CheckGeneration, MarkSent,
         RegisterClose, Launch, LaunchFails, Install, Resend, ResendInput, ConnectionLost, ReaderDone,
         GiveUp, LinkClose, Closer, Dispatch, Read, ReadEof, Introduce, ReadLoop, BeginSpawn, EndSpawn,
         RefuseSpawn, ServeEnds, Flush, SendFrames, Reaped, Reclaim, Forget, Break
<1> QED  BY <1>0, <1>1, <1>2, <1>3, <1>4, <1>5, <1>6, <1>7, <1>8, <1>9, <1>10, <1>11, <1>12

-----------------------------------------------------------------------------
(* Types *)

LEMMA ConnsAre == /\ Conns \subseteq 0..MaxConns /\ 0 \in 0..MaxConns
                  /\ \A c \in Conns : c # 0 /\ c \in Int
  BY ConstantsFit DEF Conns

LEMMA LinkStep == ASSUME LinkBase, [Next]_vars PROVE link' \in Links
<1>0. /\ link \in Links /\ pend \in Seq(PendingFor(Ops)) /\ pipe \in Pipes
      /\ h2a \in [Conns -> Seq(HostFrames(Ops, BOOLEAN, RingEnd(pipe.ring)))]
  BY DEF LinkBase, RemoteTypeOK, HostTypes, WireTypes
<1>1. RingEnd(pipe.ring) \in Nat /\ {"spawn", "kill", "close", "release"} = Ops
  BY <1>0, PipeFields DEF Ops
<1>2. CASE Spawn \/ Kill \/ Release \/ RegisterClose \/ SpawnFails
  <2>1. PICK op \in Ops, ps \in Seq(PendingFor(Ops)) : Register(op, ps)
    <3>1. Without("spawn") \in Seq(PendingFor(Ops))
      BY <1>0, WithoutIs DEF Without
    <3> QED  BY <1>0, <1>1, <1>2, <3>1 DEF Spawn, Kill, Release, RegisterClose, SpawnFails
  <2> QED  BY <1>0, <1>1, <2>1, RegisterAsks
<1>3. CASE Launch
  BY <1>0, <1>3, ConnsAre DEF Launch, Links
<1>4. CASE GiveUp("lost") \/ GiveUp("unavailable")
  <2>1. link.lost + 1 \in Nat
    BY <1>0 DEF Links
  <2>2. PICK status \in {"lost", "unavailable"} :
          link' = [link EXCEPT !.status = status, !.lost = @ + 1, !.wake = FALSE]
    BY <1>4 DEF GiveUp
  <2> QED  BY <1>0, <2>1, <2>2 DEF Links
<1>5. CASE LinkClose
  BY <1>0, <1>5, ConnsAre DEF LinkClose, Links
<1>6. ASSUME NEW c \in Conns, LaunchFails(c) \/ Install(c) PROVE link' \in Links
  <2>1. \/ link' = [link EXCEPT !.dial = 0]
        \/ link' = [link EXCEPT !.dial = 0, !.conn = c, !.gen = c, !.status = "connected"]
    BY <1>6 DEF LaunchFails, Install
  <2> QED  BY <1>0, <2>1, ConnsAre DEF Links
<1>7. ASSUME NEW c \in Conns, ConnectionLost(c) \/ ReaderDone(c) PROVE link' \in Links
  <2>1. \/ link' = link \/ link' = [link EXCEPT !.conn = 0]
        \/ link' = [link EXCEPT !.conn = 0, !.status = "reconnecting"]
    BY <1>0, <1>7 DEF ConnectionLost, ReaderDone, Abandoned, Links
  <2> QED  BY <1>0, <2>1, ConnsAre DEF Links
<1> QED  BY <1>0, <1>2, <1>3, <1>4, <1>5, <1>6, <1>7, Changes

LEMMA UserStep == ASSUME LinkBase, [Next]_vars PROVE user' \in Users
<1>0. user \in Users /\ link.conn \in 0..MaxConns /\ InNext \in Nat /\ user.then \in {"idle", "register"}
  BY InputFramesAre DEF LinkBase, RemoteTypeOK, HostTypes, Links, Users
<1>1. CASE Kill \/ WriteInput \/ CloseStdin \/ RegisterClose
  <2>1. \/ user' = [user EXCEPT !.kills = 1]
        \/ user' = [user EXCEPT !.pc = "send", !.then = "idle"]
        \/ user' = [user EXCEPT !.pc = "send", !.then = "register"]
        \/ user' = [user EXCEPT !.pc = "idle"]
    BY <1>1 DEF Kill, WriteInput, CloseStdin, RegisterClose
  <2>2. CASE user' = [user EXCEPT !.kills = 1]
    BY <1>0, <2>2 DEF Users
  <2>3. ASSUME NEW pc \in {"send", "idle"}, NEW then \in {"idle", "register"}
        PROVE  [user EXCEPT !.pc = pc, !.then = then] \in Users /\ [user EXCEPT !.pc = pc] \in Users
    BY <1>0 DEF Users
  <2> QED  BY <2>1, <2>2, <2>3
<1>2. CASE FetchWriter
  BY <1>0, <1>2 DEF FetchWriter, Users
<1>3. CASE UserWrites
  BY <1>0, <1>3 DEF UserWrites, Users
<1>4. CASE CheckGeneration \/ MarkSent
  BY <1>0, <1>4 DEF CheckGeneration, MarkSent, Users
<1> QED  BY <1>0, <1>1, <1>2, <1>3, <1>4, Changes

LEMMA SupStep ==
  ASSUME LinkBase, [Next]_vars PROVE sup' \in [pc : {"idle", "resend"}, frames : Seq(RequestsOf(Ops))]
<1>0. sup \in [pc : {"idle", "resend"}, frames : Seq(RequestsOf(Ops))] /\ pend \in Seq(PendingFor(Ops))
  BY DEF LinkBase, RemoteTypeOK, HostTypes
<1>1. CASE Resend
  <2>1. Tail(sup.frames) \in Seq(RequestsOf(Ops)) /\ sup' = [sup EXCEPT !.frames = Tail(@)]
    BY <1>0, <1>1, HeadTailProperties DEF Resend
  <2> QED  BY <1>0, <2>1
<1>2. CASE ResendInput
  BY <1>0, <1>2 DEF ResendInput
<1>3. ASSUME NEW c \in Conns, Install(c) PROVE sup' = sup \/ sup' = [pc |-> "resend", frames |-> Resent]
  BY <1>3 DEF Install
<1>4. Resent \in Seq(RequestsOf(Ops))
  BY <1>0, PendingMapped
<1> QED  BY <1>0, <1>1, <1>2, <1>3, <1>4, Changes

LEMMA ConnectionsStep ==
  ASSUME LinkBase, [Next]_vars
  PROVE  /\ hconn' \in [Conns -> {"none", "hello", "reader", "done"}]
         /\ aconn' \in [Conns -> {"none", "open", "serving", "ended"}]
         /\ \A c \in Conns : aconn[c] # "none" => aconn'[c] # "none"
<1>0. /\ hconn \in [Conns -> {"none", "hello", "reader", "done"}]
      /\ aconn \in [Conns -> {"none", "open", "serving", "ended"}]
  BY DEF LinkBase, RemoteTypeOK, HostTypes, AgentTypes
<1>1. Launch => \E c \in Conns : hconn' = [hconn EXCEPT ![c] = "hello"]
  BY DEF Launch
<1>2. \A c \in Conns : LaunchFails(c) \/ Install(c) \/ ReaderDone(c) =>
        hconn' = [hconn EXCEPT ![c] = "done"] \/ hconn' = [hconn EXCEPT ![c] = "reader"]
  BY DEF LaunchFails, Install, ReaderDone
<1>3. \A c \in Conns : Introduce(c) \/ ServeEnds(c) \/ Flush(c) =>
        \E st \in {"open", "ended", "serving"} : aconn' = [aconn EXCEPT ![c] = st]
  BY DEF Introduce, ServeEnds, Flush
<1>4. hconn' \in [Conns -> {"none", "hello", "reader", "done"}]
  BY <1>0, <1>1, <1>2, Changes
<1>5. /\ aconn' \in [Conns -> {"none", "open", "serving", "ended"}]
      /\ \A c \in Conns : aconn[c] # "none" => aconn'[c] # "none"
  BY <1>0, <1>3, Changes
<1> QED  BY <1>4, <1>5

\* A part of the input buffer is given up, because it is too full or because
\* the agent has it.
LEMMA InputDropped ==
  ASSUME NEW b \in InputBuffers, NEW k \in Nat, k <= Len(b.bytes), NEW sent \in Nat, b.base + k <= sent
  PROVE  [b EXCEPT !.base = b.base + k, !.bytes = SubSeq(@, k + 1, Len(@)), !.sent = sent] \in InputBuffers
<1> DEFINE base == b.base + k
           rest == SubSeq(b.bytes, k + 1, Len(b.bytes))
           q    == [b EXCEPT !.base = base, !.bytes = rest, !.sent = sent]
<1>1. b.base \in Nat /\ b.base \in Int /\ b.bytes \in Seq(Nat) /\ Numbered(b.base, b.bytes)
  BY DEF InputBuffers
<1>2. Len(b.bytes) \in Nat /\ Len(b.bytes) <= Len(b.bytes)
  BY <1>1, LenProperties
<1>3. base \in Nat /\ base = b.base + k
  BY <1>1
<1> HIDE DEF base
<1>4. rest \in Seq(Nat) /\ Numbered(base, rest)
  BY <1>1, <1>2, <1>3, NumberedPart
<1> HIDE DEF rest
<1>5. b \in [base : Nat, bytes : Seq(Nat), sent : Nat, closed : BOOLEAN]
  BY DEF InputBuffers
<1>6. /\ q \in [base : Nat, bytes : Seq(Nat), sent : Nat, closed : BOOLEAN]
      /\ q.base = base /\ q.bytes = rest /\ q.sent = sent
  BY <1>3, <1>4, <1>5
<1>7. q \in InputBuffers
  BY <1>3, <1>4, <1>6 DEF InputBuffers
<1> QED  BY <1>7, <1>5 DEF base, rest

LEMMA BufferFields ==
  ASSUME NEW b \in InputBuffers
  PROVE  /\ b.base \in Nat /\ b.sent \in Nat /\ b.bytes \in Seq(Nat) /\ Len(b.bytes) \in Nat
         /\ Numbered(b.base, b.bytes) /\ b.base <= b.sent /\ b.closed \in BOOLEAN
<1>1. b.bytes \in Seq(Nat)
  BY DEF InputBuffers
<1> QED  BY <1>1, LenProperties DEF InputBuffers

LEMMA OverflowedIs == ASSUME NEW b \in InputBuffers PROVE Overflowed(b) \in InputBuffers
<1> DEFINE over == Larger(Len(b.bytes) - InRetain, 0)
           sent == Larger(b.sent, b.base + over)
<1>1. b.base \in Nat /\ b.sent \in Nat /\ Len(b.bytes) \in Nat /\ InRetain \in Nat
  BY BufferFields, ConstantsFit
<1>2. over \in Nat /\ over <= Len(b.bytes) /\ sent \in Nat /\ b.base + over <= sent
  BY <1>1 DEF Larger
<1>3. Overflowed(b) = [b EXCEPT !.base = b.base + over, !.bytes = SubSeq(@, over + 1, Len(@)), !.sent = sent]
  BY DEF Overflowed, InputBuffers
<1> HIDE DEF over, sent
<1> QED  BY <1>2, <1>3, InputDropped

LEMMA RewoundIs ==
  ASSUME NEW b \in InputBuffers, NEW confirmed \in Nat PROVE Rewound(b, confirmed) \in InputBuffers
<1> DEFINE to   == Smaller(confirmed, b.base + Len(b.bytes))
           n    == Larger(to - b.base, 0)
           sent == Larger(to, b.base + n)
<1>1. b.base \in Nat /\ Len(b.bytes) \in Nat
  BY BufferFields
<1>2. n \in Nat /\ n <= Len(b.bytes) /\ sent \in Nat /\ b.base + n <= sent
  BY <1>1 DEF Larger, Smaller
<1>3. Rewound(b, confirmed) = [b EXCEPT !.base = b.base + n, !.bytes = SubSeq(@, n + 1, Len(@)), !.sent = sent]
  BY DEF Rewound
<1> HIDE DEF n, sent, to
<1> QED  BY <1>2, <1>3, InputDropped

LEMMA InputStep == ASSUME LinkBase, [Next]_vars PROVE inp' \in InputBuffers
<1>0. /\ inp \in InputBuffers /\ user.to \in Nat /\ InNext \in Nat
      /\ a2h \in [Conns -> Seq(AgentFrames)]
  BY InputFramesAre DEF LinkBase, RemoteTypeOK, HostTypes, WireTypes, Users
<1>1. inp.base \in Nat /\ inp.sent \in Nat /\ inp.bytes \in Seq(Nat) /\ Numbered(inp.base, inp.bytes) /\ inp.base <= inp.sent
  BY <1>0, BufferFields
<1>2. CASE WriteInput
  <2> DEFINE more == Append(inp.bytes, InNext + 1)
  <2>1. /\ more \in Seq(Nat) /\ Len(more) = Len(inp.bytes) + 1
        /\ \A i \in 1..Len(inp.bytes) : more[i] = inp.bytes[i]
        /\ more[Len(inp.bytes) + 1] = InNext + 1
    BY <1>0, <1>1, AppendProperties
  <2>2. Len(inp.bytes) \in Nat /\ InNext = inp.base + Len(inp.bytes)
    BY <1>1, LenProperties DEF InNext
  <2>3. Numbered(inp.base, more)
    <3> SUFFICES ASSUME NEW i \in 1..Len(more) PROVE more[i] = inp.base + i
      BY DEF Numbered
    <3> HIDE DEF more
    <3>1. CASE i <= Len(inp.bytes)
      BY <1>1, <2>1, <2>2, <3>1 DEF Numbered
    <3>2. CASE i > Len(inp.bytes)
      <4>1. i = Len(inp.bytes) + 1
        BY <2>1, <2>2, <3>2
      <4>2. more[i] = InNext + 1
        BY <2>1, <4>1
      <4>3. InNext + 1 = inp.base + i
        BY <1>1, <2>2, <4>1
      <4> QED  BY <4>2, <4>3
    <3> QED  BY <2>1, <2>2, <3>1, <3>2
  <2> HIDE DEF more
  <2>4. [inp EXCEPT !.bytes = more] \in InputBuffers
    BY <1>0, <1>1, <2>1, <2>3 DEF InputBuffers
  <2>5. inp' = Overflowed([inp EXCEPT !.bytes = more])
    BY <1>2 DEF WriteInput, InputBuffers, more
  <2> QED  BY <2>4, <2>5, OverflowedIs
<1>3. CASE CloseStdin
  BY <1>0, <1>3 DEF CloseStdin, InputBuffers
<1>4. CASE MarkSent \/ ResendInput
  <2>1. \E to \in Nat : inp' = inp \/ inp' = [inp EXCEPT !.sent = Larger(inp.sent, to)]
    BY <1>0, <1>4 DEF MarkSent, ResendInput
  <2>2. \A to \in Nat : Larger(inp.sent, to) \in Nat /\ inp.base <= Larger(inp.sent, to)
    BY <1>1 DEF Larger
  <2>3. \A sent \in Nat : inp.base <= sent => [inp EXCEPT !.sent = sent] \in InputBuffers
    BY <1>0, <1>1 DEF InputBuffers
  <2> QED  BY <1>0, <2>1, <2>2, <2>3
<1>5. ASSUME NEW c \in Conns, Install(c) PROVE inp' \in InputBuffers
  <2>1. Head(a2h[c]) \in AgentFrames /\ Head(a2h[c]).k = "welcome"
    BY <1>0, <1>5, TailIs DEF Install
  <2>2. Head(a2h[c]).input \in Nat
    BY <2>1, AgentFrameKinds
  <2>3. inp' = inp \/ inp' = Rewound(inp, Head(a2h[c]).input)
    BY <1>5 DEF Install
  <2> QED  BY <1>0, <2>2, <2>3, RewoundIs
<1> QED  BY <1>0, <1>2, <1>3, <1>4, <1>5, Changes

LEMMA SessionFields ==
  ASSUME NEW s \in Sessions
  PROVE  /\ s.ring \in Rings /\ s.cout \in Nat /\ s.received \in Nat /\ s.starts \in Nat
         /\ s.exit \in Nat \cup {None} /\ s.ccon \in 0..MaxConns
         /\ RingEnd(s.ring) \in Nat /\ s.ring.start \in Nat
         /\ s.live \in BOOLEAN /\ s.open \in BOOLEAN /\ s.done \in BOOLEAN /\ s.told \in BOOLEAN
         /\ s.reaped \in BOOLEAN /\ s.csent \in BOOLEAN
<1>1. s.ring \in Rings
  BY DEF Sessions
<1> QED  BY <1>1, RingEndIs DEF Sessions

\* The frames the agent owes: one for dropped bytes, one chunk, one exit.
OwedChunk == ReadFrom(ses.ring, ses.cout, Chunk)
OwedGaps  == IF ses.cout < RingEnd(ses.ring) /\ OwedChunk.from > ses.cout THEN <<Gap(OwedChunk.from)>> ELSE <<>>
OwedBytes == IF ses.cout < RingEnd(ses.ring) /\ OwedChunk.data # <<>>
             THEN <<Output(OwedChunk.from, OwedChunk.data)>> ELSE <<>>
OwedExit  == IF NextFrames.exits THEN <<Exit(ses.exit)>> ELSE <<>>

LEMMA NextFramesAre ==
  ASSUME ses \in Sessions
  PROVE  /\ NextFrames.frames = (OwedGaps \o OwedBytes) \o OwedExit
         /\ NextFrames.next = IF ses.cout < RingEnd(ses.ring) THEN OwedChunk.from + Len(OwedChunk.data) ELSE ses.cout
         /\ NextFrames.exits = (ses.exit # None /\ NextFrames.next >= ses.exit /\ ~ses.csent)
         /\ OwedChunk.from \in Nat /\ OwedChunk.data \in Seq(Nat) /\ Len(OwedChunk.data) \in Nat
         /\ Numbered(OwedChunk.from, OwedChunk.data)
         /\ OwedChunk.from = Smaller(Larger(ses.cout, ses.ring.start), RingEnd(ses.ring))
         /\ OwedChunk.from + Len(OwedChunk.data) <= RingEnd(ses.ring)
         /\ NextFrames.next \in Nat
<1>0. ses.ring \in Rings /\ ses.cout \in Nat /\ Chunk \in Nat \ {0}
  BY SessionFields, ConstantsFit
<1>1. /\ OwedChunk.from \in Nat /\ OwedChunk.data \in Seq(Nat)
      /\ Numbered(OwedChunk.from, OwedChunk.data)
      /\ OwedChunk.from = Smaller(Larger(ses.cout, ses.ring.start), RingEnd(ses.ring))
      /\ OwedChunk.from + Len(OwedChunk.data) <= RingEnd(ses.ring)
  BY <1>0, ReadFromIs DEF OwedChunk
<1>2. Len(OwedChunk.data) \in Nat
  BY <1>1, LenProperties
<1>3. /\ NextFrames.next = IF ses.cout < RingEnd(ses.ring) THEN OwedChunk.from + Len(OwedChunk.data) ELSE ses.cout
      /\ NextFrames.exits = (ses.exit # None /\ NextFrames.next >= ses.exit /\ ~ses.csent)
  BY DEF NextFrames, OwedChunk
<1>4. NextFrames.frames = OwedGaps \o OwedBytes \o OwedExit
  BY DEF NextFrames, OwedGaps, OwedBytes, OwedExit, OwedChunk
<1>5. NextFrames.next \in Nat
  BY <1>0, <1>1, <1>2, <1>3
<1> QED  BY <1>1, <1>2, <1>3, <1>4, <1>5

\* All of them are in F when each of them is.
LEMMA NextFramesIn ==
  ASSUME ses \in Sessions, NEW F,
         OwedChunk.from <= RingEnd(ses.ring) => Gap(OwedChunk.from) \in F,
         Output(OwedChunk.from, OwedChunk.data) \in F,
         ses.exit # None => Exit(ses.exit) \in F
  PROVE  NextFrames.frames \in Seq(F)
<1>0. OwedChunk.from <= RingEnd(ses.ring)
  <2>1. /\ OwedChunk.from \in Nat /\ Len(OwedChunk.data) \in Nat
        /\ OwedChunk.from + Len(OwedChunk.data) <= RingEnd(ses.ring) /\ RingEnd(ses.ring) \in Nat
    BY NextFramesAre, SessionFields
  <2> QED  BY <2>1
<1>1. OwedGaps \in Seq(F)
  BY <1>0, EmptySeq DEF OwedGaps
<1>2. OwedBytes \in Seq(F)
  BY EmptySeq DEF OwedBytes
<1>3. NextFrames.exits => ses.exit # None
  BY NextFramesAre
<1>4. OwedExit \in Seq(F)
  BY <1>3, EmptySeq DEF OwedExit
<1>5. OwedGaps \o OwedBytes \in Seq(F)
  BY <1>1, <1>2, ConcatProperties
<1>6. (OwedGaps \o OwedBytes) \o OwedExit \in Seq(F)
  BY <1>4, <1>5, ConcatProperties
<1> QED  BY <1>6, NextFramesAre

LEMMA RepliesAre ==
  /\ \A known \in BOOLEAN, n \in Nat : Welcome(known, n) \in Replies
  /\ \A op \in Ops, ok \in BOOLEAN : Response(op, ok) \in Replies
  /\ Replies \subseteq AgentFrames
  BY DEF Welcome, Response, Replies, AgentFrames

\* A request the agent reads.
LEMMA RequestTaken ==
  ASSUME NEW O, NEW B, NEW n, h2a \in [Conns -> Seq(HostFrames(O, B, n))],
         NEW c \in Conns, h2a[c] # <<>>, Head(h2a[c]).k = "request"
  PROVE  Head(h2a[c]).op \in O
  BY TailIs, HostFrameKinds

LEMMA ClientStep == ASSUME LinkBase, [Next]_vars PROVE client' \in Clients
<1>0. /\ client \in Clients /\ ses.live \in BOOLEAN /\ ses.received \in Nat
      /\ h2a \in [Conns -> Seq(HostFrames(Ops, BOOLEAN, RingEnd(pipe.ring)))]
  BY SessionFields DEF LinkBase, RemoteTypeOK, AgentTypes, WireTypes
<1>1. client.outbox \in Seq(Replies)
  BY <1>0 DEF Clients
<1>2. \A r \in Replies : Append(client.outbox, r) \in Seq(Replies)
  BY <1>1, AppendProperties
<1>3. \A op \in Ops, ok \in BOOLEAN : Append(client.outbox, Response(op, ok)) \in Seq(Replies)
  BY <1>2, RepliesAre
<1>4. "spawn" \in Ops
  BY DEF Ops
<1>5. CASE EndSpawn \/ RefuseSpawn
  <2>1. \E ok \in BOOLEAN :
          client' = [client EXCEPT !.spawning = 0, !.outbox = Append(client.outbox, Response("spawn", ok))]
    BY <1>0, <1>5 DEF EndSpawn, RefuseSpawn, Clients
  <2> QED  BY <1>0, <1>3, <1>4, <2>1, ConnsAre DEF Clients
<1>6. ASSUME NEW c \in Conns, Introduce(c) PROVE client' \in Clients
  <2>1. Welcome(ses.live, ses.received) \in Replies
    BY <1>0, RepliesAre
  <2>2. client' = [client EXCEPT !.cur = c, !.outbox = <<Welcome(ses.live, ses.received)>>]
    BY <1>6 DEF Introduce
  <2>3. <<Welcome(ses.live, ses.received)>> \in Seq(Replies)
    BY <2>1
  <2> QED  BY <1>0, <2>2, <2>3, ConnsAre DEF Clients
<1>7. ASSUME NEW c \in Conns, ReadLoop(c) PROVE client' \in Clients
  <2>1. CASE client' = client
    BY <1>0, <2>1
  <2>2. CASE Head(h2a[c]).k = "request" /\ Handle(Head(h2a[c]).op)
    <3>1. Head(h2a[c]).op \in Ops
      BY <1>0, <1>7, <2>2, RequestTaken DEF ReadLoop
    <3>2. client' = [client EXCEPT !.outbox = Append(client.outbox, Response(Head(h2a[c]).op, TRUE))]
      BY <1>0, <2>2 DEF Handle, Clients
    <3> QED  BY <1>0, <1>3, <3>1, <3>2 DEF Clients
  <2> QED  BY <1>7, <2>1, <2>2 DEF ReadLoop
<1>8. ASSUME NEW c \in Conns, BeginSpawn(c) PROVE client' \in Clients
  <2>1. \/ client' = [client EXCEPT !.outbox = Append(client.outbox, Response("spawn", TRUE))]
        \/ client' = [client EXCEPT !.spawning = c]
    BY <1>0, <1>8 DEF BeginSpawn, Clients
  <2> QED  BY <1>0, <1>3, <1>4, <2>1, ConnsAre DEF Clients
<1>9. ASSUME NEW c \in Conns, ServeEnds(c) \/ Flush(c) PROVE client' \in Clients
  <2>1. \/ client' = client
        \/ client' = [client EXCEPT !.cur = 0, !.outbox = <<>>]
        \/ client' = [client EXCEPT !.outbox = <<>>]
    BY <1>9 DEF ServeEnds, Flush
  <2>2. <<>> \in Seq(Replies)
    BY EmptySeq
  <2> QED  BY <1>0, <2>1, <2>2, ConnsAre DEF Clients
<1> QED  BY <1>0, <1>5, <1>6, <1>7, <1>8, <1>9, Changes

LEMMA CurrentStep == ASSUME LinkBase, [Next]_vars PROVE CurrentIsKnown'
<1>0. /\ client \in Clients /\ CurrentIsKnown
      /\ aconn \in [Conns -> {"none", "open", "serving", "ended"}]
  BY DEF LinkBase, RemoteTypeOK, AgentTypes
<1>1. client.cur \in 0..MaxConns
  BY <1>0 DEF Clients
<1>2. client.cur # 0 => client.cur \in Conns
  BY <1>1, ConstantsFit DEF Conns
<1>3. client'.cur \in {client.cur, 0} \/ \E c \in Conns : Introduce(c)
  <2>1. ASSUME \/ \E x, y : client' = [client EXCEPT !.spawning = x, !.outbox = y]
               \/ \E y : client' = [client EXCEPT !.outbox = y]
               \/ \E x : client' = [client EXCEPT !.spawning = x]
        PROVE  client'.cur = client.cur
    BY <1>0, <2>1 DEF Clients
  <2>2. CASE EndSpawn \/ RefuseSpawn
    BY <2>1, <2>2 DEF EndSpawn, RefuseSpawn
  <2>3. CASE \E c \in Conns : ReadLoop(c)
    BY <2>1, <2>3 DEF ReadLoop, Handle
  <2>4. CASE \E c \in Conns : BeginSpawn(c) \/ Flush(c)
    BY <2>1, <2>4 DEF BeginSpawn, Flush
  <2>5. CASE \E c \in Conns : ServeEnds(c)
    BY <1>0, <2>5 DEF ServeEnds, Clients
  <2> QED  BY <2>2, <2>3, <2>4, <2>5, Changes
<1>4. ASSUME NEW c \in Conns, Introduce(c) PROVE CurrentIsKnown'
  <2>1. client'.cur = c /\ aconn'[c] = "open"
    BY <1>0, <1>4 DEF Introduce, Clients
  <2> QED  BY <2>1 DEF CurrentIsKnown
<1>5. CASE client'.cur \in {client.cur, 0}
  BY <1>0, <1>2, <1>5, ConnectionsStep DEF CurrentIsKnown
<1> QED  BY <1>3, <1>4, <1>5

\* What a step makes of the session, besides starting it.
LEMMA SettledIs ==
  ASSUME NEW s \in Sessions
  PROVE  /\ Settled(s) \in Sessions /\ Settled(s).starts = s.starts /\ Settled(s).live = s.live
         /\ Settled(s).received = s.received /\ Settled(s).ring = s.ring /\ Settled(s).done = s.done
         /\ Settled(s).cout = s.cout /\ Settled(s).ccon = s.ccon
         /\ Settled(s).exit = s.exit \/ (Settled(s).exit = RingEnd(s.ring) /\ s.done)
<1>1. RingEnd(s.ring) \in Nat
  BY SessionFields
<1>2. Settled(s) = s \/ (Settled(s) = [s EXCEPT !.exit = RingEnd(s.ring)] /\ s.done)
  BY DEF Settled
<1> QED  BY <1>1, <1>2 DEF Sessions

LEMMA TerminatedIs ==
  ASSUME NEW s \in Sessions
  PROVE  LET t == Terminated(s) IN
         /\ t \in Sessions /\ [t EXCEPT !.live = FALSE] \in Sessions
         /\ [t EXCEPT !.live = FALSE].starts = s.starts /\ [t EXCEPT !.live = FALSE].live = FALSE
         /\ [t EXCEPT !.live = FALSE].received = s.received /\ [t EXCEPT !.live = FALSE].ring = s.ring
         /\ [t EXCEPT !.live = FALSE].done = s.done /\ [t EXCEPT !.live = FALSE].cout = s.cout
         /\ [t EXCEPT !.live = FALSE].ccon = s.ccon /\ [t EXCEPT !.live = FALSE].exit = s.exit
         /\ t.starts = s.starts /\ t.live = s.live /\ t.received = s.received /\ t.ring = s.ring
         /\ t.done = s.done /\ t.cout = s.cout /\ t.ccon = s.ccon /\ t.exit = s.exit
<1>1. Terminated(s) = s \/ Terminated(s) = [s EXCEPT !.told = TRUE, !.open = FALSE]
  BY DEF Terminated
<1> QED  BY <1>1 DEF Sessions

\* The session keeps its process, its output and its input.
SessionKept ==
  /\ ses' \in Sessions /\ ses'.starts = ses.starts /\ ses'.received = ses.received
  /\ ses'.ring = ses.ring /\ ses'.done = ses.done /\ ses'.exit = ses.exit
  /\ ses'.live => ses.live

LEMMA HandleKeeps ==
  ASSUME ses \in Sessions, NEW op, Handle(op) PROVE SessionKept /\ ses'.cout = ses.cout /\ ses'.ccon = ses.ccon
<1>1. \/ ses' = ses \/ ses' = [ses EXCEPT !.open = FALSE] \/ ses' = [ses EXCEPT !.told = TRUE]
      \/ ses' = [Terminated(ses) EXCEPT !.live = FALSE]
  BY DEF Handle
<1>2. CASE ses' = ses \/ ses' = [ses EXCEPT !.open = FALSE] \/ ses' = [ses EXCEPT !.told = TRUE]
  BY <1>2 DEF Sessions, SessionKept
<1>3. CASE ses' = [Terminated(ses) EXCEPT !.live = FALSE]
  BY <1>3, TerminatedIs DEF SessionKept
<1> QED  BY <1>1, <1>2, <1>3

\* Input moves the session's input position, up to where the frame ends.
LEMMA TakeInputIs ==
  ASSUME ses \in Sessions, fed \in Seq(Nat),
         NEW f, f.from \in Nat, f.data \in Seq(Nat), Numbered(f.from, f.data), TakeInput(f)
  PROVE  /\ ses' \in Sessions /\ fed' \in Seq(Nat)
         /\ ses'.starts = ses.starts /\ ses'.ring = ses.ring /\ ses'.done = ses.done /\ ses'.exit = ses.exit
         /\ ses'.live = ses.live /\ ses'.cout = ses.cout /\ ses'.ccon = ses.ccon
         /\ \/ fed' = fed /\ ses.received <= ses'.received
            \/ \E new \in Seq(Nat), at \in Nat :
                 /\ fed' = fed \o new /\ Numbered(at, new)
                 /\ ses.received <= at /\ at + Len(new) = ses'.received
<1> DEFINE end == f.from + Len(f.data)
           k   == Larger(ses.received - f.from, 0)
           new == SubSeq(f.data, k + 1, Len(f.data))
<1>1. ses.received \in Nat /\ Len(f.data) \in Nat /\ end \in Nat
  BY SessionFields, LenProperties
<1>2. CASE ~ses.live \/ end <= ses.received
  <2>1. UNCHANGED <<ses, fed>>
    BY <1>2 DEF TakeInput
  <2> QED  BY <1>1, <2>1
<1>3. CASE ~(~ses.live \/ end <= ses.received)
  <2>1. ses' = [ses EXCEPT !.received = end] /\ fed' = IF ses.open THEN fed \o new ELSE fed
    BY <1>3 DEF TakeInput
  <2>2. k \in Nat /\ k <= Len(f.data) /\ ses.received <= f.from + k /\ f.from + k \in Nat
    BY <1>1, <1>3 DEF Larger
  <2> HIDE DEF k
  <2>3. Len(f.data) <= Len(f.data) /\ f.from \in Int
    BY <1>1
  <2>4. new \in Seq(Nat) /\ Len(new) = IF k <= Len(f.data) THEN Len(f.data) - k ELSE 0
    BY <1>1, <2>2, <2>3, NumberedPart
  <2>5. Numbered(f.from + k, new)
    BY <1>1, <2>2, <2>3, NumberedPart
  <2> HIDE DEF new
  <2>6. (f.from + k) + Len(new) = end
    BY <1>1, <2>2, <2>4
  <2>7. fed \o new \in Seq(Nat)
    BY <2>4, ConcatProperties
  <2>8. ses.received <= end
    BY <1>1, <1>3
  <2> HIDE DEF end
  <2>9. /\ ses' \in Sessions /\ ses'.received = end
        /\ ses'.starts = ses.starts /\ ses'.ring = ses.ring /\ ses'.done = ses.done /\ ses'.exit = ses.exit
        /\ ses'.live = ses.live /\ ses'.cout = ses.cout /\ ses'.ccon = ses.ccon
    BY <1>1, <2>1 DEF Sessions
  <2> QED  BY <2>1, <2>2, <2>4, <2>5, <2>6, <2>7, <2>8, <2>9
<1> QED  BY <1>2, <1>3

LEMMA ResumedIs ==
  ASSUME ses \in Sessions, NEW c \in Conns, NEW at \in Nat \cup {None}
  PROVE  LET s == Resumed(c, at) IN
         /\ s \in Sessions /\ s.starts = ses.starts /\ s.received = ses.received /\ s.ring = ses.ring
         /\ s.done = ses.done /\ s.exit = ses.exit /\ s.live = ses.live /\ s.ccon = c
         /\ s.cout = IF at = None THEN ses.ring.start ELSE at
<1> DEFINE cout == IF at = None THEN ses.ring.start ELSE at
<1>1. cout \in Nat /\ c \in 0..MaxConns
  BY SessionFields, ConnsAre
<1>2. Resumed(c, at) = [ses EXCEPT !.ccon = c, !.csent = FALSE, !.cout = cout]
  BY DEF Resumed
<1> HIDE DEF cout
<1>3. LET s == Resumed(c, at) IN
         /\ s \in Sessions /\ s.starts = ses.starts /\ s.received = ses.received /\ s.ring = ses.ring
         /\ s.done = ses.done /\ s.exit = ses.exit /\ s.live = ses.live /\ s.ccon = c /\ s.cout = cout
  BY <1>1, <1>2 DEF Sessions
<1> QED  BY <1>3 DEF cout

\* The hello introduce takes.
LEMMA HelloTaken ==
  ASSUME LinkBase, NEW c \in Conns, Introduce(c)
  PROVE  /\ Head(h2a[c]).at \in Nat \cup {None} /\ client.cur # c
         /\ Head(h2a[c]).at # None => Head(h2a[c]).at <= RingEnd(pipe.ring)
         /\ h2a[c] # <<>> /\ Head(h2a[c]) = Hello(Head(h2a[c]).at)
<1>1. h2a \in [Conns -> Seq(HostFrames(Ops, BOOLEAN, RingEnd(pipe.ring)))] /\ RingEnd(pipe.ring) \in Nat
  BY PipeFields DEF LinkBase, RemoteTypeOK, WireTypes, HostTypes
<1>2. h2a[c] # <<>> /\ Head(h2a[c]).k = "hello"
  BY DEF Introduce
<1>3. Head(h2a[c]) \in Hellos(RingEnd(pipe.ring)) /\ Head(h2a[c]).at \in {None} \cup (0..RingEnd(pipe.ring))
  BY <1>1, <1>2, TailIs, HostFrameKinds
<1>4. Head(h2a[c]) = Hello(Head(h2a[c]).at)
  BY <1>3 DEF Hellos, Hello
<1>5. client.cur # c
  BY ConnsAre DEF Introduce, LinkBase, CurrentIsKnown
<1> QED  BY <1>1, <1>2, <1>3, <1>4, <1>5

LEMMA IntroduceKeeps ==
  ASSUME LinkBase, NEW c \in Conns, Introduce(c)
  PROVE  SessionKept /\ fed' = fed /\ ses'.live = ses.live
<1>0. ses \in Sessions
  BY DEF LinkBase, RemoteTypeOK, AgentTypes
<1>1. Head(h2a[c]).at \in Nat \cup {None}
  BY HelloTaken
<1>2. fed' = fed /\ ses' = IF ses.live THEN Resumed(c, Head(h2a[c]).at) ELSE ses
  BY DEF Introduce
<1> DEFINE s == Resumed(c, Head(h2a[c]).at)
<1>3. /\ s \in Sessions /\ s.starts = ses.starts /\ s.received = ses.received /\ s.ring = ses.ring
      /\ s.done = ses.done /\ s.exit = ses.exit /\ s.live = ses.live
  BY <1>0, <1>1, ResumedIs
<1>4. ses' = ses \/ ses' = s
  BY <1>2
<1> HIDE DEF s
<1> QED  BY <1>0, <1>2, <1>3, <1>4 DEF SessionKept

LEMMA SendFramesKeeps ==
  ASSUME LinkBase, NEW c, SendFrames(c)
  PROVE  /\ SessionKept /\ fed' = fed /\ ses'.live = ses.live
         /\ ses'.ccon = ses.ccon /\ ses'.cout = NextFrames.next
<1>0. ses \in Sessions /\ NextFrames.next \in Nat /\ NextFrames.exits \in BOOLEAN
  BY NextFramesAre DEF LinkBase, RemoteTypeOK, AgentTypes
<1>1. ses' = [ses EXCEPT !.cout = NextFrames.next, !.csent = ses.csent \/ NextFrames.exits] /\ fed' = fed
  BY <1>0 DEF SendFrames, Sessions
<1>2. ses.csent \/ NextFrames.exits \in BOOLEAN
  BY <1>0, SessionFields
<1> QED  BY <1>0, <1>1, <1>2 DEF Sessions, SessionKept

\* One more burst of output.
LEMMA RecordOutputIs ==
  ASSUME ses \in Sessions, RecordOutput
  PROVE  /\ ses' \in Sessions /\ ses'.starts = ses.starts /\ ses'.received = ses.received
         /\ RingEnd(ses'.ring) = RingEnd(ses.ring) + Burst /\ ses'.done = ses.done /\ ses'.exit = ses.exit
         /\ ses'.live = ses.live /\ ses'.cout = ses.cout /\ ses'.ccon = ses.ccon /\ fed' = fed
<1> DEFINE end  == RingEnd(ses.ring)
           data == [i \in 1..Burst |-> end + i]
           ring == RingPush(ses.ring, data, RingCap)
<1>1. ses.ring \in Rings /\ end \in Nat /\ Burst \in Nat /\ RingCap \in Nat
  BY SessionFields, ConstantsFit
<1>2. data \in Seq(Nat) /\ Len(data) = Burst /\ Numbered(end, data)
  <2> HIDE DEF end
  <2>1. \A i \in 1..Burst : end + i \in Nat
    BY <1>1
  <2>2. data \in Seq(Nat)
    BY <1>1, <2>1
  <2>3. Len(data) = Burst
    BY <1>1
  <2> QED  BY <2>2, <2>3 DEF Numbered
<1> HIDE DEF data
<1>3. ring \in Rings /\ RingEnd(ring) = end + Burst
  BY <1>1, <1>2, RingPushIs
<1>4. ses' = [ses EXCEPT !.ring = ring] /\ fed' = fed
  BY DEF RecordOutput, Sessions, data
<1> HIDE DEF ring
<1>5. /\ ses' \in Sessions /\ ses'.starts = ses.starts /\ ses'.received = ses.received
      /\ ses'.ring = ring /\ ses'.done = ses.done /\ ses'.exit = ses.exit
      /\ ses'.live = ses.live /\ ses'.cout = ses.cout /\ ses'.ccon = ses.ccon
  BY <1>3, <1>4 DEF Sessions
<1> QED  BY <1>3, <1>4, <1>5

\* End of file, or the end of the process: the session may have its end now.
LEMMA SettlingIs ==
  ASSUME ses \in Sessions, StreamDone \/ Reaped
  PROVE  /\ ses' \in Sessions /\ ses'.starts = ses.starts /\ ses'.received = ses.received
         /\ ses'.ring = ses.ring /\ ses'.done = (ses.done \/ StreamDone)
         /\ ses'.exit = ses.exit \/ (ses'.exit = RingEnd(ses.ring) /\ ses'.done)
         /\ ses'.live = ses.live /\ ses'.cout = ses.cout /\ ses'.ccon = ses.ccon /\ fed' = fed
<1>1. CASE StreamDone
  <2> DEFINE s == [ses EXCEPT !.done = TRUE]
  <2>1. /\ s \in Sessions /\ s.starts = ses.starts /\ s.received = ses.received /\ s.ring = ses.ring
        /\ s.done = TRUE /\ s.exit = ses.exit /\ s.live = ses.live /\ s.cout = ses.cout /\ s.ccon = ses.ccon
    BY DEF Sessions
  <2>2. ses' = Settled(s) /\ fed' = fed
    BY <1>1 DEF StreamDone
  <2> HIDE DEF s
  <2> QED  BY <1>1, <2>1, <2>2, SettledIs
<1>2. CASE Reaped /\ ~StreamDone
  <2> DEFINE s == [ses EXCEPT !.reaped = TRUE]
  <2>1. /\ s \in Sessions /\ s.starts = ses.starts /\ s.received = ses.received /\ s.ring = ses.ring
        /\ s.done = ses.done /\ s.exit = ses.exit /\ s.live = ses.live /\ s.cout = ses.cout /\ s.ccon = ses.ccon
    BY DEF Sessions
  <2>2. ses' = Settled(s) /\ fed' = fed
    BY <1>2 DEF Reaped
  <2> HIDE DEF s
  <2>3. ses.done \in BOOLEAN
    BY SessionFields
  <2> QED  BY <1>2, <2>1, <2>2, <2>3, SettledIs
<1> QED  BY <1>1, <1>2

\* A new process.
LEMMA EndSpawnIs ==
  ASSUME ses \in Sessions, client \in Clients, EndSpawn
  PROVE  /\ ses' \in Sessions /\ ses'.starts = ses.starts + 1 /\ ses'.received = 0 /\ fed' = <<>>
         /\ ses'.ring = EmptyRing /\ ses'.done = FALSE /\ ses'.exit = None /\ ses'.live = TRUE
         /\ ses'.cout = 0 /\ ses'.ccon = client.cur
<1>1. ses.starts + 1 \in Nat /\ EmptyRing \in Rings /\ client.cur \in 0..MaxConns
  BY SessionFields, EmptyRingIs DEF Clients
<1>2. /\ ses' = [ses EXCEPT !.live = TRUE, !.starts = ses.starts + 1, !.ring = EmptyRing, !.done = FALSE,
                        !.reaped = FALSE, !.told = FALSE, !.exit = None, !.ccon = client.cur,
                        !.cout = 0, !.csent = FALSE, !.received = 0, !.open = TRUE]
      /\ fed' = <<>>
  BY DEF EndSpawn, Sessions
<1> QED  BY <1>1, <1>2 DEF Sessions

\* What a step may make of the session and of the input it was given.
SessionMoves ==
  \/ SessionKept /\ fed' = fed
  \/ EndSpawn \/ RecordOutput \/ StreamDone \/ Reaped
  \/ \E c \in Conns : /\ ReadLoop(c) /\ Head(h2a[c]).k = "input" /\ TakeInput(Head(h2a[c]))

LEMMA InputTaken ==
  ASSUME LinkBase, NEW c \in Conns, ReadLoop(c), Head(h2a[c]).k = "input"
  PROVE  LET f == Head(h2a[c]) IN f.from \in Nat /\ f.data \in Seq(Nat) /\ Numbered(f.from, f.data)
<1>1. h2a \in [Conns -> Seq(HostFrames(Ops, BOOLEAN, RingEnd(pipe.ring)))]
  BY DEF LinkBase, RemoteTypeOK, WireTypes
<1> QED  BY <1>1, TailIs, HostFrameKinds DEF ReadLoop

LEMMA SessionMovesOnly == ASSUME LinkBase, [Next]_vars PROVE SessionMoves
<1>0. ses \in Sessions
  BY DEF LinkBase, RemoteTypeOK, AgentTypes
<1>1. CASE ses' = ses /\ fed' = fed
  BY <1>0, <1>1 DEF SessionMoves, SessionKept
<1>2. ASSUME NEW c \in Conns, Introduce(c) PROVE SessionMoves
  BY <1>2, IntroduceKeeps DEF SessionMoves
<1>3. ASSUME NEW c \in Conns, SendFrames(c) PROVE SessionMoves
  BY <1>3, SendFramesKeeps DEF SessionMoves
<1>4. ASSUME NEW c \in Conns, ReadLoop(c) PROVE SessionMoves
  <2>1. CASE Head(h2a[c]).k = "input"
    BY <1>4, <2>1 DEF ReadLoop, SessionMoves
  <2>2. CASE Head(h2a[c]).k = "request"
    BY <1>0, <1>4, <2>2, HandleKeeps DEF ReadLoop, SessionMoves
  <2>3. CASE Head(h2a[c]).k = "bye"
    <3>1. fed' = fed /\ (ses' = ses \/ ses' = [Terminated(ses) EXCEPT !.live = FALSE])
      BY <1>4, <2>3 DEF ReadLoop
    <3>2. CASE ses' = [Terminated(ses) EXCEPT !.live = FALSE]
      BY <1>0, <3>1, <3>2, TerminatedIs DEF SessionMoves, SessionKept
    <3> QED  BY <1>1, <3>1, <3>2
  <2> QED  BY <1>4, <2>1, <2>2, <2>3 DEF ReadLoop
<1>5. CASE Reclaim
  <2>1. fed' = fed /\ ses' = Terminated(ses)
    BY <1>5 DEF Reclaim
  <2> QED  BY <1>0, <2>1, TerminatedIs DEF SessionMoves, SessionKept
<1>6. CASE Forget
  <2>1. fed' = fed /\ ses' = [ses EXCEPT !.live = FALSE]
    BY <1>6 DEF Forget
  <2> QED  BY <1>0, <2>1 DEF SessionMoves, SessionKept, Sessions
<1>7. CASE EndSpawn \/ RecordOutput \/ StreamDone \/ Reaped
  BY <1>7 DEF SessionMoves
<1>8. (fed' = fed /\ ses' = ses) \/ EndSpawn \/ RecordOutput \/ StreamDone \/ Reaped \/ Reclaim \/ Forget
      \/ \E c \in Conns : Introduce(c) \/ ReadLoop(c) \/ SendFrames(c)
  BY Changes
<1> QED  BY <1>1, <1>2, <1>3, <1>4, <1>5, <1>6, <1>7, <1>8

LEMMA SessionStep == ASSUME LinkBase, [Next]_vars PROVE ses' \in Sessions /\ fed' \in Seq(Nat)
<1>0. ses \in Sessions /\ client \in Clients /\ fed \in Seq(Nat) /\ <<>> \in Seq(Nat)
  BY EmptySeq DEF LinkBase, RemoteTypeOK, AgentTypes, ObserverTypes
<1>1. CASE SessionKept /\ fed' = fed
  BY <1>0, <1>1 DEF SessionKept
<1>2. CASE EndSpawn
  BY <1>0, <1>2, EndSpawnIs
<1>3. CASE RecordOutput
  BY <1>0, <1>3, RecordOutputIs
<1>4. CASE StreamDone \/ Reaped
  BY <1>0, <1>4, SettlingIs
<1>5. ASSUME NEW c \in Conns, ReadLoop(c), Head(h2a[c]).k = "input", TakeInput(Head(h2a[c]))
      PROVE  ses' \in Sessions /\ fed' \in Seq(Nat)
  BY <1>0, <1>5, InputTaken, TakeInputIs
<1> QED  BY <1>1, <1>2, <1>3, <1>4, <1>5, SessionMovesOnly DEF SessionMoves

LEMMA UpStep == ASSUME LinkBase, [Next]_vars PROVE up' \in [Conns -> BOOLEAN] /\ a2h' \in [Conns -> Seq(AgentFrames)]
<1>0. /\ up \in [Conns -> BOOLEAN] /\ a2h \in [Conns -> Seq(AgentFrames)]
      /\ h2a \in [Conns -> Seq(HostFrames(Ops, BOOLEAN, RingEnd(pipe.ring)))]
      /\ client.outbox \in Seq(AgentFrames) /\ ses \in Sessions
  BY RepliesAre, SeqMonotonic DEF LinkBase, RemoteTypeOK, WireTypes, AgentTypes, Clients
<1>1. ASSUME NEW c \in Conns, ConnectionLost(c) \/ Closer(c) \/ Break(c) \/ Introduce(c)
      PROVE  up' \in [Conns -> BOOLEAN] /\ a2h' \in [Conns -> Seq(AgentFrames)]
  <2>1. CASE Introduce(c)
    BY <1>0, <2>1, HelloTaken, IntroduceIs
  <2>2. CASE Cut(c)
    BY <1>0, <2>2, CutIs
  <2> QED  BY <1>1, <2>1, <2>2 DEF ConnectionLost, Closer, Break
<1>2. CASE Launch
  BY <1>0, <1>2 DEF Launch
<1>3. ASSUME NEW c \in Conns, Install(c) \/ ReadLoop(c) PROVE up' \in [Conns -> BOOLEAN]
  <2>1. up' = up \/ up' = [up EXCEPT ![c] = FALSE]
    BY <1>3 DEF Install, ReadLoop
  <2> QED  BY <1>0, <2>1
<1>4. ASSUME NEW c \in Conns, Install(c) \/ Dispatch(c) PROVE a2h' \in [Conns -> Seq(AgentFrames)]
  <2>1. a2h[c] # <<>> /\ a2h' = [a2h EXCEPT ![c] = Tail(@)]
    BY <1>4 DEF Install, Dispatch
  <2> QED  BY <1>0, <2>1, TailIs
<1>5. NextFrames.frames \in Seq(AgentFrames)
  <2>1. OwedChunk.from <= RingEnd(ses.ring) => Gap(OwedChunk.from) \in AgentFrames
    BY <1>0, NextFramesAre DEF Gap, AgentFrames
  <2>2. Output(OwedChunk.from, OwedChunk.data) \in AgentFrames
    BY <1>0, NextFramesAre DEF Output, Outputs, AgentFrames
  <2>3. ses.exit # None => Exit(ses.exit) \in AgentFrames
    BY <1>0, SessionFields DEF Exit, AgentFrames
  <2> QED  BY <1>0, <2>1, <2>2, <2>3, NextFramesIn
<1>6. ASSUME NEW c \in Conns, Flush(c) \/ SendFrames(c) PROVE a2h' \in [Conns -> Seq(AgentFrames)]
  <2>1. \E s \in Seq(AgentFrames) : a2h' = [a2h EXCEPT ![c] = a2h[c] \o s]
    BY <1>0, <1>5, <1>6 DEF Flush, SendFrames
  <2>2. \A s \in Seq(AgentFrames) : a2h[c] \o s \in Seq(AgentFrames)
    BY <1>0, ConcatProperties
  <2> QED  BY <1>0, <2>1, <2>2
<1> QED  BY <1>0, <1>1, <1>2, <1>3, <1>4, <1>6, Changes

LEMMA WroteStep == ASSUME LinkBase, [Next]_vars PROVE wrote' \in [n : Nat, done : BOOLEAN]
<1>0. wrote \in [n : Nat, done : BOOLEAN] /\ Burst \in Nat
  BY ConstantsFit DEF LinkBase, RemoteTypeOK, ObserverTypes
<1>1. CASE RecordOutput
  BY <1>0, <1>1 DEF RecordOutput
<1>2. CASE StreamDone
  BY <1>0, <1>2 DEF StreamDone
<1> QED  BY <1>0, <1>1, <1>2, Changes

\* A host that overslept stays one; another step oversleeps only by forgetting.
LEMMA OversleptStep ==
  ASSUME LinkBase, [Next]_vars
  PROVE  /\ overslept' \in BOOLEAN
         /\ overslept => overslept'
         /\ ~overslept' => ~(Forget /\ SpawnUnderWay)
<1>0. overslept \in BOOLEAN
  BY DEF LinkBase, RemoteTypeOK, ObserverTypes
<1>1. CASE Next
  BY <1>0, <1>1 DEF Next
<1>2. CASE UNCHANGED vars
  <2>1. overslept' = overslept /\ ses' = ses
    BY <1>2 DEF vars
  <2>2. Forget => ses.live /\ ses' = [ses EXCEPT !.live = FALSE]
    BY DEF Forget
  <2>3. ses \in Sessions
    BY DEF LinkBase, RemoteTypeOK, AgentTypes
  <2>4. ~Forget
    BY <2>1, <2>2, <2>3 DEF Sessions
  <2> QED  BY <1>0, <2>1, <2>4
<1> QED  BY <1>1, <1>2

LEMMA LinkBaseInit == Init => LinkBase
<1> SUFFICES ASSUME Init PROVE LinkBase
  OBVIOUS
<1>0. EmptyRing \in Rings /\ 0 \in 0..MaxConns /\ \A S : <<>> \in Seq(S)
  BY EmptyRingIs, ConnsAre, EmptySeq
<1>1. Numbered(0, <<>>)
  BY EmptySeq DEF Numbered
<1>2. link \in Links
  BY <1>0 DEF Init, Links
<1>3. pipe \in Pipes
  BY <1>0 DEF Init, Pipes
<1>4. inp \in InputBuffers
  BY <1>0, <1>1 DEF Init, InputBuffers
<1>5. user \in Users
  BY <1>0 DEF Init, Users
<1>6. pend \in Seq(PendingFor(Ops)) /\ sup \in [pc : {"idle", "resend"}, frames : Seq(RequestsOf(Ops))]
  BY <1>0 DEF Init
<1>7. /\ hconn \in [Conns -> {"none", "hello", "reader", "done"}]
      /\ aconn \in [Conns -> {"none", "open", "serving", "ended"}]
  BY DEF Init
<1>8. client \in Clients
  BY <1>0 DEF Init, Clients
<1>9. ses \in Sessions
  BY <1>0 DEF Init, Sessions
<1>10. WireTypes
  BY <1>0 DEF Init, WireTypes
<1>11. ObserverTypes
  BY <1>0 DEF Init, ObserverTypes
<1>12. scope \in Scopes /\ CurrentIsKnown
  BY DEF Init, CurrentIsKnown
<1> QED  BY <1>2, <1>3, <1>4, <1>5, <1>6, <1>7, <1>8, <1>9, <1>10, <1>11, <1>12
         DEF LinkBase, RemoteTypeOK, HostTypes, AgentTypes

\* What was asked for before a step is still true of a longer ring.
LEMMA AskedFits ==
  ASSUME NEW O \in SUBSET Ops, NEW P \in SUBSET Ops, NEW B \in SUBSET BOOLEAN, NEW C \in SUBSET BOOLEAN,
         NEW m \in Nat, NEW n \in Nat, O \subseteq P, B \subseteq C, m <= n, Asked(O, B, m)
  PROVE  Asked(P, C, n)
<1>1. HostFrames(O, B, m) \subseteq HostFrames(P, C, n)
  BY FramesFit
<1>2. h2a \in [Conns -> Seq(HostFrames(P, C, n))]
  BY <1>1, ChannelsFit DEF Asked
<1>3. PendingFor(O) \subseteq PendingFor(P) /\ RequestsOf(O) \subseteq RequestsOf(P)
  BY DEF PendingFor, RequestsOf
<1> QED  BY <1>2, <1>3, SeqMonotonic DEF Asked

\* The same after a step, in which the ring may have grown.
LEMMA AskedNext ==
  ASSUME LinkBase, [Next]_vars, NEW O \in SUBSET Ops, NEW B \in SUBSET BOOLEAN,
         Asked(O, B, RingEnd(pipe.ring)), AddsOnly(O, B)
  PROVE  Asked(O, B, RingEnd(pipe.ring))'
<1>0. pipe \in Pipes /\ got \in Seq(Nat) /\ a2h \in [Conns -> Seq(AgentFrames)]
  BY DEF LinkBase, RemoteTypeOK, HostTypes, WireTypes, ObserverTypes
<1> DEFINE m == RingEnd(pipe.ring)
           n == RingEnd(pipe'.ring)
<1>1. m \in Nat /\ n \in Nat /\ m <= n
  BY <1>0, PipeStep
<1>2. Asked(O, B, n)
  BY <1>1, AskedFits
<1> HIDE DEF n
<1>3. pend' \in Seq(PendingFor(O)) /\ sup'.frames \in Seq(RequestsOf(O)) /\ h2a' \in [Conns -> Seq(HostFrames(O, B, n))]
  BY <1>1, <1>2, AskedStep DEF Asked
<1> QED  BY <1>3 DEF Asked, n

LEMMA LinkBaseStep == LinkBase /\ [Next]_vars => LinkBase'
<1> SUFFICES ASSUME LinkBase, [Next]_vars PROVE LinkBase'
  OBVIOUS
<1>1. /\ scope \in Scopes /\ pipe \in Pipes /\ got \in Seq(Nat) /\ a2h \in [Conns -> Seq(AgentFrames)]
      /\ Asked(Ops, BOOLEAN, RingEnd(pipe.ring))
  BY DEF LinkBase, RemoteTypeOK, HostTypes, WireTypes, ObserverTypes, Asked
<1>2. AddsOnly(Ops, BOOLEAN)
  BY DEF AddsOnly, Ops
<1>3. Asked(Ops, BOOLEAN, RingEnd(pipe.ring))'
  BY <1>1, <1>2, AskedNext
<1>4. pipe' \in Pipes /\ got' \in Seq(Nat)
  BY <1>1, PipeStep
<1>5. HostTypes'
  BY <1>3, <1>4, LinkStep, InputStep, UserStep, SupStep, ConnectionsStep DEF HostTypes, Asked
<1>6. AgentTypes'
  BY ConnectionsStep, ClientStep, SessionStep DEF AgentTypes
<1>7. WireTypes'
  BY <1>3, UpStep DEF WireTypes, Asked
<1>8. ObserverTypes'
  BY <1>4, SessionStep, WroteStep, OversleptStep DEF ObserverTypes
<1>9. scope' \in Scopes
  BY <1>1, Changes
<1> QED  BY <1>5, <1>6, <1>7, <1>8, <1>9, CurrentStep DEF LinkBase, RemoteTypeOK

\* Every state is well typed (all of RemoteLink).
THEOREM RemoteTypes == Spec => []RemoteTypeOK
<1>1. LinkBase => RemoteTypeOK
  BY DEF LinkBase
<1> QED  BY <1>1, LinkBaseInit, LinkBaseStep, PTL DEF Spec

-----------------------------------------------------------------------------
(* Input *)

\* The process was given increasing bytes, none past what the session counts.
FedInv ==
  /\ \A i \in 1..Len(fed) : fed[i] <= ses.received
  /\ InputInOrder

LEMMA FedStep == ASSUME LinkBase, FedInv, [Next]_vars PROVE FedInv'
<1>0. ses \in Sessions /\ client \in Clients /\ fed \in Seq(Nat) /\ ses.received \in Nat
  BY SessionFields DEF LinkBase, RemoteTypeOK, AgentTypes, ObserverTypes
<1>1. CASE fed' = fed /\ ses.received <= ses'.received
  <2>1. \A i \in 1..Len(fed) : fed[i] \in Nat
    BY <1>0, LenProperties
  <2>2. ses'.received \in Nat
    BY SessionStep, SessionFields
  <2>3. \A i \in 1..Len(fed) : fed[i] <= ses'.received
    BY <1>0, <1>1, <2>1, <2>2 DEF FedInv
  <2> QED  BY <1>1, <2>3 DEF FedInv, InputInOrder
<1>2. CASE EndSpawn
  <2>1. fed' = <<>> /\ Len(<<>>) = 0
    BY <1>0, <1>2, EndSpawnIs, EmptySeq
  <2> QED  BY <2>1 DEF FedInv, InputInOrder
<1>3. ASSUME NEW new \in Seq(Nat), NEW at \in Nat, fed' = fed \o new, Numbered(at, new),
             ses.received <= at, at + Len(new) = ses'.received
      PROVE  FedInv'
  <2>1. /\ Len(fed) \in Nat /\ Len(new) \in Nat /\ Len(fed') = Len(fed) + Len(new)
        /\ \A i \in 1..(Len(fed) + Len(new)) : fed'[i] = IF i <= Len(fed) THEN fed[i] ELSE new[i - Len(fed)]
        /\ \A i \in 1..Len(fed) : fed[i] \in Nat
    BY <1>0, <1>3, LenProperties, ConcatProperties
  <2>2. \A i \in 1..Len(fed) : fed'[i] = fed[i] /\ fed'[i] <= at
    BY <1>0, <1>3, <2>1 DEF FedInv
  <2>3. \A i \in 1..(Len(fed) + Len(new)) : i > Len(fed) => fed'[i] = at + (i - Len(fed))
    BY <2>1, <1>3 DEF Numbered
  <2>4. \A i \in 1..Len(fed') : fed'[i] <= ses'.received
    <3> SUFFICES ASSUME NEW i \in 1..(Len(fed) + Len(new)) PROVE fed'[i] <= ses'.received
      BY <2>1
    <3>1. CASE i <= Len(fed)
      <4>1. fed'[i] <= at /\ fed'[i] \in Nat
        BY <2>1, <2>2, <3>1
      <4>2. at <= ses'.received /\ ses'.received \in Nat
        BY <1>3, <2>1
      <4> QED  BY <4>1, <4>2
    <3>2. CASE i > Len(fed)
      <4>1. fed'[i] = at + (i - Len(fed)) /\ i - Len(fed) <= Len(new)
        BY <2>1, <2>3, <3>2
      <4> QED  BY <1>3, <2>1, <4>1
    <3> QED  BY <2>1, <3>1, <3>2
  <2>5. ASSUME NEW i \in 1..(Len(fed) + Len(new)), NEW j \in 1..(Len(fed) + Len(new)), i < j PROVE fed'[i] < fed'[j]
    <3>1. CASE j <= Len(fed)
      <4>1. i \in 1..Len(fed) /\ j \in 1..Len(fed)
        BY <2>1, <2>5, <3>1
      <4> QED  BY <2>2, <2>5, <4>1 DEF FedInv, InputInOrder
    <3>2. CASE i <= Len(fed) /\ j > Len(fed)
      <4>1. fed'[i] <= at /\ fed'[i] \in Nat
        BY <2>1, <2>2, <3>2
      <4>2. fed'[j] = at + (j - Len(fed)) /\ j - Len(fed) > 0 /\ j - Len(fed) \in Nat
        BY <2>1, <2>3, <3>2
      <4> QED  BY <4>1, <4>2
    <3>3. CASE i > Len(fed)
      <4>1. fed'[i] = at + (i - Len(fed)) /\ fed'[j] = at + (j - Len(fed))
        BY <2>1, <2>3, <2>5, <3>3
      <4> QED  BY <2>1, <2>5, <4>1
    <3> QED  BY <2>1, <3>1, <3>2, <3>3
  <2> QED  BY <2>1, <2>4, <2>5 DEF FedInv, InputInOrder
<1>4. CASE SessionKept /\ fed' = fed
  BY <1>0, <1>1, <1>4 DEF SessionKept
<1>5. CASE RecordOutput \/ StreamDone \/ Reaped
  BY <1>0, <1>1, <1>5, RecordOutputIs, SettlingIs
<1>6. ASSUME NEW c \in Conns, ReadLoop(c), Head(h2a[c]).k = "input", TakeInput(Head(h2a[c])) PROVE FedInv'
  <2>1. \/ fed' = fed /\ ses.received <= ses'.received
        \/ \E new \in Seq(Nat), at \in Nat :
             /\ fed' = fed \o new /\ Numbered(at, new)
             /\ ses.received <= at /\ at + Len(new) = ses'.received
    BY <1>0, <1>6, InputTaken, TakeInputIs
  <2> QED  BY <1>1, <1>3, <2>1
<1> QED  BY <1>2, <1>4, <1>5, <1>6, SessionMovesOnly DEF SessionMoves

\* A process is given no input twice and none out of order, however often the
\* host rewinds its buffer and sends it again (rewind, send_input and the two
\* connections at once; write_input).
THEOREM RemoteInputInOrder == Spec => []InputInOrder
<1>1. Init => LinkBase /\ FedInv
  <2>1. Init => fed = <<>> /\ Len(<<>>) = 0
    BY EmptySeq DEF Init
  <2> QED  BY <2>1, LinkBaseInit DEF FedInv, InputInOrder
<1>2. LinkBase /\ FedInv /\ [Next]_vars => (LinkBase /\ FedInv)'
  BY LinkBaseStep, FedStep
<1>3. FedInv => InputInOrder
  BY DEF FedInv
<1> QED  BY <1>1, <1>2, <1>3, PTL DEF Spec

-----------------------------------------------------------------------------
(* One process *)

\* No spawn is pending, under way or being carried out.
NoSpawn == Asked(Ops \ {"spawn"}, BOOLEAN, RingEnd(pipe.ring)) /\ client.spawning = 0

\* While the host wants the session, nothing that travels ends it, and a
\* spawn that is still under way finds no process or the session of its first.
SpawnInv ==
  /\ link.status # "closed" => Asked(Ops, {}, RingEnd(pipe.ring))
  /\ pipe.st # "gone" => Asked(Ops \ {"release"}, BOOLEAN, RingEnd(pipe.ring))
  /\ pipe.st = "none" => ses.starts = 0 /\ NoSpawn
  /\ pipe.st = "open" =>
       /\ link.status # "closed" /\ ses.starts <= 1
       /\ ses.starts = 1 => ses.live \/ NoSpawn
       /\ client.spawning # 0 => ses.starts = 0

LEMMA SeqOfPart ==
  ASSUME NEW S, NEW T, NEW s \in Seq(S), \A i \in 1..Len(s) : s[i] \in T
  PROVE  s \in Seq(T)
<1>1. Len(s) \in Nat /\ s \in [1..Len(s) -> S]
  BY LenProperties
<1>2. s \in [1..Len(s) -> T]
  BY <1>1
<1> QED  BY <1>1, <1>2, SeqDef

\* A link that was closed stays closed.
LEMMA ClosedStays ==
  ASSUME LinkBase, [Next]_vars, ~LinkClose
  PROVE  link'.status = "closed" <=> link.status = "closed"
<1>0. /\ link \in Links /\ pend \in Seq(PendingFor(Ops)) /\ pipe \in Pipes
      /\ h2a \in [Conns -> Seq(HostFrames(Ops, BOOLEAN, RingEnd(pipe.ring)))]
  BY DEF LinkBase, RemoteTypeOK, HostTypes, WireTypes
<1>1. CASE Spawn \/ Kill \/ Release \/ RegisterClose \/ SpawnFails
  <2>1. PICK op, ps : Register(op, ps)
    BY <1>1 DEF Spawn, Kill, Release, RegisterClose, SpawnFails
  <2>2. link' = link \/ link' = [link EXCEPT !.wake = @ \/ link.status = "lost"]
    BY <2>1 DEF Register
  <2> QED  BY <1>0, <2>2 DEF Links
<1>2. CASE Launch
  BY <1>0, <1>2 DEF Launch, Links
<1>3. CASE GiveUp("lost") \/ GiveUp("unavailable")
  <2>1. PICK status \in {"lost", "unavailable"} :
          /\ link' = [link EXCEPT !.status = status, !.lost = @ + 1, !.wake = FALSE]
          /\ link.status \in {"connecting", "reconnecting"}
    BY <1>3 DEF GiveUp
  <2> QED  BY <1>0, <2>1 DEF Links
<1>4. ASSUME NEW c \in Conns, LaunchFails(c) \/ Install(c)
      PROVE  link'.status = "closed" <=> link.status = "closed"
  <2>1. \/ link' = [link EXCEPT !.dial = 0]
        \/ link.status # "closed" /\ link' = [link EXCEPT !.dial = 0, !.conn = c, !.gen = c, !.status = "connected"]
    BY <1>4 DEF LaunchFails, Install
  <2> QED  BY <1>0, <2>1 DEF Links
<1>5. ASSUME NEW c \in Conns, ConnectionLost(c) \/ ReaderDone(c)
      PROVE  link'.status = "closed" <=> link.status = "closed"
  <2>1. \/ link' = link
        \/ link' = [link EXCEPT !.conn = 0,
                                !.status = IF link.status = "closed" THEN link.status ELSE "reconnecting"]
    BY <1>0, <1>5 DEF ConnectionLost, ReaderDone, Abandoned, Links
  <2> QED  BY <1>0, <2>1 DEF Links
<1> QED  BY <1>1, <1>2, <1>3, <1>4, <1>5, Changes

\* A spawn begins only where the session is not there.
LEMMA SpawningMoves ==
  ASSUME LinkBase, [Next]_vars
  PROVE  /\ client'.spawning \in {client.spawning, 0} \/ \E c \in Conns : BeginSpawn(c) /\ ~ses.live
         /\ EndSpawn => client'.spawning = 0
<1>0. client \in Clients /\ client \in [cur : 0..MaxConns, outbox : Seq(Replies), spawning : 0..MaxConns]
  BY DEF LinkBase, RemoteTypeOK, AgentTypes, Clients
<1>1. ASSUME NEW x, NEW y, client' = [client EXCEPT !.spawning = x, !.outbox = y] PROVE client'.spawning = x
  BY <1>0, <1>1
<1>2. ASSUME \/ \E x, y : client' = [client EXCEPT !.cur = x, !.outbox = y]
             \/ \E y : client' = [client EXCEPT !.outbox = y]
             \/ client' = client
      PROVE  client'.spawning = client.spawning
  BY <1>0, <1>2
<1>3. EndSpawn \/ RefuseSpawn => client'.spawning = 0
  BY <1>1 DEF EndSpawn, RefuseSpawn
<1>4. \A c \in Conns : Introduce(c) \/ Flush(c) \/ ServeEnds(c) => client'.spawning = client.spawning
  <2>1. \A c \in Conns : Introduce(c) => client'.spawning = client.spawning
    BY <1>2 DEF Introduce
  <2>2. \A c \in Conns : Flush(c) => client'.spawning = client.spawning
    BY <1>2 DEF Flush
  <2>3. \A c \in Conns : ServeEnds(c) => client'.spawning = client.spawning
    BY <1>2 DEF ServeEnds
  <2> QED  BY <2>1, <2>2, <2>3
<1>5. \A c \in Conns : ReadLoop(c) => client'.spawning = client.spawning
  BY <1>2 DEF ReadLoop, Handle
<1>6. \A c \in Conns : BeginSpawn(c) /\ ses.live => client'.spawning = client.spawning
  BY <1>2 DEF BeginSpawn
<1> QED  BY <1>3, <1>4, <1>5, <1>6, Changes

\* Where no spawn is asked for, none begins.
LEMMA NoSpawnStep == ASSUME LinkBase, [Next]_vars, NoSpawn, ~Spawn PROVE NoSpawn'
<1> DEFINE O == Ops \ {"spawn"}
<1>1. O \in SUBSET Ops /\ "spawn" \notin O /\ "release" \in O /\ "kill" \in O /\ "close" \in O
  BY DEF Ops
<1>2. AddsOnly(O, BOOLEAN)
  BY <1>1 DEF AddsOnly
<1>3. Asked(O, BOOLEAN, RingEnd(pipe.ring))
  BY DEF NoSpawn
<1> HIDE DEF O
<1>4. Asked(O, BOOLEAN, RingEnd(pipe.ring))'
  BY <1>1, <1>2, <1>3, AskedNext
<1>5. \A c \in Conns : ~BeginSpawn(c)
  <2> SUFFICES ASSUME NEW c \in Conns, BeginSpawn(c) PROVE FALSE
    OBVIOUS
  <2>1. h2a[c] # <<>> /\ Head(h2a[c]) = Request("spawn") /\ Request("spawn").k = "request" /\ Request("spawn").op = "spawn"
    BY DEF BeginSpawn, Request
  <2>2. Head(h2a[c]).op \in O
    BY <1>3, <2>1, RequestTaken DEF Asked
  <2> QED  BY <1>1, <2>1, <2>2
<1>6. client'.spawning = 0
  BY <1>5, SpawningMoves DEF NoSpawn
<1> QED  BY <1>4, <1>6 DEF NoSpawn, O

\* With no spawn under way none will begin.
LEMMA NoneUnderWay == ASSUME LinkBase, ~SpawnUnderWay PROVE NoSpawn
<1> DEFINE O == Ops \ {"spawn"}
           n == RingEnd(pipe.ring)
<1>0. /\ pend \in Seq(PendingFor(Ops)) /\ sup.frames \in Seq(RequestsOf(Ops))
      /\ h2a \in [Conns -> Seq(HostFrames(Ops, BOOLEAN, n))]
  BY DEF LinkBase, RemoteTypeOK, HostTypes, WireTypes
<1>1. /\ \A i \in 1..Len(pend) : pend[i].op # "spawn"
      /\ Request("spawn") \notin Range(sup.frames)
      /\ \A c \in Conns : Request("spawn") \notin Range(h2a[c])
      /\ client.spawning = 0
  BY DEF SpawnUnderWay, Pending
<1>2. \A p \in PendingFor(Ops) : p.op # "spawn" => p \in PendingFor(O)
  BY DEF PendingFor
<1>3. \A f \in RequestsOf(Ops) : f # Request("spawn") => f \in RequestsOf(O)
  BY DEF RequestsOf, Request
<1>4. \A f \in HostFrames(Ops, BOOLEAN, n) : f # Request("spawn") => f \in HostFrames(O, BOOLEAN, n)
  BY <1>3 DEF HostFrames
<1> HIDE DEF O, n
<1>5. pend \in Seq(PendingFor(O))
  <2>1. \A i \in 1..Len(pend) : pend[i] \in PendingFor(O)
    BY <1>0, <1>1, <1>2, LenProperties
  <2> QED  BY <1>0, <2>1, SeqOfPart
<1>6. ASSUME NEW F, NEW G, NEW s \in Seq(F), Request("spawn") \notin Range(s),
             \A f \in F : f # Request("spawn") => f \in G
      PROVE  s \in Seq(G)
  <2>1. Len(s) \in Nat /\ DOMAIN s = 1..Len(s) /\ \A i \in 1..Len(s) : s[i] \in F
    BY LenProperties
  <2>2. \A i \in 1..Len(s) : s[i] # Request("spawn")
    BY <1>6, <2>1 DEF Range
  <2>3. \A i \in 1..Len(s) : s[i] \in G
    BY <1>6, <2>1, <2>2
  <2> QED  BY <2>3, SeqOfPart
<1>7. sup.frames \in Seq(RequestsOf(O))
  BY <1>0, <1>1, <1>3, <1>6
<1>8. \A c \in Conns : h2a[c] \in Seq(HostFrames(O, BOOLEAN, n))
  BY <1>0, <1>1, <1>4, <1>6
<1>9. h2a \in [Conns -> Seq(HostFrames(O, BOOLEAN, n))]
  BY <1>0, <1>8
<1> QED  BY <1>1, <1>5, <1>7, <1>9 DEF NoSpawn, Asked, O, n

\* A session goes when the janitor forgets it or the host lets it go.
LEMMA SessionGoes ==
  ASSUME LinkBase, [Next]_vars, ses.live, ~ses'.live
  PROVE  \/ Forget
         \/ \E c \in Conns : /\ ReadLoop(c)
                             /\ \/ Head(h2a[c]).k = "request" /\ Head(h2a[c]).op = "release"
                                \/ Head(h2a[c]).k = "bye" /\ Head(h2a[c]).release
<1>0. ses \in Sessions /\ client \in Clients
  BY DEF LinkBase, RemoteTypeOK, AgentTypes
<1>1. ~EndSpawn /\ ~RecordOutput /\ ~StreamDone /\ ~Reaped /\ ses' # ses
  BY <1>0, EndSpawnIs, RecordOutputIs, SettlingIs
<1>2. ~Reclaim
  <2>1. Reclaim => ses' = Terminated(ses)
    BY DEF Reclaim
  <2>2. Terminated(ses).live = ses.live
    BY <1>0, TerminatedIs
  <2> QED  BY <2>1, <2>2
<1>3. \A c \in Conns : ~Introduce(c) /\ ~SendFrames(c)
  BY IntroduceKeeps, SendFramesKeeps
<1>4. ASSUME NEW c \in Conns, ReadLoop(c)
      PROVE  \/ Head(h2a[c]).k = "request" /\ Head(h2a[c]).op = "release"
             \/ Head(h2a[c]).k = "bye" /\ Head(h2a[c]).release
  <2>1. CASE Head(h2a[c]).k = "input" /\ TakeInput(Head(h2a[c]))
    <3>1. fed \in Seq(Nat)
      BY DEF LinkBase, RemoteTypeOK, ObserverTypes
    <3> QED  BY <1>0, <1>4, <2>1, <3>1, InputTaken, TakeInputIs
  <2>2. CASE Head(h2a[c]).k = "request" /\ Handle(Head(h2a[c]).op)
    <3>1. CASE Head(h2a[c]).op # "release"
      <4>1. ses' = ses \/ ses' = [ses EXCEPT !.open = FALSE] \/ ses' = [ses EXCEPT !.told = TRUE]
        BY <2>2, <3>1 DEF Handle
      <4> QED  BY <1>0, <4>1 DEF Sessions
    <3> QED  BY <2>2, <3>1
  <2>3. CASE /\ Head(h2a[c]).k = "bye"
             /\ ses' = IF Head(h2a[c]).release /\ ses.live THEN [Terminated(ses) EXCEPT !.live = FALSE] ELSE ses
    BY <1>1, <2>3
  <2> QED  BY <1>4, <2>1, <2>2, <2>3 DEF ReadLoop
<1> QED  BY <1>1, <1>2, <1>3, <1>4, Changes

LEMMA StartsMove ==
  ASSUME LinkBase, [Next]_vars
  PROVE  /\ ~EndSpawn => ses'.starts = ses.starts /\ (ses'.live => ses.live)
         /\ EndSpawn => ses'.starts = ses.starts + 1 /\ ses'.live /\ client.spawning # 0
<1>0. ses \in Sessions /\ client \in Clients /\ fed \in Seq(Nat)
  BY DEF LinkBase, RemoteTypeOK, AgentTypes, ObserverTypes
<1>1. CASE EndSpawn
  BY <1>0, <1>1, EndSpawnIs DEF EndSpawn
<1>2. CASE SessionKept /\ fed' = fed /\ ~EndSpawn
  BY <1>2 DEF SessionKept
<1>3. CASE (RecordOutput \/ StreamDone \/ Reaped) /\ ~EndSpawn
  BY <1>0, <1>3, RecordOutputIs, SettlingIs
<1>4. ASSUME NEW c \in Conns, ReadLoop(c), Head(h2a[c]).k = "input", TakeInput(Head(h2a[c])), ~EndSpawn
      PROVE  ses'.starts = ses.starts /\ (ses'.live => ses.live)
  BY <1>0, <1>4, InputTaken, TakeInputIs
<1> QED  BY <1>1, <1>2, <1>3, <1>4, SessionMovesOnly DEF SessionMoves

\* The host wants the session before the step if it does after it.
LEMMA PipeStages ==
  ASSUME LinkBase, [Next]_vars
  PROVE  /\ pipe'.st # "gone" => pipe.st # "gone" /\ ~SpawnFails /\ ~Release
         /\ pipe'.st = "none" => pipe.st = "none" /\ ~Spawn
         /\ pipe'.st = "open" /\ ~Spawn => pipe.st = "open" /\ ~LinkClose
         /\ Spawn => pipe.st = "none" /\ ses' = ses /\ client' = client /\ link.status # "closed" /\ ~LinkClose
<1>0. pipe \in Pipes /\ got \in Seq(Nat) /\ a2h \in [Conns -> Seq(AgentFrames)]
  BY DEF LinkBase, RemoteTypeOK, HostTypes, WireTypes, ObserverTypes
<1>1. pipe'.st \in {pipe.st, "gone"} \/ Spawn
  BY <1>0, PipeStep
<1>2. Spawn => /\ pipe.st = "none" /\ ses' = ses /\ client' = client /\ link.status # "closed"
               /\ pipe' = [pipe EXCEPT !.st = "open"]
  BY DEF Spawn, Refusing
<1>3. Spawn => pipe'.st = "open"
  BY <1>0, <1>2, StateIs
<1>4. SpawnFails \/ Release => pipe' = [pipe EXCEPT !.st = "gone"]
  BY DEF SpawnFails, Release
<1>5. SpawnFails \/ Release => pipe'.st = "gone"
  BY <1>0, <1>4, StateIs
<1>6. LinkClose => pipe' = IF pipe.st = "open" THEN Failing([pipe EXCEPT !.st = "gone"]) ELSE pipe
  BY DEF LinkClose
<1>7. Failing([pipe EXCEPT !.st = "gone"]).st = "gone"
  BY <1>0, DroppedIs
<1>8. LinkClose => pipe'.st # "open"
  BY <1>6, <1>7
<1> QED  BY <1>1, <1>2, <1>3, <1>5, <1>8

LEMMA SpawnStep == ASSUME LinkBase, SpawnInv, [Next]_vars, ~overslept' PROVE SpawnInv'
<1>0. /\ ses \in Sessions /\ ses.starts \in Nat /\ client \in Clients
      /\ h2a \in [Conns -> Seq(HostFrames(Ops, BOOLEAN, RingEnd(pipe.ring)))]
  BY SessionFields DEF LinkBase, RemoteTypeOK, AgentTypes, WireTypes
<1>1. ASSUME link'.status # "closed" PROVE Asked(Ops, {}, RingEnd(pipe.ring))'
  <2>1. ~LinkClose
    <3>1. link \in Links
      BY DEF LinkBase, RemoteTypeOK, HostTypes
    <3> QED  BY <1>1, <3>1 DEF LinkClose, Links
  <2>2. Asked(Ops, {}, RingEnd(pipe.ring))
    BY <1>1, <2>1, ClosedStays DEF SpawnInv
  <2>3. AddsOnly(Ops, {})
    BY <2>1 DEF AddsOnly, Ops
  <2>4. Ops \in SUBSET Ops /\ {} \in SUBSET BOOLEAN
    OBVIOUS
  <2> QED  BY <2>2, <2>3, <2>4, AskedNext
<1>2. ASSUME pipe'.st # "gone" PROVE Asked(Ops \ {"release"}, BOOLEAN, RingEnd(pipe.ring))'
  <2> DEFINE O == Ops \ {"release"}
  <2>1. Asked(O, BOOLEAN, RingEnd(pipe.ring))
    BY <1>2, PipeStages DEF SpawnInv
  <2>2. AddsOnly(O, BOOLEAN)
    BY <1>2, PipeStages DEF AddsOnly, Ops
  <2>3. O \in SUBSET Ops /\ BOOLEAN \in SUBSET BOOLEAN
    OBVIOUS
  <2> HIDE DEF O
  <2>4. Asked(O, BOOLEAN, RingEnd(pipe.ring))'
    BY <2>1, <2>2, <2>3, AskedNext
  <2> QED  BY <2>4 DEF O
<1>3. ASSUME pipe'.st = "none" PROVE ses'.starts = 0 /\ NoSpawn'
  <2>1. pipe.st = "none" /\ ~Spawn /\ ses.starts = 0 /\ NoSpawn
    BY <1>3, PipeStages DEF SpawnInv
  <2>2. client.spawning = 0
    BY <2>1 DEF NoSpawn
  <2> QED  BY <2>1, <2>2, StartsMove, NoSpawnStep
<1>4. ASSUME pipe'.st = "open"
      PROVE  /\ link'.status # "closed" /\ ses'.starts <= 1
             /\ ses'.starts = 1 => ses'.live \/ NoSpawn'
             /\ client'.spawning # 0 => ses'.starts = 0
  <2>1. CASE Spawn
    <3>1. pipe.st = "none" /\ ses' = ses /\ client' = client /\ link.status # "closed" /\ ~LinkClose
      BY <2>1, PipeStages
    <3>2. ses.starts = 0 /\ client.spawning = 0
      BY <3>1 DEF SpawnInv, NoSpawn
    <3> QED  BY <3>1, <3>2, ClosedStays
  <2>2. CASE ~Spawn
    <3>1. pipe.st = "open" /\ ~LinkClose
      BY <1>4, <2>2, PipeStages
    <3>2. /\ link.status # "closed" /\ ses.starts <= 1
          /\ ses.starts = 1 => ses.live \/ NoSpawn
          /\ client.spawning # 0 => ses.starts = 0
      BY <3>1 DEF SpawnInv
    <3>3. link'.status # "closed"
      BY <3>1, <3>2, ClosedStays
    <3>4. CASE EndSpawn
      <4>1. ses'.starts = 1 /\ ses'.live /\ client'.spawning = 0
        BY <3>2, <3>4, StartsMove, SpawningMoves
      <4> QED  BY <3>3, <4>1
    <3>5. CASE ~EndSpawn
      <4>1. ses'.starts = ses.starts
        BY <3>5, StartsMove
      <4>2. ASSUME ses.starts = 1, ~ses'.live PROVE NoSpawn'
        <5>1. CASE NoSpawn
          BY <2>2, <5>1, NoSpawnStep
        <5>2. CASE ses.live
          <6>1. Forget
            <7>1. ASSUME NEW c \in Conns, ReadLoop(c), Head(h2a[c]).k = "request", Head(h2a[c]).op = "release"
                  PROVE  FALSE
              <8>1. h2a \in [Conns -> Seq(HostFrames(Ops \ {"release"}, BOOLEAN, RingEnd(pipe.ring)))]
                BY <3>1 DEF SpawnInv, Asked
              <8>2. h2a[c] # <<>>
                BY <7>1 DEF ReadLoop
              <8> QED  BY <7>1, <8>1, <8>2, RequestTaken
            <7>2. ASSUME NEW c \in Conns, ReadLoop(c), Head(h2a[c]).k = "bye", Head(h2a[c]).release
                  PROVE  FALSE
              <8>1. h2a \in [Conns -> Seq(HostFrames(Ops, {}, RingEnd(pipe.ring)))]
                BY <3>2 DEF SpawnInv, Asked
              <8>2. h2a[c] # <<>>
                BY <7>2 DEF ReadLoop
              <8> QED  BY <7>2, <8>1, <8>2, TailIs, HostFrameKinds
            <7> QED  BY <4>2, <5>2, <7>1, <7>2, SessionGoes
          <6>2. NoSpawn
            BY <6>1, OversleptStep, NoneUnderWay
          <6> QED  BY <2>2, <6>2, NoSpawnStep
        <5> QED  BY <3>2, <4>2, <5>1, <5>2
      <4>3. ASSUME client'.spawning # 0 PROVE ses.starts = 0
        <5>1. CASE client.spawning # 0
          BY <3>2, <5>1
        <5>2. CASE client.spawning = 0
          <6>1. PICK c \in Conns : BeginSpawn(c) /\ ~ses.live
            BY <4>3, <5>2, SpawningMoves
          <6>2. ~NoSpawn
            <7>1. NoSpawn => client'.spawning = 0
              BY <2>2, NoSpawnStep DEF NoSpawn
            <7> QED  BY <4>3, <7>1
          <6> QED  BY <1>0, <3>2, <6>1, <6>2
        <5> QED  BY <5>1, <5>2
      <4> QED  BY <3>2, <3>3, <4>1, <4>2, <4>3
    <3> QED  BY <3>4, <3>5
  <2> QED  BY <2>1, <2>2
<1> QED  BY <1>1, <1>2, <1>3, <1>4 DEF SpawnInv

LEMMA SpawnInit == Init => SpawnInv
<1> SUFFICES ASSUME Init PROVE SpawnInv
  OBVIOUS
<1>1. \A S : <<>> \in Seq(S)
  BY EmptySeq
<1>2. \A O, B, n : Asked(O, B, n)
  BY <1>1 DEF Init, Asked
<1>3. client.spawning = 0 /\ ses.starts = 0 /\ pipe.st = "none"
  BY DEF Init
<1> QED  BY <1>2, <1>3 DEF SpawnInv, NoSpawn

\* However often a spawn is sent again, over however many connections, one
\* process is started for a session the host still wants (the spawning lock
\* and the lookup in spawn; pending and resend), unless the janitor forgot a
\* session whose spawn was under way, which the daemon's code does not exclude.
THEOREM RemoteOneProcess == Spec => []OneProcess
<1> DEFINE I == LinkBase /\ (overslept \/ SpawnInv)
<1>1. Init => I
  BY LinkBaseInit, SpawnInit
<1>2. I /\ [Next]_vars => I'
  <2> SUFFICES ASSUME LinkBase, overslept \/ SpawnInv, [Next]_vars PROVE I'
    OBVIOUS
  <2>1. CASE overslept'
    BY <2>1, LinkBaseStep
  <2>2. CASE ~overslept'
    BY <2>2, LinkBaseStep, OversleptStep, SpawnStep
  <2> QED  BY <2>1, <2>2
<1>3. I => OneProcess
  BY DEF SpawnInv, OneProcess
<1> HIDE DEF I
<1> QED  BY <1>1, <1>2, <1>3, PTL DEF Spec

-----------------------------------------------------------------------------
(* Which connection is dialled *)

\* A connection the agent has not been introduced to is the one being dialled;
\* meanwhile nothing is resent and there is no connection to write to.
DialInv ==
  /\ link.dial # 0 => link.conn = 0 /\ sup.frames = <<>>
  /\ sup.pc = "idle" => sup.frames = <<>>
  /\ \A c \in Conns :
       /\ hconn[c] = "none" => ~up[c] /\ aconn[c] = "none" /\ h2a[c] = <<>>
       /\ aconn[c] = "none" => a2h[c] = <<>>
       /\ up[c] /\ aconn[c] = "none" => link.dial = c

\* Only a launch brings a connection up.
LEMMA UpFalls == ASSUME LinkBase, [Next]_vars, ~Launch PROVE \A c \in Conns : up'[c] => up[c]
<1>0. /\ up \in [Conns -> BOOLEAN] /\ a2h \in [Conns -> Seq(AgentFrames)]
      /\ h2a \in [Conns -> Seq(HostFrames(Ops, BOOLEAN, RingEnd(pipe.ring)))]
  BY DEF LinkBase, RemoteTypeOK, WireTypes
<1>1. ASSUME NEW d \in Conns, ConnectionLost(d) \/ Closer(d) \/ Break(d) \/ Introduce(d)
      PROVE  \A c \in Conns : up'[c] => up[c]
  <2>1. CASE Introduce(d)
    BY <1>0, <2>1, HelloTaken, IntroduceIs
  <2>2. CASE Cut(d)
    BY <1>0, <2>2, CutIs
  <2> QED  BY <1>1, <2>1, <2>2 DEF ConnectionLost, Closer, Break
<1>2. ASSUME NEW d \in Conns, Install(d) \/ ReadLoop(d) PROVE \A c \in Conns : up'[c] => up[c]
  <2>1. up' = up \/ up' = [up EXCEPT ![d] = FALSE]
    BY <1>2 DEF Install, ReadLoop
  <2> QED  BY <1>0, <2>1
<1> QED  BY <1>1, <1>2, Changes

\* How the frames to the agent move, but for the hello of a launch.
WritesOf(E) == \E d \in 0..MaxConns, frames \in Seq(E) : h2a' = Written(h2a, d, frames)

HostWireMoves ==
  \/ h2a' = h2a
  \/ WritesOf(Inputs)
  \/ (WritesOf(RequestsOf(Ops)) \/ WritesOf(Byes(BOOLEAN))) /\ (link.conn # 0 \/ sup.frames # <<>>)
  \/ \E d \in Conns : Cut(d) \/ Introduce(d)
  \/ \E d \in Conns : aconn[d] # "none" /\ h2a[d] # <<>> /\ h2a' = [h2a EXCEPT ![d] = Tail(@)]

\* Nothing is written where there is no connection.
LEMMA WrittenNowhere == ASSUME NEW frames PROVE Written(h2a, 0, frames) = h2a
  BY ConnsAre DEF Written

LEMMA WritesOfKeeps ==
  ASSUME NEW F, h2a \in [Conns -> Seq(F)], NEW E, E \subseteq F, WritesOf(E)
  PROVE  h2a' \in [Conns -> Seq(F)]
<1>1. PICK d \in 0..MaxConns, frames \in Seq(E) : h2a' = Written(h2a, d, frames)
  BY DEF WritesOf
<1>2. Written(h2a, d, frames) \in [Conns -> Seq(F)]
  BY WrittenIs
<1> QED  BY <1>1, <1>2

LEMMA HostWireMovesOnly == ASSUME LinkBase, [Next]_vars, ~Launch PROVE HostWireMoves
<1>0. /\ link.conn \in 0..MaxConns /\ link.gen \in 0..MaxConns /\ user.conn \in 0..MaxConns
      /\ InputFrames \in Seq(Inputs) /\ sup.frames \in Seq(RequestsOf(Ops))
  BY InputFramesAre DEF LinkBase, RemoteTypeOK, HostTypes, Links, Users
<1>1. CASE Spawn \/ Kill \/ Release \/ RegisterClose \/ SpawnFails
  <2>1. {"spawn", "kill", "close", "release"} = Ops
    BY DEF Ops
  <2>2. PICK op \in Ops : \E ps : Register(op, ps)
    BY <1>1, <2>1 DEF Spawn, Kill, Release, RegisterClose, SpawnFails
  <2>3. <<Request(op)>> \in Seq(RequestsOf(Ops))
    BY RequestIs
  <2>4. h2a' = h2a \/ h2a' = Written(h2a, link.conn, <<Request(op)>>)
    BY <2>2 DEF Register
  <2>5. link.conn = 0 => h2a' = h2a
    BY <2>4, WrittenNowhere
  <2> QED  BY <1>0, <2>3, <2>4, <2>5 DEF HostWireMoves, WritesOf
<1>2. CASE UserWrites
  BY <1>0, <1>2 DEF UserWrites, HostWireMoves, WritesOf
<1>3. CASE ResendInput
  <2>1. h2a' = h2a \/ h2a' = Written(h2a, link.conn, InputFrames)
    BY <1>3 DEF ResendInput
  <2> QED  BY <1>0, <2>1 DEF HostWireMoves, WritesOf
<1>4. CASE Resend
  <2>1. sup.frames # <<>> /\ h2a' = Written(h2a, link.gen, <<Head(sup.frames)>>)
    BY <1>4 DEF Resend
  <2>2. <<Head(sup.frames)>> \in Seq(RequestsOf(Ops))
    BY <1>0, <2>1, HeadTailProperties
  <2> QED  BY <1>0, <2>1, <2>2 DEF HostWireMoves, WritesOf
<1>5. CASE LinkClose
  <2>1. PICK release \in BOOLEAN : h2a' = Written(h2a, link.conn, <<Bye(release)>>)
    BY <1>5 DEF LinkClose
  <2>2. <<Bye(release)>> \in Seq(Byes(BOOLEAN))
    BY DEF Bye, Byes
  <2>3. link.conn = 0 => h2a' = h2a
    BY <2>1, WrittenNowhere
  <2> QED  BY <1>0, <2>1, <2>2, <2>3 DEF HostWireMoves, WritesOf
<1>6. ASSUME NEW d \in Conns, ConnectionLost(d) \/ Closer(d) \/ Break(d) \/ Introduce(d) PROVE HostWireMoves
  BY <1>6 DEF ConnectionLost, Closer, Break, HostWireMoves
<1>7. ASSUME NEW d \in Conns, ReadLoop(d) \/ BeginSpawn(d) PROVE HostWireMoves
  <2>1. aconn[d] # "none" /\ h2a[d] # <<>> /\ h2a' = [h2a EXCEPT ![d] = Tail(@)]
    BY <1>7 DEF ReadLoop, BeginSpawn, Reading
  <2> QED  BY <2>1 DEF HostWireMoves
<1>8. CASE h2a' = h2a
  BY <1>8 DEF HostWireMoves
<1>9. \/ h2a' = h2a \/ Spawn \/ Kill \/ Release \/ RegisterClose \/ SpawnFails \/ UserWrites \/ ResendInput
      \/ Resend \/ LinkClose
      \/ \E d \in Conns : \/ ConnectionLost(d) \/ Closer(d) \/ Break(d) \/ Introduce(d)
                          \/ ReadLoop(d) \/ BeginSpawn(d)
  BY DEF Next, vars, hostVars, HostStep, AgentStep, ProcessStep, OtherStep, SpawnReturns, WriteInput,
         CloseStdin, FetchWriter, CheckGeneration, MarkSent, LaunchFails, Install, ReaderDone, GiveUp,
         Dispatch, Read, ReadEof, EndSpawn, RefuseSpawn, ServeEnds, Flush, SendFrames, RecordOutput,
         StreamDone, Reaped, Reclaim, Forget
<1> QED  BY <1>1, <1>2, <1>3, <1>4, <1>5, <1>6, <1>7, <1>8, <1>9

\* What that means for one connection.
LEMMA ShortenedEmpty == ASSUME NEW s, Shortened(s, <<>>) PROVE s = <<>>
<1>1. PICK i \in 0..Len(<<>>) : s = SubSeq(<<>>, 1, i)
  BY DEF Shortened
<1>2. i = 0 /\ <<>> \in Seq({})
  BY EmptySeq
<1>3. SubSeq(<<>>, 1, 0) \in Seq({}) /\ Len(SubSeq(<<>>, 1, 0)) = 0
  BY <1>2, PrefixIs
<1> QED  BY <1>1, <1>2, <1>3, EmptySeq

LEMMA HostWireOf ==
  ASSUME LinkBase, HostWireMoves, NEW c \in Conns
  PROVE  /\ h2a[c] = <<>> /\ ~up[c] => h2a'[c] = <<>>
         /\ aconn[c] = "none" /\ aconn'[c] = "none" /\ up'[c] /\ h2a'[c] # <<>> /\ Head(h2a'[c]) = Hello(None)
              => h2a[c] # <<>> /\ Head(h2a[c]) = Hello(None)
<1> DEFINE F == HostFrames(Ops, BOOLEAN, RingEnd(pipe.ring))
<1>0. h2a \in [Conns -> Seq(F)] /\ a2h \in [Conns -> Seq(AgentFrames)] /\ up \in [Conns -> BOOLEAN]
  BY DEF LinkBase, RemoteTypeOK, WireTypes
<1>1. Inputs \subseteq F /\ RequestsOf(Ops) \subseteq F /\ Byes(BOOLEAN) \subseteq F
  BY DEF HostFrames
<1>2. Hello(None) \notin Inputs /\ Hello(None) \notin RequestsOf(Ops) /\ Hello(None) \notin Byes(BOOLEAN)
  BY DEF Hello, Inputs, RequestsOf, Byes
<1> HIDE DEF F
<1>3. ASSUME NEW E, WritesOf(E), E \subseteq F, Hello(None) \notin E
      PROVE  /\ h2a[c] = <<>> /\ ~up[c] => h2a'[c] = <<>>
             /\ h2a'[c] # <<>> /\ Head(h2a'[c]) = Hello(None) => h2a[c] # <<>> /\ Head(h2a[c]) = Hello(None)
  <2>1. PICK d \in 0..MaxConns, frames \in Seq(E) : h2a' = Written(h2a, d, frames)
    BY <1>3 DEF WritesOf
  <2>2. /\ ~up[c] => h2a'[c] = h2a[c]
        /\ h2a[c] # <<>> => h2a'[c] # <<>> /\ Head(h2a'[c]) = Head(h2a[c])
        /\ h2a[c] = <<>> /\ h2a'[c] # <<>> => Head(h2a'[c]) \in E
    <3>1. h2a \in [Conns -> Seq(F)] /\ E \subseteq F /\ frames \in Seq(E)
      BY <1>0, <1>3
    <3> QED  BY <2>1, <3>1, WrittenHead
  <2> QED  BY <1>3, <2>2
<1>4. ASSUME NEW d \in Conns, Cut(d)
      PROVE  /\ h2a[c] = <<>> => h2a'[c] = <<>>
             /\ up'[c] => h2a'[c] = h2a[c]
  BY <1>0, <1>4, CutIs, ShortenedEmpty
<1>5. ASSUME NEW d \in Conns, Introduce(d)
      PROVE  /\ h2a[c] = <<>> => h2a'[c] = <<>>
             /\ aconn'[c] = "none" /\ up'[c] => h2a'[c] = h2a[c]
  <2>1. client.cur # d /\ h2a[d] # <<>>
    BY <1>5, HelloTaken
  <2>2. c # d => Shortened(h2a'[c], h2a[c]) /\ (up'[c] => h2a'[c] = h2a[c])
    BY <1>0, <1>5, <2>1, IntroduceIs
  <2>3. aconn'[d] = "open"
    BY <1>5 DEF Introduce, LinkBase, RemoteTypeOK, AgentTypes
  <2> QED  BY <2>1, <2>2, <2>3, ShortenedEmpty
<1>6. ASSUME NEW d \in Conns, aconn[d] # "none", h2a[d] # <<>>, h2a' = [h2a EXCEPT ![d] = Tail(@)]
      PROVE  /\ h2a[c] = <<>> => h2a'[c] = <<>>
             /\ aconn[c] = "none" => h2a'[c] = h2a[c]
  BY <1>0, <1>6
<1> QED  BY <1>1, <1>2, <1>3, <1>4, <1>5, <1>6 DEF HostWireMoves

\* How the frames to the host move.
AgentWireMoves ==
  \/ a2h' = a2h
  \/ \E d \in Conns : Cut(d) \/ Introduce(d)
  \/ \E d \in Conns : (Install(d) \/ Dispatch(d)) /\ a2h[d] # <<>> /\ a2h' = [a2h EXCEPT ![d] = Tail(@)]
  \/ \E d \in Conns : client.cur = d /\ Flush(d) /\ a2h' = [a2h EXCEPT ![d] = @ \o client.outbox]
  \/ \E d \in Conns : client.cur = d /\ SendFrames(d) /\ a2h' = [a2h EXCEPT ![d] = @ \o NextFrames.frames]

LEMMA AgentWireMovesOnly == ASSUME LinkBase, [Next]_vars PROVE AgentWireMoves
<1>1. \A d \in Conns : ConnectionLost(d) \/ Closer(d) \/ Break(d) => Cut(d)
  BY DEF ConnectionLost, Closer, Break
<1>2. \A d \in Conns : Install(d) \/ Dispatch(d) => a2h[d] # <<>> /\ a2h' = [a2h EXCEPT ![d] = Tail(@)]
  BY DEF Install, Dispatch
<1>3. \A d \in Conns : Flush(d) => client.cur = d /\ a2h' = [a2h EXCEPT ![d] = @ \o client.outbox]
  BY DEF Flush
<1>4. \A d \in Conns : SendFrames(d) => client.cur = d /\ a2h' = [a2h EXCEPT ![d] = @ \o NextFrames.frames]
  BY DEF SendFrames
<1> QED  BY <1>1, <1>2, <1>3, <1>4, Changes DEF AgentWireMoves

LEMMA DialInit == Init => DialInv
  BY DEF Init, DialInv

\* The first two parts, of the link and its supervisor.
LEMMA DialedStep ==
  ASSUME LinkBase, DialInv, [Next]_vars
  PROVE  /\ link'.dial # 0 => link'.conn = 0 /\ sup'.frames = <<>>
         /\ sup'.pc = "idle" => sup'.frames = <<>>
         /\ link'.dial = link.dial \/ Launch \/ \E c \in Conns : LaunchFails(c) \/ Install(c)
<1>0. /\ link \in Links /\ sup \in [pc : {"idle", "resend"}, frames : Seq(RequestsOf(Ops))]
  BY DEF LinkBase, RemoteTypeOK, HostTypes
<1>1. CASE Launch
  <2>1. \E c, st : link' = [link EXCEPT !.dial = c, !.wake = FALSE, !.status = st]
    <3>1. \E c \in Conns :
            link' = [link EXCEPT !.dial = c, !.wake = FALSE,
                                 !.status = IF link.gen = 0 THEN "connecting" ELSE "reconnecting"]
      BY <1>1 DEF Launch
    <3> QED  BY <3>1
  <2>2. link'.conn = link.conn /\ link.conn = 0 /\ sup.pc = "idle" /\ sup' = sup
    BY <1>0, <1>1, <2>1 DEF Launch, Links
  <2> QED  BY <1>1, <2>2 DEF DialInv
<1>2. ASSUME NEW c \in Conns, LaunchFails(c)
      PROVE  link'.dial = 0 /\ sup' = sup
  BY <1>0, <1>2 DEF LaunchFails, Links
<1>3. ASSUME NEW c \in Conns, Install(c)
      PROVE  link'.dial = 0 /\ (sup' = sup \/ sup'.pc = "resend")
  <2>1. \/ link' = [link EXCEPT !.dial = 0]
        \/ link' = [link EXCEPT !.dial = 0, !.conn = c, !.gen = c, !.status = "connected"]
    BY <1>3 DEF Install
  <2>2. sup' = sup \/ sup' = [pc |-> "resend", frames |-> Resent]
    BY <1>3 DEF Install
  <2>3. link'.dial = 0
    BY <1>0, <2>1 DEF Links
  <2>4. sup'.pc = "resend" \/ sup' = sup
    BY <2>2
  <2> QED  BY <2>3, <2>4
<1>4. CASE ~Launch /\ \A c \in Conns : ~LaunchFails(c) /\ ~Install(c)
  <2>1. link'.dial = link.dial /\ link'.conn \in {link.conn, 0}
    <3>1. CASE Spawn \/ Kill \/ Release \/ RegisterClose \/ SpawnFails
      <4>1. PICK op, ps : Register(op, ps)
        BY <3>1 DEF Spawn, Kill, Release, RegisterClose, SpawnFails
      <4>2. link' = link \/ link' = [link EXCEPT !.wake = @ \/ link.status = "lost"]
        BY <4>1 DEF Register
      <4> QED  BY <1>0, <4>2 DEF Links
    <3>2. CASE GiveUp("lost") \/ GiveUp("unavailable")
      <4>1. PICK status : link' = [link EXCEPT !.status = status, !.lost = @ + 1, !.wake = FALSE]
        BY <3>2 DEF GiveUp
      <4> QED  BY <1>0, <4>1 DEF Links
    <3>3. CASE LinkClose
      BY <1>0, <3>3 DEF LinkClose, Links
    <3>4. ASSUME NEW c \in Conns, ConnectionLost(c) \/ ReaderDone(c)
          PROVE  link'.dial = link.dial /\ link'.conn \in {link.conn, 0}
      <4>1. link' = link \/ \E st : link' = [link EXCEPT !.conn = 0, !.status = st]
        BY <3>4 DEF ConnectionLost, ReaderDone, Abandoned
      <4> QED  BY <1>0, <4>1 DEF Links
    <3>5. CASE link' = link
      BY <3>5
    <3> QED  BY <1>4, <3>1, <3>2, <3>3, <3>4, <3>5, Changes
  <2>2. CASE sup' = sup
    BY <2>1, <2>2 DEF DialInv
  <2>3. CASE Resend
    <3>1. sup.frames # <<>> /\ sup.pc = "resend" /\ sup'.pc = sup.pc
      BY <1>0, <2>3 DEF Resend
    <3> QED  BY <2>1, <3>1 DEF DialInv
  <2>4. CASE ResendInput
    <3>1. sup.frames = <<>> /\ sup'.frames = sup.frames
      BY <1>0, <2>4 DEF ResendInput
    <3> QED  BY <2>1, <3>1 DEF DialInv
  <2> QED  BY <1>4, <2>1, <2>2, <2>3, <2>4, Changes
<1> QED  BY <1>1, <1>2, <1>3, <1>4 DEF DialInv

LEMMA DialStep == ASSUME LinkBase, DialInv, [Next]_vars PROVE DialInv'
<1>0. /\ hconn \in [Conns -> {"none", "hello", "reader", "done"}] /\ up \in [Conns -> BOOLEAN]
      /\ aconn \in [Conns -> {"none", "open", "serving", "ended"}]
      /\ h2a \in [Conns -> Seq(HostFrames(Ops, BOOLEAN, RingEnd(pipe.ring)))]
      /\ a2h \in [Conns -> Seq(AgentFrames)]
  BY DEF LinkBase, RemoteTypeOK, HostTypes, AgentTypes, WireTypes
<1> SUFFICES ASSUME NEW c \in Conns
             PROVE  /\ hconn'[c] = "none" => ~up'[c] /\ aconn'[c] = "none" /\ h2a'[c] = <<>>
                    /\ aconn'[c] = "none" => a2h'[c] = <<>>
                    /\ up'[c] /\ aconn'[c] = "none" => link'.dial = c
  BY DialedStep DEF DialInv
<1>1. /\ hconn[c] = "none" => ~up[c] /\ aconn[c] = "none" /\ h2a[c] = <<>>
      /\ aconn[c] = "none" => a2h[c] = <<>>
      /\ up[c] /\ aconn[c] = "none" => link.dial = c
  BY DEF DialInv
<1>2. aconn'[c] = "none" => aconn[c] = "none"
  BY ConnectionsStep
<1>3. aconn[c] = "none" => aconn'[c] = "none" \/ (Introduce(c) /\ h2a[c] # <<>>)
  <2>1. \A d \in Conns : Introduce(d) \/ Flush(d) \/ ServeEnds(d) =>
          \E st : aconn' = [aconn EXCEPT ![d] = st]
    BY DEF Introduce, Flush, ServeEnds
  <2>2. Flush(c) \/ ServeEnds(c) => aconn[c] # "none"
    BY ConnsAre DEF Flush, ServeEnds, Reading, LinkBase, CurrentIsKnown
  <2>3. Introduce(c) => h2a[c] # <<>>
    BY DEF Introduce
  <2> QED  BY <1>0, <2>1, <2>2, <2>3, Changes
<1>4. hconn'[c] = "none" => hconn[c] = "none"
  <2>1. \A d \in Conns : LaunchFails(d) \/ Install(d) \/ ReaderDone(d) =>
          hconn' = [hconn EXCEPT ![d] = "done"] \/ hconn' = [hconn EXCEPT ![d] = "reader"]
    BY DEF LaunchFails, Install, ReaderDone
  <2>2. Launch => \E d \in Conns : hconn' = [hconn EXCEPT ![d] = "hello"]
    BY DEF Launch
  <2> QED  BY <1>0, <2>1, <2>2, Changes
<1>5. aconn'[c] = "none" => a2h'[c] = <<>>
  <2> SUFFICES ASSUME aconn'[c] = "none" PROVE a2h'[c] = <<>>
    OBVIOUS
  <2>1. aconn[c] = "none" /\ a2h[c] = <<>> /\ client.cur # c
    BY <1>1, <1>2, ConnsAre DEF LinkBase, CurrentIsKnown
  <2>2. ASSUME NEW d \in Conns, Cut(d) \/ Introduce(d) PROVE a2h'[c] = <<>>
    <3>1. Shortened(a2h'[c], a2h[c])
      <4>1. CASE Cut(d)
        BY <1>0, <4>1, CutIs
      <4>2. CASE Introduce(d)
        BY <1>0, <4>2, HelloTaken, IntroduceIs
      <4> QED  BY <2>2, <4>1, <4>2
    <3> QED  BY <2>1, <3>1, ShortenedEmpty
  <2>3. ASSUME NEW d \in Conns, a2h[d] # <<>>, a2h' = [a2h EXCEPT ![d] = Tail(@)] PROVE a2h'[c] = <<>>
    BY <1>0, <2>1, <2>3
  <2>4. ASSUME NEW d \in Conns, client.cur = d, NEW s, a2h' = [a2h EXCEPT ![d] = @ \o s] PROVE a2h'[c] = <<>>
    BY <1>0, <2>1, <2>4
  <2> QED  BY <2>1, <2>2, <2>3, <2>4, AgentWireMovesOnly DEF AgentWireMoves
<1>6. CASE Launch
  <2>1. PICK d \in Conns : /\ hconn' = [hconn EXCEPT ![d] = "hello"] /\ up' = [up EXCEPT ![d] = TRUE]
                           /\ \E x : h2a' = [h2a EXCEPT ![d] = x]
                           /\ \E st : link' = [link EXCEPT !.dial = d, !.wake = FALSE, !.status = st]
                           /\ aconn' = aconn /\ link.dial = 0
    BY <1>6 DEF Launch
  <2>2. link'.dial = d
    BY <2>1 DEF LinkBase, RemoteTypeOK, HostTypes, Links
  <2>3. CASE c = d
    BY <1>0, <1>5, <2>1, <2>2, <2>3
  <2>4. CASE c # d
    <3>1. hconn'[c] = hconn[c] /\ up'[c] = up[c] /\ h2a'[c] = h2a[c]
      BY <1>0, <2>1, <2>4
    <3> QED  BY <1>1, <1>5, <2>1, <3>1, ConnsAre
  <2> QED  BY <2>3, <2>4
<1>7. CASE ~Launch
  <2>1. up'[c] => up[c]
    BY <1>7, UpFalls
  <2>2. HostWireMoves
    BY <1>7, HostWireMovesOnly
  <2>3. h2a[c] = <<>> /\ ~up[c] => h2a'[c] = <<>>
    BY <2>2, HostWireOf
  <2>4. ASSUME up'[c], aconn'[c] = "none" PROVE link'.dial = c
    <3>1. up[c] /\ aconn[c] = "none" /\ link.dial = c /\ a2h[c] = <<>>
      BY <1>1, <1>2, <2>1, <2>4
    <3>2. ASSUME NEW d \in Conns, LaunchFails(d) \/ Install(d) PROVE FALSE
      <4>1. link.dial = d /\ (~up[d] \/ a2h[d] # <<>>)
        BY <3>2 DEF LaunchFails, Install
      <4> QED  BY <3>1, <4>1
    <3> QED  BY <1>7, <3>1, <3>2, DialedStep
  <2> QED  BY <1>1, <1>3, <1>4, <1>5, <2>1, <2>3, <2>4
<1> QED  BY <1>6, <1>7

-----------------------------------------------------------------------------
(* What a hello without a position means *)

\* No request to spawn travels.
NoSpawnTravels == h2a \in [Conns -> Seq(HostFrames(Ops \ {"spawn"}, BOOLEAN, RingEnd(pipe.ring)))]

\* The hello the agent will take from c names no position.
Unmentioned(c) ==
  /\ aconn[c] = "none" /\ up[c]
  /\ h2a[c] # <<>> /\ Head(h2a[c]) = Hello(None)

\* Such a hello was sent before the session existed, so there is no process yet.
HelloInv ==
  \A c \in Conns :
    Unmentioned(c) /\ pipe.st = "open" => ses.starts = 0 /\ client.spawning = 0 /\ NoSpawnTravels

\* While a connection is dialled nothing but input is written.
LEMMA DialingTravels ==
  ASSUME LinkBase, [Next]_vars, ~Launch, link.conn = 0, sup.frames = <<>>, NoSpawnTravels
  PROVE  NoSpawnTravels'
<1> DEFINE n == RingEnd(pipe'.ring)
           F == HostFrames(Ops \ {"spawn"}, BOOLEAN, n)
<1>0. /\ pipe \in Pipes /\ got \in Seq(Nat) /\ a2h \in [Conns -> Seq(AgentFrames)] /\ up \in [Conns -> BOOLEAN]
  BY DEF LinkBase, RemoteTypeOK, HostTypes, WireTypes, ObserverTypes
<1>1. RingEnd(pipe.ring) \in Nat /\ n \in Nat /\ RingEnd(pipe.ring) <= n
  BY <1>0, PipeStep
<1>2. HostFrames(Ops \ {"spawn"}, BOOLEAN, RingEnd(pipe.ring)) \subseteq F
  BY <1>1, FramesFit
<1>3. h2a \in [Conns -> Seq(F)]
  BY <1>2, ChannelsFit DEF NoSpawnTravels
<1>4. Inputs \subseteq F
  BY DEF HostFrames
<1> HIDE DEF F
<1>5. ASSUME WritesOf(Inputs) PROVE h2a' \in [Conns -> Seq(F)]
  BY <1>3, <1>4, <1>5, WritesOfKeeps
<1>6. ASSUME NEW d \in Conns, Cut(d) PROVE h2a' \in [Conns -> Seq(F)]
  BY <1>0, <1>3, <1>6, CutIs
<1>7. ASSUME NEW d \in Conns, Introduce(d) PROVE h2a' \in [Conns -> Seq(F)]
  BY <1>0, <1>3, <1>7, HelloTaken, IntroduceIs
<1>8. ASSUME NEW d \in Conns, h2a[d] # <<>>, h2a' = [h2a EXCEPT ![d] = Tail(@)] PROVE h2a' \in [Conns -> Seq(F)]
  BY <1>3, <1>8, TailIs
<1>9. h2a' \in [Conns -> Seq(F)]
  <2>1. \/ h2a' = h2a \/ WritesOf(Inputs) \/ \E d \in Conns : Cut(d) \/ Introduce(d)
        \/ \E d \in Conns : h2a[d] # <<>> /\ h2a' = [h2a EXCEPT ![d] = Tail(@)]
    BY HostWireMovesOnly DEF HostWireMoves
  <2>2. h2a' = h2a => h2a' \in [Conns -> Seq(F)]
    BY <1>3
  <2>3. CASE \E d \in Conns : Cut(d)
    BY <1>6, <2>3
  <2>4. CASE \E d \in Conns : Introduce(d)
    BY <1>7, <2>4
  <2>5. CASE \E d \in Conns : h2a[d] # <<>> /\ h2a' = [h2a EXCEPT ![d] = Tail(@)]
    BY <1>8, <2>5
  <2> QED  BY <1>5, <2>1, <2>2, <2>3, <2>4, <2>5
<1> QED  BY <1>9 DEF NoSpawnTravels, F

\* A spawn begins with a request for it.
LEMMA BeginSpawnTravels ==
  ASSUME NoSpawnTravels, NEW c \in Conns, BeginSpawn(c) PROVE FALSE
<1>1. h2a[c] # <<>> /\ Head(h2a[c]) = Request("spawn") /\ Request("spawn").k = "request" /\ Request("spawn").op = "spawn"
  BY DEF BeginSpawn, Request
<1>2. Head(h2a[c]).op \in Ops \ {"spawn"}
  BY <1>1, RequestTaken DEF NoSpawnTravels
<1> QED  BY <1>1, <1>2

LEMMA HelloStep == ASSUME LinkBase, SpawnInv, DialInv, HelloInv, [Next]_vars PROVE HelloInv'
<1> SUFFICES ASSUME NEW c \in Conns, Unmentioned(c)', pipe'.st = "open"
             PROVE  ses'.starts = 0 /\ client'.spawning = 0 /\ NoSpawnTravels'
  BY DEF HelloInv
<1>0. /\ pipe \in Pipes /\ up \in [Conns -> BOOLEAN] /\ RingEnd(pipe.ring) \in Nat
      /\ h2a \in [Conns -> Seq(HostFrames(Ops, BOOLEAN, RingEnd(pipe.ring)))]
  BY PipeFields DEF LinkBase, RemoteTypeOK, HostTypes, WireTypes
<1>1. /\ aconn'[c] = "none" /\ aconn[c] = "none" /\ up'[c]
      /\ h2a'[c] # <<>> /\ Head(h2a'[c]) = Hello(None)
  BY ConnectionsStep DEF Unmentioned
<1>2. ~Launch
  <2> SUFFICES ASSUME Launch PROVE FALSE
    OBVIOUS
  <2>1. PICK d \in Conns :
          /\ up' = [up EXCEPT ![d] = TRUE] /\ pipe' = pipe /\ link.dial = 0
          /\ h2a' = [h2a EXCEPT ![d] = <<Hello(IF pipe.st = "open" THEN RingEnd(pipe.ring) ELSE None)>>]
    BY DEF Launch
  <2>2. CASE c = d
    <3>1. h2a'[c] = <<Hello(RingEnd(pipe.ring))>>
      BY <1>0, <2>1, <2>2
    <3>2. Hello(RingEnd(pipe.ring)) = Hello(None)
      BY <1>1, <3>1
    <3>3. RingEnd(pipe.ring) = None
      BY <3>2 DEF Hello
    <3> QED  BY <1>0, <3>3 DEF None
  <2>3. CASE c # d
    <3>1. up[c]
      BY <1>0, <1>1, <2>1, <2>3
    <3> QED  BY <1>1, <2>1, <3>1, ConnsAre DEF DialInv
  <2> QED  BY <2>2, <2>3
<1>3. up[c] /\ h2a[c] # <<>> /\ Head(h2a[c]) = Hello(None)
  BY <1>1, <1>2, UpFalls, HostWireMovesOnly, HostWireOf
<1>4. link.conn = 0 /\ sup.frames = <<>>
  BY <1>1, <1>3, ConnsAre DEF DialInv
<1>5. ses.starts = 0 /\ client.spawning = 0 /\ NoSpawnTravels
  <2>1. CASE Spawn
    <3>1. pipe.st = "none"
      BY <2>1, PipeStages
    <3> QED  BY <3>1 DEF SpawnInv, NoSpawn, Asked, NoSpawnTravels
  <2>2. CASE ~Spawn
    <3>1. pipe.st = "open"
      BY <2>2, PipeStages
    <3> QED  BY <1>1, <1>3, <3>1 DEF HelloInv, Unmentioned
  <2> QED  BY <2>1, <2>2
<1>6. NoSpawnTravels'
  BY <1>2, <1>4, <1>5, DialingTravels
<1>7. client'.spawning = 0
  BY <1>5, SpawningMoves, BeginSpawnTravels
<1>8. ses'.starts = 0
  BY <1>5, StartsMove
<1> QED  BY <1>6, <1>7, <1>8

-----------------------------------------------------------------------------
(* What the process wrote *)

\* While there was one process: what travels to the host is true of what it
\* wrote, and the host is not past it.
WroteInv ==
  /\ ses.starts = 0 => /\ wrote = [n |-> 0, done |-> FALSE] /\ ses.exit = None /\ ses.ring = EmptyRing
                       /\ ~ses.done /\ ~ses.live
  /\ ses.starts = 1 => /\ wrote.n = RingEnd(ses.ring) /\ wrote.done = ses.done
                       /\ ses.exit # None => ses.done /\ ses.exit = RingEnd(ses.ring)
  /\ ses.starts <= 1 => a2h \in [Conns -> Seq(TrueFrames(wrote.n, wrote.done))]
  /\ RingEnd(pipe.ring) <= wrote.n
  /\ pipe.exit # None => wrote.done /\ RingEnd(pipe.ring) = wrote.n

LEMMA TrueFramesFit ==
  ASSUME NEW m \in Nat, NEW n \in Nat, m <= n, NEW done \in BOOLEAN, NEW ended \in BOOLEAN,
         done => ended /\ m = n
  PROVE  TrueFrames(m, done) \subseteq TrueFrames(n, ended)
<1> SUFFICES ASSUME NEW f \in TrueFrames(m, done) PROVE f \in TrueFrames(n, ended)
  OBVIOUS
<1>1. /\ f \in AgentFrames
      /\ f.k = "output" => f.from + Len(f.data) <= m
      /\ f.k = "gap" => f.to <= m
      /\ f.k = "exit" => done /\ f.end = m
  BY DEF TrueFrames
<1>2. f.k = "output" => f.from + Len(f.data) <= n
  <2>1. f.k = "output" => f.from + Len(f.data) \in Nat
    BY <1>1, AgentFrameKinds, LenProperties
  <2> QED  BY <1>1, <2>1
<1>3. f.k = "gap" => f.to <= n
  BY <1>1, AgentFrameKinds
<1> QED  BY <1>1, <1>2, <1>3 DEF TrueFrames

\* What the observer saw changes as the process writes and ends.
LEMMA WroteMoves ==
  ASSUME LinkBase, WroteInv, [Next]_vars
  PROVE  /\ wrote.n <= wrote'.n
         /\ wrote.done => wrote'.done /\ wrote'.n = wrote.n
         /\ ses.starts # 1 => wrote' = wrote
         /\ ~RecordOutput /\ ~StreamDone => wrote' = wrote
         /\ RecordOutput /\ ses.starts = 1 => wrote' = [wrote EXCEPT !.n = @ + Burst] /\ ~wrote.done
         /\ StreamDone /\ ses.starts = 1 => wrote' = [wrote EXCEPT !.done = TRUE] /\ ~wrote.done
<1>0. wrote \in [n : Nat, done : BOOLEAN] /\ Burst \in Nat /\ ses.starts \in Nat
  BY ConstantsFit, SessionFields DEF LinkBase, RemoteTypeOK, ObserverTypes, AgentTypes
<1>1. CASE ~RecordOutput /\ ~StreamDone
  BY <1>0, <1>1, Changes
<1>2. CASE RecordOutput
  <2>1. ~ses.done /\ ses.starts > 0 /\ wrote' = IF ses.starts = 1 THEN [wrote EXCEPT !.n = @ + Burst] ELSE wrote
    BY <1>2 DEF RecordOutput
  <2>2. ~StreamDone
    <3>2. RingEnd(ses'.ring) = RingEnd(ses.ring) + Burst /\ RingEnd(ses.ring) \in Nat
      BY <1>2, RecordOutputIs, SessionFields DEF LinkBase, RemoteTypeOK, AgentTypes
    <3>3. StreamDone => ses'.ring = ses.ring
      BY SettlingIs DEF LinkBase, RemoteTypeOK, AgentTypes
    <3>4. Burst > 0
      BY ConstantsFit
    <3> QED  BY <1>0, <3>2, <3>3, <3>4
  <2>3. CASE ses.starts = 1
    BY <1>0, <1>2, <2>1, <2>2, <2>3 DEF WroteInv
  <2>4. CASE ses.starts # 1
    BY <1>0, <1>2, <2>1, <2>2, <2>4
  <2> QED  BY <2>3, <2>4
<1>3. CASE StreamDone /\ ~RecordOutput
  <2>1. ~ses.done /\ ses.starts > 0 /\ wrote' = IF ses.starts = 1 THEN [wrote EXCEPT !.done = TRUE] ELSE wrote
    BY <1>3 DEF StreamDone
  <2>3. CASE ses.starts = 1
    BY <1>0, <1>3, <2>1, <2>3 DEF WroteInv
  <2>4. CASE ses.starts # 1
    BY <1>0, <1>3, <2>1, <2>4
  <2> QED  BY <2>3, <2>4
<1> QED  BY <1>1, <1>2, <1>3

-----------------------------------------------------------------------------
(* What a frame makes of the stream *)

\* The frame brings whoever takes it to offset n.
Reaches(f, n) == \/ f.k = "output" /\ f.from + Len(f.data) >= n
                 \/ f.k = "gap" /\ f.to >= n

\* The host moves on by a gap and new bytes, inside what was written.
StreamFollows(gap, count) ==
  /\ pipe.exit = None /\ gap + count > 0 /\ RingEnd(pipe.ring) + gap + count <= wrote.n
  /\ RingEnd(pipe'.ring) = RingEnd(pipe.ring) + gap + count
  /\ pipe'.lost = pipe.lost + gap /\ pipe'.exit = pipe.exit
  /\ got' = got \o [i \in 1..count |-> RingEnd(pipe.ring) + gap + i]

\* The host learns the end.
StreamEnds ==
  /\ pipe.exit = None /\ pipe'.exit = wrote.n /\ wrote.done
  /\ RingEnd(pipe'.ring) = wrote.n /\ pipe'.lost = pipe.lost /\ got' = got

LEMMA NumberedIs ==
  ASSUME NEW s \in Seq(Nat), NEW from, Numbered(from, s)
  PROVE  s = [i \in 1..Len(s) |-> from + i]
<1>1. s \in [1..Len(s) -> Nat]
  BY LenProperties
<1> QED  BY <1>1 DEF Numbered

LEMMA TrueFrameKinds ==
  ASSUME NEW n, NEW done, NEW f \in TrueFrames(n, done)
  PROVE  /\ f \in AgentFrames
         /\ f.k = "output" => f.from + Len(f.data) <= n
         /\ f.k = "gap" => f.to <= n
         /\ f.k = "exit" => done /\ f.end = n
  BY DEF TrueFrames

LEMMA DispatchMoves ==
  ASSUME LinkBase, SpawnInv, WroteInv, NEW c \in Conns, Dispatch(c)
  PROVE  /\ \/ UNCHANGED <<pipe, got>>
            \/ \E gap, count \in Nat : StreamFollows(gap, count)
            \/ Head(a2h[c]).k = "exit" /\ pipe.st = "open" /\ StreamEnds
         /\ pipe.st = "open" =>
              \A n \in Nat : Reaches(Head(a2h[c]), n) => RingEnd(pipe'.ring) >= n
<1> DEFINE f   == Head(a2h[c])
           end == RingEnd(pipe.ring)
<1>0. /\ pipe \in Pipes /\ got \in Seq(Nat) /\ a2h \in [Conns -> Seq(AgentFrames)] /\ wrote.n \in Nat
      /\ end \in Nat /\ ses.starts \in Nat /\ pipe.lost \in Nat
  BY PipeFields, SessionFields
     DEF LinkBase, RemoteTypeOK, HostTypes, WireTypes, ObserverTypes, AgentTypes
<1>1. \/ f.k = "output" /\ Deliver(f)
      \/ f.k = "gap" /\ TakeGap(f)
      \/ f.k = "exit" /\ Finish(f)
      \/ f.k = "response" /\ UNCHANGED <<pipe, got>>
  BY DEF Dispatch
<1>2. a2h[c] # <<>> /\ f \in AgentFrames
  BY <1>0, TailIs DEF Dispatch
<1>3. CASE pipe.st # "open"
  BY <1>1, <1>3 DEF Deliver, TakeGap, Finish, Listed
<1>4. CASE pipe.st = "open"
  <2>1. a2h \in [Conns -> Seq(TrueFrames(wrote.n, wrote.done))]
    BY <1>0, <1>4 DEF SpawnInv, WroteInv
  <2>2. f \in TrueFrames(wrote.n, wrote.done)
    BY <1>2, <2>1, TailIs
  <2>3. end <= wrote.n /\ (pipe.exit # None => end = wrote.n)
    BY DEF WroteInv
  <2> HIDE DEF f
  <2>4. CASE f.k = "output" /\ Deliver(f)
    <3>1. /\ f.from \in Nat /\ f.data \in Seq(Nat) /\ Numbered(f.from, f.data)
          /\ f.from + Len(f.data) <= wrote.n
      BY <2>2, <2>4, TrueFrameKinds, AgentFrameKinds
    <3>2. f.from + Len(f.data) \in Nat
      BY <3>1, LenProperties
    <3>3. CASE f.from + Len(f.data) <= end
      <4>1. UNCHANGED <<pipe, got>>
        BY <2>4, <3>3 DEF Deliver
      <4>2. \A n \in Nat : Reaches(f, n) => end >= n
        BY <1>0, <2>4, <3>2, <3>3 DEF Reaches
      <4> QED  BY <4>1, <4>2 DEF f
    <3>4. CASE f.from + Len(f.data) > end
      <4>1. PICK gap \in Nat, count \in Nat, new \in Seq(Nat) :
              /\ end + gap + count = f.from + Len(f.data)
              /\ Len(new) = count /\ Numbered(end + gap, new)
              /\ RingEnd(pipe'.ring) = f.from + Len(f.data)
              /\ pipe'.lost = pipe.lost + gap /\ pipe'.exit = pipe.exit
              /\ got' = got \o new
        BY <1>0, <1>4, <2>4, <3>1, <3>4, DeliverIs DEF Listed
      <4>2. new = [i \in 1..count |-> end + gap + i]
        BY <4>1, NumberedIs
      <4>3. pipe.exit = None /\ gap + count > 0
        BY <1>0, <2>3, <3>1, <3>2, <3>4, <4>1
      <4>4. StreamFollows(gap, count)
        BY <3>1, <4>1, <4>2, <4>3 DEF StreamFollows
      <4>5. \A n \in Nat : Reaches(f, n) => RingEnd(pipe'.ring) >= n
        BY <2>4, <3>2, <4>1 DEF Reaches
      <4> QED  BY <4>4, <4>5 DEF f
    <3> QED  BY <1>0, <3>2, <3>3, <3>4
  <2>5. CASE f.k = "gap" /\ TakeGap(f)
    <3>1. f.to \in Nat /\ f.to <= wrote.n
      BY <2>2, <2>5, TrueFrameKinds, AgentFrameKinds
    <3>2. CASE f.to <= end
      <4>1. UNCHANGED <<pipe, got>>
        BY <1>0, <2>5, <3>1, <3>2 DEF TakeGap
      <4>2. \A n \in Nat : Reaches(f, n) => end >= n
        BY <1>0, <2>5, <3>1, <3>2 DEF Reaches
      <4> QED  BY <4>1, <4>2 DEF f
    <3>3. CASE f.to > end
      <4>1. /\ RingEnd(pipe'.ring) = f.to /\ pipe'.lost = pipe.lost + (f.to - end)
            /\ pipe'.exit = pipe.exit /\ got' = got
        BY <1>0, <1>4, <2>5, <3>1, <3>3, TakeGapIs DEF Listed
      <4>2. f.to - end \in Nat /\ f.to - end > 0 /\ end + (f.to - end) + 0 = f.to
        BY <1>0, <3>1, <3>3
      <4>3. pipe.exit = None
        BY <1>0, <2>3, <3>1, <3>3
      <4>4. got \o [i \in 1..0 |-> end + (f.to - end) + i] = got
        <5>1. [i \in 1..0 |-> end + (f.to - end) + i] = <<>>
          OBVIOUS
        <5> QED  BY <1>0, <5>1, ConcatEmptySeq
      <4>5. StreamFollows(f.to - end, 0)
        BY <1>0, <3>1, <4>1, <4>2, <4>3, <4>4 DEF StreamFollows
      <4>6. \A n \in Nat : Reaches(f, n) => RingEnd(pipe'.ring) >= n
        BY <2>5, <4>1 DEF Reaches
      <4> QED  BY <4>2, <4>5, <4>6 DEF f
    <3> QED  BY <1>0, <3>1, <3>2, <3>3
  <2>6. CASE f.k = "exit" /\ Finish(f)
    <3>1. f.end \in Nat /\ f.end = wrote.n /\ wrote.done
      BY <2>2, <2>6, TrueFrameKinds, AgentFrameKinds
    <3>2. \A n \in Nat : ~Reaches(f, n)
      BY <2>6 DEF Reaches
    <3>3. CASE pipe.exit # None
      BY <2>6, <3>2, <3>3 DEF Finish, f
    <3>4. CASE pipe.exit = None
      <4>1. /\ RingEnd(pipe'.ring) = Larger(f.end, end) /\ pipe'.lost = pipe.lost
            /\ pipe'.exit = f.end /\ got' = got
        BY <1>0, <1>4, <2>6, <3>1, <3>4, FinishIs DEF Listed
      <4>2. Larger(f.end, end) = wrote.n
        BY <1>0, <2>3, <3>1 DEF Larger
      <4> QED  BY <1>4, <2>6, <3>1, <3>2, <3>4, <4>1, <4>2 DEF StreamEnds, f
    <3> QED  BY <3>3, <3>4
  <2>7. CASE f.k = "response" /\ UNCHANGED <<pipe, got>>
    BY <2>7 DEF Reaches, f
  <2> QED  BY <1>1, <2>4, <2>5, <2>6, <2>7 DEF f
<1> QED  BY <1>3, <1>4

LEMMA WroteInit == Init => WroteInv
<1> SUFFICES ASSUME Init PROVE WroteInv
  OBVIOUS
<1>1. /\ wrote = [n |-> 0, done |-> FALSE] /\ a2h = [c \in Conns |-> <<>>]
      /\ ses.starts = 0 /\ ses.exit = None /\ ses.ring = EmptyRing /\ ~ses.done /\ ~ses.live
      /\ pipe.ring = EmptyRing /\ pipe.exit = None
  BY DEF Init
<1>2. a2h \in [Conns -> Seq(TrueFrames(wrote.n, wrote.done))]
  BY <1>1, EmptySeq
<1>3. RingEnd(pipe.ring) = 0 /\ wrote.n = 0
  BY <1>1, EmptyRingIs
<1> QED  BY <1>1, <1>2, <1>3 DEF WroteInv

\* The observer and the session agree.
LEMMA WroteSession ==
  ASSUME LinkBase, WroteInv, [Next]_vars
  PROVE  /\ ses'.starts = 0 => /\ wrote' = [n |-> 0, done |-> FALSE] /\ ses'.exit = None /\ ses'.ring = EmptyRing
                               /\ ~ses'.done /\ ~ses'.live
         /\ ses'.starts = 1 => /\ wrote'.n = RingEnd(ses'.ring) /\ wrote'.done = ses'.done
                               /\ ses'.exit # None => ses'.done /\ ses'.exit = RingEnd(ses'.ring)
<1>0. /\ ses \in Sessions /\ client \in Clients /\ fed \in Seq(Nat) /\ ses.starts \in Nat
      /\ wrote \in [n : Nat, done : BOOLEAN]
  BY SessionFields DEF LinkBase, RemoteTypeOK, AgentTypes, ObserverTypes
<1>1. CASE RecordOutput
  <2>1. ses.starts > 0 /\ ~ses.done
    BY <1>1 DEF RecordOutput
  <2>2. /\ ses'.starts = ses.starts /\ RingEnd(ses'.ring) = RingEnd(ses.ring) + Burst
        /\ ses'.done = ses.done /\ ses'.exit = ses.exit
    BY <1>0, <1>1, RecordOutputIs
  <2>3. CASE ses.starts = 1
    <3>1. wrote' = [wrote EXCEPT !.n = @ + Burst]
      BY <1>1, <2>3, WroteMoves
    <3>2. wrote'.n = wrote.n + Burst /\ wrote'.done = wrote.done
      BY <1>0, <3>1
    <3> QED  BY <2>1, <2>2, <2>3, <3>2 DEF WroteInv
  <2>4. CASE ses.starts # 1
    BY <1>0, <2>1, <2>2, <2>4
  <2> QED  BY <2>3, <2>4
<1>2. CASE (StreamDone \/ Reaped) /\ ~RecordOutput
  <2>1. ses.starts > 0
    BY <1>2 DEF StreamDone, Reaped
  <2>2. /\ ses'.starts = ses.starts /\ ses'.ring = ses.ring /\ ses'.done = (ses.done \/ StreamDone)
        /\ ses'.exit = ses.exit \/ (ses'.exit = RingEnd(ses.ring) /\ ses'.done)
    BY <1>0, <1>2, SettlingIs
  <2>3. CASE ses.starts = 1
    <3>1. IF StreamDone THEN wrote' = [wrote EXCEPT !.done = TRUE] ELSE wrote' = wrote
      BY <1>2, <2>3, WroteMoves
    <3>2. wrote'.n = wrote.n /\ wrote'.done = (wrote.done \/ StreamDone)
      BY <1>0, <3>1
    <3>3. /\ wrote.n = RingEnd(ses.ring) /\ wrote.done = ses.done
          /\ ses.exit # None => ses.done /\ ses.exit = RingEnd(ses.ring)
      BY <2>3 DEF WroteInv
    <3>4. wrote'.n = RingEnd(ses'.ring) /\ wrote'.done = ses'.done
      BY <2>2, <3>2, <3>3
    <3>5. ses'.exit # None => ses'.done /\ ses'.exit = RingEnd(ses'.ring)
      BY <2>2, <3>3
    <3> QED  BY <2>2, <2>3, <3>4, <3>5
  <2>4. CASE ses.starts # 1
    BY <1>0, <2>1, <2>2, <2>4
  <2> QED  BY <2>3, <2>4
<1>3. CASE EndSpawn /\ ~RecordOutput /\ ~StreamDone
  <2>1. /\ ses'.starts = ses.starts + 1 /\ ses'.ring = EmptyRing /\ ses'.done = FALSE /\ ses'.exit = None
        /\ wrote' = wrote
    BY <1>0, <1>3, EndSpawnIs, WroteMoves
  <2>2. ses'.starts = 1 => wrote = [n |-> 0, done |-> FALSE]
    BY <1>0, <2>1 DEF WroteInv
  <2>3. ses'.starts = 1 => wrote'.n = RingEnd(ses'.ring) /\ wrote'.done = ses'.done
    <3>1. RingEnd(ses'.ring) = 0
      BY <2>1, EmptyRingIs
    <3>2. ses'.starts = 1 => wrote'.n = 0 /\ wrote'.done = FALSE
      BY <2>1, <2>2
    <3> QED  BY <2>1, <3>1, <3>2
  <2>4. ses'.starts # 0
    BY <1>0, <2>1
  <2> QED  BY <2>1, <2>3, <2>4
<1>4. CASE ~RecordOutput /\ ~StreamDone /\ ~Reaped /\ ~EndSpawn
  <2>1. wrote' = wrote
    BY <1>4, WroteMoves
  <2>2. /\ ses'.starts = ses.starts /\ ses'.ring = ses.ring /\ ses'.done = ses.done /\ ses'.exit = ses.exit
        /\ ses'.live => ses.live
    <3>1. CASE SessionKept
      BY <3>1 DEF SessionKept
    <3>2. ASSUME NEW c \in Conns, ReadLoop(c), Head(h2a[c]).k = "input", TakeInput(Head(h2a[c]))
          PROVE  /\ ses'.starts = ses.starts /\ ses'.ring = ses.ring /\ ses'.done = ses.done
                 /\ ses'.exit = ses.exit /\ (ses'.live => ses.live)
      BY <1>0, <3>2, InputTaken, TakeInputIs
    <3> QED  BY <1>4, <3>1, <3>2, SessionMovesOnly DEF SessionMoves
  <2> QED  BY <2>1, <2>2 DEF WroteInv
<1> QED  BY <1>1, <1>2, <1>3, <1>4

\* What the agent sends is true.
LEMMA WroteTravels ==
  ASSUME LinkBase, WroteInv, [Next]_vars, ses'.starts <= 1
  PROVE  a2h' \in [Conns -> Seq(TrueFrames(wrote'.n, wrote'.done))]
<1> DEFINE F == TrueFrames(wrote'.n, wrote'.done)
<1>0. /\ up \in [Conns -> BOOLEAN] /\ ses \in Sessions /\ ses.starts \in Nat
      /\ h2a \in [Conns -> Seq(HostFrames(Ops, BOOLEAN, RingEnd(pipe.ring)))]
      /\ wrote \in [n : Nat, done : BOOLEAN] /\ client.outbox \in Seq(Replies)
  BY SessionFields DEF LinkBase, RemoteTypeOK, WireTypes, AgentTypes, ObserverTypes, Clients
<1>1. ses.starts <= 1
  BY <1>0, StartsMove
<1>2. a2h \in [Conns -> Seq(F)]
  <2>1. wrote' \in [n : Nat, done : BOOLEAN]
    BY WroteStep
  <2>2. wrote.n <= wrote'.n /\ (wrote.done => wrote'.done /\ wrote.n = wrote'.n)
    BY WroteMoves
  <2>3. wrote.n \in Nat /\ wrote'.n \in Nat /\ wrote.done \in BOOLEAN /\ wrote'.done \in BOOLEAN
    BY <1>0, <2>1
  <2>4. TrueFrames(wrote.n, wrote.done) \subseteq F
    BY <2>2, <2>3, TrueFramesFit
  <2>5. a2h \in [Conns -> Seq(TrueFrames(wrote.n, wrote.done))]
    BY <1>1 DEF WroteInv
  <2> HIDE DEF F
  <2> QED  BY <2>4, <2>5, ChannelsFit
<1>3. client.outbox \in Seq(F)
  <2>1. Replies \subseteq F
    BY RepliesAre DEF TrueFrames, Replies
  <2> HIDE DEF F
  <2> QED  BY <1>0, <2>1, SeqMonotonic
<1>4. ASSUME NEW d \in Conns, SendFrames(d) PROVE NextFrames.frames \in Seq(F)
  <2>1. ses.live /\ wrote' = wrote
    BY <1>4 DEF SendFrames
  <2>2. ses.starts = 1
    BY <1>0, <1>1, <2>1 DEF WroteInv
  <2>3. /\ wrote'.n = RingEnd(ses.ring) /\ RingEnd(ses.ring) \in Nat
        /\ ses.exit # None => wrote'.done /\ ses.exit = wrote'.n /\ ses.exit \in Nat
    BY <1>0, <2>1, <2>2, SessionFields DEF WroteInv
  <2>4. /\ OwedChunk.from \in Nat /\ OwedChunk.data \in Seq(Nat) /\ Numbered(OwedChunk.from, OwedChunk.data)
        /\ OwedChunk.from + Len(OwedChunk.data) <= RingEnd(ses.ring)
    BY <1>0, NextFramesAre
  <2>5. OwedChunk.from <= RingEnd(ses.ring) => Gap(OwedChunk.from) \in F
    BY <2>3, <2>4 DEF Gap, TrueFrames, AgentFrames
  <2>6. Output(OwedChunk.from, OwedChunk.data) \in F
    BY <2>3, <2>4 DEF Output, Outputs, TrueFrames, AgentFrames
  <2>7. ses.exit # None => Exit(ses.exit) \in F
    BY <2>3 DEF Exit, TrueFrames, AgentFrames
  <2> HIDE DEF F
  <2> QED  BY <1>0, <2>5, <2>6, <2>7, NextFramesIn
<1> HIDE DEF F
<1>5. ASSUME NEW d \in Conns, Cut(d) \/ Introduce(d) PROVE a2h' \in [Conns -> Seq(F)]
  <2>1. CASE Cut(d)
    BY <1>0, <1>2, <2>1, CutIs
  <2>2. CASE Introduce(d)
    BY <1>0, <1>2, <2>2, HelloTaken, IntroduceIs
  <2> QED  BY <1>5, <2>1, <2>2
<1>6. ASSUME NEW d \in Conns, a2h[d] # <<>>, a2h' = [a2h EXCEPT ![d] = Tail(@)] PROVE a2h' \in [Conns -> Seq(F)]
  BY <1>2, <1>6, TailIs
<1>7. ASSUME NEW d \in Conns, NEW s \in Seq(F), a2h' = [a2h EXCEPT ![d] = @ \o s] PROVE a2h' \in [Conns -> Seq(F)]
  <2>1. a2h[d] \o s \in Seq(F)
    BY <1>2, <1>7, ConcatProperties
  <2> QED  BY <1>2, <1>7, <2>1
<1>8. a2h' \in [Conns -> Seq(F)]
  <2>1. CASE \E d \in Conns : client.cur = d /\ Flush(d) /\ a2h' = [a2h EXCEPT ![d] = @ \o client.outbox]
    BY <1>3, <1>7, <2>1
  <2>2. CASE \E d \in Conns : client.cur = d /\ SendFrames(d) /\ a2h' = [a2h EXCEPT ![d] = @ \o NextFrames.frames]
    BY <1>4, <1>7, <2>2
  <2> QED  BY <1>2, <1>5, <1>6, <2>1, <2>2, AgentWireMovesOnly DEF AgentWireMoves
<1> QED  BY <1>8 DEF F

LEMMA WroteInvStep == ASSUME LinkBase, SpawnInv, WroteInv, [Next]_vars PROVE WroteInv'
<1>0. /\ pipe \in Pipes /\ RingEnd(pipe.ring) \in Nat /\ wrote.n \in Nat /\ wrote'.n \in Nat
  BY PipeFields, WroteStep DEF LinkBase, RemoteTypeOK, HostTypes, ObserverTypes
<1>1. /\ wrote.n <= wrote'.n /\ (wrote.done => wrote'.done /\ wrote'.n = wrote.n)
  BY WroteMoves
<1>2. RingEnd(pipe.ring) <= wrote.n /\ (pipe.exit # None => wrote.done /\ RingEnd(pipe.ring) = wrote.n)
  BY DEF WroteInv
<1>3. /\ RingEnd(pipe'.ring) <= wrote'.n
      /\ pipe'.exit # None => wrote'.done /\ RingEnd(pipe'.ring) = wrote'.n
  <2>1. CASE \A c \in Conns : ~Dispatch(c)
    <3>1. RingEnd(pipe'.ring) = RingEnd(pipe.ring) /\ pipe'.exit = pipe.exit
      BY <1>0, <2>1, StreamKeptStep DEF StreamKept
    <3> QED  BY <1>0, <1>1, <1>2, <3>1
  <2>2. ASSUME NEW c \in Conns, Dispatch(c)
        PROVE  /\ RingEnd(pipe'.ring) <= wrote'.n
               /\ pipe'.exit # None => wrote'.done /\ RingEnd(pipe'.ring) = wrote'.n
    <3>1. wrote' = wrote
      BY <2>2 DEF Dispatch
    <3>2. CASE pipe' = pipe
      BY <1>2, <3>1, <3>2
    <3>3. ASSUME NEW gap \in Nat, NEW count \in Nat, StreamFollows(gap, count)
          PROVE  RingEnd(pipe'.ring) <= wrote.n /\ pipe'.exit = None
      BY <3>3 DEF StreamFollows
    <3>4. CASE StreamEnds
      BY <1>0, <3>1, <3>4 DEF StreamEnds
    <3>5. pipe' = pipe \/ (\E gap, count \in Nat : StreamFollows(gap, count)) \/ StreamEnds
      BY <2>2, DispatchMoves
    <3>6. CASE \E gap, count \in Nat : StreamFollows(gap, count)
      BY <3>1, <3>3, <3>6
    <3> QED  BY <3>2, <3>4, <3>5, <3>6
  <2> QED  BY <2>1, <2>2
<1> QED  BY <1>3, WroteSession, WroteTravels DEF WroteInv

-----------------------------------------------------------------------------
(* What covers the end *)

\* A host at offset e is brought to n by the first m frames of s.
Reached(s, m, e, n) == e >= n \/ \E j \in 1..m : Reaches(s[j], n)

\* Whatever travels before an exit brings the host to it.
ExitCovered(s, e, n) == \A i \in 1..Len(s) : s[i].k = "exit" => Reached(s, i - 1, e, n)

\* Arriving late, or for less, is no worse.
LEMMA ReachesLess ==
  ASSUME NEW f \in AgentFrames, NEW m \in Nat, NEW n \in Nat, n <= m, Reaches(f, m)
  PROVE  Reaches(f, n)
<1>1. CASE f.k = "output"
  <2>1. f.from + Len(f.data) \in Nat
    BY <1>1, AgentFrameKinds, LenProperties
  <2> QED  BY <1>1, <2>1 DEF Reaches
<1>2. CASE f.k = "gap"
  BY <1>2, AgentFrameKinds DEF Reaches
<1> QED  BY <1>1, <1>2 DEF Reaches

LEMMA ReachedLess ==
  ASSUME NEW s \in Seq(AgentFrames), NEW e \in Nat, NEW later \in Nat, e <= later,
         NEW m \in Nat, NEW n \in Nat, n <= m, Reached(s, Len(s), e, m)
  PROVE  Reached(s, Len(s), later, n)
<1>1. \A j \in 1..Len(s) : s[j] \in AgentFrames
  BY LenProperties
<1> QED  BY <1>1, ReachesLess DEF Reached

LEMMA CoveredLater ==
  ASSUME NEW s \in Seq(AgentFrames), NEW e \in Nat, NEW later \in Nat, e <= later, NEW n \in Nat,
         ExitCovered(s, e, n)
  PROVE  ExitCovered(s, later, n)
  BY DEF ExitCovered, Reached

LEMMA CoveredShort ==
  ASSUME NEW s \in Seq(AgentFrames), NEW t, Shortened(t, s), NEW e \in Nat, NEW n \in Nat, ExitCovered(s, e, n)
  PROVE  ExitCovered(t, e, n)
<1>1. PICK i \in 0..Len(s) : t = SubSeq(s, 1, i)
  BY DEF Shortened
<1>2. Len(t) = i /\ i <= Len(s) /\ i \in Nat /\ Len(s) \in Nat /\ \A j \in 1..i : t[j] = s[j]
  BY <1>1, PrefixIs, LenProperties
<1> QED  BY <1>2 DEF ExitCovered, Reached

\* The host takes the first frame.
LEMMA CoveredTail ==
  ASSUME NEW s \in Seq(AgentFrames), s # <<>>, NEW e \in Nat, NEW later \in Nat, e <= later, NEW n \in Nat,
         Reaches(Head(s), n) => later >= n
  PROVE  /\ ExitCovered(s, e, n) => ExitCovered(Tail(s), later, n)
         /\ Reached(s, Len(s), e, n) => Reached(Tail(s), Len(Tail(s)), later, n)
<1>1. /\ Len(s) \in Nat \ {0} /\ Len(Tail(s)) = Len(s) - 1 /\ Head(s) = s[1]
      /\ \A i \in 1..Len(Tail(s)) : Tail(s)[i] = s[i + 1]
  BY HeadTailProperties, LenProperties
<1>2. ASSUME NEW m \in 0..Len(Tail(s)), Reached(s, m + 1, e, n) PROVE Reached(Tail(s), m, later, n)
  <2>1. CASE e >= n
    BY <2>1 DEF Reached
  <2>2. CASE \E j \in 1..(m + 1) : Reaches(s[j], n)
    <3>1. PICK j \in 1..(m + 1) : Reaches(s[j], n)
      BY <2>2
    <3>2. CASE j = 1
      BY <1>1, <3>1, <3>2 DEF Reached
    <3>3. CASE j # 1
      <4>1. j - 1 \in 1..m /\ j - 1 \in 1..Len(Tail(s)) /\ (j - 1) + 1 = j
        BY <1>1, <3>3
      <4>2. Tail(s)[j - 1] = s[j]
        BY <1>1, <4>1
      <4> QED  BY <3>1, <4>1, <4>2 DEF Reached
    <3> QED  BY <3>2, <3>3
  <2> QED  BY <1>2, <2>1, <2>2 DEF Reached
<1>3. ASSUME ExitCovered(s, e, n), NEW i \in 1..Len(Tail(s)), Tail(s)[i].k = "exit"
      PROVE  Reached(Tail(s), i - 1, later, n)
  <2>1. i + 1 \in 1..Len(s) /\ s[i + 1].k = "exit" /\ (i + 1) - 1 = (i - 1) + 1 /\ i - 1 \in 0..Len(Tail(s))
    BY <1>1, <1>3
  <2>2. Reached(s, (i + 1) - 1, e, n)
    BY <1>3, <2>1 DEF ExitCovered
  <2>3. Reached(s, (i - 1) + 1, e, n)
    BY <2>1, <2>2
  <2> QED  BY <1>2, <2>1, <2>3
<1>4. ASSUME Reached(s, Len(s), e, n) PROVE Reached(Tail(s), Len(Tail(s)), later, n)
  <2>1. Len(Tail(s)) \in 0..Len(Tail(s)) /\ Len(Tail(s)) + 1 = Len(s)
    BY <1>1
  <2> QED  BY <1>2, <1>4, <2>1
<1> QED  BY <1>3, <1>4 DEF ExitCovered

\* The agent sends more.
LEMMA CoveredMore ==
  ASSUME NEW s \in Seq(AgentFrames), NEW t \in Seq(AgentFrames), NEW e \in Nat, NEW n \in Nat
  PROVE  /\ ExitCovered(s, e, n) /\ (\A i \in 1..Len(t) : t[i].k = "exit" =>
                                        \/ Reached(s, Len(s), e, n) \/ \E j \in 1..(i - 1) : Reaches(t[j], n))
            => ExitCovered(s \o t, e, n)
         /\ Reached(s, Len(s), e, n) \/ (\E j \in 1..Len(t) : Reaches(t[j], n))
            => Reached(s \o t, Len(s \o t), e, n)
<1> DEFINE r == s \o t
<1>1. /\ Len(s) \in Nat /\ Len(t) \in Nat /\ Len(r) = Len(s) + Len(t)
      /\ \A i \in 1..Len(s) : r[i] = s[i]
      /\ \A i \in 1..Len(t) : r[Len(s) + i] = t[i]
  <2>1. Len(s) \in Nat /\ Len(t) \in Nat
    BY LenProperties
  <2>2. Len(r) = Len(s) + Len(t) /\ \A i \in 1..(Len(s) + Len(t)) : r[i] = IF i <= Len(s) THEN s[i] ELSE t[i - Len(s)]
    BY ConcatProperties
  <2> HIDE DEF r
  <2>3. \A i \in 1..Len(s) : r[i] = s[i]
    BY <2>1, <2>2
  <2>4. ASSUME NEW i \in 1..Len(t) PROVE r[Len(s) + i] = t[i]
    <3>1. Len(s) + i \in 1..(Len(s) + Len(t)) /\ ~(Len(s) + i <= Len(s)) /\ (Len(s) + i) - Len(s) = i
      BY <2>1
    <3> QED  BY <2>2, <3>1
  <2> QED  BY <2>1, <2>2, <2>3, <2>4
<1> HIDE DEF r
<1>2. ASSUME NEW m \in 0..Len(s), NEW k \in Nat, m <= k, Reached(s, m, e, n) PROVE Reached(r, k, e, n)
  BY <1>1, <1>2 DEF Reached
<1>3. ASSUME NEW m \in 0..Len(t), NEW j \in 1..m, Reaches(t[j], n) PROVE Reached(r, Len(s) + m, e, n)
  <2>1. Len(s) + j \in 1..(Len(s) + m) /\ r[Len(s) + j] = t[j]
    BY <1>1
  <2> QED  BY <1>3, <2>1 DEF Reached
<1>4. ASSUME ExitCovered(s, e, n),
             \A i \in 1..Len(t) : t[i].k = "exit" =>
                \/ Reached(s, Len(s), e, n) \/ \E j \in 1..(i - 1) : Reaches(t[j], n),
             NEW i \in 1..Len(r), r[i].k = "exit"
      PROVE  Reached(r, i - 1, e, n)
  <2>1. CASE i <= Len(s)
    <3>1. i \in 1..Len(s) /\ r[i] = s[i] /\ i - 1 \in 0..Len(s) /\ i - 1 \in Nat /\ i - 1 <= i - 1
      BY <1>1, <2>1
    <3>2. Reached(s, i - 1, e, n)
      BY <1>4, <3>1 DEF ExitCovered
    <3> QED  BY <1>2, <3>1, <3>2
  <2>2. CASE i > Len(s)
    <3>1. i - Len(s) \in 1..Len(t) /\ Len(s) + (i - Len(s)) = i /\ Len(s) <= i - 1 /\ i - 1 \in Nat
          /\ Len(s) \in 0..Len(s) /\ (i - Len(s)) - 1 \in 0..Len(t) /\ Len(s) + ((i - Len(s)) - 1) = i - 1
      BY <1>1, <2>2
    <3>2. t[i - Len(s)].k = "exit"
      BY <1>1, <1>4, <3>1
    <3>3. CASE Reached(s, Len(s), e, n)
      BY <1>2, <3>1, <3>3
    <3>4. CASE \E j \in 1..((i - Len(s)) - 1) : Reaches(t[j], n)
      <4>1. Reached(r, Len(s) + ((i - Len(s)) - 1), e, n)
        BY <1>3, <3>1, <3>4
      <4> QED  BY <3>1, <4>1
    <3> QED  BY <1>4, <3>1, <3>2, <3>3, <3>4
  <2> QED  BY <1>1, <2>1, <2>2
<1>5. ASSUME Reached(s, Len(s), e, n) PROVE Reached(r, Len(r), e, n)
  BY <1>1, <1>2, <1>5
<1>6. ASSUME NEW j \in 1..Len(t), Reaches(t[j], n) PROVE Reached(r, Len(r), e, n)
  BY <1>1, <1>3, <1>6
<1> QED  BY <1>4, <1>5, <1>6 DEF ExitCovered, r

\* What the agent sends brings the host to the new cursor, before any exit.
LEMMA NextFramesReach ==
  ASSUME ses \in Sessions
  PROVE  /\ NextFrames.frames \in Seq(AgentFrames)
         /\ ses.cout <= NextFrames.next
         /\ NextFrames.next # ses.cout => \E j \in 1..Len(NextFrames.frames) : Reaches(NextFrames.frames[j], NextFrames.next)
         /\ \A i \in 1..Len(NextFrames.frames) : NextFrames.frames[i].k = "exit" =>
              /\ ses.exit # None /\ NextFrames.next >= ses.exit
              /\ NextFrames.next # ses.cout => \E j \in 1..(i - 1) : Reaches(NextFrames.frames[j], NextFrames.next)
<1> DEFINE before == OwedGaps \o OwedBytes
           all    == NextFrames.frames
           next   == NextFrames.next
<1>1. /\ all = before \o OwedExit
      /\ next = IF ses.cout < RingEnd(ses.ring) THEN OwedChunk.from + Len(OwedChunk.data) ELSE ses.cout
      /\ NextFrames.exits = (ses.exit # None /\ next >= ses.exit /\ ~ses.csent)
      /\ OwedChunk.from \in Nat /\ OwedChunk.data \in Seq(Nat) /\ Len(OwedChunk.data) \in Nat
      /\ Numbered(OwedChunk.from, OwedChunk.data)
      /\ OwedChunk.from = Smaller(Larger(ses.cout, ses.ring.start), RingEnd(ses.ring))
      /\ ses.cout \in Nat /\ RingEnd(ses.ring) \in Nat /\ ses.ring.start \in Nat /\ next \in Nat
  BY NextFramesAre, SessionFields
<1>2. ses.cout < RingEnd(ses.ring) => ses.cout <= OwedChunk.from
  BY <1>1 DEF Smaller, Larger
<1>3. ses.cout <= next
  <2> HIDE DEF next
  <2> QED  BY <1>1, <1>2
<1> DEFINE gap == Gap(OwedChunk.from)
           out == Output(OwedChunk.from, OwedChunk.data)
<1>4. gap \in AgentFrames /\ out \in AgentFrames /\ gap.k = "gap" /\ out.k = "output"
      /\ gap.to = OwedChunk.from /\ out.from = OwedChunk.from /\ out.data = OwedChunk.data
  BY <1>1 DEF Gap, Output, Outputs, AgentFrames
<1>5. OwedGaps \in Seq({gap}) /\ OwedBytes \in Seq({out})
  <2>1. OwedGaps \in {<<>>, <<gap>>} /\ OwedBytes \in {<<>>, <<out>>}
    BY DEF OwedGaps, OwedBytes
  <2>2. \A f : <<>> \in Seq({f}) /\ <<f>> \in Seq({f})
    BY EmptySeq
  <2> HIDE DEF gap, out
  <2> QED  BY <2>1, <2>2
<1> HIDE DEF gap, out
<1>6. before \in Seq({gap, out})
  BY <1>5, SeqMonotonic, ConcatProperties
<1>7. /\ before \in Seq(AgentFrames) /\ Len(before) \in Nat
      /\ \A i \in 1..Len(before) : before[i].k # "exit"
  <2>1. {gap, out} \subseteq AgentFrames
    BY <1>4
  <2>2. \A i \in 1..Len(before) : before[i] \in {gap, out}
    BY <1>6, LenProperties
  <2>3. before \in Seq(AgentFrames) /\ Len(before) \in Nat
    BY <1>6, <2>1, SeqMonotonic, LenProperties
  <2> HIDE DEF before
  <2> QED  BY <1>4, <2>2, <2>3
<1>8. ASSUME next # ses.cout PROVE \E j \in 1..Len(before) : Reaches(before[j], next)
  <2>1. ses.cout < RingEnd(ses.ring) /\ next = OwedChunk.from + Len(OwedChunk.data)
    <3> HIDE DEF next
    <3> QED  BY <1>1, <1>8
  <2>2. CASE OwedChunk.data # <<>>
    <3>1. OwedBytes = <<out>> /\ Len(OwedGaps) \in Nat
      BY <1>5, <2>1, <2>2, LenProperties DEF OwedBytes, out
    <3>2. Len(before) = Len(OwedGaps) + 1 /\ before[Len(OwedGaps) + 1] = out
      <4>1. before = Append(OwedGaps, out)
        BY <1>5, <3>1, AppendIsConcat
      <4>2. OwedGaps \in Seq({gap, out})
        BY <1>5, SeqMonotonic
      <4> HIDE DEF before
      <4> QED  BY <4>1, <4>2, AppendProperties
    <3>3. Reaches(out, next)
      <4> HIDE DEF next
      <4> QED  BY <1>1, <1>4, <2>1 DEF Reaches
    <3> HIDE DEF before
    <3> QED  BY <3>1, <3>2, <3>3
  <2>3. CASE OwedChunk.data = <<>>
    <3>1. Len(OwedChunk.data) = 0 /\ next = OwedChunk.from
      <4>1. Len(OwedChunk.data) = 0
        BY <2>3
      <4> HIDE DEF next
      <4> QED  BY <1>1, <2>1, <4>1
    <3>2. OwedChunk.from > ses.cout
      <4> HIDE DEF next
      <4> QED  BY <1>1, <1>2, <1>8, <2>1, <3>1
    <3>3. OwedGaps = <<gap>> /\ OwedBytes = <<>>
      BY <2>1, <2>3, <3>2 DEF OwedGaps, OwedBytes, gap
    <3>4. before = <<gap>>
      BY <3>3
    <3>5. Reaches(gap, next)
      <4> HIDE DEF next
      <4> QED  BY <1>1, <1>4, <3>1 DEF Reaches
    <3> HIDE DEF before, next
    <3> QED  BY <3>4, <3>5
  <2> QED  BY <2>2, <2>3
<1> HIDE DEF before, all, next
<1>9. OwedExit \in Seq(AgentFrames) /\ (OwedExit = <<>> \/ (OwedExit = <<Exit(ses.exit)>> /\ NextFrames.exits))
  <2>1. NextFrames.exits => Exit(ses.exit) \in AgentFrames
    BY <1>1, SessionFields DEF Exit, AgentFrames
  <2> QED  BY <2>1, EmptySeq DEF OwedExit
<1>10. /\ all \in Seq(AgentFrames) /\ Len(all) = Len(before) + Len(OwedExit) /\ Len(OwedExit) \in Nat
       /\ \A i \in 1..Len(before) : i \in 1..Len(all) /\ all[i] = before[i]
  <2>1. /\ all \in Seq(AgentFrames) /\ Len(all) = Len(before) + Len(OwedExit) /\ Len(OwedExit) \in Nat
        /\ \A i \in 1..(Len(before) + Len(OwedExit)) : i <= Len(before) => all[i] = before[i]
    BY <1>1, <1>7, <1>9, ConcatProperties, LenProperties
  <2> QED  BY <1>7, <2>1
<1>11. ASSUME NEW i \in 1..Len(all), all[i].k = "exit"
       PROVE  /\ ses.exit # None /\ next >= ses.exit
              /\ next # ses.cout => \E j \in 1..(i - 1) : Reaches(all[j], next)
  <2>1. i > Len(before)
    BY <1>7, <1>10, <1>11
  <2>2. OwedExit # <<>>
    <3>1. Len(<<>>) = 0
      OBVIOUS
    <3> QED  BY <1>7, <1>10, <2>1, <3>1
  <2>3. ses.exit # None /\ next >= ses.exit
    BY <1>1, <1>9, <2>2
  <2>4. \A j \in 1..Len(before) : j \in 1..(i - 1)
    BY <1>7, <1>10, <2>1
  <2> QED  BY <1>8, <1>10, <2>3, <2>4
<1>12. next # ses.cout => \E j \in 1..Len(all) : Reaches(all[j], next)
  BY <1>8, <1>10
<1> QED  BY <1>3, <1>10, <1>11, <1>12 DEF all, next

\* While the host wants the session: whatever travels before an exit covers
\* the output, and what the current connection carries covers what the agent
\* counts as sent on it.
CoverInv ==
  pipe.st = "open" => \A c \in Conns :
    /\ ExitCovered(a2h[c], RingEnd(pipe.ring), wrote.n)
    /\ ses.live /\ client.cur = c /\ ses.ccon = c /\ up[c] =>
         Reached(a2h[c], Len(a2h[c]), RingEnd(pipe.ring), ses.cout)

LEMMA HelloInit == Init => HelloInv
  BY DEF Init, HelloInv

LEMMA CoverInit == Init => CoverInv
  BY DEF Init, CoverInv

\* A process that is not done sent no exit.
LEMMA NoExitYet ==
  ASSUME NEW n, NEW s \in Seq(TrueFrames(n, FALSE)), NEW e, NEW m
  PROVE  ExitCovered(s, e, m)
<1>1. \A i \in 1..Len(s) : s[i] \in TrueFrames(n, FALSE)
  BY LenProperties
<1>2. \A i \in 1..Len(s) : s[i].k # "exit"
  BY <1>1, TrueFrameKinds
<1> QED  BY <1>2 DEF ExitCovered

\* How the cursor moves.
LEMMA CursorMoves ==
  ASSUME LinkBase, [Next]_vars, ~EndSpawn, \A c \in Conns : ~Introduce(c) /\ ~SendFrames(c)
  PROVE  /\ ses'.live => ses.live
         /\ ses'.cout = ses.cout /\ ses'.ccon = ses.ccon
         /\ client'.cur \in {client.cur, 0}
<1>0. ses \in Sessions /\ client \in Clients /\ fed \in Seq(Nat)
  BY DEF LinkBase, RemoteTypeOK, AgentTypes, ObserverTypes
<1>1. client'.cur \in {client.cur, 0}
  <2>1. CASE RefuseSpawn
    BY <1>0, <2>1 DEF RefuseSpawn, Clients
  <2>2. ASSUME NEW c \in Conns, BeginSpawn(c) \/ ServeEnds(c) \/ Flush(c) PROVE client'.cur \in {client.cur, 0}
    BY <1>0, <2>2 DEF BeginSpawn, ServeEnds, Flush, Clients
  <2>3. ASSUME NEW c \in Conns, ReadLoop(c) PROVE client'.cur \in {client.cur, 0}
    <3>1. client' = client \/ \E s : client' = [client EXCEPT !.outbox = s]
      <4>1. Handle(Head(h2a[c]).op) => \E s : client' = [client EXCEPT !.outbox = s]
        BY DEF Handle
      <4> QED  BY <2>3, <4>1 DEF ReadLoop
    <3> QED  BY <1>0, <3>1 DEF Clients
  <2> QED  BY <2>1, <2>2, <2>3, Changes
<1>2. ses'.cout = ses.cout /\ ses'.ccon = ses.ccon
  <2>1. CASE RecordOutput
    BY <1>0, <2>1, RecordOutputIs
  <2>2. CASE StreamDone \/ Reaped
    BY <1>0, <2>2, SettlingIs
  <2>3. CASE Reclaim
    <3>1. ses' = Terminated(ses)
      BY <2>3 DEF Reclaim
    <3> QED  BY <1>0, <3>1, TerminatedIs
  <2>4. CASE Forget
    BY <1>0, <2>4 DEF Forget, Sessions
  <2>5. ASSUME NEW c \in Conns, ReadLoop(c) PROVE ses'.cout = ses.cout /\ ses'.ccon = ses.ccon
    <3>1. CASE Head(h2a[c]).k = "input" /\ TakeInput(Head(h2a[c]))
      BY <1>0, <2>5, <3>1, InputTaken, TakeInputIs
    <3>2. CASE Handle(Head(h2a[c]).op)
      BY <1>0, <3>2, HandleKeeps
    <3>3. CASE ses' = ses \/ ses' = [Terminated(ses) EXCEPT !.live = FALSE]
      BY <1>0, <3>3, TerminatedIs
    <3>4. \/ Head(h2a[c]).k = "input" /\ TakeInput(Head(h2a[c]))
          \/ Handle(Head(h2a[c]).op)
          \/ ses' = ses \/ ses' = [Terminated(ses) EXCEPT !.live = FALSE]
      BY <2>5 DEF ReadLoop
    <3> QED  BY <3>1, <3>2, <3>3, <3>4
  <2> QED  BY <2>1, <2>2, <2>3, <2>4, <2>5, Changes
<1> QED  BY <1>1, <1>2, StartsMove

\* The frame the host takes brings it no further than it then is.
LEMMA FrameTaken ==
  ASSUME LinkBase, SpawnInv, WroteInv, NEW d \in Conns, Install(d) \/ Dispatch(d), pipe.st = "open",
         NEW n \in Nat, Reaches(Head(a2h[d]), n)
  PROVE  RingEnd(pipe'.ring) >= n
<1>1. CASE Install(d)
  <2>1. Head(a2h[d]).k = "welcome"
    BY <1>1 DEF Install
  <2> QED  BY <2>1 DEF Reaches
<1>2. CASE Dispatch(d)
  BY <1>2, DispatchMoves
<1> QED  BY <1>1, <1>2

\* Whatever travels before an exit still covers the output.
LEMMA ExitsStayCovered ==
  ASSUME LinkBase, SpawnInv, WroteInv, CoverInv, [Next]_vars, ~overslept',
         pipe.st = "open", pipe'.st = "open", ~Spawn,
         NEW c \in Conns
  PROVE  ExitCovered(a2h'[c], RingEnd(pipe'.ring), wrote'.n)
<1> DEFINE e == RingEnd(pipe.ring)
           later == RingEnd(pipe'.ring)
           n == wrote.n
<1>0. /\ ses \in Sessions /\ ses.starts \in Nat /\ ses'.starts \in Nat /\ a2h \in [Conns -> Seq(AgentFrames)]
      /\ up \in [Conns -> BOOLEAN] /\ h2a \in [Conns -> Seq(HostFrames(Ops, BOOLEAN, RingEnd(pipe.ring)))]
      /\ client.outbox \in Seq(Replies) /\ wrote \in [n : Nat, done : BOOLEAN] /\ n \in Nat /\ ses.cout \in Nat
      /\ pipe \in Pipes /\ got \in Seq(Nat)
  BY SessionFields, SessionStep DEF LinkBase, RemoteTypeOK, HostTypes, WireTypes, AgentTypes, ObserverTypes, Clients
<1>1. e \in Nat /\ later \in Nat /\ e <= later
  BY <1>0, PipeStep
<1>2. ses.starts <= 1 /\ ses'.starts <= 1
  <2>1. SpawnInv'
    BY SpawnStep
  <2> QED  BY <2>1 DEF SpawnInv
<1>3. /\ ExitCovered(a2h[c], e, n)
      /\ ses.live /\ client.cur = c /\ ses.ccon = c /\ up[c] => Reached(a2h[c], Len(a2h[c]), e, ses.cout)
  BY DEF CoverInv
<1>4. CASE wrote'.n # wrote.n
  <2>1. RecordOutput /\ ses.starts = 1
    <3>1. wrote' # wrote
      BY <1>4
    <3>2. StreamDone /\ ses.starts = 1 => wrote'.n = wrote.n
      <4>1. StreamDone /\ ses.starts = 1 => wrote' = [wrote EXCEPT !.done = TRUE]
        BY WroteMoves
      <4> QED  BY <1>0, <4>1
    <3> QED  BY <1>4, <3>1, <3>2, WroteMoves
  <2>2. wrote' = [wrote EXCEPT !.n = @ + Burst] /\ ~wrote.done
    BY <2>1, WroteMoves
  <2>3. wrote'.done = FALSE
    BY <1>0, <2>2
  <2>4. a2h'[c] \in Seq(TrueFrames(wrote'.n, FALSE))
    BY <1>2, <2>3, WroteTravels
  <2> QED  BY <2>4, NoExitYet
<1>5. CASE wrote'.n = wrote.n
  <2> HIDE DEF e, later, n
  <2>1. CASE a2h'[c] = a2h[c]
    <3>1. ExitCovered(a2h[c], later, n)
      BY <1>0, <1>1, <1>3, CoveredLater
    <3> QED  BY <1>5, <2>1, <3>1 DEF later, n
  <2>2. ASSUME NEW d \in Conns, Cut(d) \/ Introduce(d) PROVE ExitCovered(a2h'[c], RingEnd(pipe'.ring), wrote'.n)
    <3>1. Shortened(a2h'[c], a2h[c])
      <4>1. CASE Cut(d)
        BY <1>0, <4>1, CutIs
      <4>2. CASE Introduce(d)
        BY <1>0, <4>2, HelloTaken, IntroduceIs
      <4> QED  BY <2>2, <4>1, <4>2
    <3>2. ExitCovered(a2h[c], later, n)
      BY <1>0, <1>1, <1>3, CoveredLater
    <3>3. ExitCovered(a2h'[c], later, n)
      BY <1>0, <1>1, <3>1, <3>2, CoveredShort
    <3> QED  BY <1>5, <3>3 DEF later, n
  <2>3. ASSUME NEW d \in Conns, Install(d) \/ Dispatch(d), a2h[d] # <<>>, a2h' = [a2h EXCEPT ![d] = Tail(@)]
        PROVE  ExitCovered(a2h'[c], RingEnd(pipe'.ring), wrote'.n)
    <3>1. CASE c # d
      BY <1>0, <2>1, <2>3, <3>1
    <3>2. CASE c = d
      <4>1. a2h'[c] = Tail(a2h[c]) /\ a2h[c] # <<>>
        BY <1>0, <2>3, <3>2
      <4>2. Reaches(Head(a2h[c]), n) => later >= n
        BY <1>0, <2>3, <3>2, FrameTaken DEF later
      <4>3. ExitCovered(Tail(a2h[c]), later, n)
        BY <1>0, <1>1, <1>3, <4>1, <4>2, CoveredTail
      <4> QED  BY <1>5, <4>1, <4>3 DEF later, n
    <3> QED  BY <3>1, <3>2
  <2>4. ASSUME NEW d \in Conns, Flush(d), a2h' = [a2h EXCEPT ![d] = @ \o client.outbox]
        PROVE  ExitCovered(a2h'[c], RingEnd(pipe'.ring), wrote'.n)
    <3>1. CASE c # d
      BY <1>0, <2>1, <2>4, <3>1
    <3>2. CASE c = d
      <4>1. a2h'[c] = a2h[c] \o client.outbox /\ client.outbox \in Seq(AgentFrames)
        BY <1>0, <2>4, <3>2, RepliesAre, SeqMonotonic
      <4>2. \A i \in 1..Len(client.outbox) : client.outbox[i].k # "exit"
        <5>1. \A i \in 1..Len(client.outbox) : client.outbox[i] \in Replies
          BY <1>0, LenProperties
        <5> QED  BY <5>1 DEF Replies
      <4>3. ExitCovered(a2h[c], later, n)
        BY <1>0, <1>1, <1>3, CoveredLater
      <4>4. ExitCovered(a2h[c] \o client.outbox, later, n)
        BY <1>0, <1>1, <4>1, <4>2, <4>3, CoveredMore
      <4> QED  BY <1>5, <4>1, <4>4 DEF later, n
    <3> QED  BY <3>1, <3>2
  <2>5. ASSUME NEW d \in Conns, SendFrames(d), client.cur = d, a2h' = [a2h EXCEPT ![d] = @ \o NextFrames.frames]
        PROVE  ExitCovered(a2h'[c], RingEnd(pipe'.ring), wrote'.n)
    <3>1. CASE c # d
      BY <1>0, <2>1, <2>5, <3>1
    <3>2. CASE c = d
      <4> DEFINE t == NextFrames.frames
                 next == NextFrames.next
      <4>1. ses.live /\ ses.ccon = c /\ up[c] /\ a2h'[c] = a2h[c] \o t
        BY <1>0, <2>5, <3>2 DEF SendFrames
      <4>2. ses.starts = 1
        <5>1. ses.starts # 0
          BY <4>1 DEF WroteInv
        <5>2. ses.starts \in Nat /\ ses.starts <= 1
          BY <1>0, <1>2
        <5> HIDE DEF t, next
        <5> QED  BY <5>1, <5>2
      <4>3. ses.exit # None => ses.exit = n
        BY <4>2 DEF WroteInv, n
      <4>4. Reached(a2h[c], Len(a2h[c]), e, ses.cout)
        BY <1>3, <2>5, <3>2, <4>1
      <4>5. /\ t \in Seq(AgentFrames) /\ next \in Nat
            /\ \A i \in 1..Len(t) : t[i].k = "exit" =>
                 /\ ses.exit # None /\ next >= ses.exit
                 /\ next # ses.cout => \E j \in 1..(i - 1) : Reaches(t[j], next)
        BY <1>0, NextFramesReach, NextFramesAre
      <4> HIDE DEF t, next
      <4>6. ASSUME NEW i \in 1..Len(t), t[i].k = "exit"
            PROVE  Reached(a2h[c], Len(a2h[c]), later, n) \/ \E j \in 1..(i - 1) : Reaches(t[j], n)
        <5>1. next >= n
          BY <4>3, <4>5, <4>6
        <5>2. CASE next = ses.cout
          BY <1>0, <1>1, <4>4, <5>1, <5>2, ReachedLess
        <5>3. CASE next # ses.cout
          <6>1. PICK j \in 1..(i - 1) : Reaches(t[j], next)
            BY <4>5, <4>6, <5>3
          <6>2. t[j] \in AgentFrames
            <7>1. Len(t) \in Nat /\ \A k \in 1..Len(t) : t[k] \in AgentFrames
              BY <4>5, LenProperties
            <7>2. j \in 1..Len(t)
              BY <7>1
            <7> QED  BY <7>1, <7>2
          <6>3. Reaches(t[j], n)
            BY <1>0, <4>5, <5>1, <6>1, <6>2, ReachesLess
          <6> QED  BY <6>3
        <5> QED  BY <5>2, <5>3
      <4>7. ExitCovered(a2h[c], later, n)
        BY <1>0, <1>1, <1>3, CoveredLater
      <4>8. ExitCovered(a2h[c] \o t, later, n)
        BY <1>0, <1>1, <4>5, <4>6, <4>7, CoveredMore
      <4> QED  BY <1>5, <4>1, <4>8 DEF later, n
    <3> QED  BY <3>1, <3>2
  <2> QED  BY <2>1, <2>2, <2>3, <2>4, <2>5, AgentWireMovesOnly DEF AgentWireMoves
<1> QED  BY <1>4, <1>5

\* What the current connection carries still covers the cursor.
LEMMA CursorStaysCovered ==
  ASSUME LinkBase, SpawnInv, DialInv, HelloInv, WroteInv, CoverInv, [Next]_vars,
         pipe.st = "open", pipe'.st = "open", ~Spawn,
         NEW c \in Conns, ses'.live, client'.cur = c, ses'.ccon = c, up'[c]
  PROVE  Reached(a2h'[c], Len(a2h'[c]), RingEnd(pipe'.ring), ses'.cout)
<1> DEFINE e == RingEnd(pipe.ring)
           later == RingEnd(pipe'.ring)
           s == a2h[c]
<1>0. /\ ses \in Sessions /\ client \in Clients /\ a2h \in [Conns -> Seq(AgentFrames)] /\ s \in Seq(AgentFrames)
      /\ up \in [Conns -> BOOLEAN] /\ h2a \in [Conns -> Seq(HostFrames(Ops, BOOLEAN, RingEnd(pipe.ring)))]
      /\ client.outbox \in Seq(Replies) /\ ses.cout \in Nat /\ pipe \in Pipes /\ got \in Seq(Nat)
  BY SessionFields DEF LinkBase, RemoteTypeOK, HostTypes, WireTypes, AgentTypes, ObserverTypes, Clients
<1>1. e \in Nat /\ later \in Nat /\ e <= later
  BY <1>0, PipeStep
<1>2. c # 0
  BY ConnsAre
<1>3. CASE EndSpawn
  <2>1. ses'.cout = 0
    BY <1>0, <1>3, EndSpawnIs
  <2> QED  BY <1>1, <2>1 DEF Reached, later
<1>4. ASSUME NEW d \in Conns, Introduce(d)
      PROVE  Reached(a2h'[c], Len(a2h'[c]), RingEnd(pipe'.ring), ses'.cout)
  <2>1. /\ aconn[d] = "none" /\ client' = [client EXCEPT !.cur = d, !.outbox = <<Welcome(ses.live, ses.received)>>]
        /\ ses' = IF ses.live THEN Resumed(d, Head(h2a[d]).at) ELSE ses
    BY <1>4 DEF Introduce
  <2>2. d = c
    BY <1>0, <2>1 DEF Clients
  <2>3. ses.live
    BY <2>1
  <2>4. /\ Head(h2a[c]).at \in Nat \cup {None} /\ client.cur # c /\ h2a[c] # <<>>
        /\ Head(h2a[c]).at # None => Head(h2a[c]).at <= e
        /\ Head(h2a[c]) = Hello(Head(h2a[c]).at)
    BY <1>4, <2>2, HelloTaken
  <2>5. up[c]
    BY <1>0, <1>4, <2>2, <2>4, IntroduceIs
  <2>6. Head(h2a[c]).at # None
    <3> SUFFICES ASSUME Head(h2a[c]).at = None PROVE FALSE
      OBVIOUS
    <3>1. Unmentioned(c)
      BY <2>1, <2>2, <2>4, <2>5 DEF Unmentioned
    <3>2. ses.starts = 0
      BY <3>1 DEF HelloInv
    <3> QED  BY <2>3, <3>2 DEF WroteInv
  <2>7. ses'.cout = Head(h2a[c]).at
    <3>1. ses' = Resumed(c, Head(h2a[c]).at)
      BY <2>1, <2>2, <2>3
    <3>2. Resumed(c, Head(h2a[c]).at).cout = Head(h2a[c]).at
      BY <1>0, <2>4, <2>6, ResumedIs
    <3> QED  BY <3>1, <3>2
  <2>8. later >= ses'.cout
    BY <1>1, <2>4, <2>6, <2>7
  <2> QED  BY <2>8 DEF Reached, later
<1>5. ASSUME NEW d \in Conns, SendFrames(d)
      PROVE  Reached(a2h'[c], Len(a2h'[c]), RingEnd(pipe'.ring), ses'.cout)
  <2> DEFINE t == NextFrames.frames
             next == NextFrames.next
  <2>1. /\ client.cur = d /\ client' = client /\ ses.live /\ ses.ccon = d /\ up[d]
        /\ a2h' = [a2h EXCEPT ![d] = @ \o t]
    BY <1>5 DEF SendFrames
  <2>2. d = c /\ a2h'[c] = s \o t
    BY <1>0, <2>1
  <2>3. ses'.cout = next
    BY <1>5, SendFramesKeeps
  <2>4. Reached(s, Len(s), e, ses.cout)
    BY <2>1, <2>2 DEF CoverInv
  <2>5. /\ t \in Seq(AgentFrames) /\ next \in Nat
        /\ next # ses.cout => \E j \in 1..Len(t) : Reaches(t[j], next)
    BY <1>0, NextFramesReach, NextFramesAre
  <2> HIDE DEF t, next, s, later, e
  <2>6. Reached(s, Len(s), later, next) \/ \E j \in 1..Len(t) : Reaches(t[j], next)
    <3>1. CASE next = ses.cout
      BY <1>0, <1>1, <2>4, <3>1, ReachedLess
    <3> QED  BY <2>5, <3>1
  <2>7. Reached(s \o t, Len(s \o t), later, next)
    BY <1>0, <1>1, <2>5, <2>6, CoveredMore
  <2> QED  BY <2>2, <2>3, <2>7 DEF later
<1>6. CASE ~EndSpawn /\ \A d \in Conns : ~Introduce(d) /\ ~SendFrames(d)
  <2>1. ses.live /\ ses'.cout = ses.cout /\ ses.ccon = c /\ client.cur = c
    BY <1>2, <1>6, CursorMoves
  <2>2. up[c]
    <3>1. ~Launch => up[c]
      BY UpFalls
    <3>2. aconn[c] # "none"
      BY <1>2, <2>1 DEF LinkBase, CurrentIsKnown
    <3>3. hconn[c] # "none"
      BY <3>2 DEF DialInv
    <3>4. Launch => \E d \in Conns : hconn[d] = "none" /\ up' = [up EXCEPT ![d] = TRUE]
      BY DEF Launch
    <3>5. Launch => up'[c] = up[c]
      BY <1>0, <3>3, <3>4
    <3> QED  BY <3>1, <3>5
  <2>3. Reached(s, Len(s), e, ses.cout)
    BY <2>1, <2>2 DEF CoverInv
  <2> HIDE DEF s, later, e
  <2>4. Reached(s, Len(s), later, ses.cout)
    BY <1>0, <1>1, <2>3, ReachedLess
  <2>5. CASE a2h'[c] = a2h[c]
    BY <2>1, <2>4, <2>5 DEF s, later
  <2>6. ASSUME NEW d \in Conns, Cut(d) PROVE a2h'[c] = a2h[c]
    BY <1>0, <2>6, CutIs
  <2>7. ASSUME NEW d \in Conns, Install(d) \/ Dispatch(d), a2h[d] # <<>>, a2h' = [a2h EXCEPT ![d] = Tail(@)]
        PROVE  Reached(a2h'[c], Len(a2h'[c]), RingEnd(pipe'.ring), ses'.cout)
    <3>1. CASE c # d
      BY <1>0, <2>5, <2>7, <3>1
    <3>2. CASE c = d
      <4>1. a2h'[c] = Tail(s) /\ s # <<>>
        BY <1>0, <2>7, <3>2 DEF s
      <4>2. Reaches(Head(s), ses.cout) => later >= ses.cout
        BY <1>0, <2>7, <3>2, FrameTaken DEF later, s
      <4>3. Reached(Tail(s), Len(Tail(s)), later, ses.cout)
        BY <1>0, <1>1, <2>3, <4>1, <4>2, CoveredTail
      <4> QED  BY <2>1, <4>1, <4>3 DEF later
    <3> QED  BY <3>1, <3>2
  <2>8. ASSUME NEW d \in Conns, a2h' = [a2h EXCEPT ![d] = @ \o client.outbox]
        PROVE  Reached(a2h'[c], Len(a2h'[c]), RingEnd(pipe'.ring), ses'.cout)
    <3>1. CASE c # d
      BY <1>0, <2>5, <2>8, <3>1
    <3>2. CASE c = d
      <4>1. a2h'[c] = s \o client.outbox /\ client.outbox \in Seq(AgentFrames)
        BY <1>0, <2>8, <3>2, RepliesAre, SeqMonotonic DEF s
      <4>2. Reached(s \o client.outbox, Len(s \o client.outbox), later, ses.cout)
        BY <1>0, <1>1, <2>4, <4>1, CoveredMore
      <4> QED  BY <2>1, <4>1, <4>2 DEF later
    <3> QED  BY <3>1, <3>2
  <2> QED  BY <1>6, <2>5, <2>6, <2>7, <2>8, AgentWireMovesOnly DEF AgentWireMoves
<1> QED  BY <1>3, <1>4, <1>5, <1>6

LEMMA CoverStep ==
  ASSUME LinkBase, SpawnInv, DialInv, HelloInv, WroteInv, CoverInv, [Next]_vars, ~overslept' PROVE CoverInv'
<1> SUFFICES ASSUME pipe'.st = "open", NEW c \in Conns
             PROVE  /\ ExitCovered(a2h'[c], RingEnd(pipe'.ring), wrote'.n)
                    /\ ses'.live /\ client'.cur = c /\ ses'.ccon = c /\ up'[c] =>
                         Reached(a2h'[c], Len(a2h'[c]), RingEnd(pipe'.ring), ses'.cout)
  BY DEF CoverInv
<1>1. CASE Spawn
  <2>1. pipe.st = "none" /\ ses' = ses /\ ses.starts = 0
    BY <1>1, PipeStages DEF SpawnInv
  <2>2. wrote = [n |-> 0, done |-> FALSE] /\ ~ses.live /\ a2h \in [Conns -> Seq(TrueFrames(wrote.n, wrote.done))]
    BY <2>1 DEF WroteInv
  <2>3. a2h' = a2h
    BY <1>1 DEF Spawn
  <2>4. a2h'[c] \in Seq(TrueFrames(0, FALSE))
    BY <2>2, <2>3
  <2> QED  BY <2>1, <2>2, <2>4, NoExitYet
<1>2. CASE ~Spawn
  <2>1. pipe.st = "open"
    BY <1>2, PipeStages
  <2> QED  BY <1>2, <2>1, ExitsStayCovered, CursorStaysCovered
<1> QED  BY <1>1, <1>2

-----------------------------------------------------------------------------
(* The stream *)

\* Everything the refinement rests on.
StreamInv == LinkBase /\ SpawnInv /\ DialInv /\ HelloInv /\ WroteInv /\ CoverInv

LEMMA StreamInvInit == Init => StreamInv
  BY LinkBaseInit, SpawnInit, DialInit, HelloInit, WroteInit, CoverInit DEF StreamInv

LEMMA StreamInvStep == ASSUME StreamInv, [Next]_vars, ~overslept' PROVE StreamInv'
  BY LinkBaseStep, SpawnStep, DialStep, HelloStep, WroteInvStep, CoverStep DEF StreamInv

\* What OutputStream sees of a state.
StreamState == <<wrote.n, wrote.done, got, RingEnd(pipe.ring), pipe.lost, pipe.exit # None>>

\* Whatever the host reads is a step along the stream.
LEMMA DispatchFollows ==
  ASSUME StreamInv, [Next]_vars, NEW c \in Conns, Dispatch(c)
  PROVE  Stream!StreamNext \/ UNCHANGED StreamState
<1> DEFINE end == RingEnd(pipe.ring)
<1>0. /\ LinkBase /\ SpawnInv /\ WroteInv /\ CoverInv /\ wrote' = wrote
      /\ pipe \in Pipes /\ end \in Nat /\ wrote.n \in Nat /\ end <= wrote.n
      /\ a2h \in [Conns -> Seq(AgentFrames)]
  BY PipeFields DEF Dispatch, StreamInv, WroteInv, LinkBase, RemoteTypeOK, HostTypes, WireTypes, ObserverTypes
<1>1. CASE UNCHANGED <<pipe, got>>
  BY <1>0, <1>1 DEF StreamState
<1>2. ASSUME NEW gap \in Nat, NEW count \in Nat, StreamFollows(gap, count) PROVE Stream!StreamNext
  <2>1. /\ pipe.exit = None /\ gap + count > 0 /\ end + gap + count <= wrote.n
        /\ RingEnd(pipe'.ring) = end + gap + count
        /\ pipe'.lost = pipe.lost + gap /\ pipe'.exit = pipe.exit
        /\ got' = got \o [i \in 1..count |-> end + gap + i]
    BY <1>2 DEF StreamFollows
  <2>2. gap \in 0..(wrote.n - end) /\ count \in 0..(wrote.n - end)
    BY <1>0, <2>1
  <2>3. Stream!Follow(gap, count)
    BY <1>0, <2>1 DEF Stream!Follow
  <2> QED  BY <2>2, <2>3 DEF Stream!StreamNext
<1>3. CASE Head(a2h[c]).k = "exit" /\ pipe.st = "open" /\ StreamEnds
  <2>1. /\ pipe.exit = None /\ pipe'.exit = wrote.n /\ wrote.done
        /\ RingEnd(pipe'.ring) = wrote.n /\ pipe'.lost = pipe.lost /\ got' = got
    BY <1>3 DEF StreamEnds
  <2>2. 1 \in 1..Len(a2h[c]) /\ a2h[c][1] = Head(a2h[c])
    <3>1. a2h[c] # <<>>
      BY DEF Dispatch
    <3> QED  BY <1>0, <3>1, HeadTailProperties, LenProperties, EmptySeq
  <2>3. ExitCovered(a2h[c], end, wrote.n)
    BY <1>0, <1>3 DEF CoverInv
  <2>4. Reached(a2h[c], 1 - 1, end, wrote.n)
    BY <1>3, <2>2, <2>3 DEF ExitCovered
  <2>5. end >= wrote.n
    BY <2>4 DEF Reached
  <2>6. end = wrote.n
    BY <1>0, <2>5
  <2>7. pipe'.exit # None
    BY <1>0, <2>1 DEF None
  <2>8. Stream!LearnEnd
    BY <1>0, <2>1, <2>6, <2>7 DEF Stream!LearnEnd
  <2> QED  BY <2>8 DEF Stream!StreamNext
<1> QED  BY <1>0, <1>1, <1>2, <1>3, DispatchMoves

LEMMA StreamStep ==
  ASSUME StreamInv, [Next]_vars PROVE Stream!StreamNext \/ UNCHANGED StreamState
<1>0. /\ LinkBase /\ WroteInv /\ pipe \in Pipes /\ wrote \in [n : Nat, done : BOOLEAN]
      /\ Burst \in Nat /\ Burst > 0 /\ wrote'.n \in Nat
  BY ConstantsFit, WroteStep DEF StreamInv, LinkBase, RemoteTypeOK, HostTypes, ObserverTypes
<1>1. CASE \E c \in Conns : Dispatch(c)
  BY <1>1, DispatchFollows
<1>2. CASE \A c \in Conns : ~Dispatch(c)
  <2>1. /\ got' = got /\ RingEnd(pipe'.ring) = RingEnd(pipe.ring)
        /\ pipe'.lost = pipe.lost /\ pipe'.exit = pipe.exit
    BY <1>0, <1>2, StreamKeptStep DEF StreamKept
  <2>2. CASE wrote' = wrote
    BY <2>1, <2>2 DEF StreamState
  <2>3. CASE RecordOutput /\ ses.starts = 1
    <3>1. wrote' = [wrote EXCEPT !.n = @ + Burst] /\ ~wrote.done
      BY <1>0, <2>3, WroteMoves
    <3>2. wrote'.n = wrote.n + Burst /\ wrote'.done = wrote.done /\ wrote'.n > wrote.n
      BY <1>0, <3>1
    <3>3. Stream!Produce
      BY <1>0, <2>1, <3>1, <3>2 DEF Stream!Produce
    <3> QED  BY <3>3 DEF Stream!StreamNext
  <2>4. CASE StreamDone /\ ses.starts = 1
    <3>1. wrote' = [wrote EXCEPT !.done = TRUE] /\ ~wrote.done
      BY <1>0, <2>4, WroteMoves
    <3>2. wrote'.n = wrote.n /\ wrote'.done = TRUE
      BY <1>0, <3>1
    <3>3. Stream!EndOfOutput
      BY <2>1, <3>1, <3>2 DEF Stream!EndOfOutput
    <3> QED  BY <3>3 DEF Stream!StreamNext
  <2> QED  BY <1>0, <2>2, <2>3, <2>4, WroteMoves
<1> QED  BY <1>1, <1>2

\* The refinement's invariant holds until a spawn under way is overslept.
LEMMA StreamUnlessOverslept == Spec => [](LinkBase /\ (overslept \/ StreamInv))
<1> DEFINE I == LinkBase /\ (overslept \/ StreamInv)
<1>1. Init => I
  BY LinkBaseInit, StreamInvInit
<1>2. I /\ [Next]_vars => I'
  <2> SUFFICES ASSUME LinkBase, overslept \/ StreamInv, [Next]_vars PROVE I'
    OBVIOUS
  <2>1. CASE overslept'
    BY <2>1, LinkBaseStep
  <2>2. CASE ~overslept'
    BY <2>2, LinkBaseStep, OversleptStep, StreamInvStep
  <2> QED  BY <2>1, <2>2
<1> HIDE DEF I
<1>3. Spec => []I
  BY <1>1, <1>2, PTL DEF Spec
<1> QED  BY <1>3 DEF I

LEMMA StreamStarts == Init => Stream!StreamInit
<1> SUFFICES ASSUME Init PROVE Stream!StreamInit
  OBVIOUS
<1>1. /\ wrote = [n |-> 0, done |-> FALSE] /\ got = <<>>
      /\ pipe.ring = EmptyRing /\ pipe.exit = None /\ pipe.lost = 0
  BY DEF Init
<1> QED  BY <1>1, EmptyRingIs DEF Stream!StreamInit

\* What the host makes of the session's output is a gap stream of what the
\* process wrote: in order, once each, every skipped byte counted, the end
\* known only when everything before it is accounted for (deliver, gap,
\* finish, next_frames, introduce), as long as it follows one process.
THEOREM RemoteImplementsStream == Spec => ImplementsStream
<1>1. LinkBase /\ (overslept \/ StreamInv) /\ [Next]_vars =>
        [Stream!StreamNext \/ overslept']_<<wrote.n, wrote.done, got, RingEnd(pipe.ring), pipe.lost, pipe.exit # None>>
  <2> SUFFICES ASSUME LinkBase, overslept \/ StreamInv, [Next]_vars
               PROVE  Stream!StreamNext \/ overslept' \/ UNCHANGED StreamState
    BY DEF StreamState
  <2>1. CASE overslept
    BY <2>1, OversleptStep
  <2>2. CASE StreamInv
    BY <2>2, StreamStep
  <2> QED  BY <2>1, <2>2
<1> QED  BY <1>1, StreamStarts, StreamUnlessOverslept, PTL DEF Spec, ImplementsStream

\* The host gets no byte twice or out of order, and when it knows that the
\* output ended, every byte the process wrote has been received or counted as
\* lost (deliver, gap, finish), as long as it follows one process.
THEOREM RemoteOutputAccounted ==
  Spec => [](~overslept => /\ \A i, j \in 1..Len(got) : i < j => got[i] < got[j]
                           /\ pipe.exit # None => Len(got) + pipe.lost = wrote.n)
<1> DEFINE A == /\ \A i, j \in 1..Len(got) : i < j => got[i] < got[j]
                /\ pipe.exit # None => Len(got) + pipe.lost = wrote.n
<1>1. Init => Stream!StreamInv
  BY StreamStarts, Stream!InitInv
<1>2. LinkBase /\ (overslept \/ StreamInv) /\ (overslept \/ Stream!StreamInv) /\ [Next]_vars
        => (overslept \/ Stream!StreamInv)'
  <2> SUFFICES ASSUME LinkBase, ~overslept', StreamInv, Stream!StreamInv, [Next]_vars
               PROVE  Stream!StreamInv'
    BY OversleptStep
  <2>1. [Stream!StreamNext]_(Stream!svars)
    BY StreamStep DEF StreamState, Stream!svars
  <2> QED  BY <2>1, Stream!StreamStep
<1>3. Stream!StreamInv => A
  BY DEF Stream!StreamInv, Stream!InOrder, Stream!Accounted
<1>4. overslept \/ Stream!StreamInv => (~overslept => A)
  BY <1>3
<1> HIDE DEF A
<1>5. Spec => [](~overslept => A)
  BY <1>1, <1>2, <1>4, StreamUnlessOverslept, PTL DEF Spec
<1> QED  BY <1>5 DEF A
=============================================================================
