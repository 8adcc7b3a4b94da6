------------------------ MODULE ThriftTransportProofs ------------------------
(***************************************************************************)
(* Proof that a call over one Thrift connection returns the reply to       *)
(* itself or an error (OwnReply), whatever the transports and protocols,   *)
(* the timeouts and the messages that are begun and not ended, and that    *)
(* the server serves what the client sent (ServesWhatWasSent) until a      *)
(* message is begun and not ended.                                         *)
(*                                                                         *)
(* The inductive invariant speaks of the stream of an end: what it has of  *)
(* a frame, and then what is on the wire.  Everything that is read leaves  *)
(* a rest of the stream (Rest), and everything that is flushed is joined   *)
(* to it, so most lemmas below say what a rest, or two sequences joined,   *)
(* keep of the parts of the invariant.  What is served needs more of it    *)
(* (ServeInv): which message a buffer holds, and for two ends that both    *)
(* speak THeader, the order of the units on the wire (Chain).              *)
(***************************************************************************)
EXTENDS ThriftTransport, SequenceTheorems, TLAPS

-----------------------------------------------------------------------------
(* The inductive invariant *)

Languages == {"binary"} \union {c.protocol : c \in Clients}
Parts == [unit : {"begin"}, call : Nat, protocol : Languages] \union [unit : {"body"}, call : Nat]
Units == Parts \union [unit : {"size"}, n : Nat \ {0}]
               \union [unit : {"meta"}, protocol : Languages, headers : SUBSET Keys]
EndType ==
  [type : {"unknown", "headers", "framed", "unframed"}, protocol : Languages,
   frame : Seq(Units), reader : BOOLEAN, writeBuffer : Seq(Parts),
   readHeaders : SUBSET Keys, writeHeaders : SUBSET Keys]

TypeInv ==
  /\ client \in Clients /\ adapts \in BOOLEAN
  /\ end \in [Ends -> EndType] /\ wire \in [Ends -> Seq(Units)] /\ closed \in BOOLEAN
  /\ pc \in [Ends -> {"idle", "args", "reply", "flush", "payload", "begin", "body", "closed"}]
  /\ pc["client"] \notin {"reply", "closed"} /\ pc["server"] \notin {"idle", "args"}
  /\ call \in 0..MaxCalls /\ asked \in [Calls -> SUBSET Keys]
  /\ request \in [call : 0..call, headers : SUBSET Keys]
  /\ result \in [Calls -> {"none", "error", "own"}]   \* and so OwnReply
  /\ aborts \in Nat

(* A call is under way, unless the client is idle.                         *)
Calling == pc["client"] # "idle" => call \in Calls

EndsWithSize(s) == s # <<>> /\ s[Len(s)].unit = "size"
EndsWithBody(s) == s # <<>> /\ s[Len(s)].unit = "body"

(* What a transport x has of a frame ends with a body.                     *)
FramingOf(x, t) ==
  /\ x = "header" => (t.reader <=> t.frame # <<>>) /\ (t.reader => IsFramed(t))
  /\ x = "framed" => ~t.reader
  /\ x = "buffered" => ~t.reader /\ t.frame = <<>>
  /\ t.frame # <<>> => EndsWithBody(t.frame)
Framing == \A e \in Ends : FramingOf(Transport(e), end[e])

(* A size is the last unit, or the frame it begins is there and ends with  *)
(* a body.                                                                 *)
Sized(s) ==
  \A i \in 1..Len(s) : s[i].unit = "size" =>
    i = Len(s) \/ (i + s[i].n <= Len(s) /\ s[i + s[i].n].unit = "body")

(* A size without its frame is there between the two parts of a flush, and *)
(* what is flushed ends with a body.                                       *)
FlushOf(e, W) ==
  /\ Sized(W)
  /\ EndsWithSize(W) =>
       closed \/ (pc[e] = "payload" /\ W[Len(W)].n = Len(Flushed(e).payload))
  /\ pc[e] \in {"flush", "payload"} => EndsWithBody(end[e].writeBuffer)
Flushing == \A e \in Ends : FlushOf(e, wire[Peer(e)])

(* What an end has still to read.                                          *)
Stream(e) == end[e].frame \o wire[e]

(* Whether a transport x has a frame to read first.                        *)
Needs(x, t) == (x = "header" /\ NeedReadFrame(t)) \/ (x = "framed" /\ t.frame = <<>>)

(* Every message, but for those of calls before c, is whole.               *)
Paired(s, c) ==
  \A i \in 1..Len(s) : s[i].unit = "begin" =>
    s[i].call < c \/ (i < Len(s) /\ s[i + 1] = Body(s[i].call))

(* What comes for the client, or will, has the bodies of the calls that it *)
(* may still wait for, and the body it waits for comes next.               *)
Answering == {"body", "reply", "flush", "payload"}
Replies ==
  /\ Paired(Stream("client"), call)
  /\ Paired(end["server"].writeBuffer,
            IF pc["server"] \in Answering THEN request.call ELSE request.call + 1)
  /\ pc["client"] = "body" => /\ ~Needs(Transport("client"), end["client"])
                              /\ Stream("client") # <<>> /\ Stream("client")[1] = Body(call)

(* Calls come to the server in their order.                                *)
Rising(s) ==
  \A i, j \in 1..Len(s) : i < j /\ s[i].unit = "begin" /\ s[j].unit = "begin" => s[i].call < s[j].call
Earlier(s, t) ==
  \A i \in 1..Len(s), j \in 1..Len(t) :
    s[i].unit = "begin" /\ t[j].unit = "begin" => s[i].call < t[j].call
Between(s, m, n) ==
  \A i \in 1..Len(s) : s[i].unit = "begin" => m < s[i].call /\ s[i].call <= n
InOrder(s, t, m, n) ==
  /\ Rising(s) /\ Rising(t) /\ Earlier(s, t) /\ Between(s, m, n) /\ Between(t, m, n)
Asking == InOrder(Stream("server"), end["client"].writeBuffer, request.call, call)

TalkInv == TypeInv /\ Calling /\ Framing /\ Flushing /\ Replies /\ Asking

-----------------------------------------------------------------------------
(* What is left of a sequence *)

(* u is what s has from some unit on.                                      *)
Rest(u, s) ==
  \E k \in Nat : k + Len(u) = Len(s) /\ \A i \in 1..Len(u) : u[i] = s[i + k]

(* A sequence without units, by its length.                                *)
LEMMA EmptyByLength ==
  ASSUME NEW S, NEW s \in Seq(S)
  PROVE  s = <<>> <=> Len(s) = 0
OBVIOUS

(* One sequence after another.                                             *)
LEMMA Joined ==
  ASSUME NEW S, NEW s \in Seq(S), NEW t \in Seq(S)
  PROVE  /\ s \o t \in Seq(S) /\ Len(s \o t) = Len(s) + Len(t) /\ Len(s) \in Nat /\ Len(t) \in Nat
         /\ \A i \in 1..Len(s) : (s \o t)[i] = s[i]
         /\ \A i \in (Len(s) + 1)..(Len(s) + Len(t)) :
              (s \o t)[i] = t[i - Len(s)] /\ i - Len(s) \in 1..Len(t)
         /\ \A i \in 1..Len(t) : (s \o t)[i + Len(s)] = t[i] /\ i + Len(s) \in 1..Len(s \o t)
         /\ s \o t = <<>> <=> s = <<>> /\ t = <<>>
         /\ s = <<>> => s \o t = t
         /\ t = <<>> => s \o t = s
OBVIOUS

(* It does not matter which are joined first.                              *)
LEMMA JoinedThrice ==
  ASSUME NEW S, NEW s \in Seq(S), NEW t \in Seq(S), NEW u \in Seq(S)
  PROVE  s \o (t \o u) = (s \o t) \o u
BY ConcatAssociative

(* A sequence without its first units is a rest of it.                     *)
LEMMA RestOf ==
  ASSUME NEW S, NEW s \in Seq(S), NEW k \in 0..Len(s)
  PROVE  /\ SubSeq(s, k + 1, Len(s)) \in Seq(S) /\ Len(SubSeq(s, k + 1, Len(s))) = Len(s) - k
         /\ \A i \in 1..(Len(s) - k) : SubSeq(s, k + 1, Len(s))[i] = s[i + k]
         /\ Rest(SubSeq(s, k + 1, Len(s)), s)
<1> DEFINE u == SubSeq(s, k + 1, Len(s))
<1>1. u \in Seq(S) /\ Len(u) = Len(s) - k /\ \A i \in 1..(Len(s) - k) : u[i] = s[i + k]
  OBVIOUS
<1>2. k \in Nat /\ Len(s) \in Nat
  OBVIOUS
<1> HIDE DEF u
<1>3. k + Len(u) = Len(s)
  BY <1>1, <1>2
<1>4. Rest(u, s)
  BY <1>1, <1>2, <1>3 DEF Rest
<1> QED BY <1>1, <1>4 DEF u

(* A rest may leave nothing out,                                           *)
LEMMA RestItself ==
  ASSUME NEW S, NEW s \in Seq(S)
  PROVE  Rest(s, s)
<1>1. 0 + Len(s) = Len(s) /\ \A i \in 1..Len(s) : s[i] = s[i + 0]
  OBVIOUS
<1> QED BY <1>1 DEF Rest

(* or the first unit,                                                      *)
LEMMA RestTail ==
  ASSUME NEW S, NEW s \in Seq(S), s # <<>>
  PROVE  /\ Tail(s) \in Seq(S) /\ Len(Tail(s)) = Len(s) - 1 /\ Rest(Tail(s), s)
         /\ Head(s) = s[1] /\ s[1] \in S /\ Len(s) \in Nat /\ Len(s) >= 1
         /\ \A i \in 1..(Len(s) - 1) : Tail(s)[i] = s[i + 1]
<1>1. /\ Tail(s) \in Seq(S) /\ Len(Tail(s)) = Len(s) - 1
      /\ Head(s) = s[1] /\ s[1] \in S /\ Len(s) \in Nat /\ Len(s) >= 1
      /\ \A i \in 1..(Len(s) - 1) : Tail(s)[i] = s[i + 1]
  OBVIOUS
<1>2. 1 + Len(Tail(s)) = Len(s) /\ \A i \in 1..Len(Tail(s)) : Tail(s)[i] = s[i + 1]
  BY <1>1
<1>3. Rest(Tail(s), s)
  BY <1>2 DEF Rest
<1> QED BY <1>1, <1>3

(* or what a rest of it leaves out as well.                                *)
LEMMA RestOfRest ==
  ASSUME NEW S, NEW s \in Seq(S), NEW u \in Seq(S), NEW v \in Seq(S), Rest(u, s), Rest(v, u)
  PROVE  Rest(v, s)
<1>1. PICK k \in Nat : k + Len(u) = Len(s) /\ \A i \in 1..Len(u) : u[i] = s[i + k]
  BY DEF Rest
<1>2. PICK m \in Nat : m + Len(v) = Len(u) /\ \A i \in 1..Len(v) : v[i] = u[i + m]
  BY DEF Rest
<1>3. Len(s) \in Nat /\ Len(u) \in Nat /\ Len(v) \in Nat
  OBVIOUS
<1>4. (k + m) + Len(v) = Len(s) /\ k + m \in Nat
  BY <1>1, <1>2, <1>3
<1>5. \A i \in 1..Len(v) : i + m \in 1..Len(u) /\ (i + m) + k = i + (k + m)
  BY <1>1, <1>2, <1>3
<1>6. \A i \in 1..Len(v) : v[i] = s[i + (k + m)]
  BY <1>1, <1>2, <1>5
<1> QED BY <1>4, <1>6 DEF Rest

(* What a rest keeps.                                                      *)
LEMMA RestKeeps ==
  ASSUME NEW s \in Seq(Units), NEW u \in Seq(Units), Rest(u, s)
  PROVE  /\ \A c \in Nat : Paired(s, c) => Paired(u, c)
         /\ Rising(s) => Rising(u)
         /\ \A m, n \in Nat : Between(s, m, n) => Between(u, m, n)
         /\ \A t \in Seq(Units) : Earlier(s, t) => Earlier(u, t)
         /\ u # <<>> => s # <<>> /\ u[Len(u)] = s[Len(s)]
<1>1. PICK k \in Nat : k + Len(u) = Len(s) /\ \A i \in 1..Len(u) : u[i] = s[i + k]
  BY DEF Rest
<1>2. Len(u) \in Nat /\ Len(s) \in Nat
  OBVIOUS
<1>3. \A i \in 1..Len(u) : i + k \in 1..Len(s) /\ u[i] = s[i + k]
  BY <1>1, <1>2
<1>4. \A i, j \in 1..Len(u) : i < j => i + k < j + k
  BY <1>1, <1>2
<1>5. ASSUME NEW c \in Nat, Paired(s, c) PROVE Paired(u, c)
  <2> SUFFICES ASSUME NEW i \in 1..Len(u), u[i].unit = "begin", ~(u[i].call < c)
               PROVE  i < Len(u) /\ u[i + 1] = Body(u[i].call)
    BY DEF Paired
  <2>1. i + k < Len(s) /\ s[i + k + 1] = Body(u[i].call)
    BY <1>3, <1>5 DEF Paired
  <2>2. i < Len(u) /\ i + 1 \in 1..Len(u) /\ (i + 1) + k = i + k + 1
    BY <1>1, <1>2, <2>1
  <2> QED BY <1>3, <2>1, <2>2
<1>6. Rising(s) => Rising(u)
  BY <1>3, <1>4 DEF Rising
<1>7. \A m, n \in Nat : Between(s, m, n) => Between(u, m, n)
  BY <1>3 DEF Between
<1>8. \A t \in Seq(Units) : Earlier(s, t) => Earlier(u, t)
  BY <1>3 DEF Earlier
<1>9. ASSUME u # <<>> PROVE s # <<>> /\ u[Len(u)] = s[Len(s)]
  <2>1. Len(u) \in 1..Len(u) /\ Len(u) + k = Len(s) /\ Len(s) >= 1
    BY <1>1, <1>2, <1>9
  <2>2. u[Len(u)] = s[Len(u) + k]
    BY <1>1, <2>1
  <2>3. s # <<>>
    BY <2>1
  <2> QED BY <2>1, <2>2, <2>3
<1> QED BY <1>5, <1>6, <1>7, <1>8, <1>9

(* A rest of what is on the wire, whose sizes have their frames.           *)
LEMMA RestSized ==
  ASSUME NEW s \in Seq(Units), NEW u \in Seq(Units), Rest(u, s), Sized(s)
  PROVE  Sized(u)
<1>1. PICK k \in Nat : k + Len(u) = Len(s) /\ \A i \in 1..Len(u) : u[i] = s[i + k]
  BY DEF Rest
<1> SUFFICES ASSUME NEW i \in 1..Len(u), u[i].unit = "size", i # Len(u)
             PROVE  i + u[i].n <= Len(u) /\ u[i + u[i].n].unit = "body"
  BY DEF Sized
<1>2. Len(u) \in Nat /\ Len(s) \in Nat
  OBVIOUS
<1>3. i + k \in 1..Len(s) /\ u[i] = s[i + k] /\ i + k # Len(s) /\ s[i + k] \in Units
  BY <1>1, <1>2
<1> DEFINE d == u[i].n
<1>4. d \in Nat /\ i + k + d <= Len(s) /\ s[i + k + d].unit = "body"
  BY <1>3 DEF Sized, Units, Parts
<1> HIDE DEF d
<1>5. i + d \in 1..Len(u) /\ (i + d) + k = i + k + d /\ i + d <= Len(u)
  BY <1>1, <1>2, <1>4
<1> QED BY <1>1, <1>4, <1>5 DEF d

(* The same before another sequence.                                       *)
LEMMA TailJoined ==
  ASSUME NEW S, NEW s \in Seq(S), NEW t \in Seq(S), s # <<>>
  PROVE  Tail(s) \o t = Tail(s \o t) /\ (s \o t)[1] = s[1] /\ s \o t # <<>>
<1>1. /\ Tail(s) \in Seq(S) /\ Len(Tail(s)) = Len(s) - 1 /\ Len(s) \in Nat /\ Len(s) >= 1
      /\ \A i \in 1..(Len(s) - 1) : Tail(s)[i] = s[i + 1]
  BY RestTail
<1>2. s \o t \in Seq(S) /\ Len(s \o t) = Len(s) + Len(t) /\ Len(t) \in Nat /\ s \o t # <<>>
  BY Joined
<1> DEFINE u == Tail(s) \o t
           v == Tail(s \o t)
<1>3. u \in Seq(S) /\ Len(u) = Len(s) - 1 + Len(t)
  BY <1>1, Joined
<1>4. /\ v \in Seq(S) /\ Len(v) = Len(s) + Len(t) - 1
      /\ \A i \in 1..(Len(s) + Len(t) - 1) : v[i] = (s \o t)[i + 1]
  BY <1>2, RestTail
<1>5. ASSUME NEW i \in 1..Len(u) PROVE u[i] = v[i]
  <2>1. i \in Nat /\ i >= 1 /\ i <= Len(s) - 1 + Len(t)
    BY <1>1, <1>2, <1>3
  <2>2. v[i] = (s \o t)[i + 1]
    BY <1>1, <1>2, <1>4, <2>1
  <2> HIDE DEF u, v
  <2>3. CASE i <= Len(s) - 1
    <3>1. u[i] = Tail(s)[i]
      BY <1>1, <2>1, <2>3, Joined DEF u
    <3>2. i + 1 \in 1..Len(s) /\ i \in 1..(Len(s) - 1)
      BY <1>1, <2>1, <2>3
    <3> QED BY <1>1, <2>2, <3>1, <3>2, Joined
  <2>4. CASE i > Len(s) - 1
    <3>1. i \in (Len(Tail(s)) + 1)..(Len(Tail(s)) + Len(t)) /\ i - Len(Tail(s)) = (i + 1) - Len(s)
      BY <1>1, <1>2, <2>1, <2>4
    <3>2. i + 1 \in (Len(s) + 1)..(Len(s) + Len(t))
      BY <1>1, <1>2, <2>1, <2>4
    <3>3. u[i] = t[i - Len(Tail(s))]
      BY <1>1, <3>1, Joined DEF u
    <3>4. (s \o t)[i + 1] = t[(i + 1) - Len(s)]
      BY <3>2, Joined
    <3> QED BY <2>2, <3>1, <3>3, <3>4
  <2> QED BY <1>1, <2>1, <2>3, <2>4
<1>6. Len(u) = Len(v)
  BY <1>1, <1>2, <1>3, <1>4
<1>7. (s \o t)[1] = s[1]
  BY <1>1, Joined
<1> HIDE DEF u, v
<1>8. u = v
  BY <1>3, <1>4, <1>5, <1>6, SeqEqual
<1> QED BY <1>2, <1>7, <1>8 DEF u, v

-----------------------------------------------------------------------------
(* Reading *)

(* What the operators of a read have in common.                            *)
ReadOK(x, t, W, f) ==
  /\ f.units \in Seq(Units) /\ f.t \in EndType /\ f.ok \in BOOLEAN
  /\ Rest(f.units, W) /\ Rest(f.t.frame \o f.units, t.frame \o W)
  /\ FramingOf(x, f.t)
  /\ f.t.writeBuffer = t.writeBuffer
  /\ f.ok => ~Needs(x, f.t) /\ f.t.frame \o f.units # <<>>

(* The frame behind a size that is whole.                                  *)
LEMMA FrameBehind ==
  ASSUME NEW W \in Seq(Units), W # <<>>, Sized(W), W[1].unit = "size", Len(W) > W[1].n
  PROVE  LET n == W[1].n
             F == SubSeq(W, 2, n + 1)
             R == SubSeq(W, n + 2, Len(W))
         IN  /\ n \in Nat /\ n >= 1 /\ F \in Seq(Units) /\ R \in Seq(Units)
             /\ Len(F) = n /\ F[n].unit = "body" /\ F # <<>>
             /\ Rest(R, W) /\ Rest(F \o R, W)
<1> DEFINE n == W[1].n
           F == SubSeq(W, 2, n + 1)
           R == SubSeq(W, n + 2, Len(W))
<1>1. Len(W) \in Nat /\ Len(W) >= 1 /\ W[1] \in Units
  OBVIOUS
<1>2. n \in Nat /\ n >= 1 /\ Len(W) > n
  BY <1>1 DEF Units, Parts
<1>3. 1 + n <= Len(W) /\ W[1 + n].unit = "body"
  BY <1>1, <1>2 DEF Sized
<1> HIDE DEF n
<1>4. F \in Seq(Units) /\ Len(F) = n /\ \A i \in 1..n : F[i] = W[i + 1]
  BY <1>1, <1>2
<1>5. /\ R \in Seq(Units) /\ Len(R) = Len(W) - (n + 1) /\ Rest(R, W)
      /\ \A i \in 1..(Len(W) - (n + 1)) : R[i] = W[i + (n + 1)]
  <2>1. n + 1 \in 0..Len(W) /\ n + 1 + 1 = n + 2
    BY <1>1, <1>2
  <2> QED BY <2>1, RestOf
<1> HIDE DEF F, R
<1>6. F[n].unit = "body" /\ F # <<>>
  BY <1>1, <1>2, <1>3, <1>4
<1>7. Rest(F \o R, W)
  <2>1. F \o R \in Seq(Units) /\ 1 + Len(F \o R) = Len(W)
    BY <1>1, <1>2, <1>4, <1>5, Joined
  <2>2. ASSUME NEW i \in 1..Len(F \o R) PROVE (F \o R)[i] = W[i + 1]
    <3>1. i \in Nat /\ i >= 1 /\ i <= Len(W) - 1
      BY <1>1, <2>1
    <3>2. CASE i <= n
      <4>1. i \in 1..Len(F) /\ i \in 1..n
        BY <1>4, <3>1, <3>2
      <4> QED BY <1>4, <1>5, <4>1, Joined
    <3>3. CASE i > n
      <4>1. i \in (Len(F) + 1)..(Len(F) + Len(R)) /\ i - n \in 1..(Len(W) - (n + 1))
        BY <1>1, <1>2, <1>4, <1>5, <3>1, <3>3
      <4>2. (F \o R)[i] = R[i - n]
        <5>1. F \in Seq(Units) /\ R \in Seq(Units) /\ Len(F) = n
          BY <1>4, <1>5
        <5> DEFINE G == F \o R
        <5>2. \A j \in (Len(F) + 1)..(Len(F) + Len(R)) : G[j] = R[j - Len(F)]
          BY <5>1, Joined
        <5> HIDE DEF G
        <5>3. G[i] = R[i - n]
          BY <4>1, <5>1, <5>2
        <5> QED BY <5>3 DEF G
      <4>3. R[i - n] = W[(i - n) + (n + 1)] /\ (i - n) + (n + 1) = i + 1
        BY <1>2, <1>5, <3>1, <4>1
      <4> QED BY <4>2, <4>3
    <3> QED BY <1>2, <3>1, <3>2, <3>3
  <2> QED BY <2>1, <2>2 DEF Rest
<1>8. /\ n \in Nat /\ n >= 1 /\ F \in Seq(Units) /\ R \in Seq(Units)
      /\ Len(F) = n /\ F[n].unit = "body" /\ F # <<>>
      /\ Rest(R, W) /\ Rest(F \o R, W)
  BY <1>2, <1>4, <1>5, <1>6, <1>7
<1> QED BY <1>8 DEF n, F, R

(* THeaderTransport.ReadFrame.                                             *)
LEMMA HeaderFrameOK ==
  ASSUME NEW t \in EndType, NEW W \in Seq(Units), FramingOf("header", t), Sized(W),
         NeedReadFrame(t), Whole(W)
  PROVE  ReadOK("header", t, W, HeaderFrame(t, W))
<1> DEFINE f == HeaderFrame(t, W)
           n == W[1].n
           F == SubSeq(W, 2, n + 1)
           R == SubSeq(W, n + 2, Len(W))
           T == Tail(F)
<1>1. /\ t.frame = <<>> /\ t.reader = FALSE /\ W # <<>> /\ Head(W) = W[1] /\ W[1] \in Units
      /\ t.frame \o W = W /\ Rest(W, W) /\ Len(W) \in Nat
  <2>1. t.frame = <<>> /\ t.reader = FALSE
    BY DEF FramingOf, NeedReadFrame, IsFramed, EndType
  <2>2. W # <<>> /\ Head(W) = W[1] /\ W[1] \in Units /\ Len(W) \in Nat
    BY DEF Whole
  <2>3. Rest(W, W)
    BY RestItself
  <2> QED BY <2>1, <2>2, <2>3
<1>2. CASE W[1].unit = "begin"
  <2>1. f = [t |-> [t EXCEPT !.type = "unframed", !.protocol = W[1].protocol], units |-> W, ok |-> TRUE]
    BY <1>1, <1>2 DEF HeaderFrame
  <2> HIDE DEF f
  <2>2. W[1].protocol \in Languages
    BY <1>1, <1>2 DEF Units, Parts
  <2>3. f.t = [t EXCEPT !.type = "unframed", !.protocol = W[1].protocol] /\ f.units = W /\ f.ok = TRUE
    BY <2>1
  <2>4. /\ f.t \in EndType /\ f.t.frame = <<>> /\ f.t.reader = FALSE /\ f.t.type = "unframed"
        /\ f.t.writeBuffer = t.writeBuffer
    BY <1>1, <2>3, <2>2 DEF EndType
  <2>5. f.t.frame \o f.units = W
    BY <2>3, <2>4
  <2>6. FramingOf("header", f.t) /\ ~Needs("header", f.t)
    BY <2>4 DEF FramingOf, Needs, NeedReadFrame, IsFramed
  <2>7. ReadOK("header", t, W, f)
    BY <1>1, <2>3, <2>4, <2>5, <2>6 DEF ReadOK
  <2> QED BY <2>7 DEF f
<1>3. CASE W[1].unit \notin {"begin", "size"}
  <2>1. f = [t |-> t, units |-> W, ok |-> FALSE]
    BY <1>1, <1>3 DEF HeaderFrame, Failed
  <2> HIDE DEF f
  <2>2. f.t = t /\ f.units = W /\ f.ok = FALSE
    BY <2>1
  <2>3. ReadOK("header", t, W, f)
    BY <1>1, <2>2 DEF ReadOK
  <2> QED BY <2>3 DEF f
<1>4. CASE W[1].unit = "size"
  <2>1. /\ n \in Nat /\ n >= 1 /\ F \in Seq(Units) /\ R \in Seq(Units)
        /\ Len(F) = n /\ F[n].unit = "body" /\ F # <<>>
        /\ Rest(R, W) /\ Rest(F \o R, W)
    <3>1. Len(W) > W[1].n
      BY <1>1, <1>4 DEF Whole
    <3> QED BY <1>1, <1>4, <3>1, FrameBehind
  <2>2. <<>> \o F = F /\ F[1] \in Units
    BY <2>1
  <2>3. f = CASE F[1].unit = "meta" ->
                   [t |-> [t EXCEPT !.frame = T, !.reader = TRUE, !.type = "headers",
                                    !.protocol = F[1].protocol, !.readHeaders = F[1].headers],
                    units |-> R, ok |-> TRUE]
              [] F[1].unit = "begin" ->
                   [t |-> [t EXCEPT !.frame = F, !.reader = TRUE, !.type = "framed",
                                    !.protocol = F[1].protocol],
                    units |-> R, ok |-> TRUE]
              [] OTHER -> [t |-> [t EXCEPT !.frame = <<>>, !.reader = FALSE],
                           units |-> R, ok |-> FALSE]
    BY <1>1, <1>4, <2>2 DEF HeaderFrame, Failed, EndOfFrame, EndType
  <2> HIDE DEF f, T, R, F, n
  <2>4. /\ T \in Seq(Units) /\ Len(T) = Len(F) - 1
        /\ \A i \in 1..(Len(F) - 1) : T[i] = F[i + 1]
    BY <2>1, RestTail DEF T
  <2>5. Rest(T \o R, W)
    <3>1. T \o R = Tail(F \o R) /\ F \o R # <<>>
      BY <2>1, TailJoined DEF T
    <3>2. F \o R \in Seq(Units) /\ T \o R \in Seq(Units)
      BY <2>1, <2>4, Joined
    <3>3. Rest(T \o R, F \o R)
      BY <3>1, <3>2, RestTail
    <3> QED BY <2>1, <3>2, <3>3, RestOfRest
  <2>6. CASE F[1].unit = "meta"
    <3>1. n > 1 /\ F[1].protocol \in Languages /\ F[1].headers \in SUBSET Keys
      BY <2>1, <2>2, <2>6 DEF Units, Parts
    <3>2. f.t = [t EXCEPT !.frame = T, !.reader = TRUE, !.type = "headers",
                          !.protocol = F[1].protocol, !.readHeaders = F[1].headers]
          /\ f.units = R /\ f.ok = TRUE
      BY <2>3, <2>6
    <3>3. /\ f.t \in EndType /\ f.t.frame = T /\ f.t.reader = TRUE /\ f.t.type = "headers"
          /\ f.t.writeBuffer = t.writeBuffer
      <4> DEFINE p == F[1].protocol  h == F[1].headers
      <4>1. p \in Languages /\ h \in SUBSET Keys
        BY <3>1
      <4>2. f.t = [t EXCEPT !.frame = T, !.reader = TRUE, !.type = "headers", !.protocol = p, !.readHeaders = h]
        BY <3>2
      <4> HIDE DEF p, h
      <4>3. T \in Seq(Units)
        BY <2>4
      <4> QED BY <4>1, <4>2, <4>3 DEF EndType
    <3>4. T # <<>> /\ EndsWithBody(T)
      <4>1. Len(T) \in 1..(Len(F) - 1) /\ Len(T) + 1 = n
        BY <2>1, <2>4, <3>1
      <4>2. T[Len(T)] = F[n]
        BY <2>4, <4>1
      <4>3. T # <<>>
        BY <2>4, <4>1
      <4> QED BY <2>1, <4>2, <4>3 DEF EndsWithBody
    <3>5. FramingOf("header", f.t) /\ ~Needs("header", f.t)
      BY <3>3, <3>4 DEF FramingOf, Needs, NeedReadFrame, IsFramed
    <3>6. T \o R # <<>>
      BY <2>1, <2>4, <3>4, Joined
    <3>7. ReadOK("header", t, W, f)
      BY <1>1, <2>1, <2>5, <3>2, <3>3, <3>5, <3>6 DEF ReadOK
    <3> QED BY <3>7 DEF f
  <2>7. CASE F[1].unit = "begin"
    <3>1. F[1].protocol \in Languages
      BY <2>2, <2>7 DEF Units, Parts
    <3>2. f.t = [t EXCEPT !.frame = F, !.reader = TRUE, !.type = "framed", !.protocol = F[1].protocol]
          /\ f.units = R /\ f.ok = TRUE
      BY <2>3, <2>7
    <3>3. /\ f.t \in EndType /\ f.t.frame = F /\ f.t.reader = TRUE /\ f.t.type = "framed"
          /\ f.t.writeBuffer = t.writeBuffer
      <4> DEFINE p == F[1].protocol
      <4>1. p \in Languages
        BY <3>1
      <4>2. f.t = [t EXCEPT !.frame = F, !.reader = TRUE, !.type = "framed", !.protocol = p]
        BY <3>2
      <4> HIDE DEF p
      <4>3. F \in Seq(Units)
        BY <2>1
      <4> QED BY <4>1, <4>2, <4>3 DEF EndType
    <3>4. EndsWithBody(F)
      BY <2>1 DEF EndsWithBody
    <3>5. FramingOf("header", f.t) /\ ~Needs("header", f.t)
      BY <2>1, <3>3, <3>4 DEF FramingOf, Needs, NeedReadFrame, IsFramed
    <3>6. F \o R # <<>>
      BY <2>1, Joined
    <3>7. ReadOK("header", t, W, f)
      BY <1>1, <2>1, <3>2, <3>3, <3>5, <3>6 DEF ReadOK
    <3> QED BY <3>7 DEF f
  <2>8. CASE F[1].unit \notin {"meta", "begin"}
    <3>1. f.t = [t EXCEPT !.frame = <<>>, !.reader = FALSE] /\ f.units = R /\ f.ok = FALSE
      BY <2>3, <2>8
    <3>2. /\ f.t \in EndType /\ f.t.frame = <<>> /\ f.t.reader = FALSE
          /\ f.t.writeBuffer = t.writeBuffer
      <4>1. <<>> \in Seq(Units)
        OBVIOUS
      <4>2. f.t = [t EXCEPT !.frame = <<>>, !.reader = FALSE]
        BY <3>1
      <4> QED BY <4>1, <4>2 DEF EndType
    <3>3. f.t.frame \o f.units = R
      BY <2>1, <3>1, <3>2
    <3>4. FramingOf("header", f.t)
      BY <3>2 DEF FramingOf
    <3>5. ReadOK("header", t, W, f)
      BY <1>1, <2>1, <3>1, <3>2, <3>3, <3>4 DEF ReadOK
    <3> QED BY <3>5 DEF f
  <2> QED BY <2>6, <2>7, <2>8
<1> QED BY <1>2, <1>3, <1>4

(* TFramedTransport.readFrame.                                             *)
LEMMA PlainFrameOK ==
  ASSUME NEW t \in EndType, NEW W \in Seq(Units), FramingOf("framed", t), Sized(W),
         t.frame = <<>>, Whole(W)
  PROVE  ReadOK("framed", t, W, PlainFrame(t, W))
<1> DEFINE f == PlainFrame(t, W)
           n == W[1].n
           F == SubSeq(W, 2, n + 1)
           R == SubSeq(W, n + 2, Len(W))
<1>1. /\ t.reader = FALSE /\ W # <<>> /\ Head(W) = W[1] /\ W[1] \in Units
      /\ t.frame \o W = W /\ Len(W) \in Nat
  BY DEF FramingOf, Whole, EndType
<1>2. CASE W[1].unit # "size"
  <2>1. f.t = t /\ f.units = Tail(W) /\ f.ok = FALSE
    BY <1>1, <1>2 DEF PlainFrame, Failed
  <2>2. Tail(W) \in Seq(Units) /\ Rest(Tail(W), W) /\ t.frame \o Tail(W) = Tail(W)
    BY <1>1, RestTail
  <2> HIDE DEF f
  <2>3. ReadOK("framed", t, W, f)
    BY <1>1, <2>1, <2>2 DEF ReadOK
  <2> QED BY <2>3 DEF f
<1>3. CASE W[1].unit = "size"
  <2>1. /\ n \in Nat /\ n >= 1 /\ F \in Seq(Units) /\ R \in Seq(Units)
        /\ Len(F) = n /\ F[n].unit = "body" /\ F # <<>>
        /\ Rest(R, W) /\ Rest(F \o R, W)
    <3>1. Len(W) > W[1].n
      BY <1>1, <1>3 DEF Whole
    <3> QED BY <1>1, <1>3, <3>1, FrameBehind
  <2>2. f.t = [t EXCEPT !.frame = F] /\ f.units = R /\ f.ok = TRUE
    BY <1>1, <1>3 DEF PlainFrame
  <2> HIDE DEF f, F, R, n
  <2>3. f.t \in EndType /\ f.t.frame = F /\ f.t.reader = FALSE /\ f.t.writeBuffer = t.writeBuffer
    BY <1>1, <2>1, <2>2 DEF EndType
  <2>4. FramingOf("framed", f.t) /\ ~Needs("framed", f.t)
    BY <2>1, <2>3 DEF FramingOf, Needs, EndsWithBody
  <2>5. F \o R # <<>>
    BY <2>1, Joined
  <2>6. ReadOK("framed", t, W, f)
    BY <1>1, <2>1, <2>2, <2>3, <2>4, <2>5 DEF ReadOK
  <2> QED BY <2>6 DEF f
<1> QED BY <1>2, <1>3

(* ReadFrame, of either end.                                               *)
LEMMA FrameRead ==
  ASSUME TypeInv, Framing, Flushing, NEW e \in Ends, Ready(e)
  PROVE  /\ ReadOK(Transport(e), end[e], wire[e], ReadFrame(e))
         /\ ~Needs(Transport(e), end[e]) => ReadFrame(e) = [t |-> end[e], units |-> wire[e], ok |-> TRUE]
<1>1. end[e] \in EndType /\ wire[e] \in Seq(Units) /\ FramingOf(Transport(e), end[e])
  BY DEF TypeInv, Framing
<1>2. Transport(e) \in {"header", "framed", "buffered"}
  BY MaxCallsAssumption, TransportsAssumption DEF TypeInv, Transport
<1>3. NeedsFrame(e) <=> Needs(Transport(e), end[e])
  BY <1>2 DEF NeedsFrame, Needs
<1>4. Sized(wire[e])
  <2>1. Peer(e) \in Ends /\ Peer(Peer(e)) = e
    BY DEF Ends, Peer
  <2> QED BY <2>1 DEF Flushing, FlushOf
<1>5. CASE ~NeedsFrame(e)
  <2>1. ReadFrame(e) = [t |-> end[e], units |-> wire[e], ok |-> TRUE]
    BY <1>5 DEF ReadFrame
  <2> DEFINE f == ReadFrame(e)
  <2>2. f.t = end[e] /\ f.units = wire[e] /\ f.ok = TRUE
    BY <2>1
  <2> HIDE DEF f
  <2>3. end[e].frame \in Seq(Units)
    BY <1>1 DEF EndType
  <2>4. end[e].frame \o wire[e] # <<>> /\ end[e].frame \o wire[e] \in Seq(Units)
    <3>1. end[e].frame # <<>> \/ wire[e] # <<>>
      BY <1>5 DEF Ready
    <3> QED BY <1>1, <2>3, <3>1, Joined
  <2>5. Rest(wire[e], wire[e]) /\ Rest(end[e].frame \o wire[e], end[e].frame \o wire[e])
    BY <1>1, <2>4, RestItself
  <2>6. ReadOK(Transport(e), end[e], wire[e], f)
    BY <1>1, <1>3, <1>5, <2>2, <2>4, <2>5 DEF ReadOK
  <2> QED BY <2>1, <2>6 DEF f
<1>6. CASE NeedsFrame(e)
  <2>1. Whole(wire[e])
    BY <1>6 DEF Ready
  <2>2. CASE Transport(e) = "header"
    <3>1. ReadFrame(e) = HeaderFrame(end[e], wire[e]) /\ NeedReadFrame(end[e])
      BY <1>6, <2>2 DEF ReadFrame, NeedsFrame
    <3>2. ReadOK("header", end[e], wire[e], HeaderFrame(end[e], wire[e]))
      BY <1>1, <1>4, <2>1, <2>2, <3>1, HeaderFrameOK
    <3> QED BY <1>3, <1>6, <2>2, <3>1, <3>2
  <2>3. CASE Transport(e) = "framed"
    <3>1. ReadFrame(e) = PlainFrame(end[e], wire[e]) /\ end[e].frame = <<>>
      BY <1>6, <2>3 DEF ReadFrame, NeedsFrame
    <3>2. ReadOK("framed", end[e], wire[e], PlainFrame(end[e], wire[e]))
      BY <1>1, <1>4, <2>1, <2>3, <3>1, PlainFrameOK
    <3> QED BY <1>3, <1>6, <2>3, <3>1, <3>2
  <2>4. Transport(e) # "buffered"
    BY <1>6 DEF NeedsFrame
  <2> QED BY <1>2, <2>2, <2>3, <2>4
<1> QED BY <1>5, <1>6

(* What the operator Read has to do with the stream: the unit read is its  *)
(* first.                                                                  *)
UnitOK(x, t, W, f, r) ==
  LET s == f.t.frame \o f.units IN
  /\ r.t \in EndType /\ r.units \in Seq(Units) /\ FramingOf(x, r.t)
  /\ r.t.writeBuffer = t.writeBuffer
  /\ s \in Seq(Units) /\ s # <<>> /\ r.got = s[1] /\ r.got \in Units
  /\ r.t.frame \o r.units = Tail(s)
  /\ Rest(r.units, W) /\ Rest(r.t.frame \o r.units, t.frame \o W)
  /\ r.got.unit = "begin" => ~Needs(x, r.t)

(* An end with another rest of its frame, and with a frame read to its     *)
(* end.                                                                    *)
LEMMA FrameSet ==
  ASSUME NEW t \in EndType, NEW s \in Seq(Units), NEW p, p = [t EXCEPT !.frame = s]
  PROVE  /\ p \in EndType /\ p.frame = s /\ p.type = t.type
         /\ p.writeBuffer = t.writeBuffer /\ p.reader = t.reader
BY DEF EndType

LEMMA FrameEnds ==
  ASSUME NEW t \in EndType, NEW s \in Seq(Units), NEW p,
         p = [t EXCEPT !.frame = s, !.reader = FALSE]
  PROVE  /\ p \in EndType /\ p.frame = s /\ p.type = t.type
         /\ p.writeBuffer = t.writeBuffer /\ p.reader = FALSE
<1> DEFINE q == [t EXCEPT !.frame = s]
<1>1. /\ q \in EndType /\ q.frame = s /\ q.type = t.type /\ q.writeBuffer = t.writeBuffer
  BY FrameSet
<1>2. p = [q EXCEPT !.reader = FALSE]
  OBVIOUS
<1> HIDE DEF q
<1> QED BY <1>1, <1>2 DEF EndType

(* Receive of either end, which reads one unit at most.                    *)
LEMMA UnitRead ==
  ASSUME NEW x \in {"header", "framed", "buffered"}, NEW t \in EndType, NEW W \in Seq(Units), NEW f,
         ReadOK(x, t, W, f), f.ok = TRUE
  PROVE  UnitOK(x, t, W, f, Read(f))
<1> DEFINE r == Read(f)  s == f.t.frame \o f.units  S == t.frame \o W
<1>1. /\ f.units \in Seq(Units) /\ f.t \in EndType /\ f.t.frame \in Seq(Units)
      /\ t.frame \in Seq(Units) /\ S \in Seq(Units)
  <2>1. f.units \in Seq(Units) /\ f.t \in EndType
    BY DEF ReadOK
  <2>2. f.t.frame \in Seq(Units) /\ t.frame \in Seq(Units)
    BY <2>1 DEF EndType
  <2> QED BY <2>1, <2>2, Joined
<1>2. /\ Rest(f.units, W) /\ Rest(s, S) /\ FramingOf(x, f.t) /\ f.t.writeBuffer = t.writeBuffer
      /\ ~Needs(x, f.t) /\ s # <<>> /\ s \in Seq(Units)
  BY <1>1, Joined DEF ReadOK
<1>3. /\ Tail(s) \in Seq(Units) /\ Rest(Tail(s), s) /\ s[1] \in Units
  BY <1>2, RestTail
<1>4. Rest(Tail(s), S)
  BY <1>1, <1>2, <1>3, RestOfRest
<1>5. CASE f.t.frame = <<>>
  <2>1. r.t = f.t /\ r.units = Tail(f.units) /\ r.got = Head(f.units) /\ s = f.units
    BY <1>1, <1>5 DEF Read
  <2>2. /\ f.units # <<>> /\ Tail(f.units) \in Seq(Units) /\ Head(f.units) = f.units[1]
        /\ Rest(Tail(f.units), f.units)
    BY <1>1, <1>2, <2>1, RestTail
  <2>3. Rest(Tail(f.units), W)
    BY <1>1, <1>2, <2>2, RestOfRest
  <2>4. r.t.frame \o r.units = Tail(s)
    <3>1. <<>> \o Tail(f.units) = Tail(f.units)
      BY <2>2
    <3> QED BY <1>5, <2>1, <3>1
  <2> HIDE DEF r, s, S, UnitOK
  <2> QED BY <1>1, <1>2, <1>3, <1>4, <2>1, <2>2, <2>3, <2>4 DEF r, s, S, UnitOK
<1>6. CASE f.t.frame # <<>>
  <2> DEFINE F == f.t.frame  Q == Tail(F)
  <2>1. /\ r.t = (IF f.t.reader /\ Len(F) = 1 THEN EndOfFrame(f.t) ELSE [f.t EXCEPT !.frame = Q])
        /\ r.units = f.units /\ r.got = Head(F)
    BY <1>6 DEF Read
  <2>2. /\ Q \in Seq(Units) /\ Len(Q) = Len(F) - 1 /\ Head(F) = F[1] /\ Len(F) \in Nat
        /\ Len(F) >= 1 /\ \A i \in 1..(Len(F) - 1) : Q[i] = F[i + 1]
    BY <1>1, <1>6, RestTail
  <2>3. Q \o f.units = Tail(s) /\ s[1] = F[1]
    BY <1>1, <1>6, TailJoined
  <2>4. F[Len(F)].unit = "body"
    BY <1>2, <1>6 DEF FramingOf, EndsWithBody
  <2>5. <<>> \in Seq(Units)
    OBVIOUS
  <2>6. /\ r.t \in EndType /\ r.t.frame = Q /\ r.t.type = f.t.type
        /\ r.t.writeBuffer = f.t.writeBuffer
        /\ r.t.reader = (f.t.reader /\ Len(F) # 1)
    <3> HIDE DEF r, Q
    <3>1. CASE f.t.reader /\ Len(F) = 1
      <4>1. r.t = [f.t EXCEPT !.frame = <<>>, !.reader = FALSE]
        BY <2>1, <3>1 DEF EndOfFrame
      <4>2. Q = <<>>
        BY <2>2, <3>1, EmptyByLength
      <4>3. r.t \in EndType /\ r.t.frame = <<>> /\ r.t.type = f.t.type
            /\ r.t.writeBuffer = f.t.writeBuffer /\ r.t.reader = FALSE
        <5>1. \A p : p = [f.t EXCEPT !.frame = <<>>, !.reader = FALSE] =>
                /\ p \in EndType /\ p.frame = <<>> /\ p.type = f.t.type
                /\ p.writeBuffer = f.t.writeBuffer /\ p.reader = FALSE
          BY <1>1, <2>5, FrameEnds
        <5> QED BY <4>1, <5>1
      <4> QED BY <3>1, <4>2, <4>3
    <3>2. CASE ~(f.t.reader /\ Len(F) = 1)
      <4>1. r.t = [f.t EXCEPT !.frame = Q]
        BY <2>1, <3>2
      <4>2. r.t \in EndType /\ r.t.frame = Q /\ r.t.type = f.t.type
            /\ r.t.writeBuffer = f.t.writeBuffer /\ r.t.reader = f.t.reader
        BY <1>1, <2>2, <4>1, FrameSet
      <4>3. f.t.reader \in BOOLEAN
        BY <1>1 DEF EndType
      <4> QED BY <3>2, <4>2, <4>3
    <3> QED BY <3>1, <3>2
  <2> HIDE DEF r, F, Q
  <2>7. Q # <<>> => EndsWithBody(Q) /\ Len(F) # 1
    <3> SUFFICES ASSUME Q # <<>> PROVE EndsWithBody(Q) /\ Len(F) # 1
      OBVIOUS
    <3>1. Len(F) # 1 /\ Len(F) - 1 \in 1..(Len(F) - 1) /\ (Len(F) - 1) + 1 = Len(F)
      BY <2>2
    <3>2. Q[Len(F) - 1] = F[Len(F)]
      BY <2>2, <3>1
    <3> QED BY <2>2, <2>4, <3>1, <3>2 DEF EndsWithBody
  <2>8. Q = <<>> => Len(F) = 1
    <3>1. Len(Q) = 0 => Len(F) = 1
      BY <2>2
    <3> QED BY <2>2, <3>1, EmptyByLength
  <2>9. FramingOf(x, r.t)
    BY <1>2, <1>6, <2>6, <2>7, <2>8 DEF FramingOf, IsFramed, F
  <2>10. F[1].unit = "begin" => ~Needs(x, r.t)
    <3> SUFFICES ASSUME F[1].unit = "begin" PROVE ~Needs(x, r.t)
      OBVIOUS
    <3>1. Len(F) # 1 /\ Q # <<>>
      BY <2>4, <2>8
    <3> QED BY <1>2, <1>6, <2>6, <3>1 DEF FramingOf, Needs, NeedReadFrame, IsFramed, F
  <2>11. r.got = s[1] /\ r.units = f.units /\ r.t.frame \o r.units = Tail(s)
    BY <2>1, <2>2, <2>3, <2>6
  <2> HIDE DEF s, S
  <2> QED BY <1>1, <1>2, <1>3, <1>4, <2>1, <2>2, <2>3, <2>6, <2>9, <2>10, <2>11 DEF r, s, S, UnitOK
<1> QED BY <1>5, <1>6

-----------------------------------------------------------------------------
(* Writing *)

(* What is written to the buffer may go over the wire.                     *)
LEMMA PartsAreUnits ==
  ASSUME NEW s \in Seq(Parts)
  PROVE  s \in Seq(Units) /\ \A i \in 1..Len(s) : s[i] \in Parts /\ s[i].unit # "size"
<1>1. \A u \in Parts : u \in Units /\ u.unit # "size"
  BY DEF Parts, Units
<1>2. Len(s) \in Nat /\ \A i \in 1..Len(s) : s[i] \in Parts
  OBVIOUS
<1>3. s = [i \in 1..Len(s) |-> s[i]]
  OBVIOUS
<1>4. s \in [1..Len(s) -> Units]
  BY <1>1, <1>2, <1>3
<1>5. s \in Seq(Units)
  BY <1>2, <1>4, SeqDef
<1> QED BY <1>1, <1>2, <1>5

(* A message whole, or of a call before a later one.                       *)
LEMMA PairedLater ==
  ASSUME NEW s \in Seq(Units), NEW c \in Int, NEW d \in Int, c <= d, Paired(s, c)
  PROVE  Paired(s, d)
<1> SUFFICES ASSUME NEW i \in 1..Len(s), s[i].unit = "begin", ~(s[i].call < d)
             PROVE  i < Len(s) /\ s[i + 1] = Body(s[i].call)
  BY DEF Paired
<1>1. s[i].call \in Nat
  BY DEF Units, Parts
<1>2. ~(s[i].call < c)
  BY <1>1
<1> QED BY <1>2 DEF Paired

(* Messages whole in two sequences are whole in the two joined.            *)
LEMMA PairedJoined ==
  ASSUME NEW s \in Seq(Units), NEW t \in Seq(Units), NEW c \in Int, Paired(s, c), Paired(t, c)
  PROVE  Paired(s \o t, c)
<1> DEFINE u == s \o t
<1>1. /\ u \in Seq(Units) /\ Len(u) = Len(s) + Len(t) /\ Len(s) \in Nat /\ Len(t) \in Nat
      /\ \A i \in 1..Len(s) : u[i] = s[i]
      /\ \A i \in (Len(s) + 1)..(Len(s) + Len(t)) : u[i] = t[i - Len(s)] /\ i - Len(s) \in 1..Len(t)
  BY Joined
<1> HIDE DEF u
<1> SUFFICES ASSUME NEW i \in 1..Len(u), u[i].unit = "begin", ~(u[i].call < c)
             PROVE  i < Len(u) /\ u[i + 1] = Body(u[i].call)
  BY DEF Paired, u
<1>2. i \in Nat /\ i >= 1 /\ i <= Len(s) + Len(t)
  BY <1>1
<1>3. CASE i <= Len(s)
  <2>1. i \in 1..Len(s) /\ u[i] = s[i]
    BY <1>1, <1>2, <1>3
  <2>2. i < Len(s) /\ s[i + 1] = Body(s[i].call)
    BY <2>1 DEF Paired
  <2>3. i + 1 \in 1..Len(s)
    BY <1>1, <1>2, <2>2
  <2> QED BY <1>1, <2>1, <2>2, <2>3
<1>4. CASE i > Len(s)
  <2>1. i \in (Len(s) + 1)..(Len(s) + Len(t))
    BY <1>1, <1>2, <1>4
  <2> DEFINE j == i - Len(s)
  <2>2. j \in 1..Len(t) /\ u[i] = t[j]
    BY <1>1, <2>1
  <2>3. j < Len(t) /\ t[j + 1] = Body(t[j].call)
    BY <2>2 DEF Paired
  <2>4. i + 1 \in (Len(s) + 1)..(Len(s) + Len(t)) /\ (i + 1) - Len(s) = j + 1 /\ i < Len(u)
    BY <1>1, <1>2, <1>4, <2>3
  <2>5. u[i + 1] = t[j + 1]
    BY <1>1, <2>4
  <2> QED BY <2>2, <2>3, <2>4, <2>5
<1> QED BY <1>1, <1>2, <1>3, <1>4

(* Calls in order stay so when what comes later is joined.                 *)
LEMMA RisingJoined ==
  ASSUME NEW s \in Seq(Units), NEW t \in Seq(Units), Rising(s), Rising(t), Earlier(s, t)
  PROVE  Rising(s \o t)
<1> DEFINE u == s \o t
<1>1. /\ u \in Seq(Units) /\ Len(u) = Len(s) + Len(t) /\ Len(s) \in Nat /\ Len(t) \in Nat
      /\ \A i \in 1..Len(s) : u[i] = s[i]
      /\ \A i \in (Len(s) + 1)..(Len(s) + Len(t)) : u[i] = t[i - Len(s)] /\ i - Len(s) \in 1..Len(t)
  BY Joined
<1> HIDE DEF u
<1> SUFFICES ASSUME NEW i \in 1..Len(u), NEW j \in 1..Len(u), i < j,
                    u[i].unit = "begin", u[j].unit = "begin"
             PROVE  u[i].call < u[j].call
  BY DEF Rising, u
<1>2. i \in Nat /\ j \in Nat /\ i >= 1 /\ j <= Len(s) + Len(t) /\ i <= Len(s) + Len(t) /\ j >= 1
  BY <1>1
<1>3. CASE j <= Len(s)
  <2>1. i \in 1..Len(s) /\ j \in 1..Len(s)
    BY <1>1, <1>2, <1>3
  <2> QED BY <1>1, <2>1 DEF Rising
<1>4. CASE i <= Len(s) /\ j > Len(s)
  <2>1. i \in 1..Len(s) /\ j \in (Len(s) + 1)..(Len(s) + Len(t))
    BY <1>1, <1>2, <1>4
  <2> QED BY <1>1, <2>1 DEF Earlier
<1>5. CASE i > Len(s)
  <2>1. i \in (Len(s) + 1)..(Len(s) + Len(t)) /\ j \in (Len(s) + 1)..(Len(s) + Len(t))
        /\ i - Len(s) < j - Len(s)
    BY <1>1, <1>2, <1>5
  <2> QED BY <1>1, <2>1 DEF Rising
<1> QED BY <1>1, <1>2, <1>3, <1>4, <1>5

(* What two sequences are to a third, the two joined are.                  *)
LEMMA OrderJoined ==
  ASSUME NEW s \in Seq(Units), NEW t \in Seq(Units)
  PROVE  /\ \A m, n \in Nat : Between(s, m, n) /\ Between(t, m, n) => Between(s \o t, m, n)
         /\ \A v \in Seq(Units) : Earlier(s, v) /\ Earlier(t, v) => Earlier(s \o t, v)
         /\ \A v \in Seq(Units) : Earlier(v, s) /\ Earlier(v, t) => Earlier(v, s \o t)
<1> DEFINE u == s \o t
<1>1. \A i \in 1..Len(u) : \/ i \in 1..Len(s) /\ u[i] = s[i]
                           \/ i - Len(s) \in 1..Len(t) /\ u[i] = t[i - Len(s)]
  <2>1. /\ Len(u) = Len(s) + Len(t) /\ Len(s) \in Nat /\ Len(t) \in Nat
        /\ \A i \in 1..Len(s) : u[i] = s[i]
        /\ \A i \in (Len(s) + 1)..(Len(s) + Len(t)) : u[i] = t[i - Len(s)] /\ i - Len(s) \in 1..Len(t)
    BY Joined
  <2> HIDE DEF u
  <2> TAKE i \in 1..Len(u)
  <2>2. i \in 1..Len(s) \/ i \in (Len(s) + 1)..(Len(s) + Len(t))
    BY <2>1
  <2> QED BY <2>1, <2>2
<1> HIDE DEF u
<1>2. ASSUME NEW m \in Nat, NEW n \in Nat, Between(s, m, n), Between(t, m, n)
      PROVE  Between(u, m, n)
  BY <1>1, <1>2 DEF Between
<1>3. ASSUME NEW v \in Seq(Units), Earlier(s, v), Earlier(t, v) PROVE Earlier(u, v)
  BY <1>1, <1>3 DEF Earlier
<1>4. ASSUME NEW v \in Seq(Units), Earlier(v, s), Earlier(v, t) PROVE Earlier(v, u)
  BY <1>1, <1>4 DEF Earlier
<1> QED BY <1>2, <1>3, <1>4 DEF u

(* A sequence without a begin is in any order.                             *)
LEMMA NothingBegun ==
  ASSUME NEW s \in Seq(Units), \A i \in 1..Len(s) : s[i].unit # "begin"
  PROVE  /\ \A c \in Int : Paired(s, c)
         /\ Rising(s)
         /\ \A m, n \in Nat : Between(s, m, n)
         /\ \A v \in Seq(Units) : Earlier(s, v) /\ Earlier(v, s)
BY DEF Paired, Rising, Between, Earlier

(* A part alone.                                                           *)
LEMMA OneUnit ==
  ASSUME NEW u \in Units
  PROVE  /\ <<u>> \in Seq(Units) /\ Len(<<u>>) = 1 /\ <<u>>[1] = u
         /\ Rising(<<u>>)
         /\ u.unit # "begin" => \A i \in 1..Len(<<u>>) : <<u>>[i].unit # "begin"
         /\ \A m, n \in Nat : m < u.call /\ u.call <= n => Between(<<u>>, m, n)
<1>1. <<u>> \in Seq(Units) /\ Len(<<u>>) = 1 /\ <<u>>[1] = u
  OBVIOUS
<1>2. \A i \in 1..Len(<<u>>) : i = 1
  BY <1>1
<1>3. Rising(<<u>>)
  BY <1>2 DEF Rising
<1>4. \A m, n \in Nat : m < u.call /\ u.call <= n => Between(<<u>>, m, n)
  BY <1>1, <1>2 DEF Between
<1> QED BY <1>1, <1>2, <1>3, <1>4

(* What Flush gives: the frame or the head of it, and no size in the rest. *)
LEMMA FlushedOK ==
  ASSUME TypeInv, Framing, NEW e \in Ends, EndsWithBody(end[e].writeBuffer)
  PROVE  LET f == Flushed(e)  B == end[e].writeBuffer IN
         /\ f.t \in EndType /\ f.t.frame = end[e].frame /\ f.t.writeBuffer = <<>>
         /\ FramingOf(Transport(e), f.t)
         /\ f.payload \in Seq(Units) /\ EndsWithBody(f.payload) /\ Len(f.payload) >= 1
         /\ \A i \in 1..Len(f.payload) : f.payload[i].unit # "size"
         /\ f.size = <<>> \/ f.size = <<Size(Len(f.payload))>>
         /\ \A c \in Int : Paired(B, c) => Paired(f.payload, c)
         /\ Rising(B) => Rising(f.payload)
         /\ \A m, n \in Nat : Between(B, m, n) => Between(f.payload, m, n)
         /\ \A s \in Seq(Units) : Earlier(s, B) => Earlier(s, f.payload)
<1> DEFINE t == end[e]  B == t.writeBuffer  f == Flushed(e)
           emptied == [t EXCEPT !.writeBuffer = <<>>]
           M == <<Meta(t)>>
<1>1. t \in EndType /\ FramingOf(Transport(e), t) /\ B \in Seq(Parts)
      /\ Transport(e) \in {"header", "framed", "buffered"}
  <2>1. t \in EndType /\ FramingOf(Transport(e), t)
    BY DEF TypeInv, Framing
  <2>2. Transport(e) \in {"header", "framed", "buffered"}
    BY MaxCallsAssumption, TransportsAssumption DEF TypeInv, Transport
  <2> QED BY <2>1, <2>2 DEF EndType
<1>2. B \in Seq(Units) /\ (\A i \in 1..Len(B) : B[i] \in Parts /\ B[i].unit # "size")
  BY <1>1, PartsAreUnits
<1>3. B # <<>> /\ B[Len(B)].unit = "body" /\ Len(B) >= 1 /\ Len(B) \in Nat
  BY <1>2 DEF EndsWithBody
<1>4. <<>> \in Seq(Parts)
  OBVIOUS
<1>5. emptied \in EndType /\ emptied.frame = t.frame /\ emptied.writeBuffer = <<>>
      /\ emptied.type = t.type /\ emptied.reader = t.reader
  BY <1>1, <1>4 DEF EndType
<1>6. FramingOf(Transport(e), emptied)
  BY <1>1, <1>5 DEF FramingOf, IsFramed
<1>7. Meta(t) \in Units /\ Meta(t).unit = "meta"
  BY <1>1 DEF Meta, EndType, Units
<1> DEFINE P == M \o B
<1>8. /\ P \in Seq(Units) /\ Len(P) = Len(B) + 1 /\ P[Len(P)] = B[Len(B)]
      /\ \A i \in 1..Len(P) : P[i].unit # "size"
  <2>1. M \in Seq(Units) /\ Len(M) = 1 /\ M[1].unit = "meta"
    BY <1>7
  <2> HIDE DEF M, B
  <2>2. /\ P \in Seq(Units) /\ Len(P) = Len(B) + 1
        /\ \A i \in 1..Len(M) : P[i] = M[i]
        /\ \A i \in (Len(M) + 1)..(Len(M) + Len(B)) : P[i] = B[i - Len(M)] /\ i - Len(M) \in 1..Len(B)
    <3>1. /\ P \in Seq(Units) /\ Len(P) = Len(M) + Len(B)
          /\ \A i \in 1..Len(M) : P[i] = M[i]
          /\ \A i \in (Len(M) + 1)..(Len(M) + Len(B)) : P[i] = B[i - Len(M)] /\ i - Len(M) \in 1..Len(B)
      <4>1. M \in Seq(Units) /\ B \in Seq(Units)
        BY <1>2, <2>1
      <4> QED BY <4>1, Joined
    <3> HIDE DEF P
    <3> QED BY <1>3, <2>1, <3>1
  <2> HIDE DEF P
  <2>3. Len(P) \in (Len(M) + 1)..(Len(M) + Len(B)) /\ Len(P) - Len(M) = Len(B)
    BY <1>3, <2>1, <2>2
  <2>4. ASSUME NEW i \in 1..Len(P) PROVE P[i].unit # "size"
    <3>1. (i \in 1..Len(M) /\ i = 1) \/ i \in (Len(M) + 1)..(Len(M) + Len(B))
      BY <1>3, <2>1, <2>2
    <3> QED BY <1>2, <2>1, <2>2, <3>1
  <2> QED BY <2>2, <2>3, <2>4
<1>9. /\ \A c \in Int : Paired(B, c) => Paired(P, c)
      /\ Rising(B) => Rising(P)
      /\ \A m, n \in Nat : Between(B, m, n) => Between(P, m, n)
      /\ \A s \in Seq(Units) : Earlier(s, B) => Earlier(s, P)
  <2>1. M \in Seq(Units) /\ \A i \in 1..Len(M) : M[i].unit # "begin"
    BY <1>7, OneUnit
  <2>2. /\ \A c \in Int : Paired(M, c)
        /\ Rising(M) /\ (\A m, n \in Nat : Between(M, m, n))
        /\ \A v \in Seq(Units) : Earlier(M, v) /\ Earlier(v, M)
    BY <2>1, NothingBegun
  <2> HIDE DEF M, B
  <2> QED BY <1>2, <2>1, <2>2, PairedJoined, RisingJoined, OrderJoined
<1>10. P # <<>> /\ EndsWithBody(P) /\ Len(P) >= 1
  <2> HIDE DEF P, B
  <2> QED BY <1>3, <1>8 DEF EndsWithBody
<1> HIDE DEF P
<1>11. CASE Transport(e) = "header" /\ t.type \in {"unknown", "headers"}
  <2>1. /\ f.t = [t EXCEPT !.type = "headers", !.writeBuffer = <<>>]
        /\ f.size = <<Size(Len(B) + 1)>> /\ f.payload = P
    BY <1>11 DEF Flushed, Flush, P
  <2>2. f.t \in EndType /\ f.t.frame = t.frame /\ f.t.writeBuffer = <<>>
        /\ f.t.type = "headers" /\ f.t.reader = t.reader
    <3>1. f.t = [t EXCEPT !.type = "headers", !.writeBuffer = <<>>]
      BY <2>1
    <3> HIDE DEF f
    <3> QED BY <1>1, <1>4, <3>1 DEF EndType
  <2>3. FramingOf(Transport(e), f.t)
    <3> HIDE DEF f
    <3> QED BY <1>1, <1>11, <2>2 DEF FramingOf, IsFramed
  <2> HIDE DEF f, t
  <2> QED BY <1>8, <1>9, <1>10, <2>1, <2>2, <2>3 DEF f, t
<1>12. CASE ~(Transport(e) = "header" /\ t.type \in {"unknown", "headers"})
  <2>1. /\ f.t = emptied /\ (f.size = <<>> \/ f.size = <<Size(Len(B))>>) /\ f.payload = B
    <3>1. CASE Transport(e) = "header"
      <4>1. f = Flush(t) /\ t.type \notin {"unknown", "headers"}
        BY <1>12, <3>1 DEF Flushed
      <4>2. f.t = [t EXCEPT !.type = t.type, !.writeBuffer = <<>>]
        BY <4>1 DEF Flush
      <4>3. [t EXCEPT !.type = t.type, !.writeBuffer = <<>>] = emptied
        BY <1>1 DEF EndType
      <4>4. f.payload = <<>> \o B /\ (f.size = <<>> \/ f.size = <<Size(Len(B) + 0)>>)
        BY <4>1 DEF Flush
      <4>5. <<>> \o B = B /\ Len(B) + 0 = Len(B)
        BY <1>2, <1>3
      <4> QED BY <4>2, <4>3, <4>4, <4>5
    <3>2. CASE Transport(e) # "header"
      BY <3>2 DEF Flushed
    <3> QED BY <3>1, <3>2
  <2>2. EndsWithBody(B) /\ Len(B) >= 1
    BY <1>3
  <2> HIDE DEF f, t, emptied
  <2> QED BY <1>2, <1>5, <1>6, <2>1, <2>2 DEF f, t
<1> QED BY <1>11, <1>12

-----------------------------------------------------------------------------
(* What an end does when it reads *)

(* After a read, whatever comes of it, the other end is as it was, and what *)
(* is left to read is a rest of what was.                                  *)
LEMMA ReceiveKeeps ==
  ASSUME TypeInv, Framing, Flushing, NEW e \in Ends, Ready(e), NEW r,
         r = ReadFrame(e) \/ (ReadFrame(e).ok = TRUE /\ r = Read(ReadFrame(e))),
         Receives(e, r), pc[e] \in {"begin", "body"},
         NEW l \in {"begin", "body", "idle", "reply", "closed"}, Goto(e, l),
         closed' \in BOOLEAN, closed => closed', UNCHANGED <<client, adapts>>
  PROVE  /\ end' \in [Ends -> EndType] /\ wire' \in [Ends -> Seq(Units)]
         /\ end'[e] = r.t /\ end'[Peer(e)] = end[Peer(e)]
         /\ pc'[e] = l /\ pc'[Peer(e)] = pc[Peer(e)]
         /\ \A p \in Ends : end'[p].writeBuffer = end[p].writeBuffer
         /\ Stream(e)' = r.t.frame \o r.units /\ Stream(Peer(e))' = Stream(Peer(e))
         /\ \A p \in Ends : Stream(p) \in Seq(Units) /\ Stream(p)' \in Seq(Units)
         /\ Rest(Stream(e)', Stream(e))
         /\ Framing' /\ Flushing'
<1> DEFINE f == ReadFrame(e)  x == Transport(e)  t == end[e]  W == wire[e]
<1>1. /\ x \in {"header", "framed", "buffered"} /\ t \in EndType /\ W \in Seq(Units)
      /\ Peer(e) \in Ends /\ Peer(e) # e /\ Peer(Peer(e)) = e /\ Ends = {e, Peer(e)}
  <2>1. x \in {"header", "framed", "buffered"}
    BY MaxCallsAssumption, TransportsAssumption DEF TypeInv, Transport
  <2>2. t \in EndType /\ W \in Seq(Units)
    BY DEF TypeInv
  <2>3. Peer(e) \in Ends /\ Peer(e) # e /\ Peer(Peer(e)) = e /\ Ends = {e, Peer(e)}
    BY DEF Ends, Peer
  <2> QED BY <2>1, <2>2, <2>3
<1>2. ReadOK(x, t, W, f)
  BY FrameRead
<1>3. /\ r.t \in EndType /\ r.units \in Seq(Units) /\ FramingOf(x, r.t)
      /\ r.t.writeBuffer = t.writeBuffer
      /\ Rest(r.units, W) /\ Rest(r.t.frame \o r.units, t.frame \o W)
  <2> HIDE DEF f, x, t, W
  <2>1. CASE r = f
    BY <1>2, <2>1 DEF ReadOK
  <2>2. CASE f.ok = TRUE /\ r = Read(f)
    <3>1. f.ok = TRUE /\ r = Read(f)
      BY <2>2
    <3>2. /\ Read(f).t \in EndType /\ Read(f).units \in Seq(Units) /\ FramingOf(x, Read(f).t)
          /\ Read(f).t.writeBuffer = t.writeBuffer
          /\ Rest(Read(f).units, W) /\ Rest(Read(f).t.frame \o Read(f).units, t.frame \o W)
      <4>1. UnitOK(x, t, W, f, Read(f))
        BY <1>1, <1>2, <3>1, UnitRead
      <4> DEFINE q == Read(f)
      <4>2. UnitOK(x, t, W, f, q)
        BY <4>1
      <4> HIDE DEF q
      <4>3. /\ q.t \in EndType /\ q.units \in Seq(Units) /\ FramingOf(x, q.t)
            /\ q.t.writeBuffer = t.writeBuffer
            /\ Rest(q.units, W) /\ Rest(q.t.frame \o q.units, t.frame \o W)
        BY <4>2 DEF UnitOK
      <4> QED BY <4>3 DEF q
    <3> QED BY <3>1, <3>2, Zenon
  <2> QED BY <2>1, <2>2 DEF f
<1> HIDE DEF f, x, t, W
<1>4. /\ end' = [end EXCEPT ![e] = r.t] /\ wire' = [wire EXCEPT ![e] = r.units]
      /\ pc' = [pc EXCEPT ![e] = l]
  BY DEF Receives, Goto
<1>5. /\ end'[e] = r.t /\ end'[Peer(e)] = end[Peer(e)] /\ end' \in [Ends -> EndType]
      /\ wire'[e] = r.units /\ wire'[Peer(e)] = wire[Peer(e)] /\ wire' \in [Ends -> Seq(Units)]
      /\ pc'[e] = l /\ pc'[Peer(e)] = pc[Peer(e)]
  BY <1>1, <1>3, <1>4 DEF TypeInv
<1>6. \A p \in Ends : end'[p].writeBuffer = end[p].writeBuffer
  BY <1>1, <1>3, <1>5 DEF t
<1>7. /\ Stream(e)' = r.t.frame \o r.units /\ Stream(Peer(e))' = Stream(Peer(e))
      /\ Stream(e) = t.frame \o W
  BY <1>5 DEF Stream, t, W
<1>8. \A p \in Ends : Stream(p) \in Seq(Units) /\ Stream(p)' \in Seq(Units)
  <2> TAKE p \in Ends
  <2>1. /\ end[p].frame \in Seq(Units) /\ wire[p] \in Seq(Units)
        /\ end'[p].frame \in Seq(Units) /\ wire'[p] \in Seq(Units)
    BY <1>5 DEF TypeInv, EndType
  <2> QED BY <2>1, Joined DEF Stream
<1>9. Framing'
  <2>1. \A p \in Ends : Transport(p)' = Transport(p)
    BY DEF Transport
  <2>2. ASSUME NEW p \in Ends PROVE FramingOf(Transport(p), end'[p])
    <3>1. FramingOf(Transport(p), end[p])
      BY DEF Framing
    <3> QED BY <1>1, <1>3, <1>5, <3>1 DEF x
  <2> QED BY <2>1, <2>2 DEF Framing
<1>10. Flushing'
  <2>1. FlushOf(e, wire[Peer(e)])'
    <3>1. FlushOf(e, wire[Peer(e)])
      BY DEF Flushing
    <3>2. /\ Sized(wire[Peer(e)]) /\ (EndsWithSize(wire[Peer(e)]) => closed)
      BY <3>1 DEF FlushOf
    <3> QED BY <1>5, <3>2 DEF FlushOf
  <2>2. FlushOf(Peer(e), wire[e])'
    <3>1. FlushOf(Peer(e), W)
      BY <1>1 DEF Flushing, W
    <3>2. Flushed(Peer(e))' = Flushed(Peer(e))
      BY <1>5 DEF Flushed, Transport
    <3>3. Sized(r.units)
      BY <1>1, <1>3, <3>1, RestSized DEF FlushOf
    <3>4. EndsWithSize(r.units) => EndsWithSize(W) /\ W[Len(W)] = r.units[Len(r.units)]
      BY <1>1, <1>3, RestKeeps DEF EndsWithSize
    <3>5. EndsWithSize(r.units) =>
            closed' \/ (pc'[Peer(e)] = "payload"
                        /\ r.units[Len(r.units)].n = Len((Flushed(Peer(e)).payload)'))
      BY <1>5, <3>1, <3>2, <3>4 DEF FlushOf
    <3>6. pc'[Peer(e)] \in {"flush", "payload"} => EndsWithBody(end'[Peer(e)].writeBuffer)
      BY <1>5, <3>1 DEF FlushOf
    <3> QED BY <1>5, <3>3, <3>5, <3>6 DEF FlushOf
  <2>3. \A p \in Ends : FlushOf(p, wire[Peer(p)])'
    BY <1>1, <2>1, <2>2
  <2> QED BY <2>3 DEF Flushing
<1> QED BY <1>3, <1>5, <1>6, <1>7, <1>8, <1>9, <1>10 DEF t, W

(* What comes first, if it was read.                                       *)
LEMMA FirstRead ==
  ASSUME TypeInv, Framing, Flushing, NEW e \in Ends, Ready(e), ReadFrame(e).ok = TRUE
  PROVE  LET f == ReadFrame(e)  r == Read(f)  s == f.t.frame \o f.units IN
         /\ s \in Seq(Units) /\ s # <<>> /\ Rest(s, Stream(e)) /\ Stream(e) \in Seq(Units)
         /\ r.got = s[1] /\ r.got \in Units /\ r.t.frame \o r.units = Tail(s)
         /\ r.got.unit = "begin" => ~Needs(Transport(e), r.t)
         /\ ~Needs(Transport(e), end[e]) => s = Stream(e)
         /\ f.t.readHeaders \in SUBSET Keys
<1> DEFINE f == ReadFrame(e)  x == Transport(e)  t == end[e]  W == wire[e]
<1>1. /\ x \in {"header", "framed", "buffered"} /\ t \in EndType /\ W \in Seq(Units)
  BY MaxCallsAssumption, TransportsAssumption DEF TypeInv, Transport
<1>2. ReadOK(x, t, W, f) /\ (~Needs(x, t) => f = [t |-> t, units |-> W, ok |-> TRUE])
  BY FrameRead
<1>3. t.frame \o W \in Seq(Units)
  BY <1>1, Joined DEF EndType
<1>4. Stream(e) = t.frame \o W
  BY DEF Stream
<1>5. f.ok = TRUE
  OBVIOUS
<1> HIDE DEF f, x, t, W
<1> DEFINE q == Read(f)
<1>6. UnitOK(x, t, W, f, q)
  BY <1>1, <1>2, <1>5, UnitRead
<1> HIDE DEF q
<1>9. /\ f.t.frame \o f.units \in Seq(Units) /\ f.t.frame \o f.units # <<>>
      /\ q.got = (f.t.frame \o f.units)[1] /\ q.got \in Units
      /\ q.t.frame \o q.units = Tail(f.t.frame \o f.units)
      /\ q.got.unit = "begin" => ~Needs(x, q.t)
  BY <1>6 DEF UnitOK
<1>7. Rest(f.t.frame \o f.units, t.frame \o W) /\ f.t.readHeaders \in SUBSET Keys
  BY <1>2 DEF ReadOK, EndType
<1>8. ASSUME ~Needs(x, t) PROVE f.t.frame \o f.units = t.frame \o W
  <2>1. f = [t |-> t, units |-> W, ok |-> TRUE]
    BY <1>2, <1>8
  <2>2. f.t = t /\ f.units = W
    BY <2>1
  <2> QED BY <2>2
<1> QED BY <1>3, <1>4, <1>7, <1>8, <1>9 DEF f, x, t, q

(* The reply of a call under way may be the next thing that comes.         *)
LEMMA RecvBeginKeeps ==
  ASSUME TalkInv, RecvBegin
  PROVE  TalkInv'
<1> DEFINE e == "client"  f == ReadFrame(e)  r == Read(f)  s == f.t.frame \o f.units
           v == IF f.ok THEN r ELSE f
           l == IF f.ok /\ Accepted(r.got, f.t.protocol) THEN "body" ELSE "idle"
<1>1. /\ TypeInv /\ Calling /\ Framing /\ Flushing /\ Replies /\ Asking
  BY DEF TalkInv
<1>2. /\ pc[e] = "begin" /\ Ready(e) /\ Receives(e, v) /\ Goto(e, l)
      /\ result' = (IF l = "body" THEN result ELSE [result EXCEPT ![call] = "error"])
      /\ UNCHANGED <<client, adapts, closed, call, asked, request, served, aborts, faults>>
  BY DEF RecvBegin
<1>3. e \in Ends /\ Peer(e) = "server" /\ call \in Calls /\ closed \in BOOLEAN
  BY <1>1, <1>2 DEF Ends, Peer, Calling, TypeInv
<1>4. f.ok \in BOOLEAN
  BY <1>1, <1>2, <1>3, FrameRead DEF ReadOK
<1>5. /\ v = f \/ (f.ok = TRUE /\ v = Read(f))
      /\ l \in {"begin", "body", "idle", "reply", "closed"} /\ l \in {"body", "idle"}
      /\ l = "body" => f.ok = TRUE /\ v = r /\ r.got.unit = "begin" /\ r.got.call = call
  <2> HIDE DEF f
  <2> QED BY <1>4 DEF Accepted
<1> HIDE DEF f, r, v, s, l
<1>6. /\ end' \in [Ends -> EndType] /\ wire' \in [Ends -> Seq(Units)]
      /\ end'[e] = v.t /\ end'["server"] = end["server"]
      /\ pc'[e] = l /\ pc'["server"] = pc["server"]
      /\ \A p \in Ends : end'[p].writeBuffer = end[p].writeBuffer
      /\ Stream(e)' = v.t.frame \o v.units /\ Stream("server")' = Stream("server")
      /\ \A p \in Ends : Stream(p) \in Seq(Units) /\ Stream(p)' \in Seq(Units)
      /\ Rest(Stream(e)', Stream(e))
      /\ Framing' /\ Flushing'
  <2>1. v = ReadFrame(e) \/ (ReadFrame(e).ok = TRUE /\ v = Read(ReadFrame(e)))
    BY <1>5 DEF f
  <2>2. pc[e] \in {"begin", "body"} /\ (closed => closed')
    BY <1>2, <1>3
  <2>3. /\ end' \in [Ends -> EndType] /\ wire' \in [Ends -> Seq(Units)]
        /\ end'[e] = v.t /\ end'[Peer(e)] = end[Peer(e)]
        /\ pc'[e] = l /\ pc'[Peer(e)] = pc[Peer(e)]
        /\ \A p \in Ends : end'[p].writeBuffer = end[p].writeBuffer
        /\ Stream(e)' = v.t.frame \o v.units /\ Stream(Peer(e))' = Stream(Peer(e))
        /\ \A p \in Ends : Stream(p) \in Seq(Units) /\ Stream(p)' \in Seq(Units)
        /\ Rest(Stream(e)', Stream(e))
        /\ Framing' /\ Flushing'
    BY <1>1, <1>2, <1>3, <1>5, <2>1, <2>2, ReceiveKeeps
  <2> QED BY <1>3, <2>3
<1>7. TypeInv'
  <2>1. pc' \in [Ends -> {"idle", "args", "reply", "flush", "payload", "begin", "body", "closed"}]
        /\ pc'["client"] \notin {"reply", "closed"} /\ pc'["server"] \notin {"idle", "args"}
    BY <1>1, <1>2, <1>5, <1>6 DEF TypeInv, Goto
  <2>2. result' \in [Calls -> {"none", "error", "own"}]
    BY <1>1, <1>2, <1>3 DEF TypeInv
  <2> QED BY <1>1, <1>2, <1>6, <2>1, <2>2 DEF TypeInv
<1>8. Calling'
  BY <1>2, <1>3 DEF Calling
<1>9. Replies'
  <2>1. Paired(Stream("client")', call) /\ "client" \in Ends
    BY <1>1, <1>3, <1>6, RestKeeps DEF Replies, TypeInv
  <2>2. ASSUME l = "body"
        PROVE  /\ ~Needs(Transport("client"), end'["client"])
               /\ Stream("client")' # <<>> /\ Stream("client")'[1] = Body(call)
    <3>1. f.ok = TRUE /\ v = r /\ r.got.unit = "begin" /\ r.got.call = call
      BY <1>5, <2>2
    <3>2. /\ s \in Seq(Units) /\ s # <<>> /\ Rest(s, Stream(e)) /\ Stream(e) \in Seq(Units)
          /\ r.got = s[1] /\ r.t.frame \o r.units = Tail(s)
          /\ ~Needs(Transport(e), r.t)
      BY <1>1, <1>2, <1>3, <3>1, FirstRead DEF f, r, s
    <3>3. Paired(s, call) /\ call \in Nat
      BY <1>1, <1>3, <3>2, RestKeeps DEF Replies, TypeInv
    <3> DEFINE Q == Tail(s)
    <3>4. /\ Q \in Seq(Units) /\ Len(Q) = Len(s) - 1 /\ Len(s) \in Nat /\ Len(s) >= 1
          /\ \A i \in 1..(Len(s) - 1) : Q[i] = s[i + 1]
      BY <3>2, RestTail
    <3>5. s[1].unit = "begin" /\ s[1].call = call
      BY <3>1, <3>2
    <3> HIDE DEF Q
    <3>6. 1 < Len(s) /\ s[1 + 1] = Body(call)
      <4>1. 1 \in 1..Len(s) /\ ~(s[1].call < call)
        BY <3>3, <3>4, <3>5
      <4> QED BY <3>3, <3>5, <4>1 DEF Paired
    <3>7. Q[1] = Body(call) /\ Q # <<>>
      <4>1. 1 \in 1..(Len(s) - 1) /\ Len(Q) # 0
        BY <3>4, <3>6
      <4> QED BY <3>4, <3>6, <4>1, EmptyByLength
    <3> QED BY <1>6, <3>1, <3>2, <3>7 DEF Q
  <2>3. Transport("client")' = Transport("client")
    BY <1>2 DEF Transport
  <2>4. pc'["client"] = "body" => l = "body"
    BY <1>6
  <2> QED BY <1>1, <1>2, <1>3, <1>6, <2>1, <2>2, <2>3, <2>4 DEF Replies, Answering, Ends
<1>10. Asking'
  BY <1>1, <1>2, <1>3, <1>6 DEF Asking, InOrder, Ends
<1> QED BY <1>6, <1>7, <1>8, <1>9, <1>10 DEF TalkInv

(* The body that comes is that of the call.                                *)
LEMMA RecvBodyKeeps ==
  ASSUME TalkInv, RecvBody
  PROVE  TalkInv'
<1> DEFINE e == "client"  f == ReadFrame(e)
<1>1. /\ TypeInv /\ Calling /\ Framing /\ Flushing /\ Replies /\ Asking
  BY DEF TalkInv
<1>2. /\ pc[e] = "body" /\ Ready(e) /\ Goto(e, "idle")
      /\ Receives(e, IF f.ok THEN Read(f) ELSE f)
      /\ \E outcome \in IF ~f.ok \/ Read(f).got.unit # "body" THEN {"error", "garbage"}
                        ELSE IF Read(f).got.call = call THEN {"own"} ELSE {"other"} :
           result' = [result EXCEPT ![call] = outcome]
      /\ UNCHANGED <<client, adapts, closed, call, asked, request, served, aborts, faults>>
  BY DEF RecvBody
<1>3. e \in Ends /\ Peer(e) = "server" /\ call \in Calls /\ call \in Nat /\ closed \in BOOLEAN
  BY <1>1, <1>2 DEF Ends, Peer, Calling, TypeInv
<1>4. ~Needs(Transport(e), end[e]) /\ Stream(e) # <<>> /\ Stream(e)[1] = Body(call)
  BY <1>1, <1>2 DEF Replies
<1>5. f.ok = TRUE
  <2>1. f = [t |-> end[e], units |-> wire[e], ok |-> TRUE]
    BY <1>1, <1>2, <1>3, <1>4, FrameRead
  <2> QED BY <2>1
<1>6. Read(f).got = Body(call)
  BY <1>1, <1>2, <1>3, <1>4, <1>5, FirstRead
<1> DEFINE r == Read(f)
<1>7. Receives(e, r) /\ result' = [result EXCEPT ![call] = "own"]
  <2> HIDE DEF f
  <2>1. Read(f).got.unit = "body" /\ Read(f).got.call = call
    BY <1>6 DEF Body
  <2> QED BY <1>2, <1>5, <2>1
<1> HIDE DEF r, f
<1>8. /\ end' \in [Ends -> EndType] /\ wire' \in [Ends -> Seq(Units)]
      /\ end'["server"] = end["server"] /\ pc'[e] = "idle" /\ pc'["server"] = pc["server"]
      /\ \A p \in Ends : end'[p].writeBuffer = end[p].writeBuffer
      /\ Stream("server")' = Stream("server")
      /\ \A p \in Ends : Stream(p) \in Seq(Units) /\ Stream(p)' \in Seq(Units)
      /\ Rest(Stream(e)', Stream(e))
      /\ Framing' /\ Flushing'
  BY <1>1, <1>2, <1>3, <1>5, <1>7, ReceiveKeeps DEF f, r
<1>9. TypeInv'
  <2>1. pc' \in [Ends -> {"idle", "args", "reply", "flush", "payload", "begin", "body", "closed"}]
        /\ pc'["client"] \notin {"reply", "closed"} /\ pc'["server"] \notin {"idle", "args"}
    BY <1>1, <1>2, <1>8 DEF TypeInv, Goto
  <2>2. result' \in [Calls -> {"none", "error", "own"}]
    BY <1>1, <1>7, <1>3 DEF TypeInv
  <2> QED BY <1>1, <1>2, <1>8, <2>1, <2>2 DEF TypeInv
<1>10. Calling' /\ Asking'
  BY <1>1, <1>2, <1>3, <1>8 DEF Calling, Asking, InOrder, Ends
<1>11. Replies'
  <2>1. Paired(Stream("client")', call)
    BY <1>1, <1>3, <1>8, RestKeeps DEF Replies
  <2> QED BY <1>1, <1>2, <1>3, <1>8, <2>1 DEF Replies, Answering, Ends
<1> QED BY <1>8, <1>9, <1>10, <1>11 DEF TalkInv

(* A request begun is of a later call than the last one.                   *)
LEMMA ServeBeginKeeps ==
  ASSUME TalkInv, ServeBegin
  PROVE  TalkInv'
<1> DEFINE e == "server"  f == ReadFrame(e)  r == Read(f)  s == f.t.frame \o f.units
           l == IF f.ok /\ r.got.unit = "begin" /\ r.got.protocol = f.t.protocol THEN "body" ELSE "closed"
           v == IF l = "body" THEN r ELSE f
<1>1. /\ TypeInv /\ Calling /\ Framing /\ Flushing /\ Replies /\ Asking
  BY DEF TalkInv
<1>2. /\ pc[e] = "begin" /\ Ready(e) /\ Receives(e, v) /\ Goto(e, l)
      /\ request' = (IF l = "body" THEN [call |-> r.got.call, headers |-> f.t.readHeaders] ELSE request)
      /\ closed' = (IF l = "body" THEN closed ELSE TRUE)
      /\ UNCHANGED <<client, adapts, call, asked, served, result, aborts, faults>>
  BY DEF ServeBegin, CloseServer
<1>4. f.ok \in BOOLEAN
  BY <1>1, <1>2, FrameRead DEF ReadOK, Ends
<1>5. /\ v = f \/ (f.ok = TRUE /\ v = Read(f))
      /\ l \in {"begin", "body", "idle", "reply", "closed"} /\ l \in {"body", "closed"}
      /\ l = "body" => f.ok = TRUE /\ v = r /\ r.got.unit = "begin"
  <2> HIDE DEF f
  <2> QED BY <1>4
<1> HIDE DEF f, r, v, s, l
<1>3. e \in Ends /\ Peer(e) = "client" /\ closed \in BOOLEAN /\ closed' \in BOOLEAN
      /\ (closed => closed') /\ call \in Nat /\ request.call \in Nat
      /\ request \in [call : 0..call, headers : SUBSET Keys]
  <2>1. closed' = closed \/ closed' = TRUE
    BY <1>2
  <2>2. closed \in BOOLEAN /\ call \in 0..MaxCalls /\ MaxCalls \in Nat
        /\ request \in [call : 0..call, headers : SUBSET Keys]
    BY <1>1, MaxCallsAssumption, TransportsAssumption DEF TypeInv
  <2>3. call \in Nat /\ request.call \in Nat
    BY <2>2
  <2> QED BY <2>1, <2>2, <2>3 DEF Ends, Peer
<1>7. /\ end' \in [Ends -> EndType] /\ wire' \in [Ends -> Seq(Units)]
      /\ end'["client"] = end["client"]
      /\ pc'[e] = l /\ pc'["client"] = pc["client"]
      /\ \A p \in Ends : end'[p].writeBuffer = end[p].writeBuffer
      /\ Stream(e)' = v.t.frame \o v.units /\ Stream("client")' = Stream("client")
      /\ \A p \in Ends : Stream(p) \in Seq(Units) /\ Stream(p)' \in Seq(Units)
      /\ Rest(Stream(e)', Stream(e))
      /\ Framing' /\ Flushing'
  <2>1. v = ReadFrame(e) \/ (ReadFrame(e).ok = TRUE /\ v = Read(ReadFrame(e)))
    BY <1>5 DEF f
  <2>2. pc[e] \in {"begin", "body"} /\ (closed => closed')
    BY <1>2, <1>3
  <2>3. /\ end' \in [Ends -> EndType] /\ wire' \in [Ends -> Seq(Units)]
        /\ end'[e] = v.t /\ end'[Peer(e)] = end[Peer(e)]
        /\ pc'[e] = l /\ pc'[Peer(e)] = pc[Peer(e)]
        /\ \A p \in Ends : end'[p].writeBuffer = end[p].writeBuffer
        /\ Stream(e)' = v.t.frame \o v.units /\ Stream(Peer(e))' = Stream(Peer(e))
        /\ \A p \in Ends : Stream(p) \in Seq(Units) /\ Stream(p)' \in Seq(Units)
        /\ Rest(Stream(e)', Stream(e))
        /\ Framing' /\ Flushing'
    BY <1>1, <1>2, <1>3, <1>5, <2>1, <2>2, ReceiveKeeps
  <2> QED BY <1>3, <2>3
<1>8. Stream(e) \in Seq(Units) /\ end["client"].writeBuffer \in Seq(Units)
      /\ end["server"].writeBuffer \in Seq(Units)
  <2>1. end["client"].writeBuffer \in Seq(Parts) /\ end["server"].writeBuffer \in Seq(Parts)
    BY <1>1 DEF TypeInv, EndType, Ends
  <2> QED BY <1>3, <1>7, <2>1, PartsAreUnits
<1>9. CASE l = "body"
  <2> DEFINE g == r.got.call  Q == Tail(s)
  <2>1. /\ s \in Seq(Units) /\ s # <<>> /\ Rest(s, Stream(e))
        /\ r.got = s[1] /\ r.got \in Units /\ r.t.frame \o r.units = Tail(s)
        /\ f.t.readHeaders \in SUBSET Keys
    BY <1>1, <1>2, <1>3, <1>5, <1>9, FirstRead DEF f, r, s
  <2>2. r.got.unit = "begin" /\ g \in Nat /\ s[1].unit = "begin" /\ s[1].call = g
    BY <1>5, <1>9, <2>1 DEF Units, Parts
  <2>3. InOrder(Stream(e), end["client"].writeBuffer, request.call, call)
    BY <1>1 DEF Asking
  <2>4. /\ Rising(s) /\ Earlier(s, end["client"].writeBuffer)
        /\ Between(s, request.call, call)
    BY <1>3, <1>8, <2>1, <2>3, RestKeeps DEF InOrder
  <2>5. /\ Q \in Seq(Units) /\ Len(Q) = Len(s) - 1 /\ Len(s) \in Nat /\ Len(s) >= 1
        /\ \A i \in 1..(Len(s) - 1) : Q[i] = s[i + 1]
        /\ Rest(Q, s)
    BY <2>1, RestTail
  <2> HIDE DEF Q
  <2>6. 1 \in 1..Len(s)
    BY <2>5
  <2>7. request.call < g /\ g <= call
    BY <2>2, <2>4, <2>6 DEF Between
  <2> HIDE DEF g
  <2>8. InOrder(Q, end["client"].writeBuffer, g, call)
    <3>1. Rising(Q) /\ Earlier(Q, end["client"].writeBuffer)
      BY <1>8, <2>1, <2>4, <2>5, RestKeeps
    <3>2. Between(Q, g, call)
      <4> SUFFICES ASSUME NEW i \in 1..Len(Q), Q[i].unit = "begin"
                   PROVE  g < Q[i].call /\ Q[i].call <= call
        BY DEF Between
      <4>1. i + 1 \in 1..Len(s) /\ Q[i] = s[i + 1] /\ 1 < i + 1
        BY <2>5
      <4> QED BY <2>2, <2>4, <2>6, <4>1 DEF Between, Rising
    <3>3. Between(end["client"].writeBuffer, g, call)
      <4> DEFINE B == end["client"].writeBuffer
      <4> SUFFICES ASSUME NEW i \in 1..Len(B), B[i].unit = "begin"
                   PROVE  g < B[i].call /\ B[i].call <= call
        BY DEF Between
      <4> HIDE DEF B
      <4>1. Between(B, request.call, call) /\ Earlier(s, B)
        BY <2>3, <2>4 DEF InOrder, B
      <4> QED BY <2>2, <2>6, <4>1 DEF Between, Earlier
    <3> QED BY <2>3, <3>1, <3>2, <3>3 DEF InOrder
  <2>9. request' = [call |-> g, headers |-> f.t.readHeaders] /\ v = r /\ l = "body"
    BY <1>2, <1>5, <1>9 DEF g
  <2>10. request' \in [call : 0..call, headers : SUBSET Keys] /\ request'.call = g
    BY <1>3, <2>1, <2>2, <2>7, <2>9 DEF g
  <2>11. TypeInv'
    <3>1. pc' \in [Ends -> {"idle", "args", "reply", "flush", "payload", "begin", "body", "closed"}]
          /\ pc'["client"] \notin {"reply", "closed"} /\ pc'["server"] \notin {"idle", "args"}
      BY <1>1, <1>2, <1>7, <2>9 DEF TypeInv, Goto
    <3> QED BY <1>1, <1>2, <1>3, <1>7, <2>10, <3>1 DEF TypeInv
  <2>12. Asking'
    BY <1>2, <1>3, <1>7, <2>1, <2>8, <2>9, <2>10 DEF Asking, InOrder, Ends, Q
  <2>13. Replies'
    <3>1. Paired(end["server"].writeBuffer, request.call + 1)
      BY <1>1, <1>2 DEF Replies, Answering
    <3>2. request.call + 1 <= g /\ request.call + 1 \in Int /\ g \in Int
      BY <1>3, <2>2, <2>7 DEF g
    <3>3. Paired(end["server"].writeBuffer, g)
      BY <1>8, <3>1, <3>2, PairedLater
    <3>4. Transport("client")' = Transport("client")
      BY <1>2 DEF Transport
    <3>5. pc'["server"] \in Answering
      BY <1>7, <2>9 DEF Answering
    <3> QED BY <1>1, <1>2, <1>3, <1>7, <2>10, <3>3, <3>4, <3>5 DEF Replies, Ends
  <2>14. Calling'
    BY <1>1, <1>2, <1>7 DEF Calling
  <2> QED BY <1>7, <2>11, <2>12, <2>13, <2>14 DEF TalkInv
<1>10. CASE l = "closed"
  <2>1. request' = request /\ l = "closed"
    BY <1>2, <1>10
  <2>2. TypeInv'
    <3>1. pc' \in [Ends -> {"idle", "args", "reply", "flush", "payload", "begin", "body", "closed"}]
          /\ pc'["client"] \notin {"reply", "closed"} /\ pc'["server"] \notin {"idle", "args"}
      BY <1>1, <1>2, <1>7, <2>1 DEF TypeInv, Goto
    <3> QED BY <1>1, <1>2, <1>3, <1>7, <2>1, <3>1 DEF TypeInv
  <2>3. Asking'
    <3>1. Rising(Stream(e)') /\ Earlier(Stream(e)', end["client"].writeBuffer)
          /\ Between(Stream(e)', request.call, call)
      BY <1>1, <1>3, <1>7, <1>8, RestKeeps DEF Asking, InOrder
    <3> QED BY <1>1, <1>2, <1>7, <2>1, <3>1 DEF Asking, InOrder, Ends
  <2>4. Replies'
    <3>1. Transport("client")' = Transport("client")
      BY <1>2 DEF Transport
    <3> QED BY <1>1, <1>2, <1>3, <1>7, <2>1, <3>1 DEF Replies, Answering, Ends
  <2>5. Calling'
    BY <1>1, <1>2, <1>7 DEF Calling
  <2> QED BY <1>7, <2>2, <2>3, <2>4, <2>5 DEF TalkInv
<1> QED BY <1>5, <1>9, <1>10

(* The body of a request, or what is taken for it.                         *)
LEMMA ServeBodyKeeps ==
  ASSUME TalkInv, ServeBody
  PROVE  TalkInv'
<1> DEFINE e == "server"  f == ReadFrame(e)  v == IF f.ok THEN Read(f) ELSE f
<1>1. /\ TypeInv /\ Calling /\ Framing /\ Flushing /\ Replies /\ Asking
  BY DEF TalkInv
<1>2. PICK l \in {"reply", "closed"} :
      /\ pc[e] = "body" /\ Ready(e) /\ Receives(e, v) /\ Goto(e, l)
      /\ closed' = (closed \/ l = "closed")
      /\ UNCHANGED <<client, adapts, call, asked, request, result, aborts, faults>>
  <2>1. closed \in BOOLEAN
    BY <1>1 DEF TypeInv
  <2> QED BY <2>1 DEF ServeBody, CloseServer
<1>3. e \in Ends /\ Peer(e) = "client" /\ closed \in BOOLEAN /\ closed' \in BOOLEAN
      /\ (closed => closed') /\ call \in Nat /\ request.call \in Nat
  BY <1>1, <1>2 DEF Ends, Peer, TypeInv
<1>4. v = f \/ (f.ok = TRUE /\ v = Read(f))
  <2>1. f.ok \in BOOLEAN
    BY <1>1, <1>2, <1>3, FrameRead DEF ReadOK
  <2> HIDE DEF f
  <2> QED BY <2>1
<1> HIDE DEF f, v
<1>5. /\ end' \in [Ends -> EndType] /\ wire' \in [Ends -> Seq(Units)]
      /\ end'["client"] = end["client"]
      /\ pc'[e] = l /\ pc'["client"] = pc["client"]
      /\ \A p \in Ends : end'[p].writeBuffer = end[p].writeBuffer
      /\ Stream("client")' = Stream("client")
      /\ \A p \in Ends : Stream(p) \in Seq(Units) /\ Stream(p)' \in Seq(Units)
      /\ Rest(Stream(e)', Stream(e))
      /\ Framing' /\ Flushing'
  BY <1>1, <1>2, <1>3, <1>4, ReceiveKeeps DEF f
<1>6. end["client"].writeBuffer \in Seq(Units) /\ end["server"].writeBuffer \in Seq(Units)
  <2>1. end["client"].writeBuffer \in Seq(Parts) /\ end["server"].writeBuffer \in Seq(Parts)
    BY <1>1 DEF TypeInv, EndType, Ends
  <2> QED BY <2>1, PartsAreUnits
<1>7. TypeInv'
  <2>1. pc' \in [Ends -> {"idle", "args", "reply", "flush", "payload", "begin", "body", "closed"}]
        /\ pc'["client"] \notin {"reply", "closed"} /\ pc'["server"] \notin {"idle", "args"}
    BY <1>1, <1>2, <1>5 DEF TypeInv, Goto
  <2> QED BY <1>1, <1>2, <1>3, <1>5, <2>1 DEF TypeInv
<1>8. Asking'
  <2>1. Rising(Stream(e)') /\ Earlier(Stream(e)', end["client"].writeBuffer)
        /\ Between(Stream(e)', request.call, call)
    BY <1>1, <1>3, <1>5, <1>6, RestKeeps DEF Asking, InOrder
  <2> QED BY <1>1, <1>2, <1>5, <2>1 DEF Asking, InOrder, Ends
<1>9. Replies'
  <2>1. Paired(end["server"].writeBuffer, request.call)
    BY <1>1, <1>2 DEF Replies, Answering
  <2>2. Paired(end["server"].writeBuffer, request.call + 1)
    BY <1>3, <1>6, <2>1, PairedLater
  <2>3. Transport("client")' = Transport("client")
    BY <1>2 DEF Transport
  <2> QED BY <1>1, <1>2, <1>3, <1>5, <2>1, <2>2, <2>3 DEF Replies, Ends
<1>10. Calling'
  BY <1>1, <1>2, <1>5 DEF Calling
<1> QED BY <1>5, <1>7, <1>8, <1>9, <1>10 DEF TalkInv

-----------------------------------------------------------------------------
(* What an end does when it writes *)

(* The begin of a call goes to the buffer.                                 *)
LEMMA SendKeeps ==
  ASSUME TalkInv, NEW keys \in SUBSET Keys, Send(keys)
  PROVE  TalkInv'
<1> DEFINE t == end["client"]  b == Begin(call + 1, t.protocol)
           u == [t EXCEPT !.writeHeaders = keys, !.writeBuffer = Append(t.writeBuffer, b)]
<1>1. /\ TypeInv /\ Calling /\ Framing /\ Flushing /\ Replies /\ Asking
  BY DEF TalkInv
<1>2. /\ pc["client"] = "idle" /\ closed = FALSE /\ call < MaxCalls
      /\ call' = call + 1 /\ asked' = [asked EXCEPT ![call + 1] = keys]
      /\ Goto("client", "args")
      /\ UNCHANGED <<client, adapts, wire, closed, request, served, result, aborts, faults>>
  BY <1>1 DEF Send, TypeInv
<1>3. end' = [end EXCEPT !["client"] = u]
  BY DEF Send
<1>4. /\ t \in EndType /\ end \in [Ends -> EndType] /\ t.writeBuffer \in Seq(Parts)
      /\ t.frame \in Seq(Units) /\ t.protocol \in Languages
      /\ call \in Nat /\ call + 1 \in Calls /\ call' \in 0..MaxCalls /\ request.call \in Nat
      /\ request.call <= call
      /\ request' \in [call : 0..call', headers : SUBSET Keys]
  <2>1. t \in EndType /\ end \in [Ends -> EndType]
    BY <1>1 DEF TypeInv, Ends
  <2>2. t.writeBuffer \in Seq(Parts) /\ t.frame \in Seq(Units) /\ t.protocol \in Languages
    BY <2>1 DEF EndType
  <2>3. call \in 0..MaxCalls /\ MaxCalls \in Nat /\ request \in [call : 0..call, headers : SUBSET Keys]
    BY <1>1, MaxCallsAssumption, TransportsAssumption DEF TypeInv
  <2>4. call \in Nat /\ call + 1 \in Calls /\ call' \in 0..MaxCalls /\ request.call \in Nat
        /\ request.call <= call
    BY <1>2, <2>3 DEF Calls
  <2>5. request' \in [call : 0..call', headers : SUBSET Keys]
    <3>1. request.call \in 0..(call + 1)
      BY <2>3, <2>4
    <3> QED BY <1>2, <2>3, <3>1
  <2> QED BY <2>1, <2>2, <2>4, <2>5
<1>5. b \in Parts /\ b \in Units /\ b.unit = "begin" /\ b.call = call + 1
  <2>1. b = [unit |-> "begin", call |-> call + 1, protocol |-> t.protocol] /\ call + 1 \in Nat
    BY <1>4 DEF Begin
  <2> HIDE DEF b
  <2>2. b \in Parts
    BY <1>4, <2>1 DEF Parts
  <2> QED BY <2>1, <2>2 DEF Units
<1> DEFINE B == t.writeBuffer  C == Append(B, b)
<1>6. /\ C \in Seq(Parts) /\ C = B \o <<b>> /\ B \in Seq(Units) /\ <<b>> \in Seq(Units)
      /\ C \in Seq(Units)
  <2>1. B \in Seq(Units)
    BY <1>4, PartsAreUnits
  <2> HIDE DEF b, B
  <2>2. C \in Seq(Parts) /\ C = B \o <<b>> /\ <<b>> \in Seq(Units)
    <3>1. B \in Seq(Parts) /\ b \in Parts /\ b \in Units
      BY <1>4, <1>5 DEF B
    <3>2. C \in Seq(Parts) /\ <<b>> \in Seq(Units)
      BY <3>1
    <3>3. C = B \o <<b>>
      BY <3>1, AppendIsConcat
    <3> QED BY <3>2, <3>3
  <2>3. C \in Seq(Units)
    BY <2>2, PartsAreUnits
  <2> QED BY <2>1, <2>2, <2>3
<1> HIDE DEF b, C
<1>7. u \in EndType /\ u.frame = t.frame /\ u.reader = t.reader /\ u.type = t.type
      /\ u.writeBuffer = C
  <2> HIDE DEF t
  <2>1. u = [t EXCEPT !.writeHeaders = keys, !.writeBuffer = C]
    BY DEF C
  <2> HIDE DEF u
  <2> QED BY <1>4, <1>6, <2>1 DEF EndType
<1> HIDE DEF u
<1>8. /\ end'["client"] = u /\ end'["server"] = end["server"] /\ end' \in [Ends -> EndType]
      /\ pc'["client"] = "args" /\ pc'["server"] = pc["server"]
  BY <1>1, <1>2, <1>3, <1>4, <1>7 DEF Ends, TypeInv, Goto
<1>9. TypeInv'
  <2>1. pc' \in [Ends -> {"idle", "args", "reply", "flush", "payload", "begin", "body", "closed"}]
        /\ pc'["client"] \notin {"reply", "closed"} /\ pc'["server"] \notin {"idle", "args"}
    BY <1>1, <1>2, <1>8 DEF TypeInv, Goto
  <2>2. asked' \in [Calls -> SUBSET Keys]
    BY <1>1, <1>2, <1>4 DEF TypeInv
  <2> QED BY <1>1, <1>2, <1>4, <1>8, <2>1, <2>2 DEF TypeInv
<1>10. Calling'
  BY <1>2, <1>4 DEF Calling
<1>11. Stream("client")' = Stream("client") /\ Stream("server")' = Stream("server")
       /\ Stream("client") \in Seq(Units) /\ Stream("server") \in Seq(Units)
  <2>1. Stream("client")' = Stream("client") /\ Stream("server")' = Stream("server")
    BY <1>2, <1>7, <1>8 DEF Stream
  <2>2. ASSUME NEW e \in Ends PROVE Stream(e) \in Seq(Units)
    <3>1. end[e].frame \in Seq(Units) /\ wire[e] \in Seq(Units)
      BY <1>1 DEF TypeInv, EndType
    <3> QED BY <3>1, Joined DEF Stream
  <2> QED BY <2>1, <2>2 DEF Ends
<1>12. Framing'
  <2>1. \A e \in Ends : Transport(e)' = Transport(e)
    BY <1>2 DEF Transport
  <2>2. \A e \in Ends : FramingOf(Transport(e), end'[e])
    BY <1>1, <1>7, <1>8 DEF Framing, FramingOf, IsFramed, Ends
  <2> QED BY <2>1, <2>2 DEF Framing
<1>13. Flushing'
  <2>1. FlushOf("client", wire["server"])'
    <3>1. FlushOf("client", wire["server"])
      BY <1>1 DEF Flushing, Ends, Peer
    <3> QED BY <1>2, <1>8, <3>1 DEF FlushOf
  <2>2. FlushOf("server", wire["client"])'
    <3>1. FlushOf("server", wire["client"])
      BY <1>1 DEF Flushing, Ends, Peer
    <3>2. Flushed("server")' = Flushed("server")
      BY <1>2, <1>8 DEF Flushed, Transport
    <3> QED BY <1>2, <1>8, <3>1, <3>2 DEF FlushOf
  <2> QED BY <2>1, <2>2 DEF Flushing, Ends, Peer
<1>14. Replies'
  <2>1. Paired(Stream("client"), call + 1)
    BY <1>1, <1>4, <1>11, PairedLater DEF Replies
  <2> QED BY <1>1, <1>2, <1>8, <1>11, <2>1 DEF Replies
<1>15. Asking'
  <2>1. InOrder(Stream("server"), B, request.call, call)
    BY <1>1 DEF Asking
  <2>2. Between(Stream("server"), request.call, call + 1) /\ Between(B, request.call, call + 1)
    <3>1. \A s \in Seq(Units) : Between(s, request.call, call) => Between(s, request.call, call + 1)
      <4> SUFFICES ASSUME NEW s \in Seq(Units), Between(s, request.call, call),
                          NEW i \in 1..Len(s), s[i].unit = "begin"
                   PROVE  request.call < s[i].call /\ s[i].call <= call + 1
        BY DEF Between
      <4>1. request.call < s[i].call /\ s[i].call <= call /\ s[i].call \in Nat
        BY DEF Between, Units, Parts
      <4> QED BY <1>4, <4>1
    <3> QED BY <1>6, <1>11, <2>1, <3>1 DEF InOrder
  <2>3. Rising(<<b>>) /\ Between(<<b>>, request.call, call + 1)
    <3>1. request.call < call + 1 /\ call + 1 <= call + 1 /\ call + 1 \in Nat
      BY <1>4
    <3> QED BY <1>4, <1>5, <3>1, OneUnit
  <2>4. \A s \in Seq(Units) : Between(s, request.call, call) => Earlier(s, <<b>>)
    <3> SUFFICES ASSUME NEW s \in Seq(Units), Between(s, request.call, call),
                        NEW i \in 1..Len(s), s[i].unit = "begin", NEW j \in 1..Len(<<b>>)
                 PROVE  s[i].call < <<b>>[j].call
      BY DEF Earlier
    <3>1. s[i].call <= call /\ s[i].call \in Nat
      BY DEF Between, Units, Parts
    <3>2. <<b>>[j] = b
      OBVIOUS
    <3> QED BY <1>4, <1>5, <3>1, <3>2
  <2>5. Rising(C)
    BY <1>6, <2>1, <2>3, <2>4, RisingJoined DEF InOrder
  <2>6. Earlier(Stream("server"), C) /\ Between(C, request.call, call + 1)
    <3>1. call + 1 \in Nat
      BY <1>4
    <3> QED BY <1>4, <1>6, <1>11, <2>1, <2>2, <2>3, <2>4, <3>1, OrderJoined DEF InOrder
  <2>7. InOrder(Stream("server"), C, request.call, call + 1)
    BY <2>1, <2>2, <2>5, <2>6 DEF InOrder
  <2> QED BY <1>2, <1>7, <1>8, <1>11, <2>7 DEF Asking
<1> QED BY <1>9, <1>10, <1>12, <1>13, <1>14, <1>15 DEF TalkInv

(* The arguments follow the begin.                                         *)
LEMMA WriteArgsKeeps ==
  ASSUME TalkInv, WriteArgs
  PROVE  TalkInv'
<1> DEFINE t == end["client"]  b == Body(call)  B == t.writeBuffer
           C == B \o <<b>>  u == [t EXCEPT !.writeBuffer = C]
<1>1. /\ TypeInv /\ Calling /\ Framing /\ Flushing /\ Replies /\ Asking
  BY DEF TalkInv
<1>2. /\ pc["client"] = "args" /\ Goto("client", "flush")
      /\ UNCHANGED <<client, adapts, wire, closed, call, asked, request, served, result, aborts, faults>>
      /\ end' = [end EXCEPT !["client"] = u]
  BY DEF WriteArgs, Write
<1>3. /\ t \in EndType /\ end \in [Ends -> EndType] /\ B \in Seq(Parts) /\ B \in Seq(Units)
      /\ call \in Nat /\ request.call \in Nat
  <2>1. t \in EndType /\ end \in [Ends -> EndType]
    BY <1>1 DEF TypeInv, Ends
  <2>2. B \in Seq(Parts)
    BY <2>1 DEF EndType
  <2>3. call \in Nat /\ request.call \in Nat
    BY <1>1, MaxCallsAssumption, TransportsAssumption DEF TypeInv
  <2> QED BY <2>1, <2>2, <2>3, PartsAreUnits
<1>4. b \in Parts /\ b \in Units /\ b.unit = "body"
  <2>1. b = [unit |-> "body", call |-> call]
    BY DEF Body
  <2> HIDE DEF b
  <2>2. b \in Parts
    BY <1>3, <2>1 DEF Parts
  <2> QED BY <2>1, <2>2 DEF Units
<1> HIDE DEF b, B
<1>5. /\ C \in Seq(Parts) /\ C \in Seq(Units) /\ EndsWithBody(C) /\ <<b>> \in Seq(Units)
  <2>1. <<b>> \in Seq(Parts) /\ Len(<<b>>) = 1 /\ <<b>>[1] = b /\ <<b>> \in Seq(Units)
    BY <1>4
  <2>2. C \in Seq(Parts)
    BY <1>3, <2>1, Joined
  <2> DEFINE d == <<b>>
  <2>3. d \in Seq(Parts) /\ Len(d) = 1 /\ d[1] = b
    BY <2>1
  <2> HIDE DEF d
  <2> DEFINE G == B \o d
  <2>5. /\ Len(G) = Len(B) + Len(d) /\ Len(B) \in Nat
        /\ \A i \in (Len(B) + 1)..(Len(B) + Len(d)) : G[i] = d[i - Len(B)]
        /\ G \in Seq(Parts)
    <3>1. B \in Seq(Parts) /\ d \in Seq(Parts)
      BY <1>3, <2>3
    <3> QED BY <3>1, Joined
  <2> HIDE DEF G
  <2>6. Len(G) \in (Len(B) + 1)..(Len(B) + Len(d)) /\ Len(G) - Len(B) = 1 /\ Len(G) # 0
    BY <2>3, <2>5
  <2>7. G[Len(G)] = b /\ G # <<>>
    BY <2>3, <2>5, <2>6, EmptyByLength
  <2>8. C = G
    BY DEF G, d
  <2>9. EndsWithBody(C)
    BY <1>4, <2>7, <2>8 DEF EndsWithBody
  <2> HIDE DEF C
  <2> QED BY <2>1, <2>2, <2>9, PartsAreUnits
<1>6. /\ Rising(B) => Rising(C)
      /\ \A m, n \in Nat : Between(B, m, n) => Between(C, m, n)
      /\ \A s \in Seq(Units) : Earlier(s, B) => Earlier(s, C)
  <2>1. \A i \in 1..Len(<<b>>) : <<b>>[i].unit # "begin"
    BY <1>4, OneUnit
  <2>2. /\ Rising(<<b>>) /\ (\A m, n \in Nat : Between(<<b>>, m, n))
        /\ \A v \in Seq(Units) : Earlier(<<b>>, v) /\ Earlier(v, <<b>>)
    BY <1>5, <2>1, NothingBegun
  <2> QED BY <1>3, <1>5, <2>2, RisingJoined, OrderJoined
<1> HIDE DEF C
<1>7. u \in EndType /\ u.frame = t.frame /\ u.reader = t.reader /\ u.type = t.type
      /\ u.writeBuffer = C
  <2> HIDE DEF t
  <2> QED BY <1>3, <1>5 DEF EndType
<1> HIDE DEF u
<1>8. /\ end'["client"] = u /\ end'["server"] = end["server"] /\ end' \in [Ends -> EndType]
      /\ pc'["client"] = "flush" /\ pc'["server"] = pc["server"]
  BY <1>1, <1>2, <1>3, <1>7 DEF Ends, TypeInv, Goto
<1>9. TypeInv'
  <2>1. pc' \in [Ends -> {"idle", "args", "reply", "flush", "payload", "begin", "body", "closed"}]
        /\ pc'["client"] \notin {"reply", "closed"} /\ pc'["server"] \notin {"idle", "args"}
    BY <1>1, <1>2, <1>8 DEF TypeInv, Goto
  <2> QED BY <1>1, <1>2, <1>8, <2>1 DEF TypeInv
<1>10. Calling'
  BY <1>1, <1>2 DEF Calling
<1>11. Stream("client")' = Stream("client") /\ Stream("server")' = Stream("server")
       /\ Stream("server") \in Seq(Units)
  <2>1. Stream("client")' = Stream("client") /\ Stream("server")' = Stream("server")
    BY <1>2, <1>7, <1>8 DEF Stream
  <2>2. end["server"].frame \in Seq(Units) /\ wire["server"] \in Seq(Units)
    BY <1>1 DEF TypeInv, EndType, Ends
  <2>3. Stream("server") \in Seq(Units)
    BY <2>2, Joined DEF Stream
  <2> QED BY <2>1, <2>3
<1>12. Framing'
  <2>1. \A e \in Ends : Transport(e)' = Transport(e)
    BY <1>2 DEF Transport
  <2>2. \A e \in Ends : FramingOf(Transport(e), end'[e])
    BY <1>1, <1>7, <1>8 DEF Framing, FramingOf, IsFramed, Ends
  <2> QED BY <2>1, <2>2 DEF Framing
<1>13. Flushing'
  <2>1. FlushOf("client", wire["server"])'
    <3>1. FlushOf("client", wire["server"])
      BY <1>1 DEF Flushing, Ends, Peer
    <3> QED BY <1>2, <1>5, <1>7, <1>8, <3>1 DEF FlushOf
  <2>2. FlushOf("server", wire["client"])'
    <3>1. FlushOf("server", wire["client"])
      BY <1>1 DEF Flushing, Ends, Peer
    <3>2. Flushed("server")' = Flushed("server")
      BY <1>2, <1>8 DEF Flushed, Transport
    <3> QED BY <1>2, <1>8, <3>1, <3>2 DEF FlushOf
  <2> QED BY <2>1, <2>2 DEF Flushing, Ends, Peer
<1>14. Replies'
  BY <1>1, <1>2, <1>8, <1>11 DEF Replies
<1>15. Asking'
  <2>1. InOrder(Stream("server"), B, request.call, call)
    BY <1>1 DEF Asking, B
  <2>2. InOrder(Stream("server"), C, request.call, call)
    BY <1>3, <1>6, <1>11, <2>1 DEF InOrder
  <2> QED BY <1>2, <1>7, <1>8, <1>11, <2>2 DEF Asking
<1> QED BY <1>9, <1>10, <1>12, <1>13, <1>14, <1>15 DEF TalkInv

(* The first part of a flush: after it a size may be the last on the wire. *)
LEMMA WriteSizeKeeps ==
  ASSUME TalkInv, NEW e \in Ends, WriteSize(e)
  PROVE  TalkInv'
<1> DEFINE p == Peer(e)  W == wire[p]  f == Flushed(e)
           V == IF closed THEN W ELSE W \o f.size
<1>1. /\ TypeInv /\ Calling /\ Framing /\ Flushing /\ Replies /\ Asking
  BY DEF TalkInv
<1>2. /\ pc[e] = "flush" /\ Goto(e, "payload") /\ wire' = [wire EXCEPT ![p] = V]
      /\ UNCHANGED <<client, adapts, end, closed, call, asked, request, served, result, aborts, faults>>
  BY DEF WriteSize, Sends
<1>3. /\ p \in Ends /\ p # e /\ Peer(p) = e /\ Ends = {e, p}
      /\ W \in Seq(Units) /\ call \in Nat /\ request.call \in Nat /\ closed \in BOOLEAN
  <2>1. p \in Ends /\ p # e /\ Peer(p) = e /\ Ends = {e, p}
    BY DEF Ends, Peer
  <2>2. W \in Seq(Units) /\ call \in Nat /\ request.call \in Nat /\ closed \in BOOLEAN
    BY <1>1, <2>1, MaxCallsAssumption, TransportsAssumption DEF TypeInv
  <2> QED BY <2>1, <2>2
<1>4. FlushOf(e, W) /\ EndsWithBody(end[e].writeBuffer)
  BY <1>1, <1>2 DEF Flushing, FlushOf
<1>5. Len(f.payload) \in Nat /\ Len(f.payload) >= 1 /\ (f.size = <<>> \/ f.size = <<Size(Len(f.payload))>>)
  <2>1. f.payload \in Seq(Units) /\ Len(f.payload) >= 1
        /\ (f.size = <<>> \/ f.size = <<Size(Len(f.payload))>>)
    BY <1>1, <1>4, FlushedOK
  <2> HIDE DEF f
  <2> QED BY <2>1
<1> HIDE DEF p, W, f
<1>6. /\ V \in Seq(Units) /\ Sized(V)
      /\ EndsWithSize(V) => closed \/ V[Len(V)].n = Len(f.payload)
      /\ \E d \in Seq(Units) : V = W \o d /\ \A i \in 1..Len(d) : d[i].unit # "begin"
  <2>1. CASE closed = TRUE \/ f.size = <<>>
    <3>1. V = W /\ V = W \o <<>> /\ <<>> \in Seq(Units) /\ Len(<<>>) = 0
      BY <1>3, <2>1
    <3>2. EndsWithSize(W) => closed
      BY <1>2, <1>4 DEF FlushOf
    <3>3. \A i \in 1..0 : <<>>[i].unit # "begin"
      OBVIOUS
    <3> HIDE DEF V
    <3> QED BY <1>3, <1>4, <3>1, <3>2, <3>3 DEF FlushOf
  <2>2. CASE closed = FALSE /\ f.size = <<Size(Len(f.payload))>>
    <3> DEFINE n == Len(f.payload)  z == Size(n)  d == <<z>>
    <3>1. z \in Units /\ z.unit = "size" /\ z.n = n
      <4>1. z = [unit |-> "size", n |-> n] /\ n \in Nat \ {0}
        BY <1>5 DEF Size
      <4> HIDE DEF z, n
      <4> QED BY <4>1 DEF Units
    <3>2. V = W \o d
      BY <2>2
    <3>3. d \in Seq(Units) /\ Len(d) = 1 /\ d[1] = z
      BY <3>1
    <3> HIDE DEF z, d
    <3> DEFINE G == W \o d
    <3>9. /\ G \in Seq(Units) /\ Len(G) = Len(W) + Len(d) /\ Len(W) \in Nat
          /\ \A i \in 1..Len(W) : G[i] = W[i]
          /\ \A i \in (Len(W) + 1)..(Len(W) + Len(d)) : G[i] = d[i - Len(W)]
      <4>1. W \in Seq(Units) /\ d \in Seq(Units)
        BY <1>3, <3>3
      <4> QED BY <4>1, Joined
    <3>10. V = G
      BY <3>2
    <3> HIDE DEF G, V
    <3>4. /\ V \in Seq(Units) /\ Len(V) = Len(W) + Len(d) /\ Len(W) \in Nat
          /\ \A i \in 1..Len(W) : V[i] = W[i]
          /\ \A i \in (Len(W) + 1)..(Len(W) + Len(d)) : V[i] = d[i - Len(W)]
      BY <3>9, <3>10
    <3>5. /\ Len(V) = Len(W) + 1 /\ V[Len(V)] = z
      <4>1. Len(V) = Len(W) + 1 /\ Len(V) \in (Len(W) + 1)..(Len(W) + Len(d)) /\ Len(V) - Len(W) = 1
        BY <3>3, <3>4
      <4> QED BY <3>3, <3>4, <4>1
    <3>6. ~EndsWithSize(W) /\ Sized(W)
      BY <1>2, <1>4, <2>2 DEF FlushOf
    <3>7. Sized(V)
      <4> SUFFICES ASSUME NEW i \in 1..Len(V), V[i].unit = "size", i # Len(V)
                   PROVE  i + V[i].n <= Len(V) /\ V[i + V[i].n].unit = "body"
        BY DEF Sized
      <4>1. i \in 1..Len(W) /\ V[i] = W[i] /\ W # <<>>
        <5>1. i \in 1..Len(W) /\ Len(W) # 0
          BY <3>4, <3>5
        <5> QED BY <1>3, <3>4, <5>1, EmptyByLength
      <4>2. i # Len(W)
        BY <3>6, <4>1 DEF EndsWithSize
      <4>3. W[i].n \in Nat
        <5>1. W[i] \in Units
          BY <1>3, <4>1
        <5> QED BY <4>1, <5>1 DEF Units, Parts
      <4>4. i + W[i].n <= Len(W) /\ W[i + W[i].n].unit = "body"
        BY <3>6, <4>1, <4>2 DEF Sized
      <4>5. i + W[i].n \in 1..Len(W)
        BY <3>4, <4>1, <4>3, <4>4
      <4> QED BY <3>4, <3>5, <4>1, <4>3, <4>4, <4>5
    <3>8. \A i \in 1..Len(d) : d[i].unit # "begin"
      <4>1. \A i \in 1..Len(d) : i = 1
        BY <3>3
      <4> QED BY <3>1, <3>3, <4>1
    <3> QED BY <3>1, <3>2, <3>3, <3>4, <3>5, <3>7, <3>8
  <2> QED BY <1>3, <1>5, <2>1, <2>2
<1> HIDE DEF V
<1>7. /\ wire'[p] = V /\ wire'[e] = wire[e] /\ wire' \in [Ends -> Seq(Units)]
      /\ pc'[e] = "payload" /\ pc'[p] = pc[p]
  BY <1>1, <1>2, <1>3, <1>6 DEF TypeInv, Goto
<1>8. TypeInv' /\ Calling'
  <2>1. pc' \in [Ends -> {"idle", "args", "reply", "flush", "payload", "begin", "body", "closed"}]
        /\ pc'["client"] \notin {"reply", "closed"} /\ pc'["server"] \notin {"idle", "args"}
    BY <1>1, <1>2 DEF TypeInv, Goto, Ends
  <2>2. TypeInv'
    BY <1>1, <1>2, <1>7, <2>1 DEF TypeInv
  <2>3. pc'["client"] # "idle" => pc["client"] # "idle"
    BY <1>1, <1>2 DEF TypeInv, Goto, Ends
  <2> QED BY <1>1, <1>2, <2>2, <2>3 DEF Calling
<1>9. Framing'
  <2>1. \A q \in Ends : Transport(q)' = Transport(q)
    BY <1>2 DEF Transport
  <2> QED BY <1>1, <1>2, <2>1 DEF Framing
<1>10. Flushing'
  <2>1. \A q \in Ends : Flushed(q)' = Flushed(q)
    BY <1>2 DEF Flushed, Transport
  <2>2. FlushOf(e, wire[p])'
    BY <1>2, <1>4, <1>6, <1>7, <2>1 DEF FlushOf, f
  <2>3. FlushOf(p, wire[e])'
    <3>1. FlushOf(p, wire[e])
      BY <1>1, <1>3 DEF Flushing
    <3> QED BY <1>2, <1>3, <1>7, <2>1, <3>1 DEF FlushOf
  <2>4. Peer(e) = p /\ Peer(p) = e
    BY <1>3 DEF p
  <2> QED BY <1>3, <2>2, <2>3, <2>4 DEF Flushing
<1>11. PICK d \in Seq(Units) : V = W \o d /\ \A i \in 1..Len(d) : d[i].unit # "begin"
  BY <1>6
<1>12. /\ Stream(e)' = Stream(e) /\ Stream(p)' = Stream(p) \o d
       /\ Stream(p) \in Seq(Units) /\ Stream(p)' \in Seq(Units)
  <2>1. end[p].frame \in Seq(Units)
    BY <1>1, <1>3 DEF TypeInv, EndType
  <2>2. Stream(p)' = end[p].frame \o (W \o d) /\ Stream(p) = end[p].frame \o W
    BY <1>2, <1>7, <1>11 DEF Stream, W
  <2>3. end[p].frame \o (W \o d) = (end[p].frame \o W) \o d
    <3>1. end[p].frame \in Seq(Units) /\ W \in Seq(Units) /\ d \in Seq(Units)
      BY <1>3, <2>1
    <3> DEFINE F == end[p].frame
    <3>2. F \in Seq(Units) /\ W \in Seq(Units) /\ d \in Seq(Units)
      BY <3>1
    <3> HIDE DEF F
    <3>3. F \o (W \o d) = (F \o W) \o d
      BY <3>2, JoinedThrice
    <3> QED BY <3>3 DEF F
  <2>4. Stream(p) \in Seq(Units)
    BY <1>3, <2>1, <2>2, Joined
  <2>5. Stream(p) \o d \in Seq(Units)
    BY <1>11, <2>4, Joined
  <2>6. Stream(e)' = Stream(e)
    BY <1>2, <1>7 DEF Stream
  <2> QED BY <2>2, <2>3, <2>4, <2>5, <2>6
<1>13. /\ \A c \in Int : Paired(d, c)
       /\ Rising(d)
       /\ \A m, n \in Nat : Between(d, m, n)
       /\ \A v \in Seq(Units) : Earlier(d, v) /\ Earlier(v, d)
  BY <1>11, NothingBegun
<1>14. Replies'
  <2>1. Paired(Stream("client")', call)
    <3>1. CASE p = "client"
      <4>1. /\ Stream(p) \in Seq(Units) /\ d \in Seq(Units) /\ call \in Int
            /\ Paired(Stream(p), call) /\ Paired(d, call)
        BY <1>1, <1>3, <1>12, <1>13, <3>1 DEF Replies
      <4>2. Paired(Stream(p) \o d, call)
        BY <4>1, PairedJoined
      <4> QED BY <1>12, <3>1, <4>2
    <3>2. CASE e = "client"
      BY <1>1, <1>12, <3>2 DEF Replies
    <3> QED BY <1>3, <3>1, <3>2 DEF Ends
  <2>2. pc'["client"] = "body" =>
          /\ ~Needs(Transport("client"), end["client"])
          /\ Stream("client")' # <<>> /\ Stream("client")'[1] = Body(call)
    <3>1. CASE p = "client"
      <4> SUFFICES ASSUME pc'["client"] = "body"
                   PROVE  /\ ~Needs(Transport("client"), end["client"])
                          /\ Stream(p)' # <<>> /\ Stream(p)'[1] = Body(call)
        BY <3>1
      <4>1. /\ ~Needs(Transport("client"), end["client"])
            /\ Stream(p) # <<>> /\ Stream(p)[1] = Body(call)
        BY <1>1, <1>7, <3>1 DEF Replies
      <4>2. (Stream(p) \o d)[1] = Stream(p)[1] /\ Stream(p) \o d # <<>>
        BY <1>11, <1>12, <4>1, TailJoined
      <4> QED BY <1>12, <4>1, <4>2
    <3>2. CASE e = "client"
      BY <1>7, <3>2
    <3> QED BY <1>3, <3>1, <3>2 DEF Ends
  <2>3. pc'["server"] \in Answering <=> pc["server"] \in Answering
    BY <1>2, <1>3, <1>7 DEF Answering, Ends
  <2>4. Transport("client")' = Transport("client")
    BY <1>2 DEF Transport
  <2> QED BY <1>1, <1>2, <2>1, <2>2, <2>3, <2>4 DEF Replies
<1>15. Asking'
  <2>1. CASE p = "server"
    <3> DEFINE B == end["client"].writeBuffer  S == Stream("server")
    <3>1. B \in Seq(Units)
      <4>1. B \in Seq(Parts)
        BY <1>1 DEF TypeInv, EndType, Ends
      <4> QED BY <4>1, PartsAreUnits
    <3>2. InOrder(S, B, request.call, call) /\ S \in Seq(Units)
      BY <1>1, <1>12, <2>1 DEF Asking
    <3> HIDE DEF S, B
    <3>3. Rising(S \o d) /\ Between(S \o d, request.call, call) /\ Earlier(S \o d, B)
      <4>1. Rising(S) /\ Earlier(S, d) /\ Rising(d) /\ Between(S, request.call, call)
            /\ Between(d, request.call, call) /\ Earlier(S, B) /\ Earlier(d, B)
        BY <1>3, <1>13, <3>1, <3>2 DEF InOrder
      <4> QED BY <1>3, <1>11, <3>1, <3>2, <4>1, RisingJoined, OrderJoined
    <3>4. InOrder(S \o d, B, request.call, call)
      BY <3>2, <3>3 DEF InOrder
    <3> QED BY <1>2, <1>12, <2>1, <3>4 DEF Asking, S, B
  <2>2. CASE e = "server"
    BY <1>1, <1>2, <1>12, <2>2 DEF Asking
  <2> QED BY <1>3, <2>1, <2>2 DEF Ends
<1> QED BY <1>8, <1>9, <1>10, <1>14, <1>15 DEF TalkInv

(* What is behind a size that was the last unit is its frame.              *)
LEMMA SizedJoined ==
  ASSUME NEW s \in Seq(Units), NEW t \in Seq(Units), Sized(s),
         EndsWithSize(s) => s[Len(s)].n = Len(t),
         EndsWithBody(t), \A i \in 1..Len(t) : t[i].unit # "size"
  PROVE  s \o t \in Seq(Units) /\ Sized(s \o t) /\ ~EndsWithSize(s \o t)
<1> DEFINE u == s \o t
<1>1. /\ u \in Seq(Units) /\ Len(u) = Len(s) + Len(t) /\ Len(s) \in Nat /\ Len(t) \in Nat
      /\ \A i \in 1..Len(s) : u[i] = s[i]
      /\ \A i \in (Len(s) + 1)..(Len(s) + Len(t)) : u[i] = t[i - Len(s)] /\ i - Len(s) \in 1..Len(t)
  BY Joined
<1> HIDE DEF u
<1>2. Len(t) >= 1 /\ t[Len(t)].unit = "body"
  <2>1. t # <<>> /\ t[Len(t)].unit = "body"
    BY DEF EndsWithBody
  <2>2. Len(t) # 0
    BY <2>1, EmptyByLength
  <2> QED BY <1>1, <2>1, <2>2
<1>3. u[Len(u)].unit = "body"
  <2>1. Len(u) \in (Len(s) + 1)..(Len(s) + Len(t)) /\ Len(u) - Len(s) = Len(t)
    BY <1>1, <1>2
  <2>2. u[Len(u)] = t[Len(t)]
    BY <1>1, <2>1
  <2> QED BY <1>2, <2>2
<1>4. ASSUME NEW i \in 1..Len(u), u[i].unit = "size", i # Len(u)
      PROVE  i + u[i].n <= Len(u) /\ u[i + u[i].n].unit = "body"
  <2>1. i \in 1..Len(s) /\ u[i] = s[i] /\ s # <<>>
    <3>1. i \in 1..Len(s) \/ i \in (Len(s) + 1)..(Len(s) + Len(t))
      BY <1>1
    <3>2. i \notin (Len(s) + 1)..(Len(s) + Len(t))
      BY <1>1, <1>4
    <3>3. i \in 1..Len(s) /\ Len(s) # 0
      BY <1>1, <3>1, <3>2
    <3> QED BY <1>1, <3>3, EmptyByLength
  <2>2. u[i] = s[i]
    BY <1>1, <2>1
  <2> DEFINE n == s[i].n
  <2>3. n \in Nat
    <3>1. s[i] \in Units /\ s[i].unit = "size"
      BY <1>4, <2>1, <2>2
    <3> QED BY <3>1 DEF Units, Parts
  <2>4. CASE i = Len(s)
    <3>1. EndsWithSize(s)
      BY <1>4, <2>1, <2>2, <2>4 DEF EndsWithSize
    <3>2. n = Len(t)
      BY <2>4, <3>1
    <3>3. i + n = Len(u)
      BY <1>1, <2>4, <3>2
    <3> QED BY <1>1, <1>3, <2>2, <3>3
  <2>5. CASE i # Len(s)
    <3>1. i + n <= Len(s) /\ s[i + n].unit = "body"
      BY <1>4, <2>1, <2>2, <2>5 DEF Sized
    <3> HIDE DEF n
    <3>2. i + n \in 1..Len(s) /\ i + n <= Len(u)
      BY <1>1, <2>1, <2>3, <3>1
    <3>3. u[i + n].unit = "body"
      BY <1>1, <3>1, <3>2
    <3> QED BY <2>2, <3>2, <3>3 DEF n
  <2> QED BY <2>4, <2>5
<1>5. Sized(u)
  BY <1>4 DEF Sized
<1>6. ~EndsWithSize(u)
  BY <1>3 DEF EndsWithSize
<1> QED BY <1>1, <1>5, <1>6 DEF u

(* The rest of a flush.                                                    *)
LEMMA WritePayloadKeeps ==
  ASSUME TalkInv, NEW e \in Ends, WritePayload(e)
  PROVE  TalkInv'
<1> DEFINE p == Peer(e)  W == wire[p]  f == Flushed(e)  P == f.payload  B == end[e].writeBuffer
           d == IF closed THEN <<>> ELSE P
           V == W \o d
<1>1. /\ TypeInv /\ Calling /\ Framing /\ Flushing /\ Replies /\ Asking
  BY DEF TalkInv
<1>2. /\ p \in Ends /\ p # e /\ Peer(p) = e /\ Ends = {e, p}
      /\ W \in Seq(Units) /\ call \in Nat /\ request.call \in Nat /\ request.call <= call
      /\ closed \in BOOLEAN
  <2>1. p \in Ends /\ p # e /\ Peer(p) = e /\ Ends = {e, p}
    BY DEF Ends, Peer
  <2>2. W \in Seq(Units) /\ closed \in BOOLEAN
    BY <1>1, <2>1 DEF TypeInv
  <2>3. call \in 0..MaxCalls /\ MaxCalls \in Nat /\ request.call \in 0..call
    BY <1>1, MaxCallsAssumption, TransportsAssumption DEF TypeInv
  <2>4. call \in Nat /\ request.call \in Nat /\ request.call <= call
    BY <2>3
  <2> QED BY <2>1, <2>2, <2>4
<1>3. <<>> \in Seq(Units) /\ W \o <<>> = W
  BY <1>2
<1>4. PICK l \in {"begin", "idle"} :
        /\ pc' = [pc EXCEPT ![e] = l]
        /\ \/ l = "begin" /\ result' = result
           \/ e = "client" /\ result' = [result EXCEPT ![call] = "error"]
  <2>1. \/ Goto(e, "begin") /\ result' = result
        \/ Goto(e, "idle") /\ e = "client" /\ result' = [result EXCEPT ![call] = "error"]
    BY DEF WritePayload
  <2> QED BY <2>1, Zenon DEF Goto
<1>20. /\ pc[e] = "payload" /\ end' = [end EXCEPT ![e] = f.t] /\ wire' = [wire EXCEPT ![p] = V]
       /\ UNCHANGED <<client, adapts, closed, call, asked, request, served, aborts>>
  <2>1. wire' = [wire EXCEPT ![p] = IF closed THEN W ELSE W \o P]
    BY DEF WritePayload, Sends
  <2>2. (IF closed THEN W ELSE W \o P) = V
    <3>1. CASE closed = TRUE
      BY <1>3, <3>1
    <3>2. CASE closed = FALSE
      BY <3>2
    <3> QED BY <1>2, <3>1, <3>2
  <2> QED BY <2>1, <2>2 DEF WritePayload
<1>5. FlushOf(e, W) /\ EndsWithBody(B)
  BY <1>1, <1>4, <1>20 DEF Flushing, FlushOf
<1>6. /\ f.t \in EndType /\ f.t.frame = end[e].frame /\ f.t.writeBuffer = <<>>
      /\ FramingOf(Transport(e), f.t)
      /\ P \in Seq(Units) /\ EndsWithBody(P)
      /\ \A i \in 1..Len(P) : P[i].unit # "size"
      /\ \A c \in Int : Paired(B, c) => Paired(P, c)
      /\ Rising(B) => Rising(P)
      /\ \A m, n \in Nat : Between(B, m, n) => Between(P, m, n)
      /\ \A s \in Seq(Units) : Earlier(s, B) => Earlier(s, P)
  <2>1. Framing /\ TypeInv /\ EndsWithBody(end[e].writeBuffer)
    BY <1>1, <1>5
  <2> QED BY <2>1, FlushedOK
<1>7. B \in Seq(Units)
  <2>1. B \in Seq(Parts)
    BY <1>1 DEF TypeInv, EndType
  <2> QED BY <2>1, PartsAreUnits
<1> HIDE DEF p, W, f, P, B, V
<1>8. /\ V \in Seq(Units) /\ Sized(V) /\ (EndsWithSize(V) => closed)
  <2>1. CASE closed = TRUE
    <3>1. V = W
      BY <1>3, <2>1 DEF V
    <3> QED BY <1>2, <1>5, <2>1, <3>1 DEF FlushOf
  <2>2. CASE closed = FALSE
    <3>1. V = W \o P
      BY <2>2 DEF V
    <3>2. EndsWithSize(W) => W[Len(W)].n = Len(P)
      BY <1>5, <2>2 DEF FlushOf, f, P
    <3>3. Sized(W)
      BY <1>5 DEF FlushOf
    <3>4. W \o P \in Seq(Units) /\ Sized(W \o P) /\ ~EndsWithSize(W \o P)
      BY <1>2, <1>6, <3>2, <3>3, SizedJoined
    <3> QED BY <3>1, <3>4
  <2> QED BY <1>2, <2>1, <2>2
<1>9. /\ d \in Seq(Units)
      /\ \A c \in Int : Paired(B, c) => Paired(d, c)
      /\ Rising(B) => Rising(d)
      /\ \A m, n \in Nat : Between(B, m, n) => Between(d, m, n)
      /\ \A s \in Seq(Units) : Earlier(s, B) => Earlier(s, d)
  <2>1. CASE closed = TRUE
    <3> DEFINE z == <<>>
    <3>1. z \in Seq(Units) /\ \A i \in 1..Len(z) : z[i].unit # "begin"
      OBVIOUS
    <3> HIDE DEF z
    <3>2. /\ \A c \in Int : Paired(z, c)
          /\ Rising(z)
          /\ \A m, n \in Nat : Between(z, m, n)
          /\ \A v \in Seq(Units) : Earlier(v, z)
      BY <3>1, NothingBegun
    <3>3. d = z
      BY <2>1 DEF z
    <3> HIDE DEF d
    <3> QED BY <3>1, <3>2, <3>3
  <2>2. CASE closed = FALSE
    <3>1. d = P
      BY <2>2
    <3> HIDE DEF d
    <3> QED BY <1>6, <3>1
  <2> QED BY <1>2, <2>1, <2>2
<1> HIDE DEF d
<1>10. V = W \o d
  BY DEF V
<1>11. /\ end'[e] = f.t /\ end'[p] = end[p] /\ end' \in [Ends -> EndType]
       /\ wire'[p] = V /\ wire'[e] = wire[e] /\ wire' \in [Ends -> Seq(Units)]
       /\ pc'[e] = l /\ pc'[p] = pc[p]
  BY <1>1, <1>2, <1>4, <1>20, <1>6, <1>8 DEF TypeInv, Goto
<1>12. call \in Calls \/ e = "server"
  BY <1>1, <1>4, <1>20 DEF Calling, Ends
<1>13. TypeInv'
  <2>1. pc' \in [Ends -> {"idle", "args", "reply", "flush", "payload", "begin", "body", "closed"}]
    BY <1>1, <1>4, <1>20 DEF TypeInv, Goto
  <2>2. e = "server" => l = "begin"
    BY <1>4, <1>20
  <2>3. pc'["client"] \notin {"reply", "closed"} /\ pc'["server"] \notin {"idle", "args"}
    BY <1>1, <1>2, <1>11, <2>2 DEF TypeInv, Ends
  <2>4. result' \in [Calls -> {"none", "error", "own"}]
    BY <1>1, <1>4, <1>20, <1>12 DEF TypeInv
  <2> QED BY <1>1, <1>4, <1>20, <1>11, <2>1, <2>3, <2>4 DEF TypeInv
<1>14. Calling'
  BY <1>1, <1>2, <1>4, <1>20, <1>11, <1>12 DEF Calling, Ends
<1>15. Framing'
  <2>1. \A q \in Ends : Transport(q)' = Transport(q)
    BY <1>4, <1>20 DEF Transport
  <2>2. ASSUME NEW q \in Ends PROVE FramingOf(Transport(q), end'[q])
    <3>1. FramingOf(Transport(q), end[q])
      BY <1>1 DEF Framing
    <3> QED BY <1>2, <1>6, <1>11, <3>1
  <2> QED BY <2>1, <2>2 DEF Framing
<1>16. Flushing'
  <2>1. FlushOf(e, wire[p])'
    BY <1>4, <1>20, <1>8, <1>11 DEF FlushOf
  <2>2. FlushOf(p, wire[e])'
    <3>1. FlushOf(p, wire[e])
      BY <1>1, <1>2 DEF Flushing
    <3>2. Flushed(p)' = Flushed(p)
      BY <1>4, <1>20, <1>11 DEF Flushed, Transport
    <3> QED BY <1>4, <1>20, <1>11, <3>1, <3>2 DEF FlushOf
  <2>3. Peer(e) = p /\ Peer(p) = e
    BY <1>2 DEF p
  <2> QED BY <1>2, <2>1, <2>2, <2>3 DEF Flushing
<1>17. /\ Stream(e)' = Stream(e) /\ Stream(p)' = Stream(p) \o d
       /\ Stream(p) \in Seq(Units) /\ Stream(p)' \in Seq(Units)
  <2> DEFINE F == end[p].frame
  <2>1. F \in Seq(Units)
    BY <1>1, <1>2 DEF TypeInv, EndType
  <2>2. Stream(p)' = F \o (W \o d) /\ Stream(p) = F \o W
    BY <1>10, <1>11 DEF Stream, W
  <2> HIDE DEF F
  <2>3. F \o (W \o d) = (F \o W) \o d
    BY <1>2, <1>9, <2>1, JoinedThrice
  <2>4. Stream(p) \in Seq(Units)
    BY <1>2, <2>1, <2>2, Joined
  <2>5. Stream(p) \o d \in Seq(Units)
    BY <1>9, <2>4, Joined
  <2>6. Stream(e)' = Stream(e)
    BY <1>6, <1>11 DEF Stream
  <2> QED BY <2>2, <2>3, <2>4, <2>5, <2>6
<1>18. Replies'
  <2>1. Transport("client")' = Transport("client")
    BY <1>4, <1>20 DEF Transport
  <2>2. CASE e = "server"
    <3>1. p = "client"
      BY <2>2 DEF p, Peer
    <3>2. Paired(d, call)
      <4>1. Paired(B, request.call)
        BY <1>1, <1>4, <1>20, <2>2 DEF Replies, Answering, B
      <4>2. Paired(B, call)
        BY <1>2, <1>7, <4>1, PairedLater
      <4> QED BY <1>2, <1>9, <4>2
    <3>3. Paired(Stream(p) \o d, call)
      <4>1. Paired(Stream(p), call) /\ call \in Int
        BY <1>1, <1>2, <3>1 DEF Replies
      <4> QED BY <1>9, <1>17, <3>2, <4>1, PairedJoined
    <3>4. \A c \in Int : Paired(end'["server"].writeBuffer, c)
      <4>1. end'["server"].writeBuffer = <<>>
        BY <1>6, <1>11, <2>2
      <4> QED BY <4>1 DEF Paired
    <3>5. pc'["client"] = "body" =>
            Stream("client")' # <<>> /\ Stream("client")'[1] = Body(call)
      <4> SUFFICES ASSUME pc'["client"] = "body" PROVE Stream(p)' # <<>> /\ Stream(p)'[1] = Body(call)
        BY <3>1
      <4>1. Stream(p) # <<>> /\ Stream(p)[1] = Body(call)
        BY <1>1, <1>11, <3>1 DEF Replies
      <4>2. (Stream(p) \o d)[1] = Stream(p)[1] /\ Stream(p) \o d # <<>>
        BY <1>9, <1>17, <4>1, TailJoined
      <4> QED BY <1>17, <4>1, <4>2
    <3>6. request'.call \in Int /\ request'.call + 1 \in Int
      BY <1>2, <1>4, <1>20
    <3> QED BY <1>1, <1>4, <1>20, <1>11, <1>17, <2>1, <3>1, <3>3, <3>4, <3>5, <3>6 DEF Replies
  <2>3. CASE e = "client"
    <3>1. p = "server"
      BY <2>3 DEF p, Peer
    <3>2. pc'["client"] # "body"
      BY <1>11, <2>3
    <3> QED BY <1>1, <1>4, <1>20, <1>11, <1>17, <2>3, <3>1, <3>2 DEF Replies
  <2> QED BY <2>2, <2>3 DEF Ends
<1>19. Asking'
  <2>1. CASE e = "client"
    <3>1. p = "server"
      BY <2>1 DEF p, Peer
    <3> DEFINE S == Stream("server")
    <3>2. InOrder(S, B, request.call, call) /\ S \in Seq(Units)
      BY <1>1, <1>17, <2>1, <3>1 DEF Asking, B
    <3> HIDE DEF S
    <3>3. Rising(d) /\ Earlier(S, d) /\ Between(d, request.call, call)
      BY <1>2, <1>9, <3>2 DEF InOrder
    <3>4. Rising(S \o d) /\ Between(S \o d, request.call, call)
      BY <1>2, <1>9, <3>2, <3>3, RisingJoined, OrderJoined DEF InOrder
    <3> DEFINE z == <<>>
    <3>5. z \in Seq(Units) /\ \A i \in 1..Len(z) : z[i].unit # "begin"
      OBVIOUS
    <3> HIDE DEF z
    <3>6. /\ Rising(z)
          /\ \A m, n \in Nat : Between(z, m, n)
          /\ \A v \in Seq(Units) : Earlier(v, z)
      BY <3>5, NothingBegun
    <3>7. InOrder(S \o d, z, request.call, call)
      <4>1. S \o d \in Seq(Units)
        BY <1>9, <3>2, Joined
      <4> QED BY <1>2, <3>4, <3>6, <4>1 DEF InOrder
    <3>8. end'["client"].writeBuffer = z
      BY <1>6, <1>11, <2>1 DEF z
    <3> QED BY <1>4, <1>20, <1>17, <3>1, <3>7, <3>8 DEF Asking, S
  <2>2. CASE e = "server"
    <3>1. p = "client"
      BY <2>2 DEF p, Peer
    <3> QED BY <1>1, <1>4, <1>20, <1>11, <1>17, <2>2, <3>1 DEF Asking
  <2> QED BY <2>1, <2>2 DEF Ends
<1> QED BY <1>13, <1>14, <1>15, <1>16, <1>18, <1>19 DEF TalkInv

(* What an end has in its buffer while another part is put there.          *)
LEMMA BufferGrows ==
  ASSUME TalkInv, NEW d \in Seq(Parts), EndsWithBody(d) \/ pc'["server"] \notin {"flush", "payload"},
         end' = [end EXCEPT !["server"].writeBuffer = @ \o d] \/
           \E keys \in SUBSET Keys : end' = [end EXCEPT !["server"].writeHeaders = @ \union keys,
                                                        !["server"].writeBuffer = @ \o d],
         pc["server"] = "reply", NEW l \in {"flush", "begin"}, Goto("server", l),
         UNCHANGED <<client, adapts, wire, closed, call, asked, request, result>>, aborts' \in Nat,
         Paired(d, IF l = "flush" THEN request.call ELSE request.call + 1)
  PROVE  TalkInv'
<1> DEFINE t == end["server"]  B == t.writeBuffer  C == B \o d
<1>1. /\ TypeInv /\ Calling /\ Framing /\ Flushing /\ Replies /\ Asking
  BY DEF TalkInv
<1>2. /\ t \in EndType /\ end \in [Ends -> EndType] /\ B \in Seq(Parts) /\ B \in Seq(Units)
      /\ request.call \in Nat /\ d \in Seq(Units)
  <2>1. t \in EndType /\ end \in [Ends -> EndType] /\ request.call \in Nat
    BY <1>1 DEF TypeInv, Ends
  <2>2. B \in Seq(Parts)
    BY <2>1 DEF EndType
  <2> QED BY <2>1, <2>2, PartsAreUnits
<1>3. C \in Seq(Parts) /\ C \in Seq(Units)
  <2>1. C \in Seq(Parts)
    BY <1>2, Joined
  <2> QED BY <2>1, PartsAreUnits
<1>4. EndsWithBody(d) => EndsWithBody(C)
  <2> SUFFICES ASSUME EndsWithBody(d) PROVE EndsWithBody(C)
    OBVIOUS
  <2>1. d # <<>> /\ d[Len(d)].unit = "body" /\ Len(d) \in Nat
    BY DEF EndsWithBody
  <2>2. Len(d) # 0
    BY <2>1, EmptyByLength
  <2> HIDE DEF B
  <2>3. /\ Len(C) = Len(B) + Len(d) /\ Len(B) \in Nat
        /\ \A i \in (Len(B) + 1)..(Len(B) + Len(d)) : C[i] = d[i - Len(B)]
    BY <1>2, Joined
  <2> HIDE DEF C
  <2>4. Len(C) \in (Len(B) + 1)..(Len(B) + Len(d)) /\ Len(C) - Len(B) = Len(d) /\ Len(C) # 0
    BY <2>1, <2>2, <2>3
  <2>5. C[Len(C)] = d[Len(d)] /\ C # <<>>
    BY <1>3, <2>3, <2>4, EmptyByLength
  <2> QED BY <2>1, <2>5 DEF EndsWithBody
<1>5. Paired(C, IF l = "flush" THEN request.call ELSE request.call + 1)
  <2>1. Paired(B, request.call)
    BY <1>1 DEF Replies, Answering
  <2>2. Paired(B, request.call + 1)
    BY <1>2, <2>1, PairedLater
  <2> HIDE DEF B
  <2>3. CASE l = "flush"
    <3>1. Paired(d, request.call) /\ request.call \in Int
      BY <1>2, <2>3
    <3>2. Paired(B \o d, request.call)
      BY <1>2, <2>1, <3>1, PairedJoined
    <3> QED BY <2>3, <3>2
  <2>4. CASE l # "flush"
    <3> DEFINE n == request.call + 1
    <3>1. Paired(d, n) /\ n \in Int /\ Paired(B, n)
      BY <1>2, <2>2, <2>4
    <3> HIDE DEF n
    <3>2. Paired(B \o d, n)
      BY <1>2, <3>1, PairedJoined
    <3> QED BY <2>4, <3>2 DEF n
  <2> QED BY <2>3, <2>4
<1>6. PICK u \in EndType :
        /\ end' = [end EXCEPT !["server"] = u]
        /\ u.frame = t.frame /\ u.reader = t.reader /\ u.type = t.type /\ u.writeBuffer = C
  <2>1. CASE end' = [end EXCEPT !["server"].writeBuffer = @ \o d]
    <3> DEFINE u == [t EXCEPT !.writeBuffer = C]
    <3>1. end' = [end EXCEPT !["server"] = u]
      BY <2>1
    <3> HIDE DEF t, C
    <3>2. u \in EndType /\ u.frame = t.frame /\ u.reader = t.reader /\ u.type = t.type /\ u.writeBuffer = C
      BY <1>2, <1>3 DEF EndType
    <3> HIDE DEF u
    <3> QED BY <3>1, <3>2
  <2>2. CASE \E keys \in SUBSET Keys : end' = [end EXCEPT !["server"].writeHeaders = @ \union keys,
                                                          !["server"].writeBuffer = @ \o d]
    <3>1. PICK keys \in SUBSET Keys : end' = [end EXCEPT !["server"].writeHeaders = @ \union keys,
                                                         !["server"].writeBuffer = @ \o d]
      BY <2>2
    <3> DEFINE h == t.writeHeaders \union keys
               u == [t EXCEPT !.writeHeaders = h, !.writeBuffer = C]
    <3>2. end' = [end EXCEPT !["server"] = u]
      BY <3>1
    <3>3. h \in SUBSET Keys
      BY <1>2 DEF EndType
    <3> HIDE DEF t, C, h
    <3>4. u \in EndType /\ u.frame = t.frame /\ u.reader = t.reader /\ u.type = t.type /\ u.writeBuffer = C
      BY <1>2, <1>3, <3>3 DEF EndType
    <3> HIDE DEF u
    <3> QED BY <3>2, <3>4
  <2> QED BY <2>1, <2>2
<1> HIDE DEF C
<1>7. /\ end'["server"] = u /\ end'["client"] = end["client"] /\ end' \in [Ends -> EndType]
      /\ pc'["server"] = l /\ pc'["client"] = pc["client"]
  BY <1>1, <1>2, <1>6 DEF Ends, TypeInv, Goto
<1>8. TypeInv' /\ Calling'
  <2>1. pc' \in [Ends -> {"idle", "args", "reply", "flush", "payload", "begin", "body", "closed"}]
        /\ pc'["client"] \notin {"reply", "closed"} /\ pc'["server"] \notin {"idle", "args"}
    BY <1>1, <1>7 DEF TypeInv, Goto
  <2> QED BY <1>1, <1>7, <2>1 DEF TypeInv, Calling
<1>9. Stream("client")' = Stream("client") /\ Stream("server")' = Stream("server")
  BY <1>6, <1>7 DEF Stream
<1>10. Framing'
  <2>1. \A e \in Ends : Transport(e)' = Transport(e)
    BY DEF Transport
  <2>2. \A e \in Ends : FramingOf(Transport(e), end'[e])
    BY <1>1, <1>6, <1>7 DEF Framing, FramingOf, IsFramed, Ends
  <2> QED BY <2>1, <2>2 DEF Framing
<1>11. Flushing'
  <2>1. FlushOf("server", wire["client"])'
    <3>1. FlushOf("server", wire["client"])
      BY <1>1 DEF Flushing, Ends, Peer
    <3> QED BY <1>4, <1>6, <1>7, <3>1 DEF FlushOf
  <2>2. FlushOf("client", wire["server"])'
    <3>1. FlushOf("client", wire["server"])
      BY <1>1 DEF Flushing, Ends, Peer
    <3>2. Flushed("client")' = Flushed("client")
      BY <1>7 DEF Flushed, Transport
    <3> QED BY <1>7, <3>1, <3>2 DEF FlushOf
  <2> QED BY <2>1, <2>2 DEF Flushing, Ends, Peer
<1>12. Replies'
  <2>1. Transport("client")' = Transport("client")
    BY DEF Transport
  <2>2. pc'["server"] \in Answering <=> l = "flush"
    BY <1>7 DEF Answering
  <2> QED BY <1>1, <1>5, <1>6, <1>7, <1>9, <2>1, <2>2 DEF Replies
<1>13. Asking'
  BY <1>1, <1>7, <1>9 DEF Asking
<1> QED BY <1>8, <1>10, <1>11, <1>12, <1>13 DEF TalkInv

(* The reply to a request, whole.                                          *)
LEMMA ReplyKeeps ==
  ASSUME TalkInv, NEW keys \in SUBSET Keys, Reply(keys)
  PROVE  TalkInv'
<1> DEFINE a == Begin(request.call, end["server"].protocol)  b == Body(request.call)  d == <<a, b>>
<1>1. request.call \in Nat /\ end["server"].protocol \in Languages /\ aborts \in Nat
  BY DEF TalkInv, TypeInv, EndType, Ends
<1>2. a \in Parts /\ b \in Parts /\ b.unit = "body" /\ a.call = request.call
  BY <1>1 DEF Begin, Body, Parts
<1>3. /\ pc["server"] = "reply" /\ Goto("server", "flush")
      /\ end' = [end EXCEPT !["server"].writeHeaders = @ \union keys,
                            !["server"].writeBuffer = @ \o d]
      /\ UNCHANGED <<client, adapts, wire, closed, call, asked, request, result, aborts>>
  BY DEF Reply
<1> HIDE DEF a
<1>4. d \in Seq(Parts) /\ Len(d) = 2 /\ d[1] = a /\ d[2] = b
  BY <1>2
<1>5. \A i \in 1..Len(d) : i = 1 \/ i = 2
  BY <1>4
<1>6. EndsWithBody(d)
  BY <1>2, <1>4 DEF EndsWithBody
<1>7. Paired(d, request.call)
  <2> SUFFICES ASSUME NEW i \in 1..Len(d), d[i].unit = "begin"
               PROVE  i < Len(d) /\ d[i + 1] = Body(d[i].call)
    BY DEF Paired
  <2>1. i = 1
    BY <1>2, <1>4, <1>5
  <2> QED BY <1>2, <1>4, <2>1
<1> HIDE DEF d
<1> QED BY <1>1, <1>3, <1>4, <1>6, <1>7, BufferGrows

(* The begin of a reply that fails, which stays in the buffer.             *)
LEMMA AbortReplyKeeps ==
  ASSUME TalkInv, AbortReply
  PROVE  TalkInv'
<1> DEFINE a == Begin(request.call, end["server"].protocol)  d == <<a>>
<1>1. request.call \in Nat /\ end["server"].protocol \in Languages /\ aborts \in Nat
  BY DEF TalkInv, TypeInv, EndType, Ends
<1>2. a \in Parts /\ a.call = request.call
  BY <1>1 DEF Begin, Parts
<1>3. /\ pc["server"] = "reply" /\ Goto("server", "begin") /\ aborts' \in Nat
      /\ end' = [end EXCEPT !["server"].writeBuffer = @ \o d]
      /\ UNCHANGED <<client, adapts, wire, closed, call, asked, request, result>>
  BY <1>1 DEF AbortReply, Write
<1>4. pc'["server"] \notin {"flush", "payload"}
  BY <1>3 DEF TalkInv, TypeInv, Goto, Ends
<1> HIDE DEF a
<1>5. d \in Seq(Parts) /\ Len(d) = 1 /\ d[1] = a
  BY <1>2
<1>6. Paired(d, request.call + 1)
  <2>1. \A i \in 1..Len(d) : i = 1
    BY <1>5
  <2> QED BY <1>1, <1>2, <1>5, <2>1 DEF Paired
<1> HIDE DEF d
<1> QED BY <1>3, <1>4, <1>5, <1>6, BufferGrows

(* The end of a call or of the connection, without a unit read or written. *)
LEMMA EndKeeps ==
  ASSUME TalkInv, NEW e \in Ends, NEW l \in {"idle", "closed"}, e = "client" <=> l = "idle",
         pc[e] \in {"idle", "args", "begin", "body"}, Goto(e, l), e = "client" => call # 0,
         result' = result \/ (e = "client" /\ result' = [result EXCEPT ![call] = "error"]),
         closed => closed', closed' \in BOOLEAN, aborts' \in Nat,
         UNCHANGED <<client, adapts, end, wire, call, asked, request>>
  PROVE  TalkInv'
<1>1. /\ TypeInv /\ Calling /\ Framing /\ Flushing /\ Replies /\ Asking
  BY DEF TalkInv
<1>2. /\ pc'[e] = l /\ \A q \in Ends : q # e => pc'[q] = pc[q]
      /\ e = "client" => call \in Calls
  <2>1. call \in 0..MaxCalls /\ MaxCalls \in Nat
    BY <1>1, MaxCallsAssumption, TransportsAssumption DEF TypeInv
  <2> QED BY <1>1, <2>1 DEF TypeInv, Goto, Calls
<1>3. TypeInv'
  <2>1. pc' \in [Ends -> {"idle", "args", "reply", "flush", "payload", "begin", "body", "closed"}]
        /\ pc'["client"] \notin {"reply", "closed"} /\ pc'["server"] \notin {"idle", "args"}
    BY <1>1, <1>2 DEF TypeInv, Goto, Ends
  <2>2. result' \in [Calls -> {"none", "error", "own"}]
    BY <1>1, <1>2 DEF TypeInv
  <2> QED BY <1>1, <2>1, <2>2 DEF TypeInv
<1>4. Calling'
  BY <1>1, <1>2 DEF Calling, Ends
<1>5. \A q \in Ends : Transport(q)' = Transport(q) /\ Flushed(q)' = Flushed(q) /\ Stream(q)' = Stream(q)
  BY DEF Transport, Flushed, Stream
<1>6. Framing'
  BY <1>1, <1>5 DEF Framing
<1>7. Flushing'
  <2>1. ASSUME NEW q \in Ends PROVE FlushOf(q, wire[Peer(q)])'
    <3>1. FlushOf(q, wire[Peer(q)])
      BY <1>1 DEF Flushing
    <3> QED BY <1>2, <1>5, <3>1 DEF FlushOf
  <2> QED BY <2>1 DEF Flushing
<1>8. Replies'
  <2>1. CASE e = "client"
    BY <1>1, <1>2, <1>5, <2>1 DEF Replies, Ends
  <2>2. CASE e = "server"
    <3> DEFINE B == end["server"].writeBuffer
    <3>1. B \in Seq(Units) /\ request.call \in Nat
      <4>1. B \in Seq(Parts) /\ request.call \in Nat
        BY <1>1 DEF TypeInv, EndType, Ends
      <4> QED BY <4>1, PartsAreUnits
    <3>2. Paired(B, request.call + 1)
      <4>1. Paired(B, request.call) \/ Paired(B, request.call + 1)
        BY <1>1 DEF Replies
      <4> QED BY <3>1, <4>1, PairedLater
    <3>3. pc'["server"] \notin Answering /\ pc'["client"] = pc["client"]
      BY <1>2, <2>2 DEF Answering, Ends
    <3> QED BY <1>1, <1>5, <3>2, <3>3 DEF Replies, Ends
  <2> QED BY <2>1, <2>2 DEF Ends
<1>9. Asking'
  BY <1>1, <1>5 DEF Asking, Ends
<1> QED BY <1>3, <1>4, <1>6, <1>7, <1>8, <1>9 DEF TalkInv

(* A timeout within a frame: nothing but its size has come.                *)
LEMMA TimeOutKeeps ==
  ASSUME TalkInv, TimeOut
  PROVE  TalkInv'
<1> DEFINE t == end["client"]  W == wire["client"]  x == Transport("client")
<1>1. /\ TypeInv /\ Calling /\ Framing /\ Flushing /\ Replies /\ Asking
  BY DEF TalkInv
<1>2. /\ pc["client"] \in {"begin", "body"} /\ ~Ready("client") /\ closed = FALSE
      /\ result' = [result EXCEPT ![call] = "error"] /\ Goto("client", "idle")
      /\ UNCHANGED <<client, adapts, closed, call, asked, request, served, aborts>>
  BY <1>1 DEF TimeOut, TypeInv
<1>3. call # 0 /\ call \in Calls /\ call \in Nat /\ request.call \in Nat
  <2>1. call \in Calls
    BY <1>1, <1>2 DEF Calling
  <2> QED BY <1>1, <2>1, MaxCallsAssumption, TransportsAssumption DEF Calls, TypeInv
<1>4. CASE ~(NeedsFrame("client") /\ W # <<>>)
  <2>1. UNCHANGED <<end, wire>>
    BY <1>4 DEF TimeOut
  <2>2. aborts' \in Nat /\ closed' \in BOOLEAN
    BY <1>1, <1>2 DEF TypeInv
  <2> QED BY <1>2, <1>3, <2>1, <2>2, EndKeeps DEF Ends
<1>5. CASE NeedsFrame("client") /\ W # <<>>
  <2>1. end' = [end EXCEPT !["client"].frame = t.frame \o Tail(W)] /\ wire' = [wire EXCEPT !["client"] = <<>>]
    BY <1>5 DEF TimeOut
  <2>2. /\ t \in EndType /\ W \in Seq(Units) /\ FramingOf(x, t) /\ FlushOf("server", W)
        /\ end \in [Ends -> EndType]
    BY <1>1 DEF TypeInv, Framing, Flushing, Ends, Peer
  <2>3. t.frame = <<>>
    BY <1>5, <2>2 DEF NeedsFrame, FramingOf, NeedReadFrame, IsFramed, EndType
  <2>4. ~Whole(W)
    BY <1>2, <1>5 DEF Ready
  <2> HIDE DEF t, W, x
  <2>5. Len(W) = 1
    <3>1. Head(W) = W[1] /\ W[1] \in Units /\ Len(W) \in Nat /\ Len(W) >= 1
      BY <1>5, <2>2, RestTail
    <3>2. W[1].unit = "size" /\ ~(Len(W) > W[1].n)
      BY <1>5, <2>4, <3>1 DEF Whole
    <3>3. W[1].n \in Nat
      BY <3>1, <3>2 DEF Units, Parts
    <3>4. 1 \in 1..Len(W)
      BY <3>1
    <3>5. 1 = Len(W) \/ 1 + W[1].n <= Len(W)
      BY <2>2, <3>2, <3>4 DEF FlushOf, Sized
    <3> QED BY <3>1, <3>2, <3>3, <3>5
  <2>6. t.frame \o Tail(W) = <<>>
    <3> DEFINE Q == Tail(W)
    <3>1. Q \in Seq(Units) /\ Len(Q) = Len(W) - 1
      BY <1>5, <2>2, RestTail
    <3> HIDE DEF Q
    <3>2. Q = <<>>
      BY <2>5, <3>1, EmptyByLength
    <3> QED BY <2>3, <3>2 DEF Q
  <2>7. end' = end
    <3>1. end' = [end EXCEPT !["client"].frame = <<>>]
      BY <2>1, <2>6
    <3>2. [t EXCEPT !.frame = <<>>] = t
      BY <2>2, <2>3 DEF EndType
    <3>3. end' = [end EXCEPT !["client"] = [t EXCEPT !.frame = <<>>]]
      BY <3>1 DEF t
    <3>4. end["client"] = t
      BY DEF t
    <3> QED BY <2>2, <3>2, <3>3, <3>4
  <2>8. /\ wire'["client"] = <<>> /\ wire'["server"] = wire["server"] /\ wire' \in [Ends -> Seq(Units)]
        /\ pc'["client"] = "idle" /\ pc'["server"] = pc["server"]
    BY <1>1, <1>2, <2>1 DEF TypeInv, Ends, Goto
  <2>9. TypeInv' /\ Calling'
    <3>1. pc' \in [Ends -> {"idle", "args", "reply", "flush", "payload", "begin", "body", "closed"}]
          /\ pc'["client"] \notin {"reply", "closed"} /\ pc'["server"] \notin {"idle", "args"}
      BY <1>1, <1>2, <2>8 DEF TypeInv, Goto
    <3>2. result' \in [Calls -> {"none", "error", "own"}]
      BY <1>1, <1>2, <1>3 DEF TypeInv
    <3> QED BY <1>1, <1>2, <2>7, <2>8, <3>1, <3>2 DEF TypeInv, Calling
  <2>10. \A q \in Ends : Transport(q)' = Transport(q) /\ Flushed(q)' = Flushed(q)
    BY <1>2, <2>7 DEF Transport, Flushed
  <2>11. Framing'
    BY <1>1, <2>7, <2>10 DEF Framing
  <2>12. Flushing'
    <3>1. FlushOf("client", wire["server"])'
      <4>1. FlushOf("client", wire["server"])
        BY <1>1 DEF Flushing, Ends, Peer
      <4>2. EndsWithSize(wire["server"]) => closed
        BY <1>2, <4>1 DEF FlushOf
      <4> QED BY <1>2, <2>7, <2>8, <4>1, <4>2 DEF FlushOf
    <3>2. FlushOf("server", wire["client"])'
      <4>1. Sized(<<>>) /\ ~EndsWithSize(<<>>)
        BY DEF Sized, EndsWithSize
      <4>2. pc["server"] \in {"flush", "payload"} => EndsWithBody(end["server"].writeBuffer)
        BY <2>2 DEF FlushOf
      <4> QED BY <2>7, <2>8, <4>1, <4>2 DEF FlushOf
    <3> QED BY <3>1, <3>2 DEF Flushing, Ends, Peer
  <2>13. Stream("client")' = <<>> /\ Stream("server")' = Stream("server")
    BY <2>3, <2>7, <2>8 DEF Stream, t
  <2>14. Replies'
    <3>1. Paired(<<>>, call)
      BY DEF Paired
    <3> QED BY <1>1, <1>2, <2>7, <2>8, <2>13, <3>1 DEF Replies
  <2>15. Asking'
    BY <1>1, <1>2, <2>7, <2>13 DEF Asking
  <2> QED BY <2>9, <2>11, <2>12, <2>14, <2>15 DEF TalkInv
<1> QED BY <1>4, <1>5

-----------------------------------------------------------------------------
(* The invariant is inductive *)

(* It holds before the first call,                                         *)
LEMMA TalkInvInit ==
  ASSUME Init
  PROVE  TalkInv
<1>1. \A e \in Ends : end[e].frame = <<>> /\ wire[e] = <<>> /\ end[e].writeBuffer = <<>>
                      /\ end[e].reader = FALSE
  BY DEF Init
<1>2. TypeInv
  <2>1. end \in [Ends -> EndType]
    <3>1. <<>> \in Seq(Units) /\ <<>> \in Seq(Parts) /\ client.protocol \in Languages /\ "binary" \in Languages
      BY DEF Init, Languages
    <3> QED BY <3>1 DEF Init, EndType
  <2>2. wire \in [Ends -> Seq(Units)]
    BY DEF Init
  <2>3. call \in 0..MaxCalls /\ request \in [call : 0..call, headers : SUBSET Keys] /\ aborts \in Nat
        /\ result \in [Calls -> {"none", "error", "own"}] /\ asked \in [Calls -> SUBSET Keys]
    BY MaxCallsAssumption, TransportsAssumption DEF Init
  <2>4. client \in Clients /\ adapts \in BOOLEAN /\ closed \in BOOLEAN
    BY DEF Init
  <2>5. pc \in [Ends -> {"idle", "args", "reply", "flush", "payload", "begin", "body", "closed"}]
        /\ pc["client"] \notin {"reply", "closed"} /\ pc["server"] \notin {"idle", "args"}
    BY DEF Init, Ends
  <2> QED BY <2>1, <2>2, <2>3, <2>4, <2>5 DEF TypeInv
<1>3. Calling
  BY DEF Init, Calling
<1>4. Framing
  BY <1>1 DEF Framing, FramingOf, Init, IsFramed
<1>5. Flushing
  <2>1. \A e \in Ends : pc[e] \notin {"flush", "payload"} /\ wire[Peer(e)] = <<>>
    BY <1>1 DEF Init, Ends, Peer
  <2>2. Sized(<<>>) /\ ~EndsWithSize(<<>>)
    BY DEF Sized, EndsWithSize
  <2> QED BY <2>1, <2>2 DEF Flushing, FlushOf
<1>6. \A e \in Ends : Stream(e) = <<>>
  BY <1>1 DEF Stream
<1>7. /\ \A c \in Int : Paired(<<>>, c)
      /\ Rising(<<>>) /\ Earlier(<<>>, <<>>) /\ \A m, n \in Nat : Between(<<>>, m, n)
  BY DEF Paired, Rising, Earlier, Between
<1>8. call = 0 /\ request.call = 0 /\ pc["client"] # "body" /\ pc["server"] \notin Answering
  BY DEF Init, Answering
<1>9. Replies
  BY <1>1, <1>6, <1>7, <1>8 DEF Replies, Ends
<1>10. Asking
  BY <1>1, <1>6, <1>7, <1>8 DEF Asking, InOrder, Ends
<1> QED BY <1>2, <1>3, <1>4, <1>5, <1>9, <1>10 DEF TalkInv

(* and every step of an end keeps it.                                      *)
LEMMA TalkInvInvariant == TalkInv /\ [Next]_vars => TalkInv'
<1> SUFFICES ASSUME TalkInv, [Next]_vars PROVE TalkInv'
  OBVIOUS
<1>1. ASSUME NEW e \in Ends, WriteSize(e) PROVE TalkInv'
  BY <1>1, WriteSizeKeeps
<1>2. ASSUME NEW e \in Ends, WritePayload(e) PROVE TalkInv'
  BY <1>2, WritePayloadKeeps
<1>3. CASE WriteArgs
  BY <1>3, WriteArgsKeeps
<1>4. CASE RecvBegin
  BY <1>4, RecvBeginKeeps
<1>5. CASE RecvBody
  BY <1>5, RecvBodyKeeps
<1>6. CASE ServeBegin
  BY <1>6, ServeBeginKeeps
<1>7. CASE ServeBody
  BY <1>7, ServeBodyKeeps
<1>8. ASSUME NEW keys \in SUBSET Keys, Reply(keys) PROVE TalkInv'
  BY <1>8, ReplyKeeps
<1>9. ASSUME NEW keys \in SUBSET Keys, Send(keys) PROVE TalkInv'
  BY <1>9, SendKeeps
<1>10. CASE AbortReply
  BY <1>10, AbortReplyKeeps
<1>11. CASE TimeOut
  BY <1>11, TimeOutKeeps
<1>12. CASE AbortArgs
  <2>1. /\ pc["client"] = "args" /\ Goto("client", "idle") /\ aborts' = aborts + 1
        /\ result' = [result EXCEPT ![call] = "error"]
        /\ UNCHANGED <<client, adapts, end, wire, closed, call, asked, request>>
    BY <1>12 DEF AbortArgs
  <2>2. aborts' \in Nat /\ closed' \in BOOLEAN /\ call # 0
    BY <2>1 DEF TalkInv, TypeInv, Calling, Calls
  <2> QED BY <2>1, <2>2, EndKeeps DEF Ends
<1>13. CASE CloseClient
  <2>1. /\ pc["client"] \in {"idle", "begin", "body"} /\ Goto("client", "idle") /\ closed' = TRUE
        /\ pc["client"] # "idle" \/ call > 0
        /\ result' = result \/ result' = [result EXCEPT ![call] = "error"]
        /\ UNCHANGED <<client, adapts, end, wire, call, asked, request, aborts>>
    BY <1>13 DEF CloseClient
  <2>2. aborts' \in Nat /\ call # 0
    BY <2>1 DEF TalkInv, TypeInv, Calling, Calls
  <2> QED BY <2>1, <2>2, EndKeeps DEF Ends
<1>14. CASE ServeEnd
  <2>1. /\ pc["server"] \in {"begin", "body"} /\ Goto("server", "closed") /\ closed' = TRUE
        /\ UNCHANGED <<client, adapts, end, wire, call, asked, request, result, aborts>>
    BY <1>14 DEF ServeEnd, CloseServer
  <2>2. aborts' \in Nat
    BY <2>1 DEF TalkInv, TypeInv
  <2> QED BY <2>1, <2>2, EndKeeps DEF Ends
<1>15. CASE UNCHANGED vars
  BY <1>15 DEF vars, TalkInv, TypeInv, Calling, Framing, Transport, Flushing, FlushOf, Flushed,
               Replies, Stream, Asking
<1> QED BY <1>1, <1>2, <1>3, <1>4, <1>5, <1>6, <1>7, <1>8, <1>9, <1>10, <1>11, <1>12, <1>13, <1>14,
           <1>15 DEF Next, ClientStep, ServerStep, Ends

-----------------------------------------------------------------------------
(* A call that succeeds returns the reply to itself.                       *)
THEOREM OwnReplyAlways == Spec => []OwnReply
<1>1. TalkInv => OwnReply
  BY DEF TalkInv, TypeInv, OwnReply
<1> QED BY TalkInvInit, TalkInvInvariant, <1>1, PTL DEF Spec

-----------------------------------------------------------------------------
(* The inductive invariant of what is served *)

Served == [call : Nat, args : Nat, headers : SUBSET Keys]

(* Requests are served in turn, and the one begun is a later one.          *)
InTurn ==
  /\ served \in Seq(Served)
  /\ pc["server"] = "body" => request.call >= 1
  /\ \A i \in 1..Len(served) :
       /\ 1 <= served[i].call /\ served[i].call <= request.call
       /\ pc["server"] = "body" => served[i].call < request.call
       /\ \A j \in 1..(i - 1) : served[j].call < served[i].call

(* What is to be served with a call: the headers of its context, if its    *)
(* client has a transport to send them.                                    *)
Due(c) == IF client.transport = "header" THEN asked[c] ELSE {}
AsSent ==
  /\ pc["server"] = "body" => request.headers = Due(request.call)
  /\ \A i \in 1..Len(served) :
       served[i].args = served[i].call /\ served[i].headers = Due(served[i].call)

(* Messages, unless one was aborted: a buffer has the one being written    *)
(* alone, and those on their way to the server have their bodies.          *)
Message(e) ==
  LET c == IF e = "client" THEN call ELSE request.call IN <<Begin(c, end[e].protocol), Body(c)>>
Buffered(e) ==
  IF pc[e] \in {"flush", "payload"} THEN Message(e)
  ELSE IF pc[e] = "args" THEN <<Begin(call, end[e].protocol)>> ELSE <<>>
Requests ==
  /\ \A e \in Ends : end[e].writeBuffer = Buffered(e)
  /\ Paired(Stream("server"), 0)
  /\ pc["server"] = "body" => /\ ~Needs(Transport("server"), end["server"])
                              /\ Stream("server") # <<>>
                              /\ Stream("server")[1] = Body(request.call)

(* No other client sends headers, or has them read.                        *)
NoMeta(s) == \A i \in 1..Len(s) : s[i].unit # "meta"
Plain ==
  IF client.transport = "header" THEN adapts = TRUE
  ELSE NoMeta(Stream("server")) /\ end["server"].readHeaders = {}

(* What a client and a server that both speak THeader write, from a size   *)
(* on or, where a timeout has dropped it, from the head of its frame.      *)
Chain(s) ==
  /\ s # <<>> => s[1].unit \in {"size", "meta"}
  /\ \A i \in 1..Len(s) :
     /\ s[i].unit = "size" => s[i].n = 3 /\ (i < Len(s) => s[i + 1].unit = "meta")
     /\ s[i].unit = "meta" => i < Len(s) /\ s[i + 1].unit = "begin"
     /\ s[i].unit = "begin" => i < Len(s) /\ s[i + 1] = Body(s[i].call)
     /\ s[i].unit = "body" /\ i < Len(s) => s[i + 1].unit = "size"
StartsWithSize(s) == s # <<>> => s[1].unit = "size"
HeadersOf(s) == \A i \in 1..Len(s) : s[i].unit = "meta" => s[i].headers = asked[s[i + 1].call]

Chained ==
  /\ \A e \in Ends :
       /\ end[e].type \in {"unknown", "headers"} /\ Chain(wire[e])
       /\ pc[e] = "payload" /\ ~closed => wire[Peer(e)] = <<>> \/ EndsWithSize(wire[Peer(e)])
  /\ pc["client"] = "payload" /\ ~closed => wire["server"] # <<>>
  /\ StartsWithSize(wire["server"]) /\ HeadersOf(wire["server"])
  /\ pc["client"] \in {"args", "flush", "payload"} => end["client"].writeHeaders = asked[call]
  /\ pc["server"] \in {"begin", "reply", "flush", "payload"} => end["server"].frame = <<>>
  /\ pc["server"] = "body" => Len(end["server"].frame) = 1

ServeInv ==
  /\ TalkInv /\ InTurn /\ Plain
  /\ aborts = 0 => Requests /\ AsSent /\ (client.transport = "header" => Chained)

(* A rest of what has no head of a THeader frame has none.                 *)
LEMMA NoMetaRest ==
  ASSUME NEW s \in Seq(Units), NEW u \in Seq(Units), Rest(u, s), NoMeta(s)
  PROVE  NoMeta(u)
<1>1. PICK k \in Nat : k + Len(u) = Len(s) /\ \A i \in 1..Len(u) : u[i] = s[i + k]
  BY DEF Rest
<1> SUFFICES ASSUME NEW i \in 1..Len(u) PROVE u[i].unit # "meta"
  BY DEF NoMeta
<1>2. i + k \in 1..Len(s) /\ u[i] = s[i + k]
  BY <1>1
<1> QED BY <1>2 DEF NoMeta

(* Nor is there a head in two sequences joined if neither has one.         *)
LEMMA NoMetaJoined ==
  ASSUME NEW s \in Seq(Units), NEW t \in Seq(Units), NoMeta(s), NoMeta(t)
  PROVE  NoMeta(s \o t)
<1> DEFINE u == s \o t
<1>1. /\ Len(u) = Len(s) + Len(t) /\ Len(s) \in Nat /\ Len(t) \in Nat
      /\ \A i \in 1..Len(s) : u[i] = s[i]
      /\ \A i \in (Len(s) + 1)..(Len(s) + Len(t)) : u[i] = t[i - Len(s)] /\ i - Len(s) \in 1..Len(t)
  BY Joined
<1> HIDE DEF u
<1>2. ASSUME NEW i \in 1..Len(u) PROVE u[i].unit # "meta"
  <2>1. i \in 1..Len(s) \/ i \in (Len(s) + 1)..(Len(s) + Len(t))
    BY <1>1
  <2> QED BY <1>1, <2>1 DEF NoMeta
<1> QED BY <1>2 DEF NoMeta, u

(* A frame behind its size, as THeaderTransport.ReadFrame gives it.        *)
LEMMA FrameOfSize ==
  ASSUME NEW t \in EndType, NEW W \in Seq(Units), FramingOf("header", t), Sized(W),
         NeedReadFrame(t), Whole(W), W[1].unit = "size"
  PROVE  LET n == W[1].n
             F == SubSeq(W, 2, n + 1)
             R == SubSeq(W, n + 2, Len(W))
             opened == [t EXCEPT !.frame = F, !.reader = TRUE]
             f == HeaderFrame(t, W)
         IN  /\ n \in Nat /\ n >= 1 /\ Len(W) > n /\ F \in Seq(Units) /\ R \in Seq(Units) /\ Len(F) = n
             /\ F[1] = W[2] /\ F[1] \in Units
             /\ F[1].unit = "meta" =>
                  /\ f.t = [opened EXCEPT !.type = "headers", !.protocol = F[1].protocol,
                                          !.readHeaders = F[1].headers, !.frame = Tail(F)]
                  /\ f.units = R /\ f.ok = TRUE
             /\ F[1].unit # "meta" => f.t.readHeaders = t.readHeaders
<1> DEFINE f == HeaderFrame(t, W)
           n == W[1].n
           F == SubSeq(W, 2, n + 1)
           R == SubSeq(W, n + 2, Len(W))
<1>1. /\ t.frame = <<>> /\ t.reader = FALSE /\ W # <<>> /\ Head(W) = W[1] /\ Len(W) \in Nat
  <2>1. t.frame = <<>> /\ t.reader = FALSE
    BY DEF FramingOf, NeedReadFrame, IsFramed, EndType
  <2>2. W # <<>> /\ Head(W) = W[1] /\ Len(W) \in Nat
    BY DEF Whole
  <2> QED BY <2>1, <2>2
<1>2. Len(W) > n
  BY <1>1 DEF Whole
<1>3. /\ n \in Nat /\ n >= 1 /\ F \in Seq(Units) /\ R \in Seq(Units) /\ Len(F) = n
  BY <1>1, <1>2, FrameBehind
<1>4. F[1] = W[2] /\ F[1] \in Units
  BY <1>1, <1>2, <1>3
<1>5. <<>> \o F = F
  BY <1>3
<1>6. f = CASE F[1].unit = "meta" ->
                 [t |-> [[t EXCEPT !.frame = F, !.reader = TRUE]
                           EXCEPT !.type = "headers", !.protocol = F[1].protocol,
                                  !.readHeaders = F[1].headers, !.frame = Tail(F)],
                  units |-> R, ok |-> TRUE]
            [] F[1].unit = "begin" ->
                 [t |-> [t EXCEPT !.frame = F, !.reader = TRUE, !.type = "framed",
                                  !.protocol = F[1].protocol],
                  units |-> R, ok |-> TRUE]
            [] OTHER -> [t |-> [t EXCEPT !.frame = <<>>, !.reader = FALSE],
                         units |-> R, ok |-> FALSE]
  BY <1>1, <1>5 DEF HeaderFrame, Failed, EndOfFrame, EndType
<1> HIDE DEF f, F, R, n
<1>7. ASSUME F[1].unit # "meta" PROVE f.t.readHeaders = t.readHeaders
  BY <1>6, <1>7 DEF EndType
<1>8. ASSUME F[1].unit = "meta"
      PROVE  /\ f.t = [[t EXCEPT !.frame = F, !.reader = TRUE]
                         EXCEPT !.type = "headers", !.protocol = F[1].protocol,
                                !.readHeaders = F[1].headers, !.frame = Tail(F)]
             /\ f.units = R /\ f.ok = TRUE
  BY <1>6, <1>8
<1> QED BY <1>2, <1>3, <1>4, <1>7, <1>8 DEF f, F, R, n

(* What is read of a stream without heads leaves the headers.              *)
LEMMA NoHeadersRead ==
  ASSUME TypeInv, Framing, Flushing, NEW e \in Ends, Ready(e), NoMeta(Stream(e))
  PROVE  ReadFrame(e).t.readHeaders = end[e].readHeaders
<1> DEFINE x == Transport(e)  t == end[e]  W == wire[e]
<1>1. /\ x \in {"header", "framed", "buffered"} /\ t \in EndType /\ W \in Seq(Units) /\ Sized(W)
      /\ t.frame \in Seq(Units)
  <2>1. x \in {"header", "framed", "buffered"}
    BY TransportsAssumption DEF TypeInv, Transport
  <2>2. t \in EndType /\ W \in Seq(Units) /\ t.frame \in Seq(Units)
    BY DEF TypeInv, EndType
  <2>3. Peer(Peer(e)) = e /\ Peer(e) \in Ends
    BY DEF Peer, Ends
  <2>4. Sized(W)
    BY <2>3 DEF Flushing, FlushOf
  <2> QED BY <2>1, <2>2, <2>4
<1>2. NoMeta(W)
  <2>1. /\ Len(t.frame \o W) = Len(t.frame) + Len(W)
        /\ \A i \in 1..Len(W) :
             (t.frame \o W)[i + Len(t.frame)] = W[i] /\ i + Len(t.frame) \in 1..Len(t.frame \o W)
    <3> HIDE DEF t, W
    <3> QED BY <1>1, Joined
  <2> DEFINE S == t.frame \o W
  <2>2. NoMeta(S)
    BY DEF Stream
  <2> HIDE DEF S
  <2>3. \A i \in 1..Len(W) : S[i + Len(t.frame)] = W[i] /\ i + Len(t.frame) \in 1..Len(S)
    BY <2>1 DEF S
  <2> QED BY <2>2, <2>3 DEF NoMeta
<1>3. FramingOf(x, t)
  BY DEF Framing
<1>4. CASE ~NeedsFrame(e)
  BY <1>4 DEF ReadFrame
<1>5. CASE NeedsFrame(e) /\ x = "header"
  <2>1. ReadFrame(e) = HeaderFrame(t, W) /\ NeedReadFrame(t) /\ Whole(W)
    BY <1>5 DEF ReadFrame, NeedsFrame, Ready
  <2>2. t.frame = <<>>
    BY <1>1, <1>3, <1>5, <2>1 DEF FramingOf, NeedReadFrame, IsFramed, EndType
  <2>3. W # <<>> /\ Head(W) = W[1]
    BY <1>1, <2>1 DEF Whole
  <2>4. CASE W[1].unit = "size"
    <3> DEFINE n == W[1].n  F == SubSeq(W, 2, n + 1)
    <3>1. FramingOf("header", t) /\ t \in EndType /\ W \in Seq(Units) /\ Sized(W)
      BY <1>1, <1>3, <1>5
    <3>2. /\ n \in Nat /\ n >= 1 /\ Len(W) > n /\ F[1] = W[2]
          /\ F[1].unit # "meta" => HeaderFrame(t, W).t.readHeaders = t.readHeaders
      <4> HIDE DEF t, W, x
      <4> QED BY <2>1, <2>4, <3>1, FrameOfSize
    <3> HIDE DEF n, F
    <3>3. 2 \in 1..Len(W)
      BY <1>1, <3>2
    <3>4. W[2].unit # "meta"
      BY <1>2, <3>3 DEF NoMeta
    <3> QED BY <2>1, <3>2, <3>4
  <2>5. CASE W[1].unit = "begin"
    <3>1. HeaderFrame(t, W).t.readHeaders = t.readHeaders
      BY <2>3, <2>5 DEF HeaderFrame
    <3> QED BY <2>1, <3>1
  <2>6. CASE W[1].unit \notin {"begin", "size"}
    <3>1. HeaderFrame(t, W).t.readHeaders = t.readHeaders
      BY <2>3, <2>6 DEF HeaderFrame, Failed
    <3> QED BY <2>1, <3>1
  <2> QED BY <2>4, <2>5, <2>6
<1>6. CASE NeedsFrame(e) /\ x # "header"
  <2>1. ReadFrame(e) = PlainFrame(t, W)
    BY <1>6 DEF ReadFrame
  <2>2. PlainFrame(t, W).t.readHeaders = t.readHeaders
    BY DEF PlainFrame, Failed
  <2> QED BY <2>1, <2>2
<1> QED BY <1>4, <1>5, <1>6

(* Nor does a unit read.                                                   *)
LEMMA ReadLeavesHeaders ==
  ASSUME NEW f, f.t \in EndType
  PROVE  /\ Read(f).t.readHeaders = f.t.readHeaders /\ Read(f).t.writeHeaders = f.t.writeHeaders
         /\ Read(f).t.type = f.t.type
BY DEF Read, EndOfFrame, EndType

(* The begin of a request, if it is one: of a later call than the last.    *)
LEMMA BeginOfRequest ==
  ASSUME TalkInv, ServeBegin, pc'["server"] = "body"
  PROVE  LET f == ReadFrame("server")  r == Read(f)  s == f.t.frame \o f.units IN
         /\ f.ok = TRUE /\ Receives("server", r) /\ closed' = closed
         /\ request' = [call |-> r.got.call, headers |-> f.t.readHeaders]
         /\ s \in Seq(Units) /\ s # <<>> /\ Rest(s, Stream("server")) /\ Stream("server") \in Seq(Units)
         /\ r.got = s[1] /\ s[1].unit = "begin" /\ r.t.frame \o r.units = Tail(s)
         /\ ~Needs(Transport("server"), r.t)
         /\ s[1].call \in Nat /\ request.call < s[1].call /\ s[1].call <= call
<1> DEFINE e == "server"  f == ReadFrame(e)  r == Read(f)  s == f.t.frame \o f.units
           ok == f.ok /\ r.got.unit = "begin" /\ r.got.protocol = f.t.protocol
<1>1. /\ TypeInv /\ Framing /\ Flushing /\ Asking
  BY DEF TalkInv
<1>2. e \in Ends /\ pc \in [Ends -> {"idle", "args", "reply", "flush", "payload", "begin", "body", "closed"}]
  BY <1>1 DEF TypeInv, Ends
<1>3. Ready(e)
  BY DEF ServeBegin
<1>4. f.ok \in BOOLEAN
  BY <1>1, <1>2, <1>3, FrameRead DEF ReadOK
<1>5. CASE ~ok
  <2>1. pc' = [pc EXCEPT !["server"] = "closed"]
    BY <1>5 DEF ServeBegin, CloseServer, Goto
  <2> QED BY <1>2, <2>1
<1>6. CASE ok
  <2>1. /\ Receives(e, r) /\ closed' = closed
        /\ request' = [call |-> r.got.call, headers |-> f.t.readHeaders]
    BY <1>6 DEF ServeBegin
  <2>2. f.ok = TRUE /\ r.got.unit = "begin"
    <3> HIDE DEF f
    <3> QED BY <1>4, <1>6
  <2>3. /\ s \in Seq(Units) /\ s # <<>> /\ Rest(s, Stream(e)) /\ Stream(e) \in Seq(Units)
        /\ r.got = s[1] /\ r.got \in Units /\ r.t.frame \o r.units = Tail(s)
        /\ r.got.unit = "begin" => ~Needs(Transport(e), r.t)
    BY <1>1, <1>2, <1>3, <2>2, FirstRead
  <2> HIDE DEF f, r, s, ok
  <2>4. s[1].unit = "begin" /\ s[1].call \in Nat
    BY <2>2, <2>3 DEF Units, Parts
  <2>5. call \in Nat /\ request.call \in Nat
    BY <1>1, MaxCallsAssumption DEF TypeInv
  <2>6. Between(s, request.call, call)
    BY <1>1, <2>3, <2>5, RestKeeps DEF Asking, InOrder
  <2>7. 1 \in 1..Len(s)
    BY <2>3, RestTail
  <2>8. request.call < s[1].call /\ s[1].call <= call
    BY <2>4, <2>6, <2>7 DEF Between
  <2> QED BY <2>1, <2>2, <2>3, <2>4, <2>8 DEF f, r, s
<1> QED BY <1>5, <1>6

(* Nothing else begins or serves a request.                                *)
LEMMA NothingServed ==
  ASSUME TypeInv, [Next]_vars, ~ServeBegin, ~ServeBody
  PROVE  UNCHANGED <<served, request>> /\ (pc'["server"] = "body" => pc["server"] = "body")
<1>1. pc \in [Ends -> {"idle", "args", "reply", "flush", "payload", "begin", "body", "closed"}]
      /\ "server" \in Ends /\ "client" \in Ends
  BY DEF TypeInv, Ends
<1>2. ASSUME NEW e \in Ends, NEW l \in {"idle", "args", "reply", "flush", "payload", "begin", "closed"},
             Goto(e, l), UNCHANGED <<served, request>>
      PROVE  UNCHANGED <<served, request>> /\ (pc'["server"] = "body" => pc["server"] = "body")
  BY <1>1, <1>2 DEF Goto
<1>3. ASSUME NEW l \in {"idle", "body", "begin"}, Goto("client", l), UNCHANGED <<served, request>>
      PROVE  UNCHANGED <<served, request>> /\ (pc'["server"] = "body" => pc["server"] = "body")
  BY <1>1, <1>3 DEF Goto
<1>4. ASSUME NEW e \in Ends, WriteSize(e)
      PROVE  UNCHANGED <<served, request>> /\ (pc'["server"] = "body" => pc["server"] = "body")
  BY <1>2, <1>4 DEF WriteSize
<1>5. ASSUME NEW e \in Ends, WritePayload(e)
      PROVE  UNCHANGED <<served, request>> /\ (pc'["server"] = "body" => pc["server"] = "body")
  BY <1>2, <1>5 DEF WritePayload
<1>6. CASE WriteArgs \/ AbortArgs \/ RecvBody \/ TimeOut \/ CloseClient
  BY <1>1, <1>2, <1>6 DEF WriteArgs, AbortArgs, RecvBody, TimeOut, CloseClient
<1>7. CASE RecvBegin
  BY <1>3, <1>7 DEF RecvBegin
<1>8. CASE AbortReply \/ ServeEnd
  BY <1>1, <1>2, <1>8 DEF AbortReply, ServeEnd, CloseServer
<1>9. ASSUME NEW keys \in SUBSET Keys, Reply(keys) \/ Send(keys)
      PROVE  UNCHANGED <<served, request>> /\ (pc'["server"] = "body" => pc["server"] = "body")
  BY <1>1, <1>2, <1>9 DEF Reply, Send
<1>10. CASE UNCHANGED vars
  BY <1>10 DEF vars
<1> QED BY <1>1, <1>4, <1>5, <1>6, <1>7, <1>8, <1>9, <1>10 DEF Next, ClientStep, ServerStep

(* What is served next, and what it is served with.                        *)
LEMMA ServedNext ==
  ASSUME TalkInv, ServeBody
  PROVE  /\ pc["server"] = "body" /\ pc'["server"] \in {"reply", "closed"} /\ request' = request
         /\ \/ served' = served
            \/ \E a \in Nat :
                 served' = Append(served, [call |-> request.call, args |-> a, headers |-> request.headers])
<1> DEFINE f == ReadFrame("server")  u == Read(f).got  garbage == ~f.ok \/ u.unit # "body"
           a == IF garbage THEN 0 ELSE u.call
<1>1. /\ TypeInv /\ Framing /\ Flushing
  BY DEF TalkInv
<1>2. /\ "server" \in Ends
      /\ pc \in [Ends -> {"idle", "args", "reply", "flush", "payload", "begin", "body", "closed"}]
  BY <1>1 DEF TypeInv, Ends
<1>3. /\ pc["server"] = "body" /\ Ready("server") /\ request' = request
      /\ \/ /\ Goto("server", "reply")
            /\ served' = Append(served, [call |-> request.call, args |-> a, headers |-> request.headers])
         \/ Goto("server", "closed") /\ served' = served
  BY DEF ServeBody, CloseServer
<1>4. f.ok \in BOOLEAN
  BY <1>1, <1>2, <1>3, FrameRead DEF ReadOK
<1>5. a \in Nat
  <2>1. ASSUME f.ok = TRUE PROVE u \in Units
    BY <1>1, <1>2, <1>3, <2>1, FirstRead
  <2> HIDE DEF f, u
  <2>2. CASE ~garbage
    <3>1. u \in Units /\ u.unit = "body"
      BY <1>4, <2>1, <2>2
    <3> QED BY <2>2, <3>1 DEF Units, Parts
  <2>3. CASE garbage
    BY <2>3
  <2> QED BY <2>2, <2>3
<1> HIDE DEF a
<1>6. pc'["server"] \in {"reply", "closed"}
  BY <1>2, <1>3 DEF Goto
<1> QED BY <1>3, <1>5, <1>6

(* Requests are served in turn.                                            *)
LEMMA InTurnKept ==
  ASSUME TalkInv, InTurn, [Next]_vars
  PROVE  InTurn'
<1>1. TypeInv /\ request \in [call : 0..call, headers : SUBSET Keys] /\ call \in Nat
      /\ request.call \in Nat
  BY MaxCallsAssumption DEF TalkInv, TypeInv
<1>2. /\ served \in Seq(Served)
      /\ \A i \in 1..Len(served) :
           /\ 1 <= served[i].call /\ served[i].call <= request.call
           /\ pc["server"] = "body" => served[i].call < request.call
           /\ \A j \in 1..(i - 1) : served[j].call < served[i].call
      /\ \A i \in 1..Len(served) : served[i].call \in Nat
  <2>1. served \in Seq(Served)
    BY DEF InTurn
  <2>2. \A i \in 1..Len(served) : served[i] \in Served
    BY <2>1
  <2>3. \A i \in 1..Len(served) : served[i].call \in Nat
    BY <2>2 DEF Served
  <2> QED BY <2>1, <2>3, Zenon DEF InTurn
<1>3. CASE ~ServeBegin /\ ~ServeBody
  <2>1. UNCHANGED <<served, request>> /\ (pc'["server"] = "body" => pc["server"] = "body")
    BY <1>1, <1>3, NothingServed
  <2> QED BY <2>1 DEF InTurn
<1>4. CASE ServeBegin
  <2>1. served' = served /\ (pc'["server"] = "body" \/ request' = request)
    <3>1. pc \in [Ends -> {"idle", "args", "reply", "flush", "payload", "begin", "body", "closed"}]
          /\ "server" \in Ends
      BY <1>1 DEF TypeInv, Ends
    <3> QED BY <1>4, <3>1 DEF ServeBegin, Goto
  <2>2. CASE pc'["server"] = "body"
    <3> DEFINE f == ReadFrame("server")  s == f.t.frame \o f.units  r == Read(f)
    <3>1. /\ request' = [call |-> r.got.call, headers |-> f.t.readHeaders] /\ r.got = s[1]
          /\ s[1].call \in Nat /\ request.call < s[1].call
      BY <1>4, <2>2, BeginOfRequest
    <3> HIDE DEF f, r
    <3> HIDE DEF s
    <3> DEFINE n == request'.call
    <3>2. n \in Nat /\ request.call < n
      BY <3>1
    <3> HIDE DEF n
    <3>3. 1 <= n /\ \A i \in 1..Len(served) : served[i].call < n
      BY <1>1, <1>2, <3>2
    <3>4. \A i \in 1..Len(served) : served[i].call <= n
      BY <1>2, <3>2, <3>3
    <3> QED BY <1>2, <2>1, <3>3, <3>4 DEF InTurn, n
  <2>3. CASE pc'["server"] # "body"
    BY <1>2, <2>1, <2>3 DEF InTurn
  <2> QED BY <2>2, <2>3
<1>5. CASE ServeBody
  <2>1. /\ pc["server"] = "body" /\ pc'["server"] # "body" /\ request' = request
        /\ \/ served' = served
           \/ \E a \in Nat :
                served' = Append(served, [call |-> request.call, args |-> a, headers |-> request.headers])
    BY <1>5, ServedNext
  <2>2. CASE served' = served
    BY <1>2, <2>1, <2>2 DEF InTurn
  <2>3. ASSUME NEW a \in Nat,
               served' = Append(served, [call |-> request.call, args |-> a, headers |-> request.headers])
        PROVE  InTurn'
    <3> DEFINE v == [call |-> request.call, args |-> a, headers |-> request.headers]  S == served'
    <3>1. v \in Served /\ v.call = request.call
      BY <1>1 DEF Served
    <3>2. S = Append(served, v)
      BY <2>3
    <3> HIDE DEF v
    <3>3. /\ S \in Seq(Served) /\ Len(S) = Len(served) + 1 /\ Len(served) \in Nat
          /\ \A i \in 1..Len(served) : S[i] = served[i]
          /\ S[Len(served) + 1] = v
      BY <1>2, <3>1, <3>2
    <3> HIDE DEF S
    <3>4. request.call >= 1
      BY <2>1 DEF InTurn
    <3>5. ASSUME NEW i \in 1..Len(S)
          PROVE  /\ 1 <= S[i].call /\ S[i].call <= request.call
                 /\ \A j \in 1..(i - 1) : S[j].call < S[i].call
      <4>1. CASE i \in 1..Len(served)
        <5>1. \A j \in 1..(i - 1) : j \in 1..Len(served)
          BY <3>3, <4>1
        <5> QED BY <1>2, <3>3, <4>1, <5>1
      <4>2. CASE i = Len(served) + 1
        <5>1. \A j \in 1..(i - 1) : j \in 1..Len(served)
          BY <3>3, <4>2
        <5>2. S[i].call = request.call
          BY <3>1, <3>3, <4>2
        <5>3. \A j \in 1..Len(served) : served[j].call < request.call
          BY <1>2, <2>1
        <5> QED BY <1>1, <3>3, <3>4, <5>1, <5>2, <5>3
      <4> QED BY <3>3, <4>1, <4>2
    <3> QED BY <2>1, <3>3, <3>5 DEF InTurn, S
  <2> QED BY <2>1, <2>2, <2>3
<1> QED BY <1>3, <1>4, <1>5

(* What each step leaves alone.                                            *)
LEMMA SameEnds ==
  ASSUME [Next]_vars
  PROVE  client' = client /\ adapts' = adapts /\ \A e \in Ends : Transport(e)' = Transport(e)
<1>1. client' = client /\ adapts' = adapts
  <2>1. ASSUME NEW e \in Ends, WriteSize(e) \/ WritePayload(e) PROVE client' = client /\ adapts' = adapts
    BY <2>1 DEF WriteSize, WritePayload
  <2>2. CASE WriteArgs \/ AbortArgs \/ RecvBegin \/ RecvBody \/ TimeOut \/ CloseClient
    BY <2>2 DEF WriteArgs, AbortArgs, RecvBegin, RecvBody, TimeOut, CloseClient
  <2>3. CASE ServeBegin \/ ServeBody \/ AbortReply \/ ServeEnd
    BY <2>3 DEF ServeBegin, ServeBody, AbortReply, ServeEnd
  <2>4. ASSUME NEW keys \in SUBSET Keys, Reply(keys) \/ Send(keys) PROVE client' = client /\ adapts' = adapts
    BY <2>4 DEF Reply, Send
  <2>5. CASE UNCHANGED vars
    BY <2>5 DEF vars
  <2> QED BY <2>1, <2>2, <2>3, <2>4, <2>5 DEF Next, ClientStep, ServerStep, Ends
<1> QED BY <1>1 DEF Transport

Receiving(e) == IF e = "client" THEN RecvBegin \/ RecvBody ELSE ServeBegin \/ ServeBody

(* What an end that reads has afterwards: v, a frame read or a unit of it. *)
Has(e, v) ==
  /\ v = ReadFrame(e) \/ (ReadFrame(e).ok = TRUE /\ v = Read(ReadFrame(e)))
  /\ Ready(e) /\ pc[e] \in {"begin", "body"}
  /\ pc'[e] \in {"body", "idle", "reply", "closed"} /\ pc'[Peer(e)] = pc[Peer(e)]
  /\ end' = [end EXCEPT ![e] = v.t] /\ wire' = [wire EXCEPT ![e] = v.units]
  /\ v.t \in EndType /\ v.t.writeBuffer = end[e].writeBuffer /\ v.units \in Seq(Units)
  /\ Stream(e) \in Seq(Units) /\ Stream(e)' \in Seq(Units) /\ Rest(Stream(e)', Stream(e))
  /\ closed' \in {closed, TRUE}
  /\ call' = call /\ asked' = asked /\ (e = "client" => request' = request)

(* An end that reads has a frame afterwards, or a unit of one.             *)
LEMMA Received ==
  ASSUME TalkInv, NEW e \in Ends, Receiving(e)
  PROVE  \E v : Has(e, v)
<1> DEFINE f == ReadFrame(e)
<1>1. /\ TypeInv /\ Framing /\ Flushing
  BY DEF TalkInv
<1>2. Ready(e) /\ pc[e] \in {"begin", "body"}
  BY DEF Receiving, RecvBegin, RecvBody, ServeBegin, ServeBody, Ends
<1>3. f.ok \in BOOLEAN
  BY <1>1, <1>2, FrameRead DEF ReadOK
<1>4. PICK l \in {"body", "idle", "reply", "closed"} :
        /\ Receives(e, f) \/ (f.ok = TRUE /\ Receives(e, Read(f)))
        /\ Goto(e, l) /\ closed' \in {closed, TRUE}
        /\ UNCHANGED <<client, adapts, call, asked>> /\ (e = "client" => request' = request)
  <2>1. CASE e = "client" /\ RecvBegin
    <3> DEFINE a == Accepted(Read(f).got, f.t.protocol)
    <3>1. /\ IF f.ok THEN Receives(e, Read(f)) /\ Goto(e, IF a THEN "body" ELSE "idle")
                     ELSE Receives(e, f) /\ Goto(e, "idle")
          /\ UNCHANGED <<client, adapts, closed, call, asked, request>>
      BY <2>1 DEF RecvBegin
    <3> HIDE DEF f, a
    <3>2. CASE f.ok = TRUE /\ a
      BY <3>1, <3>2
    <3>3. CASE f.ok = TRUE /\ ~a
      BY <3>1, <3>3
    <3>4. CASE f.ok = FALSE
      BY <3>1, <3>4
    <3> QED BY <1>3, <3>2, <3>3, <3>4 DEF f
  <2>2. CASE e = "client" /\ RecvBody
    <3>1. /\ Receives(e, IF f.ok THEN Read(f) ELSE f) /\ Goto(e, "idle")
          /\ UNCHANGED <<client, adapts, closed, call, asked, request>>
      BY <2>2 DEF RecvBody
    <3> HIDE DEF f
    <3>2. CASE f.ok = TRUE
      BY <3>1, <3>2
    <3>3. CASE f.ok = FALSE
      BY <3>1, <3>3
    <3> QED BY <1>3, <3>2, <3>3 DEF f
  <2>3. CASE e = "server" /\ ServeBegin
    <3> DEFINE a == Read(f).got.unit = "begin" /\ Read(f).got.protocol = f.t.protocol
    <3>1. /\ IF f.ok /\ a THEN Receives(e, Read(f)) /\ Goto(e, "body") /\ closed' = closed
                          ELSE Receives(e, f) /\ Goto(e, "closed") /\ closed' = TRUE
          /\ UNCHANGED <<client, adapts, call, asked>>
      BY <2>3 DEF ServeBegin, CloseServer
    <3> HIDE DEF f, a
    <3>2. CASE f.ok = TRUE /\ a
      BY <2>3, <3>1, <3>2
    <3>3. CASE ~(f.ok /\ a)
      BY <2>3, <3>1, <3>3
    <3> QED BY <1>3, <3>2, <3>3 DEF f
  <2>4. CASE e = "server" /\ ServeBody
    <3>1. /\ Receives(e, IF f.ok THEN Read(f) ELSE f)
          /\ \/ Goto(e, "reply") /\ closed' = closed
             \/ Goto(e, "closed") /\ closed' = TRUE
          /\ UNCHANGED <<client, adapts, call, asked>>
      BY <2>4 DEF ServeBody, CloseServer
    <3> HIDE DEF f
    <3>2. CASE f.ok = TRUE
      BY <2>4, <3>1, <3>2
    <3>3. CASE f.ok = FALSE
      BY <2>4, <3>1, <3>3
    <3> QED BY <1>3, <3>2, <3>3 DEF f
  <2> QED BY <2>1, <2>2, <2>3, <2>4 DEF Receiving, Ends
<1>5. PICK v : v \in {f, Read(f)} /\ (v = f \/ (f.ok = TRUE /\ v = Read(f))) /\ Receives(e, v)
  BY <1>4
<1>6. closed' \in BOOLEAN /\ (closed => closed') /\ UNCHANGED <<client, adapts>>
  <2>1. closed \in BOOLEAN
    BY <1>1 DEF TypeInv
  <2>2. closed' = closed \/ closed' = TRUE
    BY <1>4
  <2>3. CASE closed' = TRUE
    BY <1>4, <2>3
  <2>4. CASE closed' = closed
    BY <1>4, <2>1, <2>4
  <2> QED BY <2>2, <2>3, <2>4
<1> HIDE DEF f
<1>7. /\ end'[e] = v.t /\ end' \in [Ends -> EndType] /\ wire' \in [Ends -> Seq(Units)]
      /\ end'[e].writeBuffer = end[e].writeBuffer
      /\ pc'[e] = l /\ pc'[Peer(e)] = pc[Peer(e)]
      /\ Stream(e) \in Seq(Units) /\ Stream(e)' \in Seq(Units) /\ Rest(Stream(e)', Stream(e))
  BY <1>1, <1>2, <1>4, <1>5, <1>6, ReceiveKeeps DEF f
<1>8. end' = [end EXCEPT ![e] = v.t] /\ wire' = [wire EXCEPT ![e] = v.units]
  BY <1>5 DEF Receives
<1>9. v.units \in Seq(Units)
  <2>1. wire'[e] = v.units
    BY <1>1, <1>8 DEF TypeInv
  <2> QED BY <1>7, <2>1
<1>10. Has(e, v)
  BY <1>2, <1>4, <1>5, <1>7, <1>8, <1>9 DEF f, Has
<1> QED BY <1>10

(* A flush leaves the headers and what was read.                           *)
LEMMA FlushLeaves ==
  ASSUME TypeInv, NEW e \in Ends
  PROVE  /\ Flushed(e).t.readHeaders = end[e].readHeaders /\ Flushed(e).t.frame = end[e].frame
         /\ Flushed(e).t.writeHeaders = end[e].writeHeaders
         /\ Flushed(e).t.writeBuffer = <<>>
         /\ Flushed(e).t.type \in {end[e].type, "headers"}
<1>1. end[e] \in EndType
  BY DEF TypeInv
<1> DEFINE t == end[e]
<1> HIDE DEF t
<1>2. Flush(t).t = [t EXCEPT !.type = IF t.type \in {"unknown", "headers"} THEN "headers" ELSE t.type,
                            !.writeBuffer = <<>>]
  BY DEF Flush
<1>3. /\ Flush(t).t.readHeaders = t.readHeaders /\ Flush(t).t.frame = t.frame
      /\ Flush(t).t.writeHeaders = t.writeHeaders /\ Flush(t).t.writeBuffer = <<>>
      /\ Flush(t).t.type \in {t.type, "headers"}
  BY <1>1, <1>2 DEF EndType, t
<1>4. CASE Transport(e) = "header"
  BY <1>3, <1>4 DEF Flushed, t
<1>5. CASE Transport(e) # "header"
  <2>1. Flushed(e).t = [t EXCEPT !.writeBuffer = <<>>]
    BY <1>5 DEF Flushed, t
  <2> QED BY <1>1, <2>1 DEF EndType, t
<1> QED BY <1>4, <1>5

(* The client sends one part of a message to the server.                   *)
LEMMA ClientSends ==
  ASSUME TypeInv, WriteSize("client") \/ WritePayload("client")
  PROVE  LET u == IF WriteSize("client") THEN Flushed("client").size ELSE Flushed("client").payload IN
         /\ wire'["server"] = IF closed THEN wire["server"] ELSE wire["server"] \o u
         /\ end'["server"] = end["server"] /\ pc'["server"] = pc["server"] /\ request' = request
         /\ pc["client"] = IF WriteSize("client") THEN "flush" ELSE "payload"
<1>1. /\ "client" \in Ends /\ "server" \in Ends /\ Peer("client") = "server"
      /\ end \in [Ends -> EndType] /\ wire \in [Ends -> Seq(Units)]
      /\ pc \in [Ends -> {"idle", "args", "reply", "flush", "payload", "begin", "body", "closed"}]
  BY DEF TypeInv, Ends, Peer
<1>2. CASE WriteSize("client")
  <2> DEFINE u == Flushed("client").size
  <2>1. /\ wire' = [wire EXCEPT !["server"] = IF closed THEN wire["server"] ELSE wire["server"] \o u]
        /\ pc' = [pc EXCEPT !["client"] = "payload"] /\ UNCHANGED <<end, request>> /\ pc["client"] = "flush"
    BY <1>1, <1>2 DEF WriteSize, Sends, Goto
  <2> HIDE DEF u
  <2>2. /\ wire'["server"] = (IF closed THEN wire["server"] ELSE wire["server"] \o u)
        /\ end'["server"] = end["server"] /\ pc'["server"] = pc["server"] /\ request' = request
        /\ pc["client"] = "flush"
    BY <1>1, <2>1
  <2> QED BY <1>2, <2>2 DEF u
<1>3. CASE WritePayload("client") /\ ~WriteSize("client")
  <2> DEFINE u == Flushed("client").payload  t == Flushed("client").t
  <2>1. /\ wire' = [wire EXCEPT !["server"] = IF closed THEN wire["server"] ELSE wire["server"] \o u]
        /\ pc' = [pc EXCEPT !["client"] = "begin"] \/ pc' = [pc EXCEPT !["client"] = "idle"]
        /\ end' = [end EXCEPT !["client"] = t] /\ request' = request /\ pc["client"] = "payload"
    BY <1>1, <1>3 DEF WritePayload, Sends, Goto
  <2> HIDE DEF u, t
  <2>2. /\ wire'["server"] = (IF closed THEN wire["server"] ELSE wire["server"] \o u)
        /\ end'["server"] = end["server"] /\ pc'["server"] = pc["server"] /\ request' = request
        /\ pc["client"] = "payload"
    BY <1>1, <2>1
  <2> QED BY <1>3, <2>2 DEF u
<1> QED BY <1>2, <1>3

(* Nothing else comes to the server, or is read there.                     *)
LEMMA ServerSide ==
  ASSUME TypeInv, [Next]_vars, ~ServeBegin, ~ServeBody, ~WriteSize("client"), ~WritePayload("client")
  PROVE  /\ wire'["server"] = wire["server"] /\ end'["server"].frame = end["server"].frame
         /\ end'["server"].readHeaders = end["server"].readHeaders
         /\ pc["server"] = "body" => end'["server"] = end["server"]
<1> DEFINE Same == /\ wire'["server"] = wire["server"] /\ end'["server"].frame = end["server"].frame
                   /\ end'["server"].readHeaders = end["server"].readHeaders
                   /\ pc["server"] = "body" => end'["server"] = end["server"]
<1>1. /\ "client" \in Ends /\ "server" \in Ends /\ Peer("server") = "client" /\ Ends = {"client", "server"}
      /\ end \in [Ends -> EndType] /\ wire \in [Ends -> Seq(Units)]
      /\ end["server"] \in EndType
  BY DEF TypeInv, Ends, Peer
<1>2. ASSUME NEW t, end' = [end EXCEPT !["client"] = t] \/ end' = end, NEW u,
             wire' = [wire EXCEPT !["client"] = u] \/ wire' = wire
      PROVE  Same
  BY <1>1, <1>2
<1>3. CASE WriteSize("server")
  <2> DEFINE u == IF closed THEN wire["client"] ELSE wire["client"] \o Flushed("server").size
  <2>1. wire' = [wire EXCEPT !["client"] = u] /\ end' = end
    BY <1>1, <1>3 DEF WriteSize, Sends
  <2> HIDE DEF u
  <2> QED BY <1>2, <2>1
<1>4. CASE WritePayload("server")
  <2> DEFINE u == IF closed THEN wire["client"] ELSE wire["client"] \o Flushed("server").payload
             t == Flushed("server").t
  <2>1. /\ wire' = [wire EXCEPT !["client"] = u] /\ end' = [end EXCEPT !["server"] = t]
        /\ pc["server"] = "payload"
    BY <1>1, <1>4 DEF WritePayload, Sends
  <2>2. t.readHeaders = end["server"].readHeaders /\ t.frame = end["server"].frame
    BY <1>1, FlushLeaves
  <2> HIDE DEF u, t
  <2> QED BY <1>1, <2>1, <2>2
<1>5. CASE WriteArgs \/ AbortArgs \/ CloseClient
  BY <1>1, <1>5 DEF WriteArgs, AbortArgs, CloseClient, Write
<1>6. CASE RecvBegin \/ RecvBody
  <2>1. \E r : Receives("client", r)
    BY <1>6 DEF RecvBegin, RecvBody
  <2> QED BY <1>1, <2>1 DEF Receives
<1>7. CASE TimeOut
  <2>1. \/ end' = [end EXCEPT !["client"].frame = end["client"].frame \o Tail(wire["client"])]
           /\ wire' = [wire EXCEPT !["client"] = <<>>]
        \/ end' = end /\ wire' = wire
    BY <1>7 DEF TimeOut
  <2> QED BY <1>1, <2>1
<1>8. CASE ServeEnd
  BY <1>8 DEF ServeEnd
<1>9. CASE AbortReply
  BY <1>1, <1>9 DEF AbortReply, Write, EndType
<1>10. ASSUME NEW keys \in SUBSET Keys, Reply(keys) PROVE Same
  BY <1>1, <1>10 DEF Reply, EndType
<1>11. ASSUME NEW keys \in SUBSET Keys, Send(keys) PROVE Same
  BY <1>1, <1>11 DEF Send
<1>12. CASE UNCHANGED vars
  BY <1>12 DEF vars
<1> QED BY <1>1, <1>3, <1>4, <1>5, <1>6, <1>7, <1>8, <1>9, <1>10, <1>11, <1>12 DEF Next, ClientStep, ServerStep

(* Two units, one after the other.                                         *)
LEMMA TwoUnits ==
  ASSUME NEW a, NEW b
  PROVE  <<a>> \o <<b>> = <<a, b>>
<1>1. <<a>> \in Seq({a, b}) /\ <<b>> \in Seq({a, b}) /\ <<a, b>> \in Seq({a, b})
  OBVIOUS
<1> DEFINE u == <<a>> \o <<b>>
<1>2. u \in Seq({a, b}) /\ Len(u) = 2
  BY <1>1
<1>3. u[1] = a /\ u[2] = b
  OBVIOUS
<1> HIDE DEF u
<1>4. u = <<a, b>>
  BY <1>1, <1>2, <1>3
<1> QED BY <1>4 DEF u

(* The size a flush begins with, if any.                                   *)
LEMMA FlushedSize ==
  ASSUME TypeInv, Framing, NEW e \in Ends, EndsWithBody(end[e].writeBuffer)
  PROVE  /\ Flushed(e).size \in Seq(Units)
         /\ \A i \in 1..Len(Flushed(e).size) : Flushed(e).size[i].unit = "size"
<1> DEFINE f == Flushed(e)
<1>1. /\ f.payload \in Seq(Units) /\ Len(f.payload) >= 1
      /\ f.size = <<>> \/ f.size = <<Size(Len(f.payload))>>
  BY FlushedOK
<1> DEFINE n == Len(f.payload)  z == Size(n)
<1>2. z \in Units /\ z.unit = "size"
  <2>1. n \in Nat \ {0}
    BY <1>1
  <2> HIDE DEF n
  <2>2. z = [unit |-> "size", n |-> n]
    BY DEF Size
  <2> QED BY <2>1, <2>2 DEF Units
<1> HIDE DEF z
<1>3. f.size = <<>> \/ f.size = <<z>>
  BY <1>1 DEF z
<1>4. <<z>> \in Seq(Units) /\ Len(<<z>>) = 1 /\ <<z>>[1] = z
  BY <1>2
<1> HIDE DEF f
<1>5. f.size \in Seq(Units) /\ \A i \in 1..Len(f.size) : f.size[i].unit = "size"
  <2>1. CASE f.size = <<>>
    BY <2>1
  <2>2. CASE f.size = <<z>>
    BY <1>2, <1>4, <2>2
  <2> QED BY <1>3, <2>1, <2>2
<1> QED BY <1>5 DEF f

(* What a flush writes of a client without THeader.                        *)
LEMMA PlainFlush ==
  ASSUME TypeInv, Framing, EndsWithBody(end["client"].writeBuffer), client.transport # "header"
  PROVE  /\ Flushed("client").size \in Seq(Units) /\ NoMeta(Flushed("client").size)
         /\ Flushed("client").payload \in Seq(Units) /\ NoMeta(Flushed("client").payload)
<1> DEFINE B == end["client"].writeBuffer
<1>1. Transport("client") # "header" /\ "client" \in Ends
  BY DEF Transport, Ends
<1>2. Flushed("client").payload = B
  BY <1>1 DEF Flushed
<1>3. B \in Seq(Parts) /\ B \in Seq(Units)
  <2>1. B \in Seq(Parts)
    BY <1>1 DEF TypeInv, EndType
  <2> QED BY <2>1, PartsAreUnits
<1>4. NoMeta(B)
  <2>1. \A i \in 1..Len(B) : B[i] \in Parts
    BY <1>3
  <2> QED BY <2>1 DEF NoMeta, Parts
<1>5. Flushed("client").size \in Seq(Units) /\ NoMeta(Flushed("client").size)
  BY <1>1, FlushedSize DEF NoMeta
<1> QED BY <1>2, <1>3, <1>4, <1>5

(* No other client sends headers.                                          *)
LEMMA PlainKept ==
  ASSUME TalkInv, Plain, [Next]_vars
  PROVE  Plain'
<1>1. TypeInv /\ Framing /\ Flushing /\ "client" \in Ends /\ "server" \in Ends
  BY DEF TalkInv, Ends
<1>2. client' = client /\ adapts' = adapts
  BY SameEnds
<1>3. CASE client.transport = "header"
  BY <1>2, <1>3 DEF Plain
<1>4. CASE client.transport # "header"
  <2>1. /\ NoMeta(Stream("server")) /\ end["server"].readHeaders = {}
        /\ end["server"].frame \in Seq(Units) /\ wire["server"] \in Seq(Units)
    BY <1>1, <1>4 DEF Plain, TypeInv, EndType
  <2>2. Stream("server") \in Seq(Units)
    BY <2>1, Joined DEF Stream
  <2>3. CASE ServeBegin \/ ServeBody
    <3>10. PICK v : Has("server", v)
      BY <1>1, <2>3, Received DEF Receiving
    <3>1. /\ v = ReadFrame("server") \/ (ReadFrame("server").ok = TRUE /\ v = Read(ReadFrame("server")))
          /\ Ready("server") /\ end' = [end EXCEPT !["server"] = v.t]
          /\ Stream("server")' \in Seq(Units) /\ Rest(Stream("server")', Stream("server"))
      BY <3>10 DEF Has
    <3>2. NoMeta(Stream("server")')
      BY <2>1, <2>2, <3>1, NoMetaRest
    <3> DEFINE f == ReadFrame("server")
    <3>3. f.t.readHeaders = {}
      BY <1>1, <2>1, <3>1, NoHeadersRead
    <3>4. f.t \in EndType
      BY <1>1, <3>1, FrameRead DEF ReadOK
    <3>5. v.t.readHeaders = {}
      <4>1. Read(f).t.readHeaders = f.t.readHeaders
        BY <3>4, ReadLeavesHeaders
      <4> HIDE DEF f
      <4> QED BY <3>1, <3>3, <4>1 DEF f
    <3>6. end'["server"] = v.t
      BY <1>1, <3>1 DEF TypeInv
    <3> QED BY <1>2, <1>4, <3>2, <3>5, <3>6 DEF Plain
  <2>4. CASE WriteSize("client") \/ WritePayload("client")
    <3> DEFINE u == IF WriteSize("client") THEN Flushed("client").size ELSE Flushed("client").payload
               F == end["server"].frame  W == wire["server"]
    <3>1. wire'["server"] = (IF closed THEN W ELSE W \o u) /\ end'["server"] = end["server"]
      BY <1>1, <2>4, ClientSends
    <3>2. u \in Seq(Units) /\ NoMeta(u)
      <4>1. EndsWithBody(end["client"].writeBuffer)
        <5>1. pc["client"] \in {"flush", "payload"}
          BY <1>1, <2>4, ClientSends
        <5> QED BY <1>1, <5>1 DEF Flushing, FlushOf
      <4> QED BY <1>1, <1>4, <4>1, PlainFlush
    <3> HIDE DEF u, F, W
    <3>3. /\ Stream("server") = F \o W
          /\ Stream("server")' = Stream("server") \/ Stream("server")' = F \o (W \o u)
      BY <3>1 DEF Stream, F, W
    <3>4. F \o (W \o u) = Stream("server") \o u
      <4>1. F \in Seq(Units) /\ W \in Seq(Units)
        BY <2>1 DEF F, W
      <4>2. F \o (W \o u) = (F \o W) \o u
        BY <3>2, <4>1, JoinedThrice
      <4> QED BY <3>3, <4>2
    <3>5. NoMeta(Stream("server") \o u)
      BY <2>1, <2>2, <3>2, NoMetaJoined
    <3> QED BY <1>2, <1>4, <2>1, <3>1, <3>3, <3>4, <3>5 DEF Plain
  <2>5. CASE ~(ServeBegin \/ ServeBody \/ WriteSize("client") \/ WritePayload("client"))
    <3>1. /\ wire'["server"] = wire["server"] /\ end'["server"].frame = end["server"].frame
          /\ end'["server"].readHeaders = end["server"].readHeaders
      BY <1>1, <2>5, ServerSide
    <3> QED BY <1>2, <1>4, <2>1, <3>1 DEF Plain, Stream
  <2> QED BY <2>3, <2>4, <2>5
<1> QED BY <1>3, <1>4

-----------------------------------------------------------------------------
(* Messages that are not aborted *)

(* A buffer has the message that is being written alone.                   *)
LEMMA BuffersKept ==
  ASSUME TalkInv, [Next]_vars, aborts = 0, aborts' = 0, \A e \in Ends : end[e].writeBuffer = Buffered(e)
  PROVE  \A e \in Ends : end'[e].writeBuffer = Buffered(e)'
<1> DEFINE OK(e) == end'[e].writeBuffer = Buffered(e)'
<1> SUFFICES \A e \in Ends : OK(e)
  OBVIOUS
<1>1. /\ TypeInv /\ Ends = {"client", "server"}
      /\ end \in [Ends -> EndType]
      /\ pc \in [Ends -> {"idle", "args", "reply", "flush", "payload", "begin", "body", "closed"}]
      /\ call \in Nat
      /\ \A e \in Ends : end[e].writeBuffer \in Seq(Parts)
      /\ pc["server"] # "args"
  BY MaxCallsAssumption DEF TalkInv, TypeInv, Ends, EndType
<1>2. \A e \in Ends : Peer(e) \in Ends /\ Peer(e) # e /\ Ends = {e, Peer(e)}
  BY <1>1 DEF Peer
<1>3. ASSUME NEW e \in Ends, end'[e] = end[e], pc'[e] = pc[e], UNCHANGED call,
             e = "client" \/ request' = request
      PROVE  OK(e)
  BY <1>3 DEF Buffered, Message
<1>4. ASSUME NEW e \in Ends, Receiving(e) PROVE \A p \in Ends : OK(p)
  <2>5. PICK v : Has(e, v)
    BY <1>4, Received
  <2>1. /\ pc[e] \in {"begin", "body"}
        /\ pc'[e] \in {"body", "idle", "reply", "closed"} /\ pc'[Peer(e)] = pc[Peer(e)]
        /\ end' = [end EXCEPT ![e] = v.t] /\ v.t.writeBuffer = end[e].writeBuffer
        /\ call' = call /\ (e = "client" => request' = request)
    BY <2>5 DEF Has
  <2>2. end'[e].writeBuffer = end[e].writeBuffer /\ end'[Peer(e)] = end[Peer(e)]
    BY <1>1, <1>2, <2>1
  <2>3. OK(e)
    BY <2>1, <2>2 DEF Buffered
  <2>4. OK(Peer(e))
    <3>1. Peer(e) = "client" \/ request' = request
      BY <2>1, <1>1 DEF Peer
    <3> QED BY <1>2, <1>3, <2>1, <2>2, <3>1
  <2> HIDE DEF OK
  <2> QED BY <1>2, <2>3, <2>4
<1>5. ASSUME NEW e \in Ends, WriteSize(e) PROVE \A p \in Ends : OK(p)
  <2>1. /\ pc[e] = "flush" /\ pc' = [pc EXCEPT ![e] = "payload"] /\ UNCHANGED <<end, call, request>>
    BY <1>5 DEF WriteSize, Goto
  <2>2. pc'[e] = "payload" /\ pc'[Peer(e)] = pc[Peer(e)]
    BY <1>1, <1>2, <2>1
  <2>3. OK(e)
    BY <2>1, <2>2 DEF Buffered, Message
  <2>4. OK(Peer(e))
    BY <1>2, <1>3, <2>1, <2>2
  <2> HIDE DEF OK
  <2> QED BY <1>2, <2>3, <2>4
<1>6. ASSUME NEW e \in Ends, WritePayload(e) PROVE \A p \in Ends : OK(p)
  <2> DEFINE t == Flushed(e).t
  <2>1. /\ pc' = [pc EXCEPT ![e] = "begin"] \/ pc' = [pc EXCEPT ![e] = "idle"]
        /\ end' = [end EXCEPT ![e] = t] /\ UNCHANGED <<call, request>>
    BY <1>6 DEF WritePayload, Goto
  <2>2. t.writeBuffer = <<>>
    BY <1>1, FlushLeaves
  <2> HIDE DEF t
  <2>3. pc'[e] \in {"begin", "idle"} /\ pc'[Peer(e)] = pc[Peer(e)]
        /\ end'[e].writeBuffer = <<>> /\ end'[Peer(e)] = end[Peer(e)]
    BY <1>1, <1>2, <2>1, <2>2
  <2>4. OK(e)
    BY <2>3 DEF Buffered
  <2>5. OK(Peer(e))
    BY <1>2, <1>3, <2>1, <2>3
  <2> HIDE DEF OK
  <2> QED BY <1>2, <2>4, <2>5
<1>7. ASSUME NEW keys \in SUBSET Keys, Send(keys) PROVE \A p \in Ends : OK(p)
  <2> DEFINE t == end["client"]  b == Begin(call + 1, t.protocol)
             u == [t EXCEPT !.writeHeaders = keys, !.writeBuffer = Append(t.writeBuffer, b)]
  <2>1. /\ pc["client"] = "idle" /\ pc' = [pc EXCEPT !["client"] = "args"] /\ call' = call + 1
        /\ end' = [end EXCEPT !["client"] = u] /\ request' = request
    BY <1>7 DEF Send, Goto
  <2>2. t.writeBuffer = <<>>
    BY <1>1, <2>1 DEF Buffered
  <2>3. Append(t.writeBuffer, b) = <<b>>
    BY <2>2
  <2> HIDE DEF b
  <2>4. u.writeBuffer = <<b>> /\ u.protocol = t.protocol
    BY <1>1, <2>3 DEF EndType
  <2> HIDE DEF u
  <2>5. /\ pc'["client"] = "args" /\ end'["client"] = u
        /\ pc'["server"] = pc["server"] /\ end'["server"] = end["server"]
    BY <1>1, <2>1
  <2>6. OK("client")
    BY <2>1, <2>4, <2>5 DEF Buffered, b
  <2>7. OK("server")
    BY <2>1, <2>5, <1>1 DEF Buffered, Message
  <2> HIDE DEF OK
  <2> QED BY <1>1, <2>6, <2>7
<1>8. CASE WriteArgs
  <2> DEFINE t == end["client"]  u == [t EXCEPT !.writeBuffer = t.writeBuffer \o <<Body(call)>>]
  <2>1. /\ pc["client"] = "args" /\ pc' = [pc EXCEPT !["client"] = "flush"]
        /\ end' = [end EXCEPT !["client"] = u] /\ UNCHANGED <<call, request>>
    BY <1>8 DEF WriteArgs, Write, Goto
  <2>2. t.writeBuffer = <<Begin(call, t.protocol)>>
    BY <1>1, <2>1 DEF Buffered
  <2>3. t.writeBuffer \o <<Body(call)>> = <<Begin(call, t.protocol), Body(call)>>
    BY <2>2, TwoUnits
  <2>4. u.writeBuffer = <<Begin(call, t.protocol), Body(call)>> /\ u.protocol = t.protocol
    BY <1>1, <2>3 DEF EndType
  <2> HIDE DEF u
  <2>5. /\ pc'["client"] = "flush" /\ end'["client"] = u
        /\ pc'["server"] = pc["server"] /\ end'["server"] = end["server"]
    BY <1>1, <2>1
  <2>6. OK("client")
    BY <2>1, <2>4, <2>5 DEF Buffered, Message
  <2>7. OK("server")
    BY <2>1, <2>5, <1>1, <1>3
  <2> HIDE DEF OK
  <2> QED BY <1>1, <2>6, <2>7
<1>9. ASSUME NEW keys \in SUBSET Keys, Reply(keys) PROVE \A p \in Ends : OK(p)
  <2> DEFINE t == end["server"]  c == request.call
             u == [t EXCEPT !.writeHeaders = t.writeHeaders \union keys,
                            !.writeBuffer = t.writeBuffer \o <<Begin(c, t.protocol), Body(c)>>]
  <2>1. /\ pc["server"] = "reply" /\ pc' = [pc EXCEPT !["server"] = "flush"]
        /\ end' = [end EXCEPT !["server"] = u] /\ UNCHANGED <<call, request>>
    BY <1>9 DEF Reply, Goto
  <2>2. t.writeBuffer = <<>>
    BY <1>1, <2>1 DEF Buffered
  <2>3. t.writeBuffer \o <<Begin(c, t.protocol), Body(c)>> = <<Begin(c, t.protocol), Body(c)>>
    BY <2>2
  <2>4. u.writeBuffer = <<Begin(c, t.protocol), Body(c)>> /\ u.protocol = t.protocol
    BY <1>1, <2>3 DEF EndType
  <2> HIDE DEF u
  <2>5. /\ pc'["server"] = "flush" /\ end'["server"] = u
        /\ pc'["client"] = pc["client"] /\ end'["client"] = end["client"]
    BY <1>1, <2>1
  <2>6. OK("server")
    BY <2>1, <2>4, <2>5 DEF Buffered, Message
  <2>7. OK("client")
    BY <2>1, <2>5, <1>1, <1>3
  <2> HIDE DEF OK
  <2> QED BY <1>1, <2>6, <2>7
<1>10. CASE AbortArgs \/ AbortReply
  BY <1>10 DEF AbortArgs, AbortReply
<1>11. CASE TimeOut
  <2>1. /\ pc["client"] \in {"begin", "body"} /\ pc' = [pc EXCEPT !["client"] = "idle"]
        /\ \/ end' = [end EXCEPT !["client"].frame = end["client"].frame \o Tail(wire["client"])]
           \/ end' = end
        /\ UNCHANGED <<call, request>>
    BY <1>11 DEF TimeOut, Goto
  <2>2. /\ end'["client"].writeBuffer = end["client"].writeBuffer /\ pc'["client"] = "idle"
        /\ end'["server"] = end["server"] /\ pc'["server"] = pc["server"]
    BY <1>1, <2>1 DEF EndType
  <2>3. OK("client")
    BY <1>1, <2>1, <2>2 DEF Buffered
  <2>4. OK("server")
    BY <1>1, <1>3, <2>1, <2>2
  <2> HIDE DEF OK
  <2> QED BY <1>1, <2>3, <2>4
<1>12. CASE CloseClient
  <2>1. /\ pc["client"] \in {"idle", "begin", "body"} /\ pc' = [pc EXCEPT !["client"] = "idle"]
        /\ UNCHANGED <<end, call, request>>
    BY <1>12 DEF CloseClient, Goto
  <2>2. pc'["client"] = "idle" /\ pc'["server"] = pc["server"]
    BY <1>1, <2>1
  <2> QED BY <1>1, <2>1, <2>2 DEF Buffered, Message
<1>13. CASE ServeEnd
  <2>1. /\ pc["server"] \in {"begin", "body"} /\ pc' = [pc EXCEPT !["server"] = "closed"]
        /\ UNCHANGED <<end, call, request>>
    BY <1>13 DEF ServeEnd, CloseServer, Goto
  <2>2. pc'["server"] = "closed" /\ pc'["client"] = pc["client"]
    BY <1>1, <2>1
  <2> QED BY <1>1, <2>1, <2>2 DEF Buffered, Message
<1>14. CASE UNCHANGED vars
  BY <1>14 DEF vars, Buffered, Message
<1> HIDE DEF OK
<1> QED BY <1>1, <1>4, <1>5, <1>6, <1>7, <1>8, <1>9, <1>10, <1>11, <1>12, <1>13, <1>14
        DEF Next, ClientStep, ServerStep, Receiving

(* Every message on its way to the server has its body, and the body that  *)
(* the server waits for comes next.                                        *)
LEMMA RequestsKept ==
  ASSUME TalkInv, Requests, [Next]_vars, aborts = 0, aborts' = 0
  PROVE  Requests'
<1>1. /\ TypeInv /\ Framing /\ Flushing /\ Ends = {"client", "server"}
      /\ end \in [Ends -> EndType] /\ wire \in [Ends -> Seq(Units)]
      /\ end["server"].frame \in Seq(Units) /\ wire["server"] \in Seq(Units)
  BY DEF TalkInv, Ends, TypeInv, EndType
<1>2. Stream("server") \in Seq(Units)
  BY <1>1, Joined DEF Stream
<1>3. /\ \A e \in Ends : end[e].writeBuffer = Buffered(e)
      /\ Paired(Stream("server"), 0)
      /\ pc["server"] = "body" => /\ ~Needs(Transport("server"), end["server"])
                                  /\ Stream("server") # <<>>
                                  /\ Stream("server")[1] = Body(request.call)
  BY DEF Requests
<1>4. \A e \in Ends : end'[e].writeBuffer = Buffered(e)'
  BY <1>3, BuffersKept
<1>5. Transport("server")' = Transport("server")
  BY <1>1, SameEnds
<1>6. CASE WriteSize("client") \/ WritePayload("client")
  <2> DEFINE u == IF WriteSize("client") THEN Flushed("client").size ELSE Flushed("client").payload
             F == end["server"].frame  W == wire["server"]  S == Stream("server")
  <2>1. /\ wire'["server"] = (IF closed THEN W ELSE W \o u) /\ end'["server"] = end["server"]
        /\ pc'["server"] = pc["server"] /\ request' = request /\ pc["client"] \in {"flush", "payload"}
    BY <1>1, <1>6, ClientSends
  <2> DEFINE B == end["client"].writeBuffer  b == Begin(call, end["client"].protocol)  d == Body(call)
  <2>2. EndsWithBody(B)
    BY <1>1, <2>1 DEF Flushing, FlushOf
  <2>3. B = <<b, d>>
    BY <1>1, <1>3, <2>1 DEF Buffered, Message
  <2>4. Paired(B, 0)
    <3>1. b.unit = "begin" /\ b.call = call /\ d = Body(b.call) /\ d.unit = "body"
      BY DEF Begin, Body
    <3> HIDE DEF b, d, B
    <3>2. Len(B) = 2 /\ B[1] = b /\ B[2] = d
      BY <2>3
    <3> QED BY <3>1, <3>2 DEF Paired
  <2>5. u \in Seq(Units) /\ Paired(u, 0)
    <3>1. /\ Flushed("client").payload \in Seq(Units)
          /\ Paired(B, 0) => Paired(Flushed("client").payload, 0)
      <4> HIDE DEF B
      <4>1. \A c \in Int : Paired(B, c) => Paired(Flushed("client").payload, c)
        BY <1>1, <2>2, FlushedOK DEF B
      <4>2. Flushed("client").payload \in Seq(Units)
        BY <1>1, <2>2, FlushedOK DEF B
      <4> QED BY <4>1, <4>2
    <3>2. Flushed("client").size \in Seq(Units) /\ Paired(Flushed("client").size, 0)
      <4> DEFINE z == Flushed("client").size
      <4>1. z \in Seq(Units) /\ \A i \in 1..Len(z) : z[i].unit = "size"
        BY <1>1, <2>2, FlushedSize
      <4> HIDE DEF z
      <4>2. Paired(z, 0)
        BY <4>1 DEF Paired
      <4> QED BY <4>1, <4>2 DEF z
    <3> QED BY <2>4, <3>1, <3>2
  <2> HIDE DEF u, F, W
  <2>6. /\ S = F \o W
        /\ Stream("server")' = S \/ Stream("server")' = F \o (W \o u)
    BY <2>1 DEF Stream, F, W
  <2>7. F \in Seq(Units) /\ W \in Seq(Units) /\ S \in Seq(Units)
    BY <1>1, <1>2 DEF F, W
  <2>8. F \o (W \o u) = S \o u
    <3>1. F \o (W \o u) = (F \o W) \o u
      BY <2>5, <2>7, JoinedThrice
    <3> QED BY <2>6, <3>1
  <2>9. Paired(S, 0)
    BY <1>3
  <2> HIDE DEF S
  <2>10. Paired(S \o u, 0)
    BY <2>5, <2>7, <2>9, PairedJoined
  <2>11. S # <<>> => S \o u # <<>> /\ (S \o u)[1] = S[1]
    BY <2>5, <2>7, TailJoined
  <2>12. Paired(Stream("server")', 0)
    BY <2>6, <2>8, <2>9, <2>10
  <2>13. S # <<>> => Stream("server")' # <<>> /\ Stream("server")'[1] = S[1]
    BY <2>6, <2>8, <2>11
  <2>14. pc'["server"] = "body" => /\ ~Needs(Transport("server"), end'["server"])
                                   /\ Stream("server")' # <<>>
                                   /\ Stream("server")'[1] = Body(request'.call)
    BY <1>3, <2>1, <2>13 DEF S
  <2> QED BY <1>4, <1>5, <2>12, <2>14 DEF Requests
<1>7. CASE ServeBegin \/ ServeBody
  <2>1. PICK v : Has("server", v)
    BY <1>1, <1>7, Received DEF Receiving
  <2>2. Paired(Stream("server")', 0)
    <3>1. Stream("server")' \in Seq(Units) /\ Rest(Stream("server")', Stream("server"))
      BY <2>1 DEF Has
    <3> QED BY <1>2, <1>3, <3>1, RestKeeps
  <2>3. ASSUME pc'["server"] = "body"
        PROVE  /\ ~Needs(Transport("server"), end'["server"])
               /\ Stream("server")' # <<>>
               /\ Stream("server")'[1] = Body(request'.call)
    <3> DEFINE f == ReadFrame("server")  r == Read(f)  s == f.t.frame \o f.units  Q == Tail(s)
    <3>1. ServeBegin
      BY <1>7, <2>3, ServedNext
    <3>2. /\ Receives("server", r) /\ request' = [call |-> r.got.call, headers |-> f.t.readHeaders]
          /\ s \in Seq(Units) /\ s # <<>> /\ Rest(s, Stream("server"))
          /\ r.got = s[1] /\ s[1].unit = "begin" /\ r.t.frame \o r.units = Q
          /\ ~Needs(Transport("server"), r.t) /\ s[1].call \in Nat
      BY <2>3, <3>1, BeginOfRequest
    <3>3. /\ Q \in Seq(Units) /\ Len(Q) = Len(s) - 1 /\ Len(s) \in Nat /\ Len(s) >= 1
          /\ \A i \in 1..(Len(s) - 1) : Q[i] = s[i + 1]
      BY <3>2, RestTail
    <3> HIDE DEF f, r, s, Q
    <3>4. /\ end'["server"] = r.t /\ wire'["server"] = r.units
      BY <1>1, <3>2 DEF Receives
    <3>5. Stream("server")' = Q
      BY <3>2, <3>4 DEF Stream
    <3>6. Paired(s, 0)
      BY <1>2, <1>3, <3>2, RestKeeps
    <3>7. 1 < Len(s) /\ s[2] = Body(s[1].call)
      <4>1. 1 \in 1..Len(s) /\ ~(s[1].call < 0)
        BY <3>2, <3>3
      <4>2. 1 < Len(s) /\ s[1 + 1] = Body(s[1].call)
        BY <3>2, <3>6, <4>1 DEF Paired
      <4> QED BY <4>2
    <3>8. Q[1] = Body(s[1].call) /\ Q # <<>>
      <4>1. 1 \in 1..(Len(s) - 1) /\ Len(Q) # 0
        BY <3>3, <3>7
      <4> QED BY <3>3, <3>7, <4>1, EmptyByLength
    <3>9. request'.call = s[1].call
      BY <3>2
    <3> QED BY <3>2, <3>4, <3>5, <3>8, <3>9
  <2> QED BY <1>4, <1>5, <2>2, <2>3 DEF Requests
<1>8. CASE ~(ServeBegin \/ ServeBody \/ WriteSize("client") \/ WritePayload("client"))
  <2>1. /\ wire'["server"] = wire["server"] /\ end'["server"].frame = end["server"].frame
        /\ pc["server"] = "body" => end'["server"] = end["server"]
    BY <1>1, <1>8, ServerSide
  <2>2. request' = request /\ (pc'["server"] = "body" => pc["server"] = "body")
    BY <1>1, <1>8, NothingServed
  <2>3. Stream("server")' = Stream("server")
    BY <2>1 DEF Stream
  <2> QED BY <1>3, <1>4, <1>5, <2>1, <2>2, <2>3 DEF Requests
<1> QED BY <1>6, <1>7, <1>8

-----------------------------------------------------------------------------
(* Messages of two ends that speak THeader *)

(* A frame of a chain, if a timeout has not dropped its size.              *)
ChainFrameOK(t, W, f) ==
  /\ W[1].unit = "size" /\ Len(W) >= 4
  /\ W[2].unit = "meta" /\ W[3].unit = "begin" /\ W[4].unit = "body"
  /\ f.ok = TRUE /\ f.units = SubSeq(W, 5, Len(W))
  /\ f.t.type = "headers" /\ f.t.reader = TRUE /\ Len(f.t.frame) = 2 /\ f.t.frame[1] = W[3]
  /\ f.t.readHeaders = W[2].headers /\ f.t.writeHeaders = t.writeHeaders

(* What is whole at the head of a chain is a frame of it or an error.      *)
LEMMA ChainFrame ==
  ASSUME NEW t \in EndType, NEW W \in Seq(Units), FramingOf("header", t), Sized(W),
         NeedReadFrame(t), Whole(W), Chain(W)
  PROVE  \/ W[1].unit = "meta" /\ HeaderFrame(t, W) = Failed(t, W)
         \/ ChainFrameOK(t, W, HeaderFrame(t, W))
<1>1. W # <<>> /\ Head(W) = W[1] /\ Len(W) \in Nat /\ 1 \in 1..Len(W)
  BY RestTail DEF Whole
<1>2. CASE W[1].unit = "meta"
  BY <1>1, <1>2 DEF HeaderFrame
<1>3. CASE W[1].unit = "size"
  <2> DEFINE n == W[1].n  F == SubSeq(W, 2, n + 1)  R == SubSeq(W, n + 2, Len(W))  f == HeaderFrame(t, W)
             T == Tail(F)
  <2>1. n = 3
    BY <1>1, <1>3 DEF Chain
  <2>2. /\ Len(W) > n /\ F \in Seq(Units) /\ Len(F) = n /\ F[1] = W[2] /\ F[1] \in Units
        /\ F[1].unit = "meta" =>
             /\ f.t = [[t EXCEPT !.frame = F, !.reader = TRUE]
                        EXCEPT !.type = "headers", !.protocol = F[1].protocol,
                               !.readHeaders = F[1].headers, !.frame = T]
             /\ f.units = R /\ f.ok = TRUE
    BY <1>3, FrameOfSize
  <2>3. Len(W) >= 4 /\ 2 \in 1..Len(W) /\ 3 \in 1..Len(W) /\ 1 < Len(W)
    BY <1>1, <2>1, <2>2
  <2>4. W[2].unit = "meta" /\ W[3].unit = "begin" /\ W[4].unit = "body"
    <3>1. W[1 + 1].unit = "meta"
      BY <1>1, <1>3, <2>3 DEF Chain
    <3>2. W[2 + 1].unit = "begin"
      BY <2>3, <3>1 DEF Chain
    <3>3. W[3 + 1] = Body(W[3].call)
      BY <2>3, <3>2 DEF Chain
    <3> QED BY <3>1, <3>2, <3>3 DEF Body
  <2>5. R = SubSeq(W, 5, Len(W))
    BY <2>1
  <2>6. F = SubSeq(W, 2, 4)
    BY <2>1
  <2>7. T \in Seq(Units) /\ Len(T) = 2 /\ T[1] = W[3]
    <3>1. Len(F) = 3 /\ F \in Seq(Units)
      BY <2>1, <2>2
    <3>2. F[2] = W[3]
      <4>1. SubSeq(W, 2, 4)[2] = W[3]
        BY <2>3
      <4> HIDE DEF F
      <4> QED BY <2>6, <4>1
    <3> HIDE DEF F
    <3>3. F # <<>>
      BY <3>1, EmptyByLength
    <3>4. /\ T \in Seq(Units) /\ Len(T) = Len(F) - 1
          /\ \A i \in 1..(Len(F) - 1) : T[i] = F[i + 1]
      BY <3>1, <3>3, RestTail
    <3> HIDE DEF T
    <3>5. 1 \in 1..(Len(F) - 1) /\ 1 + 1 = 2
      BY <3>1
    <3>6. T[1] = F[2]
      BY <3>4, <3>5
    <3> QED BY <3>1, <3>2, <3>4, <3>6
  <2> HIDE DEF F, R, f, T, n
  <2> DEFINE p == F[1].protocol  h == F[1].headers
  <2>8. p \in Languages /\ h \in SUBSET Keys /\ h = W[2].headers
    BY <2>2, <2>4 DEF Units, Parts
  <2>9. /\ f.t = [[t EXCEPT !.frame = F, !.reader = TRUE]
                   EXCEPT !.type = "headers", !.protocol = p, !.readHeaders = h, !.frame = T]
        /\ f.units = R /\ f.ok = TRUE
    BY <2>2, <2>4
  <2> HIDE DEF p, h
  <2>10. /\ f.t.type = "headers" /\ f.t.reader = TRUE /\ f.t.frame = T /\ f.t.readHeaders = h
         /\ f.t.writeHeaders = t.writeHeaders
    BY <2>9 DEF EndType
  <2>11. ChainFrameOK(t, W, f)
    BY <1>3, <2>3, <2>4, <2>5, <2>7, <2>8, <2>9, <2>10 DEF ChainFrameOK
  <2> QED BY <2>11 DEF f
<1> QED BY <1>1, <1>2, <1>3 DEF Chain

(* What a frame leaves of a chain.                                         *)
LEMMA ChainRest ==
  ASSUME NEW W \in Seq(Units), Chain(W), Len(W) >= 4, W[4].unit = "body"
  PROVE  LET R == SubSeq(W, 5, Len(W)) IN
         /\ Chain(R) /\ StartsWithSize(R)
         /\ HeadersOf(W) => HeadersOf(R)
         /\ EndsWithSize(W) => EndsWithSize(R)
<1> DEFINE R == SubSeq(W, 5, Len(W))  k == 4
<1>1. Len(W) \in Nat /\ 4 \in 0..Len(W)
  OBVIOUS
<1>2. /\ R \in Seq(Units) /\ Len(R) = Len(W) - 4
      /\ \A i \in 1..(Len(W) - 4) : R[i] = W[i + 4]
  <2>1. /\ SubSeq(W, 4 + 1, Len(W)) \in Seq(Units) /\ Len(SubSeq(W, 4 + 1, Len(W))) = Len(W) - 4
        /\ \A i \in 1..(Len(W) - 4) : SubSeq(W, 4 + 1, Len(W))[i] = W[i + 4]
    BY <1>1, RestOf
  <2>2. 4 + 1 = 5
    OBVIOUS
  <2> QED BY <2>1, <2>2
<1> HIDE DEF R
<1>3. \A i \in 1..Len(R) : R[i] = W[i + 4] /\ i + 4 \in 1..Len(W) /\ (i < Len(R) <=> i + 4 < Len(W))
                           /\ (i < Len(R) => R[i + 1] = W[(i + 4) + 1])
  <2> TAKE i \in 1..Len(R)
  <2>1. R[i] = W[i + 4] /\ i + 4 \in 1..Len(W) /\ (i < Len(R) <=> i + 4 < Len(W))
    BY <1>1, <1>2
  <2>2. ASSUME i < Len(R) PROVE R[i + 1] = W[(i + 4) + 1]
    <3>1. i + 1 \in 1..(Len(W) - 4) /\ (i + 1) + 4 = (i + 4) + 1
      BY <1>1, <1>2, <2>2
    <3>2. R[i + 1] = W[(i + 1) + 4]
      BY <1>2, <3>1
    <3> QED BY <3>1, <3>2
  <2> QED BY <2>1, <2>2
<1>4. R # <<>> => 1 \in 1..Len(R) /\ 4 < Len(W) /\ R[1] = W[4 + 1]
  <2> SUFFICES ASSUME R # <<>> PROVE 1 \in 1..Len(R) /\ 4 < Len(W) /\ R[1] = W[4 + 1]
    OBVIOUS
  <2>1. Len(R) # 0
    BY <1>2, EmptyByLength
  <2>2. 1 \in 1..(Len(W) - 4)
    BY <1>1, <1>2, <2>1
  <2>3. R[1] = W[1 + 4]
    BY <1>2, <2>2
  <2> QED BY <1>1, <1>2, <2>2, <2>3
<1>5. StartsWithSize(R)
  <2> SUFFICES ASSUME R # <<>> PROVE R[1].unit = "size"
    BY DEF StartsWithSize
  <2>1. 4 \in 1..Len(W) /\ 4 < Len(W) /\ R[1] = W[4 + 1]
    BY <1>1, <1>4
  <2> QED BY <2>1 DEF Chain
<1>6. Chain(R)
  <2>1. R # <<>> => R[1].unit \in {"size", "meta"}
    BY <1>5 DEF StartsWithSize
  <2>2. ASSUME NEW i \in 1..Len(R)
        PROVE  /\ R[i].unit = "size" => R[i].n = 3 /\ (i < Len(R) => R[i + 1].unit = "meta")
               /\ R[i].unit = "meta" => i < Len(R) /\ R[i + 1].unit = "begin"
               /\ R[i].unit = "begin" => i < Len(R) /\ R[i + 1] = Body(R[i].call)
               /\ R[i].unit = "body" /\ i < Len(R) => R[i + 1].unit = "size"
    <3> DEFINE j == i + 4
    <3>1. /\ R[i] = W[j] /\ j \in 1..Len(W) /\ (i < Len(R) <=> j < Len(W))
          /\ (i < Len(R) => R[i + 1] = W[j + 1])
      BY <1>3
    <3> HIDE DEF j
    <3>2. /\ W[j].unit = "size" => W[j].n = 3 /\ (j < Len(W) => W[j + 1].unit = "meta")
          /\ W[j].unit = "meta" => j < Len(W) /\ W[j + 1].unit = "begin"
          /\ W[j].unit = "begin" => j < Len(W) /\ W[j + 1] = Body(W[j].call)
          /\ W[j].unit = "body" /\ j < Len(W) => W[j + 1].unit = "size"
      BY <3>1 DEF Chain
    <3> QED BY <3>1, <3>2
  <2> QED BY <2>1, <2>2 DEF Chain
<1>7. ASSUME HeadersOf(W) PROVE HeadersOf(R)
  <2> SUFFICES ASSUME NEW i \in 1..Len(R), R[i].unit = "meta"
               PROVE  R[i].headers = asked[R[i + 1].call]
    BY DEF HeadersOf
  <2> DEFINE j == i + 4
  <2>1. /\ R[i] = W[j] /\ j \in 1..Len(W) /\ (i < Len(R) => R[i + 1] = W[j + 1])
    BY <1>3
  <2>2. i < Len(R)
    BY <1>6 DEF Chain
  <2> HIDE DEF j
  <2> QED BY <1>7, <2>1, <2>2 DEF HeadersOf
<1>8. ASSUME EndsWithSize(W) PROVE EndsWithSize(R)
  <2>1. W[Len(W)].unit = "size"
    BY <1>8 DEF EndsWithSize
  <2>2. Len(W) # 4
    BY <2>1
  <2>3. Len(R) \in 1..(Len(W) - 4) /\ Len(R) + 4 = Len(W) /\ Len(R) # 0
    BY <1>1, <1>2, <2>2
  <2>4. R[Len(R)] = W[Len(W)] /\ R # <<>>
    BY <1>2, <2>3, EmptyByLength
  <2> QED BY <2>1, <2>4 DEF EndsWithSize
<1> QED BY <1>5, <1>6, <1>7, <1>8 DEF R

(* What an end that reads leaves of a chain.                               *)
ChainLeft(e, v) ==
  /\ v.t.type \in {"unknown", "headers"} /\ v.t.writeHeaders = end[e].writeHeaders
  /\ Chain(v.units)
  /\ StartsWithSize(wire[e]) => StartsWithSize(v.units)
  /\ HeadersOf(wire[e]) => HeadersOf(v.units)
  /\ EndsWithSize(wire[e]) => EndsWithSize(v.units)
  /\ wire[e] = <<>> => v.units = <<>>

(* What is left is a chain again.                                          *)
LEMMA ChainRead ==
  ASSUME TalkInv, NEW e \in Ends, Transport(e) = "header", end[e].type \in {"unknown", "headers"},
         Chain(wire[e]), NEW v, Has(e, v)
  PROVE  ChainLeft(e, v)
<1> DEFINE t == end[e]  W == wire[e]  f == ReadFrame(e)
<1>1. TypeInv /\ Framing /\ Flushing
  BY DEF TalkInv
<1>2. /\ t \in EndType /\ W \in Seq(Units) /\ t.frame \in Seq(Units) /\ Sized(W)
      /\ FramingOf("header", t)
  <2>1. t \in EndType /\ W \in Seq(Units) /\ t.frame \in Seq(Units)
    BY <1>1 DEF TypeInv, EndType
  <2>2. Peer(Peer(e)) = e /\ Peer(e) \in Ends
    BY DEF Peer, Ends
  <2>3. Sized(W)
    BY <1>1, <2>2 DEF Flushing, FlushOf
  <2>4. FramingOf("header", t)
    BY <1>1 DEF Framing
  <2> QED BY <2>1, <2>3, <2>4
<1>3. Ready(e) /\ (v = f \/ (f.ok = TRUE /\ v = Read(f)))
  BY DEF Has
<1>4. CASE NeedsFrame(e)
  <2>1. f = HeaderFrame(t, W) /\ NeedReadFrame(t) /\ Whole(W)
    BY <1>3, <1>4 DEF ReadFrame, NeedsFrame, Ready
  <2>2. W # <<>>
    BY <2>1 DEF Whole
  <2>3. CASE W[1].unit = "meta" /\ f = Failed(t, W)
    <3>1. f.ok = FALSE /\ f.t = t /\ f.units = W
      BY <2>3 DEF Failed
    <3> HIDE DEF f
    <3>2. v = f
      BY <1>3, <3>1
    <3> QED BY <3>1, <3>2 DEF ChainLeft
  <2>4. CASE ChainFrameOK(t, W, f)
    <3> DEFINE R == SubSeq(W, 5, Len(W))
    <3>1. /\ Len(W) >= 4 /\ W[4].unit = "body"
          /\ f.units = R /\ f.t.type = "headers" /\ Len(f.t.frame) = 2
          /\ f.t.writeHeaders = t.writeHeaders
      <4> HIDE DEF f, t, W
      <4> QED BY <2>4 DEF ChainFrameOK
    <3>2. /\ Chain(R) /\ StartsWithSize(R)
          /\ HeadersOf(W) => HeadersOf(R)
          /\ EndsWithSize(W) => EndsWithSize(R)
      BY <1>2, <3>1, ChainRest
    <3>3. f.t \in EndType
      BY <1>1, <1>3, FrameRead DEF ReadOK
    <3> HIDE DEF f, R
    <3>4. f.t.frame # <<>>
      <4> DEFINE F == f.t.frame
      <4>1. F \in Seq(Units)
        BY <3>3 DEF EndType
      <4>2. Len(F) = 2
        BY <3>1
      <4> HIDE DEF F
      <4>3. F # <<>>
        <5>1. Len(F) # 0
          BY <4>2
        <5>2. F = <<>> <=> Len(F) = 0
          BY <4>1, EmptyByLength, Zenon
        <5> QED BY <5>1, <5>2
      <4> QED BY <4>3 DEF F
    <3>5. /\ Read(f).units = f.units /\ Read(f).t.type = f.t.type
          /\ Read(f).t.writeHeaders = f.t.writeHeaders
      BY <3>3, <3>4, ReadLeavesHeaders DEF Read
    <3>6. v.units = R /\ v.t.type = "headers" /\ v.t.writeHeaders = t.writeHeaders
      BY <1>3, <3>1, <3>5
    <3> QED BY <2>2, <3>2, <3>6 DEF ChainLeft
  <2> QED BY <1>2, <2>1, <2>3, <2>4, ChainFrame
<1>5. CASE ~NeedsFrame(e)
  <2>1. f = [t |-> t, units |-> W, ok |-> TRUE]
    BY <1>5 DEF ReadFrame
  <2>2. f.t = t /\ f.units = W
    BY <2>1
  <2>3. t.frame # <<>>
    BY <1>2, <1>5 DEF NeedsFrame, NeedReadFrame, IsFramed, FramingOf, EndType
  <2> HIDE DEF f
  <2>4. /\ Read(f).units = W /\ Read(f).t.type = t.type
        /\ Read(f).t.writeHeaders = t.writeHeaders
    <3>1. f.t \in EndType /\ f.t.frame # <<>>
      BY <1>2, <2>2, <2>3
    <3>2. Read(f).units = f.units
      BY <3>1 DEF Read
    <3> QED BY <2>2, <3>1, <3>2, ReadLeavesHeaders
  <2>5. v.units = W /\ v.t.type = t.type /\ v.t.writeHeaders = t.writeHeaders
    BY <1>3, <2>2, <2>4
  <2> QED BY <2>5 DEF ChainLeft
<1> QED BY <1>4, <1>5

(* How a chain ends.                                                       *)
LEMMA ChainEnd ==
  ASSUME NEW W \in Seq(Units), Chain(W), W # <<>>
  PROVE  Len(W) \in 1..Len(W) /\ W[Len(W)].unit \in {"size", "body"}
<1>1. Len(W) \in 1..Len(W) /\ W[Len(W)] \in Units
  BY RestTail
<1>2. W[Len(W)].unit \in {"size", "meta", "begin", "body"}
  BY <1>1 DEF Units, Parts
<1> QED BY <1>1, <1>2 DEF Chain

(* A size where the last message has ended.                                *)
LEMMA ChainSized ==
  ASSUME NEW W \in Seq(Units), Chain(W), ~EndsWithSize(W), NEW z \in Units, z.unit = "size", z.n = 3
  PROVE  LET V == W \o <<z>> IN
         /\ Chain(V) /\ EndsWithSize(V)
         /\ StartsWithSize(W) => StartsWithSize(V)
         /\ HeadersOf(W) => HeadersOf(V)
<1> DEFINE V == W \o <<z>>  n == Len(W)
<1>1. /\ V \in Seq(Units) /\ Len(V) = n + 1 /\ n \in Nat /\ V[n + 1] = z
      /\ \A i \in 1..n : V[i] = W[i]
  OBVIOUS
<1> HIDE DEF V
<1>2. W # <<>> => n \in 1..n /\ W[n].unit = "body"
  <2>1. W # <<>> => n \in 1..n /\ W[n].unit \in {"size", "body"}
    BY ChainEnd
  <2> QED BY <2>1 DEF EndsWithSize
<1>3. W = <<>> <=> n = 0
  BY EmptyByLength
<1> HIDE DEF n
<1>4. V[1] = (IF W = <<>> THEN z ELSE W[1]) /\ V # <<>>
  <2>1. V # <<>>
    BY <1>1, EmptyByLength
  <2>2. CASE n = 0
    BY <1>1, <1>3, <2>1, <2>2
  <2>3. CASE n # 0
    <3>1. 1 \in 1..n
      BY <1>1, <2>3
    <3> QED BY <1>1, <1>3, <2>1, <2>3, <3>1
  <2> QED BY <2>2, <2>3
<1>5. ASSUME NEW i \in 1..Len(V)
      PROVE  /\ V[i].unit = "size" => V[i].n = 3 /\ (i < Len(V) => V[i + 1].unit = "meta")
             /\ V[i].unit = "meta" => i < Len(V) /\ V[i + 1].unit = "begin"
             /\ V[i].unit = "begin" => i < Len(V) /\ V[i + 1] = Body(V[i].call)
             /\ V[i].unit = "body" /\ i < Len(V) => V[i + 1].unit = "size"
  <2>1. CASE i = n + 1
    BY <1>1, <2>1
  <2>2. CASE i = n
    <3>1. V[i] = W[n] /\ W[n].unit = "body" /\ V[i + 1] = z
      BY <1>1, <1>2, <1>3, <2>2
    <3> QED BY <3>1
  <2>3. CASE i < n
    <3>1. i \in 1..n /\ i + 1 \in 1..n /\ i < Len(V) /\ V[i] = W[i] /\ V[i + 1] = W[i + 1]
      BY <1>1, <2>3
    <3>2. /\ W[i].unit = "size" => W[i].n = 3 /\ (i < n => W[i + 1].unit = "meta")
          /\ W[i].unit = "meta" => i < n /\ W[i + 1].unit = "begin"
          /\ W[i].unit = "begin" => i < n /\ W[i + 1] = Body(W[i].call)
          /\ W[i].unit = "body" /\ i < n => W[i + 1].unit = "size"
      BY <3>1 DEF Chain, n
    <3> QED BY <2>3, <3>1, <3>2
  <2> QED BY <1>1, <2>1, <2>2, <2>3
<1>6. Chain(V)
  <2>1. V[1].unit \in {"size", "meta"}
    BY <1>4 DEF Chain
  <2> QED BY <1>5, <2>1 DEF Chain
<1>7. EndsWithSize(V)
  BY <1>1, <1>4 DEF EndsWithSize
<1>8. StartsWithSize(W) => StartsWithSize(V)
  BY <1>4 DEF StartsWithSize
<1>9. ASSUME HeadersOf(W) PROVE HeadersOf(V)
  <2> SUFFICES ASSUME NEW i \in 1..Len(V), V[i].unit = "meta"
               PROVE  V[i].headers = asked[V[i + 1].call]
    BY DEF HeadersOf
  <2>1. i < Len(V) /\ V[i + 1].unit = "begin"
    BY <1>6 DEF Chain
  <2>2. i \in 1..n /\ i + 1 \in 1..n
    <3>1. i + 1 # n + 1
      BY <1>1, <2>1
    <3> QED BY <1>1, <2>1, <3>1
  <2>3. V[i] = W[i] /\ V[i + 1] = W[i + 1]
    BY <1>1, <2>2
  <2> QED BY <1>9, <2>2, <2>3 DEF HeadersOf, n
<1> QED BY <1>6, <1>7, <1>8, <1>9 DEF V

(* A message behind its size, or where a timeout has dropped that.         *)
LEMMA ChainMessage ==
  ASSUME NEW W \in Seq(Units), Chain(W), W = <<>> \/ EndsWithSize(W),
         NEW m \in Units, m.unit = "meta", NEW b \in Units, b.unit = "begin", NEW d \in Units, d = Body(b.call)
  PROVE  LET V == W \o <<m, b, d>> IN
         /\ V \in Seq(Units) /\ Chain(V)
         /\ StartsWithSize(W) /\ W # <<>> => StartsWithSize(V)
         /\ HeadersOf(W) /\ m.headers = asked[b.call] => HeadersOf(V)
<1> DEFINE V == W \o <<m, b, d>>  n == Len(W)
<1>1. /\ V \in Seq(Units) /\ Len(V) = n + 3 /\ n \in Nat
      /\ V[n + 1] = m /\ V[n + 2] = b /\ V[n + 3] = d
      /\ \A i \in 1..n : V[i] = W[i]
  OBVIOUS
<1>2. W # <<>> => n \in 1..n /\ W[n].unit = "size" /\ W[n].n = 3
  <2>1. W # <<>> => n \in 1..n
    BY ChainEnd
  <2> QED BY <2>1 DEF EndsWithSize, Chain
<1>3. W = <<>> <=> n = 0
  BY EmptyByLength
<1>4. d.unit = "body"
  BY DEF Body
<1> HIDE DEF V, n
<1>5. V[1] = (IF W = <<>> THEN m ELSE W[1]) /\ V # <<>>
  <2>1. V # <<>>
    BY <1>1, EmptyByLength
  <2>2. CASE n = 0
    BY <1>1, <1>3, <2>1, <2>2
  <2>3. CASE n # 0
    <3>1. 1 \in 1..n
      BY <1>1, <2>3
    <3> QED BY <1>1, <1>3, <2>1, <2>3, <3>1
  <2> QED BY <2>2, <2>3
<1>6. ASSUME NEW i \in 1..Len(V)
      PROVE  /\ V[i].unit = "size" => V[i].n = 3 /\ (i < Len(V) => V[i + 1].unit = "meta")
             /\ V[i].unit = "meta" => i < Len(V) /\ V[i + 1].unit = "begin"
             /\ V[i].unit = "begin" => i < Len(V) /\ V[i + 1] = Body(V[i].call)
             /\ V[i].unit = "body" /\ i < Len(V) => V[i + 1].unit = "size"
  <2>1. CASE i = n + 1
    <3>1. i < Len(V) /\ V[i] = m /\ V[i + 1] = b
      BY <1>1, <2>1
    <3> QED BY <3>1
  <2>2. CASE i = n + 2
    <3>1. i < Len(V) /\ V[i] = b /\ V[i + 1] = d
      BY <1>1, <2>2
    <3> QED BY <3>1
  <2>3. CASE i = n + 3
    <3>1. V[i] = d /\ ~(i < Len(V))
      BY <1>1, <2>3
    <3> QED BY <1>4, <3>1
  <2>4. CASE i = n
    <3>1. V[i] = W[n] /\ W[n].unit = "size" /\ W[n].n = 3 /\ V[i + 1] = m
      BY <1>1, <1>2, <1>3, <2>4
    <3> QED BY <3>1
  <2>5. CASE i < n
    <3>1. i \in 1..n /\ i + 1 \in 1..n /\ i < Len(V) /\ V[i] = W[i] /\ V[i + 1] = W[i + 1]
      BY <1>1, <2>5
    <3>2. /\ W[i].unit = "size" => W[i].n = 3 /\ (i < n => W[i + 1].unit = "meta")
          /\ W[i].unit = "meta" => i < n /\ W[i + 1].unit = "begin"
          /\ W[i].unit = "begin" => i < n /\ W[i + 1] = Body(W[i].call)
          /\ W[i].unit = "body" /\ i < n => W[i + 1].unit = "size"
      BY <3>1 DEF Chain, n
    <3> QED BY <2>5, <3>1, <3>2
  <2> QED BY <1>1, <2>1, <2>2, <2>3, <2>4, <2>5
<1>7. Chain(V)
  <2>1. V[1].unit \in {"size", "meta"}
    BY <1>5 DEF Chain
  <2> QED BY <1>6, <2>1 DEF Chain
<1>8. StartsWithSize(W) /\ W # <<>> => StartsWithSize(V)
  BY <1>5 DEF StartsWithSize
<1>9. ASSUME HeadersOf(W), m.headers = asked[b.call] PROVE HeadersOf(V)
  <2> SUFFICES ASSUME NEW i \in 1..Len(V), V[i].unit = "meta"
               PROVE  V[i].headers = asked[V[i + 1].call]
    BY DEF HeadersOf
  <2>1. i < Len(V) /\ V[i + 1].unit = "begin"
    BY <1>7 DEF Chain
  <2>2. CASE i < n
    <3>1. i \in 1..n /\ V[i] = W[i] /\ V[i + 1] = W[i + 1]
      BY <1>1, <2>2
    <3> QED BY <1>9, <3>1 DEF HeadersOf, n
  <2>3. CASE i = n
    <3>1. V[i].unit = "size"
      BY <1>1, <1>2, <1>3, <2>3
    <3> QED BY <3>1
  <2>4. CASE i = n + 1
    BY <1>1, <1>9, <2>4
  <2>5. CASE i = n + 2 \/ i = n + 3
    BY <1>1, <1>4, <2>5
  <2> QED BY <1>1, <2>2, <2>3, <2>4, <2>5
<1> QED BY <1>1, <1>7, <1>8, <1>9 DEF V

(* Three units, the last two together.                                     *)
LEMMA ThreeUnits ==
  ASSUME NEW a, NEW b, NEW c
  PROVE  <<a>> \o <<b, c>> = <<a, b, c>>
<1>1. <<a>> \in Seq({a, b, c}) /\ <<b, c>> \in Seq({a, b, c}) /\ <<a, b, c>> \in Seq({a, b, c})
  OBVIOUS
<1> DEFINE u == <<a>> \o <<b, c>>
<1>2. u \in Seq({a, b, c}) /\ Len(u) = 3
  BY <1>1
<1>3. u[1] = a /\ u[2] = b /\ u[3] = c
  OBVIOUS
<1> HIDE DEF u
<1>4. u = <<a, b, c>>
  BY <1>1, <1>2, <1>3
<1> QED BY <1>4 DEF u

(* What an end that speaks THeader writes of a message.                    *)
LEMMA ChainFlush ==
  ASSUME TypeInv, NEW e \in Ends, Transport(e) = "header", end[e].type \in {"unknown", "headers"},
         NEW b, NEW d, end[e].writeBuffer = <<b, d>>
  PROVE  /\ Flushed(e).size = <<Size(3)>> /\ Flushed(e).payload = <<Meta(end[e]), b, d>>
         /\ Flushed(e).t.type = "headers"
         /\ Size(3) \in Units /\ Size(3).unit = "size" /\ Size(3).n = 3
         /\ Meta(end[e]) \in Units /\ Meta(end[e]).unit = "meta"
         /\ Meta(end[e]).headers = end[e].writeHeaders
<1> DEFINE t == end[e]  m == Meta(t)  B == t.writeBuffer
<1>1. t \in EndType
  BY DEF TypeInv
<1>2. m \in Units /\ m.unit = "meta" /\ m.headers = t.writeHeaders
  <2> HIDE DEF t
  <2> QED BY <1>1 DEF EndType, Meta, Units
<1>3. Size(3) \in Units /\ Size(3).unit = "size" /\ Size(3).n = 3
  BY DEF Size, Units
<1>4. Len(B) = 2 /\ Len(B) + 1 = 3
  <2>1. Len(<<b, d>>) = 2
    OBVIOUS
  <2> QED BY <2>1
<1>5. <<m>> \o B = <<m, b, d>>
  BY ThreeUnits
<1> HIDE DEF m, B
<1>6. Flush(t) = [t |-> [t EXCEPT !.type = "headers", !.writeBuffer = <<>>],
                  size |-> <<Size(Len(B) + 1)>>, payload |-> <<m>> \o B]
  BY DEF Flush, m, B
<1>7. Flush(t).size = <<Size(3)>> /\ Flush(t).payload = <<m, b, d>>
  BY <1>4, <1>5, <1>6
<1>8. Flush(t).t.type = "headers"
  <2>1. Flush(t).t = [t EXCEPT !.type = "headers", !.writeBuffer = <<>>]
    BY <1>6
  <2> HIDE DEF t
  <2> QED BY <1>1, <2>1 DEF EndType
<1>9. Flushed(e) = Flush(t)
  BY DEF Flushed
<1> QED BY <1>2, <1>3, <1>7, <1>8, <1>9 DEF m

(* The begin of a request with a frame of its own: the headers are those   *)
(* of its call, and the body is left.                                      *)
LEMMA ChainBegin ==
  ASSUME TalkInv, Chained, Transport("server") = "header", ServeBegin, pc'["server"] = "body"
  PROVE  /\ Len(end'["server"].frame) = 1
         /\ request'.headers = asked[request'.call]
<1> DEFINE t == end["server"]  W == wire["server"]  f == ReadFrame("server")  r == Read(f)
<1>1. TypeInv /\ Framing /\ Flushing /\ "server" \in Ends /\ Peer("client") = "server" /\ "client" \in Ends
  BY DEF TalkInv, Ends, Peer
<1>2. /\ t \in EndType /\ W \in Seq(Units) /\ Sized(W) /\ FramingOf("header", t)
      /\ end \in [Ends -> EndType]
  BY <1>1 DEF TypeInv, Flushing, FlushOf, Framing
<1>3. pc["server"] = "begin" /\ Ready("server")
  BY DEF ServeBegin
<1>4. t.frame = <<>> /\ Chain(W) /\ HeadersOf(W) /\ t.type \in {"unknown", "headers"}
  BY <1>1, <1>3 DEF Chained
<1>5. NeedReadFrame(t)
  BY <1>2, <1>4 DEF FramingOf, NeedReadFrame, IsFramed
<1>6. Whole(W) /\ f = HeaderFrame(t, W)
  BY <1>3, <1>5 DEF Ready, NeedsFrame, ReadFrame
<1>7. /\ f.ok = TRUE /\ Receives("server", r)
      /\ request' = [call |-> r.got.call, headers |-> f.t.readHeaders]
  BY BeginOfRequest
<1>8. ChainFrameOK(t, W, f)
  <2>1. f = Failed(t, W) \/ ChainFrameOK(t, W, f)
    <3> HIDE DEF t, W, f
    <3> QED BY <1>2, <1>4, <1>5, <1>6, ChainFrame
  <2>2. Failed(t, W).ok = FALSE
    BY DEF Failed
  <2> HIDE DEF f, t, W
  <2> QED BY <1>7, <2>1, <2>2
<1>9. f.t \in EndType
  BY <1>1, <1>3, FrameRead DEF ReadOK
<1> DEFINE F == f.t.frame  Q == Tail(F)
<1>10. F \in Seq(Units) /\ Len(F) = 2 /\ f.t.reader = TRUE /\ F[1] = W[3]
  <2> HIDE DEF f, t, W
  <2> QED BY <1>8, <1>9 DEF ChainFrameOK, EndType
<1>11. Len(W) >= 4 /\ W[2].unit = "meta" /\ f.t.readHeaders = W[2].headers
  <2> HIDE DEF f, t, W
  <2> QED BY <1>8 DEF ChainFrameOK
<1> HIDE DEF f, t, W, F
<1>12. F # <<>> /\ Head(F) = F[1] /\ Len(Q) = 1
  <2>1. Len(F) # 0
    BY <1>10
  <2>2. F # <<>>
    BY <1>10, <2>1, EmptyByLength, Zenon
  <2> QED BY <1>10, <2>2, RestTail
<1> HIDE DEF Q
<1>13. r.got = W[3] /\ r.t = [f.t EXCEPT !.frame = Q]
  BY <1>10, <1>12 DEF Read, F, Q
<1>14. r.t.frame = Q
  BY <1>9, <1>13 DEF EndType
<1>15. end'["server"] = r.t
  BY <1>1, <1>2, <1>7 DEF Receives
<1>16. W[2].headers = asked[W[3].call]
  <2>1. 2 \in 1..Len(W) /\ 2 + 1 = 3
    BY <1>2, <1>11
  <2>2. W[2].headers = asked[W[2 + 1].call]
    BY <1>4, <1>11, <2>1 DEF HeadersOf
  <2> QED BY <2>1, <2>2
<1>17. request'.call = r.got.call /\ request'.headers = f.t.readHeaders
  BY <1>7
<1> QED BY <1>11, <1>12, <1>13, <1>14, <1>15, <1>16, <1>17

(* The body of a request ends its frame.                                   *)
LEMMA ChainBody ==
  ASSUME TalkInv, Chained, Transport("server") = "header", ServeBody
  PROVE  end'["server"].frame = <<>>
<1> DEFINE t == end["server"]  W == wire["server"]  f == ReadFrame("server")  r == Read(f)
<1>1. TypeInv /\ Framing /\ "server" \in Ends /\ end \in [Ends -> EndType] /\ t \in EndType
      /\ FramingOf("header", t)
  BY DEF TalkInv, Ends, TypeInv, Framing
<1>2. pc["server"] = "body" /\ Receives("server", IF f.ok THEN r ELSE f)
  BY DEF ServeBody
<1>3. Len(t.frame) = 1 /\ t.type \in {"unknown", "headers"} /\ t.frame \in Seq(Units)
  BY <1>1, <1>2 DEF Chained, EndType
<1>4. t.frame # <<>>
  <2> DEFINE F == t.frame
  <2>1. Len(F) # 0 /\ F \in Seq(Units)
    BY <1>3
  <2> HIDE DEF F
  <2>2. F # <<>>
    BY <2>1, EmptyByLength, Zenon
  <2> QED BY <2>2 DEF F
<1>5. t.reader = TRUE /\ t.type = "headers"
  BY <1>1, <1>3, <1>4 DEF FramingOf, EndType, IsFramed
<1>6. ~NeedsFrame("server")
  BY <1>5 DEF NeedsFrame, NeedReadFrame, IsFramed
<1>7. f.t = t /\ f.ok = TRUE
  BY <1>6 DEF ReadFrame
<1> HIDE DEF f, t
<1>8. r.t = EndOfFrame(t)
  BY <1>3, <1>4, <1>5, <1>7 DEF Read
<1>9. EndOfFrame(t).frame = <<>>
  BY <1>1 DEF EndOfFrame, EndType
<1>10. end' = [end EXCEPT !["server"] = r.t]
  BY <1>2, <1>7 DEF Receives
<1>11. end'["server"] = r.t
  BY <1>1, <1>10
<1> QED BY <1>8, <1>9, <1>11

(* Nothing is written or read of a chain.                                  *)
LEMMA ChainedQuietly ==
  ASSUME Chained, HeadersOf(wire["server"])', wire'["server"] = wire["server"], closed => closed',
         \A e \in Ends : /\ end'[e].type = end[e].type
                         /\ wire'[e] = wire[e] \/ wire'[e] = <<>>
                         /\ pc'[e] = "payload" => pc[e] = "payload",
         pc'["client"] \in {"args", "flush", "payload"} => end'["client"].writeHeaders = asked'[call'],
         pc'["server"] \in {"begin", "reply", "flush", "payload"} => end'["server"].frame = <<>>,
         pc'["server"] = "body" => Len(end'["server"].frame) = 1
  PROVE  Chained'
<1>1. "client" \in Ends /\ "server" \in Ends /\ \A e \in Ends : Peer(e) \in Ends
  BY DEF Ends, Peer
<1>2. Chain(<<>>)
  BY DEF Chain
<1>3. ASSUME NEW e \in Ends
      PROVE  /\ end'[e].type \in {"unknown", "headers"} /\ Chain(wire'[e])
             /\ pc'[e] = "payload" /\ ~closed' => wire'[Peer(e)] = <<>> \/ EndsWithSize(wire'[Peer(e)])
  BY <1>1, <1>2 DEF Chained
<1>4. pc'["client"] = "payload" /\ ~closed' => wire'["server"] # <<>>
  BY <1>1 DEF Chained
<1>5. StartsWithSize(wire'["server"])
  BY DEF Chained
<1> QED BY <1>3, <1>4, <1>5 DEF Chained, Chain, EndsWithSize, StartsWithSize

(* What is on the wire to the server has begun with calls that were sent.  *)
LEMMA SentCalls ==
  ASSUME TalkInv
  PROVE  \A i \in 1..Len(wire["server"]) :
           wire["server"][i].unit = "begin" => wire["server"][i].call \in 1..call
<1> DEFINE F == end["server"].frame  W == wire["server"]  S == F \o W
<1>1. F \in Seq(Units) /\ W \in Seq(Units) /\ call \in Nat /\ request.call \in Nat
  BY MaxCallsAssumption DEF TalkInv, TypeInv, EndType, Ends
<1>2. Between(S, request.call, call)
  BY DEF TalkInv, Asking, InOrder, Stream
<1>3. \A i \in 1..Len(W) : S[i + Len(F)] = W[i] /\ i + Len(F) \in 1..Len(S)
  <2> HIDE DEF F, W
  <2> QED BY <1>1, Joined
<1> HIDE DEF F, S
<1> SUFFICES ASSUME NEW i \in 1..Len(W), W[i].unit = "begin" PROVE W[i].call \in 1..call
  OBVIOUS
<1> HIDE DEF W
<1>4. W[i] \in Units
  BY <1>1
<1>5. W[i].call \in Nat
  BY <1>4 DEF Units, Parts
<1>6. request.call < W[i].call /\ W[i].call <= call
  BY <1>2, <1>3 DEF Between
<1> QED BY <1>1, <1>5, <1>6

(* What an end reads of a chain leaves one.                                *)
LEMMA ChainedReceive ==
  ASSUME TalkInv, Chained, \A q \in Ends : Transport(q) = "header", NEW e \in Ends, Receiving(e)
  PROVE  Chained'
<1>1. PICK v : Has(e, v)
  BY Received
<1>2. /\ TypeInv /\ end \in [Ends -> EndType] /\ wire \in [Ends -> Seq(Units)]
      /\ \A q \in Ends : Peer(q) \in Ends /\ Peer(q) # q /\ Peer(Peer(q)) = q /\ Ends = {q, Peer(q)}
      /\ Ends = {"client", "server"} /\ Peer("client") = "server" /\ Peer("server") = "client"
  BY DEF TalkInv, TypeInv, Ends, Peer
<1>3. ChainLeft(e, v)
  BY <1>1, ChainRead DEF Chained
<1> DEFINE p == Peer(e)
<1>4. /\ pc'[e] \in {"body", "idle", "reply", "closed"} /\ pc'[p] = pc[p]
      /\ end'[e] = v.t /\ wire'[e] = v.units /\ end'[p] = end[p] /\ wire'[p] = wire[p]
      /\ call' = call /\ asked' = asked
  BY <1>1, <1>2 DEF Has
<1>5. closed => closed'
  <2>1. closed' = closed \/ closed' = TRUE
    BY <1>1 DEF Has
  <2> QED BY <2>1
<1>6. /\ v.t.type \in {"unknown", "headers"} /\ v.t.writeHeaders = end[e].writeHeaders
      /\ Chain(v.units)
      /\ StartsWithSize(wire[e]) => StartsWithSize(v.units)
      /\ HeadersOf(wire[e]) => HeadersOf(v.units)
      /\ EndsWithSize(wire[e]) => EndsWithSize(v.units)
      /\ wire[e] = <<>> => v.units = <<>>
  BY <1>3 DEF ChainLeft
<1>7. \A q \in Ends : /\ end[q].type \in {"unknown", "headers"} /\ Chain(wire[q])
                      /\ pc[q] = "payload" /\ ~closed => wire[Peer(q)] = <<>> \/ EndsWithSize(wire[Peer(q)])
  BY DEF Chained
<1>8. ASSUME NEW q \in Ends
      PROVE  /\ end'[q].type \in {"unknown", "headers"} /\ Chain(wire'[q])
             /\ pc'[q] = "payload" /\ ~closed' => wire'[Peer(q)] = <<>> \/ EndsWithSize(wire'[Peer(q)])
  <2>1. CASE q = e
    BY <1>4, <1>6, <2>1
  <2>2. CASE q = p
    <3>1. Peer(q) = e
      BY <1>2, <2>2
    <3> HIDE DEF p
    <3> QED BY <1>4, <1>5, <1>6, <1>7, <2>2, <3>1
  <2> QED BY <1>2, <2>1, <2>2
<1>9. pc'["client"] = "payload" /\ ~closed' => wire'["server"] # <<>>
  <2>1. CASE e = "client"
    BY <1>4, <2>1
  <2>2. CASE e = "server"
    <3> SUFFICES ASSUME pc'["client"] = "payload", ~closed' PROVE wire'["server"] # <<>>
      OBVIOUS
    <3>1. pc["client"] = "payload" /\ ~closed
      BY <1>2, <1>4, <1>5, <2>2
    <3>2. wire["server"] # <<>> /\ EndsWithSize(wire["server"])
      BY <1>2, <1>7, <3>1 DEF Chained
    <3>3. EndsWithSize(v.units)
      BY <1>6, <2>2, <3>2
    <3> QED BY <1>4, <2>2, <3>3 DEF EndsWithSize
  <2> QED BY <1>2, <2>1, <2>2
<1>10. StartsWithSize(wire'["server"]) /\ HeadersOf(wire["server"])'
  <2>1. StartsWithSize(wire["server"]) /\ HeadersOf(wire["server"])
    BY DEF Chained
  <2>2. StartsWithSize(wire'["server"]) /\ HeadersOf(wire'["server"])
    BY <1>2, <1>4, <1>6, <2>1
  <2> QED BY <1>4, <2>2 DEF HeadersOf
<1>11. pc'["client"] \in {"args", "flush", "payload"} => end'["client"].writeHeaders = asked'[call']
  BY <1>2, <1>4 DEF Chained
<1>12. /\ pc'["server"] \in {"begin", "reply", "flush", "payload"} => end'["server"].frame = <<>>
       /\ pc'["server"] = "body" => Len(end'["server"].frame) = 1
  <2>1. CASE e = "client"
    BY <1>2, <1>4, <2>1 DEF Chained
  <2>2. CASE e = "server" /\ ServeBegin
    <3>1. pc'["server"] \in {"body", "closed"}
      <4>1. pc \in [Ends -> {"idle", "args", "reply", "flush", "payload", "begin", "body", "closed"}]
        BY <1>2 DEF TypeInv
      <4> QED BY <1>2, <2>2, <4>1 DEF ServeBegin, CloseServer, Goto
    <3> QED BY <1>2, <2>2, <3>1, ChainBegin
  <2>3. CASE e = "server" /\ ServeBody
    <3>1. pc'["server"] \in {"reply", "closed"}
      BY <2>3, ServedNext
    <3> QED BY <1>2, <2>3, <3>1, ChainBody
  <2> QED BY <1>2, <2>1, <2>2, <2>3 DEF Receiving
<1> QED BY <1>8, <1>9, <1>10, <1>11, <1>12 DEF Chained, Chain, EndsWithSize, StartsWithSize

(* An end that speaks THeader writes the size of a message,                *)
LEMMA ChainedSize ==
  ASSUME TalkInv, Requests, Chained, \A q \in Ends : Transport(q) = "header", NEW e \in Ends, WriteSize(e)
  PROVE  Chained'
<1> DEFINE p == Peer(e)  W == wire[p]  z == Size(3)  V == W \o <<z>>
<1>1. /\ TypeInv /\ Flushing /\ end \in [Ends -> EndType] /\ wire \in [Ends -> Seq(Units)]
      /\ pc \in [Ends -> {"idle", "args", "reply", "flush", "payload", "begin", "body", "closed"}]
      /\ \A q \in Ends : Peer(q) \in Ends /\ Peer(q) # q /\ Peer(Peer(q)) = q /\ Ends = {q, Peer(q)}
      /\ Ends = {"client", "server"} /\ Peer("client") = "server" /\ Peer("server") = "client"
      /\ closed \in BOOLEAN
  BY DEF TalkInv, TypeInv, Ends, Peer
<1>2. /\ pc[e] = "flush" /\ wire' = [wire EXCEPT ![p] = IF closed THEN W ELSE W \o Flushed(e).size]
      /\ pc' = [pc EXCEPT ![e] = "payload"]
      /\ UNCHANGED <<end, closed, call, asked>>
  BY DEF WriteSize, Sends, Goto
<1>3. \A q \in Ends : /\ end[q].type \in {"unknown", "headers"} /\ Chain(wire[q])
                      /\ pc[q] = "payload" /\ ~closed => wire[Peer(q)] = <<>> \/ EndsWithSize(wire[Peer(q)])
  BY DEF Chained
<1>4. Flushed(e).size = <<z>> /\ z \in Units /\ z.unit = "size" /\ z.n = 3
  <2> DEFINE c == IF e = "client" THEN call ELSE request.call
  <2>1. end[e].writeBuffer = <<Begin(c, end[e].protocol), Body(c)>>
    BY <1>2 DEF Requests, Buffered, Message
  <2> HIDE DEF c
  <2> QED BY <1>1, <1>3, <2>1, ChainFlush
<1>5. W \in Seq(Units) /\ Chain(W) /\ (closed \/ ~EndsWithSize(W))
  <2>1. FlushOf(e, W)
    BY <1>1 DEF Flushing
  <2> QED BY <1>1, <1>2, <1>3, <2>1 DEF FlushOf
<1>6. CASE closed
  <2>1. wire' = wire
    BY <1>1, <1>2, <1>6
  <2>2. /\ pc'[e] = "payload" /\ pc'[p] = pc[p]
    BY <1>1, <1>2
  <2>3. closed'
    BY <1>2, <1>6
  <2>4. HeadersOf(wire["server"])'
    BY <1>2, <2>1 DEF HeadersOf, Chained
  <2>5. pc'["client"] \in {"args", "flush", "payload"} => end'["client"].writeHeaders = asked'[call']
    BY <1>1, <1>2, <2>2 DEF Chained
  <2>6. /\ pc'["server"] \in {"begin", "reply", "flush", "payload"} => end'["server"].frame = <<>>
        /\ pc'["server"] = "body" => Len(end'["server"].frame) = 1
    BY <1>1, <1>2, <2>2 DEF Chained
  <2>7. StartsWithSize(wire'["server"])
    BY <2>1 DEF Chained
  <2> QED BY <1>2, <1>3, <2>1, <2>3, <2>4, <2>5, <2>6, <2>7 DEF Chained, Chain, StartsWithSize, EndsWithSize
<1>7. CASE ~closed
  <2>1. wire'[p] = V /\ wire'[e] = wire[e] /\ pc'[e] = "payload" /\ pc'[p] = pc[p] /\ p \in Ends
    <3>1. wire' = [wire EXCEPT ![p] = V]
      BY <1>2, <1>4, <1>7
    <3> HIDE DEF V
    <3> QED BY <1>1, <1>2, <3>1
  <2>2. /\ Chain(V) /\ EndsWithSize(V)
        /\ StartsWithSize(W) => StartsWithSize(V)
        /\ HeadersOf(W) => HeadersOf(V)
    <3> HIDE DEF W, z
    <3> QED BY <1>4, <1>5, <1>7, ChainSized
  <2> HIDE DEF V, z
  <2>3. ASSUME NEW q \in Ends
        PROVE  /\ end'[q].type \in {"unknown", "headers"} /\ Chain(wire'[q])
               /\ pc'[q] = "payload" /\ ~closed' => wire'[Peer(q)] = <<>> \/ EndsWithSize(wire'[Peer(q)])
    <3>1. CASE q = e
      BY <1>2, <1>3, <2>1, <2>2, <3>1
    <3>2. CASE q = p
      <4>1. Peer(q) = e
        BY <1>1, <3>2
      <4> HIDE DEF p
      <4> QED BY <1>2, <1>3, <2>1, <2>2, <3>2, <4>1
    <3> QED BY <1>1, <3>1, <3>2
  <2>4. /\ pc'["client"] = "payload" => wire'["server"] # <<>>
        /\ StartsWithSize(wire'["server"]) /\ HeadersOf(wire'["server"])
    <3>1. CASE e = "client"
      BY <1>1, <2>1, <2>2, <3>1 DEF Chained, EndsWithSize
    <3>2. CASE e = "server"
      BY <1>1, <1>7, <2>1, <3>2 DEF Chained
    <3> QED BY <1>1, <3>1, <3>2
  <2>5. HeadersOf(wire["server"])'
    BY <1>2, <2>4 DEF HeadersOf
  <2>6. pc'["client"] \in {"args", "flush", "payload"} => end'["client"].writeHeaders = asked'[call']
    BY <1>1, <1>2, <2>1 DEF Chained
  <2>7. /\ pc'["server"] \in {"begin", "reply", "flush", "payload"} => end'["server"].frame = <<>>
        /\ pc'["server"] = "body" => Len(end'["server"].frame) = 1
    BY <1>1, <1>2, <2>1 DEF Chained
  <2> QED BY <2>3, <2>4, <2>5, <2>6, <2>7 DEF Chained, Chain, StartsWithSize, EndsWithSize
<1> QED BY <1>1, <1>6, <1>7

(* and the rest of it.                                                     *)
LEMMA ChainedPayload ==
  ASSUME TalkInv, Requests, Chained, \A q \in Ends : Transport(q) = "header", NEW e \in Ends, WritePayload(e)
  PROVE  Chained'
<1> DEFINE p == Peer(e)  W == wire[p]  c == IF e = "client" THEN call ELSE request.call
           m == Meta(end[e])  b == Begin(c, end[e].protocol)  d == Body(c)  V == W \o <<m, b, d>>
           t == Flushed(e).t
<1>1. /\ TypeInv /\ end \in [Ends -> EndType] /\ wire \in [Ends -> Seq(Units)]
      /\ pc \in [Ends -> {"idle", "args", "reply", "flush", "payload", "begin", "body", "closed"}]
      /\ \A q \in Ends : Peer(q) \in Ends /\ Peer(q) # q /\ Peer(Peer(q)) = q /\ Ends = {q, Peer(q)}
      /\ Ends = {"client", "server"} /\ Peer("client") = "server" /\ Peer("server") = "client"
      /\ closed \in BOOLEAN
  BY DEF TalkInv, TypeInv, Ends, Peer
<1>2. /\ pc[e] = "payload" /\ wire' = [wire EXCEPT ![p] = IF closed THEN W ELSE W \o Flushed(e).payload]
      /\ pc' = [pc EXCEPT ![e] = "begin"] \/ (pc' = [pc EXCEPT ![e] = "idle"] /\ e = "client")
      /\ end' = [end EXCEPT ![e] = t]
      /\ UNCHANGED <<closed, call, asked>>
  BY DEF WritePayload, Sends, Goto
<1>3. \A q \in Ends : /\ end[q].type \in {"unknown", "headers"} /\ Chain(wire[q])
                      /\ pc[q] = "payload" /\ ~closed => wire[Peer(q)] = <<>> \/ EndsWithSize(wire[Peer(q)])
  BY DEF Chained
<1>4. end[e].writeBuffer = <<b, d>>
  BY <1>2 DEF Requests, Buffered, Message
<1>5. /\ c \in Nat /\ end[e].protocol \in Languages
      /\ b \in Units /\ b.unit = "begin" /\ b.call = c /\ d \in Units /\ d = Body(b.call)
  <2>1. c \in Nat /\ end[e].protocol \in Languages
    BY <1>1, MaxCallsAssumption DEF TypeInv, EndType
  <2> HIDE DEF c
  <2> QED BY <2>1 DEF Begin, Body, Units, Parts
<1> HIDE DEF c
<1>6. /\ Flushed(e).payload = <<m, b, d>> /\ t.type = "headers"
      /\ m \in Units /\ m.unit = "meta" /\ m.headers = end[e].writeHeaders
  <2> HIDE DEF b, d
  <2> QED BY <1>1, <1>3, <1>4, ChainFlush
<1>7. t.frame = end[e].frame
  BY <1>1, FlushLeaves
<1> HIDE DEF m, b, d, t
<1>8. W \in Seq(Units) /\ Chain(W) /\ (closed \/ W = <<>> \/ EndsWithSize(W))
  BY <1>1, <1>2, <1>3
<1>9. ~closed => /\ Chain(V)
                 /\ (StartsWithSize(W) /\ W # <<>> => StartsWithSize(V))
                 /\ (HeadersOf(W) /\ m.headers = asked[b.call] => HeadersOf(V))
  <2> HIDE DEF W
  <2> QED BY <1>5, <1>6, <1>8, ChainMessage
<1>10. /\ pc'[e] \in {"begin", "idle"} /\ (e = "server" => pc'[e] = "begin") /\ pc'[p] = pc[p] /\ p \in Ends
       /\ end'[e] = t /\ end'[p] = end[p] /\ wire'[e] = wire[e]
       /\ (closed => wire'[p] = W) /\ (~closed => wire'[p] = V)
  <2>1. wire' = [wire EXCEPT ![p] = IF closed THEN W ELSE V]
    BY <1>2, <1>6
  <2> HIDE DEF V, W
  <2>2. wire'[p] = (IF closed THEN W ELSE V) /\ wire'[e] = wire[e]
    BY <1>1, <2>1
  <2> QED BY <1>1, <1>2, <2>2
<1> HIDE DEF V
<1>11. ASSUME NEW q \in Ends
       PROVE  /\ end'[q].type \in {"unknown", "headers"} /\ Chain(wire'[q])
              /\ pc'[q] = "payload" /\ ~closed' => wire'[Peer(q)] = <<>> \/ EndsWithSize(wire'[Peer(q)])
  <2>1. CASE q = e
    BY <1>3, <1>6, <1>10, <2>1
  <2>2. CASE q = p
    <3>1. Peer(q) = e
      BY <1>1, <2>2
    <3>2. Chain(wire'[q])
      <4>1. CASE closed
        BY <1>8, <1>10, <2>2, <4>1
      <4>2. CASE ~closed
        BY <1>9, <1>10, <2>2, <4>2
      <4> QED BY <4>1, <4>2
    <3> HIDE DEF p
    <3> QED BY <1>2, <1>3, <1>10, <2>2, <3>1, <3>2
  <2> QED BY <1>1, <2>1, <2>2
<1>12. StartsWithSize(wire'["server"]) /\ HeadersOf(wire'["server"])
  <2>1. CASE e = "client"
    <3>1. ~closed => W # <<>>
      BY <1>1, <1>2, <2>1 DEF Chained
    <3>2. StartsWithSize(W) /\ HeadersOf(W)
      BY <1>1, <2>1 DEF Chained
    <3>3. m.headers = asked[b.call]
      BY <1>2, <1>5, <1>6, <2>1 DEF Chained, c
    <3>4. wire'["server"] = wire'[p]
      BY <1>1, <2>1
    <3>5. CASE closed
      BY <1>10, <3>2, <3>4, <3>5
    <3>6. CASE ~closed
      <4>1. StartsWithSize(V) /\ HeadersOf(V)
        BY <1>9, <3>1, <3>2, <3>3, <3>6
      <4> QED BY <1>10, <3>4, <3>6, <4>1
    <3> QED BY <3>5, <3>6
  <2>2. CASE e = "server"
    BY <1>1, <1>10, <2>2 DEF Chained
  <2> QED BY <1>1, <2>1, <2>2
<1>13. HeadersOf(wire["server"])'
  BY <1>2, <1>12 DEF HeadersOf
<1>14. pc'["client"] = "payload" /\ ~closed' => wire'["server"] # <<>>
  <2>1. CASE e = "client"
    BY <1>10, <2>1
  <2>2. CASE e = "server"
    BY <1>1, <1>2, <1>10, <2>2 DEF Chained
  <2> QED BY <1>1, <2>1, <2>2
<1>15. pc'["client"] \in {"args", "flush", "payload"} => end'["client"].writeHeaders = asked'[call']
  BY <1>1, <1>2, <1>10 DEF Chained
<1>16. /\ pc'["server"] \in {"begin", "reply", "flush", "payload"} => end'["server"].frame = <<>>
       /\ pc'["server"] = "body" => Len(end'["server"].frame) = 1
  BY <1>1, <1>2, <1>7, <1>10 DEF Chained
<1> QED BY <1>11, <1>12, <1>13, <1>14, <1>15, <1>16 DEF Chained, Chain, StartsWithSize, EndsWithSize

(* So do the other steps.                                                  *)
LEMMA ChainedKept ==
  ASSUME TalkInv, Requests, Chained, \A q \in Ends : Transport(q) = "header",
         [Next]_vars, aborts = 0, aborts' = 0
  PROVE  Chained'
<1>1. /\ TypeInv /\ end \in [Ends -> EndType] /\ wire \in [Ends -> Seq(Units)]
      /\ pc \in [Ends -> {"idle", "args", "reply", "flush", "payload", "begin", "body", "closed"}]
      /\ Ends = {"client", "server"} /\ "client" \in Ends /\ "server" \in Ends
      /\ end["client"] \in EndType /\ end["server"] \in EndType
      /\ call \in Nat /\ asked \in [Calls -> SUBSET Keys]
  BY MaxCallsAssumption DEF TalkInv, TypeInv, Ends
<1>2. asked' = asked /\ wire'["server"] = wire["server"] => HeadersOf(wire["server"])'
  BY DEF Chained, HeadersOf
<1>3. ASSUME NEW e \in Ends, WriteSize(e) PROVE Chained'
  BY <1>3, ChainedSize
<1>4. ASSUME NEW e \in Ends, WritePayload(e) PROVE Chained'
  BY <1>4, ChainedPayload
<1>5. CASE RecvBegin \/ RecvBody
  BY <1>1, <1>5, ChainedReceive DEF Receiving
<1>6. CASE ServeBegin \/ ServeBody
  BY <1>1, <1>6, ChainedReceive DEF Receiving
<1>7. ASSUME NEW keys \in SUBSET Keys, Send(keys) PROVE Chained'
  <2> DEFINE t == end["client"]
             u == [t EXCEPT !.writeHeaders = keys,
                            !.writeBuffer = Append(t.writeBuffer, Begin(call + 1, t.protocol))]
             W == wire["server"]
  <2>1. /\ call < MaxCalls /\ call' = call + 1 /\ asked' = [asked EXCEPT ![call + 1] = keys]
        /\ end' = [end EXCEPT !["client"] = u] /\ pc' = [pc EXCEPT !["client"] = "args"]
        /\ UNCHANGED <<wire, closed>>
    BY <1>7 DEF Send, Goto
  <2>2. u.type = t.type /\ u.writeHeaders = keys
    BY <1>1 DEF EndType
  <2> HIDE DEF u
  <2>3. /\ pc'["client"] = "args" /\ pc'["server"] = pc["server"]
        /\ end'["client"] = u /\ end'["server"] = end["server"]
    BY <1>1, <2>1
  <2>4. call + 1 \in Calls /\ asked'[call + 1] = keys /\ \A c \in 1..call : asked'[c] = asked[c]
    <3>1. call + 1 \in Calls /\ \A c \in 1..call : c \in Calls /\ c # call + 1
      BY <1>1, <2>1, MaxCallsAssumption DEF Calls
    <3> QED BY <1>1, <2>1, <3>1
  <2>5. HeadersOf(wire["server"])'
    <3> SUFFICES ASSUME NEW i \in 1..Len(W), W[i].unit = "meta"
                 PROVE  W[i].headers = asked'[W[i + 1].call]
      BY <2>1 DEF HeadersOf
    <3>1. i < Len(W) /\ W[i + 1].unit = "begin"
      BY <1>1 DEF Chained, Chain
    <3>2. W[i].headers = asked[W[i + 1].call]
      BY DEF Chained, HeadersOf
    <3>3. i + 1 \in 1..Len(W)
      BY <1>1, <3>1
    <3>4. W[i + 1].call \in 1..call
      BY <3>1, <3>3, SentCalls
    <3> QED BY <2>4, <3>2, <3>4
  <2>6. end'["client"].writeHeaders = asked'[call']
    BY <2>1, <2>2, <2>3, <2>4
  <2>7. \A e \in Ends : /\ end'[e].type = end[e].type /\ wire'[e] = wire[e]
                        /\ pc'[e] = "payload" => pc[e] = "payload"
    BY <1>1, <2>1, <2>2, <2>3
  <2>8. /\ pc'["server"] \in {"begin", "reply", "flush", "payload"} => end'["server"].frame = <<>>
        /\ pc'["server"] = "body" => Len(end'["server"].frame) = 1
    BY <2>3 DEF Chained
  <2>9. wire'["server"] = wire["server"] /\ (closed => closed')
    BY <2>1
  <2> QED BY <2>5, <2>6, <2>7, <2>8, <2>9, ChainedQuietly
<1>8. CASE WriteArgs
  <2> DEFINE t == end["client"]  u == [t EXCEPT !.writeBuffer = t.writeBuffer \o <<Body(call)>>]
  <2>1. /\ pc["client"] = "args" /\ end' = [end EXCEPT !["client"] = u]
        /\ pc' = [pc EXCEPT !["client"] = "flush"] /\ UNCHANGED <<wire, closed, call, asked>>
    BY <1>8 DEF WriteArgs, Write, Goto
  <2>2. u.type = t.type /\ u.writeHeaders = t.writeHeaders
    BY <1>1 DEF EndType
  <2> HIDE DEF u
  <2>3. /\ pc'["client"] = "flush" /\ pc'["server"] = pc["server"]
        /\ end'["client"] = u /\ end'["server"] = end["server"]
    BY <1>1, <2>1
  <2>4. end'["client"].writeHeaders = asked'[call']
    BY <2>1, <2>2, <2>3 DEF Chained
  <2>5. \A e \in Ends : /\ end'[e].type = end[e].type /\ wire'[e] = wire[e]
                        /\ pc'[e] = "payload" => pc[e] = "payload"
    BY <1>1, <2>1, <2>2, <2>3
  <2>6. /\ pc'["server"] \in {"begin", "reply", "flush", "payload"} => end'["server"].frame = <<>>
        /\ pc'["server"] = "body" => Len(end'["server"].frame) = 1
    BY <2>3 DEF Chained
  <2>7. wire'["server"] = wire["server"] /\ (closed => closed') /\ HeadersOf(wire["server"])'
    BY <1>2, <2>1
  <2> QED BY <2>4, <2>5, <2>6, <2>7, ChainedQuietly
<1>9. ASSUME NEW keys \in SUBSET Keys, Reply(keys) PROVE Chained'
  <2> DEFINE t == end["server"]
             u == [t EXCEPT !.writeHeaders = t.writeHeaders \union keys,
                            !.writeBuffer = t.writeBuffer \o <<Begin(request.call, t.protocol), Body(request.call)>>]
  <2>1. /\ pc["server"] = "reply" /\ end' = [end EXCEPT !["server"] = u]
        /\ pc' = [pc EXCEPT !["server"] = "flush"] /\ UNCHANGED <<wire, closed, call, asked>>
    BY <1>9 DEF Reply, Goto
  <2>2. u.type = t.type /\ u.frame = t.frame
    BY <1>1 DEF EndType
  <2> HIDE DEF u
  <2>3. /\ pc'["server"] = "flush" /\ pc'["client"] = pc["client"]
        /\ end'["server"] = u /\ end'["client"] = end["client"]
    BY <1>1, <2>1
  <2>4. pc'["client"] \in {"args", "flush", "payload"} => end'["client"].writeHeaders = asked'[call']
    BY <2>1, <2>3 DEF Chained
  <2>5. \A e \in Ends : /\ end'[e].type = end[e].type /\ wire'[e] = wire[e]
                        /\ pc'[e] = "payload" => pc[e] = "payload"
    BY <1>1, <2>1, <2>2, <2>3
  <2>6. end'["server"].frame = <<>> /\ pc'["server"] # "body"
    BY <2>1, <2>2, <2>3 DEF Chained
  <2>7. wire'["server"] = wire["server"] /\ (closed => closed') /\ HeadersOf(wire["server"])'
    BY <1>2, <2>1
  <2> QED BY <2>4, <2>5, <2>6, <2>7, ChainedQuietly
<1>10. CASE TimeOut
  <2> DEFINE t == end["client"]  F == t.frame \o Tail(wire["client"])
  <2>1. /\ pc' = [pc EXCEPT !["client"] = "idle"] /\ UNCHANGED <<closed, call, asked>>
        /\ \/ /\ end' = [end EXCEPT !["client"].frame = F]
              /\ wire' = [wire EXCEPT !["client"] = <<>>]
           \/ end' = end /\ wire' = wire
    BY <1>10 DEF TimeOut, Goto
  <2> HIDE DEF F
  <2>2. /\ pc'["client"] = "idle" /\ pc'["server"] = pc["server"]
        /\ end'["client"].type = t.type /\ end'["server"] = end["server"]
        /\ wire'["server"] = wire["server"] /\ (wire'["client"] = wire["client"] \/ wire'["client"] = <<>>)
    BY <1>1, <2>1 DEF EndType
  <2>3. \A e \in Ends : /\ end'[e].type = end[e].type
                        /\ wire'[e] = wire[e] \/ wire'[e] = <<>>
                        /\ pc'[e] = "payload" => pc[e] = "payload"
    BY <1>1, <2>2
  <2>4. /\ pc'["server"] \in {"begin", "reply", "flush", "payload"} => end'["server"].frame = <<>>
        /\ pc'["server"] = "body" => Len(end'["server"].frame) = 1
    BY <2>2 DEF Chained
  <2>5. (closed => closed') /\ HeadersOf(wire["server"])'
    BY <1>2, <2>1, <2>2
  <2> QED BY <2>2, <2>3, <2>4, <2>5, ChainedQuietly
<1>11. CASE CloseClient \/ ServeEnd
  <2>1. /\ \/ pc' = [pc EXCEPT !["client"] = "idle"]
           \/ pc' = [pc EXCEPT !["server"] = "closed"]
        /\ closed' = TRUE /\ UNCHANGED <<end, wire, call, asked>>
    BY <1>11 DEF CloseClient, ServeEnd, CloseServer, Goto
  <2>2. /\ pc'["client"] \in {pc["client"], "idle"} /\ pc'["server"] \in {pc["server"], "closed"}
    BY <1>1, <2>1
  <2>3. \A e \in Ends : /\ end'[e].type = end[e].type /\ wire'[e] = wire[e]
                        /\ pc'[e] = "payload" => pc[e] = "payload"
    BY <1>1, <2>1, <2>2
  <2>4. /\ pc'["server"] \in {"begin", "reply", "flush", "payload"} => end'["server"].frame = <<>>
        /\ pc'["server"] = "body" => Len(end'["server"].frame) = 1
        /\ pc'["client"] \in {"args", "flush", "payload"} => end'["client"].writeHeaders = asked'[call']
    BY <2>1, <2>2 DEF Chained
  <2>5. wire'["server"] = wire["server"] /\ (closed => closed') /\ HeadersOf(wire["server"])'
    BY <1>2, <2>1
  <2> QED BY <2>3, <2>4, <2>5, ChainedQuietly
<1>12. CASE AbortArgs \/ AbortReply
  BY <1>12 DEF AbortArgs, AbortReply
<1>13. CASE UNCHANGED vars
  BY <1>13 DEF vars, Chained, Chain, StartsWithSize, EndsWithSize, HeadersOf
<1> QED BY <1>1, <1>3, <1>4, <1>5, <1>6, <1>7, <1>8, <1>9, <1>10, <1>11, <1>12, <1>13
        DEF Next, ClientStep, ServerStep

-----------------------------------------------------------------------------
(* What is served is what was sent *)

(* The headers of a call do not change once it is sent.                    *)
LEMMA AskedOnce ==
  ASSUME TypeInv, [Next]_vars
  PROVE  \A c \in 1..call : asked'[c] = asked[c]
<1>1. CASE asked' = asked
  BY <1>1
<1>2. ASSUME NEW keys \in SUBSET Keys, Send(keys)
      PROVE  \A c \in 1..call : asked'[c] = asked[c]
  <2>1. asked' = [asked EXCEPT ![call + 1] = keys] /\ call \in 0..MaxCalls /\ MaxCalls \in Nat
        /\ asked \in [Calls -> SUBSET Keys]
    BY <1>2, MaxCallsAssumption DEF Send, TypeInv
  <2>2. \A c \in 1..call : c \in Calls /\ c # call + 1
    BY <2>1 DEF Calls
  <2> QED BY <2>1, <2>2
<1>3. asked' = asked \/ \E keys \in SUBSET Keys : Send(keys)
  <2>1. ASSUME NEW e \in Ends, WriteSize(e) \/ WritePayload(e) PROVE asked' = asked
    BY <2>1 DEF WriteSize, WritePayload
  <2>2. CASE WriteArgs \/ AbortArgs \/ RecvBegin \/ RecvBody \/ TimeOut \/ CloseClient
    BY <2>2 DEF WriteArgs, AbortArgs, RecvBegin, RecvBody, TimeOut, CloseClient
  <2>3. CASE ServeBegin \/ ServeBody \/ AbortReply \/ ServeEnd
    BY <2>3 DEF ServeBegin, ServeBody, AbortReply, ServeEnd
  <2>4. ASSUME NEW keys \in SUBSET Keys, Reply(keys) PROVE asked' = asked
    BY <2>4 DEF Reply
  <2>5. CASE UNCHANGED vars
    BY <2>5 DEF vars
  <2> QED BY <2>1, <2>2, <2>3, <2>4, <2>5 DEF Next, ClientStep, ServerStep, Ends
<1> QED BY <1>1, <1>2, <1>3

(* What is begun or served is what was sent, with its own headers.         *)
LEMMA AsSentKept ==
  ASSUME TalkInv, InTurn, Plain, Requests, AsSent, client.transport = "header" => Chained,
         [Next]_vars
  PROVE  AsSent'
<1>1. /\ TypeInv /\ Framing /\ Flushing /\ "server" \in Ends
      /\ call \in Nat /\ request.call \in Nat /\ request.call <= call
  BY MaxCallsAssumption DEF TalkInv, TypeInv, Ends
<1>2. client' = client /\ adapts' = adapts
  BY SameEnds
<1> DEFINE Dues(c) == IF client.transport = "header" THEN asked'[c] ELSE {}
<1>3. \A c \in 1..call : Dues(c) = Due(c)
  BY <1>1, AskedOnce DEF Due
<1>4. /\ pc["server"] = "body" => request.headers = Due(request.call)
      /\ \A i \in 1..Len(served) :
           served[i].args = served[i].call /\ served[i].headers = Due(served[i].call)
  BY DEF AsSent
<1>5. served \in Seq(Served) /\ Len(served) \in Nat
      /\ \A i \in 1..Len(served) : served[i].call \in 1..call
  <2>1. served \in Seq(Served) /\ Len(served) \in Nat
    BY DEF InTurn
  <2>2. ASSUME NEW i \in 1..Len(served) PROVE served[i].call \in 1..call
    <3>1. served[i] \in Served
      BY <2>1
    <3>2. served[i].call \in Nat
      BY <3>1 DEF Served
    <3>3. 1 <= served[i].call /\ served[i].call <= request.call
      BY DEF InTurn
    <3> QED BY <1>1, <3>2, <3>3
  <2> QED BY <2>1, <2>2
<1>6. \A i \in 1..Len(served) :
        served[i].args = served[i].call /\ served[i].headers = Dues(served[i].call)
  BY <1>3, <1>4, <1>5
<1>7. pc["server"] = "body" => request.call \in 1..call
  BY <1>1 DEF InTurn
<1>8. CASE ~ServeBegin /\ ~ServeBody
  <2>1. UNCHANGED <<served, request>> /\ (pc'["server"] = "body" => pc["server"] = "body")
    BY <1>1, <1>8, NothingServed
  <2>2. pc'["server"] = "body" => request'.headers = Dues(request'.call)
    BY <1>3, <1>4, <1>7, <2>1
  <2> QED BY <1>2, <1>6, <2>1, <2>2 DEF AsSent, Due
<1>9. CASE ServeBegin
  <2>1. served' = served
    BY <1>9 DEF ServeBegin
  <2>2. ASSUME pc'["server"] = "body" PROVE request'.headers = Dues(request'.call)
    <3> DEFINE f == ReadFrame("server")  s == f.t.frame \o f.units  r == Read(f)
    <3>1. /\ request' = [call |-> r.got.call, headers |-> f.t.readHeaders] /\ r.got = s[1]
          /\ s[1].call \in Nat /\ request.call < s[1].call /\ s[1].call <= call
      BY <1>9, <2>2, BeginOfRequest
    <3> HIDE DEF f, r, s
    <3>2. request'.call = s[1].call /\ request'.headers = f.t.readHeaders
      BY <3>1
    <3>3. request'.call \in 1..call
      <4> DEFINE n == s[1].call
      <4>1. n \in Nat /\ request.call < n /\ n <= call
        BY <3>1
      <4> HIDE DEF n
      <4>2. n \in 1..call
        BY <1>1, <4>1
      <4> QED BY <3>2, <4>2 DEF n
    <3>4. request'.headers = Due(request'.call)
      <4>1. CASE client.transport = "header"
        <5>1. Transport("server") = "header"
          BY <4>1 DEF Transport
        <5>2. request'.headers = asked[request'.call]
          BY <1>9, <2>2, <4>1, <5>1, ChainBegin
        <5> QED BY <4>1, <5>2 DEF Due
      <4>2. CASE client.transport # "header"
        <5>1. NoMeta(Stream("server")) /\ end["server"].readHeaders = {}
          BY <4>2 DEF Plain
        <5>2. Ready("server")
          BY <1>9 DEF ServeBegin
        <5>3. f.t.readHeaders = {}
          BY <1>1, <5>1, <5>2, NoHeadersRead DEF f
        <5> QED BY <3>2, <4>2, <5>3 DEF Due
      <4> QED BY <4>1, <4>2
    <3> QED BY <1>2, <1>3, <3>3, <3>4 DEF Due
  <2> QED BY <1>2, <1>6, <2>1, <2>2 DEF AsSent, Due
<1>10. CASE ServeBody
  <2> DEFINE f == ReadFrame("server")  u == Read(f).got  garbage == ~f.ok \/ u.unit # "body"
             v == [call |-> request.call, args |-> IF garbage THEN 0 ELSE u.call,
                   headers |-> request.headers]
  <2>1. /\ pc["server"] = "body" /\ pc'["server"] # "body" /\ Ready("server")
        /\ served' = served \/ served' = Append(served, v)
    <3>1. pc["server"] = "body" /\ pc'["server"] # "body"
      BY <1>10, ServedNext
    <3>2. Ready("server") /\ (served' = served \/ served' = Append(served, v))
      BY <1>10 DEF ServeBody
    <3> QED BY <3>1, <3>2
  <2>2. CASE served' = served
    BY <1>2, <1>6, <2>1, <2>2 DEF AsSent, Due
  <2>3. CASE served' = Append(served, v)
    <3>1. /\ ~Needs(Transport("server"), end["server"])
          /\ Stream("server")[1] = Body(request.call)
      BY <2>1 DEF Requests
    <3>2. f = [t |-> end["server"], units |-> wire["server"], ok |-> TRUE]
      BY <1>1, <2>1, <3>1, FrameRead
    <3>3. f.ok = TRUE
      BY <3>2
    <3>4. u = Body(request.call)
      <4> DEFINE s == f.t.frame \o f.units
      <4>1. u = s[1] /\ s = Stream("server")
        BY <1>1, <2>1, <3>1, <3>3, FirstRead
      <4> HIDE DEF s, f
      <4> QED BY <3>1, <4>1
    <3> HIDE DEF f, u
    <3>5. v.args = request.call
      BY <3>3, <3>4 DEF Body
    <3>6. v.call = request.call /\ v.headers = request.headers
      OBVIOUS
    <3>7. v.args = v.call /\ v.headers = Dues(v.call)
      BY <1>3, <1>4, <1>7, <2>1, <3>5, <3>6
    <3>8. v \in Served
      <4>1. request.headers \in SUBSET Keys
        BY <1>1 DEF TypeInv
      <4> HIDE DEF v
      <4>2. v = [call |-> request.call, args |-> v.args, headers |-> request.headers]
        BY DEF v
      <4> QED BY <1>1, <3>5, <4>1, <4>2 DEF Served
    <3> DEFINE S == Append(served, v)
    <3> HIDE DEF v
    <3>9. /\ Len(S) = Len(served) + 1 /\ \A i \in 1..Len(served) : S[i] = served[i]
          /\ S[Len(served) + 1] = v
      BY <1>5, <3>8
    <3> HIDE DEF S
    <3>10. ASSUME NEW i \in 1..Len(S) PROVE S[i].args = S[i].call /\ S[i].headers = Dues(S[i].call)
      <4>1. i \in 1..Len(served) \/ i = Len(served) + 1
        BY <1>5, <3>9
      <4> QED BY <1>6, <3>7, <3>9, <4>1
    <3>11. served' = S
      BY <2>3 DEF S
    <3> QED BY <1>2, <2>1, <3>10, <3>11 DEF AsSent, Due
  <2> HIDE DEF v
  <2> QED BY <2>1, <2>2, <2>3
<1> QED BY <1>8, <1>9, <1>10

(* The invariant holds before the first call,                              *)
LEMMA ServeInvInit ==
  ASSUME Init
  PROVE  ServeInv
<1>1. /\ \A e \in Ends : /\ end[e].frame = <<>> /\ wire[e] = <<>> /\ end[e].writeBuffer = <<>>
                         /\ end[e].type = "unknown" /\ end[e].readHeaders = {}
      /\ pc["client"] = "idle" /\ pc["server"] = "begin" /\ served = <<>>
      /\ "client" \in Ends /\ "server" \in Ends
      /\ Ends = {"client", "server"}
      /\ client.transport = "header" => adapts = TRUE
  BY DEF Init, Ends
<1>2. \A e \in Ends : Stream(e) = <<>>
  BY <1>1 DEF Stream
<1>3. NoMeta(<<>>) /\ Paired(<<>>, 0) /\ Chain(<<>>) /\ StartsWithSize(<<>>) /\ HeadersOf(<<>>)
  BY DEF NoMeta, Paired, Chain, StartsWithSize, HeadersOf
<1>4. InTurn
  <2>1. served \in Seq(Served) /\ Len(served) = 0
    BY <1>1
  <2> QED BY <1>1, <2>1 DEF InTurn
<1>5. Plain
  BY <1>1, <1>2, <1>3 DEF Plain
<1>6. Requests
  BY <1>1, <1>2, <1>3 DEF Requests, Buffered
<1>7. AsSent
  BY <1>1 DEF AsSent
<1>8. Chained
  BY <1>1, <1>3 DEF Chained
<1> QED BY <1>4, <1>5, <1>6, <1>7, <1>8, TalkInvInit DEF ServeInv

(* Messages that are begun and not ended are only counted.                 *)
LEMMA AbortsCount ==
  ASSUME TypeInv, [Next]_vars, aborts' = 0
  PROVE  aborts = 0
<1>1. aborts \in Nat
  BY DEF TypeInv
<1>2. ASSUME NEW e \in Ends, WriteSize(e) \/ WritePayload(e) PROVE aborts' = aborts
  BY <1>2 DEF WriteSize, WritePayload
<1>3. CASE WriteArgs \/ RecvBegin \/ RecvBody \/ TimeOut \/ CloseClient
  BY <1>3 DEF WriteArgs, RecvBegin, RecvBody, TimeOut, CloseClient
<1>4. CASE ServeBegin \/ ServeBody \/ ServeEnd
  BY <1>4 DEF ServeBegin, ServeBody, ServeEnd
<1>5. ASSUME NEW keys \in SUBSET Keys, Reply(keys) \/ Send(keys) PROVE aborts' = aborts
  BY <1>5 DEF Reply, Send
<1>6. CASE AbortArgs \/ AbortReply
  <2>1. aborts' = aborts + 1
    BY <1>6 DEF AbortArgs, AbortReply
  <2> QED BY <1>1, <2>1
<1>7. CASE UNCHANGED vars
  BY <1>7 DEF vars
<1> QED BY <1>1, <1>2, <1>3, <1>4, <1>5, <1>6, <1>7 DEF Next, ClientStep, ServerStep, Ends

(* and every step of an end keeps it.                                      *)
LEMMA ServeInvInvariant == ServeInv /\ [Next]_vars => ServeInv'
<1> SUFFICES ASSUME ServeInv, [Next]_vars PROVE ServeInv'
  OBVIOUS
<1>1. /\ TalkInv /\ InTurn /\ Plain
      /\ aborts = 0 => Requests /\ AsSent /\ (client.transport = "header" => Chained)
  BY DEF ServeInv
<1>2. TalkInv' /\ InTurn' /\ Plain'
  BY <1>1, TalkInvInvariant, InTurnKept, PlainKept
<1>3. ASSUME aborts' = 0
      PROVE  Requests' /\ AsSent' /\ (client'.transport = "header" => Chained')
  <2>1. aborts = 0 /\ client' = client
    BY <1>1, <1>3, AbortsCount, SameEnds DEF TalkInv
  <2>2. Requests /\ AsSent /\ (client.transport = "header" => Chained)
    BY <1>1, <2>1
  <2>3. Requests' /\ AsSent'
    BY <1>1, <1>3, <2>1, <2>2, RequestsKept, AsSentKept
  <2>4. ASSUME client.transport = "header" PROVE Chained'
    <3>1. \A e \in Ends : Transport(e) = "header"
      BY <2>4 DEF Transport
    <3> QED BY <1>1, <1>3, <2>1, <2>2, <2>4, <3>1, ChainedKept
  <2> QED BY <2>1, <2>3, <2>4
<1> QED BY <1>2, <1>3 DEF ServeInv

(* Whatever the transport, the server serves the calls in order, each at   *)
(* most once, with its own arguments and the headers of its own context,   *)
(* until a message has been aborted.                                       *)
THEOREM ServesWhatWasSentAlways == Spec => []ServesWhatWasSent
<1>1. ServeInv => ServesWhatWasSent
  <2> SUFFICES ASSUME ServeInv, aborts = 0, NEW i \in DOMAIN served
               PROVE  /\ served[i].args = served[i].call
                      /\ served[i].headers = IF client.transport = "header" THEN asked[served[i].call] ELSE {}
                      /\ \A j \in 1..(i - 1) : served[j].call < served[i].call
    BY DEF ServesWhatWasSent
  <2>1. InTurn /\ AsSent
    BY DEF ServeInv
  <2>2. i \in 1..Len(served)
    BY <2>1 DEF InTurn
  <2>3. served[i].args = served[i].call /\ served[i].headers = Due(served[i].call)
    BY <2>1, <2>2 DEF AsSent
  <2>4. \A j \in 1..(i - 1) : served[j].call < served[i].call
    BY <2>1, <2>2 DEF InTurn
  <2> QED BY <2>3, <2>4 DEF Due
<1> QED BY ServeInvInit, ServeInvInvariant, <1>1, PTL DEF Spec
==============================================================================
