--------------------------- MODULE ThriftTransport ---------------------------
(***************************************************************************)
(* Calls over one Thrift connection (infra/rpc/thrift): the client of      *)
(* client.go, the framed, buffered and header transports, and the loop of  *)
(* a server, which finds out what a client speaks and answers in kind.     *)
(*                                                                         *)
(* What goes over the wire comes in units: the size of a frame, the head   *)
(* of a THeader frame, and the two parts of a message.  A part that is not *)
(* the one expected is an error, or is taken for it where nothing checks.  *)
(***************************************************************************)
EXTENDS Integers, Sequences, FiniteSets

CONSTANTS Clients,    \* what clients speak: transport, protocol
          Keys,       \* keys of headers
          MaxCalls,   \* bound: calls
          MaxFaults   \* bound: timeouts, aborted messages, contexts that end

ASSUME MaxCallsAssumption == MaxCalls \in Nat

\* A client has a THeaderTransport, a TFramedTransport or a TBufferedTransport.
ASSUME TransportsAssumption == \A c \in Clients : c.transport \in {"header", "framed", "buffered"}

VARIABLES
  client,   \* the client's configuration
  adapts,   \* the server has a THeaderTransport, or else the client's transport
  end,      \* the transport and protocol of each end
  wire,     \* units on their way to each end
  closed,   \* the connection is closed
  pc,       \* where each end is
  call,     \* the client's seqId
  asked,    \* the keys of headers of each call sent
  request,  \* the server: call and headers of the request
  served,   \* history: requests served
  result,   \* history: how each call ended
  aborts,   \* history: messages begun and not ended
  faults    \* faults so far

vars == <<client, adapts, end, wire, closed, pc, call, asked, request, served, result, aborts, faults>>

Ends == {"client", "server"}
Peer(e) == IF e = "client" THEN "server" ELSE "client"
Calls == 1..MaxCalls

Size(n) == [unit |-> "size", n |-> n]
Meta(t) == [unit |-> "meta", protocol |-> t.protocol, headers |-> t.writeHeaders]
Begin(c, p) == [unit |-> "begin", call |-> c, protocol |-> p]
Body(c) == [unit |-> "body", call |-> c]

Transport(e) == IF e = "server" /\ adapts THEN "header" ELSE client.transport

Init ==
  /\ client \in Clients
  /\ adapts \in IF client.transport = "header" THEN {TRUE} ELSE BOOLEAN
  /\ end = [e \in Ends |->
              [type |-> "unknown",
               protocol |-> IF e = "server" /\ adapts THEN "binary" ELSE client.protocol,
               frame |-> <<>>, reader |-> FALSE, writeBuffer |-> <<>>,
               readHeaders |-> {}, writeHeaders |-> {}]]
  /\ wire = [e \in Ends |-> <<>>] /\ closed = FALSE
  /\ pc = [client |-> "idle", server |-> "begin"]
  /\ call = 0 /\ asked = [c \in Calls |-> {}]
  /\ request = [call |-> 0, headers |-> {}]
  /\ served = <<>> /\ result = [c \in Calls |-> "none"] /\ aborts = 0 /\ faults = 0

-----------------------------------------------------------------------------
(* Reading.  An operator takes the transport and the units that wait for   *)
(* it, and gives both back with what has been read.                        *)

IsFramed(t) == t.type \in {"headers", "framed"}

(* As NeedReadFrame, if the type were asked for once (mutant).             *)
NeedReadFrameOnce(t) == t.type = "unknown"

NeedReadFrame(t) == t.type = "unknown" \/ (IsFramed(t) /\ ~t.reader)

(* The frame that waits is whole.                                          *)
Whole(units) == units # <<>> /\ (Head(units).unit = "size" => Len(units) > Head(units).n)

Failed(t, units) == [t |-> t, units |-> units, ok |-> FALSE]

EndOfFrame(t) == [t EXCEPT !.frame = <<>>, !.reader = FALSE]

(* THeaderTransport.ReadFrame, with a unit waiting.                        *)
HeaderFrame(t, units) ==
  LET first == Head(units)
      rest == SubSeq(units, first.n + 2, Len(units))
      frame == t.frame \o SubSeq(units, 2, first.n + 1)
      opened == [t EXCEPT !.frame = frame, !.reader = TRUE]
  IN CASE first.unit = "begin" ->
            [t |-> [t EXCEPT !.type = "unframed", !.protocol = first.protocol],
             units |-> units, ok |-> TRUE]
       [] first.unit \notin {"begin", "size"} -> Failed(t, units)
       [] first.unit = "size" /\ frame[1].unit = "meta" ->
            [t |-> [opened EXCEPT !.type = "headers", !.protocol = frame[1].protocol,
                                  !.readHeaders = frame[1].headers,
                                  !.frame = Tail(frame)],
             units |-> rest, ok |-> TRUE]
       [] first.unit = "size" /\ frame[1].unit = "begin" ->
            [t |-> [opened EXCEPT !.type = "framed", !.protocol = frame[1].protocol],
             units |-> rest, ok |-> TRUE]
       [] OTHER -> Failed(EndOfFrame(opened), rest)

(* TFramedTransport.readFrame.                                             *)
PlainFrame(t, units) ==
  IF Head(units).unit # "size" THEN Failed(t, Tail(units))
  ELSE [t |-> [t EXCEPT !.frame = SubSeq(units, 2, Head(units).n + 1)],
        units |-> SubSeq(units, Head(units).n + 2, Len(units)), ok |-> TRUE]

NeedsFrame(e) ==
  CASE Transport(e) = "header" -> NeedReadFrame(end[e])
    [] Transport(e) = "framed" -> end[e].frame = <<>>
    [] OTHER -> FALSE

ReadFrame(e) ==
  IF ~NeedsFrame(e) THEN [t |-> end[e], units |-> wire[e], ok |-> TRUE]
  ELSE IF Transport(e) = "header" THEN HeaderFrame(end[e], wire[e]) ELSE PlainFrame(end[e], wire[e])

(* What a read has to wait for.                                            *)
Ready(e) == IF NeedsFrame(e) THEN Whole(wire[e])
            ELSE end[e].frame # <<>> \/ wire[e] # <<>>

(* The next unit, and what is left.                                        *)
Read(f) ==
  IF f.t.frame = <<>>
  THEN [t |-> f.t, units |-> Tail(f.units), got |-> Head(f.units)]
  ELSE [t |-> IF f.t.reader /\ Len(f.t.frame) = 1 THEN EndOfFrame(f.t)
              ELSE [f.t EXCEPT !.frame = Tail(@)],
        units |-> f.units, got |-> Head(f.t.frame)]

(* The other side has gone, and what is left on the wire is not enough.    *)
AtEnd(e) == closed /\ ~Ready(e)

-----------------------------------------------------------------------------
(* Writing.                                                                *)
Write(e, units) == end' = [end EXCEPT ![e].writeBuffer = @ \o units]

(* THeaderTransport.Flush: a transport that has read nothing speaks        *)
(* THeader, any other one as it was spoken to.  A message is written to    *)
(* the socket in one piece, or the size first and the rest after it.       *)
Flush(t) ==
  LET headers == t.type \in {"unknown", "headers"} IN
    [t |-> [t EXCEPT !.type = IF headers THEN "headers" ELSE @, !.writeBuffer = <<>>],
     size |-> IF t.type = "unframed" THEN <<>>
              ELSE <<Size(Len(t.writeBuffer) + (IF headers THEN 1 ELSE 0))>>,
     payload |-> (IF headers THEN <<Meta(t)>> ELSE <<>>) \o t.writeBuffer]

Flushed(e) ==
  LET t == end[e]  emptied == [t EXCEPT !.writeBuffer = <<>>] IN
    CASE Transport(e) = "header" -> Flush(t)
      [] Transport(e) = "framed" ->
           [t |-> emptied, size |-> <<Size(Len(t.writeBuffer))>>, payload |-> t.writeBuffer]
      [] OTHER -> [t |-> emptied, size |-> <<>>, payload |-> t.writeBuffer]

Sends(e, units) == wire' = [wire EXCEPT ![Peer(e)] = IF closed THEN @ ELSE @ \o units]
Goto(e, label) == pc' = [pc EXCEPT ![e] = label]
Fault == faults < MaxFaults /\ faults' = faults + 1

WriteSize(e) ==
  /\ pc[e] = "flush"
  /\ Sends(e, Flushed(e).size) /\ Goto(e, "payload")
  /\ UNCHANGED <<client, adapts, end, closed, call, asked, request, served, result, aborts, faults>>

(* The rest, after which a client that waits no longer takes its call for  *)
(* failed although the message is on its way.                              *)
WritePayload(e) ==
  /\ pc[e] = "payload"
  /\ Sends(e, Flushed(e).payload)
  /\ end' = [end EXCEPT ![e] = Flushed(e).t]
  /\ \/ Goto(e, "begin") /\ UNCHANGED <<result, faults>>
     \/ e = "client" /\ Transport(e) = "header" /\ Fault /\ Goto(e, "idle")
        /\ result' = [result EXCEPT ![call] = "error"]
  /\ UNCHANGED <<client, adapts, closed, call, asked, request, served, aborts>>

-----------------------------------------------------------------------------
(* TStandardClient.                                                        *)

(* As Send, if the headers of the last call stayed (mutant).               *)
SendKeepsHeaders(keys) ==
  /\ pc.client = "idle" /\ ~closed /\ call < MaxCalls
  /\ call' = call + 1 /\ asked' = [asked EXCEPT ![call + 1] = keys]
  /\ end' = [end EXCEPT !.client.writeHeaders = @ \union keys,
                        !.client.writeBuffer = Append(@, Begin(call + 1, end.client.protocol))]
  /\ Goto("client", "args")
  /\ UNCHANGED <<client, adapts, wire, closed, request, served, result, aborts, faults>>

Send(keys) ==
  /\ pc.client = "idle" /\ ~closed /\ call < MaxCalls
  /\ call' = call + 1 /\ asked' = [asked EXCEPT ![call + 1] = keys]
  /\ end' = [end EXCEPT !.client.writeHeaders = keys,
                        !.client.writeBuffer = Append(@, Begin(call + 1, end.client.protocol))]
  /\ Goto("client", "args")
  /\ UNCHANGED <<client, adapts, wire, closed, request, served, result, aborts, faults>>

WriteArgs ==
  /\ pc.client = "args"
  /\ Write("client", <<Body(call)>>) /\ Goto("client", "flush")
  /\ UNCHANGED <<client, adapts, wire, closed, call, asked, request, served, result, aborts, faults>>

(* args.Write fails: Send returns, and what was written stays.             *)
AbortArgs ==
  /\ pc.client = "args" /\ Fault
  /\ aborts' = aborts + 1
  /\ result' = [result EXCEPT ![call] = "error"] /\ Goto("client", "idle")
  /\ UNCHANGED <<client, adapts, end, wire, closed, call, asked, request, served>>

Receives(e, r) == /\ end' = [end EXCEPT ![e] = r.t]
                  /\ wire' = [wire EXCEPT ![e] = r.units]

(* As Accepted, if the sequence number did not matter (mutant).            *)
AcceptedAnyway(unit, p) == unit.unit = "begin" /\ unit.protocol = p

(* The begin of the reply: protocol, method and sequence number.           *)
Accepted(unit, p) == unit.unit = "begin" /\ unit.protocol = p /\ unit.call = call

RecvBegin ==
  LET f == ReadFrame("client") IN
    /\ pc.client = "begin" /\ Ready("client")
    /\ IF f.ok
       THEN LET r == Read(f)  ok == Accepted(r.got, f.t.protocol) IN
              /\ Receives("client", r)
              /\ Goto("client", IF ok THEN "body" ELSE "idle")
              /\ result' = IF ok THEN result ELSE [result EXCEPT ![call] = "error"]
       ELSE /\ Receives("client", f) /\ Goto("client", "idle")
            /\ result' = [result EXCEPT ![call] = "error"]
    /\ UNCHANGED <<client, adapts, closed, call, asked, request, served, aborts, faults>>

(* The body: what comes is read as one.                                    *)
RecvBody ==
  LET f == ReadFrame("client") IN
    /\ pc.client = "body" /\ Ready("client")
    /\ Receives("client", IF f.ok THEN Read(f) ELSE f)
    /\ LET got == Read(f).got IN
         \E outcome \in IF ~f.ok \/ got.unit # "body" THEN {"error", "garbage"}
                        ELSE IF got.call = call THEN {"own"} ELSE {"other"} :
           result' = [result EXCEPT ![call] = outcome]
    /\ Goto("client", "idle")
    /\ UNCHANGED <<client, adapts, closed, call, asked, request, served, aborts, faults>>

(* The socket's timeout: in the middle of a frame what has come of it is   *)
(* left in the buffer of the transport.                                    *)
TimeOut ==
  LET t == end.client IN
    /\ pc.client \in {"begin", "body"} /\ ~Ready("client") /\ ~closed /\ Fault
    /\ IF NeedsFrame("client") /\ wire.client # <<>>
       THEN /\ end' = [end EXCEPT !.client.frame = @ \o Tail(wire.client)]
            /\ wire' = [wire EXCEPT !.client = <<>>]
       ELSE UNCHANGED <<end, wire>>
    /\ result' = [result EXCEPT ![call] = "error"] /\ Goto("client", "idle")
    /\ UNCHANGED <<client, adapts, closed, call, asked, request, served, aborts>>

(* The caller closes the connection after an error, or finds it closed.    *)
CloseClient ==
  /\ \/ pc.client = "idle" /\ call > 0 /\ result[call] \notin {"own", "none"} /\ ~closed
        /\ UNCHANGED result
     \/ pc.client \in {"begin", "body"} /\ AtEnd("client")
        /\ result' = [result EXCEPT ![call] = "error"]
  /\ closed' = TRUE /\ Goto("client", "idle")
  /\ UNCHANGED <<client, adapts, end, wire, call, asked, request, served, aborts, faults>>

-----------------------------------------------------------------------------
(* processRequests.                                                        *)
CloseServer == closed' = TRUE /\ Goto("server", "closed")

ServeBegin ==
  LET f == ReadFrame("server") IN
    /\ pc.server = "begin" /\ Ready("server")
    /\ IF f.ok /\ Read(f).got.unit = "begin" /\ Read(f).got.protocol = f.t.protocol
       THEN /\ Receives("server", Read(f)) /\ Goto("server", "body")
            /\ request' = [call |-> Read(f).got.call, headers |-> f.t.readHeaders]
            /\ UNCHANGED closed
       ELSE Receives("server", f) /\ CloseServer /\ UNCHANGED request
    /\ UNCHANGED <<client, adapts, call, asked, served, result, aborts, faults>>

ServeBody ==
  LET f == ReadFrame("server")  garbage == ~f.ok \/ Read(f).got.unit # "body" IN
    /\ pc.server = "body" /\ Ready("server")
    /\ Receives("server", IF f.ok THEN Read(f) ELSE f)
    /\ \/ /\ Goto("server", "reply") /\ UNCHANGED closed
          /\ served' = Append(served,
               [call |-> request.call, args |-> IF garbage THEN 0 ELSE Read(f).got.call,
                headers |-> request.headers])
       \/ garbage /\ CloseServer /\ UNCHANGED served
    /\ UNCHANGED <<client, adapts, call, asked, request, result, aborts, faults>>

(* The reply, in the protocol of the request and with headers the handler  *)
(* may add to those of earlier replies.                                    *)
Reply(keys) ==
  /\ pc.server = "reply"
  /\ end' = [end EXCEPT !.server.writeHeaders = @ \union keys,
                        !.server.writeBuffer =
                           @ \o <<Begin(request.call, end.server.protocol), Body(request.call)>>]
  /\ Goto("server", "flush")
  /\ UNCHANGED <<client, adapts, wire, closed, call, asked, request, served, result, aborts, faults>>

(* result.Write fails: the reply stays in the buffer.                      *)
AbortReply ==
  /\ pc.server = "reply" /\ Fault
  /\ aborts' = aborts + 1
  /\ Write("server", <<Begin(request.call, end.server.protocol)>>) /\ Goto("server", "begin")
  /\ UNCHANGED <<client, adapts, wire, closed, call, asked, request, served, result>>

ServeEnd ==
  /\ pc.server \in {"begin", "body"} /\ AtEnd("server")
  /\ CloseServer
  /\ UNCHANGED <<client, adapts, end, wire, call, asked, request, served, result, aborts, faults>>

-----------------------------------------------------------------------------
ClientStep == WriteArgs \/ WriteSize("client") \/ WritePayload("client") \/ RecvBegin \/ RecvBody
ServerStep == \/ ServeBegin \/ ServeBody \/ (\E keys \in SUBSET Keys : Reply(keys))
              \/ WriteSize("server") \/ WritePayload("server") \/ ServeEnd

Next == \/ ClientStep \/ ServerStep \/ AbortArgs \/ TimeOut \/ CloseClient \/ AbortReply
        \/ \E keys \in SUBSET Keys : Send(keys)

(* Both ends run.                                                          *)
Fairness == WF_vars(ClientStep) /\ WF_vars(ServerStep)
Spec == Init /\ [][Next]_vars /\ Fairness

-----------------------------------------------------------------------------
(* A call that succeeds returns the reply to itself: replies that come     *)
(* after their call has timed out, and what aborted messages leave behind, *)
(* never pass for the reply to a later call.                               *)
OwnReply == \A c \in Calls : result[c] \notin {"other", "garbage"}

(* Whatever the transport, the server serves the calls in order, each at   *)
(* most once, with its own arguments and the headers of its own context,   *)
(* until a message has been aborted.                                       *)
ServesWhatWasSent ==
  aborts = 0 =>
    \A i \in DOMAIN served :
      /\ served[i].args = served[i].call
      /\ served[i].headers = IF client.transport = "header" THEN asked[served[i].call] ELSE {}
      /\ \A j \in 1..(i - 1) : served[j].call < served[i].call

(* Every call gets its reply, in a language the client understands, unless *)
(* a fault happens.                                                        *)
CallAnswered ==
  \A c \in Calls :
    (call = c /\ pc.client = "args") ~> (result[c] = "own" \/ faults > 0)
=============================================================================
