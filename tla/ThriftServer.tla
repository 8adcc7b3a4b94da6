---------------------------- MODULE ThriftServer ----------------------------
(***************************************************************************)
(* TSimpleServer and TServerSocket, with the callers that talk to it       *)
(* through ThriftPoolAgent.Do.  The server accepts in one goroutine, and   *)
(* every connection has two more: one answers its requests, one closes the *)
(* connection when Stop gives up waiting.  Stop holds the mutex that       *)
(* innerAccept takes after Accept has returned.                            *)
(***************************************************************************)
EXTENDS Integers, Sequences, FiniteSets

CONSTANTS Callers,       \* goroutines that call Do, each with a connection of its own
          Stoppers,      \* goroutines that call Stop
          Conns,         \* connections there can be at one time, 1..n
          MaxCalls,      \* bound: calls of Do
          MaxFailures,   \* bound: errors of Accept
          StopTimeout    \* ServerStopTimeout > 0

(* A call gets a reply and a oneway none.  What the server makes of them:  *)
(* an unknown method is answered with an exception, the service of a       *)
(* multiplexed name is not registered, the handler abandons the request.   *)
Kinds == {"call", "oneway"}
Outcomes == {"handled", "unknown method", "unknown service", "abandoned"}

VARIABLES
  accept,     \* the accepting goroutine: pc and the connection it got, 0 for an error
  failures,   \* errors of Accept
  listener,   \* "open" or "closed"
  backlog,    \* connections dialled and not accepted
  closed,     \* TSimpleServer.closed
  mu,         \* holder of TSimpleServer.mu across steps, a stopper or "free"
  stopChan,   \* "open" or "closed"
  stop,       \* pc of each stopper
  conn,       \* the connections
  caller,     \* the callers
  calls       \* calls of Do so far

vars == <<accept, failures, listener, backlog, closed, mu, stopChan, stop, conn, caller, calls>>

(* cli and srv: the two ends.  req and rep: what is under way in each      *)
(* direction.  serving and closer: the two goroutines, now the request     *)
(* that is handled.                                                        *)
Unused == [cli |-> "none", srv |-> "none", req |-> <<>>, rep |-> 0,
           serving |-> "none", now |-> "none", closer |-> "none"]

TypeOK ==
  /\ accept \in [pc : {"accept", "lock", "ended"}, conn : {0} \union Conns]
  /\ failures \in 0..MaxFailures
  /\ listener \in {"open", "closed"}
  /\ backlog \in Seq(Conns) /\ closed \in BOOLEAN
  /\ mu \in {"free"} \union Stoppers /\ stopChan \in {"open", "closed"}
  /\ stop \in [Stoppers -> {"idle", "interrupt", "wait", "close chan", "join", "done"}]
  /\ conn \in [Conns ->
       [cli : {"none", "open", "closed"}, srv : {"none", "queued", "accepted", "open", "closed"},
        req : Seq(Kinds), rep : 0..1, now : {"none"} \union Kinds \union {"abandoned"},
        serving : {"none", "check", "read", "handler", "ended"},
        closer : {"none", "wait", "ended"}]]
  /\ caller \in [Callers ->
       [pc : {"idle", "dial", "send", "recv"}, conn : {0} \union Conns,
        kind : {"none"} \union Kinds, tries : 0..1]]
  /\ calls \in 0..MaxCalls

Init ==
  /\ accept = [pc |-> "accept", conn |-> 0] /\ failures = 0
  /\ listener = "open" /\ backlog = <<>>
  /\ closed = FALSE /\ mu = "free" /\ stopChan = "open"
  /\ stop = [s \in Stoppers |-> "idle"]
  /\ conn = [c \in Conns |-> Unused]
  /\ caller = [k \in Callers |-> [pc |-> "idle", conn |-> 0, kind |-> "none", tries |-> 0]]
  /\ calls = 0

Live(c) == conn[c].serving \notin {"none", "ended"}
Watched(c) == conn[c].closer = "wait"

(* wg: two for every connection that is served.                            *)
wg == Cardinality({c \in Conns : Live(c)}) + Cardinality({c \in Conns : Watched(c)})

(* Both ends closed and both goroutines gone: its number can be used again.*)
Gone(x) == x.cli = "closed" /\ x.srv = "closed" /\ x.serving \in {"none", "ended"} /\ x.closer # "wait"
Settle(f) == [c \in Conns |-> IF Gone(f[c]) THEN Unused ELSE f[c]]
Free == {c \in Conns : conn[c] = Unused}

-----------------------------------------------------------------------------
(* A caller takes the connection it has, or asks for one.                  *)
Do(k, kind) ==
  /\ caller[k].pc = "idle" /\ calls < MaxCalls
  /\ caller' = [caller EXCEPT ![k].pc = IF caller[k].conn # 0 THEN "send" ELSE "dial",
                              ![k].kind = kind, ![k].tries = 0]
  /\ calls' = calls + 1
  /\ UNCHANGED <<accept, failures, listener, backlog, closed, mu, stopChan, stop, conn>>

Returned(k, c) ==
  caller' = [caller EXCEPT ![k].pc = "idle", ![k].kind = "none", ![k].tries = 0, ![k].conn = c]

(* The kernel completes a connection for as long as the socket listens.    *)
Dial(k) ==
  /\ caller[k].pc = "dial" /\ listener # "closed" /\ Free # {}
  /\ \E c \in {x \in Free : \A y \in Free : x <= y} :
       /\ conn' = [conn EXCEPT ![c].cli = "open", ![c].srv = "queued"]
       /\ backlog' = Append(backlog, c)
       /\ caller' = [caller EXCEPT ![k].pc = "send", ![k].conn = c]
  /\ UNCHANGED <<accept, failures, listener, closed, mu, stopChan, stop, calls>>

DialFails(k) ==
  /\ caller[k].pc = "dial" /\ listener = "closed"
  /\ Returned(k, 0)
  /\ UNCHANGED <<accept, failures, listener, backlog, closed, mu, stopChan, stop, conn, calls>>

(* What is written to an end that the server has closed is lost.  Nobody   *)
(* waits for the answer to a oneway.                                       *)
Send(k) ==
  LET c == caller[k].conn  kind == caller[k].kind IN
    /\ caller[k].pc = "send"
    /\ conn' = IF conn[c].srv = "closed" THEN conn ELSE [conn EXCEPT ![c].req = Append(@, kind)]
    /\ IF kind = "oneway" THEN Returned(k, c) ELSE caller' = [caller EXCEPT ![k].pc = "recv"]
    /\ UNCHANGED <<accept, failures, listener, backlog, closed, mu, stopChan, stop, calls>>

Recv(k) ==
  LET c == caller[k].conn IN
    /\ caller[k].pc = "recv" /\ conn[c].rep = 1
    /\ conn' = [conn EXCEPT ![c].rep = 0]
    /\ Returned(k, c)
    /\ UNCHANGED <<accept, failures, listener, backlog, closed, mu, stopChan, stop, calls>>

(* The end of the stream is a TTransportException: the agent reconnects    *)
(* and calls once more.                                                    *)
RecvFails(k) ==
  LET c == caller[k].conn IN
    /\ caller[k].pc = "recv" /\ conn[c].rep = 0 /\ conn[c].srv = "closed"
    /\ conn' = Settle([conn EXCEPT ![c].cli = "closed"])
    /\ IF caller[k].tries = 0
       THEN caller' = [caller EXCEPT ![k].pc = "dial", ![k].conn = 0, ![k].tries = 1]
       ELSE Returned(k, 0)
    /\ UNCHANGED <<accept, failures, listener, backlog, closed, mu, stopChan, stop, calls>>

(* The pool closes a connection that is not in use.                        *)
Hangup(k) ==
  LET c == caller[k].conn IN
    /\ caller[k].pc = "idle" /\ c # 0
    /\ conn' = Settle([conn EXCEPT ![c].cli = "closed"])
    /\ caller' = [caller EXCEPT ![k].conn = 0]
    /\ UNCHANGED <<accept, failures, listener, backlog, closed, mu, stopChan, stop, calls>>

-----------------------------------------------------------------------------
(* TServerSocket.Accept: an interrupted or closed listener is an error,    *)
(* before the wait for a connection and during it.                         *)
AcceptConn ==
  /\ accept.pc = "accept" /\ backlog # <<>>
  /\ accept' = [pc |-> "lock", conn |-> Head(backlog)]
  /\ backlog' = Tail(backlog)
  /\ conn' = [conn EXCEPT ![Head(backlog)].srv = "accepted"]
  /\ UNCHANGED <<failures, listener, closed, mu, stopChan, stop, caller, calls>>

AcceptInterrupted ==
  /\ accept.pc = "accept" /\ listener = "closed"
  /\ accept' = [accept EXCEPT !.pc = "lock"]
  /\ UNCHANGED <<failures, listener, backlog, closed, mu, stopChan, stop, conn, caller, calls>>

(* Too many open files, say.                                               *)
AcceptFails ==
  /\ accept.pc = "accept" /\ failures < MaxFailures
  /\ accept' = [accept EXCEPT !.pc = "lock"] /\ failures' = failures + 1
  /\ UNCHANGED <<listener, backlog, closed, mu, stopChan, stop, conn, caller, calls>>

(* As AcceptLocked, if closed were not looked at (mutant).                 *)
AcceptLockedUnchecked ==
  /\ accept.pc = "lock" /\ mu = "free"
  /\ IF accept.conn = 0
     THEN accept' = [accept EXCEPT !.pc = "ended"] /\ UNCHANGED conn
     ELSE /\ accept' = [pc |-> "accept", conn |-> 0]
          /\ conn' = [conn EXCEPT ![accept.conn].srv = "open", ![accept.conn].serving = "check",
                                  ![accept.conn].closer = "wait"]
  /\ UNCHANGED <<failures, listener, backlog, closed, mu, stopChan, stop, caller, calls>>

(* The rest of innerAccept, under the mutex.  A connection that comes in   *)
(* while the server stops is neither served nor closed, and the first      *)
(* error ends AcceptLoop and Serve.                                        *)
AcceptLocked ==
  /\ accept.pc = "lock" /\ mu = "free"
  /\ IF closed \/ accept.conn = 0
     THEN accept' = [accept EXCEPT !.pc = "ended"] /\ UNCHANGED conn
     ELSE /\ accept' = [pc |-> "accept", conn |-> 0]
          /\ conn' = [conn EXCEPT ![accept.conn].srv = "open", ![accept.conn].serving = "check",
                                  ![accept.conn].closer = "wait"]
  /\ UNCHANGED <<failures, listener, backlog, closed, mu, stopChan, stop, caller, calls>>

-----------------------------------------------------------------------------
(* The deferred calls of processRequests and of its goroutine: both        *)
(* transports are closed, the context is cancelled, wg.Done.               *)
Ended(c) == Settle([conn EXCEPT ![c].serving = "ended", ![c].srv = "closed", ![c].now = "none"])

(* processRequests looks at closed before every request, and never while   *)
(* it waits for one.                                                       *)
CheckClosed(c) ==
  /\ conn[c].serving = "check"
  /\ conn' = IF closed THEN Ended(c) ELSE [conn EXCEPT ![c].serving = "read"]
  /\ UNCHANGED <<accept, failures, listener, backlog, closed, mu, stopChan, stop, caller, calls>>

(* Process reads a request: an unknown method is answered and the loop     *)
(* goes on, an unknown service ends it.                                    *)
Read(c, outcome) ==
  /\ conn[c].serving = "read" /\ conn[c].srv = "open" /\ conn[c].req # <<>>
  /\ outcome = "unknown method" => Head(conn[c].req) = "call"
  /\ LET taken == [conn EXCEPT ![c].req = Tail(@)] IN
       conn' = CASE outcome = "unknown method" ->
                      [taken EXCEPT ![c].rep = 1, ![c].serving = "check"]
                 [] outcome = "unknown service" -> Ended(c)
                 [] outcome = "abandoned" ->
                      [taken EXCEPT ![c].now = outcome, ![c].serving = "handler"]
                 [] outcome = "handled" ->
                      [taken EXCEPT ![c].now = Head(conn[c].req), ![c].serving = "handler"]
  /\ UNCHANGED <<accept, failures, listener, backlog, closed, mu, stopChan, stop, caller, calls>>

(* The client has gone, or the connection was closed on this side.         *)
ReadFails(c) ==
  /\ conn[c].serving = "read"
  /\ conn[c].srv = "closed" \/ (conn[c].req = <<>> /\ conn[c].cli = "closed")
  /\ conn' = Ended(c)
  /\ UNCHANGED <<accept, failures, listener, backlog, closed, mu, stopChan, stop, caller, calls>>

(* The handler returns.  A reply that cannot be written is a transport     *)
(* exception and ends the loop; ErrAbandonRequest closes the connection.   *)
HandlerReturns(c) ==
  /\ conn[c].serving = "handler"
  /\ LET writes == conn[c].now = "call" /\ conn[c].srv = "open" /\ conn[c].cli = "open" IN
       conn' = IF writes \/ conn[c].now = "oneway"
               THEN [conn EXCEPT ![c].now = "none", ![c].serving = "check",
                                 ![c].rep = IF writes THEN 1 ELSE @]
               ELSE Ended(c)
  /\ UNCHANGED <<accept, failures, listener, backlog, closed, mu, stopChan, stop, caller, calls>>

(* As CloserEnds, if it only waited for the context (mutant).              *)
CloserEndsWithServing(c) ==
  /\ conn[c].closer = "wait" /\ conn[c].serving = "ended"
  /\ conn' = Settle([conn EXCEPT ![c].closer = "ended"])
  /\ UNCHANGED <<accept, failures, listener, backlog, closed, mu, stopChan, stop, caller, calls>>

(* As CloserEnds, if a new stopChan were waited for or none (mutant).      *)
CloserEndsAtOnce(c) ==
  /\ conn[c].closer = "wait"
  /\ conn' = Settle([conn EXCEPT ![c].closer = "ended"])
  /\ UNCHANGED <<accept, failures, listener, backlog, closed, mu, stopChan, stop, caller, calls>>

(* The second goroutine: the context is done, or stopChan is closed.       *)
CloserEnds(c) ==
  /\ conn[c].closer = "wait"
  /\ \/ conn[c].serving = "ended" /\ conn' = Settle([conn EXCEPT ![c].closer = "ended"])
     \/ stopChan = "closed" /\ conn' = Settle([conn EXCEPT ![c].closer = "ended", ![c].srv = "closed"])
  /\ UNCHANGED <<accept, failures, listener, backlog, closed, mu, stopChan, stop, caller, calls>>

-----------------------------------------------------------------------------
(* Stop: the mutex, then closed.  Whoever comes second waits for the mutex *)
(* and finds the server closed.                                            *)
StopStart(s) ==
  /\ stop[s] = "idle" /\ mu = "free"
  /\ IF closed THEN stop' = [stop EXCEPT ![s] = "done"] /\ UNCHANGED <<closed, mu>>
     ELSE stop' = [stop EXCEPT ![s] = "interrupt"] /\ closed' = TRUE /\ mu' = s
  /\ UNCHANGED <<accept, failures, listener, backlog, stopChan, conn, caller, calls>>

(* TServerSocket.Interrupt, the flag and Close in one step: whoever accepts *)
(* between the two gets an error as well.  Connections that wait to be     *)
(* accepted are reset with the listener.                                   *)
StopInterrupt(s) ==
  /\ stop[s] = "interrupt"
  /\ listener' = "closed" /\ backlog' = <<>>
  /\ conn' = Settle([c \in Conns |->
                       IF conn[c].srv = "queued" THEN [conn[c] EXCEPT !.srv = "closed"] ELSE conn[c]])
  /\ stop' = [stop EXCEPT ![s] = "wait"]
  /\ UNCHANGED <<accept, failures, closed, mu, stopChan, caller, calls>>

(* Everybody has gone, or the time is up.                                  *)
StopWait(s) ==
  /\ stop[s] = "wait" /\ (StopTimeout \/ wg = 0)
  /\ stop' = [stop EXCEPT ![s] = IF StopTimeout THEN "close chan" ELSE "join"]
  /\ UNCHANGED <<accept, failures, listener, backlog, closed, mu, stopChan, conn, caller, calls>>

StopCloseChan(s) ==
  /\ stop[s] = "close chan"
  /\ stopChan' = "closed" /\ stop' = [stop EXCEPT ![s] = "join"]
  /\ UNCHANGED <<accept, failures, listener, backlog, closed, mu, conn, caller, calls>>

Joined(s) == wg = 0

StopJoin(s) ==
  /\ stop[s] = "join" /\ Joined(s)
  /\ stopChan' = "open" /\ mu' = "free" /\ stop' = [stop EXCEPT ![s] = "done"]
  /\ UNCHANGED <<accept, failures, listener, backlog, closed, conn, caller, calls>>

-----------------------------------------------------------------------------
CallerStep(k) == Dial(k) \/ DialFails(k) \/ Send(k) \/ Recv(k) \/ RecvFails(k)
AcceptStep ==
  AcceptConn \/ AcceptInterrupted \/ AcceptLocked
ConnStep(c) ==
  CheckClosed(c) \/ (\E outcome \in Outcomes : Read(c, outcome)) \/ ReadFails(c) \/ HandlerReturns(c)
StopStep(s) == StopInterrupt(s) \/ StopWait(s) \/ StopCloseChan(s) \/ StopJoin(s)

Next ==
  \/ \E k \in Callers : CallerStep(k) \/ Hangup(k) \/ \E kind \in Kinds : Do(k, kind)
  \/ AcceptStep \/ AcceptFails
  \/ \E c \in Conns : ConnStep(c) \/ CloserEnds(c)
  \/ \E s \in Stoppers : StopStart(s) \/ StopStep(s)

(* The goroutines are scheduled, handlers return and a mutex that is free  *)
(* is taken in the end; nobody has to call Do or Stop.                     *)
Fairness ==
  /\ \A k \in Callers : WF_vars(CallerStep(k))
  /\ WF_vars(AcceptStep)
  /\ \A c \in Conns : WF_vars(ConnStep(c)) /\ WF_vars(CloserEnds(c))
  /\ \A s \in Stoppers : WF_vars(StopStep(s))

Spec == Init /\ [][Next]_vars /\ Fairness

-----------------------------------------------------------------------------
(* When Stop has returned, to whoever called it, no request is handled and *)
(* no goroutine of a connection is left.                                   *)
NothingAfterStop ==
  (\E s \in Stoppers : stop[s] = "done") => wg = 0 /\ \A c \in Conns : conn[c].now = "none"

(* A connection the server has accepted has its two goroutines, or is in   *)
(* the hands of the accepting one; at most one, which came in while the    *)
(* server stopped, is forgotten: no goroutine, and never closed.           *)
Forgotten(c) == conn[c].srv = "accepted" /\ accept.pc = "ended" /\ accept.conn = c
AcceptedIsServed ==
  /\ \A c \in Conns : conn[c].srv \in {"accepted", "open"} =>
       \/ Live(c) /\ Watched(c)
       \/ Live(c) /\ stopChan = "closed"
       \/ accept.conn = c
  /\ \A c \in Conns : Forgotten(c) => closed

(* With a timeout, Stop returns: whatever the clients do.                  *)
StopReturns == \A s \in Stoppers : stop[s] # "idle" ~> stop[s] = "done"

=============================================================================
