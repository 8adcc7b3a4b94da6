---------------------------- MODULE MCThriftPool ----------------------------
(* The two ends of a call: ThriftPool with two callers, a pool of one      *)
(* connection and one Release, and ThriftServer with two callers and two   *)
(* connections.  A pool sees of its server only whether a connection is    *)
(* open, so one end runs and the other stands still.                       *)
EXTENDS ThriftCalls

VARIABLE kind

serverVars == <<accept, failures, listener, backlog, closed, mu, stopChan, stop, link, caller, calls>>
all == <<kind, vars, serverVars>>

MCInit ==
  /\ kind \in {"client", "server"} /\ Init /\ Server!Init
  /\ kind = "client" \/ idle = <<>>

ClientDoes(A) == kind = "client" /\ A /\ UNCHANGED <<kind, serverVars>>
ServerDoes(A) == kind = "server" /\ A /\ UNCHANGED <<kind, vars>>

MCNext == ClientDoes(Next) \/ ServerDoes(Server!Next)

(* kind never changes: each line is the fairness of either module.         *)
MCFairness ==
  /\ \A p \in Callers : WF_all(ClientDoes(Scheduled(p)) \/ ServerDoes(Server!CallerStep(p)))
  /\ WF_all(ClientDoes(Reap) \/ ServerDoes(Server!AcceptStep))
  /\ \A s \in Stoppers : WF_all(ClientDoes(ReleaseRest) \/ ServerDoes(Server!StopStep(s)))
  /\ \A c \in Links : /\ WF_all(ServerDoes(Server!ConnStep(c)))
                      /\ WF_all(ServerDoes(Server!CloserEnds(c)))

MCSpec == MCInit /\ [][MCNext]_all /\ MCFairness

(* Stop of the server returns.                                             *)
StopReturns == kind = "server" => Server!StopReturns
=============================================================================
