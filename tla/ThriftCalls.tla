---------------------------- MODULE ThriftCalls ----------------------------
(* The two ends of a call: the pool that the callers of a process share    *)
(* (module ThriftPool), and the server that accepts its connections        *)
(* (module ThriftServer).  All that a pool sees of its server is whether a *)
(* connection is open.                                                     *)
EXTENDS ThriftPool

CONSTANTS Links,   \* the connections of the server
          Stoppers, MaxCalls, MaxFailures, StopTimeout
VARIABLES accept, failures, listener, backlog, closed, mu, stopChan, stop, link, caller, calls

Server == INSTANCE ThriftServer WITH Conns <- Links, conn <- link

(* When TSimpleServer.Stop has returned, no request is handled and no      *)
(* goroutine of a connection is left.                                      *)
NothingAfterStop == Server!NothingAfterStop

(* Of the connections that innerAccept has accepted, at most one is        *)
(* forgotten: it came in while the server stopped.                         *)
AcceptedIsServed == Server!AcceptedIsServed
=============================================================================
