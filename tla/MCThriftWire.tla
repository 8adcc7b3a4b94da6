---------------------------- MODULE MCThriftWire ----------------------------
(* Instances of the protocols, with values and messages that meet every    *)
(* form of a header, and of the transports below them.  One of the two     *)
(* runs, and the other stands still.                                       *)
EXTENDS ThriftTransport

CONSTANTS Values, Messages, MaxUses, NumBits, GroupBits, MaxDepth, MaxSize
VARIABLES layer,
  mode, proto, strict, wrapper, duplicate, writer, reader, units, sent, uses, read, copy

protocolVars == <<mode, proto, strict, wrapper, duplicate, writer, reader, units, sent, uses, read, copy>>

Protocols == INSTANCE ThriftWire WITH wire <- units

Bool(b) == [t |-> "bool", v |-> b]
Num(n) == [t |-> "num", v |-> n]
Str(s) == [t |-> "str", v |-> s]
Struct(f) == [t |-> "struct", f |-> f]
List(e, xs) == [t |-> "list", e |-> e, xs |-> xs]
Map(k, e, xs) == [t |-> "map", k |-> k, e |-> e, xs |-> xs]

(* Ids that rise by little, by 15, by more than 15, that fall and that are *)
(* negative; booleans and numbers at the ends of their range.              *)
Fields ==
  Struct(<<<<1, Bool(TRUE)>>, <<16, Num(-32)>>, <<32, Bool(FALSE)>>, <<2, Str("")>>,
           <<-1, Num(31)>>, <<1, Str("a")>>>>)

(* A struct between two fields of another, and booleans in a list.         *)
Nested ==
  Struct(<<<<3, Struct(<<<<5, Num(-1)>>, <<6, Bool(TRUE)>>>>)>>, <<4, Bool(FALSE)>>,
           <<9, List("bool", <<Bool(FALSE), Bool(TRUE)>>)>>>>)

Maps ==
  Struct(<<<<1, Map("num", "bool", <<Num(7), Bool(TRUE), Num(8), Bool(FALSE)>>)>>,
           <<2, Map("str", "struct", <<Str("a"), Struct(<<<<1, Num(0)>>>>)>>)>>>>)

Empty == Struct(<<<<3, Map("num", "str", <<>>)>>, <<4, List("num", <<>>)>>>>)
Bools == Struct(<<<<1, List("bool", <<Bool(FALSE), Bool(FALSE)>>)>>, <<2, Bool(TRUE)>>>>)
Deep == Struct(<<<<1, Struct(<<<<1, Struct(<<<<1, Struct(<<<<2, Bool(TRUE)>>>>)>>>>)>>>>)>>>>)
Long(n) == Struct(<<<<1, List("num", [i \in 1..n |-> Num(i)])>>>>)

MCValues ==
  {Struct(<<>>), Fields, Nested, Maps, Empty, Bools, Deep, Long(14), Long(15), Long(17)}

MCMessages ==
  {[name |-> "ping", type |-> "call", seqid |-> 2, args |-> Struct(<<>>)],
   [name |-> "get", type |-> "call", seqid |-> 1, args |-> Fields],
   [name |-> "", type |-> "oneway", seqid |-> -32, args |-> Nested],
   [name |-> "put", type |-> "call", seqid |-> 31, args |-> Deep],
   [name |-> "put", type |-> "call", seqid |-> 0, args |-> Long(15)]}
-----------------------------------------------------------------------------
MCClients == [transport : {"header", "framed", "buffered"}, protocol : {"binary", "compact"}]

MCInit ==
  \/ layer = "protocols" /\ Init /\ Protocols!Init
       /\ client = [transport |-> "header", protocol |-> "binary"]
  \/ layer = "transports" /\ Init /\ Protocols!Init
       /\ mode = "pool" /\ proto = "json" /\ wrapper = "debug"

MCNext ==
  /\ layer' = layer
  /\ \/ layer = "protocols" /\ Protocols!Next /\ UNCHANGED vars
     \/ layer = "transports" /\ Next /\ UNCHANGED protocolVars

MCFairness ==
  /\ WF_vars(layer = "transports" /\ ClientStep)
  /\ WF_vars(layer = "transports" /\ ServerStep)

MCSpec == MCInit /\ [][MCNext]_<<layer, vars, protocolVars>> /\ MCFairness

(* What one end reads is what the other has written.                       *)
RoundTrip == Protocols!RoundTrip

(* What TJSONProtocol and TSimpleJSONProtocol write is JSON.               *)
WritesJSON == Protocols!WritesJSON

(* So is what TDuplicateToProtocol copies of what is read.                 *)
CopyOfReadsIsJSON == Protocols!CopyOfReadsIsJSON
=============================================================================
