----------------------------- MODULE ThriftWire -----------------------------
(***************************************************************************)
(* Protocol objects in use.  A serializer and a deserializer of a pool     *)
(* (serializer.go, deserializer.go) are used again and again for values    *)
(* that share nothing, also after a use that ended in an error; the two    *)
(* ends of a connection (stream) are used for one message after another.   *)
(* Either way a protocol object carries its state from one use to the next.*)
(* Each is wrapped in a TDebugProtocol or, with a duplicate, also in a     *)
(* TDuplicateToProtocol: a TSimpleJSONProtocol of a buffer of its own gets *)
(* what is written and read.                                               *)
(***************************************************************************)
EXTENDS ThriftReaders, FiniteSetsExt

CONSTANTS Values,     \* structs for the pools
          Messages,   \* messages for the streams
          MaxUses     \* bound: values serialized, messages sent

Protocols == {"binary", "compact", "json", "simple"}

VARIABLES
  mode,      \* "pool" or "stream"
  proto,     \* the protocol of both objects
  strict,    \* TBinaryStrictWrite and TBinaryStrictRead of the two ends
  wrapper,   \* "debug" or "duplicate"
  duplicate, \* DuplicateTo is set
  writer,    \* the writing protocol object; out is what its last use wrote
  reader,    \* the reading protocol object
  wire,      \* the units that are written and not read
  sent,      \* the values they stand for
  uses,      \* uses of the writer
  read,      \* the outcome of the last use of the reader
  copy       \* what DuplicateTo wrote in the last use of either

config == <<mode, proto, strict, wrapper, duplicate>>
vars == <<config, writer, reader, wire, sent, uses, read, copy>>

NewWriter ==
  [out |-> <<>>, last |-> <<>>, id |-> 0, pending |-> FALSE, boolId |-> 0, ctx |-> TopLevel]

NewReader ==
  [in |-> <<>>, err |-> "ok", val |-> <<>>, got |-> <<>>, last |-> <<>>, id |-> 0,
   boolv |-> "none", ctx |-> TopLevel]

NotRead == [x |-> <<>>, err |-> "none", got |-> <<>>, left |-> 0, stale |-> FALSE]

Init ==
  /\ mode \in {"pool", "stream"} /\ proto \in Protocols
  /\ strict \in [{"write", "read"} -> BOOLEAN]
  /\ proto = "binary" \/ strict = [x \in {"write", "read"} |-> TRUE]
  /\ wrapper \in {"debug", "duplicate"} /\ duplicate \in BOOLEAN
  /\ duplicate \/ wrapper = "debug"
  /\ mode = "stream" \/ ~duplicate
  /\ writer = NewWriter /\ reader = NewReader
  /\ wire = <<>> /\ sent = <<>> /\ uses = 0
  /\ read = NotRead /\ copy = <<>>

Write(w, c) ==
  CASE proto = "binary" -> BinaryWrite(strict["write"], w, c)
    [] proto = "compact" -> CompactWrite(w, c)
    [] proto = "json" -> JSONWrite(w, c, JSONOps(c))
    [] proto = "simple" -> JSONWrite(w, c, SimpleJSONOps(c))

(* TDuplicateToProtocol: a call is passed on, and made on DuplicateTo too. *)
DuplicateWrite(two, c) ==
  [two EXCEPT !.delegate = Write(@, c), !.copy = JSONWrite(@, c, SimpleJSONOps(c))]

(* TDebugProtocol does so if it has a DuplicateTo.                         *)
DebugWrite(two, c) ==
  IF duplicate THEN DuplicateWrite(two, c) ELSE [two EXCEPT !.delegate = Write(@, c)]

Wrapped(two, c) == IF wrapper = "debug" THEN DebugWrite(two, c) ELSE DuplicateWrite(two, c)

Written(w, calls) ==
  FoldLeft(Wrapped, [delegate |-> [w EXCEPT !.out = <<>>], copy |-> NewWriter], calls)

(* What a read returns is written to DuplicateTo: a field that was read    *)
(* has no name, and neither has the stop field, which is written like one. *)
DuplicateRead(w, c) ==
  JSONWrite(w, c, IF c.c \in {"fieldBegin", "fieldStop"} THEN <<Val(<<"str", "">>)>>
                  ELSE SimpleJSONOps(c))

DebugRead(w, c) == IF duplicate THEN DuplicateRead(w, c) ELSE w

WrappedRead(w, c) == IF wrapper = "debug" THEN DebugRead(w, c) ELSE DuplicateRead(w, c)
CopyOfRead(calls) == FoldLeft(WrappedRead, NewWriter, calls).out

(* TSimpleJSONProtocol.Reset, which TJSONProtocol inherits; the other      *)
(* protocols have none.                                                    *)
Reset(s) == IF proto \in JSONProtocols THEN [s EXCEPT !.ctx = TopLevel] ELSE s

Writes(two) == writer' = two.delegate /\ copy' = two.copy.out /\ read' = NotRead

(* TSerializer.Write, which starts from an empty buffer.                   *)
Serialize(x) ==
  /\ mode = "pool" /\ uses < MaxUses
  /\ Writes(Written(Reset(writer), Calls(x)))
  /\ wire' = writer'.out /\ sent' = <<x>> /\ uses' = uses + 1
  /\ UNCHANGED <<config, reader>>

(* The Write of the struct gives up after n calls.  It never does between  *)
(* WriteFieldBegin and WriteBool of the compact protocol, neither of which *)
(* can fail on a memory buffer.                                            *)
SerializeFails(x, n) ==
  /\ mode = "pool" /\ uses < MaxUses
  /\ n < Len(Calls(x))
  /\ Writes(Written(Reset(writer), SubSeq(Calls(x), 1, n)))
  /\ ~writer'.pending
  /\ wire' = <<>> /\ sent' = <<>> /\ uses' = uses + 1
  /\ UNCHANGED <<config, reader>>

Outcome(x, r) ==
  [x |-> x, err |-> r.err, got |-> r.got, left |-> Len(r.in), stale |-> reader.boolv # "none"]

(* What a reader keeps for its next use.                                   *)
Rest(r) == [r EXCEPT !.in = <<>>, !.val = <<>>, !.got = <<>>]

(* TDeserializer.Read: its buffer holds one value.                         *)
Deserialize ==
  /\ mode = "pool" /\ sent # <<>>
  /\ LET r == SkipDefaultDepth(proto, Reset([reader EXCEPT !.in = wire, !.err = "ok", !.got = <<>>]),
                               "struct")
     IN reader' = Rest(r) /\ read' = Outcome(sent[1], r) /\ copy' = CopyOfRead(r.got)
  /\ wire' = <<>> /\ sent' = <<>>
  /\ UNCHANGED <<config, writer, uses>>

(* A message is written and flushed to the connection.                     *)
Send(m) ==
  /\ mode = "stream" /\ uses < MaxUses
  /\ Writes(Written(writer, MessageCalls(m)))
  /\ wire' = wire \o writer'.out /\ sent' = Append(sent, m) /\ uses' = uses + 1
  /\ UNCHANGED <<config, reader>>

ReadMessageBegin(r) ==
  LET Got(a) ==
        IF a.err # "ok" THEN a
        ELSE Reads(a, [c |-> "messageBegin",
                       name |-> a.val[1], type |-> a.val[2], seqid |-> a.val[3]])
  IN Got(CASE proto = "binary" -> BinaryReadMessage(strict["read"], Begin(r))
           [] proto = "compact" -> CompactReadMessage(Begin(r))
           [] proto = "json" -> JSONReadMessage(Begin(r))
           [] proto = "simple" -> SimpleJSONReadMessage(Begin(r)))

(* The next message is read.  An error is the end of the connection.       *)
Receive ==
  /\ mode = "stream" /\ sent # <<>> /\ reader.err = "ok"
  /\ LET begun == ReadMessageBegin([reader EXCEPT !.in = wire, !.got = <<>>])
         r == ReadEnd(proto, SkipDefaultDepth(proto, begun, "struct"), "messageEnd")
     IN /\ reader' = Rest(r) /\ wire' = r.in
        /\ read' = Outcome(sent[1], r)
        /\ copy' = CopyOfRead(r.got)
  /\ sent' = Tail(sent)
  /\ UNCHANGED <<config, writer, uses>>

Next ==
  \/ \E x \in Values : Serialize(x) \/ \E n \in 0..Len(Calls(x)) : SerializeFails(x, n)
  \/ \E m \in Messages : Send(m)
  \/ Deserialize \/ Receive

Spec == Init /\ [][Next]_vars

-----------------------------------------------------------------------------
IsMessage(x) == "args" \in DOMAIN x
Body(x) == IF IsMessage(x) THEN x.args ELSE x
CallsOf(x) == IF IsMessage(x) THEN MessageCalls(x) ELSE Calls(x)

(* The levels of a value, and the largest container in it.                 *)
RECURSIVE Depth(_), Size(_)
Parts(x) ==
  CASE x.t \in Scalars -> {}
    [] x.t = "struct" -> {x.f[i][2] : i \in DOMAIN x.f}
    [] OTHER -> ToSet(x.xs)
Depth(x) == 1 + Max({0} \union {Depth(y) : y \in Parts(x)})
Size(x) ==
  Max({CASE x.t = "list" -> Len(x.xs) [] x.t = "map" -> Len(x.xs) \div 2 [] OTHER -> 0}
      \union {Size(y) : y \in Parts(x)})

Exceeds(x) == Depth(Body(x)) > MaxDepth \/ Size(Body(x)) > MaxSize

(* An empty map of the compact protocol has lost the types of its entries. *)
AsRead(x) ==
  [i \in DOMAIN CallsOf(x) |->
     LET c == CallsOf(x)[i] IN
       IF proto = "compact" /\ c.c = "mapBegin" /\ c.n = 0
       THEN [c EXCEPT !.k = "stop", !.e = "stop"] ELSE c]

(* Every use of a reader makes of the wire what its writer was given, with *)
(* nothing left over, or fails: because a limit is exceeded, because a     *)
(* binary message has no version and versions are asked for, or because    *)
(* simple JSON is not meant to be read back.  The exception is a           *)
(* deserializer of the compact protocol that an earlier use left with the  *)
(* boolean of a field header it did not come to read.                      *)
RoundTrip ==
  read.err # "none" /\ ~read.stale =>
    /\ read.err \in
         IF proto = "simple" /\ Body(read.x).f # <<>> THEN {"invalid"}
         ELSE IF proto = "binary" /\ IsMessage(read.x) /\ strict["read"] /\ ~strict["write"]
              THEN {"bad version"}
         ELSE IF proto # "simple" /\ Exceeds(read.x) THEN {"depth", "size"} ELSE {"ok"}
    /\ read.err = "ok" =>
         read.got = AsRead(read.x) /\ (mode = "pool" => read.left = 0)

(* A recognizer of JSON: the position after the value at i, or 0.          *)
RECURSIVE JSONValue(_, _), JSONRest(_, _, _)
At(s, i) == IF i \in DOMAIN s THEN s[i][1] ELSE ""
JSONMember(s, i, close) ==
  IF close = "]" THEN JSONValue(s, i)
  ELSE IF At(s, i) = "val" /\ s[i][3] /\ At(s, i + 1) = ":" THEN JSONValue(s, i + 2) ELSE 0
JSONRest(s, i, close) ==
  CASE i = 0 -> 0
    [] At(s, i) = close -> i + 1
    [] At(s, i) = "," -> JSONRest(s, JSONMember(s, i + 1, close), close)
    [] OTHER -> 0
JSONValue(s, i) ==
  LET close == IF At(s, i) = "{" THEN "}" ELSE "]" IN
    CASE At(s, i) = "val" -> i + 1
      [] At(s, i) \in {"{", "["} ->
           IF At(s, i + 1) = close THEN i + 2
           ELSE JSONRest(s, JSONMember(s, i + 1, close), close)
      [] OTHER -> 0

IsJSON(out) == JSONValue(out, 1) = Len(out) + 1

(* The JSON protocols write JSON: the separators are where they belong and *)
(* every key is in quotes, whatever was written before; so does the        *)
(* duplicate of a message.                                                 *)
WritesJSON ==
  /\ (proto \in JSONProtocols /\ writer.out # <<>> /\ sent # <<>>) => IsJSON(writer.out)
  /\ (duplicate /\ read = NotRead /\ sent # <<>>) => IsJSON(copy)

(* "Everything read/written from Delegate" is duplicated to JSON that logs *)
(* requests and responses: what was read, too.                             *)
CopyOfReadsIsJSON == duplicate /\ read.err = "ok" => IsJSON(copy)

=============================================================================
