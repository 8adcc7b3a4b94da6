--------------------------- MODULE ThriftWriters ---------------------------
(***************************************************************************)
(* What the protocols of infra/rpc/thrift put on the wire:                 *)
(* TBinaryProtocol, TCompactProtocol, TJSONProtocol (over the writer of    *)
(* TSimpleJSONProtocol) and TSimpleJSONProtocol itself.                    *)
(*                                                                         *)
(* A value is a record with its type t: a scalar has v, a struct its       *)
(* fields f, a sequence of <<id, value>>, a list (a set is written the     *)
(* same way) the type e of its elements xs, and a map the types k and e    *)
(* and the entries xs, keys and values in turn.  Integers of every width   *)
(* and doubles are "num"; strings, binaries and uuids are "str".           *)
(*                                                                         *)
(* The unit on the wire is what one read takes: a byte, a fixed width      *)
(* integer, a group of a varint, the bytes of a string, a JSON token.  A   *)
(* unit is a tuple that starts with its kind.                              *)
(***************************************************************************)
EXTENDS Integers, Sequences, SequencesExt

CONSTANTS NumBits,    \* width of an integer
          GroupBits   \* bits in a byte of a varint: 7

Scalars == {"bool", "num", "str"}

(* The calls that the generated Write of a value makes on its protocol.    *)
RECURSIVE Calls(_)
Calls(x) ==
  CASE x.t \in Scalars -> <<[c |-> x.t, v |-> x.v]>>
    [] x.t = "struct" ->
         <<[c |-> "structBegin"]>>
           \o FlattenSeq([i \in DOMAIN x.f |->
                <<[c |-> "fieldBegin", t |-> x.f[i][2].t, id |-> x.f[i][1]]>>
                  \o Calls(x.f[i][2]) \o <<[c |-> "fieldEnd"]>>])
           \o <<[c |-> "fieldStop"], [c |-> "structEnd"]>>
    [] x.t = "list" ->
         <<[c |-> "listBegin", e |-> x.e, n |-> Len(x.xs)]>>
           \o FlattenSeq([i \in DOMAIN x.xs |-> Calls(x.xs[i])]) \o <<[c |-> "listEnd"]>>
    [] x.t = "map" ->
         <<[c |-> "mapBegin", k |-> x.k, e |-> x.e, n |-> Len(x.xs) \div 2]>>
           \o FlattenSeq([i \in DOMAIN x.xs |-> Calls(x.xs[i])]) \o <<[c |-> "mapEnd"]>>

(* A message: its header, its arguments and its end.                       *)
MessageCalls(m) ==
  <<[c |-> "messageBegin", name |-> m.name, type |-> m.type, seqid |-> m.seqid]>>
    \o Calls(m.args) \o <<[c |-> "messageEnd"]>>

-----------------------------------------------------------------------------
(* TBinaryProtocol: fixed widths, and no state.                            *)
Length(s) == IF s = "" THEN 0 ELSE 1
Bytes(s) == IF s = "" THEN <<>> ELSE <<<<"raw", s>>>>
BinaryString(s) == <<<<"i32", Length(s)>>>> \o Bytes(s)

(* What starts a message of the strict format is negative, as a length, of *)
(* the old format, never is.                                               *)
BinaryMessage(strict, c) ==
  IF strict
  THEN <<<<"version", c.type>>>> \o BinaryString(c.name) \o <<<<"i32", c.seqid>>>>
  ELSE BinaryString(c.name) \o <<<<"i8", c.type>>, <<"i32", c.seqid>>>>

BinaryField(c) == <<<<"i8", c.t>>, <<"i16", c.id>>>>

BinaryContainer(c) ==
  (IF c.c = "mapBegin" THEN <<<<"i8", c.k>>>> ELSE <<>>) \o <<<<"i8", c.e>>, <<"i32", c.n>>>>

BinaryScalar(c) ==
  CASE c.c = "bool" -> <<<<"i8", IF c.v THEN "1" ELSE "0">>>>
    [] c.c = "num"  -> <<<<"i64", c.v>>>>
    [] c.c = "str"  -> BinaryString(c.v)

BinaryWrite(strict, w, c) ==
  [w EXCEPT !.out = @ \o
     CASE c.c = "messageBegin" -> BinaryMessage(strict, c)
       [] c.c = "fieldBegin" -> BinaryField(c)
       [] c.c = "fieldStop" -> <<<<"i8", "stop">>>>
       [] c.c \in {"listBegin", "mapBegin"} -> BinaryContainer(c)
       [] c.c \in Scalars -> BinaryScalar(c)
       [] OTHER -> <<>>]

-----------------------------------------------------------------------------
(* TCompactProtocol: varints, field ids as differences, booleans in the    *)
(* header of their field.                                                  *)

(* (n << 1) ^ (n >> 31), as an unsigned number.                            *)
Zigzag(n) == IF n >= 0 THEN 2 * n ELSE -2 * n - 1

(* The groups of an unsigned number, low bits first, each with the bit     *)
(* that says whether another follows.                                      *)
RECURSIVE Varint(_)
Varint(u) ==
  IF u < 2^GroupBits THEN <<<<"last", u>>>>
  ELSE <<<<"more", u % 2^GroupBits>>>> \o Varint(u \div 2^GroupBits)

Unsigned(n) == n % 2^NumBits
CompactString(s) == Varint(Length(s)) \o Bytes(s)

(* COMPACT_PROTOCOL_ID, then version and type in one byte.                 *)
CompactMessage(c) ==
  <<<<"protocol id">>, <<"version", c.type>>>>
    \o Varint(Unsigned(c.seqid)) \o CompactString(c.name)

(* writeFieldBeginInternal: delta and type in a byte, or the type and then *)
(* the id.                                                                 *)
CompactFieldHeader(w, t, id) ==
  LET delta == id - w.id IN
    [w EXCEPT !.id = id,
              !.out = @ \o IF delta \in 1..15 THEN <<<<"header", delta, t>>>>
                           ELSE <<<<"header", 0, t>>>> \o Varint(Zigzag(id))]

(* The header of a boolean field waits for its value.                      *)
CompactField(w, c) ==
  IF c.t = "bool" THEN [w EXCEPT !.pending = TRUE, !.boolId = c.id]
  ELSE CompactFieldHeader(w, c.t, c.id)

CompactBool(w, c) ==
  LET t == IF c.v THEN "true" ELSE "false" IN
    IF w.pending THEN [CompactFieldHeader(w, t, w.boolId) EXCEPT !.pending = FALSE]
    ELSE [w EXCEPT !.out = Append(@, <<"header", 0, t>>)]

(* As CompactContainer, if 15 were still written in the byte (mutant).     *)
CompactContainerOffByOne(c) ==
  CASE c.c = "listBegin" /\ c.n <= 15 -> <<<<"header", c.n, c.e>>>>
    [] c.c = "listBegin" /\ c.n > 15 -> <<<<"header", 15, c.e>>>> \o Varint(c.n)
    [] c.c = "mapBegin" /\ c.n = 0 -> Varint(0)
    [] c.c = "mapBegin" /\ c.n > 0 -> Varint(c.n) \o <<<<"entry", c.k, c.e>>>>

(* A size above 14 follows its byte; an empty map is the single byte 0.    *)
CompactContainer(c) ==
  CASE c.c = "listBegin" /\ c.n <= 14 -> <<<<"header", c.n, c.e>>>>
    [] c.c = "listBegin" /\ c.n > 14 -> <<<<"header", 15, c.e>>>> \o Varint(c.n)
    [] c.c = "mapBegin" /\ c.n = 0 -> Varint(0)
    [] c.c = "mapBegin" /\ c.n > 0 -> Varint(c.n) \o <<<<"entry", c.k, c.e>>>>

CompactStruct(w, c) ==
  IF c.c = "structBegin" THEN [w EXCEPT !.last = Append(@, w.id), !.id = 0]
  ELSE [w EXCEPT !.id = Last(w.last), !.last = Front(@)]

CompactWrite(w, c) ==
  CASE c.c \in {"structBegin", "structEnd"} -> CompactStruct(w, c)
    [] c.c = "fieldBegin" -> CompactField(w, c)
    [] c.c = "bool" -> CompactBool(w, c)
    [] OTHER ->
         [w EXCEPT !.out = @ \o
            CASE c.c = "messageBegin" -> CompactMessage(c)
              [] c.c = "fieldStop" -> <<<<"header", 0, "stop">>>>
              [] c.c \in {"listBegin", "mapBegin"} -> CompactContainer(c)
              [] c.c = "num" -> Varint(Zigzag(c.v))
              [] c.c = "str" -> CompactString(c.v)
              [] OTHER -> <<>>]

-----------------------------------------------------------------------------
(* The JSON protocols: a stack of contexts says which separator comes      *)
(* before a value and whether it is a key.                                 *)
TopLevel == <<"top">>
Push(ctx, x) == Append(ctx, x)
Pop(ctx) == Front(ctx)

(* OutputPreValue                                                          *)
Separator(ctx) ==
  CASE Last(ctx) \in {"list", "key"} -> <<<<",">>>>
    [] Last(ctx) = "val" -> <<<<":">>>>
    [] OTHER -> <<>>

(* As PostValue, if the value of a field did not make way for the next key *)
(* (mutant).                                                               *)
PostValueStays(ctx) ==
  [ctx EXCEPT ![Len(ctx)] =
     CASE @ = "listFirst" -> "list"
       [] @ \in {"objFirst", "key"} -> "val"
       [] OTHER -> @]

(* OutputPostValue and ParsePostValue                                      *)
PostValue(ctx) ==
  [ctx EXCEPT ![Len(ctx)] =
     CASE @ = "listFirst" -> "list"
       [] @ \in {"objFirst", "key"} -> "val"
       [] @ = "val" -> "key"
       [] OTHER -> @]

(* What an operation of the protocols writes is made of scalars and of     *)
(* brackets opened and closed.                                             *)
Val(x) == [o |-> "val", v |-> x]
Open(b) == [o |-> "open", b |-> b]
Close(b) == [o |-> "close", b |-> b]

(* A number or a boolean that is a key is written in quotes.               *)
JSONOutput(w, op) ==
  CASE op.o = "val" ->
         [w EXCEPT !.out = @ \o Separator(w.ctx)
                            \o <<<<"val", op.v, op.v[1] = "str" \/ Last(w.ctx) \in {"objFirst", "key"}>>>>,
                   !.ctx = PostValue(@)]
    [] op.o = "open" ->
         [w EXCEPT !.out = @ \o Separator(w.ctx) \o <<<<op.b>>>>,
                   !.ctx = Push(@, IF op.b = "{" THEN "objFirst" ELSE "listFirst")]
    [] op.o = "close" ->
         [w EXCEPT !.out = Append(@, <<op.b>>), !.ctx = PostValue(Pop(@))]

JSONBoolean(b) == <<"num", IF b THEN 1 ELSE 0>>

JSONElemList(c) == <<Open("["), Val(<<"str", c.e>>), Val(<<"num", c.n>>)>>

(* TJSONProtocol: a field is its id and an object that holds the name of   *)
(* its type and its value, and a map ends in an object.                    *)
JSONOps(c) ==
  CASE c.c = "messageBegin" ->
         <<Open("["), Val(<<"num", 1>>), Val(<<"str", c.name>>), Val(<<"type", c.type>>),
           Val(<<"num", c.seqid>>)>>
    [] c.c \in {"messageEnd", "listEnd"} -> <<Close("]")>>
    [] c.c = "structBegin" -> <<Open("{")>>
    [] c.c \in {"structEnd", "fieldEnd"} -> <<Close("}")>>
    [] c.c = "fieldBegin" -> <<Val(<<"num", c.id>>), Open("{"), Val(<<"str", c.t>>)>>
    [] c.c = "listBegin" -> JSONElemList(c)
    [] c.c = "mapBegin" ->
         <<Open("["), Val(<<"str", c.k>>), Val(<<"str", c.e>>), Val(<<"num", c.n>>), Open("{")>>
    [] c.c = "mapEnd" -> <<Close("}"), Close("]")>>
    [] c.c = "bool" -> <<Val(JSONBoolean(c.v))>>
    [] c.c \in {"num", "str"} -> <<Val(<<c.c, c.v>>)>>
    [] OTHER -> <<>>

FieldName(id) == ToString(id)

SimpleJSONElemList(c) == <<Open("["), Val(<<"type", c.e>>), Val(<<"num", c.n>>)>>

(* TSimpleJSONProtocol: a field is its name and its value, a map a list.   *)
SimpleJSONOps(c) ==
  CASE c.c = "messageBegin" ->
         <<Open("["), Val(<<"str", c.name>>), Val(<<"type", c.type>>), Val(<<"num", c.seqid>>)>>
    [] c.c \in {"messageEnd", "listEnd", "mapEnd"} -> <<Close("]")>>
    [] c.c = "structBegin" -> <<Open("{")>>
    [] c.c = "structEnd" -> <<Close("}")>>
    [] c.c = "fieldBegin" -> <<Val(<<"str", FieldName(c.id)>>)>>
    [] c.c = "listBegin" -> SimpleJSONElemList(c)
    [] c.c = "mapBegin" -> <<Open("["), Val(<<"type", c.k>>), Val(<<"type", c.e>>), Val(<<"num", c.n>>)>>
    [] c.c \in Scalars -> <<Val(<<c.c, c.v>>)>>
    [] OTHER -> <<>>

(* resetContextStack, by every WriteMessageBegin.                          *)
JSONWrite(w, c, ops) ==
  IF w.ctx = TopLevel \/ c.c # "messageBegin" THEN FoldLeft(JSONOutput, w, ops)
  ELSE FoldLeft(JSONOutput, [w EXCEPT !.ctx = TopLevel], ops)

=============================================================================
