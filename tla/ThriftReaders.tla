--------------------------- MODULE ThriftReaders ---------------------------
(***************************************************************************)
(* How TBinaryProtocol, TCompactProtocol and TJSONProtocol take a value    *)
(* off the wire, and Skip (protocol.go), which reads a value of any type   *)
(* that the wire announces.                                                *)
(*                                                                         *)
(* A reader r has the units left on the wire (in), its error (err, "ok" as *)
(* long as there is none), what the call in progress has read (val, a      *)
(* sequence), what was read so far, as the calls that write it (got), and  *)
(* the state of its protocol: the stack last, lastFieldId id and the       *)
(* boolean boolv of a field header of the compact protocol, the stack ctx  *)
(* of the JSON one.  After an error every read returns it again.           *)
(***************************************************************************)
EXTENDS ThriftWriters

CONSTANTS MaxDepth,   \* DEFAULT_RECURSION_DEPTH
          MaxSize     \* TConfiguration.MaxMessageSize

Fail(r, e) == IF r.err = "ok" THEN [r EXCEPT !.err = e] ELSE r

(* The kind of the next unit.                                              *)
NextUnit(r) == IF r.in = <<>> THEN "" ELSE Head(r.in)[1]

(* Reading another unit than the one that was written is a misread.        *)
Take(r, kinds) ==
  CASE r.err # "ok" -> r
    [] r.err = "ok" /\ r.in = <<>> -> Fail(r, "eof")
    [] r.err = "ok" /\ r.in # <<>> /\ NextUnit(r) \notin kinds -> Fail(r, "misread")
    [] OTHER -> [r EXCEPT !.in = Tail(@), !.val = @ \o Tail(Head(r.in))]

Returns(r, val) == IF r.err = "ok" THEN [r EXCEPT !.val = val] ELSE r

(* The last value read becomes x.                                          *)
Converts(r, x) == IF r.err = "ok" THEN [r EXCEPT !.val[Len(r.val)] = x] ELSE r

(* checkSizeForProtocol, of the size that was just read.                   *)
CheckSize(r) == IF r.err = "ok" /\ Last(r.val) > MaxSize THEN Fail(r, "size") ELSE r

-----------------------------------------------------------------------------
(* TBinaryProtocol                                                         *)
(* The length was just read; nothing is read for an empty string.          *)
StringOfLength(r) ==
  LET Body(a) ==
        CASE a.err # "ok" -> a
          [] a.err = "ok" /\ Last(a.val) = 0 -> Converts(a, "")
          [] OTHER -> Take([a EXCEPT !.val = Front(@)], {"raw"})
  IN Body(CheckSize(r))

BinaryReadString(r) == StringOfLength(Take(r, {"i32"}))

(* Without a version the first number is the length of the name.           *)
BinaryReadMessage(strict, r) ==
  LET NameFirst(a) == IF a.err = "ok" THEN Returns(a, <<a.val[2], a.val[1], a.val[3]>>) ELSE a IN
    CASE NextUnit(r) # "i32" ->
           NameFirst(Take(BinaryReadString(Take(r, {"version"})), {"i32"}))
      [] NextUnit(r) = "i32" /\ strict -> Fail(r, "bad version")
      [] NextUnit(r) = "i32" /\ ~strict -> Take(Take(BinaryReadString(r), {"i8"}), {"i32"})

BinaryReadField(r) ==
  LET Id(t) == IF t.err # "ok" \/ t.val = <<"stop">> THEN t ELSE Take(t, {"i16"}) IN
    Id(Take(r, {"i8"}))

BinaryReadContainer(r, c) ==
  CheckSize(Take(Take(IF c = "mapBegin" THEN Take(r, {"i8"}) ELSE r, {"i8"}), {"i32"}))

BinaryReadBool(r) ==
  LET True(a) == IF a.err = "ok" THEN Returns(a, <<a.val[1] = "1">>) ELSE a IN
    True(Take(r, {"i8"}))

BinaryReadScalar(r, t) ==
  CASE t = "bool" -> BinaryReadBool(r)
    [] t = "num" -> Take(r, {"i64"})
    [] t = "str" -> BinaryReadString(r)

-----------------------------------------------------------------------------
(* TCompactProtocol                                                        *)
(* The groups of a varint, low bits first; n is where val has the sum.     *)
RECURSIVE VarintGroups(_, _, _)
VarintGroups(r, shift, n) ==
  LET Sum(a) ==
        IF a.err # "ok" THEN a
        ELSE Returns(a, [SubSeq(a.val, 1, n) EXCEPT ![n] = @ + Last(a.val) * 2^shift])
  IN IF r.err = "ok" /\ NextUnit(r) = "more"
     THEN VarintGroups(Sum(Take(r, {"more"})), shift + GroupBits, n)
     ELSE Sum(Take(r, {"last"}))

ReadVarint(r) == VarintGroups([r EXCEPT !.val = Append(@, 0)], 0, Len(r.val) + 1)

(* The conversion of what was read to a signed integer of the width.       *)
Signed(u) == ((u + 2^(NumBits - 1)) % 2^NumBits) - 2^(NumBits - 1)
Unzigzag(u) == IF u % 2 = 0 THEN u \div 2 ELSE -(u \div 2) - 1

CompactReadNum(r) ==
  LET Number(a) == IF a.err = "ok" THEN Converts(a, Unzigzag(Last(a.val))) ELSE a IN
    Number(ReadVarint(r))

CompactReadMessage(r) ==
  LET NameFirst(a) ==
        IF a.err = "ok" THEN Returns(a, <<a.val[3], a.val[1], Signed(a.val[2])>>) ELSE a
  IN NameFirst(StringOfLength(ReadVarint(ReadVarint(
                 Take(Take(r, {"protocol id"}), {"version"})))))

CompactReadStruct(r, c) ==
  CASE r.err # "ok" -> r
    [] r.err = "ok" /\ c = "structBegin" -> [r EXCEPT !.last = Append(@, r.id), !.id = 0]
    [] r.err = "ok" /\ c = "structEnd" ->
         IF r.last = <<>> THEN Fail(r, "invalid")
         ELSE [r EXCEPT !.id = Last(r.last), !.last = Front(@)]

(* A header is a difference, or 0 and the id follows, and a type, which is *)
(* the value for a boolean field.                                          *)
CompactReadField(r) ==
  LET Field(a, t, id) ==
        IF a.err # "ok" THEN a
        ELSE [a EXCEPT !.id = id,
                       !.boolv = IF t \in {"true", "false"} THEN t ELSE @,
                       !.val = <<IF t \in {"true", "false"} THEN "bool" ELSE t, id>>]
      LongId(a) == Field(a, a.val[2], Last(a.val))
      Header(a) ==
        CASE a.err # "ok" -> a
          [] a.err = "ok" /\ a.val[2] = "stop" -> Returns(a, <<"stop">>)
          [] a.err = "ok" /\ a.val[2] # "stop" /\ a.val[1] = 0 -> LongId(CompactReadNum(a))
          [] OTHER -> Field(a, a.val[2], r.id + a.val[1])
  IN Header(Take(r, {"header"}))

CompactReadMap(r) ==
  LET SizeLast(a) == IF a.err = "ok" THEN Returns(a, <<a.val[2], a.val[3], a.val[1]>>) ELSE a
      Types(a) ==
        CASE a.err # "ok" -> a
          [] a.err = "ok" /\ a.val[1] = 0 -> Returns(a, <<"stop", "stop", 0>>)
          [] OTHER -> SizeLast(Take(a, {"entry"}))
  IN Types(CheckSize(ReadVarint(r)))

CompactReadList(r) ==
  LET Size(a) ==
        CASE a.err # "ok" -> a
          [] a.err = "ok" /\ a.val[1] = 15 -> ReadVarint(Returns(a, <<a.val[2]>>))
          [] OTHER -> Returns(a, <<a.val[2], a.val[1]>>)
  IN CheckSize(Size(Take(r, {"header"})))

CompactReadContainer(r, c) == IF c = "mapBegin" THEN CompactReadMap(r) ELSE CompactReadList(r)

(* The value of a boolean field has come with its header.                  *)
CompactReadBool(r) ==
  LET Type(a) == IF a.err = "ok" THEN Returns(a, <<a.val[2] = "true">>) ELSE a IN
    IF r.err = "ok" /\ r.boolv # "none"
    THEN [r EXCEPT !.boolv = "none", !.val = <<r.boolv = "true">>]
    ELSE Type(Take(r, {"header"}))

CompactReadScalar(r, t) ==
  CASE t = "bool" -> CompactReadBool(r)
    [] t = "num" -> CompactReadNum(r)
    [] t = "str" -> StringOfLength(ReadVarint(r))

-----------------------------------------------------------------------------
(* TJSONProtocol, with the parser of TSimpleJSONProtocol                   *)
(* ParsePreValue                                                           *)
PreValue(r) ==
  LET c == Last(r.ctx) IN
    IF r.err # "ok" \/ r.in = <<>> \/ c \in {"top", "listFirst", "objFirst"} THEN r
    ELSE
      CASE c = "list" /\ NextUnit(r) = "]" -> r
        [] c = "key" /\ NextUnit(r) = "}" -> r
        [] c \in {"list", "key"} /\ NextUnit(r) = "," -> Take(r, {","})
        [] c = "val" /\ NextUnit(r) = ":" -> Take(r, {":"})
        [] OTHER -> Fail(r, "invalid")

Parsed(r) == IF r.err = "ok" THEN [r EXCEPT !.ctx = PostValue(@)] ELSE r

(* A token has its kind, its value and whether it is in quotes.            *)
ParseVal(r, kinds) ==
  LET n == Len(r.val)
      Checked(a) ==
        CASE a.err # "ok" -> a
          [] a.err = "ok" /\ a.val[n + 1][1] \notin kinds -> Fail(a, "invalid")
          [] OTHER -> Returns(a, Append(SubSeq(a.val, 1, n), a.val[n + 1][2]))
  IN Parsed(Checked(Take(PreValue(r), {"val"})))

ParseString(r) == ParseVal(r, {"str"})
ParseNumber(r) == ParseVal(r, {"num", "type"})

(* ParseObjectStart and ParseListBegin                                     *)
ParseOpen(r, b) ==
  LET Opened(a) ==
        IF a.err = "ok" THEN [a EXCEPT !.ctx = Push(@, IF b = "{" THEN "objFirst" ELSE "listFirst")]
        ELSE a
  IN Opened(Take(PreValue(r), {b}))

(* ParseObjectEnd and ParseListEnd                                         *)
ParseClose(r, b) ==
  LET legal == IF b = "}" THEN {"objFirst", "key"} ELSE {"list"}
      Closed(a) == IF a.err = "ok" THEN Parsed([a EXCEPT !.ctx = Pop(@)]) ELSE a
  IN Closed(Take(IF Last(r.ctx) \in legal THEN r ELSE Fail(r, "invalid"), {b}))

(* resetContextStack comes first; the version is read and not returned.    *)
JSONReadMessage(r) ==
  LET Version(a) == IF a.err = "ok" THEN Returns(a, <<>>) ELSE a IN
    ParseNumber(ParseNumber(ParseString(Version(
      ParseNumber(ParseOpen([r EXCEPT !.ctx = TopLevel], "["))))))

JSONReadField(r) ==
  LET TypeFirst(a) == IF a.err = "ok" THEN Returns(a, <<a.val[2], a.val[1]>>) ELSE a IN
    IF NextUnit(r) \in {"", "}", "]"} THEN Returns(r, <<"stop">>)
    ELSE TypeFirst(ParseString(ParseOpen(ParseNumber(r), "{")))

(* TSimpleJSONProtocol, which is not meant to be read back: every field is *)
(* the last.                                                               *)
SimpleJSONReadMessage(r) ==
  ParseNumber(ParseNumber(ParseString(ParseOpen([r EXCEPT !.ctx = TopLevel], "["))))

SimpleJSONReadField(r) ==
  LET Name(a) == IF NextUnit(a) = "}" THEN a ELSE Parsed(Take(a, {"val"})) IN
    Returns(Name(PreValue(r)), <<"stop">>)

(* ParseElemListBegin, of a list without its bracket                       *)
JSONReadElemList(r) == CheckSize(ParseNumber(ParseString(r)))

JSONReadContainer(r, c) ==
  LET a == ParseOpen(r, "[") IN
    IF c = "listBegin" THEN JSONReadElemList(a) ELSE ParseOpen(JSONReadElemList(ParseString(a)), "{")

JSONReadEnd(r, c) ==
  LET inner == IF c \in {"structEnd", "fieldEnd", "mapEnd"} THEN ParseClose(r, "}") ELSE r IN
    IF c \in {"listEnd", "messageEnd", "mapEnd"} THEN ParseClose(inner, "]") ELSE inner

JSONReadScalar(r, t) ==
  LET Boolean(a) == IF a.err = "ok" /\ t = "bool" THEN Returns(a, <<a.val[1] # 0>>) ELSE a IN
    Boolean(ParseVal(r, IF t = "str" THEN {"str"} ELSE {"num", "type"}))

-----------------------------------------------------------------------------
(* The calls of TProtocol, by protocol.                                    *)
JSONProtocols == {"json", "simple"}

(* A call begins with nothing read, and what it returns is a call that     *)
(* writes the same.                                                        *)
Begin(r) == [r EXCEPT !.val = <<>>]
Reads(r, call) == IF r.err = "ok" THEN [r EXCEPT !.got = Append(@, call)] ELSE r

ReadStruct(p, r, c) ==
  IF r.err # "ok" THEN r
  ELSE Reads(CASE p = "compact" -> CompactReadStruct(r, c)
               [] p \in JSONProtocols /\ c = "structBegin" -> ParseOpen(r, "{")
               [] p \in JSONProtocols /\ c = "structEnd" -> ParseClose(r, "}")
               [] OTHER -> r,
             [c |-> c])

ReadField(p, r) ==
  LET Got(a) ==
        CASE a.err # "ok" -> a
          [] a.err = "ok" /\ a.val = <<"stop">> -> Reads(a, [c |-> "fieldStop"])
          [] OTHER -> Reads(a, [c |-> "fieldBegin", t |-> a.val[1], id |-> a.val[2]])
  IN Got(CASE p = "binary" -> BinaryReadField(Begin(r))
           [] p = "compact" -> CompactReadField(Begin(r))
           [] p = "json" -> JSONReadField(Begin(r))
           [] p = "simple" -> SimpleJSONReadField(Begin(r)))

ReadContainer(p, r, c) ==
  LET Got(a) ==
        CASE a.err # "ok" -> a
          [] a.err = "ok" /\ c = "listBegin" -> Reads(a, [c |-> c, e |-> a.val[1], n |-> a.val[2]])
          [] OTHER -> Reads(a, [c |-> c, k |-> a.val[1], e |-> a.val[2], n |-> a.val[3]])
  IN Got(CASE p = "binary" -> BinaryReadContainer(Begin(r), c)
           [] p = "compact" -> CompactReadContainer(Begin(r), c)
           [] p = "json" -> JSONReadContainer(Begin(r), c))

ReadEnd(p, r, c) ==
  IF r.err # "ok" THEN r
  ELSE Reads(CASE p = "json" -> JSONReadEnd(r, c)
               [] p = "simple" /\ c # "fieldEnd" -> ParseClose(r, "]")
               [] OTHER -> r,
             [c |-> c])

ReadScalar(p, r, t) ==
  LET Got(a) == IF a.err = "ok" THEN Reads(a, [c |-> t, v |-> a.val[1]]) ELSE a IN
    Got(CASE p = "binary" -> BinaryReadScalar(Begin(r), t)
          [] p = "compact" -> CompactReadScalar(Begin(r), t)
          [] p = "json" -> JSONReadScalar(Begin(r), t))

(* Skip: with the depth that is left, through whatever types are on the    *)
(* wire.  A struct goes on to its stop field, a container to its size.  It *)
(* does not look at the error of ReadFieldEnd, which no writer provokes.   *)
RECURSIVE Skip(_, _, _, _), SkipFields(_, _, _), SkipElems(_, _, _, _, _)
SkipFields(p, r, depth) ==
  LET Value(a) ==
        IF a.err # "ok" \/ a.val = <<"stop">> THEN a
        ELSE SkipFields(p, ReadEnd(p, Skip(p, a, a.val[1], depth - 1), "fieldEnd"), depth)
  IN IF r.err # "ok" THEN r ELSE Value(ReadField(p, r))

SkipElems(p, r, types, n, depth) ==
  IF n = 0 \/ r.err # "ok" THEN r
  ELSE SkipElems(p, FoldLeft(LAMBDA s, t : Skip(p, s, t, depth - 1), r, types),
                 types, n - 1, depth)

SkipContainer(p, r, c, depth) ==
  LET end == IF c = "listBegin" THEN "listEnd" ELSE "mapEnd"
      Elems(a) ==
        IF a.err # "ok" THEN a
        ELSE ReadEnd(p, SkipElems(p, a, Front(a.val), Last(a.val), depth), end)
  IN Elems(ReadContainer(p, r, c))

Skip(p, r, t, depth) ==
  CASE r.err # "ok" -> r
    [] r.err = "ok" /\ depth <= 0 -> Fail(r, "depth")
    [] r.err = "ok" /\ depth > 0 /\ t \in Scalars -> ReadScalar(p, r, t)
    [] r.err = "ok" /\ depth > 0 /\ t = "struct" ->
         ReadStruct(p, SkipFields(p, ReadStruct(p, r, "structBegin"), depth), "structEnd")
    [] r.err = "ok" /\ depth > 0 /\ t \in {"list", "map"} ->
         SkipContainer(p, r, IF t = "list" THEN "listBegin" ELSE "mapBegin", depth)
    [] OTHER -> Fail(r, "invalid")

SkipDefaultDepth(p, r, t) == Skip(p, r, t, MaxDepth)

=============================================================================
