-------------------------------- MODULE Wire --------------------------------
(***************************************************************************)
(* The generated protobuf codecs (providers/*/gen).  Every one of them is  *)
(* the same code over the message's own list of fields; here the list is a *)
(* value, a sequence of fields, and the code is written once.  A message   *)
(* on the wire is a sequence of [tag, data]; the data of a nested message  *)
(* is such a sequence.                                                     *)
(*                                                                         *)
(* Abstraction: a string is a name, bytes are a sequence of numbers, a     *)
(* varint is its value (all are small), and no input is cut short.         *)
(***************************************************************************)
EXTENDS Integers, Sequences, SequencesExt, TLC

CONSTANT None  \* undefined

\* A field: its number, its name, whether it may be left out or repeated, and
\* its type; `of` holds the fields of a nested message.
Field(no, name, label, type, of) ==
    [no |-> no, name |-> name, label |-> label, type |-> type, of |-> of]

Str(no, name)      == Field(no, name, "one", "string", <<>>)
Bytes(no, name)    == Field(no, name, "one", "bytes", <<>>)
Bool(no, name)     == Field(no, name, "one", "bool", <<>>)
Num(no, name)      == Field(no, name, "one", "int", <<>>)
Enum(no, name)     == Field(no, name, "one", "enum", <<>>)
Date(no, name)     == Field(no, name, "optional", "date", <<>>)
Sub(no, name, of)  == Field(no, name, "optional", "message", of)
Many(no, name, of) == Field(no, name, "many", "message", of)
Strs(no, name)     == Field(no, name, "many", "string", <<>>)

Named(m, name) == m[CHOOSE i \in DOMAIN m : m[i].name = name]
Names(m)       == {m[i].name : i \in DOMAIN m}

\* The wire type: a varint, or bytes with their length.
WireType(f) == IF f.type \in {"bool", "int", "enum"} THEN 0 ELSE 2
Tag(f)      == 8 * f.no + WireType(f)

\* createBase...
Base(f) ==
    IF f.label = "many" THEN <<>>
    ELSE IF f.label = "optional" THEN None
    ELSE CASE f.type = "string" -> ""
           [] f.type = "bytes"  -> <<>>
           [] f.type = "bool"   -> FALSE
           [] OTHER             -> 0
CreateBase(m) == [n \in Names(m) |-> Base(Named(m, n))]
----------------------------------------------------------------------------
(* google.protobuf.Timestamp, and the dates kept in it (milliseconds).     *)

Timestamp == <<Num(1, "seconds"), Num(2, "nanos")>>

\* Mutant: the milliseconds are left out.
ToTimestamp_Seconds(ms) == [seconds |-> ms \div 1000, nanos |-> 0]
ToTimestamp(ms) == [seconds |-> ms \div 1000, nanos |-> (ms % 1000) * 1000000]
\* A Date holds whole milliseconds.
FromTimestamp(t) == t.seconds * 1000 + t.nanos \div 1000000
----------------------------------------------------------------------------
(* Encode and decode.  The codec of a message calls those of the messages  *)
(* in it.  None nests more than four deep, as the offerings of the         *)
(* capabilities of the nodes of a ResolveResult do, so Over stands for the *)
(* codec of any message and is applied at four levels.                     *)

\* The message in a field, and the field's value as that message.
IsNested(f)    == f.type \in {"date", "message"}
Inner(f)       == IF f.type = "date" THEN Timestamp ELSE f.of
ToInner(f, x)   == IF f.type = "date" THEN ToTimestamp(x) ELSE x
FromInner(f, y) == IF f.type = "date" THEN FromTimestamp(y) ELSE y

\* Mutant: a repeated field is sent if it is not its default, like the others.
Sent_Once(f, x) ==
    IF x = Base(f) THEN <<>> ELSE <<IF f.label = "many" THEN Head(x) ELSE x>>
\* What is sent of a field: each element of a repeated one; the value of any
\* other, if it is not the default.
Sent(f, x) ==
    IF f.label = "many" THEN x ELSE IF x = Base(f) THEN <<>> ELSE <<x>>

Encode(m, v) ==
    LET Over(Nested(_, _), n, r) ==
          LET One(f, x) == IF IsNested(f) THEN Nested(Inner(f), ToInner(f, x)) ELSE x
              EncodeField(f, xs) ==
                [k \in DOMAIN xs |-> [tag |-> Tag(f), data |-> One(f, xs[k])]] IN
          FlattenSeq([i \in DOMAIN n |-> EncodeField(n[i], Sent(n[i], r[n[i].name]))])
        Encode1(n, r) == Over(LAMBDA o, x : None, n, r)
        Encode2(n, r) == Over(Encode1, n, r)
        Encode3(n, r) == Over(Encode2, n, r) IN
    Over(Encode3, m, v)

\* Mutant: what is not known ends the message.
Known_Stops(m, w) ==
    {j \in DOMAIN w : \A k \in 1 .. j : \E i \in DOMAIN m : Tag(m[i]) = w[k].tag}
\* What is of a known number and type; anything else is skipped.
Known(m, w) == {j \in DOMAIN w : \E i \in DOMAIN m : Tag(m[i]) = w[j].tag}
FieldOf(m, e) == m[CHOOSE i \in DOMAIN m : Tag(m[i]) = e.tag]

\* A field is set, or added to a repeated one, as each entry is read.
Put(r, f, x) == [r EXCEPT ![f.name] = IF f.label = "many" THEN Append(@, x) ELSE x]
Assemble(m, w, read) ==
    LET r[j \in 0 .. Len(w)] ==
          IF j = 0 THEN CreateBase(m)
          ELSE IF j \in DOMAIN read THEN Put(r[j - 1], FieldOf(m, w[j]), read[j])
          ELSE r[j - 1] IN
    r[Len(w)]

Decode(m, w) ==
    LET Over(Nested(_, _), n, u) ==
          LET One(f, d) == IF IsNested(f) THEN FromInner(f, Nested(Inner(f), d)) ELSE d IN
          Assemble(n, u, [j \in Known(n, u) |-> One(FieldOf(n, u[j]), u[j].data)])
        Decode1(n, u) == Over(LAMBDA o, d : None, n, u)
        Decode2(n, u) == Over(Decode1, n, u)
        Decode3(n, u) == Over(Decode2, n, u) IN
    Over(Decode3, m, w)
----------------------------------------------------------------------------
(* A peer keeps a date as a Timestamp, to the nanosecond, and may be built *)
(* from another version of the .proto files: with fields of its own,       *)
(* without our last one, with another type for our first one, or sending   *)
(* its fields in another order.                                            *)

Dialects == {"same", "newer", "older", "retyped", "reordered"}

Retyped(f) == IF WireType(f) = 0 THEN Str(f.no, f.name) ELSE Num(f.no, f.name)

\* The version of a message n, whose fields, with the messages in them already in
\* that version, are t.
Version(dialect, n, t) ==
    IF n = <<>> THEN <<>>
    ELSE CASE dialect = "same"      -> t
           [] dialect = "newer"     ->
                <<Num(21, "addedInt")>> \o t \o <<Str(22, "addedStr")>>
           [] dialect = "older"     -> Front(t)
           [] dialect = "retyped"   -> <<Retyped(t[1])>> \o Tail(t)
           [] dialect = "reordered" -> Reverse(t)

Speak(dialect, m) ==
    LET Over(Nested(_), n) ==
          Version(dialect, n,
                  [i \in DOMAIN n |->
                     IF n[i].type = "date" THEN Sub(n[i].no, n[i].name, Timestamp)
                     ELSE [n[i] EXCEPT !.of = Nested(@)]])
        Speak1(n) == Over(LAMBDA o : o, n)
        Speak2(n) == Over(Speak1, n)
        Speak3(n) == Over(Speak2, n) IN
    Over(Speak3, m)

\* What a message of one side means to the other: of the fields both have, of
\* the same type, its value; of any other field of the reader, the default.
Meaning(reader, writer, v) ==
    LET Over(Nested(_, _, _), r, w, z) ==
          LET Of(f, g, x) ==
                CASE f.type = "date" /\ x # None -> FromTimestamp(x)
                  [] g.type = "date" /\ x # None ->
                       [seconds |-> x \div 1000, nanos |-> 1000000 * (x % 1000)]
                  [] f.type = "message" /\ f.label = "many" ->
                       [i \in DOMAIN x |-> Nested(f.of, g.of, x[i])]
                  [] f.type = "message" /\ f.label # "many" /\ g.type = "message" /\ x # None ->
                       Nested(f.of, g.of, x)
                  [] OTHER -> x IN
          [n \in Names(r) |->
             LET f == Named(r, n) IN
             IF n \in Names(w) /\ WireType(Named(w, n)) = WireType(f)
             THEN Of(f, Named(w, n), z[n])
             ELSE Base(f)]
        Meaning1(r, w, z) == Over(LAMBDA q, y, x : x, r, w, z)
        Meaning2(r, w, z) == Over(Meaning1, r, w, z)
        Meaning3(r, w, z) == Over(Meaning2, r, w, z) IN
    Over(Meaning3, reader, writer, v)
----------------------------------------------------------------------------
(* Samples of a message: with every field set, each to a value of its own, *)
(* with one of them left out, with each value of an enum, and with each    *)
(* sample of a nested message.                                             *)

EnumValues == 0 .. 4  \* the last one is not in any enum

Full(m) ==
    LET Over(Nested(_), n) ==
          LET Value(f) ==
                IF f.label = "many"
                THEN IF f.type = "string" THEN <<"a", "b">>
                     ELSE <<Nested(f.of), CreateBase(f.of)>>
                ELSE CASE f.type = "string"  -> f.name
                       [] f.type = "bytes"   -> <<f.no, 7>>
                       [] f.type = "bool"    -> TRUE
                       [] f.type = "enum"    -> 1
                       [] f.type = "date"    -> 1000 * f.no + 500
                       [] f.type = "message" -> Nested(f.of)
                       [] OTHER              -> f.no IN
          [name \in Names(n) |-> Value(Named(n, name))]
        Full1(n) == Over(CreateBase, n)
        Full2(n) == Over(Full1, n)
        Full3(n) == Over(Full2, n) IN
    Over(Full3, m)

Samples(m) ==
    LET Over(Nested(_), n) ==
          LET Others(f) ==
                {Base(f)} \union
                CASE f.type = "enum" -> EnumValues
                  [] f.type = "message" /\ f.label = "many" -> {<<v>> : v \in Nested(f.of)}
                  [] f.type = "message" /\ f.label # "many" -> Nested(f.of)
                  [] OTHER -> {} IN
          {Full(n)} \union
          UNION {{[Full(n) EXCEPT ![name] = x] : x \in Others(Named(n, name))} :
                   name \in Names(n)}
        Samples1(n) == Over(LAMBDA o : {}, n)
        Samples2(n) == Over(Samples1, n)
        Samples3(n) == Over(Samples2, n) IN
    Over(Samples3, m)
=============================================================================
