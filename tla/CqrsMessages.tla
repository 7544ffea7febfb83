---------------------------- MODULE CqrsMessages ----------------------------
(***************************************************************************)
(* The messages of cqrs.proto as the generated code implements them        *)
(* (proto/cqrs.pb.h, cqrs.pb.cc): the headers of commands, responses and   *)
(* events and the CreateStream command, which frames carry as bytes from   *)
(* one process to another.                                                 *)
(*                                                                         *)
(* Bytes are numbers below 256 and a string is the sequence of its bytes.  *)
(* A number is the sequence of its digits to the base 128, the lowest      *)
(* first and the highest not 0: full 64-bit width within TLC's integers,   *)
(* and what a varint puts on the wire.  So <<>> is both 0 and "", the      *)
(* default of every field.                                                 *)
(***************************************************************************)
EXTENDS Naturals, SequencesExt

CONSTANTS Objects,    \* message objects
          UInt32s,    \* uint32 values that are set
          UInt64s,    \* uint64 values that are set
          Strings,    \* string values that are set, "" among them
          MaxUnknown  \* bound: unknown fields an object collects

(* Strings are shorter than 2^21 bytes, three digits of length: a frame    *)
(* has room for 2^16.                                                      *)
LengthLimit == 2097152

(* A number of at most so many digits, the last of them below top.         *)
IsNumber(v, digits, top) ==
  /\ v \in Seq(0 .. 127) /\ Len(v) <= digits
  /\ v # <<>> => Last(v) # 0
  /\ Len(v) = digits => Last(v) < top

IsText(v) == v \in Seq(0 .. 255) /\ Len(v) < LengthLimit

(* What the C++ type of a field can hold.                                  *)
OfKind(kind, v) ==
  /\ kind = "uint32" => IsNumber(v, 5, 16)
  /\ kind = "uint64" => IsNumber(v, 10, 2)
  /\ kind = "string" => IsText(v)

ASSUME CqrsAssumption ==
  /\ MaxUnknown \in Nat
  /\ \A v \in UInt32s : OfKind("uint32", v)
  /\ \A v \in UInt64s : OfKind("uint64", v)
  /\ \A v \in Strings : OfKind("string", v)

Field(number, name, kind) == [number |-> number, name |-> name, kind |-> kind]

(* Field tables: what Clear, _InternalSerialize, ByteSizeLong, MergeImpl   *)
(* and the parse table of a message class go through.                      *)
CommandHeader == <<Field(1, "command_type", "uint32"),
                   Field(2, "recipient", "string")>>

CommandResponse == <<Field(1, "status_code", "uint32"),
                     Field(2, "error_message", "string"),
                     Field(3, "response_type", "uint32")>>

CreateStream == <<Field(1, "name", "string")>>

EventHeader == <<Field(1, "timestamp", "uint64"),
                 Field(2, "event_type", "uint32")>>

Fields == [CommandHeader |-> CommandHeader, CommandResponse |-> CommandResponse,
           CreateStream |-> CreateStream, EventHeader |-> EventHeader]

Types == DOMAIN Fields
Names(t) == {f.name : f \in ToSet(Fields[t])}

(* The Impl_ constructors and SharedCtor.                                  *)
Default(t) == [type |-> t, f |-> [n \in Names(t) |-> <<>>], unknown |-> <<>>]

VARIABLE obj  \* obj[o]: the object: its class, fields and unknown fields

-----------------------------------------------------------------------------
(***************************************************************************)
(* The wire format.                                                        *)
(***************************************************************************)
WireType(kind) == IF kind = "string" THEN 2 ELSE 0

Varint(n) == IF n = <<>> THEN <<0>>
             ELSE [i \in DOMAIN n |-> n[i] + IF i < Len(n) THEN 128 ELSE 0]

(* The digits without zeros at the end.                                    *)
Normal(ds) ==
  LET top == {i \in DOMAIN ds : ds[i] # 0}
  IN  SubSeq(ds, 1, IF top = {} THEN 0 ELSE Max(top))

(* A length as digits and back.                                            *)
Digits(length) ==
  Normal(<<length % 128, (length \div 128) % 128, length \div 16384>>)

Value(ds) == LET d(i) == IF i <= Len(ds) THEN ds[i] ELSE 0
             IN  d(1) + 128 * d(2) + 16384 * d(3)

(* A tag and a value: WriteUInt32ToArray, WriteUInt64ToArray,              *)
(* WriteStringMaybeAliased.                                                *)
Record(number, wt, v) ==
  <<8 * number + wt>> \o (IF wt = 2 THEN Varint(Digits(Len(v))) \o v
                                    ELSE Varint(v))

(* _InternalSerialize: the fields that are not at their defaults, by       *)
(* number, and the unknown fields.  A string that is not UTF-8 is written  *)
(* all the same: VerifyUtf8String only logs.                               *)
FieldBytes(m, f) ==
  IF m.f[f.name] = <<>> THEN <<>>
  ELSE Record(f.number, WireType(f.kind), m.f[f.name])

Pieces(m) ==
  LET fields == Fields[m.type]
  IN  [i \in 1 .. Len(fields) |-> FieldBytes(m, fields[i])]
      \o [i \in 1 .. Len(m.unknown) |->
            Record(m.unknown[i].number, m.unknown[i].wt, m.unknown[i].v)]

Serialize(m) == FlattenSeq(Pieces(m))

(* VarintSize32, VarintSize64: the number of 7-bit groups, worked out from *)
(* the highest bit.                                                        *)
PowersOf2 == <<1, 2, 4, 8, 16, 32, 64, 128>>

VarintSize(n) ==
  LET top == IF n = <<>> THEN 1 ELSE Last(n)
      low == CHOOSE b \in 0 .. 6 : /\ PowersOf2[b + 1] <= top
                                   /\ top < PowersOf2[b + 2]
      log2 == low + IF n = <<>> THEN 0 ELSE 7 * (Len(n) - 1)
  IN  (log2 * 9 + 73) \div 64

ValueSize(wt, v) ==
  IF wt = 2 THEN VarintSize(Digits(Len(v))) + Len(v) ELSE VarintSize(v)

FieldSize(m, f) ==
  IF m.f[f.name] = <<>> THEN 0
  ELSE 1 + ValueSize(WireType(f.kind), m.f[f.name])

Total(sizes) ==
  LET total[i \in 0 .. Len(sizes)] ==
        IF i = 0 THEN 0 ELSE total[i - 1] + sizes[i]
  IN  total[Len(sizes)]

(* Fault: the unknown fields are not counted.                              *)
ByteSizeLongOfKnown(m) ==
  LET fields == Fields[m.type]
  IN  Total([i \in 1 .. Len(fields) |-> FieldSize(m, fields[i])])

(* ByteSizeLong, which the frame's size words are taken from.              *)
ByteSizeLong(m) ==
  LET fields == Fields[m.type]
  IN  Total([i \in 1 .. Len(fields) |-> FieldSize(m, fields[i])]
            \o [i \in 1 .. Len(m.unknown) |->
                  1 + ValueSize(m.unknown[i].wt, m.unknown[i].v)])

(* Fault: Clear keeps the unknown fields.                                  *)
ClearedFields(m) == [m EXCEPT !.f = Default(m.type).f]

(* Clear.                                                                  *)
Cleared(m) == Default(m.type)

(* Fault: defaults are copied as well.                                     *)
MergedAll(to, from) ==
  [type |-> to.type, f |-> from.f, unknown |-> to.unknown \o from.unknown]

(* MergeImpl: a field of from counts when it is not at its default.        *)
Merged(to, from) ==
  [type |-> to.type,
   f |-> [n \in DOMAIN to.f |->
            IF from.f[n] # <<>> THEN from.f[n] ELSE to.f[n]],
   unknown |-> to.unknown \o from.unknown]

(* CopyFrom.                                                               *)
Copied(to, from) == Merged(Cleared(to), from)

-----------------------------------------------------------------------------
(***************************************************************************)
(* Parsing: TcParser over the table of a message.                          *)
(***************************************************************************)
(* utf8_range: how many bytes the character takes that byte b begins, 0    *)
(* when no character begins with it; what may follow; and whether s is     *)
(* well-formed UTF-8, without overlong forms and surrogates and up to      *)
(* U+10FFFF.                                                               *)
Continuation == 128 .. 191

CharLength(b) == CASE b < 128 -> 1
                   [] b \in 194 .. 223 -> 2
                   [] b \in 224 .. 239 -> 3
                   [] b \in 240 .. 244 -> 4
                   [] OTHER -> 0

SecondByte(b) == CASE b = 224 -> 160 .. 191
                   [] b = 237 -> 128 .. 159
                   [] b = 240 -> 144 .. 191
                   [] b = 244 -> 128 .. 143
                   [] OTHER -> Continuation

Utf8Valid(s) ==
  \A i \in DOMAIN s :
    LET n == CharLength(s[i])
    IN  IF s[i] \in Continuation
          THEN \E k \in 1 .. 3 : k < i /\ CharLength(s[i - k]) > k
          ELSE /\ n > 0 /\ i + n - 1 <= Len(s)
               /\ n > 1 => s[i + 1] \in SecondByte(s[i])
               /\ \A k \in 2 .. n - 1 : s[i + k] \in Continuation

(* The low digits, the last one possibly in part.                          *)
Low(ds, digits, top) ==
  Normal([i \in 1 .. IF Len(ds) < digits THEN Len(ds) ELSE digits |->
            IF i = digits THEN ds[i] % top ELSE ds[i]])

(* Fault: the digits of a uint64 are stored in a uint32 field as they are. *)
NotTruncated(kind, ds) == Low(ds, 10, 2)

(* A varint as a field of the kind holds it: SingularVarintNoZag1 keeps    *)
(* the low 32 or 64 bits.                                                  *)
Truncated(kind, ds) ==
  IF kind = "uint32" THEN Low(ds, 5, 16) ELSE Low(ds, 10, 2)

Bad == [ok |-> FALSE]

(* The varint at the front: it ends with the first byte below 128, the     *)
(* tenth at the latest.                                                    *)
ReadVarint(bytes) ==
  LET ends == {i \in 1 .. Len(bytes) : i <= 10 /\ bytes[i] < 128}
      n == Min(ends)
  IN  IF ends = {} THEN Bad
      ELSE [ok |-> TRUE, v |-> [i \in 1 .. n |-> bytes[i] % 128],
            rest |-> SubSeq(bytes, n + 1, Len(bytes))]

(* Fault: a string that runs over the end is cut.                          *)
ReadStringCut(bytes) ==
  LET size == ReadVarint(bytes)
      n == Min({Value(size.v), Len(size.rest)})
  IN  IF ~size.ok THEN Bad
      ELSE [ok |-> TRUE, v |-> SubSeq(size.rest, 1, n),
            rest |-> SubSeq(size.rest, n + 1, Len(size.rest))]

(* A length and that many bytes.                                           *)
ReadString(bytes) ==
  LET size == ReadVarint(bytes)
      n == Value(size.v)
  IN  IF ~size.ok THEN Bad
      ELSE IF Len(size.v) > 3 \/ n > Len(size.rest) THEN Bad
      ELSE [ok |-> TRUE, v |-> SubSeq(size.rest, 1, n),
            rest |-> SubSeq(size.rest, n + 1, Len(size.rest))]

ReadValue(wt, bytes) ==
  IF wt = 0 THEN ReadVarint(bytes)
  ELSE IF wt = 2 THEN ReadString(bytes)
  ELSE Bad

(* Fault: a field is known by its number alone.                            *)
KnownByNumber(t, number, wt) ==
  {f \in ToSet(Fields[t]) : f.number = number}

(* The field of the table that a tag stands for: number and wire type.     *)
Known(t, number, wt) ==
  {f \in ToSet(Fields[t]) : f.number = number /\ WireType(f.kind) = wt}

(* A value goes to its field, the last one wins, or to the unknown fields. *)
Stored(m, number, wt, v) ==
  LET known == Known(m.type, number, wt)
  IN  IF known = {}
        THEN [m EXCEPT !.unknown = Append(@,
               [number |-> number, wt |-> wt,
                v |-> IF wt = 2 THEN v ELSE Truncated("uint64", v)])]
        ELSE LET f == CHOOSE f \in known : TRUE
             IN  [m EXCEPT !.f[f.name] =
                    IF wt = 2 THEN v ELSE Truncated(f.kind, v)]

(* One tag and its value.  A tag has one byte, as no class has a field     *)
(* above 15.  A string of the table that is not UTF-8 is stored and then   *)
(* refused.                                                                *)
Advance(s) ==
  LET number == s.rest[1] \div 8
      wt == s.rest[1] % 8
      r == ReadValue(wt, Tail(s.rest))
      refused == /\ wt = 2 /\ ~Utf8Valid(r.v)
                 /\ Known(s.msg.type, number, wt) # {}
  IN  IF ~s.ok \/ s.rest = <<>> THEN s
      ELSE IF number \notin 1 .. 15 \/ ~r.ok THEN [s EXCEPT !.ok = FALSE]
      ELSE [ok |-> ~refused, msg |-> Stored(s.msg, number, wt, r.v),
            rest |-> r.rest]

(* ParseFromArray of a new object of class t: tags and values while there  *)
(* are bytes, so not more of them than bytes.                              *)
Parsed(t, bytes) ==
  LET state[k \in 0 .. Len(bytes)] ==
        IF k = 0 THEN [ok |-> TRUE, msg |-> Default(t), rest |-> bytes]
                 ELSE Advance(state[k - 1])
  IN  state[Len(bytes)]

-----------------------------------------------------------------------------
(***************************************************************************)
(* What programs do with message objects.                                  *)
(***************************************************************************)
Put(o, m) ==
  /\ Len(m.unknown) <= MaxUnknown
  /\ obj' = [obj EXCEPT ![o] = m]

Set(o, t, n, values) ==
  /\ obj[o].type = t
  /\ \E v \in values : Put(o, [obj[o] EXCEPT !.f[n] = v])

(* set_, clear_, mutable_ and release_ of the fields of each class.        *)
SetCommandHeader(o) ==
  \/ Set(o, "CommandHeader", "command_type", UInt32s)
  \/ Set(o, "CommandHeader", "recipient", Strings)

SetCommandResponse(o) ==
  \/ Set(o, "CommandResponse", "status_code", UInt32s)
  \/ Set(o, "CommandResponse", "error_message", Strings)
  \/ Set(o, "CommandResponse", "response_type", UInt32s)

SetCreateStream(o) == Set(o, "CreateStream", "name", Strings)

SetEventHeader(o) ==
  \/ Set(o, "EventHeader", "timestamp", UInt64s)
  \/ Set(o, "EventHeader", "event_type", UInt32s)

(* A new object takes the place of the old one, ...                        *)
Construct(o, t) == Put(o, Default(t))

(* ... by the copy constructor, field by field.                            *)
CopyConstruct(o, p) == o # p /\ Put(o, obj[p])

Clear(o) == Put(o, Cleared(obj[o]))

(* if (&from == this) return;                                              *)
CopyFrom(o, p) ==
  /\ obj[o].type = obj[p].type
  /\ IF o = p THEN UNCHANGED obj ELSE Put(o, Copied(obj[o], obj[p]))

MergeFrom(o, p) ==
  /\ o # p /\ obj[o].type = obj[p].type
  /\ Put(o, Merged(obj[o], obj[p]))

(* Swap, the move constructor and the move assignment: InternalSwap.       *)
InternalSwap(o, p) ==
  /\ o # p /\ obj[o].type = obj[p].type
  /\ obj' = [obj EXCEPT ![o] = obj[p], ![p] = obj[o]]

(* Deserialize, and Read for the header: what p is serialized to is parsed *)
(* by a new object of class t, any class, as nothing in a frame says which *)
(* class its header is of.  When the parse fails the new object is dropped *)
(* with the exception.                                                     *)
Deserialize(o, p, t) ==
  LET r == Parsed(t, Serialize(obj[p]))
  IN  IF r.ok THEN Put(o, r.msg) ELSE UNCHANGED obj

Init == obj = [o \in Objects |-> Default("CommandHeader")]

Next ==
  \E o \in Objects :
    \/ SetCommandHeader(o) \/ SetCommandResponse(o)
    \/ SetCreateStream(o) \/ SetEventHeader(o)
    \/ \E t \in Types : Construct(o, t)
    \/ Clear(o)
    \/ \E p \in Objects : \/ CopyConstruct(o, p) \/ CopyFrom(o, p)
                          \/ MergeFrom(o, p) \/ InternalSwap(o, p)
                          \/ \E t \in Types : Deserialize(o, p, t)

Spec == Init /\ [][Next]_obj

-----------------------------------------------------------------------------
(***************************************************************************)
(* Properties.                                                             *)
(***************************************************************************)
(* A field the table of class t does not know.                             *)
Unknown(t) ==
  {u \in [number : 1 .. 15, wt : {0, 2}, v : Seq(0 .. 255)] :
     /\ Known(t, u.number, u.wt) = {}
     /\ OfKind(IF u.wt = 2 THEN "string" ELSE "uint64", u.v)}

Messages(t) ==
  {m \in [type : {t}, f : [Names(t) -> Seq(0 .. 255)],
          unknown : Seq(Unknown(t))] :
     \A f \in ToSet(Fields[t]) : OfKind(f.kind, m.f[f.name])}

(* Every object is of one of the classes, and every field holds a value of *)
(* its width, also when the bytes came from an object of another class,    *)
(* whose field of that number is wider.  What that class does not know is  *)
(* kept apart.                                                             *)
TypeOK ==
  /\ DOMAIN obj = Objects
  /\ \A o \in Objects : /\ obj[o].type \in Types
                        /\ obj[o] \in Messages(obj[o].type)
                        /\ Len(obj[o].unknown) <= MaxUnknown

(* ByteSizeLong is the number of bytes that are written: the frame buffer  *)
(* takes one for the size word and the other for the offset of what comes  *)
(* next.                                                                   *)
SizeExact == \A o \in Objects : ByteSizeLong(obj[o]) = Len(Serialize(obj[o]))

Readable(m) == \A f \in ToSet(Fields[m.type]) :
                 f.kind = "string" => Utf8Valid(m.f[f.name])

(* What was written is read back, unknown fields included, by an object of *)
(* the same class, unless a string is not UTF-8: that is written and then  *)
(* refused (a CommandResponse with such an error_message never arrives).   *)
RoundTrip ==
  \A o \in Objects :
    LET r == Parsed(obj[o].type, Serialize(obj[o]))
    IN  IF Readable(obj[o]) THEN r.ok /\ r.msg = obj[o] ELSE ~r.ok

(* The bytes of two messages one after the other read as the merge of the  *)
(* two: MergeImpl and the parser agree about defaults and about the order  *)
(* of unknown fields.                                                      *)
MergeIsConcatenation ==
  \A o, p \in Objects :
    (obj[o].type = obj[p].type /\ Readable(obj[o]) /\ Readable(obj[p])) =>
      Parsed(obj[o].type, Serialize(obj[o]) \o Serialize(obj[p])).msg
        = Merged(obj[o], obj[p])

(* CopyFrom leaves nothing of the old object, though the merge it uses     *)
(* skips the fields that are at their defaults.                            *)
CopyExact ==
  \A o, p \in Objects :
    obj[o].type = obj[p].type => Copied(obj[o], obj[p]) = obj[p]

(* Bytes that stop early are refused or read as fewer fields, never as     *)
(* another value of a field.                                               *)
CutNeverAlters ==
  \A o \in Objects :
    \A k \in 0 .. Len(Serialize(obj[o])) :
      LET m == obj[o]
          r == Parsed(m.type, SubSeq(Serialize(m), 1, k))
      IN  r.ok => /\ \A n \in DOMAIN m.f : r.msg.f[n] \in {<<>>, m.f[n]}
                  /\ IsPrefix(r.msg.unknown, m.unknown)
=============================================================================
