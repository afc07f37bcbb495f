---------------------------------- MODULE Tlv ----------------------------------
(***************************************************************************)
(* The format of src/mqtt/codec.rs as functions: MsgHeader::decode,        *)
(* parse_field and decode_fields, which take a message apart with no other *)
(* guide to the width of a length than a look ahead, and the encoding they *)
(* are the inverse of, which build_realtime_trigger and the device use.    *)
(* Bytes are numbers below Base (256 in the code), so that small bases     *)
(* make long messages short.                                               *)
(*                                                                         *)
(* Message bytes are those after the nine fixed bytes of the header.  What *)
(* from_utf8 accepts is abstracted to bytes below Ascii: the multi-byte    *)
(* sequences of UTF-8 are left out.                                        *)
(***************************************************************************)
EXTENDS Naturals, Sequences, SequencesExt

CONSTANTS
  Base,         \* how many values a byte has
  TypeMax,      \* the largest byte taken for a type (0x31)
  Ascii,        \* bytes below it form valid UTF-8 (0x80)
  FirstName,    \* the least name of a field (0xa0)
  LastFirst     \* the greatest name a body may start with (0xa9)

(* The types the look ahead asks for, 0 and 4, are no names.               *)
ASSUME TlvAssumption ==
  Base \in Nat /\ TypeMax \in Nat /\ FirstName \in 5 .. Base - 1

Byte  == 0 .. Base - 1
Names == FirstName .. Base - 1

-------------------------------------------------------------------------------
HeaderIsNine(bytes) == bytes               \* variant: the increment forgotten

(* MsgHeader::decode: a tenth header byte, the increment, is there if the  *)
(* byte in its place is no name a first field may have.                    *)
Body(bytes) == IF bytes # << >> /\ Head(bytes) \notin FirstName .. LastFirst
                 THEN Tail(bytes) ELSE bytes

-------------------------------------------------------------------------------
(* parse_field(b).                                                         *)

ByteAt(b, i)         == b[i + 1]           \* b[i] in the code
Cut(b, from, size)   == SubSeq(b, from + 1, from + size)

UnshiftedLen(b) == ByteAt(b, 1) + ByteAt(b, 2)     \* variant: high not shifted
TentativeLen(b) == ByteAt(b, 1) + Base * ByteAt(b, 2)    \* u16::from_le_bytes

NextNameOnly(b) == ByteAt(b, 3 + TentativeLen(b)) > ByteAt(b, 0)
                                           \* variant: no case for the end

(* The bytes after a bin of the tentative size look like the checksum, or  *)
(* like a field whose name comes later.                                    *)
EndsAtNextField(b) ==
  \/ Len(b) - TentativeLen(b) = 4
  \/ /\ Len(b) - TentativeLen(b) >= 3
     /\ ByteAt(b, 3 + TentativeLen(b)) > ByteAt(b, 0)

IsText(b) == \A i \in 4 .. TentativeLen(b) + 2 : ByteAt(b, i) < Ascii

TwoByteLen(b) ==
  /\ Len(b) >= 4 /\ ByteAt(b, 3) \in {0, 4}
  /\ TentativeLen(b) > 3 /\ TentativeLen(b) <= Len(b) - 4
  /\ \/ ByteAt(b, 3) = 4 /\ EndsAtNextField(b)
     \/ ByteAt(b, 3) = 0 /\ IsText(b)

LenBytes(b) == IF TwoByteLen(b) THEN 2 ELSE 1
FieldLen(b) == IF TwoByteLen(b) THEN TentativeLen(b) ELSE ByteAt(b, 1)
TypeByteExtra(b) == 2 + LenBytes(b) + FieldLen(b)  \* variant: the type counts twice
Consumed(b)      == 1 + LenBytes(b) + FieldLen(b)

LongerAllowed(b) == FieldLen(b) # 0 /\ FieldLen(b) <= Len(b) - 1   \* variant
WellFormed(b)    == FieldLen(b) # 0 /\ FieldLen(b) <= Len(b) - 2

HasTypeByte(b) == FieldLen(b) > 1 /\ ByteAt(b, 1 + LenBytes(b)) <= TypeMax
Value(b) == IF HasTypeByte(b) THEN Cut(b, 2 + LenBytes(b), FieldLen(b) - 1)
                              ELSE Cut(b, 2, FieldLen(b))

-------------------------------------------------------------------------------
(* decode_fields(body), from offset i on.                                  *)

RestFrom(body, i) == SubSeq(body, i + 1, Len(body))
MoreFields(b)     == Len(b) > 2

(* fields.insert(name, value), followed by those of the fields after it.   *)
FirstStays(name, value, later) ==          \* variant: entry().or_insert()
  [n \in DOMAIN later \cup {name} |-> IF n = name THEN value ELSE later[n]]
Insert(name, value, later) ==
  [n \in DOMAIN later \cup {name} |-> IF n \in DOMAIN later THEN later[n] ELSE value]

DecodeFields(body) ==
  LET walk[i \in 0 .. Len(body)] ==
        LET b == RestFrom(body, i)
        IN  IF MoreFields(b) /\ WellFormed(b)
              THEN Insert(ByteAt(b, 0), Value(b), walk[i + Consumed(b)])
              ELSE << >>
  IN  walk[0]

-------------------------------------------------------------------------------
(* The encoding.  A message is a map from names to fields, an increment    *)
(* byte or none, and a checksum; a field has a length of one byte or two,  *)
(* and a type byte or none.                                                *)

NoType == Base
Field(width, type, value) == [width |-> width, type |-> type, value |-> value]

Content(f) == IF f.type = NoType THEN f.value ELSE <<f.type>> \o f.value

EncodeField(name, f) ==
  LET size == Len(Content(f))
  IN  <<name>> \o (IF f.width = 1 THEN <<size>> ELSE <<size % Base, size \div Base>>)
               \o Content(f)

Encode(fields) ==
  FlattenSeq([k \in 1 .. Base - FirstName |->
    LET name == FirstName + k - 1
    IN  IF name \in DOMAIN fields THEN EncodeField(name, fields[name]) ELSE << >>])

BodyOf(m)   == Encode(m.fields) \o <<m.checksum>>
BytesOf(m)  == m.increment \o BodyOf(m)
ValuesOf(m) == [name \in DOMAIN m.fields |-> m.fields[name].value]

(* build_realtime_trigger: a1 the pattern byte, a2 on or off, a3 the       *)
(* timeout, fe the time.                                                   *)
LE4(n) == <<n % Base, (n \div Base) % Base,
            (n \div (Base * Base)) % Base, (n \div (Base * Base * Base)) % Base>>

TriggerFields(a1, a2, a3, fe, pattern, enable, timeoutSecs, nowSecs) ==
     (a1 :> Field(1, NoType, <<pattern>>))
  @@ (a2 :> Field(1, 1, <<IF enable THEN 1 ELSE 0>>))
  @@ (a3 :> Field(1, 3, LE4(timeoutSecs)))
  @@ (fe :> Field(1, 3, LE4(nowSecs)))

-------------------------------------------------------------------------------
(* When the guesses of the decoder are right.                              *)

(* A type byte is taken for one, and a first value byte is not.            *)
TypeIsPlain(f) == /\ f.value # << >>
                  /\ IF f.type = NoType
                       THEN Len(f.value) = 1 \/ Head(f.value) > TypeMax
                       ELSE f.type \in Byte /\ f.type <= TypeMax

(* The bytes of the body from a field on, with the checksum.               *)
SizeFrom(m, name) ==
  Len(Encode(Restrict(m.fields, {n \in DOMAIN m.fields : n >= name}))) + 1

(* With a length of one byte: no second length byte is seen, as no type    *)
(* follows in the place of one, or the length would go beyond the body.    *)
OneByteIsPlain(f, size) ==
  LET content == Content(f)
  IN  /\ Len(content) < Base
      /\ \/ Len(content) = 1 \/ content[2] \notin {0, 4}
         \/ Len(content) + Base * content[1] > size - 4

(* With one of two bytes: it is a bin or text, and not too short.          *)
TwoBytesArePlain(f) ==
  /\ f.width = 2 /\ Len(Content(f)) \in 4 .. Base * Base - 1
  /\ \/ f.type = 4
     \/ f.type = 0 /\ \A i \in DOMAIN f.value : f.value[i] < Ascii

IsPlain(f, size) == /\ f.value \in Seq(Byte) /\ TypeIsPlain(f)
                    /\ IF f.width = 1 THEN OneByteIsPlain(f, size)
                                      ELSE TwoBytesArePlain(f)

(* The header is not misread either: a body without an increment starts    *)
(* with the name of a first field, and no increment is such a name.        *)
HeaderIsPlain(m) ==
  \/ m.increment = << >> /\ BodyOf(m)[1] \in FirstName .. LastFirst
  \/ \E byte \in Byte \ (FirstName .. LastFirst) : m.increment = <<byte>>

Unambiguous(m) ==
  /\ DOMAIN m.fields \subseteq Names /\ m.checksum \in Byte /\ HeaderIsPlain(m)
  /\ \A name \in DOMAIN m.fields : IsPlain(m.fields[name], SizeFrom(m, name))
===============================================================================
