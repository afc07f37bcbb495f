--------------------------------- MODULE Codec ---------------------------------
(***************************************************************************)
(* The field walker of src/mqtt/codec.rs, one parse_field at a time, over  *)
(* any bytes and over the messages of devices.                             *)
(***************************************************************************)
EXTENDS Tlv

CONSTANTS
  Messages,     \* what was encoded: fields, increment and checksum
  Noise         \* bytes nobody encoded

ASSUME CodecAssumption ==
  /\ \A m \in Messages : BytesOf(m) \in Seq(Byte)
  /\ \A bytes \in Noise : bytes \in Seq(Byte)

VARIABLES
  buf,      \* the body: the argument of decode_fields
  idx,      \* the offset the walk has come to
  fields,   \* the map it has built, from names to values
  done,     \* it has returned
  sent      \* the message that was encoded, or NoMessage (history)

vars == <<buf, idx, fields, done, sent>>

NoMessage == << >>

Init == /\ \/ \E m \in Messages : buf = Body(BytesOf(m)) /\ sent = m
           \/ \E bytes \in Noise : buf = Body(bytes) /\ sent = NoMessage
        /\ idx = 0 /\ done = FALSE
        /\ fields = << >>

-------------------------------------------------------------------------------
(* decode_fields.                                                          *)

Rest == RestFrom(buf, idx)                 \* &buf[idx..]

TakeField ==
  /\ ~done /\ MoreFields(Rest) /\ WellFormed(Rest)
  /\ fields' = [name \in DOMAIN fields \cup {ByteAt(Rest, 0)} |->
                  IF name = ByteAt(Rest, 0) THEN Value(Rest) ELSE fields[name]]
  /\ idx' = idx + Consumed(Rest)
  /\ UNCHANGED <<buf, done, sent>>

EndsAtEndOnly == ~MoreFields(Rest)         \* variant: no break on consumed == 0
EndsWalk      == MoreFields(Rest) => ~WellFormed(Rest)

Stop ==
  /\ ~done /\ EndsWalk
  /\ done' = TRUE
  /\ UNCHANGED <<buf, idx, fields, sent>>

Next == TakeField \/ Stop

Spec == Init /\ [][Next]_vars
FairSpec == Spec /\ WF_vars(Next)

-------------------------------------------------------------------------------
TypeOK == /\ buf \in Seq(Byte) /\ idx \in 0 .. Len(buf)
          /\ done \in BOOLEAN
          /\ \A name \in DOMAIN fields : fields[name] \in Seq(Byte)

(* Whatever the bytes, no slice of parse_field is out of bounds (codec.rs: *)
(* 129-141): a field it accepts lies within the buffer, and so does every  *)
(* byte it looks ahead to.                                                 *)
FieldInBounds ==
  ~done /\ MoreFields(Rest) =>
    /\ WellFormed(Rest) => Consumed(Rest) \in 3 .. Len(Rest)
    /\ TwoByteLen(Rest) => 3 + TentativeLen(Rest) < Len(Rest)

(* In a body of up to Base + 5 bytes (261 in the code) the look ahead takes *)
(* no number and no bin with a one-byte length for one with two: their     *)
(* type would be the high byte of a length that does not fit (codec.rs:    *)
(* 73-76).  codec_long shows that one byte more is too much.               *)
ShortBodiesKeepLengths ==
  ~done /\ MoreFields(Rest) /\ Len(buf) <= Base + 5 =>
    (ByteAt(Rest, 1) >= 2 /\ ByteAt(Rest, 2) # 0 => FieldLen(Rest) = ByteAt(Rest, 1))

(* The walk ends on any input: a malformed field breaks it (codec.rs:      *)
(* 57-66), anything else moves it on.                                      *)
WalkEnds == <>done

(* The guesses are right about unambiguous messages: the walk takes apart  *)
(* what was put together, one- and two-byte lengths, typed and untyped     *)
(* fields, an increment byte or none, whatever the checksum is.            *)
RoundTrip ==
  done /\ sent # NoMessage /\ Unambiguous(sent) => fields = ValuesOf(sent)

(* What the walk returns is DecodeFields of its argument, whatever the     *)
(* bytes: where a name comes twice, its last value stays (codec.rs:64).    *)
WalkIsDecodeFields == done => fields = DecodeFields(buf)
===============================================================================
