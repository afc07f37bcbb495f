-------------------------------- MODULE MCCodec --------------------------------
(***************************************************************************)
(* Message sets for Codec in base 16: names from 10 up, types up to 5,     *)
(* text below 8.                                                           *)
(***************************************************************************)
EXTENDS Codec

(* The forms a field of a device message takes: numbers, bins and strings  *)
(* with one- and two-byte lengths, and a single byte without a type.  Text *)
(* starts with a printable character where its length has one byte;        *)
(* two-byte lengths are used from 4 up.                                    *)
Forms ==
       {Field(1, type, value) : type \in {1, 3}, value \in {<<0>>, <<4, 9>>}}
  \cup {Field(1, 4, value) : value \in {<<0>>, <<4, 11>>}}
  \cup {Field(2, 4, value) : value \in {<<0, 4, 12>>, <<12, 0, 0, 0>>}}
  \cup {Field(1, 0, value) : value \in {<<7>>, <<7, 0, 4, 1>>}}
  \cup {Field(2, 0, value) : value \in {<<7, 7, 7>>, <<4, 0, 7>>}}
  \cup {Field(1, NoType, <<value>>) : value \in {0, 9}}

DeviceMessages(most) ==
  [fields : UNION {[FirstName .. FirstName + n - 1 -> Forms] : n \in 1 .. most},
   increment : {<< >>, <<1>>}, checksum : {0, 4, 12}]

(* What the program sends itself.                                          *)
Triggers ==
  {[fields    |-> TriggerFields(10, 11, 12, 14, 9, enable, timeout, second),
    increment |-> << >>, checksum |-> 4] :
     enable \in BOOLEAN, timeout \in {0, 4, 300}, second \in {4 * 16 + 1, 65535}}

(* A number first, then bins of one-byte length, the last of a size of its *)
(* own: from Base + 6 bytes on the number may be taken for a bin, or text, *)
(* with two length bytes.                                                  *)
Bins == {[i \in 1 .. n |-> 13] : n \in 2 .. 6}
LongMessages ==
  {[fields    |-> (10 :> Field(1, type, number)) @@ (13 :> Field(1, 4, last))
                    @@ [name \in {11, 12} |-> Field(1, 4, value)],
    increment |-> << >>, checksum |-> 0] :
     type \in {1, 3}, number \in {<<4>>, <<7>>}, value \in Bins, last \in Bins}

WellMadeMessages == DeviceMessages(3) \cup Triggers \cup LongMessages

(* No condition of the round trip leaves out what the program sends.       *)
ASSUME TriggersAreUnambiguous == \A m \in Triggers : Unambiguous(m)

(* Any bytes: up to nine of them, from an alphabet that reaches each       *)
(* branch of parse_field, and up to seven from one with a length short     *)
(* enough for a name to come twice.                                        *)
AnyBytes == UNION {[1 .. n -> {0, 4, 10}] : n \in 0 .. 9}
              \cup UNION {[1 .. n -> {1, 4, 10}] : n \in 0 .. 7}

NoNoise == {}

(* The doc comment of parse_field (codec.rs:73-75): numbers always have a  *)
(* one-byte length, so the number a message starts with is decoded as it   *)
(* was sent, whatever follows it.                                          *)
NumbersKeepOneByteLength ==
  idx > 0 => LET number == Head(buf)
             IN  fields[number] = sent.fields[number].value
===============================================================================
