------------------------------ MODULE CodecProofs ------------------------------
(***************************************************************************)
(* Proofs about Codec, for any base, any limits of types and text, and any *)
(* bytes and messages: what TlvProofs shows of single fields and whole     *)
(* messages holds along the walk.                                          *)
(***************************************************************************)
EXTENDS Codec, TlvProofs

(* The bytes from the walk's offset on.                                    *)
LEMMA RestType ==
  ASSUME TypeOK
  PROVE  Rest \in Seq(Byte) /\ Len(Rest) = Len(buf) - idx
<1>1. buf \in Seq(Byte) /\ idx \in 0 .. Len(buf)
  BY DEF TypeOK
<1> QED BY <1>1, RestProperties DEF Rest

(* A body is typed from the start.                                         *)
LEMMA InitTypeOK == Init => TypeOK
<1> SUFFICES ASSUME Init PROVE TypeOK
  OBVIOUS
<1>1. buf \in Seq(Byte)
  <2>1. CASE \E m \in Messages : buf = Body(BytesOf(m))
    BY <2>1, BodyType, CodecAssumption
  <2>2. CASE \E bytes \in Noise : buf = Body(bytes)
    BY <2>2, BodyType, CodecAssumption
  <2> QED BY <2>1, <2>2 DEF Init
<1>2. idx = 0 /\ done = FALSE /\ DOMAIN fields = {}
  BY DEF Init
<1>3. idx \in 0 .. Len(buf)
  BY <1>1, <1>2
<1> QED BY <1>1, <1>2, <1>3 DEF TypeOK

(* One field keeps the types: the walk stays within the buffer.            *)
LEMMA TakeFieldTypeOK == TypeOK /\ TakeField => TypeOK'
<1> SUFFICES ASSUME TypeOK, TakeField PROVE TypeOK'
  OBVIOUS
<1>1. buf \in Seq(Byte) /\ Len(buf) \in Nat /\ idx \in Nat /\ idx <= Len(buf)
  BY DEF TypeOK
<1>2. Rest \in Seq(Byte) /\ Len(Rest) = Len(buf) - idx
  BY RestType
<1>3. MoreFields(Rest) /\ WellFormed(Rest)
  BY DEF TakeField
<1>4. Consumed(Rest) \in 3 .. Len(Rest)
  BY <1>2, <1>3, AcceptedFits
<1>5. buf' = buf /\ done' = done /\ idx' = idx + Consumed(Rest)
  BY DEF TakeField
<1>6. idx' \in 0 .. Len(buf')
  BY <1>1, <1>2, <1>4, <1>5
<1>7. \A name \in DOMAIN fields' : fields'[name] \in Seq(Byte)
  <2> DEFINE first == ByteAt(Rest, 0)  new == Value(Rest)
  <2>1. fields' = [name \in DOMAIN fields \cup {first} |->
                     IF name = first THEN new ELSE fields[name]]
    BY DEF TakeField
  <2>2. \A name \in DOMAIN fields : fields[name] \in Seq(Byte)
    BY DEF TypeOK
  <2>3. new \in Seq(Byte)
    BY <1>2, <1>3, ValueType
  <2> HIDE DEF first, new
  <2> QED BY <2>1, <2>2, <2>3
<1> QED BY <1>5, <1>6, <1>7 DEF TypeOK

(* The end of the walk, and stuttering, keep the types.                    *)
LEMMA StopTypeOK == TypeOK /\ (Stop \/ UNCHANGED vars) => TypeOK'
<1> SUFFICES ASSUME TypeOK, Stop \/ UNCHANGED vars PROVE TypeOK'
  OBVIOUS
<1>1. buf' = buf /\ idx' = idx /\ fields' = fields
  BY DEF Stop, vars
<1>2. done' \in BOOLEAN
  BY DEF Stop, vars, TypeOK
<1> QED BY <1>1, <1>2 DEF TypeOK

(* The walk keeps its types: the offset never leaves the buffer, and what  *)
(* the map holds are bytes of it (decode_fields, codec.rs:53-68).          *)
THEOREM WalkTypeCorrect == Spec => []TypeOK
<1>1. TypeOK /\ [Next]_vars => TypeOK'
  BY TakeFieldTypeOK, StopTypeOK DEF Next
<1> QED BY <1>1, InitTypeOK, PTL DEF Spec

(* No slice of parse_field is out of bounds, for any bytes, any base, and  *)
(* any limits of types and text (codec.rs:81-145).                         *)
THEOREM NeverOutOfBounds == Spec => []FieldInBounds
<1>1. TypeOK => FieldInBounds
  BY RestType, AcceptedFits, LookAheadFits DEF FieldInBounds
<1> QED BY <1>1, WalkTypeCorrect, PTL

-------------------------------------------------------------------------------
(* A high byte that is not 0 makes a length of at least Base.              *)
LEMMA HighByteWeighs ==
  ASSUME NEW base \in Nat, NEW high \in Nat, high # 0
  PROVE  base * high >= base
<1>1. PICK k \in Nat : high = k + 1
  <2>1. high - 1 \in Nat /\ high = (high - 1) + 1
    OBVIOUS
  <2> QED BY <2>1
<1>2. base * high = base * k + base
  BY <1>1
<1>3. base * k \in Nat
  BY <1>1
<1> QED BY <1>2, <1>3

(* In messages of up to 261 bytes the look ahead never takes a number or a *)
(* bin of one-byte length for one of two (codec.rs:73-76 and 91-127), in   *)
(* any base and whatever bytes follow.                                     *)
THEOREM ShortBodiesUnambiguous == Spec => []ShortBodiesKeepLengths
<1>1. TypeOK => ShortBodiesKeepLengths
  <2> SUFFICES ASSUME TypeOK, MoreFields(Rest), Len(buf) <= Base + 5,
                      ByteAt(Rest, 1) >= 2, ByteAt(Rest, 2) # 0
               PROVE  FieldLen(Rest) = ByteAt(Rest, 1)
    BY DEF ShortBodiesKeepLengths
  <2>1. /\ Base \in Nat /\ Len(buf) \in Nat /\ idx \in Nat
        /\ Rest \in Seq(Byte) /\ Len(Rest) = Len(buf) - idx
    BY RestType, TlvAssumption DEF TypeOK
  <2>2. ByteAt(Rest, 1) \in Nat /\ ByteAt(Rest, 2) \in Nat /\ TentativeLen(Rest) \in Nat
    BY <2>1, TentativeLenType DEF Byte
  <2>3. TentativeLen(Rest) >= Base + 2
    <3>1. Base * ByteAt(Rest, 2) >= Base /\ Base * ByteAt(Rest, 2) \in Nat
      BY <2>1, <2>2, HighByteWeighs
    <3> QED BY <2>1, <2>2, <3>1 DEF TentativeLen
  <2>4. ~(TentativeLen(Rest) <= Len(Rest) - 4)
    BY <2>1, <2>2, <2>3
  <2> QED BY <2>4 DEF FieldLen, TwoByteLen
<1> QED BY <1>1, WalkTypeCorrect, PTL

-------------------------------------------------------------------------------
(* The fields taken and those still to come make up all of them: a later   *)
(* field of the same name takes the place of an earlier one.               *)
Merge(early, later) == [name \in DOMAIN early \cup DOMAIN later |->
                          IF name \in DOMAIN later THEN later[name] ELSE early[name]]

(* The inductive invariant behind WalkIsDecodeFields; once the walk is     *)
(* over nothing is to come.                                                *)
WalkInv == /\ TypeOK
           /\ DecodeFields(buf) = Merge(fields, Walk(buf)[idx])
           /\ fields = [name \in DOMAIN fields |-> fields[name]]
           /\ done => Walk(buf)[idx] = << >>

(* Inserting a field before those to come is taking it after the others.   *)
LEMMA TakeIsInsert ==
  ASSUME NEW early, NEW name, NEW value, NEW later
  PROVE  Merge(early, Insert(name, value, later))
           = Merge([n \in DOMAIN early \cup {name} |->
                      IF n = name THEN value ELSE early[n]], later)
<1> DEFINE ins  == Insert(name, value, later)
           take == [n \in DOMAIN early \cup {name} |->
                      IF n = name THEN value ELSE early[n]]
           all  == DOMAIN early \cup {name} \cup DOMAIN later
<1>1. /\ DOMAIN ins = DOMAIN later \cup {name}
      /\ DOMAIN take = DOMAIN early \cup {name}
      /\ \A n \in DOMAIN ins : ins[n] = IF n \in DOMAIN later THEN later[n] ELSE value
      /\ \A n \in DOMAIN take : take[n] = IF n = name THEN value ELSE early[n]
  BY DEF Insert
<1> HIDE DEF ins, take
<1>2. DOMAIN early \cup DOMAIN ins = all /\ DOMAIN take \cup DOMAIN later = all
  BY <1>1
<1>3. ASSUME NEW n \in all
      PROVE  (IF n \in DOMAIN ins THEN ins[n] ELSE early[n])
               = (IF n \in DOMAIN later THEN later[n] ELSE take[n])
  BY <1>1, <1>3
<1> HIDE DEF all
<1>4. Merge(early, ins)
        = [n \in all |-> IF n \in DOMAIN ins THEN ins[n] ELSE early[n]]
  BY <1>2 DEF Merge
<1>5. Merge(take, later)
        = [n \in all |-> IF n \in DOMAIN later THEN later[n] ELSE take[n]]
  BY <1>2 DEF Merge
<1>6. Merge(early, ins) = Merge(take, later)
  BY <1>3, <1>4, <1>5
<1> QED BY <1>6 DEF ins, take

(* Nothing before, or nothing to come, leaves the others as they are.      *)
LEMMA MergeNothing ==
  /\ \A later : later = [n \in DOMAIN later |-> later[n]] => Merge(<< >>, later) = later
  /\ \A early : early = [n \in DOMAIN early |-> early[n]] => Merge(early, << >>) = early
  BY DEF Merge

(* What is still to come is a map.                                         *)
LEMMA WalkIsMap ==
  ASSUME NEW body \in Seq(Byte), NEW i \in 0 .. Len(body)
  PROVE  Walk(body)[i] = [n \in DOMAIN Walk(body)[i] |-> Walk(body)[i][n]]
<1>1. CASE Accepts(body, i)
  <2> DEFINE b == RestFrom(body, i)
  <2>1. Walk(body)[i] = Insert(ByteAt(b, 0), Value(b), Walk(body)[i + Consumed(b)])
    BY <1>1, WalkUnfolds
  <2> HIDE DEF b
  <2> QED BY <2>1 DEF Insert
<1>2. CASE ~Accepts(body, i)
  <2>1. Walk(body)[i] = << >>
    BY <1>2, WalkUnfolds
  <2> QED BY <2>1
<1> QED BY <1>1, <1>2

(* decode_fields returns DecodeFields of its argument, for any bytes: the  *)
(* last value of a name stays (codec.rs:53-68).                            *)
THEOREM WalkDecodes == Spec => []WalkIsDecodeFields
<1>1. Init => WalkInv
  <2> SUFFICES ASSUME Init PROVE WalkInv
    OBVIOUS
  <2>1. TypeOK /\ buf \in Seq(Byte) /\ idx = 0 /\ fields = << >> /\ ~done
    BY InitTypeOK DEF Init, TypeOK
  <2>2. 0 \in 0 .. Len(buf)
    BY <2>1
  <2>3. DecodeFields(buf) = Walk(buf)[0]
    BY <2>1, WalkUnfolds
  <2>4. Walk(buf)[0] = [n \in DOMAIN Walk(buf)[0] |-> Walk(buf)[0][n]]
    BY <2>1, <2>2, WalkIsMap
  <2>5. Merge(<< >>, Walk(buf)[0]) = Walk(buf)[0]
    BY <2>4, MergeNothing
  <2> QED BY <2>1, <2>3, <2>5 DEF WalkInv
<1>2. WalkInv /\ [Next]_vars => WalkInv'
  <2> SUFFICES ASSUME WalkInv, [Next]_vars PROVE WalkInv'
    OBVIOUS
  <2>1. buf \in Seq(Byte) /\ idx \in 0 .. Len(buf)
    BY DEF WalkInv, TypeOK
  <2>2. CASE TakeField
    <3>1. TypeOK' /\ buf' = buf /\ ~done'
      BY <2>2, TakeFieldTypeOK DEF WalkInv, TakeField
    <3>2. idx' = idx + Consumed(Rest)
          /\ fields' = [name \in DOMAIN fields \cup {ByteAt(Rest, 0)} |->
                          IF name = ByteAt(Rest, 0) THEN Value(Rest) ELSE fields[name]]
      BY <2>2 DEF TakeField
    <3>3. Walk(buf)[idx] = Insert(ByteAt(Rest, 0), Value(Rest), Walk(buf)[idx'])
      <4>1. Accepts(buf, idx)
        BY <2>2 DEF TakeField, Accepts, Rest
      <4> QED BY <2>1, <3>2, <4>1, WalkUnfolds DEF Rest
    <3>4. Merge(fields, Walk(buf)[idx]) = Merge(fields', Walk(buf)[idx'])
      BY <3>2, <3>3, TakeIsInsert
    <3>5. fields' = [name \in DOMAIN fields' |-> fields'[name]]
      BY <3>2
    <3> QED BY <3>1, <3>4, <3>5 DEF WalkInv
  <2>3. CASE Stop
    <3>1. TypeOK' /\ buf' = buf /\ idx' = idx /\ fields' = fields
      BY <2>3, StopTypeOK DEF WalkInv, Stop
    <3>2. Walk(buf)[idx] = << >>
      <4>1. ~Accepts(buf, idx)
        BY <2>3 DEF Stop, EndsWalk, Accepts, Rest
      <4> QED BY <2>1, <4>1, WalkUnfolds
    <3> QED BY <3>1, <3>2 DEF WalkInv
  <2>4. CASE UNCHANGED vars
    BY <2>4, StopTypeOK DEF WalkInv, vars
  <2> QED BY <2>2, <2>3, <2>4 DEF Next
<1>3. WalkInv => WalkIsDecodeFields
  BY MergeNothing DEF WalkInv, WalkIsDecodeFields
<1> QED BY <1>1, <1>2, <1>3, PTL DEF Spec

(* The buffer is the body of the message that was sent.                    *)
SentInv == sent # NoMessage => buf = Body(BytesOf(sent))

(* The decoder inverts the encoding of every message that its guesses are  *)
(* right about, whatever its fields, its increment byte and its checksum   *)
(* (codec.rs:20-145).                                                      *)
THEOREM DecodesWhatWasSent == Spec => []RoundTrip
<1>1. Init => SentInv
  BY DEF Init, SentInv
<1>2. SentInv /\ [Next]_vars => SentInv'
  BY DEF SentInv, Next, TakeField, Stop, vars
<1>3. SentInv /\ WalkIsDecodeFields => RoundTrip
  BY DecodeInverts DEF SentInv, WalkIsDecodeFields, RoundTrip
<1>4. Spec => []SentInv
  BY <1>1, <1>2, PTL DEF Spec
<1> QED BY <1>3, <1>4, WalkDecodes, PTL
===============================================================================
