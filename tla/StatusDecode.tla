------------------------------ MODULE StatusDecode ------------------------------
(***************************************************************************)
(* From the payload of a publish to the shared status: decode_publish of   *)
(* src/mqtt/mod.rs, decode_0421 of c1000gen2.rs, the walk of codec.rs      *)
(* (Tlv, here with the numbers of the code) and the field table            *)
(* (FieldTable), in one step, as the event loop takes it.                  *)
(*                                                                         *)
(* The environment is a device with the layout of the message captured in  *)
(* tests/c1000gen2_codec.rs, whose firmware sends one field shorter, as    *)
(* another of the three product variants may, and a pack that comes and    *)
(* goes.  A byte is a mark of its place, except for those the decoder      *)
(* looks into: lengths, types, the first byte of a value, the checksum,    *)
(* and the timestamp of fd, which is in digits, perhaps behind a blank.    *)
(***************************************************************************)
EXTENDS FieldTable, Tlv

CONSTANTS
  PackSerials,  \* lengths the serial number of an expansion pack may have
  Omitted       \* fields a message may lack besides the one that is short

NoPack == 999                              \* in place of a serial's length
Packs  == PackSerials \cup {NoPack}

(* A message always starts with a1, the pattern: without a field of the    *)
(* names a0 to a9 in front, its first byte would pass for an increment.    *)
ASSUME DecodeAssumption ==
  /\ PackSerials # {} /\ PackSerials \subseteq 1 .. 100 /\ "a1" \notin Omitted
  /\ Base = 256 /\ TypeMax = 49 /\ Ascii = 128 /\ FirstName = 160 /\ LastFirst = 169

VARIABLES
  firmware, \* the field it sends short, its size, and the byte `first`
  pack,     \* the length of the attached pack's serial number, or NoPack
  sent,     \* the last status message: the pack then, what it lacks (history)
  status    \* the shared status: for each value None, or Some of it

vars == <<firmware, pack, sent, status>>

-------------------------------------------------------------------------------
(* The program.                                                            *)

Code == [a1 |-> 161, a2 |-> 162, a3 |-> 163, a4 |-> 164, a5 |-> 165,
         a6 |-> 166, a7 |-> 167, a8 |-> 168, aa |-> 170, ab |-> 171,
         ac |-> 172, ae |-> 174, b2 |-> 178, c0 |-> 192, d9 |-> 217,
         da |-> 218, dc |-> 220, f9 |-> 249, fa |-> 250, fd |-> 253, fe |-> 254]

ByName(walked) == [f \in {g \in DOMAIN Code : Code[g] \in DOMAIN walked} |->
                     walked[Code[f]]]

StatusTypes == {<<4, 33>>, <<9, 0>>}       \* MSG_TYPE_STATUS and its alternative

(* decode_0421.                                                            *)
Decode0421(bytes) ==
  IF Len(bytes) < 9 \/ SubSeq(bytes, 8, 9) \notin StatusTypes THEN None
  ELSE LET body == Body(SubSeq(bytes, 10, Len(bytes)))
       IN  Some(FromRaw(Decode(ByName(DecodeFields(body)))))

(* decode_publish: a payload is None if one of its wrappers does not parse.*)
DecodePublish(payload) == IF payload = None THEN None ELSE Decode0421(payload[1])

-------------------------------------------------------------------------------
(* The device.                                                             *)

TypeByte(f) == CASE f = "a1" -> NoType [] f = "a2" -> 6 [] f = "fd" -> 0
                 [] f = "fe" -> 3 [] OTHER -> 4

Marks(f, part, size) ==
  [i \in 1 .. size |-> IF f = "fd" THEN 48 + (i % 10)
                       ELSE 50 + ((37 * Code[f] + 23 * part + i) % 77)]
Self(bytes) == <<Len(bytes)>> \o bytes

Width == [a1 |-> 1, a3 |-> 10, a4 |-> 26, a5 |-> 5, a7 |-> 6, aa |-> 3,
          ab |-> 3, ac |-> 3, ae |-> 3, b2 |-> 3, d9 |-> 25, da |-> 23,
          dc |-> 5, f9 |-> 28, fa |-> 20, fd |-> 13, fe |-> 4]

(* a2: the serial number has 18 bytes to itself.                           *)
Identity == Marks("a2", 1, 1) \o Self(Marks("a2", 2, 17)) \o Marks("a2", 3, 1)
              \o Self(Marks("a2", 4, 5)) \o Marks("a2", 5, 6)

(* c0: serial, 5 bytes, temperature, 1 byte, SOC, 6 bytes, type.           *)
PackField(serial) ==
  Self(Marks("c0", 1, serial)) \o Marks("c0", 2, 5) \o Marks("c0", 3, 1)
    \o Marks("c0", 4, 1) \o Marks("c0", 5, 1) \o Marks("c0", 6, 6)
    \o Self(Marks("c0", 7, 2))

DcPower == Marks("a8", 9, 2)               \* both in a6 and in a8

Unlike == {"c0", "a1"}                     \* fields that begin otherwise

Padding(first) == IF first = 0 THEN 0 ELSE 1      \* blanks before the digits

(* How the value of another field begins.                                  *)
FirstByte(f, first) ==
  IF f \in Range(PortFields) THEN (first + Code[f]) % 5
  ELSE IF f = "fd" THEN IF Padding(first) = 0 THEN 49 ELSE 32
  ELSE first

(* The value of a field, when the message has it whole.                    *)
Whole(first, serial) ==
  [f \in DOMAIN Code \ (IF serial = NoPack THEN {"c0"} ELSE {}) |->
     LET value == CASE f = "a2" -> Identity
                    [] f = "a6" -> Marks(f, 1, 4) \o DcPower \o Marks(f, 2, 3)
                    [] f = "a8" -> Marks(f, 1, 1) \o DcPower
                    [] f = "c0" -> PackField(serial)
                    [] OTHER    -> Marks(f, 1, Width[f])
     IN  IF f \in Unlike THEN value ELSE <<FirstByte(f, first)>> \o Tail(value)]

(* What a firmware puts into a message; a field of size 0 is left out.     *)
Contents(fw, serial, missing) ==
  LET whole == Whole(fw.first, serial)
      Size(f) == IF f = fw.short THEN Min({fw.size, Len(whole[f])}) ELSE Len(whole[f])
  IN  [f \in {g \in DOMAIN whole \ missing : Size(g) > 0} |->
         SubSeq(whole[f], 1, Size(f))]

NameOf == AntiFunction(Code)

MessageOf(fw, contents) ==
  [fields    |-> [code \in {Code[f] : f \in DOMAIN contents} |->
                    Field(1, TypeByte(NameOf[code]), contents[NameOf[code]])],
   increment |-> IF fw.increment THEN <<fw.first>> ELSE << >>,
   checksum  |-> fw.first]

Bytes(fw, type, contents) ==
  LET rest == BytesOf(MessageOf(fw, contents))
      size == 9 + Len(rest)
  IN  <<255, 9, size % Base, size \div Base, 3, 1, 15>> \o type \o rest

(* The value the device means by a message that has it.                    *)
Truth(first, serial) ==
  LET whole == Whole(first, serial)
      Slice(f, offset, size) == SubSeq(whole[f], offset + 1, offset + size)
  IN  [key \in Keys \ (IF serial = NoPack THEN PackKeys ELSE {}) |->
         CASE key = "device_sn"            -> Marks("a2", 2, 17)
           [] key = "device_pn"            -> Marks("a2", 4, 5)
           [] key = "dc_input_power_total" -> DcPower
           [] key = "exp_1_sn"             -> Marks("c0", 1, serial)
           [] key = "exp_1_temperature"    -> Marks("c0", 3, 1)
           [] key = "exp_1_soc"            -> Marks("c0", 5, 1)
           [] key = "exp_1_type"           -> Marks("c0", 7, 2)
           [] key = "utc_timestamp"        ->
                Slice("fd", Padding(first), 13 - Padding(first))
           [] key \in Switches             ->
                IF Slice(Table[key].field, Table[key].offset, 1) = <<0>>
                  THEN "Off" ELSE "On"
           [] key = "temp_unit_fahrenheit" -> "Fahrenheit"
           [] key \in DOMAIN PortFields    ->
                LET code == whole[PortFields[key]][1]
                IN  [status |-> << <<"Idle">>, <<"Discharging">>, <<"Charging">>,
                                   <<"Unknown", 3>>, <<"Unknown", 4>> >>[code + 1],
                     power  |-> Slice(PortFields[key], 1, 2)]
           [] OTHER -> Slice(Table[key].field, Table[key].offset, Table[key].size)]

-------------------------------------------------------------------------------
Types     == {<<4, 33>>, <<9, 0>>, <<4, 5>>}
Shortened == Range(PortFields) \cup {Table[key].field : key \in DOMAIN Table}
               \cup {"a2", "c0", "fd"}

Firmwares ==
  UNION {[short : {f}, first : {0, 4}, increment : BOOLEAN,
          size : 0 .. Len(Whole(0, Max(PackSerials))[f])] : f \in Shortened}

Init == /\ firmware \in Firmwares /\ pack = NoPack
        /\ sent = [pack |-> NoPack, contents |-> << >>]
        /\ status = [key \in Keys |-> None]

(* A pack is attached, or taken off.                                       *)
ChangePack == /\ pack' \in Packs \ {pack}
              /\ UNCHANGED <<firmware, sent, status>>

(* A publish: a status message in one of its two types, or another, with   *)
(* its wrappers whole or not.                                              *)
Receive ==
  \E missing \in SUBSET Omitted, type \in Types, intact \in BOOLEAN :
    LET contents == Contents(firmware, pack, missing)
        decoded  == DecodePublish(IF intact THEN Some(Bytes(firmware, type, contents))
                                            ELSE None)
    IN  /\ status' = IF decoded = None THEN status ELSE decoded[1]
        /\ sent' = IF intact /\ type # <<4, 5>>
                     THEN [pack |-> pack, contents |-> contents] ELSE sent
        /\ UNCHANGED <<firmware, pack>>

Next == ChangePack \/ Receive

Spec == Init /\ [][Next]_vars

-------------------------------------------------------------------------------
(* The types of the variables; a port's reading has a power of two bytes,  *)
(* a number as many as its type.                                           *)
TypeOK ==
  /\ firmware \in Firmwares /\ {pack, sent.pack} \subseteq Packs
  /\ DOMAIN status = Keys
  /\ \A key \in Keys : Len(status[key]) <= 1
  /\ \A key \in DOMAIN Table \ (Switches \cup {"temp_unit_fahrenheit"}) :
       status[key] # None => Len(status[key][1]) = Table[key].size
  /\ \A key \in DOMAIN PortFields :
       status[key] # None => Len(status[key][1].power) = 2

(* A message that lacks fields, or carries one cut to any size, may leave  *)
(* values out, but every value in the status is the one the device meant:  *)
(* none comes from its neighbour's bytes, neither in the walk over the     *)
(* message nor along the chain of c0 (c1000gen2.rs:808-825).  The text of  *)
(* the timestamp is the exception: what is left of its digits still parses *)
(* (c1000gen2.rs:832-838), so it may be an earlier time than was meant.    *)
NeverMisread ==
  LET truth == Truth(firmware.first, sent.pack)
  IN  \A key \in Keys : status[key] # None =>
        /\ key \in DOMAIN truth
        /\ IF key = "utc_timestamp" THEN IsPrefix(status[key][1], truth[key])
                                    ELSE status[key][1] = truth[key]

(* A field that arrives whole gives all its values, and fd the whole time, *)
(* whatever is missing or short around it, with an increment byte in the   *)
(* header or without, in either type of message (codec.rs:33-37,           *)
(* c1000gen2.rs:701-703).                                                  *)
WholeFieldsArrive ==
  LET whole == Whole(firmware.first, sent.pack)
      Arrived(f) == f \in DOMAIN sent.contents /\ sent.contents[f] = whole[f]
  IN  /\ \A key \in DOMAIN Table : Arrived(Table[key].field) => status[key] # None
      /\ \A key \in DOMAIN PortFields : Arrived(PortFields[key]) => status[key] # None
      /\ Arrived("c0") => \A key \in PackKeys : status[key] # None
      /\ Arrived("a2") => status.device_sn # None /\ status.device_pn # None
      /\ Arrived("fd") =>
           status.utc_timestamp = Some(Truth(firmware.first, sent.pack).utc_timestamp)

(* The DC input power is in two fields, and one of them is enough          *)
(* (c1000gen2.rs:765-771), the other short or missing.                     *)
DcInputFromEither ==
  Carries(sent.contents, "a6", 6) \/ Carries(sent.contents, "a8", 3)
    => status.dc_input_power_total # None

(* The full report shows every value there is, but for those that have no  *)
(* row at all: no condition on a section hides one.                        *)
Unreported == {"device_sn", "device_pn", "ac_input_power"}
ReportComplete ==
  \A key \in Keys \ Unreported : status[key] # None => key \in Printed(status)

(* The doc comment of sections (c1000gen2.rs:452-457): the section of the  *)
(* pack says whether one is attached, and is no per-cycle data gap.        *)
PackSectionIsStructural ==
  sent.pack # NoPack => "expansion" \in Sections(status)
===============================================================================
