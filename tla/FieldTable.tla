------------------------------- MODULE FieldTable -------------------------------
(***************************************************************************)
(* The field table of src/mqtt/c1000gen2.rs: how decode_fields_to_raw      *)
(* picks the values of a status out of the fields of a 0421 message, what  *)
(* C1000Gen2Status::from makes of them, and what sections and push_section *)
(* show of those.  `fields` is a map from field names to their bytes.      *)
(*                                                                         *)
(* ui, sile and var4 tell apart what their bytes tell apart, so a number   *)
(* is represented by the bytes it is read from, and that of fd by its      *)
(* digits.  Names and serial numbers are taken to be valid UTF-8.          *)
(***************************************************************************)
EXTENDS Naturals, Sequences, FiniteSetsExt

None    == << >>
Some(v) == <<v>>

Carries(fields, f, size) == f \in DOMAIN fields /\ Len(fields[f]) >= size

(* ui, sile and var4: a number of `size` bytes at `offset` of field f.     *)
Number(fields, f, offset, size) ==
  IF Carries(fields, f, offset + size)
    THEN Some(SubSeq(fields[f], offset + 1, offset + size)) ELSE None

(* str_self_len: a length byte, then that many bytes.                      *)
StrSelfLen(bytes, offset) ==
  IF /\ offset < Len(bytes)
     /\ offset + 1 + bytes[offset + 1] <= Len(bytes)
    THEN Some(SubSeq(bytes, offset + 2, offset + 1 + bytes[offset + 1]))
    ELSE None

At(f, offset, size) == [field |-> f, offset |-> offset, size |-> size]

(* The values decode_fields_to_raw reads at a fixed place.                 *)
Table == [
  ac_input_limit_max        |-> At("a3",  4, 2),
  ac_output_timeout_seconds |-> At("a4",  0, 4),
  ac_input_limit            |-> At("a4",  4, 2),
  ac_frequency              |-> At("a4",  6, 1),
  ac_output_mode            |-> At("a4",  7, 1),
  dc_output_timeout_seconds |-> At("a4",  8, 4),
  dc_12v_output_mode        |-> At("a4", 12, 1),
  device_timeout_minutes    |-> At("a4", 13, 2),
  display_timeout_seconds   |-> At("a4", 15, 2),
  display_mode              |-> At("a4", 17, 1),
  temp_unit_fahrenheit      |-> At("a4", 19, 1),
  ac_fast_charge_switch     |-> At("a4", 20, 1),
  display_switch            |-> At("a4", 21, 1),
  port_memory_switch        |-> At("a4", 22, 1),
  temperature               |-> At("a5",  0, 1),
  battery_soc               |-> At("a5",  2, 1),
  battery_soh               |-> At("a5",  3, 1),
  output_power_total        |-> At("a6",  0, 2),
  ac_input_power_total      |-> At("a6",  2, 2),
  remaining_time_hours      |-> At("a6",  6, 2),
  main_battery_soc          |-> At("a6",  8, 1),
  ac_output_power_switch    |-> At("a7",  0, 1),
  ac_output_power           |-> At("a7",  1, 2),
  ac_input_power_switch     |-> At("a7",  3, 1),
  ac_input_power            |-> At("a7",  4, 2),
  dc_input_power_switch     |-> At("a8",  0, 1),
  dc_output_power_switch    |-> At("b2",  0, 1),
  dc_output_power_total     |-> At("b2",  1, 2),
  max_soc                   |-> At("d9",  3, 1),
  min_soc                   |-> At("d9",  4, 1),
  unknown_2                 |-> At("da", 12, 2),
  unknown_3                 |-> At("da", 14, 2),
  msg_timestamp             |-> At("fe",  0, 4)]

PortFields == [usbc_1 |-> "aa", usbc_2 |-> "ab", usbc_3 |-> "ac", usba_1 |-> "ae"]

PackKeys == {"exp_1_sn", "exp_1_temperature", "exp_1_soc", "exp_1_type"}

Keys == DOMAIN Table \cup DOMAIN PortFields \cup PackKeys
          \cup {"device_sn", "device_pn", "dc_input_power_total", "utc_timestamp"}

(* A port has a reading when its status and its power are both there.      *)
StatusIsEnough(fields, f) ==               \* variant: power defaults to none
  IF Carries(fields, f, 1) THEN Some(SubSeq(fields[f], 1, Min({3, Len(fields[f])})))
                           ELSE None
Port(fields, f) ==
  IF Number(fields, f, 0, 1) # None /\ Number(fields, f, 1, 2) # None
    THEN Some(SubSeq(fields[f], 1, 3)) ELSE None

(* a8 repeats the input power of a6; it counts where a6 did not give one.  *)
OnlyIfA6IsMissing(fields) ==               \* variant: as the comment has it
  IF "a6" \in DOMAIN fields THEN Number(fields, "a6", 4, 2)
                            ELSE Number(fields, "a8", 1, 2)
DcInput(fields) ==
  IF Number(fields, "a6", 4, 2) # None THEN Number(fields, "a6", 4, 2)
                                       ELSE Number(fields, "a8", 1, 2)

(* The chain of c0: every offset counts from the end of the serial number, *)
(* and without one nothing is read.                                        *)
ChainFrom(fields, pos) ==
  [exp_1_temperature |-> Number(fields, "c0", pos + 5, 1),
   exp_1_soc         |-> Number(fields, "c0", pos + 7, 1),
   exp_1_type        |-> StrSelfLen(fields["c0"], pos + 14)]

NoChain == [key \in PackKeys \ {"exp_1_sn"} |-> None]

SerialDefaults(fields, serial) ==          \* variant: unwrap_or_default()
  IF "c0" \notin DOMAIN fields THEN NoChain
  ELSE ChainFrom(fields, IF serial = None THEN 0 ELSE 1 + Len(serial[1]))
PackChain(fields, serial) ==
  IF serial = None THEN NoChain ELSE ChainFrom(fields, 1 + Len(serial[1]))

String(fields, f, offset) ==
  IF f \in DOMAIN fields THEN StrSelfLen(fields[f], offset) ELSE None

Blank == (9 .. 13) \cup {32}
Digit == 48 .. 57

Trim(text) ==
  LET ink == {i \in DOMAIN text : text[i] \notin Blank}
  IN  IF ink = {} THEN << >> ELSE SubSeq(text, Min(ink), Max(ink))

(* from_utf8, trim and parse: milliseconds as text, read at any length.    *)
(* parse also takes signs, points, exponents, inf and nan, which are no    *)
(* timestamps of a device; here they are no numbers.  A byte of 128 or     *)
(* more is in no number, whether it is UTF-8 or not.                       *)
Timestamp(text) ==
  LET digits == Trim(text)
  IN  IF digits # << >> /\ \A i \in DOMAIN digits : digits[i] \in Digit
        THEN Some(digits) ELSE None

(* What is read for a key; fe counts only if it has exactly its four bytes.*)
Read(fields, serial, chain, key) ==
  CASE key = "exp_1_sn"             -> serial
    [] key \in DOMAIN chain         -> chain[key]
    [] key \in DOMAIN PortFields    -> Port(fields, PortFields[key])
    [] key = "dc_input_power_total" -> DcInput(fields)
    [] key = "device_sn"            -> String(fields, "a2", 1)
    [] key = "device_pn"            -> String(fields, "a2", 20)
    [] key = "utc_timestamp" ->
         IF "fd" \in DOMAIN fields THEN Timestamp(fields["fd"]) ELSE None
    [] key = "msg_timestamp" /\ Carries(fields, "fe", 5) -> None
    [] OTHER -> Number(fields, Table[key].field, Table[key].offset, Table[key].size)

(* decode_fields_to_raw.                                                   *)
Decode(fields) ==
  LET serial == String(fields, "c0", 0)
      chain  == PackChain(fields, serial)
  IN  [key \in Keys |-> Read(fields, serial, chain, key)]

-------------------------------------------------------------------------------
(* The domain types.                                                       *)

Switches == {"ac_output_power_switch", "ac_input_power_switch",
             "dc_input_power_switch", "dc_output_power_switch",
             "display_switch", "ac_fast_charge_switch", "port_memory_switch"}

(* The code of a port outside 0 .. 2 is preserved.                         *)
PortStatus(code) ==
  CASE code = 0 -> <<"Idle">> [] code = 1 -> <<"Discharging">>
    [] code = 2 -> <<"Charging">> [] OTHER -> <<"Unknown", code>>

OnOff(byte)    == IF byte # 0 THEN "On" ELSE "Off"
TempUnit(byte) == IF byte # 0 THEN "Fahrenheit" ELSE "Celsius"

Typed(key, bytes) ==
  CASE key \in DOMAIN PortFields ->
         [status |-> PortStatus(bytes[1]), power |-> Tail(bytes)]
    [] key \in Switches -> OnOff(bytes[1])
    [] key = "temp_unit_fahrenheit" -> TempUnit(bytes[1])
    [] OTHER -> bytes

(* C1000Gen2Status::from.                                                  *)
FromRaw(raw) ==
  [key \in Keys |-> IF raw[key] = None THEN None ELSE Some(Typed(key, raw[key][1]))]

-------------------------------------------------------------------------------
(* The report.                                                             *)

Rows == [
  battery    |-> {"battery_soc", "main_battery_soc", "battery_soh",
                  "temperature", "remaining_time_hours"},
  power      |-> {"output_power_total", "ac_output_power", "ac_input_power_total",
                  "dc_input_power_total", "dc_output_power_total"},
  ports      |-> DOMAIN PortFields,
  soc_limits |-> {"max_soc", "min_soc"},
  switches   |-> Switches,
  settings   |-> {"ac_input_limit", "ac_input_limit_max", "ac_frequency",
                  "ac_output_mode", "ac_output_timeout_seconds",
                  "dc_12v_output_mode", "dc_output_timeout_seconds",
                  "device_timeout_minutes", "display_timeout_seconds",
                  "display_mode", "temp_unit_fahrenheit"},
  timestamps |-> {"utc_timestamp", "msg_timestamp"},
  expansion  |-> PackKeys,
  unverified |-> {"unknown_2", "unknown_3"}]

(* The sections of a status; only that of the pack is conditional.         *)
Sections(s) ==
  {title \in DOMAIN Rows :
     title = "expansion" => s.exp_1_sn # None \/ s.exp_1_soc # None}

(* push_section prints the rows that have a value.                         *)
Printed(s) == {key \in UNION {Rows[title] : title \in Sections(s)} : s[key] # None}
===============================================================================
