--------------------------- MODULE StatusDecodeProofs ---------------------------
(***************************************************************************)
(* Proofs about StatusDecode, for any payloads, packs and firmwares.       *)
(***************************************************************************)
EXTENDS StatusDecode, TlvProofs

(* Every key but the three unreported ones and those of the pack has a row *)
(* in a section that is always there.                                      *)
LEMMA KeysOfReport == Keys \ (Unreported \cup PackKeys) \subseteq
                        UNION {Rows[title] : title \in DOMAIN Rows \ {"expansion"}}
  BY DEF Keys, Unreported, PackKeys, Rows, Table, PortFields, Switches

(* Without a serial number nothing is read of the pack: the chain of c0    *)
(* hangs on it.                                                            *)
LEMMA NoSerialNoPack ==
  ASSUME NEW fields, Decode(fields)["exp_1_sn"] = None, NEW key \in PackKeys
  PROVE  Decode(fields)[key] = None
  <1> DEFINE serial == String(fields, "c0", 0)
             chain  == PackChain(fields, serial)
  <1>1. PackKeys \subseteq Keys /\ "exp_1_sn" \in PackKeys
    BY DEF Keys, PackKeys
  <1>2. \A k \in PackKeys : Decode(fields)[k] = Read(fields, serial, chain, k)
    BY <1>1 DEF Decode
  <1>3. DOMAIN chain = PackKeys \ {"exp_1_sn"}
    BY DEF PackChain, NoChain, ChainFrom, PackKeys
  <1>4. ASSUME NEW k \in PackKeys
        PROVE  /\ k \notin DOMAIN PortFields /\ k # "dc_input_power_total"
               /\ k # "device_sn" /\ k # "device_pn" /\ k # "utc_timestamp"
               /\ k # "msg_timestamp"
    BY DEF PackKeys, PortFields
  <1>5. Read(fields, serial, chain, "exp_1_sn") = serial
    <2>1. "exp_1_sn" \notin DOMAIN chain
      BY <1>3
    <2> QED
      BY <1>1, <1>4, <2>1, Zenon DEF Read
  <1>6. serial = None
    BY <1>1, <1>2, <1>5
  <1>7. CASE key = "exp_1_sn"
    BY <1>1, <1>2, <1>5, <1>6, <1>7
  <1>8. CASE key # "exp_1_sn"
    <2>1. key \in DOMAIN chain
      BY <1>3, <1>8
    <2>2. Read(fields, serial, chain, key) = chain[key]
      BY <1>4, <1>8, <2>1, Zenon DEF Read
    <2>3. chain[key] = None
      BY <1>6, <1>3, <2>1 DEF PackChain, NoChain
    <2> QED
      BY <1>2, <2>2, <2>3
  <1> QED
    BY <1>7, <1>8

-------------------------------------------------------------------------------
(* A value of the pack in the status comes with the pack's serial number,  *)
(* so the condition on the pack's section hides nothing.                   *)
PackInv == \A key \in PackKeys : status[key] # None => status["exp_1_sn"] # None

LEMMA DecodedKeepsPackInv ==
  ASSUME NEW fields, status' = FromRaw(Decode(fields))
  PROVE  PackInv'
  <1>1. PackKeys \subseteq Keys /\ "exp_1_sn" \in Keys
    BY DEF Keys, PackKeys
  <1>2. \A key \in PackKeys : status'[key] = None <=> Decode(fields)[key] = None
    BY <1>1 DEF FromRaw, Some, None
  <1>3. status'["exp_1_sn"] = None <=> Decode(fields)["exp_1_sn"] = None
    BY <1>1 DEF FromRaw, Some, None
  <1> QED
    BY <1>2, <1>3, NoSerialNoPack DEF PackInv

LEMMA StepKeepsPackInv == PackInv /\ [Next]_vars => PackInv'
  <1> SUFFICES ASSUME PackInv, [Next]_vars PROVE PackInv'
    OBVIOUS
  <1>1. CASE UNCHANGED status
    BY <1>1 DEF PackInv
  <1>2. CASE Receive /\ ~UNCHANGED status
    <2>1. PICK payload : DecodePublish(payload) # None
                           /\ status' = DecodePublish(payload)[1]
      BY <1>2 DEF Receive
    <2>2. PICK fields : DecodePublish(payload) = Some(FromRaw(Decode(fields)))
      BY <2>1 DEF DecodePublish, Decode0421
    <2>3. status' = FromRaw(Decode(fields))
      BY <2>1, <2>2 DEF Some
    <2> QED
      BY <2>3, DecodedKeepsPackInv
  <1> QED
    BY <1>1, <1>2 DEF Next, ChangePack, vars

(* The report shows every value a status may have, but for those without a *)
(* row, after any sequence of messages: a section that is left out has     *)
(* nothing to show (c1000gen2.rs:458-475).                                 *)
THEOREM ReportIsComplete == Spec => []ReportComplete
  <1>1. Init => PackInv
    BY DEF Init, PackInv, Keys
  <1>2. PackInv => ReportComplete
    <2> SUFFICES ASSUME PackInv, NEW key \in Keys \ Unreported, status[key] # None
                 PROVE  key \in Printed(status)
      BY DEF ReportComplete
    <2>1. CASE key \in PackKeys
      <3>1. "expansion" \in Sections(status)
        BY <2>1 DEF PackInv, Sections, Rows
      <3>2. key \in Rows["expansion"]
        BY <2>1 DEF Rows
      <3> QED
        BY <3>1, <3>2 DEF Printed
    <2>2. CASE key \notin PackKeys
      <3>1. PICK title \in DOMAIN Rows \ {"expansion"} : key \in Rows[title]
        BY <2>2, KeysOfReport
      <3>2. title \in Sections(status)
        BY <3>1 DEF Sections
      <3> QED
        BY <3>1, <3>2 DEF Printed
    <2> QED
      BY <2>1, <2>2
  <1> QED
    BY <1>1, <1>2, StepKeepsPackInv, PTL DEF Spec

-------------------------------------------------------------------------------
(* A part of a sequence of bytes, at an offset.                            *)

Holds(bytes, offset, part) ==
  /\ offset + Len(part) <= Len(bytes)
  /\ \A i \in 1 .. Len(part) : bytes[offset + i] = part[i]

LEMMA HoldsItself ==
  ASSUME NEW p \in Seq(Byte)
  PROVE  Holds(p, 0, p)
  BY DEF Holds

LEMMA HoldsBefore ==
  ASSUME NEW s \in Seq(Byte), NEW t \in Seq(Byte), NEW offset \in Nat,
         NEW p \in Seq(Byte), Holds(s, offset, p)
  PROVE  Holds(s \o t, offset, p)
<1>1. /\ Len(s \o t) = Len(s) + Len(t)
      /\ \A i \in 1 .. Len(s) + Len(t) :
           (s \o t)[i] = IF i <= Len(s) THEN s[i] ELSE t[i - Len(s)]
  BY ConcatProperties
<1>2. Len(s) \in Nat /\ Len(t) \in Nat /\ Len(p) \in Nat
  OBVIOUS
<1>3. offset + Len(p) <= Len(s) /\ \A i \in 1 .. Len(p) : s[offset + i] = p[i]
  BY DEF Holds
<1> DEFINE st == s \o t
<1>4. offset + Len(p) <= Len(st)
  BY <1>1, <1>2, <1>3
<1>5. ASSUME NEW i \in 1 .. Len(p) PROVE st[offset + i] = p[i]
  <2>1. offset + i \in 1 .. Len(s) + Len(t) /\ offset + i <= Len(s)
    BY <1>2, <1>3
  <2> QED BY <1>1, <1>3, <2>1
<1> QED BY <1>4, <1>5 DEF Holds

LEMMA HoldsAfter ==
  ASSUME NEW s \in Seq(Byte), NEW t \in Seq(Byte)
  PROVE  Holds(s \o t, Len(s), t)
<1>1. /\ Len(s \o t) = Len(s) + Len(t)
      /\ \A i \in 1 .. Len(s) + Len(t) :
           (s \o t)[i] = IF i <= Len(s) THEN s[i] ELSE t[i - Len(s)]
  BY ConcatProperties
<1>2. Len(s) \in Nat /\ Len(t) \in Nat
  OBVIOUS
<1> DEFINE st == s \o t
<1>3. ASSUME NEW i \in 1 .. Len(t) PROVE st[Len(s) + i] = t[i]
  <2>1. Len(s) + i \in 1 .. Len(s) + Len(t) /\ ~(Len(s) + i <= Len(s))
        /\ (Len(s) + i) - Len(s) = i
    BY <1>2
  <2> QED BY <1>1, <2>1
<1> QED BY <1>1, <1>2, <1>3 DEF Holds

(* The length byte of a string, and the string.                            *)
LEMMA SelfBytes ==
  ASSUME NEW p \in Seq(Byte), Len(p) \in Byte
  PROVE  /\ Self(p) \in Seq(Byte) /\ Len(Self(p)) = 1 + Len(p)
         /\ Self(p)[1] = Len(p) /\ Holds(Self(p), 1, p)
<1> DEFINE h == <<Len(p)>>
<1>1. h \in Seq(Byte) /\ Len(h) = 1 /\ h[1] = Len(p) /\ Self(p) = h \o p
  BY DEF Self
<1> HIDE DEF h
<1>2. /\ h \o p \in Seq(Byte) /\ Len(h \o p) = Len(h) + Len(p)
      /\ \A i \in 1 .. Len(h) + Len(p) :
           (h \o p)[i] = IF i <= Len(h) THEN h[i] ELSE p[i - Len(h)]
  BY <1>1, ConcatProperties
<1>3. Len(p) \in Nat
  OBVIOUS
<1>4. (h \o p)[1] = Len(p)
  <2>1. 1 \in 1 .. Len(h) + Len(p) /\ 1 <= Len(h)
    BY <1>1, <1>3
  <2> QED BY <1>1, <1>2, <2>1
<1>5. Holds(h \o p, 1, p)
  BY <1>1, HoldsAfter
<1> QED BY <1>1, <1>2, <1>4, <1>5

LEMMA HoldsWithin ==
  ASSUME NEW s \in Seq(Byte), NEW offset \in Nat, NEW p \in Seq(Byte),
         Holds(s, offset, p), NEW inner \in Nat, NEW q \in Seq(Byte), Holds(p, inner, q)
  PROVE  Holds(s, offset + inner, q)
<1>1. Len(s) \in Nat /\ Len(p) \in Nat /\ Len(q) \in Nat
  OBVIOUS
<1>2. offset + Len(p) <= Len(s) /\ \A i \in 1 .. Len(p) : s[offset + i] = p[i]
  BY DEF Holds
<1>3. inner + Len(q) <= Len(p) /\ \A i \in 1 .. Len(q) : p[inner + i] = q[i]
  BY DEF Holds
<1>4. ASSUME NEW i \in 1 .. Len(q) PROVE s[(offset + inner) + i] = q[i]
  <2>1. inner + i \in 1 .. Len(p) /\ offset + (inner + i) = (offset + inner) + i
    BY <1>1, <1>3
  <2> QED BY <1>2, <1>3, <2>1
<1> QED BY <1>1, <1>2, <1>3, <1>4 DEF Holds

(* The parts of a value stay where they are when its first byte changes.   *)
LEMMA FirstReplaced ==
  ASSUME NEW v \in Seq(Byte), v # << >>, NEW byte \in Byte
  PROVE  /\ <<byte>> \o Tail(v) \in Seq(Byte) /\ Len(<<byte>> \o Tail(v)) = Len(v)
         /\ (<<byte>> \o Tail(v))[1] = byte
         /\ \A offset \in Nat \ {0}, p \in Seq(Byte) :
              Holds(v, offset, p) => Holds(<<byte>> \o Tail(v), offset, p)
<1> DEFINE h == <<byte>>  t == Tail(v)  w == h \o t
<1>1. h \in Seq(Byte) /\ Len(h) = 1 /\ h[1] = byte
  OBVIOUS
<1>2. /\ t \in Seq(Byte) /\ Len(t) = Len(v) - 1
      /\ \A i \in 1 .. Len(t) : t[i] = v[i + 1]
  BY HeadTailProperties
<1>3. Len(v) \in Nat /\ Len(v) >= 1
  BY EmptySeq
<1> HIDE DEF h, t
<1>4. /\ w \in Seq(Byte) /\ Len(w) = Len(h) + Len(t)
      /\ \A i \in 1 .. Len(h) + Len(t) : w[i] = IF i <= Len(h) THEN h[i] ELSE t[i - Len(h)]
  <2>1. \A x, y \in Seq(Byte) :
          /\ x \o y \in Seq(Byte) /\ Len(x \o y) = Len(x) + Len(y)
          /\ \A i \in 1 .. Len(x) + Len(y) :
               (x \o y)[i] = IF i <= Len(x) THEN x[i] ELSE y[i - Len(x)]
    BY ConcatProperties
  <2> QED BY <1>1, <1>2, <2>1
<1> HIDE DEF w
<1>5. Len(w) = Len(v) /\ w[1] = byte
  <2>1. 1 \in 1 .. Len(h) + Len(t) /\ 1 <= Len(h)
    BY <1>1, <1>2, <1>3
  <2> QED BY <1>1, <1>2, <1>3, <1>4, <2>1
<1>6. ASSUME NEW i \in 2 .. Len(v) PROVE w[i] = v[i]
  <2>1. i \in 1 .. Len(h) + Len(t) /\ ~(i <= Len(h)) /\ i - Len(h) = i - 1
        /\ i - 1 \in 1 .. Len(t) /\ (i - 1) + 1 = i
    BY <1>1, <1>2, <1>3
  <2> QED BY <1>2, <1>4, <2>1
<1>7. ASSUME NEW offset \in Nat \ {0}, NEW p \in Seq(Byte), Holds(v, offset, p)
      PROVE  Holds(w, offset, p)
  <2>1. offset + Len(p) <= Len(v) /\ \A i \in 1 .. Len(p) : v[offset + i] = p[i]
    BY <1>7 DEF Holds
  <2>2. ASSUME NEW i \in 1 .. Len(p) PROVE w[offset + i] = p[i]
    <3>1. offset + i \in 2 .. Len(v)
      BY <1>3, <2>1
    <3> QED BY <1>6, <2>1, <3>1
  <2> QED BY <1>5, <2>1, <2>2 DEF Holds
<1> QED BY <1>4, <1>5, <1>7 DEF w, h, t

(* A slice of the right bytes is the part.                                 *)
LEMMA SliceIsPart ==
  ASSUME NEW s \in Seq(Byte), NEW offset \in Nat, NEW p \in Seq(Byte),
         Holds(s, offset, p)
  PROVE  SubSeq(s, offset + 1, offset + Len(p)) = p
  BY CutIsValue DEF Holds, Cut

(* What is left of a field that is cut short.                              *)
IsCutOf(cut, whole) ==
  /\ cut \in Seq(Byte) /\ Len(cut) >= 1 /\ Len(cut) <= Len(whole)
  /\ \A i \in 1 .. Len(cut) : cut[i] = whole[i]

LEMMA CutHolds ==
  ASSUME NEW whole \in Seq(Byte), NEW cut, IsCutOf(cut, whole),
         NEW offset \in Nat, NEW p \in Seq(Byte), Holds(whole, offset, p),
         offset + Len(p) <= Len(cut)
  PROVE  Holds(cut, offset, p)
<1>1. cut \in Seq(Byte) /\ \A i \in 1 .. Len(cut) : cut[i] = whole[i]
  BY DEF IsCutOf
<1>2. ASSUME NEW i \in 1 .. Len(p) PROVE cut[offset + i] = p[i]
  <2>1. offset + i \in 1 .. Len(cut)
    BY <1>1
  <2> QED BY <1>1, <2>1 DEF Holds
<1> QED BY <1>2 DEF Holds

(* A string is read whole or not at all.                                   *)
LEMMA StringOfCut ==
  ASSUME NEW whole \in Seq(Byte), NEW cut, IsCutOf(cut, whole),
         NEW offset \in Nat, NEW p \in Seq(Byte), Len(p) \in Byte,
         Holds(whole, offset, Self(p))
  PROVE  /\ StrSelfLen(cut, offset) \in {None, Some(p)}
         /\ offset + 1 + Len(p) <= Len(cut) => StrSelfLen(cut, offset) = Some(p)
<1>1. cut \in Seq(Byte) /\ \A i \in 1 .. Len(cut) : cut[i] = whole[i]
  BY DEF IsCutOf
<1>2. /\ Self(p) \in Seq(Byte) /\ Len(Self(p)) = 1 + Len(p)
      /\ Self(p)[1] = Len(p) /\ Holds(Self(p), 1, p)
  BY SelfBytes
<1>3. whole[offset + 1] = Len(p)
  <2>1. 1 \in 1 .. Len(Self(p))
    BY <1>2
  <2> QED BY <1>2, <2>1 DEF Holds
<1>4. Len(cut) \in Nat /\ Len(p) \in Nat
  BY <1>1
<1>5. offset < Len(cut) => cut[offset + 1] = Len(p)
  BY <1>1, <1>3, <1>4
<1>6. ASSUME offset + 1 + Len(p) <= Len(cut)
      PROVE  StrSelfLen(cut, offset) = Some(p)
  <2>1. offset < Len(cut) /\ cut[offset + 1] = Len(p)
    BY <1>4, <1>5, <1>6
  <2>2. Holds(whole, offset + 1, p)
    BY <1>2, HoldsWithin
  <2>3. (offset + 1) + Len(p) <= Len(cut) /\ offset + 1 \in Nat
    BY <1>4, <1>6
  <2>4. Holds(cut, offset + 1, p)
    BY <2>2, <2>3, CutHolds
  <2>5. SubSeq(cut, (offset + 1) + 1, (offset + 1) + Len(p)) = p
    BY <1>1, <2>3, <2>4, SliceIsPart
  <2>6. (offset + 1) + 1 = offset + 2 /\ (offset + 1) + Len(p) = offset + 1 + Len(p)
    BY <1>4
  <2> QED BY <1>6, <2>1, <2>5, <2>6 DEF StrSelfLen
<1>7. ~(offset + 1 + Len(p) <= Len(cut)) => StrSelfLen(cut, offset) = None
  BY <1>5 DEF StrSelfLen
<1> QED BY <1>6, <1>7

-------------------------------------------------------------------------------
(* The names of the fields, and the bytes of their values.                 *)

LEMMA CodesAreNames ==
  /\ \A f \in DOMAIN Code : Code[f] \in 161 .. 254 /\ Code[f] \in Names
  /\ \A f, g \in DOMAIN Code : Code[f] = Code[g] => f = g
<1>1. \A f \in DOMAIN Code : Code[f] \in 161 .. 254
  BY DEF Code
<1>2. \A f, g \in DOMAIN Code : Code[f] = Code[g] => f = g
  BY DEF Code
<1> QED BY <1>1, <1>2, DecodeAssumption DEF Names

LEMMA NameOfCode ==
  ASSUME NEW f \in DOMAIN Code
  PROVE  NameOf[Code[f]] = f
<1> DEFINE D == DOMAIN Code  r == Range(Code)
<1>1. Code[f] \in r
  BY DEF Range
<1>2. NameOf[Code[f]] = CHOOSE s \in D : Code[f] \in r => Code[s] = Code[f]
  BY <1>1, Zenon DEF NameOf, AntiFunction, Inverse
<1>3. \E s \in D : Code[f] \in r => Code[s] = Code[f]
  OBVIOUS
<1> DEFINE g == CHOOSE s \in D : Code[f] \in r => Code[s] = Code[f]
<1>4. g \in D /\ (Code[f] \in r => Code[g] = Code[f])
  BY <1>3, Zenon
<1> HIDE DEF g, r
<1> QED BY <1>1, <1>2, <1>4, CodesAreNames DEF g, r

LEMMA BytesAreBytes == Byte = 0 .. 255
  BY DecodeAssumption DEF Byte

LEMMA MarksAreBytes ==
  ASSUME NEW f \in DOMAIN Code, NEW part \in Nat, NEW size \in Nat
  PROVE  /\ Marks(f, part, size) \in Seq(Byte) /\ Len(Marks(f, part, size)) = size
         /\ \A i \in 1 .. size : /\ Marks(f, part, size)[i] \in 48 .. 126
                                 /\ f # "fd" => Marks(f, part, size)[i] >= 50
                                 /\ f = "fd" => Marks(f, part, size)[i] \in Digit
<1> DEFINE c == Code[f]  m(i) == 50 + ((37 * c + 23 * part + i) % 77)
           d(i) == 48 + (i % 10)
<1>1. c \in Nat
  BY CodesAreNames
<1>2. ASSUME NEW i \in 1 .. size PROVE m(i) \in 50 .. 126 /\ d(i) \in 48 .. 57
  <2> HIDE DEF c
  <2>1. 37 * c + 23 * part + i \in Nat /\ i \in Nat
    BY <1>1
  <2> DEFINE k == 37 * c + 23 * part + i
  <2> HIDE DEF k
  <2>2. k % 77 \in 0 .. 76 /\ i % 10 \in 0 .. 9
    BY <2>1 DEF k
  <2>3. 50 + (k % 77) \in 50 .. 126
    BY <2>2
  <2> QED BY <2>2, <2>3 DEF k
<1> DEFINE v == Marks(f, part, size)
<1>3. v = [i \in 1 .. size |-> IF f = "fd" THEN d(i) ELSE m(i)]
  BY DEF Marks
<1> HIDE DEF v, m, d
<1>4. ASSUME NEW i \in 1 .. size
      PROVE  /\ v[i] \in 48 .. 126 /\ (f # "fd" => v[i] >= 50)
             /\ f = "fd" => v[i] \in Digit
  <2>1. m(i) \in 50 .. 126 /\ d(i) \in 48 .. 57
    BY <1>2
  <2>2. v[i] = IF f = "fd" THEN d(i) ELSE m(i)
    BY <1>3
  <2> HIDE DEF m, d
  <2> QED BY <2>1, <2>2 DEF Digit
<1>5. v \in Seq(Byte) /\ Len(v) = size
  <2>1. \A i \in 1 .. size : v[i] \in Byte
    BY <1>4, BytesAreBytes
  <2>2. v \in [1 .. size -> Byte]
    BY <1>3, <2>1
  <2> QED BY <1>3, <2>2
<1> QED BY <1>4, <1>5 DEF v

LEMMA SelfMarks ==
  ASSUME NEW f \in DOMAIN Code, NEW part \in Nat, NEW size \in 0 .. 255
  PROVE  Self(Marks(f, part, size)) \in Seq(Byte) /\ Len(Self(Marks(f, part, size))) = 1 + size
<1> DEFINE p == Marks(f, part, size)
<1>1. p \in Seq(Byte) /\ Len(p) = size
  BY MarksAreBytes
<1>2. Len(p) \in Byte
  BY <1>1, BytesAreBytes
<1> HIDE DEF p
<1>3. Self(p) \in Seq(Byte) /\ Len(Self(p)) = 1 + Len(p)
  BY <1>1, <1>2, SelfBytes
<1> QED BY <1>1, <1>3 DEF p

(* The parts a value is put together from.                                 *)
Joins(all, s, t) ==
  /\ all \in Seq(Byte) /\ Len(all) = Len(s) + Len(t)
  /\ \A offset \in Nat, p \in Seq(Byte) : Holds(s, offset, p) => Holds(all, offset, p)
  /\ Holds(all, Len(s), t)

LEMMA PartsJoin ==
  ASSUME NEW s \in Seq(Byte), NEW t \in Seq(Byte)
  PROVE  Joins(s \o t, s, t)
<1> DEFINE st == s \o t
<1>1. st \in Seq(Byte) /\ Len(st) = Len(s) + Len(t)
  BY ConcatProperties
<1>2. \A offset \in Nat, p \in Seq(Byte) : Holds(s, offset, p) => Holds(st, offset, p)
  BY HoldsBefore
<1>3. Holds(st, Len(s), t)
  BY HoldsAfter
<1> HIDE DEF st
<1>4. Joins(st, s, t)
  BY <1>1, <1>2, <1>3 DEF Joins
<1> QED BY <1>4 DEF st

LEMMA IdentityParts ==
  /\ Identity \in Seq(Byte) /\ Len(Identity) = 32
  /\ Holds(Identity, 1, Self(Marks("a2", 2, 17)))
  /\ Holds(Identity, 20, Self(Marks("a2", 4, 5)))
<1> DEFINE a == Marks("a2", 1, 1)  sn == Self(Marks("a2", 2, 17))  c == Marks("a2", 3, 1)
           pn == Self(Marks("a2", 4, 5))  e == Marks("a2", 5, 6)
<1>1. "a2" \in DOMAIN Code
  BY DEF Code
<1>2. /\ a \in Seq(Byte) /\ Len(a) = 1 /\ c \in Seq(Byte) /\ Len(c) = 1
      /\ e \in Seq(Byte) /\ Len(e) = 6
  BY <1>1, MarksAreBytes
<1>3. sn \in Seq(Byte) /\ Len(sn) = 18
  BY <1>1, SelfMarks
<1>4. pn \in Seq(Byte) /\ Len(pn) = 6
  BY <1>1, SelfMarks
<1>5. Identity = a \o sn \o c \o pn \o e
  BY DEF Identity
<1> HIDE DEF a, sn, c, pn, e
<1> DEFINE s2 == a \o sn  s3 == s2 \o c  s4 == s3 \o pn  s5 == s4 \o e
<1>6. Joins(s2, a, sn)
  BY <1>2, <1>3, PartsJoin
<1> HIDE DEF s2
<1>7. s2 \in Seq(Byte) /\ Len(s2) = 19 /\ Holds(s2, 1, sn)
  BY <1>2, <1>3, <1>6 DEF Joins
<1>8. Joins(s3, s2, c)
  BY <1>2, <1>7, PartsJoin
<1> HIDE DEF s3
<1>9. s3 \in Seq(Byte) /\ Len(s3) = 20 /\ Holds(s3, 1, sn)
  BY <1>2, <1>3, <1>7, <1>8 DEF Joins
<1>10. Joins(s4, s3, pn)
  BY <1>4, <1>9, PartsJoin
<1> HIDE DEF s4
<1>11. s4 \in Seq(Byte) /\ Len(s4) = 26 /\ Holds(s4, 1, sn) /\ Holds(s4, 20, pn)
  BY <1>3, <1>4, <1>9, <1>10 DEF Joins
<1>12. Joins(s5, s4, e)
  BY <1>2, <1>11, PartsJoin
<1> HIDE DEF s5
<1>13. s5 \in Seq(Byte) /\ Len(s5) = 32 /\ Holds(s5, 1, sn) /\ Holds(s5, 20, pn)
  BY <1>2, <1>3, <1>4, <1>11, <1>12 DEF Joins
<1>14. Identity = s5
  BY <1>5 DEF s5, s4, s3, s2
<1> QED BY <1>13, <1>14 DEF sn, pn

(* Where the values of c0 are, counted from the end of the serial number.  *)
HasPackParts(value, serial) ==
  /\ value \in Seq(Byte) /\ Len(value) = 18 + serial
  /\ Holds(value, 0, Self(Marks("c0", 1, serial)))
  /\ Holds(value, serial + 6, Marks("c0", 3, 1))
  /\ Holds(value, serial + 8, Marks("c0", 5, 1))
  /\ Holds(value, serial + 15, Self(Marks("c0", 7, 2)))

LEMMA PackFieldParts ==
  ASSUME NEW serial \in 1 .. 100
  PROVE  HasPackParts(PackField(serial), serial)
<1> DEFINE sn == Self(Marks("c0", 1, serial))  b == Marks("c0", 2, 5)
           t == Marks("c0", 3, 1)  d == Marks("c0", 4, 1)  soc == Marks("c0", 5, 1)
           e == Marks("c0", 6, 6)  type == Self(Marks("c0", 7, 2))
<1>1. "c0" \in DOMAIN Code
  BY DEF Code
<1>2. /\ b \in Seq(Byte) /\ Len(b) = 5 /\ t \in Seq(Byte) /\ Len(t) = 1
      /\ d \in Seq(Byte) /\ Len(d) = 1 /\ soc \in Seq(Byte) /\ Len(soc) = 1
      /\ e \in Seq(Byte) /\ Len(e) = 6
  BY <1>1, MarksAreBytes
<1>3. sn \in Seq(Byte) /\ Len(sn) = 1 + serial
  <2>1. serial \in 0 .. 255 /\ 1 \in Nat
    OBVIOUS
  <2> QED BY <1>1, <2>1, SelfMarks
<1>4. type \in Seq(Byte) /\ Len(type) = 3
  BY <1>1, SelfMarks
<1>5. PackField(serial) = sn \o b \o t \o d \o soc \o e \o type
  BY DEF PackField
<1> HIDE DEF sn, b, t, d, soc, e, type
<1> DEFINE s2 == sn \o b  s3 == s2 \o t  s4 == s3 \o d  s5 == s4 \o soc
           s6 == s5 \o e  s7 == s6 \o type
<1>6. Joins(s2, sn, b) /\ Holds(sn, 0, sn)
  BY <1>2, <1>3, PartsJoin, HoldsItself
<1> HIDE DEF s2
<1>7. s2 \in Seq(Byte) /\ Len(s2) = serial + 6 /\ Holds(s2, 0, sn)
  BY <1>2, <1>3, <1>6 DEF Joins
<1>8. Joins(s3, s2, t)
  BY <1>2, <1>7, PartsJoin
<1> HIDE DEF s3
<1>9. s3 \in Seq(Byte) /\ Len(s3) = serial + 7 /\ Holds(s3, 0, sn)
      /\ Holds(s3, serial + 6, t)
  BY <1>2, <1>3, <1>7, <1>8 DEF Joins
<1>10. Joins(s4, s3, d)
  BY <1>2, <1>9, PartsJoin
<1> HIDE DEF s4
<1>11. s4 \in Seq(Byte) /\ Len(s4) = serial + 8 /\ Holds(s4, 0, sn)
       /\ Holds(s4, serial + 6, t)
  BY <1>2, <1>3, <1>9, <1>10 DEF Joins
<1>12. Joins(s5, s4, soc)
  BY <1>2, <1>11, PartsJoin
<1> HIDE DEF s5
<1>13. s5 \in Seq(Byte) /\ Len(s5) = serial + 9 /\ Holds(s5, 0, sn)
       /\ Holds(s5, serial + 6, t) /\ Holds(s5, serial + 8, soc)
  BY <1>2, <1>3, <1>11, <1>12 DEF Joins
<1>14. Joins(s6, s5, e)
  BY <1>2, <1>13, PartsJoin
<1> HIDE DEF s6
<1>15. s6 \in Seq(Byte) /\ Len(s6) = serial + 15 /\ Holds(s6, 0, sn)
       /\ Holds(s6, serial + 6, t) /\ Holds(s6, serial + 8, soc)
  BY <1>2, <1>3, <1>13, <1>14 DEF Joins
<1>16. Joins(s7, s6, type)
  BY <1>4, <1>15, PartsJoin
<1> HIDE DEF s7
<1>17. s7 \in Seq(Byte) /\ Len(s7) = serial + 18 /\ Holds(s7, 0, sn)
       /\ Holds(s7, serial + 6, t) /\ Holds(s7, serial + 8, soc)
       /\ Holds(s7, serial + 15, type)
  BY <1>2, <1>3, <1>4, <1>15, <1>16 DEF Joins
<1>18. PackField(serial) = s7
  BY <1>5 DEF s7, s6, s5, s4, s3, s2
<1> HIDE DEF s7
<1> QED BY <1>17, <1>18 DEF HasPackParts, sn, t, soc, type

(* The value of a field before the byte `first` is put into it.            *)
RawValue(f, serial) ==
  CASE f = "a2" -> Identity
    [] f = "a6" -> Marks(f, 1, 4) \o DcPower \o Marks(f, 2, 3)
    [] f = "a8" -> Marks(f, 1, 1) \o DcPower
    [] f = "c0" -> PackField(serial)
    [] OTHER    -> Marks(f, 1, Width[f])

FieldsWith(serial) == DOMAIN Code \ (IF serial = NoPack THEN {"c0"} ELSE {})

LEMMA WholeFromRaw ==
  ASSUME NEW first, NEW serial
  PROVE  /\ DOMAIN Whole(first, serial) = FieldsWith(serial)
         /\ \A f \in FieldsWith(serial) :
              Whole(first, serial)[f] = IF f \in Unlike THEN RawValue(f, serial)
                ELSE <<FirstByte(f, first)>> \o Tail(RawValue(f, serial))
<1>1. Whole(first, serial) =
        [f \in FieldsWith(serial) |-> IF f \in Unlike THEN RawValue(f, serial)
           ELSE <<FirstByte(f, first)>> \o Tail(RawValue(f, serial))]
  BY Zenon DEF Whole, RawValue, FieldsWith
<1> QED BY <1>1, Zenon

LEMMA RawValues ==
  /\ \A serial : RawValue("a2", serial) = Identity
  /\ \A serial : RawValue("a6", serial) = Marks("a6", 1, 4) \o DcPower \o Marks("a6", 2, 3)
  /\ \A serial : RawValue("a8", serial) = Marks("a8", 1, 1) \o DcPower
  /\ \A serial : RawValue("c0", serial) = PackField(serial)
  /\ \A serial : \A f \in DOMAIN Code \ {"a2", "a6", "a8", "c0"} :
       RawValue(f, serial) = Marks(f, 1, Width[f])
  BY DEF RawValue

LEMMA WidthsFit ==
  /\ DOMAIN Width = DOMAIN Code \ {"a2", "a6", "a8", "c0"}
  /\ \A f \in DOMAIN Width : Width[f] \in 1 .. 28
<1>1. DOMAIN Width = DOMAIN Code \ {"a2", "a6", "a8", "c0"}
  BY DEF Width, Code
<1>2. \A f \in DOMAIN Width : Width[f] \in 1 .. 28
  BY DEF Width
<1> QED BY <1>1, <1>2

LEMMA DcPowerTwice ==
  /\ DcPower \in Seq(Byte) /\ Len(DcPower) = 2
  /\ LET v == RawValue("a6", NoPack)
     IN  v \in Seq(Byte) /\ Len(v) = 9 /\ Holds(v, 4, DcPower)
  /\ LET v == RawValue("a8", NoPack)
     IN  v \in Seq(Byte) /\ Len(v) = 3 /\ Holds(v, 1, DcPower)
<1> DEFINE a == Marks("a6", 1, 4)  c == Marks("a6", 2, 3)  d == Marks("a8", 1, 1)
           p == DcPower
<1>1. "a6" \in DOMAIN Code /\ "a8" \in DOMAIN Code
  BY DEF Code
<1>2. /\ a \in Seq(Byte) /\ Len(a) = 4 /\ c \in Seq(Byte) /\ Len(c) = 3
      /\ d \in Seq(Byte) /\ Len(d) = 1
  BY <1>1, MarksAreBytes
<1>3. p \in Seq(Byte) /\ Len(p) = 2
  BY <1>1, MarksAreBytes DEF DcPower
<1>4. RawValue("a6", NoPack) = a \o p \o c /\ RawValue("a8", NoPack) = d \o p
  BY RawValues
<1> HIDE DEF a, c, d, p
<1> DEFINE ap == a \o p  apc == ap \o c  dp == d \o p
<1>5. Joins(ap, a, p) /\ Joins(dp, d, p)
  BY <1>2, <1>3, PartsJoin
<1> HIDE DEF ap, dp
<1>6. /\ ap \in Seq(Byte) /\ Len(ap) = 6 /\ Holds(ap, 4, p)
      /\ dp \in Seq(Byte) /\ Len(dp) = 3 /\ Holds(dp, 1, p)
  BY <1>2, <1>3, <1>5 DEF Joins
<1>7. Joins(apc, ap, c)
  BY <1>2, <1>6, PartsJoin
<1> HIDE DEF apc
<1>8. apc \in Seq(Byte) /\ Len(apc) = 9 /\ Holds(apc, 4, p)
  BY <1>2, <1>3, <1>6, <1>7 DEF Joins
<1>9. RawValue("a6", NoPack) = apc /\ RawValue("a8", NoPack) = dp
  BY <1>4 DEF ap, apc, dp
<1> QED BY <1>3, <1>6, <1>8, <1>9 DEF p

(* How long the value of a field is, but for that of the pack.             *)
WholeLen(f) == CASE f = "a2" -> 32 [] f = "a6" -> 9 [] f = "a8" -> 3 [] OTHER -> Width[f]

LEMMA RawValueType ==
  ASSUME NEW serial \in Packs, NEW f \in FieldsWith(serial)
  PROVE  /\ RawValue(f, serial) \in Seq(Byte) /\ Len(RawValue(f, serial)) >= 1 /\ Len(RawValue(f, serial)) <= 118
         /\ f # "c0" => /\ Len(RawValue(f, serial)) = WholeLen(f)
                        /\ WholeLen(f) \in 1 .. 32
         /\ f = "c0" => serial \in 1 .. 100 /\ HasPackParts(RawValue(f, serial), serial)
<1> DEFINE v == RawValue(f, serial)  w == WholeLen(f)
<1>0. f \in DOMAIN Code /\ (f = "c0" => serial # NoPack)
  BY DEF FieldsWith
<1>1. f = "a2" => w = 32 /\ v \in Seq(Byte) /\ Len(v) = 32
  <2>1. f = "a2" => w = 32 /\ v = Identity
    BY RawValues DEF WholeLen
  <2> QED BY <2>1, IdentityParts
<1>2. f = "a6" => w = 9 /\ v \in Seq(Byte) /\ Len(v) = 9
  <2>1. f = "a6" => w = 9
    BY DEF WholeLen
  <2>2. f = "a6" => v = RawValue("a6", NoPack)
    BY RawValues
  <2> QED BY <2>1, <2>2, DcPowerTwice, Zenon
<1>3. f = "a8" => w = 3 /\ v \in Seq(Byte) /\ Len(v) = 3
  <2>1. f = "a8" => w = 3
    BY DEF WholeLen
  <2>2. f = "a8" => v = RawValue("a8", NoPack)
    BY RawValues
  <2> QED BY <2>1, <2>2, DcPowerTwice, Zenon
<1>4. f = "c0" => serial \in 1 .. 100 /\ HasPackParts(v, serial)
  <2>1. f = "c0" => serial \in 1 .. 100
    BY <1>0, DecodeAssumption DEF Packs
  <2>2. f = "c0" => v = PackField(serial)
    BY RawValues
  <2> QED BY <2>1, <2>2, PackFieldParts
<1>5. ASSUME f \notin {"a2", "a6", "a8", "c0"}
      PROVE  w \in 1 .. 28 /\ v \in Seq(Byte) /\ Len(v) = w
  <2>1. v = Marks(f, 1, Width[f])
    BY <1>0, <1>5, RawValues
  <2>2. w = Width[f] /\ w \in 1 .. 28
    BY <1>0, <1>5, WidthsFit DEF WholeLen
  <2> HIDE DEF w, v
  <2>3. w \in Nat /\ 1 \in Nat
    BY <2>2
  <2>4. Marks(f, 1, w) \in Seq(Byte) /\ Len(Marks(f, 1, w)) = w
    BY <1>0, <2>3, MarksAreBytes
  <2> QED BY <2>1, <2>2, <2>4
<1> HIDE DEF v, w
<1>6. f = "c0" => v \in Seq(Byte) /\ Len(v) = 18 + serial
  BY <1>4 DEF HasPackParts
<1>7. ASSUME f # "c0"
      PROVE  v \in Seq(Byte) /\ Len(v) = w /\ w \in 1 .. 32 /\ Len(v) >= 1 /\ Len(v) <= 118
  <2>1. CASE f = "a2"
    <3>1. w = 32 /\ v \in Seq(Byte) /\ Len(v) = 32
      BY <1>1, <2>1
    <3> QED BY <3>1
  <2>2. CASE f = "a6"
    <3>1. w = 9 /\ v \in Seq(Byte) /\ Len(v) = 9
      BY <1>2, <2>2
    <3> QED BY <3>1
  <2>3. CASE f = "a8"
    <3>1. w = 3 /\ v \in Seq(Byte) /\ Len(v) = 3
      BY <1>3, <2>3
    <3> QED BY <3>1
  <2>4. CASE f \notin {"a2", "a6", "a8", "c0"}
    <3>1. w \in 1 .. 28 /\ v \in Seq(Byte) /\ Len(v) = w
      BY <1>5, <2>4
    <3> QED BY <3>1
  <2> QED BY <1>7, <2>1, <2>2, <2>3, <2>4
<1>8. ASSUME f = "c0" PROVE v \in Seq(Byte) /\ Len(v) >= 1 /\ Len(v) <= 118
  <2>1. v \in Seq(Byte) /\ Len(v) = 18 + serial /\ serial \in 1 .. 100
    BY <1>4, <1>6, <1>8
  <2> QED BY <2>1
<1> QED BY <1>4, <1>7, <1>8 DEF v, w

(* A time in digits, behind a blank or not, or the beginning of one.       *)
IsTime(text, first) ==
  /\ text \in Seq(Byte) /\ Len(text) >= 1
  /\ text[1] \in {32, 49} /\ (text[1] = 32 <=> Padding(first) = 1)
  /\ \A i \in 2 .. Len(text) : text[i] \in Digit

(* What the values of a message that lacks nothing look like.              *)
HasLayout(whole, first, serial) ==
  /\ DOMAIN whole = FieldsWith(serial)
  /\ \A f \in FieldsWith(serial) :
       /\ whole[f] \in Seq(Byte) /\ Len(whole[f]) >= 1 /\ Len(whole[f]) <= 118
       /\ f # "c0" => Len(whole[f]) = WholeLen(f) /\ WholeLen(f) \in 1 .. 32
       /\ f \in DOMAIN Code \ Unlike => whole[f][1] = FirstByte(f, first)
  /\ "c0" \in FieldsWith(serial) =>
       serial \in 1 .. 100 /\ HasPackParts(whole["c0"], serial)
  /\ IsTime(whole["fd"], first)
  /\ Holds(whole["a2"], 1, Self(Marks("a2", 2, 17)))
  /\ Holds(whole["a2"], 20, Self(Marks("a2", 4, 5)))
  /\ Holds(whole["a6"], 4, DcPower)
  /\ Holds(whole["a8"], 1, DcPower)
  /\ whole["a4"][20] >= 50 /\ whole["a4"][20] \in Byte

LEMMA FirstByteType ==
  ASSUME NEW first \in {0, 4}, NEW f \in DOMAIN Code
  PROVE  FirstByte(f, first) \in (0 .. 4) \cup {32, 49}
<1>1. Code[f] \in Nat
  BY CodesAreNames
<1>2. (first + Code[f]) % 5 \in 0 .. 4
  BY <1>1
<1> QED BY <1>2 DEF FirstByte

(* A value with the byte in front keeps what follows it.                   *)
IsWholeOf(w, v, f, first) ==
  /\ w \in Seq(Byte) /\ Len(w) = Len(v)
  /\ f \in Unlike => w = v
  /\ f \notin Unlike => w[1] = FirstByte(f, first)
  /\ \A offset \in Nat \ {0}, p \in Seq(Byte) : Holds(v, offset, p) => Holds(w, offset, p)

LEMMA BytePutInFront ==
  ASSUME NEW v \in Seq(Byte), Len(v) >= 1, NEW byte \in Byte
  PROVE  LET w == <<byte>> \o Tail(v)
         IN  /\ w \in Seq(Byte) /\ Len(w) = Len(v) /\ w[1] = byte
             /\ \A offset \in Nat \ {0}, p \in Seq(Byte) : Holds(v, offset, p) => Holds(w, offset, p)
<1>1. v # << >>
  BY EmptySeq
<1> QED BY <1>1, FirstReplaced

LEMMA WholeValue ==
  ASSUME NEW first \in {0, 4}, NEW serial \in Packs, NEW f \in FieldsWith(serial)
  PROVE  IsWholeOf(Whole(first, serial)[f], RawValue(f, serial), f, first)
<1> DEFINE v == RawValue(f, serial)  w == Whole(first, serial)[f]
<1>1. v \in Seq(Byte) /\ Len(v) >= 1
  BY RawValueType
<1>2. w = IF f \in Unlike THEN v ELSE <<FirstByte(f, first)>> \o Tail(v)
  BY WholeFromRaw
<1> HIDE DEF v, w
<1>3. CASE f \in Unlike
  <2>1. IsWholeOf(w, v, f, first)
    BY <1>1, <1>2, <1>3 DEF IsWholeOf
  <2> QED BY <2>1 DEF v, w
<1>4. CASE f \notin Unlike
  <2> DEFINE byte == FirstByte(f, first)  u == <<byte>> \o Tail(v)
  <2>1. byte \in Byte
    <3>1. f \in DOMAIN Code
      BY DEF FieldsWith
    <3>2. byte \in (0 .. 4) \cup {32, 49}
      BY <3>1, FirstByteType
    <3> HIDE DEF byte
    <3> QED BY <3>2, BytesAreBytes
  <2>2. w = u
    BY <1>2, <1>4
  <2> HIDE DEF byte
  <2>3. /\ u \in Seq(Byte) /\ Len(u) = Len(v) /\ u[1] = byte
        /\ \A offset \in Nat \ {0}, p \in Seq(Byte) : Holds(v, offset, p) => Holds(u, offset, p)
    BY <1>1, <2>1, BytePutInFront
  <2> HIDE DEF u
  <2>4. IsWholeOf(w, v, f, first)
    BY <1>4, <2>2, <2>3 DEF IsWholeOf, byte
  <2> QED BY <2>4 DEF v, w
<1> QED BY <1>3, <1>4

LEMMA WholeHasLayout ==
  ASSUME NEW first \in {0, 4}, NEW serial \in Packs
  PROVE  HasLayout(Whole(first, serial), first, serial)
<1> DEFINE whole == Whole(first, serial)
<1>1. DOMAIN whole = FieldsWith(serial)
  BY WholeFromRaw
<1>2. /\ \A f \in {"a2", "a4", "a6", "a8", "fd"} : f \in FieldsWith(serial) /\ f \in DOMAIN Code
      /\ \A f \in {"a2", "a4", "a6", "a8"} : f \notin Unlike
      /\ "c0" \in Unlike /\ "fd" \notin Unlike
  BY DEF FieldsWith, Code, Unlike
<1> HIDE DEF whole
<1>3. ASSUME NEW f \in FieldsWith(serial)
      PROVE  /\ whole[f] \in Seq(Byte) /\ Len(whole[f]) >= 1 /\ Len(whole[f]) <= 118
             /\ f # "c0" => Len(whole[f]) = WholeLen(f) /\ WholeLen(f) \in 1 .. 32
             /\ f \in DOMAIN Code \ Unlike => whole[f][1] = FirstByte(f, first)
  <2> DEFINE w == whole[f]  v == RawValue(f, serial)
  <2>1. w \in Seq(Byte) /\ Len(w) = Len(v)
        /\ (f \notin Unlike => w[1] = FirstByte(f, first))
    BY WholeValue DEF whole, IsWholeOf
  <2>2. /\ Len(v) >= 1 /\ Len(v) <= 118
        /\ f # "c0" => Len(v) = WholeLen(f) /\ WholeLen(f) \in 1 .. 32
    BY RawValueType
  <2> HIDE DEF w, v
  <2>3. Len(w) >= 1 /\ Len(w) <= 118
    BY <2>1, <2>2
  <2>4. f # "c0" => Len(w) = WholeLen(f) /\ WholeLen(f) \in 1 .. 32
    BY <2>1, <2>2
  <2>5. f \in DOMAIN Code \ Unlike => w[1] = FirstByte(f, first)
    BY <2>1
  <2> QED BY <2>1, <2>3, <2>4, <2>5 DEF w
<1>4. "c0" \in FieldsWith(serial) => serial \in 1 .. 100 /\ HasPackParts(whole["c0"], serial)
  <2>1. "c0" \in FieldsWith(serial) => whole["c0"] = RawValue("c0", serial)
    BY <1>2, WholeValue DEF whole, IsWholeOf
  <2>2. "c0" \in FieldsWith(serial) =>
          serial \in 1 .. 100 /\ HasPackParts(RawValue("c0", serial), serial)
    BY RawValueType
  <2> QED BY <2>1, <2>2
<1>5. IsTime(whole["fd"], first)
  <2> DEFINE v == Marks("fd", 1, 13)  w == whole["fd"]
  <2>1. RawValue("fd", serial) = v
    <3>1. "fd" \in DOMAIN Code \ {"a2", "a6", "a8", "c0"} /\ Width["fd"] = 13
      BY <1>2 DEF Width
    <3> QED BY <3>1, RawValues
  <2>2. /\ v \in Seq(Byte) /\ Len(v) = 13
        /\ \A i \in 1 .. 13 : v[i] \in Digit
    BY <1>2, MarksAreBytes
  <2>3. w \in Seq(Byte) /\ Len(w) = 13 /\ w[1] = FirstByte("fd", first)
    BY <1>2, <2>1, <2>2, WholeValue DEF whole, IsWholeOf
  <2> HIDE DEF v
  <2>4. ASSUME NEW i \in 2 .. 13 PROVE w[i] = v[i]
    <3>1. i - 1 \in Nat \ {0} /\ (i - 1) + 1 = i /\ i \in 1 .. 13
      OBVIOUS
    <3>2. v[i] \in Byte
      BY <2>2, <3>1, ElementOfSeq
    <3>3. <<v[i]>> \in Seq(Byte) /\ Len(<<v[i]>>) = 1 /\ <<v[i]>>[1] = v[i]
      BY <3>2
    <3>4. Holds(v, i - 1, <<v[i]>>)
      BY <2>2, <3>1, <3>3 DEF Holds
    <3>5. Holds(w, i - 1, <<v[i]>>)
      BY <1>2, <2>1, <3>1, <3>3, <3>4, WholeValue DEF whole, IsWholeOf
    <3> QED BY <3>1, <3>3, <3>5 DEF Holds
  <2>5. FirstByte("fd", first) = IF Padding(first) = 0 THEN 49 ELSE 32
    <3>1. "fd" \notin Range(PortFields)
      BY DEF Range, PortFields
    <3> QED BY <3>1 DEF FirstByte
  <2>6. Padding(first) \in {0, 1}
    BY DEF Padding
  <2> HIDE DEF w
  <2>7. IsTime(w, first)
    BY <2>2, <2>3, <2>4, <2>5, <2>6 DEF IsTime
  <2> QED BY <2>7 DEF w
<1>6. \A f \in {"a2", "a4", "a6", "a8"}, offset \in Nat \ {0}, p \in Seq(Byte) :
        Holds(RawValue(f, serial), offset, p) => Holds(whole[f], offset, p)
  BY <1>2, WholeValue DEF whole, IsWholeOf
<1>7. /\ Holds(whole["a2"], 1, Self(Marks("a2", 2, 17)))
      /\ Holds(whole["a2"], 20, Self(Marks("a2", 4, 5)))
  <2>1. Self(Marks("a2", 2, 17)) \in Seq(Byte) /\ Self(Marks("a2", 4, 5)) \in Seq(Byte)
    BY <1>2, SelfMarks
  <2>2. /\ Holds(RawValue("a2", serial), 1, Self(Marks("a2", 2, 17)))
        /\ Holds(RawValue("a2", serial), 20, Self(Marks("a2", 4, 5)))
    BY IdentityParts, RawValues
  <2>3. 1 \in Nat \ {0} /\ 20 \in Nat \ {0} /\ "a2" \in {"a2", "a4", "a6", "a8"}
    OBVIOUS
  <2> QED BY <1>6, <2>1, <2>2, <2>3, Zenon
<1>8. Holds(whole["a6"], 4, DcPower) /\ Holds(whole["a8"], 1, DcPower)
  <2>1. /\ DcPower \in Seq(Byte)
        /\ Holds(RawValue("a6", NoPack), 4, DcPower)
        /\ Holds(RawValue("a8", NoPack), 1, DcPower)
    BY DcPowerTwice, Zenon
  <2>2. /\ RawValue("a6", serial) = RawValue("a6", NoPack)
        /\ RawValue("a8", serial) = RawValue("a8", NoPack)
    BY RawValues, Zenon
  <2>3. 1 \in Nat \ {0} /\ 4 \in Nat \ {0} /\ "a6" \in {"a2", "a4", "a6", "a8"}
        /\ "a8" \in {"a2", "a4", "a6", "a8"}
    OBVIOUS
  <2> QED BY <1>6, <2>1, <2>2, <2>3, Zenon
<1>9. whole["a4"][20] >= 50 /\ whole["a4"][20] \in Byte
  <2> DEFINE v == Marks("a4", 1, 26)  x == v[20]  w == whole["a4"]
  <2>1. RawValue("a4", serial) = v
    <3>1. "a4" \in DOMAIN Code \ {"a2", "a6", "a8", "c0"} /\ Width["a4"] = 26
      BY <1>2 DEF Width
    <3> QED BY <3>1, RawValues
  <2>2. v \in Seq(Byte) /\ Len(v) = 26 /\ x \in 48 .. 126 /\ x >= 50
    <3>1. /\ Marks("a4", 1, 26) \in Seq(Byte) /\ Len(Marks("a4", 1, 26)) = 26
          /\ \A i \in 1 .. 26 : /\ Marks("a4", 1, 26)[i] \in 48 .. 126
                                /\ "a4" # "fd" => Marks("a4", 1, 26)[i] >= 50
      BY <1>2, MarksAreBytes
    <3> QED BY <3>1
  <2> HIDE DEF v
  <2>3. <<x>> \in Seq(Byte)
    BY <2>2, BytesAreBytes
  <2>4. Holds(v, 19, <<x>>)
    BY <2>2 DEF Holds
  <2>5. Holds(w, 19, <<x>>)
    <3>1. 19 \in Nat \ {0} /\ "a4" \in {"a2", "a4", "a6", "a8"}
      OBVIOUS
    <3> QED BY <1>6, <2>1, <2>3, <2>4, <3>1, Zenon
  <2>6. w[20] = x
    BY <2>5 DEF Holds
  <2> QED BY <2>2, <2>6, BytesAreBytes
<1> QED BY <1>1, <1>3, <1>4, <1>5, <1>7, <1>8, <1>9 DEF HasLayout, whole

-------------------------------------------------------------------------------
(* What a message carries of the whole values.                             *)

LEMMA LesserOfTwo ==
  ASSUME NEW a \in Nat, NEW b \in Nat
  PROVE  /\ Min({a, b}) \in Nat /\ Min({a, b}) <= a /\ Min({a, b}) <= b
         /\ Min({a, b}) \in {a, b}
<1> DEFINE S == {a, b}
<1>1. \E x \in S : \A y \in S : x <= y
  <2>1. CASE a <= b
    BY <2>1
  <2>2. CASE b <= a
    BY <2>2
  <2> QED BY <2>1, <2>2
<1>2. Min(S) = CHOOSE x \in S : \A y \in S : x <= y
  BY DEF Min
<1>3. Min(S) \in S /\ \A y \in S : Min(S) <= y
  BY <1>1, <1>2, Zenon
<1> QED BY <1>3

LEMMA LongestSerial == Max(PackSerials) \in PackSerials /\ Max(PackSerials) \in 1 .. 100
<1> DEFINE P == PackSerials  T == {n \in 0 .. 99 : 100 - n \in P}
<1>1. P # {} /\ P \subseteq 1 .. 100
  BY DecodeAssumption
<1> HIDE DEF P
<1>2. T \subseteq Nat /\ T # {}
  <2>1. PICK p \in P : p \in 1 .. 100
    BY <1>1
  <2>2. 100 - p \in 0 .. 99 /\ 100 - (100 - p) = p
    BY <2>1
  <2>3. 100 - p \in T
    BY <2>1, <2>2
  <2> QED BY <2>3
<1>3. PICK n \in T : \A k \in T : n <= k
  <2> HIDE DEF T
  <2> QED BY <1>2, LeastNatural
<1>4. \E x \in P : \A y \in P : x >= y
  <2>1. 100 - n \in P /\ n \in 0 .. 99
    BY <1>3
  <2>2. ASSUME NEW y \in P PROVE 100 - n >= y
    <3>1. y \in 1 .. 100
      BY <1>1
    <3>2. 100 - y \in T
      <4>1. 100 - y \in 0 .. 99 /\ 100 - (100 - y) = y
        BY <3>1
      <4> QED BY <4>1
    <3>3. n <= 100 - y
      BY <1>3, <3>2
    <3> QED BY <2>1, <3>1, <3>3
  <2> QED BY <2>1, <2>2
<1>5. Max(P) \in P
  BY <1>4, Zenon DEF Max
<1> QED BY <1>1, <1>5 DEF P

(* Where the table finds its values: within the whole value of a field.    *)
InField(row, width) ==
  /\ row.offset \in Nat /\ row.size \in 1 .. 4 /\ row.offset + row.size <= width

LEMMA TableFitsFields ==
  /\ \A key \in DOMAIN Table :
       /\ Table[key].field \in DOMAIN Code \ {"a1", "a2", "c0", "fd"}
       /\ InField(Table[key], WholeLen(Table[key].field))
  /\ \A key \in Switches : key \in DOMAIN Table /\ Table[key].size = 1
  /\ Table["temp_unit_fahrenheit"] = At("a4", 19, 1)
  /\ Table["msg_timestamp"] = At("fe", 0, 4)
<1>1. \A key \in DOMAIN Table :
       /\ Table[key].field \in DOMAIN Code \ {"a1", "a2", "c0", "fd"}
       /\ InField(Table[key], WholeLen(Table[key].field))
  BY DEF Table, At, Code, WholeLen, Width, InField
<1>2. \A key \in Switches : key \in DOMAIN Table /\ Table[key].size = 1
  BY DEF Switches, Table, At
<1>3. /\ Table["temp_unit_fahrenheit"] = At("a4", 19, 1)
      /\ Table["msg_timestamp"] = At("fe", 0, 4)
  BY DEF Table
<1> QED BY <1>1, <1>2, <1>3

LEMMA PortsInTable ==
  /\ \A key \in DOMAIN PortFields :
       /\ PortFields[key] \in DOMAIN Code \ {"a1", "a2", "c0", "fd"}
       /\ PortFields[key] \notin Unlike /\ WholeLen(PortFields[key]) = 3
  /\ Range(PortFields) \subseteq DOMAIN Code \ {"a1", "a2", "c0", "fd"}
<1>1. \A key \in DOMAIN PortFields :
       /\ PortFields[key] \in DOMAIN Code \ {"a1", "a2", "c0", "fd"}
       /\ PortFields[key] \notin Unlike /\ WholeLen(PortFields[key]) = 3
  BY DEF PortFields, Code, Unlike, WholeLen, Width
<1>2. Range(PortFields) \subseteq DOMAIN Code \ {"a1", "a2", "c0", "fd"}
  BY <1>1 DEF Range
<1> QED BY <1>1, <1>2

LEMMA FirmwareType ==
  ASSUME NEW fw \in Firmwares
  PROVE  /\ fw.first \in {0, 4} /\ fw.increment \in BOOLEAN /\ fw.size \in Nat
         /\ fw.short \in DOMAIN Code \ {"a1"}
<1>1. Shortened \subseteq DOMAIN Code \ {"a1"}
  <2>1. {"a2", "c0", "fd"} \subseteq DOMAIN Code \ {"a1"}
    BY DEF Code
  <2>2. {Table[key].field : key \in DOMAIN Table} \subseteq DOMAIN Code \ {"a1"}
    BY TableFitsFields
  <2> QED BY <2>1, <2>2, PortsInTable DEF Shortened
<1> DEFINE longest == Max(PackSerials)  Limit(f) == Len(Whole(0, longest)[f])
<1>2. longest \in Packs /\ longest # NoPack
  BY LongestSerial DEF Packs, NoPack
<1>3. PICK f \in Shortened :
        fw \in [short : {f}, first : {0, 4}, increment : BOOLEAN,
                size : 0 .. Limit(f)]
  BY DEF Firmwares
<1>4. f \in DOMAIN Code \ {"a1"}
  BY <1>1
<1>5. Limit(f) \in Nat
  <2>1. f \in FieldsWith(longest)
    BY <1>2, <1>4 DEF FieldsWith
  <2>2. HasLayout(Whole(0, longest), 0, longest)
    BY <1>2, WholeHasLayout
  <2>3. Whole(0, longest)[f] \in Seq(Byte)
    BY <2>1, <2>2 DEF HasLayout
  <2> QED BY <2>3
<1> HIDE DEF Limit
<1>6. fw.size \in Nat
  BY <1>3, <1>5
<1> QED BY <1>3, <1>4, <1>6

(* The beginning of a value is a cut of it.                                *)
LEMMA BeginningIsCut ==
  ASSUME NEW w \in Seq(Byte), NEW size \in Nat, 1 <= size, size <= Len(w)
  PROVE  /\ IsCutOf(SubSeq(w, 1, size), w) /\ Len(SubSeq(w, 1, size)) = size
         /\ size = Len(w) => SubSeq(w, 1, size) = w
<1> DEFINE c == SubSeq(w, 1, size)
<1>1. \A i \in 1 .. size : w[i] \in Byte
  <2> SUFFICES ASSUME NEW i \in 1 .. size PROVE w[i] \in Byte
    OBVIOUS
  <2>1. i \in 1 .. Len(w)
    OBVIOUS
  <2> QED BY <2>1, ElementOfSeq
<1>2. /\ c \in Seq(Byte)
      /\ Len(c) = IF 1 <= size THEN size - 1 + 1 ELSE 0
      /\ \A i \in 1 .. size - 1 + 1 : c[i] = w[1 + i - 1]
  BY <1>1, SubSeqProperties
<1> HIDE DEF c
<1>3. Len(c) = size /\ \A i \in 1 .. size : c[i] = w[i]
  BY <1>2
<1>4. IsCutOf(c, w)
  BY <1>2, <1>3 DEF IsCutOf
<1>5. size = Len(w) => c = w
  BY <1>2, <1>3, SeqEqual
<1> QED BY <1>3, <1>4, <1>5 DEF c

Carried(contents, whole) ==
  /\ DOMAIN contents \subseteq DOMAIN whole
  /\ \A f \in DOMAIN contents : IsCutOf(contents[f], whole[f])

LEMMA ContentsCarried ==
  ASSUME NEW fw \in Firmwares, NEW serial \in Packs, NEW missing \in SUBSET Omitted
  PROVE  /\ Carried(Contents(fw, serial, missing), Whole(fw.first, serial))
         /\ "a1" \in DOMAIN Contents(fw, serial, missing)
<1> DEFINE whole == Whole(fw.first, serial)
           Size(f) == IF f = fw.short THEN Min({fw.size, Len(whole[f])}) ELSE Len(whole[f])
           sent1 == {g \in DOMAIN whole \ missing : Size(g) > 0}
           contents == Contents(fw, serial, missing)
<1>1. /\ fw.first \in {0, 4} /\ fw.size \in Nat
      /\ fw.short \in DOMAIN Code \ {"a1"}
  BY FirmwareType
<1>2. HasLayout(whole, fw.first, serial)
  BY <1>1, WholeHasLayout
<1>3. contents = [f \in sent1 |-> SubSeq(whole[f], 1, Size(f))]
  BY DEF Contents
<1> HIDE DEF whole, contents
<1>4. DOMAIN whole = FieldsWith(serial)
  BY <1>2 DEF HasLayout
<1>5. ASSUME NEW f \in DOMAIN whole
      PROVE  /\ whole[f] \in Seq(Byte) /\ Len(whole[f]) >= 1
             /\ Size(f) \in Nat /\ Size(f) <= Len(whole[f])
             /\ f # fw.short => Size(f) = Len(whole[f])
  <2>1. whole[f] \in Seq(Byte) /\ Len(whole[f]) >= 1
    BY <1>2, <1>4 DEF HasLayout
  <2> DEFINE n == Len(whole[f])
  <2>2. n \in Nat
    BY <2>1
  <2> HIDE DEF n
  <2>3. Min({fw.size, n}) \in Nat /\ Min({fw.size, n}) <= n
    BY <1>1, <2>2, LesserOfTwo
  <2>4. Size(f) = IF f = fw.short THEN Min({fw.size, n}) ELSE n
    BY DEF n
  <2> HIDE DEF Size
  <2>5. Size(f) \in Nat /\ Size(f) <= n /\ (f # fw.short => Size(f) = n)
    BY <2>2, <2>3, <2>4
  <2> QED BY <2>1, <2>5 DEF n
<1>8. "a1" \in sent1
  <2>1. "a1" \in FieldsWith(serial)
    BY DEF FieldsWith, Code
  <2>2. "a1" \notin missing
    BY DecodeAssumption
  <2>3. Size("a1") = Len(whole["a1"]) /\ Len(whole["a1"]) >= 1
    BY <1>1, <1>4, <1>5, <2>1
  <2>4. Size("a1") > 0
    BY <2>3
  <2> QED BY <1>4, <2>1, <2>2, <2>4
<1>9. \A f \in sent1 : f \in DOMAIN whole /\ Size(f) > 0
  OBVIOUS
<1> HIDE DEF Size, sent1
<1>10. DOMAIN contents = sent1 /\ \A f \in sent1 : contents[f] = SubSeq(whole[f], 1, Size(f))
  BY <1>3
<1>11. ASSUME NEW f \in sent1
       PROVE  IsCutOf(contents[f], whole[f]) /\ (Size(f) = Len(whole[f]) => contents[f] = whole[f])
  <2>1. whole[f] \in Seq(Byte) /\ Size(f) \in Nat /\ 1 <= Size(f) /\ Size(f) <= Len(whole[f])
    BY <1>5, <1>9
  <2> DEFINE w == whole[f]  n == Size(f)
  <2> HIDE DEF w, n
  <2>2. w \in Seq(Byte) /\ n \in Nat /\ 1 <= n /\ n <= Len(w)
    BY <2>1 DEF w, n
  <2>3. IsCutOf(SubSeq(w, 1, n), w) /\ (n = Len(w) => SubSeq(w, 1, n) = w)
    BY <2>2, BeginningIsCut
  <2> QED BY <1>10, <2>3 DEF w, n
<1>12. Carried(contents, whole)
  BY <1>9, <1>10, <1>11 DEF Carried
<1> QED BY <1>8, <1>10, <1>12 DEF contents, whole

-------------------------------------------------------------------------------
(* The device's messages are unambiguous: a type byte that might pass for  *)
(* the second byte of a length makes it longer than the message.           *)

LEMMA TypeBytes ==
  /\ TypeByte("a1") = NoType /\ TypeByte("fd") = 0 /\ TypeByte("fe") = 3
  /\ \A f \in DOMAIN Code \ {"a1", "fd", "fe"} : TypeByte(f) \in {4, 6}
  BY DEF TypeByte

LEMMA CarriedValue ==
  ASSUME NEW first, NEW serial, NEW whole, HasLayout(whole, first, serial),
         NEW contents, Carried(contents, whole), NEW f \in DOMAIN contents
  PROVE  /\ f \in FieldsWith(serial) /\ f \in DOMAIN Code
         /\ contents[f] \in Seq(Byte) /\ Len(contents[f]) >= 1 /\ Len(contents[f]) <= 118
         /\ f # "c0" => Len(contents[f]) <= 32
         /\ f = "a1" => Len(contents[f]) = 1
         /\ f = "fd" => IsTime(contents[f], first)
<1>1. f \in FieldsWith(serial) /\ IsCutOf(contents[f], whole[f])
  BY DEF Carried, HasLayout
<1>2. f \in DOMAIN Code
  BY <1>1 DEF FieldsWith
<1> DEFINE v == contents[f]  w == whole[f]
<1>3. /\ w \in Seq(Byte) /\ Len(w) <= 118
      /\ f # "c0" => Len(w) = WholeLen(f) /\ WholeLen(f) \in 1 .. 32
  BY <1>1 DEF HasLayout
<1>4. f = "a1" => WholeLen(f) = 1
  BY DEF WholeLen, Width
<1>5. f = "fd" => IsTime(w, first)
  BY DEF HasLayout
<1> HIDE DEF v, w
<1>6. v \in Seq(Byte) /\ Len(v) >= 1 /\ Len(v) <= Len(w)
  BY <1>1 DEF IsCutOf, v, w
<1>7. Len(v) \in Nat /\ Len(w) \in Nat
  BY <1>3, <1>6
<1>8. ASSUME f # "c0" PROVE Len(v) <= 32 /\ (f = "a1" => Len(v) = 1)
  <2> DEFINE n == WholeLen(f)  l == Len(v)
  <2>1. Len(w) = n /\ n \in 1 .. 32
    BY <1>3, <1>8
  <2>2. l <= n /\ l \in Nat /\ l >= 1
    BY <1>6, <1>7, <2>1
  <2>3. f = "a1" => n = 1
    BY <1>4
  <2> HIDE DEF n, l
  <2>4. l <= 32 /\ (f = "a1" => l = 1)
    BY <2>1, <2>2, <2>3
  <2> QED BY <2>4 DEF l
<1>9. f = "fd" => IsTime(v, first)
  <2>1. IsCutOf(v, w)
    BY <1>1 DEF v, w
  <2> QED BY <1>5, <1>7, <2>1 DEF IsTime, IsCutOf
<1>10. Len(v) <= 118
  BY <1>3, <1>6, <1>7
<1> QED BY <1>1, <1>2, <1>6, <1>8, <1>9, <1>10 DEF v

FieldOf(contents, f) == Field(1, TypeByte(f), contents[f])

LEMMA FieldIsPlain ==
  ASSUME NEW first, NEW serial, NEW whole, HasLayout(whole, first, serial),
         NEW contents, Carried(contents, whole), NEW f \in DOMAIN contents,
         NEW size \in Nat, size <= 1000, f = "fe" => size <= 700
  PROVE  /\ IsPlain(FieldOf(contents, f), size)
         /\ Len(Content(FieldOf(contents, f))) <= 119
         /\ f # "c0" => Len(Content(FieldOf(contents, f))) <= 33
<1> DEFINE v == contents[f]  r == FieldOf(contents, f)  c == Content(r)
<1>1. /\ f \in DOMAIN Code /\ v \in Seq(Byte) /\ Len(v) >= 1 /\ Len(v) <= 118
      /\ f # "c0" => Len(v) <= 32
      /\ f = "a1" => Len(v) = 1
      /\ f = "fd" => v[1] \in {32, 49}
  BY CarriedValue DEF IsTime
<1>2. r.width = 1 /\ r.type = TypeByte(f) /\ r.value = v
  BY DEF FieldOf, Field
<1>3. Base = 256 /\ TypeMax = 49 /\ NoType = 256
  BY DecodeAssumption DEF NoType
<1> HIDE DEF v, r
<1>4. v # << >> /\ Len(v) \in Nat
  BY <1>1, EmptySeq
<1>5. CASE f = "a1"
  <2>1. r.type = NoType /\ Len(v) = 1
    BY <1>1, <1>2, <1>5, TypeBytes
  <2>2. TypeIsPlain(r)
    BY <1>2, <1>4, <2>1 DEF TypeIsPlain
  <2>3. c = v
    BY <1>1, <1>2, <2>1, <2>2, ContentBytes
  <2>4. Len(c) = 1
    BY <2>1, <2>3
  <2> HIDE DEF c
  <2>5. Len(c) < Base
    BY <1>3, <2>4
  <2>6. OneByteIsPlain(r, size)
    BY <2>4, <2>5 DEF OneByteIsPlain, c
  <2>7. IsPlain(r, size)
    BY <1>1, <1>2, <2>2, <2>6 DEF IsPlain
  <2>8. Len(c) <= 119 /\ (f # "c0" => Len(c) <= 33)
    BY <2>4
  <2> QED BY <2>7, <2>8 DEF c, r
<1>6. CASE f # "a1"
  <2>1. /\ r.type \in {0, 3, 4, 6}
        /\ f = "fd" => r.type = 0
        /\ f = "fe" => r.type = 3
        /\ f # "fd" /\ f # "fe" => r.type \in {4, 6}
    BY <1>1, <1>2, <1>6, TypeBytes
  <2>2. r.type # NoType /\ r.type \in Byte /\ r.type <= TypeMax
    BY <1>3, <2>1, BytesAreBytes
  <2>3. TypeIsPlain(r)
    BY <1>2, <1>4, <2>2 DEF TypeIsPlain
  <2>4. /\ c \in Seq(Byte) /\ Len(c) = Len(v) + 1 /\ c[1] = r.type
        /\ \A i \in 1 .. Len(v) : c[i + 1] = v[i]
    BY <1>1, <1>2, <2>2, <2>3, ContentBytes
  <2>5. c[2] = v[1]
    <3>1. 1 \in 1 .. Len(v) /\ 1 + 1 = 2
      BY <1>1, <1>4
    <3> QED BY <2>4, <3>1
  <2> DEFINE t == r.type  l == Len(c)  n == Len(v)
  <2>6. l = n + 1 /\ n \in Nat /\ n <= 118 /\ (f # "c0" => n <= 32)
    BY <1>1, <1>4, <2>4
  <2> HIDE DEF t, l, n
  <2>7. l <= 119 /\ l < Base /\ (f # "c0" => l <= 33)
    BY <1>3, <2>6
  <2>8. c[2] \notin {0, 4} \/ l + Base * t > size - 4
    <3>1. CASE f = "fd"
      <4>1. v[1] \in {32, 49}
        BY <1>1, <3>1
      <4> QED BY <2>5, <4>1
    <3>2. CASE f = "fe"
      <4>1. t = 3 /\ size <= 700
        BY <2>1, <3>2 DEF t
      <4> QED BY <1>3, <2>6, <4>1
    <3>3. CASE f # "fd" /\ f # "fe"
      <4>1. t \in {4, 6}
        BY <2>1, <3>3 DEF t
      <4> QED BY <1>3, <2>6, <4>1
    <3> QED BY <3>1, <3>2, <3>3
  <2>9. OneByteIsPlain(r, size)
    BY <2>4, <2>7, <2>8 DEF OneByteIsPlain, l, t
  <2> QED BY <1>1, <1>2, <2>3, <2>7, <2>9 DEF IsPlain, r, l
<1> QED BY <1>5, <1>6

(* The length of a message from a name on is at most that of its fields    *)
(* with the longest values they may have, and the checksum.                *)
Share(code, name, len) == IF code >= name THEN len ELSE 0

CapAt(name) ==
  1 + Share(161, name, 35) + Share(162, name, 35) + Share(163, name, 35)
    + Share(164, name, 35) + Share(165, name, 35) + Share(166, name, 35)
    + Share(167, name, 35) + Share(168, name, 35) + Share(170, name, 35)
    + Share(171, name, 35) + Share(172, name, 35) + Share(174, name, 35)
    + Share(178, name, 35) + Share(192, name, 121) + Share(217, name, 35)
    + Share(218, name, 35) + Share(220, name, 35) + Share(249, name, 35)
    + Share(250, name, 35) + Share(253, name, 35) + Share(254, name, 35)

LEMMA CapDrops ==
  ASSUME NEW name \in Nat
  PROVE  /\ CapAt(name) \in Nat /\ CapAt(name) >= CapAt(name + 1)
         /\ CapAt(name) <= 822 /\ CapAt(name) >= 1
         /\ \A f \in DOMAIN Code : name = Code[f] =>
              CapAt(name) >= CapAt(name + 1) + (IF f = "c0" THEN 121 ELSE 35)
<1>1. CapAt(name) \in Nat /\ CapAt(name) >= 1
  BY SMTT(60) DEF CapAt, Share
<1>2. CapAt(name) >= CapAt(name + 1)
  BY SMTT(60) DEF CapAt, Share
<1>4. CapAt(name) <= 822
  BY SMTT(60) DEF CapAt, Share
<1>3. ASSUME NEW f \in DOMAIN Code, name = Code[f]
      PROVE  CapAt(name) >= CapAt(name + 1) + (IF f = "c0" THEN 121 ELSE 35)
  BY <1>3, SMTT(60) DEF CapAt, Code, Share
<1> QED BY <1>1, <1>2, <1>3, <1>4

LEMMA CapAtTheEnd == CapAt(254) = 36 /\ CapAt(256) = 1
  BY DEF CapAt, Share

LEMMA MessageFields ==
  ASSUME NEW fw, NEW contents, DOMAIN contents \subseteq DOMAIN Code
  PROVE  LET fields == MessageOf(fw, contents).fields
         IN  /\ DOMAIN fields = {Code[f] : f \in DOMAIN contents}
             /\ DOMAIN fields \subseteq Names
             /\ \A f \in DOMAIN contents : fields[Code[f]] = FieldOf(contents, f)
<1> DEFINE fields == MessageOf(fw, contents).fields  D == {Code[f] : f \in DOMAIN contents}
<1>1. fields = [code \in D |-> Field(1, TypeByte(NameOf[code]), contents[NameOf[code]])]
  BY DEF MessageOf
<1> HIDE DEF fields
<1>2. DOMAIN fields = D
  BY <1>1
<1>3. D \subseteq Names
  BY CodesAreNames
<1>4. ASSUME NEW f \in DOMAIN contents PROVE fields[Code[f]] = FieldOf(contents, f)
  <2>1. NameOf[Code[f]] = f
    BY NameOfCode
  <2>2. Code[f] \in D
    OBVIOUS
  <2> HIDE DEF D
  <2> QED BY <1>1, <2>1, <2>2 DEF FieldOf
<1> QED BY <1>2, <1>3, <1>4 DEF fields

(* What a message of a device with firmware fw may carry, when its values  *)
(* are those of whole.                                                     *)
IsMap(map) == map = [x \in DOMAIN map |-> map[x]]

MaySend(fw, serial, whole, contents) ==
  /\ fw.first \in {0, 4} /\ fw.increment \in BOOLEAN
  /\ HasLayout(whole, fw.first, serial)
  /\ Carried(contents, whole) /\ "a1" \in DOMAIN contents /\ IsMap(contents)

LEMMA SentFields ==
  ASSUME NEW fw, NEW serial, NEW whole, NEW contents, MaySend(fw, serial, whole, contents)
  PROVE  /\ DOMAIN contents \subseteq DOMAIN Code /\ fw.first \in Byte
         /\ \A f \in DOMAIN contents, size \in Nat :
              size <= 1000 /\ (f = "fe" => size <= 700) =>
                /\ IsPlain(FieldOf(contents, f), size)
                /\ Len(Content(FieldOf(contents, f))) <= 119
                /\ f # "c0" => Len(Content(FieldOf(contents, f))) <= 33
<1>1. HasLayout(whole, fw.first, serial) /\ Carried(contents, whole) /\ fw.first \in {0, 4}
  BY DEF MaySend
<1>2. DOMAIN contents \subseteq DOMAIN Code
  BY <1>1, CarriedValue
<1>3. fw.first \in Byte
  BY <1>1, BytesAreBytes
<1> QED BY <1>1, <1>2, <1>3, FieldIsPlain

LEMMA MessageIsEncodable ==
  ASSUME NEW fw, NEW serial, NEW whole, NEW contents, MaySend(fw, serial, whole, contents)
  PROVE  Encodable(MessageOf(fw, contents))
<1> DEFINE m == MessageOf(fw, contents)
<1>1. DOMAIN contents \subseteq DOMAIN Code
  BY SentFields
<1>2. /\ DOMAIN m.fields = {Code[f] : f \in DOMAIN contents}
      /\ DOMAIN m.fields \subseteq Names
      /\ \A f \in DOMAIN contents : m.fields[Code[f]] = FieldOf(contents, f)
  BY <1>1, MessageFields
<1>3. m.checksum = fw.first
  BY DEF MessageOf
<1> HIDE DEF m
<1>4. m.checksum \in Byte
  BY <1>3, SentFields
<1>5. ASSUME NEW name \in DOMAIN m.fields PROVE \E size : IsPlain(m.fields[name], size)
  <2>1. PICK f \in DOMAIN contents : name = Code[f]
    BY <1>2
  <2>2. 0 \in Nat /\ 0 <= 1000 /\ 0 <= 700
    OBVIOUS
  <2>3. IsPlain(FieldOf(contents, f), 0)
    BY <2>2, SentFields
  <2> QED BY <1>2, <2>1, <2>3
<1>6. Encodable(m)
  BY <1>2, <1>4, <1>5 DEF Encodable
<1> QED BY <1>6 DEF m

LEMMA MessageIsShort ==
  ASSUME NEW fw, NEW serial, NEW whole, NEW contents, MaySend(fw, serial, whole, contents),
         NEW from, AreBodies(from, MessageOf(fw, contents)), NEW f \in DOMAIN contents
  PROVE  LET size == SizeFrom(MessageOf(fw, contents), Code[f])
         IN  size \in Nat /\ size <= 1000 /\ (f = "fe" => size <= 700)
<1> DEFINE m == MessageOf(fw, contents)  N == Base - FirstName
           cap == [k \in 1 .. N + 1 |-> CapAt(NameAt(k))]
<1>1. Encodable(m)
  BY MessageIsEncodable
<1>2. DOMAIN contents \subseteq DOMAIN Code
  BY SentFields
<1>3. /\ DOMAIN m.fields = {Code[g] : g \in DOMAIN contents}
      /\ DOMAIN m.fields \subseteq Names
      /\ \A g \in DOMAIN contents : m.fields[Code[g]] = FieldOf(contents, g)
  BY <1>2, MessageFields
<1>4. AreBodies(from, m)
  OBVIOUS
<1> HIDE DEF m
<1>5. FirstName = 160 /\ Base = 256 /\ N = 96 /\ Places = 1 .. 96 /\ N \in Nat
  BY DecodeAssumption DEF Places
<1>6. \A k \in 1 .. 97 : NameAt(k) = 159 + k /\ NameAt(k) \in Nat
  BY <1>5 DEF NameAt
<1>7. cap \in [1 .. N + 1 -> Nat]
  BY <1>5, <1>6, CapDrops
<1>8. cap[N + 1] >= 1
  BY <1>5, <1>6, CapAtTheEnd
<1>9. ASSUME NEW k \in Places PROVE cap[k] >= cap[k + 1] + Len(Part(m.fields, k))
  <2>1. k \in Nat /\ k \in 1 .. N + 1 /\ k + 1 \in 1 .. N + 1 /\ NameAt(k + 1) = NameAt(k) + 1
        /\ NameAt(k) \in Nat
    BY <1>5, <1>6
  <2>2. cap[k] = CapAt(NameAt(k)) /\ cap[k + 1] = CapAt(NameAt(k) + 1)
    BY <2>1
  <2> HIDE DEF cap
  <2> DEFINE a == CapAt(NameAt(k))  b == CapAt(NameAt(k) + 1)
  <2>3. a \in Nat /\ b \in Nat /\ a >= b
    BY <2>1, CapDrops
  <2>4. CASE NameAt(k) \notin DOMAIN m.fields
    <3>1. Len(Part(m.fields, k)) = 0
      BY <2>4, EmptySeq DEF Part
    <3> QED BY <2>2, <2>3, <3>1
  <2>5. CASE NameAt(k) \in DOMAIN m.fields
    <3>1. PICK g \in DOMAIN contents : NameAt(k) = Code[g]
      BY <1>3, <2>5
    <3> DEFINE r == FieldOf(contents, g)  c == Content(r)  e == EncodeField(NameAt(k), r)
    <3>2. Part(m.fields, k) = e /\ NameAt(k) \in Names
      BY <1>3, <2>5, <3>1 DEF Part
    <3>3. IsPlain(r, 0) /\ Len(c) <= 119 /\ (g # "c0" => Len(c) <= 33)
      <4>1. 0 \in Nat /\ 0 <= 1000 /\ 0 <= 700
        OBVIOUS
      <4> QED BY <4>1, SentFields
    <3>4. r.width = 1
      BY DEF FieldOf, Field
    <3> HIDE DEF r
    <3>5. Len(e) = 2 + Len(c)
      BY <3>2, <3>3, <3>4, OneByteFieldLen
    <3>6. Len(c) \in Nat
      BY <3>3, PlainContent
    <3> HIDE DEF c, e
    <3>7. a >= b + (IF g = "c0" THEN 121 ELSE 35)
      BY <1>2, <2>1, <3>1, CapDrops
    <3> HIDE DEF a, b
    <3>8. a >= b + Len(e)
      <4>1. CASE g = "c0"
        BY <2>3, <3>3, <3>5, <3>6, <3>7, <4>1
      <4>2. CASE g # "c0"
        BY <2>3, <3>3, <3>5, <3>6, <3>7, <4>2
      <4> QED BY <4>1, <4>2
    <3> QED BY <2>2, <3>2, <3>8 DEF a, b
  <2> QED BY <2>4, <2>5
<1> DEFINE k == Code[f] - 159
<1>10. Code[f] \in 161 .. 254 /\ (f = "fe" => Code[f] = 254) /\ Code[f] \in DOMAIN m.fields
  BY <1>2, <1>3, CodesAreNames DEF Code
<1>11. k \in 1 .. N + 1 /\ k \in Places /\ NameAt(k) = Code[f]
  BY <1>5, <1>6, <1>10
<1>12. cap[k] = CapAt(Code[f])
  BY <1>11
<1> HIDE DEF cap, k
<1>13. Len(from[k]) <= cap[k]
  BY <1>1, <1>4, <1>7, <1>8, <1>9, <1>11, BodiesBounded
<1>14. SizeFrom(m, Code[f]) = Len(from[k]) /\ from[k] \in Seq(Byte)
  BY <1>4, <1>10, <1>11 DEF AreBodies
<1>15. /\ CapAt(Code[f]) \in Nat /\ CapAt(Code[f]) <= 822
       /\ f = "fe" => CapAt(Code[f]) = 36
  <2>1. Code[f] \in Nat
    BY <1>10
  <2>2. CapAt(Code[f]) \in Nat /\ CapAt(Code[f]) <= 822
    BY <2>1, CapDrops
  <2>3. f = "fe" => CapAt(Code[f]) = 36
    BY <1>10, CapAtTheEnd
  <2> QED BY <2>2, <2>3
<1> DEFINE size == SizeFrom(m, Code[f])
<1>16. size \in Nat /\ size <= CapAt(Code[f])
  BY <1>12, <1>13, <1>14
<1> HIDE DEF size
<1>17. size \in Nat /\ size <= 1000 /\ (f = "fe" => size <= 700)
  BY <1>15, <1>16
<1> QED BY <1>17 DEF size, m

LEMMA MessageIsUnambiguous ==
  ASSUME NEW fw, NEW serial, NEW whole, NEW contents, MaySend(fw, serial, whole, contents)
  PROVE  Unambiguous(MessageOf(fw, contents))
<1> DEFINE m == MessageOf(fw, contents)
<1>1. Encodable(m)
  BY MessageIsEncodable
<1>2. PICK from : AreBodies(from, m)
  BY <1>1, MessageHasBodies
<1>3. DOMAIN contents \subseteq DOMAIN Code
  BY SentFields
<1>4. /\ DOMAIN m.fields = {Code[f] : f \in DOMAIN contents}
      /\ DOMAIN m.fields \subseteq Names
      /\ \A f \in DOMAIN contents : m.fields[Code[f]] = FieldOf(contents, f)
  BY <1>3, MessageFields
<1>5. ASSUME NEW name \in DOMAIN m.fields
      PROVE  IsPlain(m.fields[name], SizeFrom(m, name))
  <2>1. PICK f \in DOMAIN contents : name = Code[f]
    BY <1>4
  <2> DEFINE size == SizeFrom(m, name)
  <2>2. size \in Nat /\ size <= 1000 /\ (f = "fe" => size <= 700)
    BY <1>2, <2>1, MessageIsShort
  <2> HIDE DEF size
  <2>3. IsPlain(FieldOf(contents, f), size)
    BY <2>2, SentFields
  <2> QED BY <1>4, <2>1, <2>3 DEF size
<1>6. HeaderIsPlain(m)
  <2>1. FirstName .. LastFirst = 160 .. 169
    BY DecodeAssumption
  <2>2. CASE fw.increment
    <3>1. m.increment = <<fw.first>>
      BY <2>2 DEF MessageOf
    <3>2. fw.first \in Byte \ (FirstName .. LastFirst)
      BY <2>1, BytesAreBytes DEF MaySend
    <3> HIDE DEF m
    <3> QED BY <3>1, <3>2 DEF HeaderIsPlain
  <2>3. CASE ~fw.increment
    <3>1. m.increment = << >>
      BY <2>3 DEF MessageOf
    <3> HIDE DEF m
    <3>2. Code["a1"] = 161
      BY DEF Code
    <3>3. 161 \in DOMAIN m.fields
      BY <1>4, <3>2 DEF MaySend
    <3>4. \A n \in DOMAIN m.fields : 161 <= n
      <4> SUFFICES ASSUME NEW n \in DOMAIN m.fields PROVE 161 <= n
        OBVIOUS
      <4>1. PICK f \in DOMAIN contents : n = Code[f]
        BY <1>4
      <4>2. Code[f] \in 161 .. 254
        BY <1>3, CodesAreNames
      <4> QED BY <4>1, <4>2
    <3>5. BodyOf(m)[1] = 161
      BY <1>1, <1>2, <3>3, <3>4, LeastNameFirst
    <3>6. BodyOf(m)[1] \in FirstName .. LastFirst
      BY <2>1, <3>5
    <3> QED BY <3>1, <3>6 DEF HeaderIsPlain
  <2> QED BY <2>2, <2>3
<1> HIDE DEF m
<1>7. m.checksum \in Byte
  BY <1>1, Zenon DEF Encodable
<1>8. Unambiguous(m)
  BY <1>4, <1>5, <1>6, <1>7 DEF Unambiguous
<1> QED BY <1>8 DEF m

(* The walk over a message of the device finds what it carries.            *)
LEMMA ContentsFound ==
  ASSUME NEW fw, NEW serial, NEW whole, NEW contents, MaySend(fw, serial, whole, contents)
  PROVE  ByName(DecodeFields(Body(BytesOf(MessageOf(fw, contents))))) = contents
<1> DEFINE m == MessageOf(fw, contents)  walked == DecodeFields(Body(BytesOf(m)))
           D == DOMAIN contents
<1>1. walked = ValuesOf(m)
  <2>1. Unambiguous(m)
    BY MessageIsUnambiguous
  <2> HIDE DEF m
  <2> QED BY <2>1, DecodeInverts
<1>2. D \subseteq DOMAIN Code
  BY SentFields
<1>3. /\ DOMAIN m.fields = {Code[f] : f \in D}
      /\ \A f \in D : m.fields[Code[f]] = FieldOf(contents, f)
  BY <1>2, MessageFields
<1> HIDE DEF m, walked
<1>4. /\ DOMAIN walked = {Code[f] : f \in D}
      /\ \A f \in D : walked[Code[f]] = contents[f]
  <2>1. DOMAIN walked = DOMAIN m.fields
        /\ \A name \in DOMAIN m.fields : walked[name] = m.fields[name].value
    BY <1>1 DEF ValuesOf
  <2>2. \A f \in D : FieldOf(contents, f).value = contents[f]
    BY DEF FieldOf, Field
  <2> QED BY <1>3, <2>1, <2>2
<1>5. {g \in DOMAIN Code : Code[g] \in DOMAIN walked} = D
  <2>1. ASSUME NEW g \in DOMAIN Code PROVE Code[g] \in DOMAIN walked <=> g \in D
    <3>1. Code[g] \in DOMAIN walked => \E f \in D : Code[g] = Code[f]
      BY <1>4
    <3>2. \A f \in D : Code[g] = Code[f] => g = f
      BY <1>2, CodesAreNames
    <3>3. g \in D => Code[g] \in DOMAIN walked
      BY <1>4
    <3> QED BY <3>1, <3>2, <3>3
  <2> QED BY <1>2, <2>1
<1>6. ByName(walked) = [f \in D |-> walked[Code[f]]]
  BY <1>5 DEF ByName
<1>7. ByName(walked) = [f \in D |-> contents[f]]
  BY <1>4, <1>6
<1>8. [f \in D |-> contents[f]] = contents
  BY DEF IsMap, MaySend
<1> QED BY <1>7, <1>8 DEF walked, m

(* The type and the body of a message lie behind its first seven bytes.    *)
HasHeader(all, type, rest) ==
  ~(Len(all) < 9) /\ SubSeq(all, 8, 9) = type /\ SubSeq(all, 10, Len(all)) = rest

LEMMA HeaderTaken ==
  ASSUME NEW head \in Seq(Nat), Len(head) = 7, NEW type \in Seq(Nat), Len(type) = 2,
         NEW rest \in Seq(Nat)
  PROVE  HasHeader((head \o type) \o rest, type, rest)
<1> DEFINE pre == head \o type  all == pre \o rest
<1>1. Len(rest) \in Nat
  OBVIOUS
<1>2. /\ pre \in Seq(Nat) /\ Len(pre) = Len(head) + Len(type)
      /\ \A i \in 1 .. Len(head) + Len(type) :
           pre[i] = IF i <= Len(head) THEN head[i] ELSE type[i - Len(head)]
  BY ConcatProperties
<1> HIDE DEF pre
<1>3. Len(pre) = 9 /\ pre[8] = type[1] /\ pre[9] = type[2]
  BY <1>2
<1>4. /\ all \in Seq(Nat) /\ Len(all) = Len(pre) + Len(rest)
      /\ \A i \in 1 .. Len(pre) + Len(rest) :
           all[i] = IF i <= Len(pre) THEN pre[i] ELSE rest[i - Len(pre)]
  <2>1. \A x, y \in Seq(Nat) :
          /\ x \o y \in Seq(Nat) /\ Len(x \o y) = Len(x) + Len(y)
          /\ \A i \in 1 .. Len(x) + Len(y) :
               (x \o y)[i] = IF i <= Len(x) THEN x[i] ELSE y[i - Len(x)]
    BY ConcatProperties
  <2>2. pre \in Seq(Nat)
    BY <1>2
  <2> QED BY <2>1, <2>2, Zenon
<1> HIDE DEF all
<1>5. Len(all) = 9 + Len(rest) /\ all[8] = type[1] /\ all[9] = type[2]
  BY <1>1, <1>3, <1>4
<1>6. \A i \in 1 .. 9 + Len(rest) : i > 9 => all[i] = rest[i - 9]
  BY <1>1, <1>3, <1>4
<1>7. SubSeq(all, 8, 9) = type
  <2> DEFINE s == SubSeq(all, 8, 9)
  <2>1. \A i \in 8 .. 9 : all[i] \in Nat
    BY <1>1, <1>4, <1>5, ElementOfSeq
  <2>2. /\ s \in Seq(Nat) /\ Len(s) = IF 8 <= 9 THEN 9 - 8 + 1 ELSE 0
        /\ \A i \in 1 .. 9 - 8 + 1 : s[i] = all[8 + i - 1]
    BY <2>1, SubSeqProperties
  <2> HIDE DEF s
  <2>3. Len(s) = 2 /\ s[1] = all[8] /\ s[2] = all[9]
    BY <2>2
  <2>5. \A i \in 1 .. Len(s) : s[i] = type[i]
    BY <1>5, <2>3
  <2>6. s = type
    BY <2>2, <2>3, <2>5, SeqEqual
  <2> QED BY <2>6 DEF s
<1>8. SubSeq(all, 10, Len(all)) = rest
  <2> DEFINE n == Len(all)  s == SubSeq(all, 10, n)
  <2>1. n = 9 + Len(rest) /\ n \in Nat
    BY <1>1, <1>5
  <2>2. \A i \in 10 .. n : all[i] \in Nat
    BY <1>4, <2>1, ElementOfSeq
  <2> HIDE DEF n
  <2>3. /\ s \in Seq(Nat) /\ Len(s) = IF 10 <= n THEN n - 10 + 1 ELSE 0
        /\ \A i \in 1 .. n - 10 + 1 : s[i] = all[10 + i - 1]
    BY <2>1, <2>2, SubSeqProperties
  <2> HIDE DEF s
  <2>4. Len(s) = Len(rest)
    BY <1>1, <2>1, <2>3
  <2>5. ASSUME NEW i \in 1 .. Len(s) PROVE s[i] = rest[i]
    <3>1. i \in 1 .. n - 10 + 1 /\ 10 + i - 1 = 9 + i /\ 9 + i \in 1 .. 9 + Len(rest)
          /\ 9 + i > 9 /\ (9 + i) - 9 = i
      BY <1>1, <2>1, <2>4
    <3> QED BY <1>6, <2>3, <3>1
  <2>6. s = rest
    BY <2>3, <2>4, <2>5, SeqEqual
  <2> QED BY <2>6 DEF s, n
<1>9. HasHeader(all, type, rest)
  BY <1>1, <1>5, <1>7, <1>8 DEF HasHeader
<1> QED BY <1>9 DEF all, pre

(* decode_0421 finds the type and the body of a message of the device.     *)
LEMMA MessageDecoded ==
  ASSUME NEW fw, NEW serial, NEW whole, NEW contents, MaySend(fw, serial, whole, contents),
         NEW type \in Types
  PROVE  Decode0421(Bytes(fw, type, contents)) =
           IF type \in StatusTypes THEN Some(FromRaw(Decode(contents))) ELSE None
<1> DEFINE m == MessageOf(fw, contents)  rest == BytesOf(m)  size == 9 + Len(rest)
           head == <<255, 9, size % Base, size \div Base, 3, 1, 15>>
           all == (head \o type) \o rest
<1>1. ByName(DecodeFields(Body(rest))) = contents
  BY ContentsFound
<1>2. rest \in Seq(Byte)
  <2>1. Unambiguous(m)
    BY MessageIsUnambiguous
  <2>2. PICK from : AreBodies(from, m)
    BY <2>1, UnambiguousIsEncodable, MessageHasBodies
  <2>3. BodyOf(m) \in Seq(Byte)
    <3>1. 1 \in 1 .. Base - FirstName + 1 /\ from[1] = BodyOf(m)
      BY <2>2, PlacesAreNames DEF AreBodies
    <3> QED BY <2>2, <3>1 DEF AreBodies
  <2>4. m.increment \in Seq(Byte)
    <3>1. m.increment = << >> \/ m.increment = <<fw.first>>
      BY DEF MessageOf
    <3>2. fw.first \in Byte
      BY SentFields
    <3> HIDE DEF m
    <3>3. CASE m.increment = << >>
      BY <3>3, EmptySeq
    <3>4. CASE m.increment = <<fw.first>>
      BY <3>2, <3>4
    <3> QED BY <3>1, <3>3, <3>4
  <2> HIDE DEF m
  <2> QED BY <2>3, <2>4, ConcatProperties DEF BytesOf
<1>3. Bytes(fw, type, contents) = all
  BY DEF Bytes
<1> HIDE DEF rest
<1>4. head \in Seq(Nat) /\ Len(head) = 7
  <2>1. size \in Nat /\ Base \in Nat /\ Base > 0
    BY <1>2, DecodeAssumption
  <2> HIDE DEF size
  <2>2. size % Base \in Nat /\ size \div Base \in Nat
    BY <2>1
  <2> QED BY <2>2
<1>5. type \in Seq(Nat) /\ Len(type) = 2
  <2>1. type = <<4, 33>> \/ type = <<9, 0>> \/ type = <<4, 5>>
    BY DEF Types
  <2>2. CASE type = <<4, 33>>
    BY <2>2
  <2>3. CASE type = <<9, 0>>
    BY <2>3
  <2>4. CASE type = <<4, 5>>
    BY <2>4
  <2> QED BY <2>1, <2>2, <2>3, <2>4
<1>6. rest \in Seq(Nat)
  <2>1. Byte \subseteq Nat
    BY BytesAreBytes
  <2> QED BY <1>2, <2>1, SeqMonotonic
<1> HIDE DEF head
<1>7. HasHeader(all, type, rest)
  BY <1>4, <1>5, <1>6, HeaderTaken
<1> HIDE DEF all
<1> QED BY <1>1, <1>3, <1>7, Zenon DEF Decode0421, HasHeader

-------------------------------------------------------------------------------
(* What is read for each kind of key.                                      *)

OtherKeys == {"device_sn", "device_pn", "dc_input_power_total", "utc_timestamp"}

LEMMA KindsOfKeys ==
  /\ Keys = DOMAIN Table \cup DOMAIN PortFields \cup PackKeys \cup OtherKeys
  /\ \A key \in DOMAIN Table : /\ key \notin DOMAIN PortFields
                               /\ key \notin PackKeys /\ key \notin OtherKeys
  /\ \A key \in DOMAIN PortFields : key \notin PackKeys /\ key \notin OtherKeys
  /\ \A key \in PackKeys : key \notin OtherKeys
  /\ \A key \in Switches : key \in DOMAIN Table
  /\ "temp_unit_fahrenheit" \in DOMAIN Table /\ "msg_timestamp" \in DOMAIN Table
  /\ "temp_unit_fahrenheit" \notin Switches /\ "msg_timestamp" \notin Switches
<1>1. Keys = DOMAIN Table \cup DOMAIN PortFields \cup PackKeys \cup OtherKeys
  BY DEF Keys, OtherKeys
<1>2. \A key \in DOMAIN Table : key \notin DOMAIN PortFields
  BY DEF Table, PortFields
<1>3. \A key \in DOMAIN Table : key \notin PackKeys /\ key \notin OtherKeys
  BY DEF Table, PackKeys, OtherKeys
<1>4. \A key \in DOMAIN PortFields : key \notin PackKeys /\ key \notin OtherKeys
  BY DEF PortFields, PackKeys, OtherKeys
<1>5. \A key \in PackKeys : key \notin OtherKeys
  BY DEF PackKeys, OtherKeys
<1>6. \A key \in Switches : key \in DOMAIN Table
  BY TableFitsFields
<1>7. "temp_unit_fahrenheit" \in DOMAIN Table /\ "msg_timestamp" \in DOMAIN Table
  BY DEF Table
<1>8. "temp_unit_fahrenheit" \notin Switches /\ "msg_timestamp" \notin Switches
  BY DEF Switches
<1> QED BY <1>1, <1>2, <1>3, <1>4, <1>5, <1>6, <1>7, <1>8

SerialOf(fields) == String(fields, "c0", 0)
ReadIn(fields, key) == Number(fields, Table[key].field, Table[key].offset, Table[key].size)

(* The raw values, by the kind of their key.                               *)
IsDecoded(raw, fields) ==
  /\ DOMAIN raw = Keys
  /\ \A key \in DOMAIN Table :
       raw[key] = IF key = "msg_timestamp" /\ Carries(fields, "fe", 5)
                    THEN None ELSE ReadIn(fields, key)
  /\ \A key \in DOMAIN PortFields : raw[key] = Port(fields, PortFields[key])
  /\ raw["exp_1_sn"] = SerialOf(fields)
  /\ \A key \in PackKeys \ {"exp_1_sn"} :
       raw[key] = PackChain(fields, SerialOf(fields))[key]
  /\ raw["dc_input_power_total"] = DcInput(fields)
  /\ raw["device_sn"] = String(fields, "a2", 1)
  /\ raw["device_pn"] = String(fields, "a2", 20)
  /\ raw["utc_timestamp"] =
       IF "fd" \in DOMAIN fields THEN Timestamp(fields["fd"]) ELSE None

LEMMA DecodeByKind ==
  ASSUME NEW fields
  PROVE  IsDecoded(Decode(fields), fields)
<1> DEFINE serial == SerialOf(fields)  chain == PackChain(fields, serial)
           raw == Decode(fields)
<1>1. raw = [key \in Keys |-> Read(fields, serial, chain, key)]
  BY DEF Decode, SerialOf
<1>2. DOMAIN chain = PackKeys \ {"exp_1_sn"}
  BY DEF PackChain, NoChain, ChainFrom, PackKeys
<1>3. "exp_1_sn" \in PackKeys
  BY DEF PackKeys
<1> HIDE DEF serial, chain, raw
<1>4. ASSUME NEW key \in DOMAIN Table
      PROVE  raw[key] = IF key = "msg_timestamp" /\ Carries(fields, "fe", 5)
                          THEN None ELSE ReadIn(fields, key)
  <2>1. /\ key \in Keys /\ key \notin DOMAIN PortFields /\ key \notin DOMAIN chain
        /\ key # "exp_1_sn" /\ key \notin OtherKeys
    BY <1>2, <1>3, KindsOfKeys
  <2>2. /\ key # "dc_input_power_total" /\ key # "device_sn" /\ key # "device_pn"
        /\ key # "utc_timestamp"
    BY <2>1 DEF OtherKeys
  <2>3. raw[key] = Read(fields, serial, chain, key)
    BY <1>1, <2>1
  <2>4. CASE key = "msg_timestamp" /\ Carries(fields, "fe", 5)
    BY <2>1, <2>2, <2>3, <2>4, Zenon DEF Read
  <2>5. CASE ~(key = "msg_timestamp" /\ Carries(fields, "fe", 5))
    <3>1. Read(fields, serial, chain, key) = ReadIn(fields, key)
      BY <2>1, <2>2, <2>5, Zenon DEF Read, ReadIn
    <3> QED BY <2>3, <2>5, <3>1
  <2> QED BY <2>4, <2>5
<1>5. ASSUME NEW key \in DOMAIN PortFields PROVE raw[key] = Port(fields, PortFields[key])
  <2>1. /\ key \in Keys /\ key \notin DOMAIN chain /\ key # "exp_1_sn" /\ key \notin OtherKeys
        /\ key # "msg_timestamp"
    BY <1>2, <1>3, KindsOfKeys
  <2>2. /\ key # "dc_input_power_total" /\ key # "device_sn" /\ key # "device_pn"
        /\ key # "utc_timestamp"
    BY <2>1 DEF OtherKeys
  <2>3. raw[key] = Read(fields, serial, chain, key)
    BY <1>1, <2>1
  <2> QED BY <2>1, <2>2, <2>3, Zenon DEF Read
<1>6. ASSUME NEW key \in PackKeys
      PROVE  raw[key] = IF key = "exp_1_sn" THEN serial ELSE chain[key]
  <2>1. /\ key \in Keys /\ key \notin DOMAIN PortFields /\ key \notin OtherKeys
        /\ key # "msg_timestamp"
    BY KindsOfKeys
  <2>2. /\ key # "dc_input_power_total" /\ key # "device_sn" /\ key # "device_pn"
        /\ key # "utc_timestamp"
    BY <2>1 DEF OtherKeys
  <2>3. raw[key] = Read(fields, serial, chain, key)
    BY <1>1, <2>1
  <2>4. CASE key = "exp_1_sn"
    <3>1. key \notin DOMAIN chain
      BY <1>2, <2>4
    <3> QED BY <2>1, <2>2, <2>3, <2>4, <3>1, Zenon DEF Read
  <2>5. CASE key # "exp_1_sn"
    <3>1. key \in DOMAIN chain
      BY <1>2, <2>5
    <3>2. Read(fields, serial, chain, key) = chain[key]
      BY <2>1, <2>2, <2>5, <3>1, Zenon DEF Read
    <3> QED BY <2>3, <2>5, <3>2
  <2> QED BY <2>4, <2>5
<1>7. ASSUME NEW key \in OtherKeys
      PROVE  /\ key \in Keys /\ key \notin DOMAIN PortFields /\ key \notin DOMAIN chain
             /\ key # "exp_1_sn" /\ key # "msg_timestamp"
             /\ raw[key] = Read(fields, serial, chain, key)
  <2>1. key \in Keys /\ key \notin DOMAIN PortFields /\ key \notin PackKeys
        /\ key # "msg_timestamp"
    BY KindsOfKeys
  <2> QED BY <1>1, <1>2, <1>3, <2>1
<1>8. raw["dc_input_power_total"] = DcInput(fields)
  <2>1. "dc_input_power_total" \in OtherKeys
    BY DEF OtherKeys
  <2> QED BY <1>7, <2>1, Zenon DEF Read
<1>9. raw["device_sn"] = String(fields, "a2", 1)
  <2>1. "device_sn" \in OtherKeys
    BY DEF OtherKeys
  <2> QED BY <1>7, <2>1, Zenon DEF Read
<1>10. raw["device_pn"] = String(fields, "a2", 20)
  <2>1. "device_pn" \in OtherKeys
    BY DEF OtherKeys
  <2> QED BY <1>7, <2>1, Zenon DEF Read
<1>11. raw["utc_timestamp"] =
       IF "fd" \in DOMAIN fields THEN Timestamp(fields["fd"]) ELSE None
  <2>1. "utc_timestamp" \in OtherKeys
    BY DEF OtherKeys
  <2> QED BY <1>7, <2>1, Zenon DEF Read
<1>12. DOMAIN raw = Keys
  BY <1>1
<1>13. /\ raw["exp_1_sn"] = serial
       /\ \A key \in PackKeys \ {"exp_1_sn"} : raw[key] = chain[key]
  BY <1>3, <1>6
<1> QED BY <1>4, <1>5, <1>8, <1>9, <1>10, <1>11, <1>12, <1>13, Zenon
        DEF IsDecoded, serial, chain, raw

-------------------------------------------------------------------------------
(* What is read of a message that lacks fields or carries some short.      *)

LEMMA SliceHeld ==
  ASSUME NEW w \in Seq(Byte), NEW offset \in Nat, NEW size \in Nat, offset + size <= Len(w)
  PROVE  LET p == SubSeq(w, offset + 1, offset + size)
         IN  p \in Seq(Byte) /\ Len(p) = size /\ Holds(w, offset, p)
<1> DEFINE p == SubSeq(w, offset + 1, offset + size)
<1>1. offset + 1 \in Int /\ offset + size \in Int
  OBVIOUS
<1>2. \A i \in offset + 1 .. offset + size : w[i] \in Byte
  <2> SUFFICES ASSUME NEW i \in offset + 1 .. offset + size PROVE w[i] \in Byte
    OBVIOUS
  <2>1. i \in 1 .. Len(w)
    OBVIOUS
  <2> QED BY <2>1, ElementOfSeq
<1>3. /\ p \in Seq(Byte)
      /\ Len(p) = IF offset + 1 <= offset + size THEN (offset + size) - (offset + 1) + 1 ELSE 0
      /\ \A i \in 1 .. (offset + size) - (offset + 1) + 1 : p[i] = w[(offset + 1) + i - 1]
  BY <1>1, <1>2, SubSeqProperties
<1> HIDE DEF p
<1>4. Len(p) = size
  BY <1>3
<1>5. ASSUME NEW i \in 1 .. Len(p) PROVE w[offset + i] = p[i]
  <2>1. i \in 1 .. (offset + size) - (offset + 1) + 1 /\ (offset + 1) + i - 1 = offset + i
    BY <1>4
  <2> QED BY <1>3, <2>1
<1>6. Holds(w, offset, p)
  BY <1>4, <1>5 DEF Holds
<1> QED BY <1>3, <1>4, <1>6 DEF p

(* A number is read whole or not at all, and from the right bytes.         *)
LEMMA NumberOfCut ==
  ASSUME NEW contents, NEW f, NEW w \in Seq(Byte),
         f \in DOMAIN contents => IsCutOf(contents[f], w),
         NEW offset \in Nat, NEW size \in Nat
  PROVE  LET n == Number(contents, f, offset, size)
         IN  /\ n # None => n = Some(SubSeq(w, offset + 1, offset + size))
                              /\ offset + size <= Len(w)
             /\ n # None <=> f \in DOMAIN contents /\ Len(contents[f]) >= offset + size
<1> DEFINE n == Number(contents, f, offset, size)  c == contents[f]
<1>1. CASE ~(f \in DOMAIN contents /\ Len(c) >= offset + size)
  BY <1>1 DEF Number, Carries, None
<1>2. CASE f \in DOMAIN contents /\ Len(c) >= offset + size
  <2>1. n = Some(SubSeq(c, offset + 1, offset + size))
    BY <1>2 DEF Number, Carries
  <2>2. IsCutOf(c, w)
    BY <1>2
  <2>3. c \in Seq(Byte) /\ Len(c) <= Len(w)
    BY <2>2 DEF IsCutOf
  <2> HIDE DEF c, n
  <2>4. offset + size <= Len(w)
    BY <1>2, <2>3
  <2> DEFINE p == SubSeq(w, offset + 1, offset + size)
  <2>5. p \in Seq(Byte) /\ Len(p) = size /\ Holds(w, offset, p)
    BY <2>4, SliceHeld
  <2> HIDE DEF p
  <2>6. Holds(c, offset, p)
    BY <1>2, <2>2, <2>3, <2>5, CutHolds
  <2>7. SubSeq(c, offset + 1, offset + size) = p
    BY <2>3, <2>5, <2>6, SliceIsPart
  <2>8. n = Some(p) /\ n # None
    BY <2>1, <2>7 DEF Some, None
  <2> QED BY <1>2, <2>4, <2>8 DEF n, p, c
<1> QED BY <1>1, <1>2

(* The same for a part of which the place is known.                        *)
LEMMA NumberOfPart ==
  ASSUME NEW contents, NEW f, NEW w \in Seq(Byte),
         f \in DOMAIN contents => IsCutOf(contents[f], w),
         NEW offset \in Nat, NEW p \in Seq(Byte), Holds(w, offset, p)
  PROVE  LET n == Number(contents, f, offset, Len(p))
         IN  n \in {None, Some(p)}
<1> DEFINE n == Number(contents, f, offset, Len(p))
<1>1. Len(p) \in Nat
  OBVIOUS
<1>2. n # None => n = Some(SubSeq(w, offset + 1, offset + Len(p)))
  BY <1>1, NumberOfCut
<1>3. SubSeq(w, offset + 1, offset + Len(p)) = p
  BY SliceIsPart
<1> HIDE DEF n
<1> QED BY <1>2, <1>3 DEF n

Setting(first, serial, whole, contents) ==
  /\ first \in {0, 4} /\ HasLayout(whole, first, serial) /\ Carried(contents, whole)

LEMMA CutOfField ==
  ASSUME NEW first, NEW serial, NEW whole, NEW contents,
         Setting(first, serial, whole, contents),
         NEW f \in DOMAIN Code \ {"c0"}
  PROVE  /\ whole[f] \in Seq(Byte) /\ f \in FieldsWith(serial)
         /\ Len(whole[f]) = WholeLen(f)
         /\ f \in DOMAIN contents => IsCutOf(contents[f], whole[f])
<1>1. f \in FieldsWith(serial)
  BY DEF FieldsWith
<1> QED BY <1>1 DEF Setting, HasLayout, Carried

(* The values at a fixed place.                                            *)
LEMMA TableRead ==
  ASSUME NEW first, NEW serial, NEW whole, NEW contents,
         Setting(first, serial, whole, contents),
         NEW raw, IsDecoded(raw, contents), NEW key \in DOMAIN Table
  PROVE  LET row == Table[key]
             w   == whole[row.field]
         IN  /\ raw[key] # None => raw[key] = Some(SubSeq(w, row.offset + 1, row.offset + row.size))
             /\ raw[key] # None => row.offset + row.size <= Len(w)
             /\ row.field \in DOMAIN contents /\ contents[row.field] = w => raw[key] # None
<1> DEFINE row == Table[key]  f == row.field  w == whole[f]
<1>1. /\ f \in DOMAIN Code \ {"a1", "a2", "c0", "fd"}
      /\ row.offset \in Nat /\ row.size \in 1 .. 4 /\ row.offset + row.size <= WholeLen(f)
  BY TableFitsFields DEF InField
<1>2. /\ w \in Seq(Byte) /\ Len(w) = WholeLen(f)
      /\ f \in DOMAIN contents => IsCutOf(contents[f], w)
  BY <1>1, CutOfField
<1>3. ~Carries(contents, "fe", 5)
  <2>1. "fe" \in DOMAIN Code \ {"c0"} /\ WholeLen("fe") = 4
    BY DEF Code, WholeLen, Width
  <2>2. "fe" \in DOMAIN contents => IsCutOf(contents["fe"], whole["fe"])
    BY <2>1, CutOfField
  <2>3. Len(whole["fe"]) = 4
    BY <2>1, CutOfField
  <2>4. "fe" \in DOMAIN contents => contents["fe"] \in Seq(Byte) /\ Len(contents["fe"]) <= 4
    BY <2>2, <2>3 DEF IsCutOf
  <2> QED BY <2>4 DEF Carries
<1>4. raw[key] = Number(contents, f, row.offset, row.size)
  BY <1>3 DEF IsDecoded, ReadIn
<1> HIDE DEF row, w
<1> DEFINE o == row.offset  z == row.size
<1>5. o \in Nat /\ z \in Nat /\ o + z <= Len(w)
  BY <1>1, <1>2
<1> HIDE DEF o, z
<1> DEFINE n == Number(contents, f, o, z)
<1>6. /\ n # None => n = Some(SubSeq(w, o + 1, o + z)) /\ o + z <= Len(w)
      /\ n # None <=> f \in DOMAIN contents /\ Len(contents[f]) >= o + z
  BY <1>2, <1>5, NumberOfCut
<1> HIDE DEF n
<1>7. f \in DOMAIN contents /\ contents[f] = w => n # None
  BY <1>5, <1>6
<1>8. raw[key] = n
  BY <1>4 DEF n, o, z
<1> QED BY <1>5, <1>6, <1>7, <1>8, Zenon DEF o, z, row, w

(* A port's status and power.                                              *)
LEMMA PortRead ==
  ASSUME NEW first, NEW serial, NEW whole, NEW contents,
         Setting(first, serial, whole, contents),
         NEW raw, IsDecoded(raw, contents), NEW key \in DOMAIN PortFields
  PROVE  LET f == PortFields[key]
         IN  /\ raw[key] # None => raw[key] = Some(SubSeq(whole[f], 1, 3))
             /\ f \in DOMAIN contents /\ contents[f] = whole[f] => raw[key] # None
             /\ whole[f] \in Seq(Byte) /\ Len(whole[f]) = 3
             /\ whole[f][1] = (first + Code[f]) % 5
<1> DEFINE f == PortFields[key]  w == whole[f]
<1>1. f \in DOMAIN Code \ {"a1", "a2", "c0", "fd"} /\ f \notin Unlike /\ WholeLen(f) = 3
  BY PortsInTable
<1>2. /\ w \in Seq(Byte) /\ Len(w) = 3 /\ f \in FieldsWith(serial)
      /\ f \in DOMAIN contents => IsCutOf(contents[f], w)
  BY <1>1, CutOfField
<1>3. w[1] = (first + Code[f]) % 5
  <2>1. f \in Range(PortFields)
    BY DEF Range
  <2>2. w[1] = FirstByte(f, first)
    BY <1>1, <1>2 DEF Setting, HasLayout
  <2> QED BY <2>1, <2>2 DEF FirstByte
<1>4. raw[key] = Port(contents, f)
  BY DEF IsDecoded
<1> HIDE DEF f, w
<1>5. Number(contents, f, 0, 1) # None <=> f \in DOMAIN contents /\ Len(contents[f]) >= 1
  <2>1. 0 \in Nat /\ 1 \in Nat
    OBVIOUS
  <2>2. Number(contents, f, 0, 1) # None <=> f \in DOMAIN contents /\ Len(contents[f]) >= 0 + 1
    BY <1>2, <2>1, NumberOfCut
  <2> QED BY <2>2
<1>6. Number(contents, f, 1, 2) # None <=> f \in DOMAIN contents /\ Len(contents[f]) >= 3
  <2>1. 1 \in Nat /\ 2 \in Nat
    OBVIOUS
  <2>2. Number(contents, f, 1, 2) # None <=> f \in DOMAIN contents /\ Len(contents[f]) >= 1 + 2
    BY <1>2, <2>1, NumberOfCut
  <2> QED BY <2>2
<1>7. Number(contents, f, 0, 3) # None => Number(contents, f, 0, 3) = Some(SubSeq(w, 1, 3))
  <2>1. 0 \in Nat /\ 3 \in Nat
    OBVIOUS
  <2>2. Number(contents, f, 0, 3) # None
          => Number(contents, f, 0, 3) = Some(SubSeq(w, 0 + 1, 0 + 3))
    BY <1>2, <2>1, NumberOfCut
  <2> QED BY <2>2
<1>8. raw[key] # None => raw[key] = Number(contents, f, 0, 3)
  BY <1>4, <1>6 DEF Port, Number, Carries
<1>9. f \in DOMAIN contents /\ contents[f] = w => raw[key] # None
  BY <1>2, <1>4, <1>5, <1>6 DEF Port, Some, None
<1>10. raw[key] # None => raw[key] = Some(SubSeq(w, 1, 3))
  BY <1>7, <1>8
<1> QED BY <1>2, <1>3, <1>9, <1>10 DEF f, w

(* What a value has from an offset on.                                     *)
LEMMA RestHeld ==
  ASSUME NEW w \in Seq(Byte), NEW k \in Nat, k <= Len(w)
  PROVE  LET p == SubSeq(w, k + 1, Len(w))
         IN  p \in Seq(Byte) /\ Len(p) = Len(w) - k /\ Holds(w, k, p)
<1>1. PICK size \in Nat : k + size = Len(w)
  <2>1. Len(w) - k \in Nat /\ k + (Len(w) - k) = Len(w)
    OBVIOUS
  <2> QED BY <2>1
<1> DEFINE p == SubSeq(w, k + 1, k + size)
<1>2. p \in Seq(Byte) /\ Len(p) = size /\ Holds(w, k, p)
  <2>1. k + size <= Len(w)
    BY <1>1
  <2> QED BY <2>1, SliceHeld
<1>3. p = SubSeq(w, k + 1, Len(w)) /\ size = Len(w) - k
  BY <1>1
<1> HIDE DEF p
<1> QED BY <1>2, <1>3

(* The digits of a time that is cut short are a beginning of its digits.   *)
LEMMA RestOfCut ==
  ASSUME NEW w \in Seq(Byte), NEW c, IsCutOf(c, w), NEW k \in Nat, k < Len(c)
  PROVE  IsPrefix(SubSeq(c, k + 1, Len(c)), SubSeq(w, k + 1, Len(w)))
<1> DEFINE s == SubSeq(c, k + 1, Len(c))  t == SubSeq(w, k + 1, Len(w))
<1>1. /\ c \in Seq(Byte) /\ Len(c) \in Nat /\ Len(w) \in Nat /\ Len(c) <= Len(w)
      /\ \A i \in 1 .. Len(c) : c[i] = w[i]
  BY DEF IsCutOf
<1>2. k <= Len(c) /\ k <= Len(w)
  BY <1>1
<1>3. s \in Seq(Byte) /\ Len(s) = Len(c) - k /\ Holds(c, k, s)
  BY <1>1, <1>2, RestHeld
<1>4. t \in Seq(Byte) /\ Len(t) = Len(w) - k /\ Holds(w, k, t)
  BY <1>1, <1>2, RestHeld
<1> HIDE DEF s, t
<1>5. Len(s) <= Len(t)
  BY <1>1, <1>3, <1>4
<1>6. \A i \in 1 .. Len(s) : t[i] = s[i]
  <2> SUFFICES ASSUME NEW i \in 1 .. Len(s) PROVE t[i] = s[i]
    OBVIOUS
  <2>1. i \in 1 .. Len(t) /\ k + i \in 1 .. Len(c)
    BY <1>1, <1>3, <1>4
  <2> QED BY <1>1, <1>3, <1>4, <2>1 DEF Holds
<1>7. Holds(t, 0, s)
  <2>1. \A i \in 1 .. Len(s) : 0 + i = i
    OBVIOUS
  <2> QED BY <1>3, <1>4, <1>5, <1>6, <2>1 DEF Holds
<1>8. SubSeq(t, 0 + 1, 0 + Len(s)) = s /\ SubSeq(s, 0 + 1, 0 + Len(s)) = s
  BY <1>3, <1>4, <1>7, HoldsItself, SliceIsPart
<1>9. 0 + 1 = 1 /\ 0 + Len(s) = Len(s)
  BY <1>3
<1>10. IsPrefix(s, t)
  BY <1>5, <1>8, <1>9 DEF IsPrefix
<1> QED BY <1>10 DEF s, t

LEMMA PaddingType == ASSUME NEW first PROVE Padding(first) \in {0, 1}
  BY DEF Padding

(* What parse makes of a time, or of the beginning of one.                 *)
LEMMA TimestampOfTime ==
  ASSUME NEW first, NEW text, IsTime(text, first)
  PROVE  LET k == Padding(first)
         IN  Timestamp(text) = IF Len(text) > k THEN Some(SubSeq(text, k + 1, Len(text)))
                                                ELSE None
<1> DEFINE k == Padding(first)  n == Len(text)  ink == {i \in DOMAIN text : text[i] \notin Blank}
           digits == SubSeq(text, k + 1, n)
<1>1. k \in {0, 1}
  BY PaddingType
<1>2. text \in Seq(Byte) /\ DOMAIN text = 1 .. n /\ n \in Nat /\ n >= 1
  BY DEF IsTime
<1>3. text[1] = IF k = 0 THEN 49 ELSE 32
  BY <1>1 DEF IsTime
<1> HIDE DEF k, n
<1>4. \A i \in k + 1 .. n : text[i] \in Digit
  <2> SUFFICES ASSUME NEW i \in k + 1 .. n PROVE text[i] \in Digit
    OBVIOUS
  <2>1. CASE i = 1
    <3>1. k = 0
      BY <1>1, <2>1
    <3> QED BY <1>3, <2>1, <3>1 DEF Digit
  <2>2. CASE i # 1
    <3>1. i \in 2 .. Len(text)
      BY <1>1, <1>2, <2>2 DEF n
    <3> QED BY <3>1 DEF IsTime
  <2> QED BY <2>1, <2>2
<1>5. ink = k + 1 .. n
  <2>1. \A i \in k + 1 .. n : i \in DOMAIN text /\ text[i] \notin Blank
    <3> SUFFICES ASSUME NEW i \in k + 1 .. n PROVE i \in DOMAIN text /\ text[i] \notin Blank
      OBVIOUS
    <3>1. i \in 1 .. n
      BY <1>1
    <3>2. text[i] \in 48 .. 57
      BY <1>4 DEF Digit
    <3> QED BY <1>2, <3>1, <3>2 DEF Blank
  <2>2. \A i \in DOMAIN text : i \notin k + 1 .. n => text[i] \in Blank
    <3> SUFFICES ASSUME NEW i \in 1 .. n, i \notin k + 1 .. n PROVE text[i] \in Blank
      BY <1>2
    <3>1. k = 1 /\ i = 1
      BY <1>1
    <3> QED BY <1>3, <3>1 DEF Blank
  <2> HIDE DEF k, n
  <2>3. k + 1 .. n \subseteq DOMAIN text
    BY <2>1
  <2> QED BY <2>1, <2>2, <2>3
<1>6. CASE n <= k
  <2>1. ink = {}
    BY <1>1, <1>2, <1>5, <1>6
  <2>2. Trim(text) = << >>
    BY <2>1 DEF Trim
  <2>3. Timestamp(text) = None
    BY <2>2 DEF Timestamp
  <2>4. ~(n > k)
    BY <1>1, <1>2, <1>6
  <2> QED BY <2>3, <2>4 DEF k, n
<1>7. CASE n > k
  <2>1. Min(ink) = k + 1 /\ Max(ink) = n
    <3> DEFINE S == k + 1 .. n
    <3>1. /\ k + 1 \in S /\ n \in S
          /\ \A y \in S : k + 1 <= y /\ n >= y
      BY <1>1, <1>2, <1>7
    <3>2. \A y \in S : y \in Int
      BY <1>1, <1>2
    <3> HIDE DEF S
    <3>3. Min(S) \in S /\ \A y \in S : Min(S) <= y
      <4>1. Min(S) = CHOOSE x \in S : \A y \in S : x <= y
        BY DEF Min
      <4>2. \E x \in S : \A y \in S : x <= y
        BY <3>1
      <4> QED BY <4>1, <4>2
    <3>4. Max(S) \in S /\ \A y \in S : Max(S) >= y
      <4>1. Max(S) = CHOOSE x \in S : \A y \in S : x >= y
        BY DEF Max
      <4>2. \E x \in S : \A y \in S : x >= y
        BY <3>1
      <4> QED BY <4>1, <4>2
    <3>5. Min(S) = k + 1
      BY <3>1, <3>2, <3>3
    <3>6. Max(S) = n
      BY <3>1, <3>2, <3>4
    <3> QED BY <1>5, <3>5, <3>6 DEF S
  <2>2. ink # {}
    <3>1. k + 1 \in k + 1 .. n
      BY <1>1, <1>2, <1>7
    <3> QED BY <1>5, <3>1
  <2>3. k \in Nat /\ k <= n /\ n - k >= 1
    BY <1>1, <1>2, <1>7
  <2>4. Trim(text) = digits
    BY <2>1, <2>2 DEF Trim
  <2>5. digits \in Seq(Byte) /\ Len(digits) = n - k /\ Holds(text, k, digits)
    BY <1>2, <2>3, RestHeld DEF n
  <2> HIDE DEF digits
  <2>6. \A i \in DOMAIN digits : digits[i] \in Digit
    <3> SUFFICES ASSUME NEW i \in 1 .. Len(digits) PROVE digits[i] \in Digit
      BY <2>5
    <3>1. k + i \in k + 1 .. n
      BY <1>1, <1>2, <2>5
    <3> QED BY <1>4, <2>5, <3>1 DEF Holds
  <2>7. digits # << >>
    BY <2>3, <2>5
  <2>8. Timestamp(text) = Some(digits)
    BY <2>4, <2>6, <2>7 DEF Timestamp
  <2> QED BY <1>7, <2>8 DEF k, n, digits
<1> QED BY <1>1, <1>2, <1>6, <1>7

SliceOf(whole, f, offset, size) == SubSeq(whole[f], offset + 1, offset + size)

(* The time the device means.                                              *)
TimeOf(whole, first) == SliceOf(whole, "fd", Padding(first), 13 - Padding(first))

LEMMA TimeRead ==
  ASSUME NEW first, NEW serial, NEW whole, NEW contents,
         Setting(first, serial, whole, contents),
         NEW t, t = IF "fd" \in DOMAIN contents THEN Timestamp(contents["fd"]) ELSE None
  PROVE  /\ t # None => /\ t = Some(t[1])
                        /\ IsPrefix(t[1], TimeOf(whole, first))
         /\ "fd" \in DOMAIN contents /\ contents["fd"] = whole["fd"] =>
              t = Some(TimeOf(whole, first))
<1> DEFINE k == Padding(first)  w == whole["fd"]  c == contents["fd"]
<1>1. k \in {0, 1}
  BY PaddingType
<1>2. /\ w \in Seq(Byte) /\ Len(w) = 13
      /\ "fd" \in DOMAIN contents => IsCutOf(c, w)
  <2>1. "fd" \in DOMAIN Code \ {"c0"}
    BY DEF Code
  <2>2. WholeLen("fd") = 13
    BY DEF WholeLen, Width
  <2> QED BY <2>1, <2>2, CutOfField
<1>3. TimeOf(whole, first) = SubSeq(w, k + 1, Len(w))
  <2>1. k + (13 - k) = 13
    BY <1>1
  <2> QED BY <1>2, <2>1 DEF TimeOf, SliceOf
<1>4. IsTime(w, first)
  BY DEF Setting, HasLayout
<1> HIDE DEF w, c
<1>5. CASE "fd" \in DOMAIN contents
  <2>1. IsTime(c, first)
    BY <1>2, <1>4, <1>5 DEF IsTime, IsCutOf
  <2>2. t = IF Len(c) > k THEN Some(SubSeq(c, k + 1, Len(c))) ELSE None
    BY <1>5, <2>1, TimestampOfTime DEF c
  <2> HIDE DEF k
  <2>3. Len(c) > k => IsPrefix(SubSeq(c, k + 1, Len(c)), SubSeq(w, k + 1, Len(w)))
    <3>1. Len(c) \in Nat /\ k \in Nat /\ (Len(c) > k => k < Len(c))
      BY <1>1, <1>2, <1>5 DEF IsCutOf
    <3> QED BY <1>2, <1>5, <3>1, RestOfCut
  <2>4. ASSUME c = w PROVE Len(c) > k
    <3>1. Len(c) = 13 /\ (k = 0 \/ k = 1)
      BY <1>1, <1>2, <2>4
    <3> QED BY <3>1
  <2>5. t # None => t = Some(t[1]) /\ IsPrefix(t[1], TimeOf(whole, first))
    <3> DEFINE p == SubSeq(c, k + 1, Len(c))
    <3>1. /\ t = IF Len(c) > k THEN Some(p) ELSE None
          /\ Len(c) > k => IsPrefix(p, TimeOf(whole, first))
      BY <1>3, <2>2, <2>3
    <3>2. Some(p)[1] = p
      BY DEF Some
    <3> HIDE DEF p
    <3> QED BY <3>1, <3>2
  <2>6. c = w => t = Some(TimeOf(whole, first))
    BY <1>3, <2>2, <2>4
  <2> QED BY <2>5, <2>6 DEF c, w
<1>6. CASE "fd" \notin DOMAIN contents
  BY <1>6
<1> QED BY <1>5, <1>6

(* The device's own strings, the input power that is sent twice, the time. *)
LEMMA OtherRead ==
  ASSUME NEW first, NEW serial, NEW whole, NEW contents,
         Setting(first, serial, whole, contents),
         NEW raw, IsDecoded(raw, contents)
  PROVE  /\ raw["device_sn"] \in {None, Some(Marks("a2", 2, 17))}
         /\ raw["device_pn"] \in {None, Some(Marks("a2", 4, 5))}
         /\ "a2" \in DOMAIN contents /\ contents["a2"] = whole["a2"] =>
              raw["device_sn"] # None /\ raw["device_pn"] # None
         /\ raw["dc_input_power_total"] \in {None, Some(DcPower)}
         /\ Carries(contents, "a6", 6) \/ Carries(contents, "a8", 3) =>
              raw["dc_input_power_total"] # None
         /\ raw["utc_timestamp"] # None =>
              /\ raw["utc_timestamp"] = Some(raw["utc_timestamp"][1])
              /\ IsPrefix(raw["utc_timestamp"][1], TimeOf(whole, first))
         /\ "fd" \in DOMAIN contents /\ contents["fd"] = whole["fd"] =>
              raw["utc_timestamp"] = Some(TimeOf(whole, first))
<1>1. \A f \in {"a2", "a6", "a8"} : f \in DOMAIN Code \ {"c0"}
  BY DEF Code
<1>2. \A f \in {"a2", "a6", "a8"} : /\ whole[f] \in Seq(Byte) /\ Len(whole[f]) = WholeLen(f)
                                    /\ f \in DOMAIN contents => IsCutOf(contents[f], whole[f])
  BY <1>1, CutOfField
<1>3. /\ Holds(whole["a2"], 1, Self(Marks("a2", 2, 17)))
      /\ Holds(whole["a2"], 20, Self(Marks("a2", 4, 5)))
      /\ Holds(whole["a6"], 4, DcPower) /\ Holds(whole["a8"], 1, DcPower)
  BY DEF Setting, HasLayout
<1>4. ASSUME NEW offset \in Nat, NEW p \in Seq(Byte), Len(p) \in Byte,
             Holds(whole["a2"], offset, Self(p)), offset + 1 + Len(p) <= 32
      PROVE  /\ String(contents, "a2", offset) \in {None, Some(p)}
             /\ "a2" \in DOMAIN contents /\ contents["a2"] = whole["a2"]
                  => String(contents, "a2", offset) # None
  <2> DEFINE c == contents["a2"]  w == whole["a2"]  s == StrSelfLen(c, offset)
  <2>1. w \in Seq(Byte) /\ Len(w) = 32 /\ ("a2" \in DOMAIN contents => IsCutOf(c, w))
    BY <1>2 DEF WholeLen
  <2>2. String(contents, "a2", offset) = IF "a2" \in DOMAIN contents THEN s ELSE None
    BY DEF String
  <2> HIDE DEF c, w, s
  <2>3. ASSUME "a2" \in DOMAIN contents
        PROVE  s \in {None, Some(p)} /\ (c = w => s # None)
    <3>1. /\ StrSelfLen(c, offset) \in {None, Some(p)}
          /\ offset + 1 + Len(p) <= Len(c) => StrSelfLen(c, offset) = Some(p)
      BY <1>4, <2>1, <2>3, StringOfCut DEF w
    <3>2. c = w => offset + 1 + Len(p) <= Len(c)
      BY <1>4, <2>1
    <3>3. s = StrSelfLen(c, offset) /\ Some(p) # None
      BY DEF s, Some, None
    <3> QED BY <3>1, <3>2, <3>3
  <2>4. CASE "a2" \in DOMAIN contents
    BY <2>2, <2>3, <2>4 DEF c, w
  <2>5. CASE "a2" \notin DOMAIN contents
    BY <2>2, <2>5
  <2> QED BY <2>4, <2>5
<1> DEFINE sn == Marks("a2", 2, 17)  pn == Marks("a2", 4, 5)
<1>5. /\ sn \in Seq(Byte) /\ Len(sn) = 17 /\ Len(sn) \in Byte
      /\ pn \in Seq(Byte) /\ Len(pn) = 5 /\ Len(pn) \in Byte
  <2>1. "a2" \in DOMAIN Code /\ 17 \in Byte /\ 5 \in Byte
    BY <1>1, BytesAreBytes
  <2>2. sn \in Seq(Byte) /\ Len(sn) = 17 /\ pn \in Seq(Byte) /\ Len(pn) = 5
    BY <2>1, MarksAreBytes
  <2> QED BY <2>1, <2>2
<1> HIDE DEF sn, pn
<1>6. /\ raw["device_sn"] \in {None, Some(sn)}
      /\ "a2" \in DOMAIN contents /\ contents["a2"] = whole["a2"] => raw["device_sn"] # None
  <2>1. 1 \in Nat /\ 1 + 1 + Len(sn) <= 32
    <3>1. 1 + 1 + 17 <= 32
      OBVIOUS
    <3> QED BY <1>5, <3>1
  <2>3. Holds(whole["a2"], 1, Self(sn))
    BY <1>3 DEF sn
  <2>2. raw["device_sn"] = String(contents, "a2", 1)
    BY DEF IsDecoded
  <2> QED BY <1>4, <1>5, <2>1, <2>2, <2>3
<1>7. /\ raw["device_pn"] \in {None, Some(pn)}
      /\ "a2" \in DOMAIN contents /\ contents["a2"] = whole["a2"] => raw["device_pn"] # None
  <2>1. 20 \in Nat /\ 20 + 1 + Len(pn) <= 32
    <3>1. 20 + 1 + 5 <= 32
      OBVIOUS
    <3> QED BY <1>5, <3>1
  <2>3. Holds(whole["a2"], 20, Self(pn))
    BY <1>3 DEF pn
  <2>2. raw["device_pn"] = String(contents, "a2", 20)
    BY DEF IsDecoded
  <2> QED BY <1>4, <1>5, <2>1, <2>2, <2>3
<1>8. DcPower \in Seq(Byte) /\ Len(DcPower) = 2
  BY DcPowerTwice
<1> DEFINE a == Number(contents, "a6", 4, 2)  b == Number(contents, "a8", 1, 2)
<1>9. /\ a \in {None, Some(DcPower)}
      /\ a # None <=> Carries(contents, "a6", 6)
  <2>1. 4 \in Nat /\ 2 \in Nat /\ 1 \in Nat
    OBVIOUS
  <2>2. Number(contents, "a6", 4, Len(DcPower)) \in {None, Some(DcPower)}
    BY <1>2, <1>3, <1>8, <2>1, NumberOfPart
  <2>3. a # None <=> "a6" \in DOMAIN contents /\ Len(contents["a6"]) >= 4 + 2
    BY <1>2, <2>1, NumberOfCut
  <2> QED BY <1>8, <2>2, <2>3 DEF Carries
<1>10. /\ b \in {None, Some(DcPower)}
       /\ b # None <=> Carries(contents, "a8", 3)
  <2>1. 4 \in Nat /\ 2 \in Nat /\ 1 \in Nat
    OBVIOUS
  <2>2. Number(contents, "a8", 1, Len(DcPower)) \in {None, Some(DcPower)}
    BY <1>2, <1>3, <1>8, <2>1, NumberOfPart
  <2>3. b # None <=> "a8" \in DOMAIN contents /\ Len(contents["a8"]) >= 1 + 2
    BY <1>2, <2>1, NumberOfCut
  <2> QED BY <1>8, <2>2, <2>3 DEF Carries
<1>11. raw["dc_input_power_total"] = IF a # None THEN a ELSE b
  BY DEF IsDecoded, DcInput
<1> HIDE DEF a, b
<1>12. /\ raw["dc_input_power_total"] \in {None, Some(DcPower)}
       /\ Carries(contents, "a6", 6) \/ Carries(contents, "a8", 3) =>
            raw["dc_input_power_total"] # None
  BY <1>9, <1>10, <1>11
<1>13. raw["utc_timestamp"] =
         IF "fd" \in DOMAIN contents THEN Timestamp(contents["fd"]) ELSE None
  BY DEF IsDecoded
<1>14. /\ raw["utc_timestamp"] # None =>
            /\ raw["utc_timestamp"] = Some(raw["utc_timestamp"][1])
            /\ IsPrefix(raw["utc_timestamp"][1], TimeOf(whole, first))
       /\ "fd" \in DOMAIN contents /\ contents["fd"] = whole["fd"] =>
            raw["utc_timestamp"] = Some(TimeOf(whole, first))
  BY <1>13, TimeRead
<1> QED BY <1>6, <1>7, <1>12, <1>14 DEF sn, pn

(* What the status has of a pack, along the chain of c0.                   *)
PackValue(serial) ==
  [exp_1_sn          |-> Marks("c0", 1, serial),
   exp_1_temperature |-> Marks("c0", 3, 1),
   exp_1_soc         |-> Marks("c0", 5, 1),
   exp_1_type        |-> Marks("c0", 7, 2)]

LEMMA PackRead ==
  ASSUME NEW first, NEW serial, NEW whole, NEW contents,
         Setting(first, serial, whole, contents),
         NEW raw, IsDecoded(raw, contents), NEW key \in PackKeys
  PROVE  /\ raw[key] # None => "c0" \in FieldsWith(serial)
                                 /\ raw[key] = Some(PackValue(serial)[key])
         /\ "c0" \in DOMAIN contents /\ contents["c0"] = whole["c0"] => raw[key] # None
<1> DEFINE c == contents["c0"]  w == whole["c0"]
           sn == Marks("c0", 1, serial)  temp == Marks("c0", 3, 1)
           soc == Marks("c0", 5, 1)  type == Marks("c0", 7, 2)
           read == SerialOf(contents)  chain == PackChain(contents, read)
<1>1. /\ raw["exp_1_sn"] = read
      /\ \A k \in PackKeys \ {"exp_1_sn"} : raw[k] = chain[k]
  BY DEF IsDecoded
<1>2. read = IF "c0" \in DOMAIN contents THEN StrSelfLen(c, 0) ELSE None
  BY DEF SerialOf, String
<1>3. CASE "c0" \notin DOMAIN contents
  <2>1. read = None
    BY <1>2, <1>3
  <2>2. \A k \in PackKeys \ {"exp_1_sn"} : chain[k] = None
    BY <2>1 DEF PackChain, NoChain
  <2>3. raw[key] = None
    BY <1>1, <2>1, <2>2
  <2> QED BY <1>3, <2>3
<1>4. CASE "c0" \in DOMAIN contents
  <2>1. /\ "c0" \in FieldsWith(serial) /\ serial \in 1 .. 100 /\ HasPackParts(w, serial)
        /\ IsCutOf(c, w)
    BY <1>4 DEF Setting, HasLayout, Carried
  <2> HIDE DEF c, w
  <2>2. /\ w \in Seq(Byte) /\ Len(w) = 18 + serial
        /\ Holds(w, 0, Self(sn)) /\ Holds(w, serial + 6, temp)
        /\ Holds(w, serial + 8, soc) /\ Holds(w, serial + 15, Self(type))
    BY <2>1 DEF HasPackParts
  <2>3. c \in Seq(Byte) /\ Len(c) \in Nat
    BY <2>1 DEF IsCutOf
  <2>4. /\ sn \in Seq(Byte) /\ Len(sn) = serial /\ temp \in Seq(Byte) /\ Len(temp) = 1
        /\ soc \in Seq(Byte) /\ Len(soc) = 1 /\ type \in Seq(Byte) /\ Len(type) = 2
    <3>1. "c0" \in DOMAIN Code /\ serial \in Nat
      BY <2>1 DEF Code
    <3> QED BY <3>1, MarksAreBytes
  <2>5. Len(sn) \in Byte /\ Len(type) \in Byte /\ serial \in Nat
    <3>1. serial \in Byte /\ 2 \in Byte /\ serial \in Nat
      BY <2>1, BytesAreBytes
    <3>2. Len(sn) = serial /\ Len(type) = 2
      BY <2>4
    <3> QED BY <3>1, <3>2
  <2> HIDE DEF sn, temp, soc, type
  <2>6. /\ StrSelfLen(c, 0) \in {None, Some(sn)}
        /\ 0 + 1 + Len(sn) <= Len(c) => StrSelfLen(c, 0) = Some(sn)
    <3>1. 0 \in Nat
      OBVIOUS
    <3> QED BY <2>1, <2>2, <2>4, <2>5, <3>1, StringOfCut
  <2>7. read = StrSelfLen(c, 0)
    BY <1>2, <1>4
  <2> HIDE DEF read
  <2>8. c = w => read # None
    <3>1. c = w => 0 + 1 + Len(sn) <= Len(c)
      BY <2>2, <2>4, <2>5
    <3> QED BY <2>6, <2>7, <3>1 DEF Some, None
  <2>9. CASE read = None
    <3>1. \A k \in PackKeys \ {"exp_1_sn"} : chain[k] = None
      BY <2>9 DEF PackChain, NoChain
    <3>2. raw[key] = None
      BY <1>1, <2>9, <3>1
    <3> QED BY <2>8, <2>9, <3>2 DEF c, w
  <2>10. CASE read # None
    <3>1. read = Some(sn) /\ 1 + Len(read[1]) = 1 + serial
      BY <2>4, <2>6, <2>7, <2>10 DEF Some
    <3> DEFINE pos == 1 + serial
    <3>2. chain = ChainFrom(contents, pos)
      BY <2>10, <3>1 DEF PackChain
    <3> DEFINE t == Number(contents, "c0", pos + 5, 1)
               s == Number(contents, "c0", pos + 7, 1)
               y == StrSelfLen(c, pos + 14)
    <3>3. /\ chain["exp_1_temperature"] = t /\ chain["exp_1_soc"] = s
          /\ chain["exp_1_type"] = y
      BY <3>2 DEF ChainFrom, c
    <3>4. pos + 5 = serial + 6 /\ pos + 7 = serial + 8 /\ pos + 14 = serial + 15
          /\ serial + 6 \in Nat /\ serial + 8 \in Nat /\ serial + 15 \in Nat
      BY <2>5
    <3>5. "c0" \in DOMAIN contents => IsCutOf(contents["c0"], w)
      BY <2>1 DEF c
    <3>6. t \in {None, Some(temp)} /\ (c = w => t # None)
      <4>1. Number(contents, "c0", serial + 6, Len(temp)) \in {None, Some(temp)}
        BY <2>2, <2>4, <3>4, <3>5, NumberOfPart
      <4>2. 1 \in Nat
        OBVIOUS
      <4>3. Number(contents, "c0", serial + 6, 1) # None
              <=> "c0" \in DOMAIN contents /\ Len(contents["c0"]) >= serial + 6 + 1
        BY <2>2, <3>4, <3>5, <4>2, NumberOfCut
      <4>4. c = w => Len(contents["c0"]) >= serial + 6 + 1
        BY <2>2, <2>5 DEF c
      <4> QED BY <1>4, <2>4, <3>4, <4>1, <4>3, <4>4
    <3>7. s \in {None, Some(soc)} /\ (c = w => s # None)
      <4>1. Number(contents, "c0", serial + 8, Len(soc)) \in {None, Some(soc)}
        BY <2>2, <2>4, <3>4, <3>5, NumberOfPart
      <4>2. 1 \in Nat
        OBVIOUS
      <4>3. Number(contents, "c0", serial + 8, 1) # None
              <=> "c0" \in DOMAIN contents /\ Len(contents["c0"]) >= serial + 8 + 1
        BY <2>2, <3>4, <3>5, <4>2, NumberOfCut
      <4>4. c = w => Len(contents["c0"]) >= serial + 8 + 1
        BY <2>2, <2>5 DEF c
      <4> QED BY <1>4, <2>4, <3>4, <4>1, <4>3, <4>4
    <3>8. y \in {None, Some(type)} /\ (c = w => y # None)
      <4>1. /\ StrSelfLen(c, serial + 15) \in {None, Some(type)}
            /\ serial + 15 + 1 + Len(type) <= Len(c) => StrSelfLen(c, serial + 15) = Some(type)
        <5> DEFINE place == serial + 15
        <5>1. place \in Nat /\ Holds(w, place, Self(type))
          BY <2>2, <3>4
        <5> HIDE DEF place
        <5>2. /\ StrSelfLen(c, place) \in {None, Some(type)}
              /\ place + 1 + Len(type) <= Len(c) => StrSelfLen(c, place) = Some(type)
          BY <2>1, <2>2, <2>4, <2>5, <5>1, StringOfCut
        <5> QED BY <5>2 DEF place
      <4>2. c = w => serial + 15 + 1 + Len(type) <= Len(c)
        BY <2>2, <2>4, <2>5
      <4>3. Some(type) # None
        BY DEF Some, None
      <4>4. y = StrSelfLen(c, serial + 15)
        BY <3>4
      <4> HIDE DEF y
      <4> QED BY <4>1, <4>2, <4>3, <4>4
    <3> HIDE DEF t, s, y, chain
    <3>9. /\ PackKeys = {"exp_1_sn", "exp_1_temperature", "exp_1_soc", "exp_1_type"}
          /\ PackValue(serial)["exp_1_sn"] = sn /\ PackValue(serial)["exp_1_temperature"] = temp
          /\ PackValue(serial)["exp_1_soc"] = soc /\ PackValue(serial)["exp_1_type"] = type
      BY DEF PackKeys, PackValue, sn, temp, soc, type
    <3>10. CASE key = "exp_1_sn"
      BY <1>1, <2>1, <2>10, <3>1, <3>9, <3>10
    <3>11. CASE key = "exp_1_temperature"
      <4>1. raw[key] = t
        BY <1>1, <3>3, <3>9, <3>11
      <4> QED BY <2>1, <3>6, <3>9, <3>11, <4>1 DEF c, w
    <3>12. CASE key = "exp_1_soc"
      <4>1. raw[key] = s
        BY <1>1, <3>3, <3>9, <3>12
      <4> QED BY <2>1, <3>7, <3>9, <3>12, <4>1 DEF c, w
    <3>13. CASE key = "exp_1_type"
      <4>1. raw[key] = y
        BY <1>1, <3>3, <3>9, <3>13
      <4> QED BY <2>1, <3>8, <3>9, <3>13, <4>1 DEF c, w
    <3> QED BY <3>9, <3>10, <3>11, <3>12, <3>13
  <2> QED BY <2>9, <2>10
<1> QED BY <1>3, <1>4

-------------------------------------------------------------------------------
(* What the device means, and what the domain types make of the bytes, by  *)
(* the kind of the key.                                                    *)

LEMMA TypedByKind ==
  ASSUME NEW bytes
  PROVE  /\ \A key \in Switches : Typed(key, bytes) = OnOff(bytes[1])
         /\ Typed("temp_unit_fahrenheit", bytes) = TempUnit(bytes[1])
         /\ \A key \in DOMAIN Table : key \notin Switches /\ key # "temp_unit_fahrenheit"
              => Typed(key, bytes) = bytes
         /\ \A key \in DOMAIN PortFields :
              Typed(key, bytes) = [status |-> PortStatus(bytes[1]), power |-> Tail(bytes)]
         /\ \A key \in PackKeys \cup OtherKeys : Typed(key, bytes) = bytes
<1>1. \A key \in DOMAIN Table : key \notin DOMAIN PortFields
  BY KindsOfKeys
<1>2. \A key \in PackKeys \cup OtherKeys :
        key \notin DOMAIN PortFields /\ key \notin DOMAIN Table
  BY KindsOfKeys
<1>3. \A key \in Switches : key \in DOMAIN Table
  BY KindsOfKeys
<1>4. \A key \in PackKeys \cup OtherKeys :
        key \notin Switches /\ key # "temp_unit_fahrenheit"
  BY <1>2, <1>3, KindsOfKeys
<1>5. ASSUME NEW key \in Switches PROVE Typed(key, bytes) = OnOff(bytes[1])
  <2>1. key \notin DOMAIN PortFields /\ key # "temp_unit_fahrenheit"
    BY <1>1, <1>3, KindsOfKeys
  <2> QED BY <2>1, <1>5, Zenon DEF Typed
<1>6. Typed("temp_unit_fahrenheit", bytes) = TempUnit(bytes[1])
  <2>1. /\ "temp_unit_fahrenheit" \notin DOMAIN PortFields
        /\ "temp_unit_fahrenheit" \notin Switches
    BY <1>1, KindsOfKeys
  <2> QED BY <2>1, Zenon DEF Typed
<1>7. ASSUME NEW key \in DOMAIN Table, key \notin Switches, key # "temp_unit_fahrenheit"
      PROVE  Typed(key, bytes) = bytes
  <2>1. key \notin DOMAIN PortFields
    BY <1>1
  <2> QED BY <2>1, <1>7, Zenon DEF Typed
<1>8. ASSUME NEW key \in DOMAIN PortFields
      PROVE  Typed(key, bytes) = [status |-> PortStatus(bytes[1]), power |-> Tail(bytes)]
  <2>1. key \notin Switches /\ key # "temp_unit_fahrenheit"
    BY <1>1, <1>3, KindsOfKeys
  <2> QED BY <1>8, <2>1, Zenon DEF Typed
<1>9. ASSUME NEW key \in PackKeys \cup OtherKeys PROVE Typed(key, bytes) = bytes
  <2>1. key \notin DOMAIN PortFields /\ key \notin Switches /\ key # "temp_unit_fahrenheit"
    BY <1>2, <1>4
  <2> QED BY <2>1, Zenon DEF Typed
<1> QED BY <1>5, <1>6, <1>7, <1>8, <1>9

Meanings == << <<"Idle">>, <<"Discharging">>, <<"Charging">>,
               <<"Unknown", 3>>, <<"Unknown", 4>> >>

(* The values of a report, in whole, by the kind of their key.             *)
IsMeant(truth, first, whole, serial) ==
  /\ DOMAIN truth = Keys \ (IF serial = NoPack THEN PackKeys ELSE {})
  /\ \A key \in Switches :
       truth[key] = IF SliceOf(whole, Table[key].field, Table[key].offset, 1) = <<0>>
                      THEN "Off" ELSE "On"
  /\ truth["temp_unit_fahrenheit"] = "Fahrenheit"
  /\ \A key \in DOMAIN Table : key \notin Switches /\ key # "temp_unit_fahrenheit" =>
       truth[key] = SliceOf(whole, Table[key].field, Table[key].offset, Table[key].size)
  /\ \A key \in DOMAIN PortFields :
       truth[key] = [status |-> Meanings[whole[PortFields[key]][1] + 1],
                     power  |-> SliceOf(whole, PortFields[key], 1, 2)]
  /\ serial # NoPack => \A key \in PackKeys : truth[key] = PackValue(serial)[key]
  /\ truth["dc_input_power_total"] = DcPower
  /\ truth["device_sn"] = Marks("a2", 2, 17)
  /\ truth["device_pn"] = Marks("a2", 4, 5)
  /\ truth["utc_timestamp"] = TimeOf(whole, first)

Meant(first, whole, serial, key) ==
  CASE key = "device_sn"            -> Marks("a2", 2, 17)
    [] key = "device_pn"            -> Marks("a2", 4, 5)
    [] key = "dc_input_power_total" -> DcPower
    [] key = "exp_1_sn"             -> Marks("c0", 1, serial)
    [] key = "exp_1_temperature"    -> Marks("c0", 3, 1)
    [] key = "exp_1_soc"            -> Marks("c0", 5, 1)
    [] key = "exp_1_type"           -> Marks("c0", 7, 2)
    [] key = "utc_timestamp"        -> TimeOf(whole, first)
    [] key \in Switches             ->
         IF SliceOf(whole, Table[key].field, Table[key].offset, 1) = <<0>> THEN "Off" ELSE "On"
    [] key = "temp_unit_fahrenheit" -> "Fahrenheit"
    [] key \in DOMAIN PortFields    ->
         [status |-> Meanings[whole[PortFields[key]][1] + 1],
          power  |-> SliceOf(whole, PortFields[key], 1, 2)]
    [] OTHER -> SliceOf(whole, Table[key].field, Table[key].offset, Table[key].size)

LEMMA TruthIsMeant ==
  ASSUME NEW first, NEW serial
  PROVE  Truth(first, serial) =
           [key \in Keys \ (IF serial = NoPack THEN PackKeys ELSE {}) |->
              Meant(first, Whole(first, serial), serial, key)]
BY Zenon DEF Truth, Meant, SliceOf, TimeOf, Meanings

LEMMA TruthByKind ==
  ASSUME NEW first, NEW serial
  PROVE  IsMeant(Truth(first, serial), first, Whole(first, serial), serial)
<1> DEFINE truth == Truth(first, serial)  w == Whole(first, serial)
           keys == Keys \ (IF serial = NoPack THEN PackKeys ELSE {})
<1>1. truth = [key \in keys |-> Meant(first, w, serial, key)]
  BY TruthIsMeant
<1> HIDE DEF truth, w
<1>2. \A key \in Keys : key \notin PackKeys => key \in keys
  OBVIOUS
<1> DEFINE Named == {"device_sn", "device_pn", "dc_input_power_total", "utc_timestamp",
                     "exp_1_sn", "exp_1_temperature", "exp_1_soc", "exp_1_type"}
<1>3. Named = PackKeys \cup OtherKeys
  BY DEF PackKeys, OtherKeys
<1>4. /\ \A key \in DOMAIN Table : key \in keys /\ key \notin Named
      /\ \A key \in DOMAIN PortFields : key \in keys /\ key \notin Named /\ key \notin DOMAIN Table
      /\ \A key \in OtherKeys : key \in keys
      /\ \A key \in Named : key \notin DOMAIN Table /\ key \notin DOMAIN PortFields
  BY <1>2, <1>3, KindsOfKeys
<1>5. \A key : key \notin Named =>
        /\ key # "device_sn" /\ key # "device_pn" /\ key # "dc_input_power_total"
        /\ key # "utc_timestamp" /\ key # "exp_1_sn" /\ key # "exp_1_temperature"
        /\ key # "exp_1_soc" /\ key # "exp_1_type"
  OBVIOUS
<1>6. \A key \in Switches : key \in DOMAIN Table /\ key # "temp_unit_fahrenheit"
  BY KindsOfKeys
<1>7. "temp_unit_fahrenheit" \in DOMAIN Table /\ "temp_unit_fahrenheit" \notin Switches
  BY KindsOfKeys
<1> HIDE DEF keys, Named
<1>8. ASSUME NEW key \in Switches
      PROVE  truth[key] = IF SliceOf(w, Table[key].field, Table[key].offset, 1) = <<0>>
                            THEN "Off" ELSE "On"
  <2>1. /\ key \in keys /\ key \notin Named /\ key \notin DOMAIN PortFields
        /\ key # "temp_unit_fahrenheit"
    BY <1>4, <1>6
  <2>2. truth[key] = Meant(first, w, serial, key)
    BY <1>1, <2>1
  <2>3. /\ key # "device_sn" /\ key # "device_pn" /\ key # "dc_input_power_total"
        /\ key # "utc_timestamp" /\ key # "exp_1_sn" /\ key # "exp_1_temperature"
        /\ key # "exp_1_soc" /\ key # "exp_1_type"
    BY <1>5, <2>1
  <2> QED BY <1>8, <2>1, <2>2, <2>3, Zenon DEF Meant
<1>9. truth["temp_unit_fahrenheit"] = "Fahrenheit"
  <2> DEFINE key == "temp_unit_fahrenheit"
  <2>1. key \in keys /\ key \notin Named /\ key \notin DOMAIN PortFields
    BY <1>4, <1>7
  <2>2. truth[key] = Meant(first, w, serial, key)
    BY <1>1, <2>1
  <2>3. /\ key # "device_sn" /\ key # "device_pn" /\ key # "dc_input_power_total"
        /\ key # "utc_timestamp" /\ key # "exp_1_sn" /\ key # "exp_1_temperature"
        /\ key # "exp_1_soc" /\ key # "exp_1_type"
    BY <1>5, <2>1
  <2> QED BY <1>7, <2>1, <2>2, <2>3, Zenon DEF Meant
<1>10. ASSUME NEW key \in DOMAIN Table, key \notin Switches, key # "temp_unit_fahrenheit"
       PROVE  truth[key] = SliceOf(w, Table[key].field, Table[key].offset, Table[key].size)
  <2>1. key \in keys /\ key \notin Named /\ key \notin DOMAIN PortFields
    BY <1>4
  <2>2. truth[key] = Meant(first, w, serial, key)
    BY <1>1, <2>1
  <2>3. /\ key # "device_sn" /\ key # "device_pn" /\ key # "dc_input_power_total"
        /\ key # "utc_timestamp" /\ key # "exp_1_sn" /\ key # "exp_1_temperature"
        /\ key # "exp_1_soc" /\ key # "exp_1_type"
    BY <1>5, <2>1
  <2> QED BY <1>10, <2>1, <2>2, <2>3, Zenon DEF Meant
<1>11. ASSUME NEW key \in DOMAIN PortFields
       PROVE  truth[key] = [status |-> Meanings[w[PortFields[key]][1] + 1],
                            power  |-> SliceOf(w, PortFields[key], 1, 2)]
  <2>1. /\ key \in keys /\ key \notin Named /\ key \notin Switches
        /\ key # "temp_unit_fahrenheit"
    BY <1>4, <1>6, <1>7
  <2>2. truth[key] = Meant(first, w, serial, key)
    BY <1>1, <2>1
  <2>3. /\ key # "device_sn" /\ key # "device_pn" /\ key # "dc_input_power_total"
        /\ key # "utc_timestamp" /\ key # "exp_1_sn" /\ key # "exp_1_temperature"
        /\ key # "exp_1_soc" /\ key # "exp_1_type"
    BY <1>5, <2>1
  <2> QED BY <1>11, <2>1, <2>2, <2>3, Zenon DEF Meant
<1>12. ASSUME serial # NoPack, NEW key \in PackKeys
       PROVE  truth[key] = PackValue(serial)[key]
  <2>1. key \in keys
    BY <1>12, KindsOfKeys DEF keys
  <2>2. truth[key] = Meant(first, w, serial, key)
    BY <1>1, <2>1
  <2>3. /\ key \notin DOMAIN PortFields /\ key \notin Switches
        /\ key # "temp_unit_fahrenheit"
    BY <1>3, <1>4, <1>6, <1>7 DEF Named
  <2>4. Meant(first, w, serial, key) = PackValue(serial)[key]
    <3>1. CASE key = "exp_1_sn"
      <4>1. Meant(first, w, serial, "exp_1_sn") = Marks("c0", 1, serial)
        BY <2>3, <3>1, Zenon DEF Meant
      <4> QED BY <3>1, <4>1 DEF PackValue
    <3>2. CASE key = "exp_1_temperature"
      <4>1. Meant(first, w, serial, "exp_1_temperature") = Marks("c0", 3, 1)
        BY <2>3, <3>2, Zenon DEF Meant
      <4> QED BY <3>2, <4>1 DEF PackValue
    <3>3. CASE key = "exp_1_soc"
      <4>1. Meant(first, w, serial, "exp_1_soc") = Marks("c0", 5, 1)
        BY <2>3, <3>3, Zenon DEF Meant
      <4> QED BY <3>3, <4>1 DEF PackValue
    <3>4. CASE key = "exp_1_type"
      <4>1. Meant(first, w, serial, "exp_1_type") = Marks("c0", 7, 2)
        BY <2>3, <3>4, Zenon DEF Meant
      <4> QED BY <3>4, <4>1 DEF PackValue
    <3> QED BY <3>1, <3>2, <3>3, <3>4 DEF PackKeys
  <2> QED BY <2>2, <2>4
<1>13. \A key \in OtherKeys : truth[key] = Meant(first, w, serial, key)
  BY <1>1, <1>4
<1>14. /\ truth["dc_input_power_total"] = DcPower
       /\ truth["device_sn"] = Marks("a2", 2, 17)
       /\ truth["device_pn"] = Marks("a2", 4, 5)
       /\ truth["utc_timestamp"] = TimeOf(w, first)
  <2>1. /\ Meant(first, w, serial, "dc_input_power_total") = DcPower
        /\ Meant(first, w, serial, "device_sn") = Marks("a2", 2, 17)
        /\ Meant(first, w, serial, "device_pn") = Marks("a2", 4, 5)
        /\ Meant(first, w, serial, "utc_timestamp") = TimeOf(w, first)
    <3>1. \A key \in OtherKeys : /\ key \notin DOMAIN PortFields /\ key \notin Switches
                                 /\ key # "temp_unit_fahrenheit"
      BY <1>3, <1>4, <1>6, <1>7 DEF Named
    <3>2. /\ "dc_input_power_total" \in OtherKeys /\ "device_sn" \in OtherKeys
          /\ "device_pn" \in OtherKeys /\ "utc_timestamp" \in OtherKeys
      BY DEF OtherKeys
    <3>3. Meant(first, w, serial, "dc_input_power_total") = DcPower
      BY <3>1, <3>2, Zenon DEF Meant
    <3>4. Meant(first, w, serial, "device_sn") = Marks("a2", 2, 17)
      BY <3>1, <3>2, Zenon DEF Meant
    <3>5. Meant(first, w, serial, "device_pn") = Marks("a2", 4, 5)
      BY <3>1, <3>2, Zenon DEF Meant
    <3>6. Meant(first, w, serial, "utc_timestamp") = TimeOf(w, first)
      BY <3>1, <3>2, Zenon DEF Meant
    <3> QED BY <3>3, <3>4, <3>5, <3>6
  <2> QED BY <1>13, <2>1 DEF OtherKeys
<1>15. DOMAIN truth = Keys \ (IF serial = NoPack THEN PackKeys ELSE {})
  BY <1>1 DEF keys
<1> QED BY <1>8, <1>9, <1>10, <1>11, <1>12, <1>14, <1>15 DEF IsMeant, truth, w

(* Every value that is read is the one that is meant, and has its type; of *)
(* the time it is a beginning.                                             *)
IsUnderstood(key, bytes, truth) ==
  /\ key \in DOMAIN truth
  /\ IF key = "utc_timestamp" THEN IsPrefix(Typed(key, bytes), truth[key])
                              ELSE Typed(key, bytes) = truth[key]
  /\ key \in DOMAIN Table /\ key \notin Switches /\ key # "temp_unit_fahrenheit" =>
       Len(truth[key]) = Table[key].size
  /\ key \in DOMAIN PortFields => Len(truth[key].power) = 2

LEMMA TableUnderstood ==
  ASSUME NEW first, NEW serial, NEW whole, NEW contents,
         Setting(first, serial, whole, contents),
         NEW raw, IsDecoded(raw, contents), NEW truth, IsMeant(truth, first, whole, serial),
         NEW key \in DOMAIN Table, raw[key] # None
  PROVE  IsUnderstood(key, raw[key][1], truth)
<1> DEFINE row == Table[key]  w == whole[row.field]
           p == SubSeq(w, row.offset + 1, row.offset + row.size)
<1>1. raw[key] = Some(p) /\ row.offset + row.size <= Len(w)
  BY TableRead
<1>2. /\ row.field \in DOMAIN Code \ {"a1", "a2", "c0", "fd"}
      /\ row.offset \in Nat /\ row.size \in 1 .. 4 /\ row.size \in Nat
  BY TableFitsFields DEF InField
<1>3. w \in Seq(Byte)
  BY <1>2, CutOfField
<1> HIDE DEF w
<1>4. p \in Seq(Byte) /\ Len(p) = row.size /\ Holds(w, row.offset, p)
  BY <1>1, <1>2, <1>3, SliceHeld
<1>5. raw[key][1] = p
  <2> HIDE DEF p
  <2> QED BY <1>1 DEF Some
<1>6. key \in DOMAIN truth /\ key \notin DOMAIN PortFields /\ key # "utc_timestamp"
  BY KindsOfKeys DEF IsMeant, OtherKeys
<1>7. CASE key \in Switches
  <2>1. row.size = 1 /\ row.size = Table[key].size
    BY <1>7, TableFitsFields
  <2>2. p = SubSeq(w, row.offset + 1, row.offset + 1)
    BY <2>1
  <2>3. truth[key] = IF p = <<0>> THEN "Off" ELSE "On"
    BY <1>7, <2>2 DEF IsMeant, SliceOf, w
  <2>4. Typed(key, p) = OnOff(p[1])
    BY <1>7, TypedByKind
  <2>5. Len(p) = 1 /\ p \in Seq(Byte)
    BY <1>4, <2>1
  <2> HIDE DEF p
  <2>6. p = <<p[1]>>
    BY <2>5
  <2>7. p = <<0>> <=> p[1] = 0
    BY <2>6
  <2>8. Typed(key, p) = truth[key]
    BY <2>3, <2>4, <2>7 DEF OnOff
  <2> QED BY <1>5, <1>6, <1>7, <2>8 DEF IsUnderstood
<1>8. CASE key = "temp_unit_fahrenheit"
  <2>1. /\ row.field = "a4" /\ row.offset = 19 /\ row.size = 1
    BY <1>8, TableFitsFields DEF At
  <2>2. /\ whole["a4"][20] >= 50 /\ whole["a4"][20] \in Byte
    BY DEF Setting, HasLayout
  <2>3. Byte \subseteq Int
    BY BytesAreBytes
  <2>4. Holds(w, 19, p) /\ Len(p) = 1
    BY <1>4, <2>1
  <2> HIDE DEF p
  <2>5. w[20] = p[1]
    BY <2>4 DEF Holds
  <2>6. p[1] # 0
    BY <2>1, <2>2, <2>3, <2>5 DEF w
  <2>7. Typed(key, p) = "Fahrenheit"
    BY <1>8, <2>6, TypedByKind DEF TempUnit
  <2> QED BY <1>5, <1>6, <1>8, <2>7 DEF IsUnderstood, IsMeant
<1>9. CASE key \notin Switches /\ key # "temp_unit_fahrenheit"
  <2>1. truth[key] = p
    BY <1>9 DEF IsMeant, SliceOf, w
  <2>2. Typed(key, p) = p
    BY <1>9, TypedByKind
  <2>3. Len(p) = Table[key].size
    BY <1>4
  <2> HIDE DEF p
  <2> QED BY <1>5, <1>6, <2>1, <2>2, <2>3 DEF IsUnderstood
<1> QED BY <1>7, <1>8, <1>9

LEMMA PortUnderstood ==
  ASSUME NEW first, NEW serial, NEW whole, NEW contents,
         Setting(first, serial, whole, contents),
         NEW raw, IsDecoded(raw, contents), NEW truth, IsMeant(truth, first, whole, serial),
         NEW key \in DOMAIN PortFields, raw[key] # None
  PROVE  IsUnderstood(key, raw[key][1], truth)
<1> DEFINE f == PortFields[key]  w == whole[f]  p == SubSeq(w, 1, 3)  q == SubSeq(w, 2, 3)
<1>1. /\ raw[key] = Some(p) /\ w \in Seq(Byte) /\ Len(w) = 3
      /\ w[1] = (first + Code[f]) % 5
  BY PortRead
<1>2. w[1] \in 0 .. 4
  <2>1. first \in Nat /\ Code[f] \in Nat
    <3>1. f \in DOMAIN Code
      BY PortsInTable
    <3>2. Code[f] \in 161 .. 254
      BY <3>1, CodesAreNames
    <3> QED BY <3>2 DEF Setting
  <2> QED BY <1>1, <2>1
<1> HIDE DEF w
<1>3. p[1] = w[1] /\ Tail(p) = q /\ Len(q) = 2
  <2>1. \A o \in Nat, n \in Nat : o + n <= Len(w) =>
          /\ SubSeq(w, o + 1, o + n) \in Seq(Byte) /\ Len(SubSeq(w, o + 1, o + n)) = n
          /\ Holds(w, o, SubSeq(w, o + 1, o + n))
    BY <1>1, SliceHeld
  <2>2. /\ SubSeq(w, 0 + 1, 0 + 3) \in Seq(Byte) /\ Len(SubSeq(w, 0 + 1, 0 + 3)) = 3
        /\ Holds(w, 0, SubSeq(w, 0 + 1, 0 + 3))
    <3>1. 0 \in Nat /\ 3 \in Nat /\ 0 + 3 <= Len(w)
      BY <1>1
    <3> QED BY <2>1, <3>1, Zenon
  <2>3. /\ SubSeq(w, 1 + 1, 1 + 2) \in Seq(Byte) /\ Len(SubSeq(w, 1 + 1, 1 + 2)) = 2
        /\ Holds(w, 1, SubSeq(w, 1 + 1, 1 + 2))
    <3>1. 1 \in Nat /\ 2 \in Nat /\ 1 + 2 <= Len(w)
      BY <1>1
    <3> QED BY <2>1, <3>1, Zenon
  <2>4. /\ p \in Seq(Byte) /\ Len(p) = 3 /\ Holds(w, 0, p)
        /\ q \in Seq(Byte) /\ Len(q) = 2 /\ Holds(w, 1, q)
    <3>1. 0 + 1 = 1 /\ 0 + 3 = 3 /\ 1 + 1 = 2 /\ 1 + 2 = 3
      OBVIOUS
    <3> QED BY <2>2, <2>3, <3>1, Zenon DEF p, q
  <2> HIDE DEF p, q
  <2>5. p[1] = w[1] /\ p[2] = w[2] /\ p[3] = w[3] /\ q[1] = w[2] /\ q[2] = w[3]
    BY <2>4 DEF Holds
  <2>6. p = <<p[1], p[2], p[3]>> /\ q = <<q[1], q[2]>>
    BY <2>4
  <2>7. Tail(p) = <<p[2], p[3]>>
    <3> DEFINE t == Tail(p)
    <3>1. p # << >>
      BY <2>4
    <3>2. t \in Seq(Byte) /\ Len(t) = Len(p) - 1 /\ \A i \in 1 .. Len(t) : t[i] = p[i + 1]
      BY <2>4, <3>1, HeadTailProperties
    <3> HIDE DEF t
    <3>4. Len(t) = 2 /\ t[1] = p[2] /\ t[2] = p[3]
      BY <2>4, <3>2
    <3>3. t = <<t[1], t[2]>>
      BY <3>2, <3>4
    <3> QED BY <3>3, <3>4 DEF t
  <2> QED BY <2>4, <2>5, <2>6, <2>7
<1>4. raw[key][1] = p
  BY <1>1 DEF Some
<1> HIDE DEF p, q
<1>5. truth[key] = [status |-> Meanings[w[1] + 1], power |-> q]
  <2>1. SliceOf(whole, f, 1, 2) = q
    BY DEF SliceOf, q, w
  <2>2. truth[key] = [status |-> Meanings[w[1] + 1], power |-> SliceOf(whole, f, 1, 2)]
    BY DEF IsMeant, w
  <2> QED BY <2>1, <2>2
<1>6. PortStatus(w[1]) = Meanings[w[1] + 1]
  <2>1. CASE w[1] = 0
    BY <2>1 DEF PortStatus, Meanings
  <2>2. CASE w[1] = 1
    BY <2>2 DEF PortStatus, Meanings
  <2>3. CASE w[1] = 2
    BY <2>3 DEF PortStatus, Meanings
  <2>4. CASE w[1] = 3
    BY <2>4 DEF PortStatus, Meanings
  <2>5. CASE w[1] = 4
    BY <2>5 DEF PortStatus, Meanings
  <2> QED BY <1>2, <2>1, <2>2, <2>3, <2>4, <2>5
<1>7. Typed(key, p) = [status |-> PortStatus(p[1]), power |-> Tail(p)]
  BY TypedByKind
<1>8. Typed(key, p) = truth[key]
  BY <1>3, <1>5, <1>6, <1>7
<1>9. key \in DOMAIN truth /\ key \notin DOMAIN Table /\ key # "utc_timestamp"
  BY KindsOfKeys DEF IsMeant, OtherKeys
<1>10. Len(truth[key].power) = 2
  BY <1>3, <1>5
<1> QED BY <1>4, <1>8, <1>9, <1>10 DEF IsUnderstood

LEMMA ValueUnderstood ==
  ASSUME NEW first, NEW serial, NEW whole, NEW contents,
         Setting(first, serial, whole, contents),
         NEW raw, IsDecoded(raw, contents), NEW truth, IsMeant(truth, first, whole, serial),
         NEW key \in Keys, raw[key] # None
  PROVE  IsUnderstood(key, raw[key][1], truth)
<1>1. CASE key \in DOMAIN Table
  BY <1>1, TableUnderstood
<1>2. CASE key \in DOMAIN PortFields
  BY <1>2, PortUnderstood
<1>3. CASE key \in PackKeys
  <2>1. "c0" \in FieldsWith(serial) /\ raw[key] = Some(PackValue(serial)[key])
    BY <1>3, PackRead
  <2>2. serial # NoPack
    BY <2>1 DEF FieldsWith
  <2>3. truth[key] = PackValue(serial)[key] /\ key \in DOMAIN truth
    BY <1>3, <2>2 DEF IsMeant
  <2>4. raw[key][1] = truth[key]
    BY <2>1, <2>3 DEF Some
  <2>5. Typed(key, raw[key][1]) = raw[key][1]
    BY <1>3, TypedByKind
  <2>6. key \notin DOMAIN Table /\ key \notin DOMAIN PortFields /\ key # "utc_timestamp"
    BY <1>3, KindsOfKeys DEF OtherKeys
  <2> QED BY <2>3, <2>4, <2>5, <2>6 DEF IsUnderstood
<1>4. CASE key \in OtherKeys
  <2>1. key \notin DOMAIN Table /\ key \notin DOMAIN PortFields /\ key \notin PackKeys
    BY <1>4, KindsOfKeys
  <2>2. key \in DOMAIN truth
    BY <1>4, <2>1, KindsOfKeys DEF IsMeant
  <2>3. Typed(key, raw[key][1]) = raw[key][1]
    BY <1>4, TypedByKind
  <2>4. CASE key # "utc_timestamp"
    <3>1. raw[key] = Some(truth[key])
      <4>1. CASE key = "device_sn"
        BY <4>1, OtherRead DEF IsMeant
      <4>2. CASE key = "device_pn"
        BY <4>2, OtherRead DEF IsMeant
      <4>3. CASE key = "dc_input_power_total"
        BY <4>3, OtherRead DEF IsMeant
      <4> QED BY <1>4, <2>4, <4>1, <4>2, <4>3 DEF OtherKeys
    <3>2. raw[key][1] = truth[key]
      BY <3>1 DEF Some
    <3> QED BY <2>1, <2>2, <2>3, <2>4, <3>2 DEF IsUnderstood
  <2>5. CASE key = "utc_timestamp"
    <3>1. IsPrefix(raw[key][1], TimeOf(whole, first))
      BY <2>5, OtherRead
    <3>2. truth[key] = TimeOf(whole, first)
      BY <2>5 DEF IsMeant
    <3> QED BY <2>1, <2>2, <2>3, <2>5, <3>1, <3>2 DEF IsUnderstood
  <2> QED BY <2>4, <2>5
<1> QED BY <1>1, <1>2, <1>3, <1>4, KindsOfKeys

-------------------------------------------------------------------------------
(* The inductive invariant: what was sent last is a message of the device, *)
(* cut short or not, and the status is what its fields decode to.  That    *)
(* the walk over the bytes of the message finds those fields is what       *)
(* ContentsFound says.                                                     *)
DecodeInv ==
  /\ firmware \in Firmwares /\ pack \in Packs /\ sent.pack \in Packs
  /\ Carried(sent.contents, Whole(firmware.first, sent.pack))
  /\ status = FromRaw(Decode(sent.contents))

LEMMA NothingRead ==
  ASSUME NEW fields, DOMAIN fields = {}
  PROVE  FromRaw(Decode(fields)) = [key \in Keys |-> None]
<1> DEFINE raw == Decode(fields)
<1>1. IsDecoded(raw, fields)
  BY DecodeByKind
<1> HIDE DEF raw
<1>2. \A f, offset, size : Number(fields, f, offset, size) = None
  BY DEF Number, Carries
<1>3. \A f, offset : String(fields, f, offset) = None
  BY DEF String
<1>4. \A key \in DOMAIN Table : raw[key] = None
  <2>1. \A key : ReadIn(fields, key) = None
    BY <1>2, Zenon DEF ReadIn
  <2> QED BY <1>1, <2>1 DEF IsDecoded
<1>5. \A key \in DOMAIN PortFields : raw[key] = None
  <2>1. \A f : Port(fields, f) = None
    BY <1>2, Zenon DEF Port
  <2> QED BY <1>1, <2>1 DEF IsDecoded
<1>6. \A key \in PackKeys : raw[key] = None
  <2>1. SerialOf(fields) = None
    BY <1>3 DEF SerialOf
  <2>2. PackChain(fields, SerialOf(fields)) = NoChain
    BY <2>1 DEF PackChain
  <2>3. raw["exp_1_sn"] = None /\ \A key \in PackKeys \ {"exp_1_sn"} : raw[key] = NoChain[key]
    BY <1>1, <2>1, <2>2 DEF IsDecoded
  <2> QED BY <2>3 DEF NoChain
<1>7. \A key \in OtherKeys : raw[key] = None
  <2>1. raw["dc_input_power_total"] = None
    <3>1. DcInput(fields) = None
      BY <1>2, Zenon DEF DcInput
    <3> QED BY <1>1, <3>1 DEF IsDecoded
  <2>2. raw["device_sn"] = None /\ raw["device_pn"] = None
    BY <1>1, <1>3 DEF IsDecoded
  <2>3. raw["utc_timestamp"] = None
    BY <1>1 DEF IsDecoded
  <2> QED BY <2>1, <2>2, <2>3 DEF OtherKeys
<1>8. \A key \in Keys : raw[key] = None
  BY <1>4, <1>5, <1>6, <1>7, KindsOfKeys
<1>9. FromRaw(raw) = [key \in Keys |-> None]
  BY <1>8 DEF FromRaw
<1> QED BY <1>9 DEF raw

LEMMA InitDecodeInv == Init => DecodeInv
<1> SUFFICES ASSUME Init PROVE DecodeInv
  OBVIOUS
<1>1. firmware \in Firmwares /\ pack = NoPack /\ sent.pack = NoPack /\ sent.contents = << >>
  BY DEF Init
<1>2. NoPack \in Packs
  BY DEF Packs
<1>3. DOMAIN sent.contents = {}
  BY <1>1
<1>4. Carried(sent.contents, Whole(firmware.first, sent.pack))
  BY <1>3 DEF Carried
<1>5. status = FromRaw(Decode(sent.contents))
  BY <1>3, NothingRead DEF Init
<1> QED BY <1>1, <1>2, <1>4, <1>5 DEF DecodeInv

(* What any firmware puts into a message is found by the decoder.          *)
LEMMA MessageArrives ==
  ASSUME NEW fw \in Firmwares, NEW serial \in Packs, NEW missing \in SUBSET Omitted,
         NEW type \in Types
  PROVE  LET contents == Contents(fw, serial, missing)
         IN  Decode0421(Bytes(fw, type, contents)) =
               IF type \in StatusTypes THEN Some(FromRaw(Decode(contents))) ELSE None
<1> DEFINE contents == Contents(fw, serial, missing)  whole == Whole(fw.first, serial)
<1>1. fw.first \in {0, 4} /\ fw.increment \in BOOLEAN
  BY FirmwareType
<1>2. HasLayout(whole, fw.first, serial)
  BY <1>1, WholeHasLayout
<1>3. Carried(contents, whole) /\ "a1" \in DOMAIN contents
  BY ContentsCarried
<1>4. IsMap(contents)
  BY DEF IsMap, Contents
<1> HIDE DEF contents, whole
<1>5. MaySend(fw, serial, whole, contents)
  BY <1>1, <1>2, <1>3, <1>4 DEF MaySend
<1>6. Decode0421(Bytes(fw, type, contents)) =
        IF type \in StatusTypes THEN Some(FromRaw(Decode(contents))) ELSE None
  BY <1>5, MessageDecoded
<1> QED BY <1>6 DEF contents

LEMMA StepKeepsDecodeInv == DecodeInv /\ [Next]_vars => DecodeInv'
<1> SUFFICES ASSUME DecodeInv, [Next]_vars PROVE DecodeInv'
  OBVIOUS
<1>1. CASE ChangePack
  BY <1>1 DEF ChangePack, DecodeInv
<1>2. CASE UNCHANGED vars
  BY <1>2 DEF vars, DecodeInv
<1>3. CASE Receive
  <2>1. PICK missing \in SUBSET Omitted, type \in Types, intact \in BOOLEAN :
          LET contents == Contents(firmware, pack, missing)
              decoded  == DecodePublish(IF intact THEN Some(Bytes(firmware, type, contents))
                                                  ELSE None)
          IN  /\ status' = IF decoded = None THEN status ELSE decoded[1]
              /\ sent' = IF intact /\ type # <<4, 5>>
                           THEN [pack |-> pack, contents |-> contents] ELSE sent
              /\ UNCHANGED <<firmware, pack>>
    BY <1>3 DEF Receive
  <2> DEFINE contents == Contents(firmware, pack, missing)
             bytes == Bytes(firmware, type, contents)
             decoded == DecodePublish(IF intact THEN Some(bytes) ELSE None)
  <2>2. /\ status' = IF decoded = None THEN status ELSE decoded[1]
        /\ sent' = IF intact /\ type # <<4, 5>>
                     THEN [pack |-> pack, contents |-> contents] ELSE sent
        /\ firmware' = firmware /\ pack' = pack
    BY <2>1
  <2>3. firmware \in Firmwares /\ pack \in Packs
    BY DEF DecodeInv
  <2>4. Decode0421(bytes) = IF type \in StatusTypes THEN Some(FromRaw(Decode(contents))) ELSE None
    BY <2>3, MessageArrives
  <2>5. Carried(contents, Whole(firmware.first, pack))
    BY <2>3, ContentsCarried
  <2> HIDE DEF contents, bytes
  <2>6. CASE intact /\ type # <<4, 5>>
    <3>1. type \in StatusTypes
      BY <2>6 DEF Types, StatusTypes
    <3>2. Decode0421(bytes) = Some(FromRaw(Decode(contents)))
      BY <2>4, <3>1
    <3>3. decoded = Some(FromRaw(Decode(contents)))
      BY <2>6, <3>2 DEF DecodePublish, Some, None
    <3>4. status' = FromRaw(Decode(contents))
      BY <2>2, <3>3 DEF Some, None
    <3>5. sent'.pack = pack /\ sent'.contents = contents
      BY <2>2, <2>6
    <3> QED BY <2>2, <2>3, <2>5, <3>4, <3>5 DEF DecodeInv
  <2>7. CASE ~(intact /\ type # <<4, 5>>)
    <3>1. decoded = None
      <4>1. CASE ~intact
        BY <4>1 DEF DecodePublish
      <4>2. CASE intact
        <5>1. type = <<4, 5>>
          BY <2>7, <4>2
        <5>2. type \notin StatusTypes
          BY <5>1 DEF StatusTypes
        <5>3. Decode0421(bytes) = None
          BY <2>4, <5>2
        <5> QED BY <4>2, <5>3 DEF DecodePublish, Some, None
      <4> QED BY <4>1, <4>2
    <3>2. status' = status /\ sent' = sent
      BY <2>2, <2>7, <3>1
    <3> QED BY <2>2, <3>2 DEF DecodeInv
  <2> QED BY <2>6, <2>7
<1> QED BY <1>1, <1>2, <1>3 DEF Next

LEMMA DecodeInvHolds == Spec => []DecodeInv
<1> QED BY InitDecodeInv, StepKeepsDecodeInv, PTL DEF Spec

(* In a state of the invariant: the values, as raw and as typed.           *)
LEMMA StatusUnderstood ==
  ASSUME DecodeInv
  PROVE  LET first == firmware.first
             raw   == Decode(sent.contents)
             whole == Whole(first, sent.pack)
             truth == Truth(first, sent.pack)
         IN  /\ Setting(first, sent.pack, whole, sent.contents)
             /\ IsDecoded(raw, sent.contents) /\ IsMeant(truth, first, whole, sent.pack)
             /\ DOMAIN status = Keys
             /\ \A key \in Keys : /\ status[key] # None <=> raw[key] # None
                                  /\ status[key] # None =>
                                       /\ status[key] = Some(Typed(key, raw[key][1]))
                                       /\ IsUnderstood(key, raw[key][1], truth)
<1> DEFINE first == firmware.first  raw == Decode(sent.contents)
           whole == Whole(first, sent.pack)  truth == Truth(first, sent.pack)
<1>1. first \in {0, 4}
  BY FirmwareType DEF DecodeInv
<1>2. HasLayout(whole, first, sent.pack)
  BY <1>1, WholeHasLayout DEF DecodeInv
<1>3. Setting(first, sent.pack, whole, sent.contents)
  BY <1>1, <1>2 DEF Setting, DecodeInv
<1>4. IsDecoded(raw, sent.contents) /\ IsMeant(truth, first, whole, sent.pack)
  BY DecodeByKind, TruthByKind
<1>5. status = FromRaw(raw)
  BY DEF DecodeInv
<1> HIDE DEF first, raw, whole, truth
<1>6. DOMAIN status = Keys
  BY <1>5 DEF FromRaw
<1>7. ASSUME NEW key \in Keys
      PROVE  /\ status[key] # None <=> raw[key] # None
             /\ status[key] # None => /\ status[key] = Some(Typed(key, raw[key][1]))
                                      /\ IsUnderstood(key, raw[key][1], truth)
  <2>1. status[key] = IF raw[key] = None THEN None ELSE Some(Typed(key, raw[key][1]))
    BY <1>5 DEF FromRaw
  <2>2. CASE raw[key] = None
    BY <2>1, <2>2
  <2>3. CASE raw[key] # None
    <3>1. IsUnderstood(key, raw[key][1], truth)
      BY <1>3, <1>4, <2>3, ValueUnderstood
    <3>2. status[key] = Some(Typed(key, raw[key][1]))
      BY <2>1, <2>3
    <3>3. Some(Typed(key, raw[key][1])) # None
      BY DEF Some, None
    <3> QED BY <2>3, <3>1, <3>2, <3>3
  <2> QED BY <2>2, <2>3
<1> QED BY <1>3, <1>4, <1>6, <1>7 DEF first, raw, whole, truth

-------------------------------------------------------------------------------
(* TypeOK: every message leaves a status of values of their types, a number *)
(* of as many bytes as its type and a port's power of two, whatever the     *)
(* message lacks (decode_0421 and the conversions of c1000gen2.rs).         *)
THEOREM StatusTypeCorrect == Spec => []TypeOK
<1>1. DecodeInv => TypeOK
  <2> SUFFICES ASSUME DecodeInv PROVE TypeOK
    OBVIOUS
  <2> DEFINE raw == Decode(sent.contents)  truth == Truth(firmware.first, sent.pack)
  <2>1. /\ DOMAIN status = Keys
        /\ \A key \in Keys : status[key] # None =>
             /\ status[key] = Some(Typed(key, raw[key][1]))
             /\ IsUnderstood(key, raw[key][1], truth)
    BY StatusUnderstood
  <2> HIDE DEF raw, truth
  <2>2. ASSUME NEW key \in Keys PROVE Len(status[key]) <= 1
    <3>1. CASE status[key] = None
      BY <3>1 DEF None
    <3>2. CASE status[key] # None
      <4>1. status[key] = <<Typed(key, raw[key][1])>>
        BY <2>1, <3>2 DEF Some
      <4> QED BY <4>1
    <3> QED BY <3>1, <3>2
  <2>3. ASSUME NEW key \in Keys, status[key] # None, key # "utc_timestamp"
        PROVE  status[key][1] = truth[key] /\ IsUnderstood(key, raw[key][1], truth)
    BY <2>1, <2>3 DEF Some, IsUnderstood
  <2>4. \A key \in DOMAIN Table \ (Switches \cup {"temp_unit_fahrenheit"}) :
          status[key] # None => Len(status[key][1]) = Table[key].size
    BY <2>3, KindsOfKeys DEF IsUnderstood, OtherKeys
  <2>5. \A key \in DOMAIN PortFields :
          status[key] # None => Len(status[key][1].power) = 2
    BY <2>3, KindsOfKeys DEF IsUnderstood, OtherKeys
  <2>6. firmware \in Firmwares /\ {pack, sent.pack} \subseteq Packs
    BY DEF DecodeInv
  <2> QED BY <2>1, <2>2, <2>4, <2>5, <2>6 DEF TypeOK
<1> QED BY <1>1, DecodeInvHolds, PTL

(* NeverMisread: whatever fields a message lacks and to whatever size one   *)
(* of them is cut, a value that the status shows is the one the device      *)
(* meant: neither the walk over the message (codec.rs:53-68) nor the chain  *)
(* of offsets in c0 (c1000gen2.rs:808-825) takes a neighbour's bytes.  Only *)
(* the time may be cut short with its text, and is then a beginning of its  *)
(* digits (c1000gen2.rs:832-838).                                           *)
THEOREM NoNeighboursBytes == Spec => []NeverMisread
<1>1. DecodeInv => NeverMisread
  <2> SUFFICES ASSUME DecodeInv PROVE NeverMisread
    OBVIOUS
  <2> DEFINE raw == Decode(sent.contents)  truth == Truth(firmware.first, sent.pack)
  <2>1. \A key \in Keys : status[key] # None =>
          /\ status[key] = Some(Typed(key, raw[key][1]))
          /\ IsUnderstood(key, raw[key][1], truth)
    BY StatusUnderstood
  <2> HIDE DEF raw, truth
  <2>2. ASSUME NEW key \in Keys, status[key] # None
        PROVE  /\ key \in DOMAIN truth
               /\ IF key = "utc_timestamp" THEN IsPrefix(status[key][1], truth[key])
                                           ELSE status[key][1] = truth[key]
    <3>1. status[key][1] = Typed(key, raw[key][1])
      BY <2>1, <2>2 DEF Some
    <3> QED BY <2>1, <2>2, <3>1 DEF IsUnderstood
  <2> QED BY <2>2 DEF NeverMisread, truth
<1> QED BY <1>1, DecodeInvHolds, PTL

(* WholeFieldsArrive: a field that the device sent whole gives every value  *)
(* the decoder reads from it, and fd the whole time, whatever is missing or  *)
(* short around it, with an increment byte or without (codec.rs:33-37), in either type of status  *)
(* message (c1000gen2.rs:701-703).                                          *)
THEOREM WholeFieldsAreRead == Spec => []WholeFieldsArrive
<1>1. DecodeInv => WholeFieldsArrive
  <2> SUFFICES ASSUME DecodeInv PROVE WholeFieldsArrive
    OBVIOUS
  <2> DEFINE first == firmware.first  serial == sent.pack  contents == sent.contents
             whole == Whole(first, serial)  raw == Decode(contents)
             truth == Truth(first, serial)
             Arrived(f) == f \in DOMAIN contents /\ contents[f] = whole[f]
  <2>1. /\ Setting(first, serial, whole, contents) /\ IsDecoded(raw, contents)
        /\ \A key \in Keys : status[key] # None <=> raw[key] # None
    BY StatusUnderstood
  <2>2. /\ IsMeant(truth, first, whole, serial)
        /\ \A key \in Keys : status[key] # None => status[key] = Some(Typed(key, raw[key][1]))
    BY StatusUnderstood
  <2> HIDE DEF first, serial, contents, whole, raw, truth
  <2>3. /\ \A key \in DOMAIN Table : key \in Keys
        /\ \A key \in DOMAIN PortFields : key \in Keys
        /\ \A key \in PackKeys : key \in Keys
        /\ "device_sn" \in Keys /\ "device_pn" \in Keys /\ "utc_timestamp" \in Keys
    BY KindsOfKeys DEF OtherKeys
  <2>4. \A key \in DOMAIN Table : Arrived(Table[key].field) => status[key] # None
    BY <2>1, <2>3, TableRead
  <2>5. \A key \in DOMAIN PortFields : Arrived(PortFields[key]) => status[key] # None
    BY <2>1, <2>3, PortRead
  <2>6. Arrived("c0") => \A key \in PackKeys : status[key] # None
    BY <2>1, <2>3, PackRead
  <2>7. Arrived("a2") => status["device_sn"] # None /\ status["device_pn"] # None
    BY <2>1, <2>3, OtherRead
  <2>8. Arrived("fd") => status["utc_timestamp"] = Some(truth["utc_timestamp"])
    <3> SUFFICES ASSUME Arrived("fd")
                 PROVE  status["utc_timestamp"] = Some(truth["utc_timestamp"])
      OBVIOUS
    <3>1. raw["utc_timestamp"] = Some(TimeOf(whole, first))
      BY <2>1, OtherRead
    <3>2. truth["utc_timestamp"] = TimeOf(whole, first)
      BY <2>2 DEF IsMeant
    <3>3. raw["utc_timestamp"] # None /\ raw["utc_timestamp"][1] = TimeOf(whole, first)
      BY <3>1 DEF Some, None
    <3>4. Typed("utc_timestamp", raw["utc_timestamp"][1]) = raw["utc_timestamp"][1]
      <4>1. "utc_timestamp" \in PackKeys \cup OtherKeys
        BY DEF OtherKeys
      <4> QED BY <4>1, TypedByKind
    <3> QED BY <2>1, <2>3, <2>2, <3>2, <3>3, <3>4
  <2> QED BY <2>4, <2>5, <2>6, <2>7, <2>8
          DEF WholeFieldsArrive, first, serial, contents, whole, truth
<1> QED BY <1>1, DecodeInvHolds, PTL

(* DcInputFromEither: the DC input power is shown as soon as one of the two *)
(* fields that carry it does so, the other short or missing                 *)
(* (c1000gen2.rs:765-771).                                                  *)
THEOREM DcInputFound == Spec => []DcInputFromEither
<1>1. DecodeInv => DcInputFromEither
  <2> SUFFICES ASSUME DecodeInv,
                      Carries(sent.contents, "a6", 6) \/ Carries(sent.contents, "a8", 3)
               PROVE  status["dc_input_power_total"] # None
    BY DEF DcInputFromEither
  <2> DEFINE first == firmware.first  serial == sent.pack  contents == sent.contents
             whole == Whole(first, serial)  raw == Decode(contents)
  <2>1. /\ Setting(first, serial, whole, contents) /\ IsDecoded(raw, contents)
        /\ \A key \in Keys : status[key] # None <=> raw[key] # None
    BY StatusUnderstood
  <2>2. Carries(contents, "a6", 6) \/ Carries(contents, "a8", 3)
    OBVIOUS
  <2> HIDE DEF first, serial, contents, whole, raw
  <2>3. raw["dc_input_power_total"] # None
    BY <2>1, <2>2, OtherRead
  <2>4. "dc_input_power_total" \in Keys
    BY KindsOfKeys DEF OtherKeys
  <2> QED BY <2>1, <2>3, <2>4
<1> QED BY <1>1, DecodeInvHolds, PTL
===============================================================================
