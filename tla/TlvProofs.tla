-------------------------------- MODULE TlvProofs --------------------------------
(***************************************************************************)
(* What the functions of Tlv compute, for any base, any bytes and any      *)
(* message: parse_field stays in bounds, inverts the encoding of a plain   *)
(* field, and decode_fields inverts that of an unambiguous message.        *)
(***************************************************************************)
EXTENDS Tlv, TLAPS, SequenceTheorems, WellFoundedInduction

-------------------------------------------------------------------------------
(* Induction.  The library proves that < is well-founded on Nat; the rest  *)
(* is stated with sets in place of predicates.                             *)

LessThan == {pair \in Nat \X Nat : pair[1] < pair[2]}

LEMMA LessThanWellFounded == IsWellFoundedOn(LessThan, Nat)
  BY NatLessThanWellFounded DEF LessThan, OpToRel

(* A set of natural numbers that is not empty has a least one.             *)
LEMMA LeastNatural ==
  ASSUME NEW T, T \subseteq Nat, T # {}
  PROVE  \E n \in T : \A k \in T : n <= k
<1>1. \A i, j \in Nat : i < j => <<i, j>> \in LessThan
  BY DEF LessThan
<1>2. PICK n \in T : \A k \in T : ~(<<k, n>> \in LessThan)
  BY LessThanWellFounded, WFMin
<1>3. \A k \in T : ~(k < n)
  BY <1>1, <1>2
<1> QED BY <1>3

(* Induction up an interval.                                               *)
LEMMA InductionUp ==
  ASSUME NEW m \in Nat, NEW n \in Nat, NEW S, m \in S,
         \A i \in m .. n - 1 : i \in S => i + 1 \in S
  PROVE  m .. n \subseteq S
<1> DEFINE T == (m .. n) \ S
<1> SUFFICES ASSUME T # {} PROVE FALSE
  OBVIOUS
<1>1. PICK k \in T : \A j \in T : k <= j
  <2>1. T \subseteq Nat
    OBVIOUS
  <2> HIDE DEF T
  <2> QED BY <2>1, LeastNatural
<1>2. k - 1 \in m .. n - 1 /\ k - 1 \notin T
  BY <1>1
<1>3. k - 1 \in S
  BY <1>2
<1>4. (k - 1) + 1 \in S
  BY <1>2, <1>3
<1> QED BY <1>1, <1>4

(* Induction down an interval.                                             *)
LEMMA InductionDown ==
  ASSUME NEW m \in Nat, NEW n \in Nat, NEW S, n \in S,
         \A i \in m .. n - 1 : i + 1 \in S => i \in S
  PROVE  m .. n \subseteq S
<1> DEFINE T == {k \in 0 .. n - m : n - k \in S}
<1>1. CASE n < m
  BY <1>1
<1>2. CASE m <= n
  <2>1. 0 \in T
    BY <1>2
  <2>2. ASSUME NEW k \in 0 .. (n - m) - 1, k \in T PROVE k + 1 \in T
    <3>1. n - (k + 1) \in m .. n - 1 /\ (n - (k + 1)) + 1 = n - k
      BY <1>2, <2>2
    <3>2. n - (k + 1) \in S
      BY <2>2, <3>1
    <3> QED BY <1>2, <3>2
  <2> HIDE DEF T
  <2>3. n - m \in Nat /\ 0 \in Nat
    BY <1>2
  <2>4. 0 .. n - m \subseteq T
    BY <2>1, <2>2, <2>3, InductionUp
  <2>5. ASSUME NEW i \in m .. n PROVE i \in S
    <3>1. n - i \in 0 .. n - m /\ n - (n - i) = i
      OBVIOUS
    <3> QED BY <2>4, <3>1 DEF T
  <2> QED BY <2>5
<1> QED BY <1>1, <1>2

-------------------------------------------------------------------------------
(* parse_field, for any bytes.                                             *)

(* A slice of a buffer of bytes consists of bytes.                         *)
LEMMA SliceOfBytes ==
  ASSUME NEW S, NEW s \in Seq(S), NEW m \in Nat, NEW n \in Nat,
         m >= 1, n <= Len(s)
  PROVE  SubSeq(s, m, n) \in Seq(S)
<1>1. m \in Int /\ n \in Int
  OBVIOUS
<1>2. \A i \in m .. n : s[i] \in S
  <2> SUFFICES ASSUME NEW i \in m .. n PROVE s[i] \in S
    OBVIOUS
  <2>1. i \in 1 .. Len(s)
    OBVIOUS
  <2> QED BY <2>1, ElementOfSeq
<1> QED BY <1>1, <1>2, SubSeqProperties

(* The bytes from an offset on.                                            *)
LEMMA RestProperties ==
  ASSUME NEW S, NEW body \in Seq(S), NEW i \in 0 .. Len(body)
  PROVE  /\ RestFrom(body, i) \in Seq(S)
         /\ Len(RestFrom(body, i)) = Len(body) - i
         /\ \A j \in 1 .. Len(body) - i : RestFrom(body, i)[j] = body[i + j]
<1>1. Len(body) \in Nat /\ i \in Nat
  OBVIOUS
<1>2. i + 1 \in Int /\ Len(body) \in Int
  BY <1>1
<1>3. \A j \in i + 1 .. Len(body) : body[j] \in S
  BY <1>1, ElementOfSeq
<1>4. /\ SubSeq(body, i + 1, Len(body)) \in Seq(S)
      /\ Len(SubSeq(body, i + 1, Len(body)))
           = IF i + 1 <= Len(body) THEN Len(body) - (i + 1) + 1 ELSE 0
      /\ \A j \in 1 .. Len(body) - (i + 1) + 1 :
           SubSeq(body, i + 1, Len(body))[j] = body[(i + 1) + j - 1]
  BY <1>2, <1>3, SubSeqProperties
<1> DEFINE r == SubSeq(body, i + 1, Len(body))
<1>5. r = RestFrom(body, i)
  BY DEF RestFrom
<1>6. Len(r) = Len(body) - i
  BY <1>1, <1>4
<1>7. \A j \in 1 .. Len(body) - i : r[j] = body[i + j]
  BY <1>1, <1>4
<1> HIDE DEF r
<1> QED BY <1>4, <1>5, <1>6, <1>7 DEF r

(* The tentative length is a number as soon as there are three bytes.      *)
LEMMA TentativeLenType ==
  ASSUME NEW b \in Seq(Byte), MoreFields(b)
  PROVE  /\ Len(b) \in Nat /\ Len(b) >= 3
         /\ TentativeLen(b) \in Nat
         /\ ByteAt(b, 0) \in Byte /\ ByteAt(b, 1) \in Byte /\ ByteAt(b, 2) \in Byte
<1>1. Base \in Nat
  BY TlvAssumption
<1>2. Len(b) \in Nat /\ Len(b) >= 3
  BY DEF MoreFields
<1>3. b[1] \in Byte /\ b[2] \in Byte /\ b[3] \in Byte
  BY <1>2, ElementOfSeq
<1>4. ByteAt(b, 0) = b[1] /\ ByteAt(b, 1) = b[2] /\ ByteAt(b, 2) = b[3]
  BY DEF ByteAt
<1>5. ByteAt(b, 1) \in Nat /\ Base * ByteAt(b, 2) \in Nat
  BY <1>1, <1>3, <1>4 DEF Byte
<1> QED BY <1>2, <1>3, <1>4, <1>5 DEF TentativeLen

(* What parse_field accepts lies within the buffer and moves the walk on.  *)
LEMMA AcceptedFits ==
  ASSUME NEW b \in Seq(Byte), MoreFields(b), WellFormed(b)
  PROVE  /\ FieldLen(b) \in Nat /\ FieldLen(b) >= 1 /\ LenBytes(b) \in {1, 2}
         /\ Consumed(b) \in 3 .. Len(b)
<1>1. /\ Len(b) \in Nat /\ Len(b) >= 3
      /\ TentativeLen(b) \in Nat /\ ByteAt(b, 1) \in Nat
  BY TentativeLenType, TlvAssumption DEF Byte
<1>2. CASE TwoByteLen(b)
  <2>1. FieldLen(b) = TentativeLen(b) /\ LenBytes(b) = 2
    BY <1>2 DEF FieldLen, LenBytes
  <2>2. TentativeLen(b) > 3 /\ TentativeLen(b) <= Len(b) - 4
    BY <1>2 DEF TwoByteLen
  <2> QED BY <1>1, <2>1, <2>2 DEF Consumed
<1>3. CASE ~TwoByteLen(b)
  <2>1. FieldLen(b) = ByteAt(b, 1) /\ LenBytes(b) = 1
    BY <1>3 DEF FieldLen, LenBytes
  <2>2. FieldLen(b) # 0 /\ FieldLen(b) <= Len(b) - 2
    BY DEF WellFormed
  <2> QED BY <1>1, <2>1, <2>2 DEF Consumed
<1> QED BY <1>2, <1>3

(* The value of an accepted field is a sequence of bytes of the buffer.    *)
LEMMA ValueType ==
  ASSUME NEW b \in Seq(Byte), MoreFields(b), WellFormed(b)
  PROVE  Value(b) \in Seq(Byte)
<1>1. /\ FieldLen(b) \in Nat /\ FieldLen(b) >= 1 /\ LenBytes(b) \in {1, 2}
      /\ Consumed(b) \in 3 .. Len(b) /\ Len(b) \in Nat
  BY AcceptedFits
<1>2. 1 + LenBytes(b) + FieldLen(b) <= Len(b)
  BY <1>1 DEF Consumed
<1> DEFINE l == FieldLen(b)  w == LenBytes(b)
<1>3. Cut(b, 2 + w, l - 1) \in Seq(Byte)
  <2>1. 2 + w + 1 \in Nat /\ 2 + w + (l - 1) \in Nat
        /\ 2 + w + 1 >= 1 /\ 2 + w + (l - 1) <= Len(b)
    BY <1>1, <1>2
  <2> HIDE DEF l, w
  <2> QED BY <2>1, SliceOfBytes DEF Cut
<1>4. Cut(b, 2, l) \in Seq(Byte)
  <2>1. 2 + 1 \in Nat /\ 2 + l \in Nat /\ 2 + 1 >= 1 /\ 2 + l <= Len(b)
    BY <1>1, <1>2
  <2> HIDE DEF l
  <2> QED BY <2>1, SliceOfBytes DEF Cut
<1> QED BY <1>3, <1>4 DEF Value

(* The bytes that are looked ahead to are in the buffer as well.           *)
LEMMA LookAheadFits ==
  ASSUME NEW b \in Seq(Byte), MoreFields(b), TwoByteLen(b)
  PROVE  3 + TentativeLen(b) < Len(b)
<1>1. Len(b) \in Nat /\ TentativeLen(b) \in Nat
  BY TentativeLenType
<1>2. TentativeLen(b) <= Len(b) - 4
  BY DEF TwoByteLen
<1> QED BY <1>1, <1>2

(* The header's decision about the increment byte leaves a body of bytes.  *)
LEMMA BodyType ==
  ASSUME NEW bytes \in Seq(Byte)
  PROVE  Body(bytes) \in Seq(Byte)
<1>1. bytes # << >> => Tail(bytes) \in Seq(Byte)
  BY HeadTailProperties
<1> QED BY <1>1 DEF Body

-------------------------------------------------------------------------------
(* Flattened sequences.  A recursive function is a CHOOSE, so that it has  *)
(* its equation has to be shown by building it.                            *)

FlattenUpTo(seqs, n) ==
  CHOOSE flatten : flatten = [i \in 1 .. n |-> IF i = 1 THEN seqs[i]
                                               ELSE flatten[i - 1] \o seqs[i]]

LEMMA FlattenUnfolds ==
  ASSUME NEW n \in Nat, n >= 1, NEW seqs
  PROVE  FlattenUpTo(seqs, n) =
           [i \in 1 .. n |-> IF i = 1 THEN seqs[i]
                             ELSE FlattenUpTo(seqs, n)[i - 1] \o seqs[i]]
<1> DEFINE IsFlat(g, k) == g = [i \in 1 .. k |-> IF i = 1 THEN seqs[i]
                                                 ELSE g[i - 1] \o seqs[i]]
           T == {k \in 1 .. n : \E g : IsFlat(g, k)}
<1>1. 1 \in T
  <2> DEFINE g == [i \in 1 .. 1 |-> seqs[i]]
  <2>1. IsFlat(g, 1)
    OBVIOUS
  <2>2. 1 \in 1 .. n
    OBVIOUS
  <2> HIDE DEF g, IsFlat
  <2> QED BY <2>1, <2>2
<1>2. ASSUME NEW k \in 1 .. n - 1, k \in T PROVE k + 1 \in T
  <2>1. PICK g : IsFlat(g, k)
    BY <1>2
  <2> DEFINE h == [i \in 1 .. k + 1 |-> IF i = k + 1 THEN g[k] \o seqs[k + 1] ELSE g[i]]
  <2>2. ASSUME NEW i \in 1 .. k + 1
        PROVE  h[i] = IF i = 1 THEN seqs[i] ELSE h[i - 1] \o seqs[i]
    <3>1. CASE i = k + 1
      <4>1. h[i] = g[k] \o seqs[i]
        BY <3>1
      <4>2. i # 1 /\ i - 1 \in 1 .. k + 1 /\ i - 1 # k + 1 /\ i - 1 = k
        BY <3>1
      <4>3. h[i - 1] = g[k]
        BY <4>2
      <4> QED BY <4>1, <4>2, <4>3
    <3>2. CASE i # k + 1
      <4>1. i \in 1 .. k /\ h[i] = g[i]
        BY <3>2
      <4>2. i # 1 => i - 1 \in 1 .. k + 1 /\ i - 1 # k + 1
        BY <4>1
      <4>3. i # 1 => h[i - 1] = g[i - 1]
        BY <4>2
      <4> QED BY <2>1, <4>1, <4>3
    <3> QED BY <3>1, <3>2
  <2>3. IsFlat(h, k + 1)
    <3> HIDE DEF h
    <3>1. h = [i \in 1 .. k + 1 |-> h[i]]
      BY DEF h
    <3> QED BY <2>2, <3>1
  <2>4. k + 1 \in 1 .. n
    OBVIOUS
  <2> HIDE DEF h, IsFlat
  <2> QED BY <2>3, <2>4
<1>3. n \in T
  <2>1. 1 \in Nat
    OBVIOUS
  <2> HIDE DEF T
  <2>2. 1 .. n \subseteq T
    BY <1>1, <1>2, <2>1, InductionUp
  <2> QED BY <2>2
<1>4. PICK g : IsFlat(g, n)
  BY <1>3
<1> QED BY <1>4 DEF FlattenUpTo

(* A flattened sequence comes apart from the front: tails[k] is what is    *)
(* left of it from its k-th part on.                                       *)
AreTails(tails, seqs, S) ==
  LET n == Len(seqs)
  IN  /\ tails \in [1 .. n + 1 -> Seq(S)]
      /\ tails[n + 1] = << >>
      /\ \A k \in 1 .. n : tails[k] = seqs[k] \o tails[k + 1]

LEMMA FlattenHasTails ==
  ASSUME NEW S, NEW seqs \in Seq(Seq(S))
  PROVE  \E tails : AreTails(tails, seqs, S) /\ tails[1] = FlattenSeq(seqs)
<1> DEFINE n == Len(seqs)
           flat == FlattenUpTo(seqs, n)
           Tails(t, m) == /\ t \in [1 .. m + 1 -> Seq(S)]
                          /\ t[m + 1] = << >>
                          /\ \A k \in 1 .. m : t[k] = seqs[k] \o t[k + 1]
                          /\ t[1] = flat[m]
           T == {m \in 1 .. n : \E t : Tails(t, m)}
<1>0. n \in Nat /\ \A k \in 1 .. n : seqs[k] \in Seq(S)
  BY ElementOfSeq
<1>1. CASE n = 0
  <2> DEFINE t == [k \in 1 .. 1 |-> << >>]
  <2>1. FlattenSeq(seqs) = << >> /\ seqs = << >>
    BY <1>1, EmptySeq DEF FlattenSeq
  <2>2. AreTails(t, seqs, S) /\ t[1] = << >>
    <3>1. << >> \in Seq(S)
      BY EmptySeq
    <3>2. t \in [1 .. 0 + 1 -> Seq(S)]
      BY <3>1
    <3> QED BY <1>1, <3>2 DEF AreTails
  <2> QED BY <2>1, <2>2
<1>2. CASE n >= 1
  <2> HIDE DEF n
  <2>0. flat = [i \in 1 .. n |-> IF i = 1 THEN seqs[i] ELSE flat[i - 1] \o seqs[i]]
    BY <1>0, <1>2, FlattenUnfolds
  <2> HIDE DEF flat
  <2>1. \A i \in 1 .. n : flat[i] = IF i = 1 THEN seqs[i] ELSE flat[i - 1] \o seqs[i]
    BY <2>0
  <2>2. 1 \in T
    <3> DEFINE t == [k \in 1 .. 2 |-> IF k = 1 THEN seqs[1] ELSE << >>]
    <3>1. 1 \in 1 .. n /\ seqs[1] \in Seq(S) /\ << >> \in Seq(S) /\ flat[1] = seqs[1]
      BY <1>0, <1>2, <2>1, EmptySeq
    <3>2. t[1] = seqs[1] /\ t[2] = << >> /\ seqs[1] \o << >> = seqs[1]
      BY <3>1, ConcatEmptySeq
    <3>3. t \in [1 .. 1 + 1 -> Seq(S)]
      BY <3>1
    <3>4. Tails(t, 1)
      BY <3>1, <3>2, <3>3
    <3> QED BY <3>1, <3>4
  <2>3. ASSUME NEW m \in 1 .. n - 1, m \in T PROVE m + 1 \in T
    <3>1. PICK t : Tails(t, m)
      BY <2>3
    <3> DEFINE last == seqs[m + 1]
               u == [k \in 1 .. m + 2 |-> IF k = m + 2 THEN << >> ELSE t[k] \o last]
    <3>2. /\ m \in Nat /\ m >= 1 /\ m + 1 \in 1 .. n
          /\ last \in Seq(S) /\ << >> \in Seq(S)
      BY <1>0, EmptySeq
    <3>u. \A k \in 1 .. m + 2 : u[k] = IF k = m + 2 THEN << >> ELSE t[k] \o last
      OBVIOUS
    <3>v. u = [k \in 1 .. m + 2 |-> u[k]]
      OBVIOUS
    <3> HIDE DEF last, u
    <3>3. ASSUME NEW k \in 1 .. m + 2 PROVE u[k] \in Seq(S)
      <4>1. CASE k = m + 2
        BY <3>2, <3>u, <4>1
      <4>2. CASE k # m + 2
        <5>1. k \in 1 .. m + 1 /\ t[k] \in Seq(S)
          BY <3>1, <4>2
        <5>2. u[k] = t[k] \o last
          BY <3>u, <4>2
        <5> QED BY <3>2, <5>1, <5>2, ConcatProperties
      <4> QED BY <4>1, <4>2
    <3>4. u[m + 2] = << >>
      BY <3>2, <3>u
    <3>5. ASSUME NEW k \in 1 .. m + 1 PROVE u[k] = seqs[k] \o u[k + 1]
      <4>1. u[k] = t[k] \o last
        <5>1. k \in 1 .. m + 2 /\ k # m + 2
          BY <3>2
        <5> QED BY <3>u, <5>1
      <4>2. CASE k = m + 1
        <5>0. t[m + 1] = << >> /\ (m + 1) + 1 = m + 2
          BY <3>1, <3>2
        <5>1. u[k + 1] = << >> /\ t[k] = << >>
          BY <3>4, <4>2, <5>0
        <5>2. << >> \o last = last /\ last \o << >> = last
          BY <3>2, ConcatEmptySeq
        <5> QED BY <4>1, <4>2, <5>1, <5>2 DEF last
      <4>3. CASE k # m + 1
        <5>1. k \in 1 .. m /\ k + 1 \in 1 .. m + 1 /\ k + 1 # m + 2
          BY <3>2, <4>3
        <5>2. u[k + 1] = t[k + 1] \o last
          <6>1. k + 1 \in 1 .. m + 2
            BY <3>2, <5>1
          <6> QED BY <3>u, <5>1, <6>1
        <5>3. t[k] = seqs[k] \o t[k + 1] /\ t[k + 1] \in Seq(S)
          BY <3>1, <5>1
        <5>4. seqs[k] \in Seq(S)
          BY <1>0, <3>2, <5>1
        <5>a. \A x, y, z \in Seq(S) : (x \o y) \o z = x \o (y \o z)
          BY ConcatAssociative
        <5>5. (seqs[k] \o t[k + 1]) \o last = seqs[k] \o (t[k + 1] \o last)
          BY <3>2, <5>a, <5>3, <5>4
        <5> QED BY <4>1, <5>2, <5>3, <5>5
      <4> QED BY <4>2, <4>3
    <3>6. u[1] = flat[m + 1]
      <4>0. 1 \in 1 .. m + 2 /\ 1 # m + 2
        BY <3>2
      <4>1. u[1] = t[1] \o last /\ t[1] = flat[m]
        BY <3>1, <3>u, <4>0
      <4>2. flat[m + 1] = flat[m] \o last
        <5>1. m + 1 # 1 /\ (m + 1) - 1 = m
          BY <3>2
        <5> QED BY <2>1, <3>2, <5>1 DEF last
      <4> QED BY <4>1, <4>2
    <3>7. u \in [1 .. (m + 1) + 1 -> Seq(S)]
      <4>1. (m + 1) + 1 = m + 2 /\ u = [k \in 1 .. m + 2 |-> u[k]]
        BY <3>2, <3>v
      <4> QED BY <3>3, <4>1
    <3>8. u[(m + 1) + 1] = << >>
      <4>1. (m + 1) + 1 = m + 2
        BY <3>2
      <4> QED BY <3>4, <4>1
    <3>9. Tails(u, m + 1)
      BY <3>5, <3>6, <3>7, <3>8
    <3> QED BY <3>2, <3>9
  <2>4. n \in T
    <3>1. 1 \in Nat
      OBVIOUS
    <3> HIDE DEF T
    <3>2. 1 .. n \subseteq T
      BY <1>0, <2>2, <2>3, <3>1, InductionUp
    <3> QED BY <1>0, <1>2, <3>2
  <2>5. PICK t : Tails(t, n)
    BY <2>4
  <2>6. FlattenSeq(seqs) = flat[n]
    BY <1>2 DEF FlattenSeq, FlattenUpTo, flat, n
  <2> QED BY <2>5, <2>6 DEF AreTails, n
<1> QED BY <1>0, <1>1, <1>2

(* Where the parts agree from some place on, so does what is left there.   *)
LEMMA TailsAgree ==
  ASSUME NEW S, NEW seqs \in Seq(Seq(S)), NEW tails, AreTails(tails, seqs, S),
         NEW others \in Seq(Seq(S)), NEW ends, AreTails(ends, others, S),
         Len(others) = Len(seqs), NEW j \in 1 .. Len(seqs) + 1,
         \A k \in j .. Len(seqs) : others[k] = seqs[k]
  PROVE  ends[j] = tails[j]
<1> DEFINE n == Len(seqs)
           T == {k \in j .. n + 1 : ends[k] = tails[k]}
<1>1. n \in Nat /\ j \in Nat /\ j \in j .. n + 1
  OBVIOUS
<1>2. n + 1 \in T
  BY <1>1 DEF AreTails
<1>3. ASSUME NEW k \in j .. (n + 1) - 1, k + 1 \in T PROVE k \in T
  <2>1. k \in 1 .. n /\ k \in j .. n /\ k \in j .. n + 1
    BY <1>1
  <2>2. tails[k] = seqs[k] \o tails[k + 1] /\ ends[k] = others[k] \o ends[k + 1]
    BY <2>1 DEF AreTails
  <2> QED BY <1>3, <2>1, <2>2
<1> HIDE DEF T, n
<1>4. j .. n + 1 \subseteq T
  <2>1. n + 1 \in Nat
    BY <1>1
  <2> QED BY <1>1, <1>2, <1>3, <2>1, InductionDown
<1> QED BY <1>1, <1>4 DEF T

(* Empty parts leave nothing behind.                                       *)
LEMMA TailsSkip ==
  ASSUME NEW S, NEW seqs \in Seq(Seq(S)), NEW tails, AreTails(tails, seqs, S),
         NEW j \in 1 .. Len(seqs) + 1,
         \A k \in 1 .. j - 1 : seqs[k] = << >>
  PROVE  tails[1] = tails[j]
<1> DEFINE T == {k \in 1 .. j : tails[k] = tails[j]}
<1>1. Len(seqs) \in Nat /\ 1 \in Nat /\ j \in Nat /\ 1 \in 1 .. j /\ j \in T
  OBVIOUS
<1>2. ASSUME NEW k \in 1 .. j - 1, k + 1 \in T PROVE k \in T
  <2>1. k \in 1 .. Len(seqs) /\ k \in 1 .. j /\ k + 1 \in 1 .. Len(seqs) + 1
    BY <1>1
  <2>2. tails[k] = << >> \o tails[k + 1] /\ tails[k + 1] \in Seq(S)
    BY <2>1 DEF AreTails
  <2>3. tails[k] = tails[k + 1]
    BY <2>2, ConcatEmptySeq
  <2> QED BY <1>2, <2>1, <2>3
<1> HIDE DEF T
<1>3. 1 .. j \subseteq T
  BY <1>1, <1>2, InductionDown
<1> QED BY <1>1, <1>3 DEF T

-------------------------------------------------------------------------------
(* decode_fields, for any bytes.                                           *)

Accepts(body, i) == LET b == RestFrom(body, i) IN MoreFields(b) /\ WellFormed(b)

Walk(body) ==
  CHOOSE walk : walk =
    [i \in 0 .. Len(body) |->
       LET b == RestFrom(body, i)
       IN  IF MoreFields(b) /\ WellFormed(b)
             THEN Insert(ByteAt(b, 0), Value(b), walk[i + Consumed(b)])
             ELSE << >>]

(* A field that is accepted ends within the body.                          *)
LEMMA WalkMovesOn ==
  ASSUME NEW body \in Seq(Byte), NEW i \in 0 .. Len(body), Accepts(body, i)
  PROVE  i + Consumed(RestFrom(body, i)) \in i + 3 .. Len(body)
<1> DEFINE b == RestFrom(body, i)
<1>1. b \in Seq(Byte) /\ Len(b) = Len(body) - i /\ Len(body) \in Nat /\ i \in Nat
  BY RestProperties
<1>2. MoreFields(b) /\ WellFormed(b)
  BY DEF Accepts
<1> HIDE DEF b
<1>3. Consumed(b) \in 3 .. Len(b)
  BY <1>1, <1>2, AcceptedFits
<1>4. i + Consumed(b) \in i + 3 .. Len(body)
  BY <1>1, <1>3
<1> QED BY <1>4 DEF b

LEMMA WalkUnfolds ==
  ASSUME NEW body \in Seq(Byte)
  PROVE  /\ DecodeFields(body) = Walk(body)[0]
         /\ \A i \in 0 .. Len(body) :
              Walk(body)[i] = LET b == RestFrom(body, i)
                              IN  IF Accepts(body, i)
                                    THEN Insert(ByteAt(b, 0), Value(b),
                                                Walk(body)[i + Consumed(b)])
                                    ELSE << >>
<1> DEFINE n == Len(body)
           To(i) == i + Consumed(RestFrom(body, i))
           Add(i, later) == Insert(ByteAt(RestFrom(body, i), 0),
                                   Value(RestFrom(body, i)), later)
           IsWalk(g, k) == g = [i \in k .. n |->
                                  IF Accepts(body, i) THEN Add(i, g[To(i)]) ELSE << >>]
           T == {k \in 0 .. n : \E g : IsWalk(g, k)}
<1>1. n \in Nat
  OBVIOUS
<1>2. \A i \in 0 .. n : Accepts(body, i) => To(i) \in i + 1 .. n
  <2> SUFFICES ASSUME NEW i \in 0 .. n, Accepts(body, i) PROVE To(i) \in i + 1 .. n
    OBVIOUS
  <2>1. To(i) \in i + 3 .. n
    BY WalkMovesOn
  <2> HIDE DEF To
  <2> QED BY <1>1, <2>1
<1> HIDE DEF n, To, Add
<1>3. ASSUME NEW k \in 0 .. n, NEW g, IsWalk(g, k + 1)
      PROVE  k \in T
  <2> DEFINE h == [i \in k .. n |->
                     IF i = k THEN IF Accepts(body, k) THEN Add(k, g[To(k)]) ELSE << >>
                              ELSE g[i]]
  <2>1. ASSUME NEW i \in k .. n
        PROVE  h[i] = IF Accepts(body, i) THEN Add(i, h[To(i)]) ELSE << >>
    <3>1. Accepts(body, i) => To(i) \in k .. n /\ To(i) # k /\ h[To(i)] = g[To(i)]
      <4>1. i \in 0 .. n /\ i \in Nat /\ k \in Nat
        BY <1>1
      <4>2. Accepts(body, i) => To(i) \in i + 1 .. n
        BY <1>2, <4>1
      <4>3. Accepts(body, i) => To(i) \in k .. n /\ To(i) # k
        BY <1>1, <4>1, <4>2
      <4> QED BY <4>3
    <3>2. CASE i = k
      BY <3>1, <3>2
    <3>3. CASE i # k
      <4>1. i \in k + 1 .. n /\ h[i] = g[i]
        BY <1>1, <3>3
      <4>2. g[i] = IF Accepts(body, i) THEN Add(i, g[To(i)]) ELSE << >>
        BY <1>3, <4>1
      <4> QED BY <3>1, <4>1, <4>2
    <3> QED BY <3>2, <3>3
  <2>2. h = [i \in k .. n |-> h[i]]
    OBVIOUS
  <2> HIDE DEF h
  <2>3. IsWalk(h, k)
    BY <2>1, <2>2
  <2> QED BY <2>3
<1>4. n \in T
  <2> DEFINE none == [i \in n + 1 .. n |-> << >>]
  <2>1. IsWalk(none, n + 1)
    BY <1>1
  <2> HIDE DEF none, IsWalk, T
  <2> QED BY <1>1, <1>3, <2>1
<1>5. ASSUME NEW k \in 0 .. n - 1, k + 1 \in T PROVE k \in T
  <2>1. PICK g : IsWalk(g, k + 1)
    BY <1>5
  <2> HIDE DEF IsWalk, T
  <2> QED BY <1>1, <1>3, <2>1
<1>6. 0 \in T
  <2>1. 0 \in Nat
    OBVIOUS
  <2> HIDE DEF T
  <2>2. 0 .. n \subseteq T
    BY <1>1, <1>4, <1>5, <2>1, InductionDown
  <2> QED BY <1>1, <2>2
<1>7. IsWalk(Walk(body), 0)
  <2>1. PICK g : IsWalk(g, 0)
    BY <1>6
  <2>2. Walk(body) = CHOOSE w : IsWalk(w, 0)
    BY DEF Walk, Accepts, Add, To, n
  <2> HIDE DEF IsWalk
  <2> QED BY <2>1, <2>2
<1>8. DecodeFields(body) = Walk(body)[0]
  BY DEF DecodeFields, Walk
<1> DEFINE walk == Walk(body)
<1>9. walk = [i \in 0 .. n |-> IF Accepts(body, i) THEN Add(i, walk[To(i)]) ELSE << >>]
  BY <1>7
<1> HIDE DEF walk
<1>10. \A i \in 0 .. n : walk[i] = IF Accepts(body, i) THEN Add(i, walk[To(i)]) ELSE << >>
  BY <1>9
<1> QED BY <1>8, <1>10 DEF walk, Add, To, n

-------------------------------------------------------------------------------
(* The encoding of a field, and what follows it, byte by byte.             *)

(* What the length counts: the type byte, if there is one, and the value.  *)
LEMMA ContentBytes ==
  ASSUME NEW f, f.value \in Seq(Byte), TypeIsPlain(f)
  PROVE  /\ Content(f) \in Seq(Byte) /\ Len(f.value) \in Nat /\ Len(f.value) >= 1
         /\ f.type = NoType => Content(f) = f.value
         /\ f.type # NoType =>
              /\ f.type \in Byte /\ f.type <= TypeMax
              /\ Len(Content(f)) = Len(f.value) + 1 /\ Content(f)[1] = f.type
              /\ \A i \in 1 .. Len(f.value) : Content(f)[i + 1] = f.value[i]
<1>1. Len(f.value) \in Nat /\ Len(f.value) >= 1
  BY EmptySeq DEF TypeIsPlain
<1>2. CASE f.type = NoType
  BY <1>1, <1>2 DEF Content
<1>3. CASE f.type # NoType
  <2> DEFINE v == f.value  t == <<f.type>>
  <2>1. f.type \in Byte /\ f.type <= TypeMax /\ Content(f) = t \o v
    BY <1>3 DEF TypeIsPlain, Content
  <2>2. t \in Seq(Byte) /\ Len(t) = 1 /\ t[1] = f.type /\ v \in Seq(Byte)
    BY <2>1
  <2> HIDE DEF t
  <2>3. /\ t \o v \in Seq(Byte) /\ Len(t \o v) = Len(t) + Len(v)
        /\ \A i \in 1 .. Len(t) + Len(v) :
             (t \o v)[i] = IF i <= Len(t) THEN t[i] ELSE v[i - Len(t)]
    <3> HIDE DEF v
    <3> QED BY <2>2, ConcatProperties
  <2>4. (t \o v)[1] = f.type
    BY <1>1, <2>2, <2>3
  <2>5. \A i \in 1 .. Len(v) : (t \o v)[i + 1] = v[i]
    BY <1>1, <2>2, <2>3
  <2> QED BY <1>1, <1>3, <2>1, <2>2, <2>3, <2>4, <2>5
<1> QED BY <1>2, <1>3

(* A name, a length, a content and what follows.                           *)
HasBytes(b, name, len, content, rest) ==
  /\ b \in Seq(Byte)
  /\ Len(b) = 1 + Len(len) + Len(content) + Len(rest)
  /\ b[1] = name
  /\ \A i \in 1 .. Len(len) : b[1 + i] = len[i]
  /\ \A i \in 1 .. Len(content) : b[1 + Len(len) + i] = content[i]
  /\ \A i \in 1 .. Len(rest) : b[1 + Len(len) + Len(content) + i] = rest[i]
  /\ RestFrom(b, 1 + Len(len) + Len(content)) = rest

LEMMA FieldBytes ==
  ASSUME NEW name \in Byte, NEW len \in Seq(Byte), NEW content \in Seq(Byte),
         NEW rest \in Seq(Byte), NEW b, b = (<<name>> \o len \o content) \o rest
  PROVE  HasBytes(b, name, len, content, rest)
<1>0. \A x, y \in Seq(Byte) :
        /\ x \o y \in Seq(Byte) /\ Len(x \o y) = Len(x) + Len(y)
        /\ \A i \in 1 .. Len(x) + Len(y) :
             (x \o y)[i] = IF i <= Len(x) THEN x[i] ELSE y[i - Len(x)]
  BY ConcatProperties
<1> DEFINE h == <<name>>  hl == h \o len  hlc == hl \o content
<1>1. h \in Seq(Byte) /\ Len(h) = 1 /\ h[1] = name
  OBVIOUS
<1>2. Len(len) \in Nat /\ Len(content) \in Nat /\ Len(rest) \in Nat
  OBVIOUS
<1>a. b = hlc \o rest
  OBVIOUS
<1>b. hlc = <<name>> \o len \o content
  OBVIOUS
<1> HIDE DEF h
<1>3. /\ hl \in Seq(Byte) /\ Len(hl) = Len(h) + Len(len)
      /\ \A i \in 1 .. Len(h) + Len(len) :
           hl[i] = IF i <= Len(h) THEN h[i] ELSE len[i - Len(h)]
  BY <1>0, <1>1
<1> HIDE DEF hl
<1>4. /\ hlc \in Seq(Byte) /\ Len(hlc) = Len(hl) + Len(content)
      /\ \A i \in 1 .. Len(hl) + Len(content) :
           hlc[i] = IF i <= Len(hl) THEN hl[i] ELSE content[i - Len(hl)]
  BY <1>0, <1>3
<1> HIDE DEF hlc
<1>5. /\ hlc \o rest \in Seq(Byte) /\ Len(hlc \o rest) = Len(hlc) + Len(rest)
      /\ \A i \in 1 .. Len(hlc) + Len(rest) :
           (hlc \o rest)[i] = IF i <= Len(hlc) THEN hlc[i] ELSE rest[i - Len(hlc)]
  BY <1>0, <1>4
<1>6. /\ b \in Seq(Byte) /\ Len(b) = Len(hlc) + Len(rest)
      /\ \A i \in 1 .. Len(hlc) + Len(rest) :
           b[i] = IF i <= Len(hlc) THEN hlc[i] ELSE rest[i - Len(hlc)]
  BY <1>5, <1>a
<1>7. b[1] = name
  BY <1>1, <1>2, <1>3, <1>4, <1>6
<1>8. \A i \in 1 .. Len(len) : b[1 + i] = len[i]
  BY <1>1, <1>2, <1>3, <1>4, <1>6
<1>9. \A i \in 1 .. Len(content) : b[1 + Len(len) + i] = content[i]
  BY <1>1, <1>2, <1>3, <1>4, <1>6
<1>10. \A i \in 1 .. Len(rest) : b[1 + Len(len) + Len(content) + i] = rest[i]
  BY <1>1, <1>2, <1>3, <1>4, <1>6
<1>11. RestFrom(b, 1 + Len(len) + Len(content)) = rest
  <2> DEFINE k == 1 + Len(len) + Len(content)  r == RestFrom(b, k)
  <2>1. k \in 0 .. Len(b) /\ Len(b) - k = Len(rest)
    BY <1>2, <1>3, <1>4, <1>6
  <2>2. \A i \in 1 .. Len(rest) : b[k + i] = rest[i]
    BY <1>10
  <2> HIDE DEF k
  <2>3. /\ r \in Seq(Byte) /\ Len(r) = Len(rest)
        /\ \A i \in 1 .. Len(rest) : r[i] = b[k + i]
    BY <1>6, <2>1, RestProperties
  <2>4. \A i \in 1 .. Len(r) : r[i] = rest[i]
    BY <2>2, <2>3
  <2> HIDE DEF r
  <2>5. r = rest
    BY <2>3, <2>4, SeqEqual
  <2> QED BY <2>5 DEF r, k
<1>12. Len(b) = 1 + Len(len) + Len(content) + Len(rest)
  BY <1>1, <1>2, <1>3, <1>4, <1>6
<1> QED BY <1>6, <1>7, <1>8, <1>9, <1>10, <1>11, <1>12 DEF HasBytes

(* A cut of the right bytes is the value.                                  *)
LEMMA CutIsValue ==
  ASSUME NEW b \in Seq(Byte), NEW v \in Seq(Byte), NEW from \in Nat,
         from + Len(v) <= Len(b),
         \A i \in 1 .. Len(v) : b[from + i] = v[i]
  PROVE  Cut(b, from, Len(v)) = v
<1> DEFINE c == SubSeq(b, from + 1, from + Len(v))
<1>1. Len(v) \in Nat /\ from + 1 \in Int /\ from + Len(v) \in Int
  OBVIOUS
<1>2. \A i \in from + 1 .. from + Len(v) : b[i] \in Byte
  <2> SUFFICES ASSUME NEW i \in from + 1 .. from + Len(v) PROVE b[i] \in Byte
    OBVIOUS
  <2>1. i \in 1 .. Len(b)
    BY <1>1
  <2> QED BY <2>1, ElementOfSeq
<1>3. /\ c \in Seq(Byte)
      /\ Len(c) = IF from + 1 <= from + Len(v) THEN from + Len(v) - (from + 1) + 1 ELSE 0
      /\ \A i \in 1 .. from + Len(v) - (from + 1) + 1 : c[i] = b[from + 1 + i - 1]
  BY <1>1, <1>2, SubSeqProperties
<1> HIDE DEF c
<1>4. Len(c) = Len(v)
  BY <1>1, <1>3
<1>5. ASSUME NEW i \in 1 .. Len(v) PROVE c[i] = v[i]
  <2>1. i \in 1 .. from + Len(v) - (from + 1) + 1 /\ from + 1 + i - 1 = from + i
    BY <1>1
  <2> QED BY <1>3, <2>1
<1>6. c = v
  BY <1>3, <1>4, <1>5, SeqEqual
<1> QED BY <1>6 DEF c, Cut

(* The encoding of a plain field: the length of its content in one byte or *)
(* two.                                                                    *)
LEMMA PlainContent ==
  ASSUME NEW f, NEW size, IsPlain(f, size)
  PROVE  /\ Content(f) \in Seq(Byte) /\ Len(Content(f)) \in Nat /\ Len(Content(f)) >= 1
         /\ f.width = 1 => Len(Content(f)) \in Byte
         /\ f.width # 1 =>
              LET n == Len(Content(f))
              IN  n % Base \in Byte /\ n \div Base \in Byte /\ (n % Base) + Base * (n \div Base) = n
<1>1. f.value \in Seq(Byte) /\ TypeIsPlain(f)
  BY DEF IsPlain
<1>2. Base \in Nat /\ Base >= 6
  BY TlvAssumption
<1> DEFINE n == Len(Content(f))
<1>3. Content(f) \in Seq(Byte) /\ n \in Nat
  BY <1>1, ContentBytes
<1>4. n >= 1
  <2>1. CASE f.type = NoType
    BY <1>1, <2>1, ContentBytes
  <2>2. CASE f.type # NoType
    BY <1>1, <2>2, ContentBytes
  <2> QED BY <2>1, <2>2
<1>5. f.width = 1 => n \in Byte
  BY <1>2, <1>3 DEF IsPlain, OneByteIsPlain, Byte
<1>6. f.width # 1 => n < Base * Base
  BY <1>2, <1>3 DEF IsPlain, TwoBytesArePlain
<1> HIDE DEF n
<1>7. n % Base \in Byte /\ (n % Base) + Base * (n \div Base) = n
  BY <1>2, <1>3 DEF Byte
<1>8. f.width # 1 => n \div Base \in Byte
  BY <1>2, <1>3, <1>6 DEF Byte
<1> QED BY <1>3, <1>4, <1>5, <1>7, <1>8 DEF n

(* A field of one-byte length is taken for one, whatever follows.          *)
LEMMA OneByteLenSeen ==
  ASSUME NEW name \in Names, NEW f, f.width = 1, NEW b \in Seq(Byte),
         NEW rest \in Seq(Byte), rest # << >>, Len(rest) = 1 \/ rest[1] > name,
         IsPlain(f, Len(b)), Len(b) = 2 + Len(Content(f)) + Len(rest),
         b[1] = name, b[2] = Len(Content(f)),
         \A i \in 1 .. Len(Content(f)) : b[2 + i] = Content(f)[i],
         \A i \in 1 .. Len(rest) : b[2 + Len(Content(f)) + i] = rest[i]
  PROVE  ~TwoByteLen(b)
<1> DEFINE c == Content(f)  n == Len(c)
<1>1. Base \in Nat /\ Base >= 6 /\ name >= 5 /\ name \in Nat
  BY TlvAssumption DEF Names
<1>2. Len(b) \in Nat /\ Len(rest) \in Nat /\ Len(rest) >= 1
  BY EmptySeq
<1>3. n \in Nat /\ n >= 1
  BY <1>2, PlainContent
<1>4. ByteAt(b, 3) = b[4] /\ TentativeLen(b) = b[2] + Base * b[3]
  BY DEF ByteAt, TentativeLen
<1>5. b[3] = c[1]
  <2>1. 1 \in 1 .. n /\ 2 + 1 = 3
    BY <1>3
  <2> QED BY <2>1
<1>6. CASE n = 1
  <2>1. 2 + n + 1 = 4 /\ 1 \in 1 .. Len(rest)
    BY <1>2, <1>6
  <2>2. b[4] = rest[1]
    BY <2>1
  <2>3. CASE Len(rest) = 1
    <3>1. Len(b) - 4 = 0
      BY <1>6, <2>3
    <3>2. ~(TentativeLen(b) > 3 /\ TentativeLen(b) <= Len(b) - 4)
      <4>1. TentativeLen(b) \in Nat
        <5>1. MoreFields(b)
          BY <1>2, <1>3, <2>3 DEF MoreFields
        <5> QED BY <5>1, TentativeLenType
      <4> QED BY <3>1, <4>1
    <3> QED BY <3>2 DEF TwoByteLen
  <2>4. CASE rest[1] > name
    <3>1. rest[1] \in Byte
      BY <2>1, ElementOfSeq
    <3>2. rest[1] \notin {0, 4}
      BY <1>1, <2>4, <3>1 DEF Byte
    <3> QED BY <1>4, <2>2, <3>2 DEF TwoByteLen
  <2> QED BY <2>3, <2>4
<1>7. CASE n # 1
  <2>1. 2 \in 1 .. n /\ 2 + 2 = 4
    <3> HIDE DEF n
    <3> QED BY <1>3, <1>7
  <2>2. b[4] = c[2]
    BY <2>1
  <2>3. c[2] \notin {0, 4} \/ n + Base * c[1] > Len(b) - 4
    BY <1>7 DEF IsPlain, OneByteIsPlain
  <2>4. CASE c[2] \notin {0, 4}
    BY <1>4, <2>2, <2>4 DEF TwoByteLen
  <2>5. CASE n + Base * c[1] > Len(b) - 4
    <3>1. TentativeLen(b) > Len(b) - 4
      BY <1>4, <1>5, <2>5
    <3>2. TentativeLen(b) \in Nat
      <4>1. MoreFields(b)
        BY <1>2, <1>3 DEF MoreFields
      <4> QED BY <4>1, TentativeLenType
    <3>3. ~(TentativeLen(b) <= Len(b) - 4)
      BY <1>2, <3>1, <3>2
    <3> QED BY <3>3 DEF TwoByteLen
  <2> QED BY <2>3, <2>4, <2>5
<1> QED BY <1>6, <1>7

(* And one of two bytes, by the type that follows and the bytes after it.  *)
LEMMA TwoByteLenSeen ==
  ASSUME NEW name \in Names, NEW f, f.width # 1, NEW b \in Seq(Byte),
         NEW rest \in Seq(Byte), rest # << >>, Len(rest) = 1 \/ rest[1] > name,
         IsPlain(f, Len(b)), Len(b) = 3 + Len(Content(f)) + Len(rest),
         b[1] = name, b[2] + Base * b[3] = Len(Content(f)),
         \A i \in 1 .. Len(Content(f)) : b[3 + i] = Content(f)[i],
         \A i \in 1 .. Len(rest) : b[3 + Len(Content(f)) + i] = rest[i]
  PROVE  TwoByteLen(b) /\ TentativeLen(b) = Len(Content(f))
<1> DEFINE c == Content(f)  n == Len(c)
<1>1. Base \in Nat /\ Base >= 6 /\ name >= 5 /\ name \in Nat
  BY TlvAssumption DEF Names
<1>2. Len(b) \in Nat /\ Len(rest) \in Nat /\ Len(rest) >= 1
  BY EmptySeq
<1>3. n \in Nat /\ n >= 4 /\ TypeIsPlain(f) /\ f.value \in Seq(Byte)
  <2>1. n \in Nat
    BY <1>2, PlainContent
  <2> QED BY <1>1, <2>1 DEF IsPlain, TwoBytesArePlain
<1>4. f.type # NoType /\ f.type \in {0, 4}
      /\ (f.type = 0 => \A i \in DOMAIN f.value : f.value[i] < Ascii)
  BY <1>1 DEF IsPlain, TwoBytesArePlain, NoType
<1>5. /\ Len(f.value) \in Nat /\ n = Len(f.value) + 1 /\ c[1] = f.type
      /\ \A i \in 1 .. Len(f.value) : c[i + 1] = f.value[i]
  BY <1>3, <1>4, ContentBytes
<1>6. ByteAt(b, 3) = b[4] /\ TentativeLen(b) = n
  BY DEF ByteAt, TentativeLen
<1>7. b[4] = f.type
  <2>1. 1 \in 1 .. n /\ 3 + 1 = 4
    BY <1>3
  <2> QED BY <1>5, <2>1
<1>8. Len(b) >= 4 /\ n > 3 /\ n <= Len(b) - 4
  BY <1>2, <1>3
<1>9. EndsAtNextField(b)
  <2>1. CASE Len(rest) = 1
    <3>1. Len(b) - TentativeLen(b) = 4
      BY <1>3, <1>6, <2>1
    <3> QED BY <3>1 DEF EndsAtNextField
  <2>2. CASE rest[1] > name
    <3>1. 3 + n + 1 = (3 + TentativeLen(b)) + 1 /\ 1 \in 1 .. Len(rest)
      BY <1>2, <1>3, <1>6
    <3>2. ByteAt(b, 3 + TentativeLen(b)) = rest[1] /\ ByteAt(b, 0) = name
      BY <3>1 DEF ByteAt
    <3>3. Len(b) - TentativeLen(b) >= 3
      BY <1>2, <1>3, <1>6
    <3> QED BY <2>2, <3>2, <3>3 DEF EndsAtNextField
  <2> QED BY <2>1, <2>2
<1>10. f.type = 0 => IsText(b)
  <2> SUFFICES ASSUME f.type = 0, NEW i \in 4 .. n + 2 PROVE ByteAt(b, i) < Ascii
    BY <1>6 DEF IsText
  <2>1. i - 2 \in 1 .. n /\ 3 + (i - 2) = i + 1
        /\ i - 3 \in 1 .. Len(f.value) /\ (i - 3) + 1 = i - 2
    BY <1>3, <1>5
  <2>2. b[i + 1] = f.value[i - 3]
    <3>1. c[(i - 3) + 1] = f.value[i - 3]
      BY <1>5, <2>1
    <3>2. b[3 + (i - 2)] = c[i - 2]
      BY <2>1
    <3> QED BY <2>1, <3>1, <3>2
  <2>3. i - 3 \in DOMAIN f.value
    BY <1>3, <2>1
  <2> QED BY <1>4, <2>2, <2>3 DEF ByteAt
<1> QED BY <1>4, <1>6, <1>7, <1>8, <1>9, <1>10 DEF TwoByteLen

(* A name, w bytes of length, the content and what follows.               *)
HasForm(b, name, w, content, rest) ==
  /\ b \in Seq(Byte) /\ Len(b) = 1 + w + Len(content) + Len(rest)
  /\ b[1] = name
  /\ w = 1 => b[2] = Len(content)
  /\ w = 2 => b[2] + Base * b[3] = Len(content)
  /\ \A i \in 1 .. Len(content) : b[1 + w + i] = content[i]
  /\ \A i \in 1 .. Len(rest) : b[1 + w + Len(content) + i] = rest[i]
  /\ RestFrom(b, 1 + w + Len(content)) = rest

LEMMA FieldHasForm ==
  ASSUME NEW name, NEW len, NEW content, NEW rest, NEW b,
         HasBytes(b, name, len, content, rest),
         Len(len) = 1 => len[1] = Len(content),
         Len(len) = 2 => len[1] + Base * len[2] = Len(content)
  PROVE  HasForm(b, name, Len(len), content, rest)
<1>1. \A i \in 1 .. Len(len) : b[1 + i] = len[i]
  BY DEF HasBytes
<1>2. Len(len) = 1 => b[2] = Len(content)
  <2> SUFFICES ASSUME Len(len) = 1 PROVE b[2] = len[1]
    OBVIOUS
  <2>1. 1 \in 1 .. Len(len) /\ 1 + 1 = 2
    OBVIOUS
  <2> QED BY <1>1, <2>1
<1>3. Len(len) = 2 => b[2] + Base * b[3] = Len(content)
  <2> SUFFICES ASSUME Len(len) = 2 PROVE b[2] = len[1] /\ b[3] = len[2]
    OBVIOUS
  <2>1. 1 \in 1 .. Len(len) /\ 2 \in 1 .. Len(len) /\ 1 + 1 = 2 /\ 1 + 2 = 3
    OBVIOUS
  <2> QED BY <1>1, <2>1
<1> QED BY <1>2, <1>3 DEF HasBytes, HasForm

LEMMA PlainFieldHasForm ==
  ASSUME NEW name \in Byte, NEW f, NEW rest \in Seq(Byte),
         NEW size, IsPlain(f, size)
  PROVE  HasForm(EncodeField(name, f) \o rest, name, IF f.width = 1 THEN 1 ELSE 2,
                 Content(f), rest)
<1> DEFINE c == Content(f)
<1>1. c \in Seq(Byte)
  BY PlainContent
<1>2. CASE f.width = 1
  <2> DEFINE len == <<Len(c)>>
  <2>1. Len(c) \in Byte
    BY <1>2, PlainContent
  <2>2. EncodeField(name, f) \o rest = (<<name>> \o len \o c) \o rest
    BY <1>2 DEF EncodeField
  <2> HIDE DEF c
  <2>3. len \in Seq(Byte) /\ Len(len) = 1 /\ len[1] = Len(c)
    BY <2>1
  <2> HIDE DEF len
  <2> DEFINE b == (<<name>> \o len \o c) \o rest
  <2>4. HasBytes(b, name, len, c, rest)
    BY <1>1, <2>3, FieldBytes
  <2> HIDE DEF b
  <2>5. (Len(len) = 1 => len[1] = Len(c))
        /\ (Len(len) = 2 => len[1] + Base * len[2] = Len(c))
    BY <2>3
  <2>6. HasForm(b, name, Len(len), c, rest)
    BY <2>4, <2>5, FieldHasForm, Zenon
  <2> QED BY <1>2, <2>2, <2>3, <2>6 DEF b, c
<1>3. CASE f.width # 1
  <2> DEFINE low == Len(c) % Base  high == Len(c) \div Base  len == <<low, high>>
  <2>1. low \in Byte /\ high \in Byte /\ low + Base * high = Len(c)
    BY <1>3, PlainContent
  <2>2. EncodeField(name, f) \o rest = (<<name>> \o len \o c) \o rest
    BY <1>3 DEF EncodeField
  <2> HIDE DEF c, low, high
  <2>3. len \in Seq(Byte) /\ Len(len) = 2 /\ len[1] + Base * len[2] = Len(c)
    BY <2>1
  <2> HIDE DEF len
  <2> DEFINE b == (<<name>> \o len \o c) \o rest
  <2>4. HasBytes(b, name, len, c, rest)
    BY <1>1, <2>3, FieldBytes
  <2> HIDE DEF b
  <2>5. (Len(len) = 1 => len[1] = Len(c))
        /\ (Len(len) = 2 => len[1] + Base * len[2] = Len(c))
    BY <2>3
  <2>6. HasForm(b, name, Len(len), c, rest)
    BY <2>4, <2>5, FieldHasForm, Zenon
  <2> QED BY <1>3, <2>2, <2>3, <2>6 DEF b, c
<1> QED BY <1>2, <1>3

(* The decoder sees the width of the length.                               *)
LEMMA WidthSeen ==
  ASSUME NEW name \in Names, NEW f, NEW rest \in Seq(Byte), rest # << >>,
         Len(rest) = 1 \/ rest[1] > name, NEW b,
         HasForm(b, name, IF f.width = 1 THEN 1 ELSE 2, Content(f), rest),
         IsPlain(f, Len(b))
  PROVE  /\ LenBytes(b) = IF f.width = 1 THEN 1 ELSE 2
         /\ FieldLen(b) = Len(Content(f))
<1>1. b \in Seq(Byte) /\ b[1] = name /\ Len(b) \in Nat
  BY DEF HasForm
<1>2. Len(Content(f)) \in Nat
  BY <1>1, PlainContent
<1>3. CASE f.width = 1
  <2>1. /\ Len(b) = 1 + 1 + Len(Content(f)) + Len(rest) /\ b[2] = Len(Content(f))
        /\ \A i \in 1 .. Len(Content(f)) : b[1 + 1 + i] = Content(f)[i]
        /\ \A i \in 1 .. Len(rest) : b[1 + 1 + Len(Content(f)) + i] = rest[i]
    BY <1>3 DEF HasForm
  <2>2. 1 + 1 = 2
    OBVIOUS
  <2>3. ~TwoByteLen(b)
    BY <1>1, <1>3, <2>1, <2>2, OneByteLenSeen
  <2> QED BY <1>3, <2>1, <2>3 DEF LenBytes, FieldLen, ByteAt
<1>4. CASE f.width # 1
  <2>1. /\ Len(b) = 1 + 2 + Len(Content(f)) + Len(rest)
        /\ b[2] + Base * b[3] = Len(Content(f))
        /\ \A i \in 1 .. Len(Content(f)) : b[1 + 2 + i] = Content(f)[i]
        /\ \A i \in 1 .. Len(rest) : b[1 + 2 + Len(Content(f)) + i] = rest[i]
    BY <1>4 DEF HasForm
  <2>2. /\ Len(b) = 3 + Len(Content(f)) + Len(rest)
        /\ \A i \in 1 .. Len(Content(f)) : b[3 + i] = Content(f)[i]
        /\ \A i \in 1 .. Len(rest) : b[3 + Len(Content(f)) + i] = rest[i]
    <3>1. 1 + 2 = 3
      OBVIOUS
    <3> QED BY <2>1, <3>1
  <2>3. TwoByteLen(b) /\ TentativeLen(b) = Len(Content(f))
    BY <1>1, <1>4, <2>1, <2>2, TwoByteLenSeen
  <2> QED BY <1>4, <2>3 DEF LenBytes, FieldLen
<1> QED BY <1>3, <1>4

(* And so the value is what was encoded.                                   *)
LEMMA ValueSeen ==
  ASSUME NEW f, NEW rest \in Seq(Byte), NEW b, NEW name, NEW w \in {1, 2},
         HasForm(b, name, w, Content(f), rest), f.value \in Seq(Byte),
         TypeIsPlain(f), f.type = NoType => w = 1,
         LenBytes(b) = w, FieldLen(b) = Len(Content(f))
  PROVE  Value(b) = f.value
<1> DEFINE c == Content(f)  n == Len(c)  v == f.value
<1>1. c \in Seq(Byte) /\ n \in Nat /\ Len(v) \in Nat /\ Len(v) >= 1 /\ Len(rest) \in Nat
  BY ContentBytes
<1>2. /\ b \in Seq(Byte) /\ Len(b) = 1 + w + n + Len(rest)
      /\ \A i \in 1 .. n : b[1 + w + i] = c[i]
  BY DEF HasForm
<1>3. f.type = NoType => c = v
  BY ContentBytes
<1>4. f.type # NoType =>
        /\ f.type <= TypeMax /\ n = Len(v) + 1 /\ c[1] = f.type
        /\ \A i \in 1 .. Len(v) : c[i + 1] = v[i]
  BY ContentBytes
<1>5. n >= 1
  <2> HIDE DEF n, v
  <2>1. CASE f.type = NoType
    BY <1>1, <1>3, <2>1 DEF n
  <2>2. CASE f.type # NoType
    BY <1>1, <1>4, <2>2
  <2> QED BY <2>1, <2>2
<1>6. f.type = NoType => n = 1 \/ c[1] > TypeMax
  <2> SUFFICES ASSUME f.type = NoType PROVE n = 1 \/ c[1] > TypeMax
    OBVIOUS
  <2>1. Len(f.value) = 1 \/ Head(f.value) > TypeMax
    BY DEF TypeIsPlain
  <2>2. c = f.value /\ Head(f.value) = f.value[1]
    BY <1>3
  <2> HIDE DEF c
  <2> QED BY <2>1, <2>2
<1>a. FieldLen(b) = n /\ v \in Seq(Byte)
  OBVIOUS
<1> HIDE DEF c, n, v
<1>7. ByteAt(b, 1 + w) = c[1] /\ c[1] \in Nat
  <2>1. 1 \in 1 .. n /\ (1 + w) + 1 = 1 + w + 1
    BY <1>1, <1>5
  <2>2. c[1] \in Byte
    BY <1>1, <2>1, ElementOfSeq DEF n
  <2> QED BY <1>2, <2>1, <2>2, TlvAssumption DEF ByteAt, Byte
<1>8. CASE f.type = NoType
  <2>1. ~HasTypeByte(b)
    <3>1. c[1] > TypeMax => ~(c[1] <= TypeMax)
      BY <1>7, TlvAssumption
    <3> QED BY <1>6, <1>7, <1>8, <1>a, <3>1 DEF HasTypeByte
  <2>2. n = Len(v) /\ w = 1
    BY <1>3, <1>8 DEF n
  <2>3. 2 + Len(v) <= Len(b)
    BY <1>1, <1>2, <2>2
  <2>4. \A i \in 1 .. Len(v) : b[2 + i] = v[i]
    BY <1>2, <1>3, <1>8, <2>2
  <2>5. Cut(b, 2, Len(v)) = v
    BY <1>2, <1>a, <2>3, <2>4, CutIsValue
  <2> QED BY <1>a, <2>1, <2>2, <2>5 DEF Value, v
<1>9. CASE f.type # NoType
  <2>1. n = Len(v) + 1 /\ c[1] = f.type /\ n > 1 /\ f.type <= TypeMax
    BY <1>1, <1>4, <1>9
  <2>2. HasTypeByte(b)
    BY <1>7, <1>a, <2>1 DEF HasTypeByte
  <2> DEFINE from == 2 + w
  <2>3. from \in Nat /\ from + Len(v) <= Len(b)
    BY <1>1, <1>2, <2>1
  <2>4. ASSUME NEW i \in 1 .. Len(v) PROVE b[from + i] = v[i]
    <3>1. i + 1 \in 1 .. n /\ 1 + w + (i + 1) = from + i
      BY <1>1, <2>1
    <3>2. b[1 + w + (i + 1)] = c[i + 1]
      BY <1>2, <3>1
    <3> QED BY <1>4, <1>9, <3>1, <3>2
  <2> HIDE DEF from
  <2>5. Cut(b, from, Len(v)) = v
    BY <1>2, <1>a, <2>3, <2>4, CutIsValue
  <2>6. FieldLen(b) - 1 = Len(v)
    BY <1>1, <1>a, <2>1
  <2> QED BY <2>2, <2>5, <2>6 DEF Value, v, from
<1> QED BY <1>8, <1>9

(* A plain field parses to what was encoded, whatever follows it: the      *)
(* checksum alone, or a field whose name is greater.                       *)
ParsesTo(b, name, value, rest) ==
  /\ MoreFields(b) /\ WellFormed(b)
  /\ ByteAt(b, 0) = name /\ Value(b) = value
  /\ RestFrom(b, Consumed(b)) = rest
  /\ Len(b) = Consumed(b) + Len(rest)

LEMMA PlainFieldParses ==
  ASSUME NEW name \in Names, NEW f, NEW rest \in Seq(Byte), rest # << >>,
         Len(rest) = 1 \/ rest[1] > name,
         NEW b, b = EncodeField(name, f) \o rest, IsPlain(f, Len(b))
  PROVE  ParsesTo(b, name, f.value, rest)
<1> DEFINE w == IF f.width = 1 THEN 1 ELSE 2  n == Len(Content(f))
<1>1. name \in Byte /\ Len(rest) \in Nat /\ Len(rest) >= 1
  BY TlvAssumption, EmptySeq DEF Names, Byte
<1>2. f.value \in Seq(Byte) /\ TypeIsPlain(f)
  BY DEF IsPlain
<1>3. HasForm(b, name, w, Content(f), rest)
  BY <1>1, PlainFieldHasForm
<1>4. /\ b \in Seq(Byte) /\ b[1] = name /\ Len(b) = 1 + w + n + Len(rest)
      /\ RestFrom(b, 1 + w + n) = rest
  BY <1>3 DEF HasForm
<1>5. LenBytes(b) = w /\ FieldLen(b) = n
  BY <1>3, WidthSeen
<1>6. n \in Nat /\ n >= 1
  BY <1>4, PlainContent
<1>7. f.type = NoType => w = 1
  BY TlvAssumption DEF IsPlain, TwoBytesArePlain, NoType
<1>8. w \in {1, 2}
  OBVIOUS
<1> HIDE DEF w
<1>9. Value(b) = f.value
  BY <1>2, <1>3, <1>5, <1>7, <1>8, ValueSeen
<1> HIDE DEF n
<1>10. MoreFields(b)
  BY <1>1, <1>4, <1>6, <1>8 DEF MoreFields
<1>11. WellFormed(b)
  BY <1>1, <1>4, <1>5, <1>6, <1>8 DEF WellFormed
<1>12. Consumed(b) = 1 + w + n
  BY <1>5 DEF Consumed
<1> QED BY <1>4, <1>9, <1>10, <1>11, <1>12 DEF ByteAt, ParsesTo

-------------------------------------------------------------------------------
(* The encoding of a message, from each place on.                          *)

NameAt(k) == FirstName + k - 1
Places    == 1 .. Base - FirstName         \* of the names, from the least up

Part(fields, k) == IF NameAt(k) \in DOMAIN fields
                     THEN EncodeField(NameAt(k), fields[NameAt(k)]) ELSE << >>
Parts(fields) == [k \in Places |-> Part(fields, k)]

LEMMA PlacesAreNames ==
  /\ Base - FirstName \in Nat /\ FirstName \in Nat /\ FirstName >= 5
  /\ \A k \in Places : NameAt(k) \in Names /\ k \in Nat
  /\ \A name \in Names : name - FirstName + 1 \in Places
                           /\ NameAt(name - FirstName + 1) = name
<1>1. Base \in Nat /\ FirstName \in Nat /\ FirstName >= 5 /\ FirstName <= Base - 1
  BY TlvAssumption
<1> QED BY <1>1 DEF Places, NameAt, Names

LEMMA EncodeIsFlattened ==
  ASSUME NEW fields
  PROVE  Encode(fields) = FlattenSeq(Parts(fields))
  BY DEF Encode, Parts, Part, Places, NameAt

(* A plain field is encoded in bytes.                                      *)
LEMMA PlainFieldType ==
  ASSUME NEW name \in Names, NEW f, NEW size, IsPlain(f, size)
  PROVE  EncodeField(name, f) \in Seq(Byte) /\ EncodeField(name, f) # << >>
         /\ EncodeField(name, f)[1] = name
<1> DEFINE e == EncodeField(name, f)  none == << >>
<1>1. name \in Byte /\ none \in Seq(Byte) /\ Len(none) = 0
  BY TlvAssumption, EmptySeq DEF Names, Byte
<1>2. \A x \in Seq(Byte) : Len(x) \in Nat
  OBVIOUS
<1>3. Content(f) \in Seq(Byte) /\ Len(Content(f)) \in Nat
  BY PlainContent
<1> DEFINE c == Content(f)
           len == IF f.width = 1 THEN <<Len(c)>> ELSE <<Len(c) % Base, Len(c) \div Base>>
<1>4. e = <<name>> \o len \o c
  BY DEF EncodeField
<1>5. len \in Seq(Byte)
  <2>1. CASE f.width = 1
    <3>1. Len(c) \in Byte /\ len = <<Len(c)>>
      BY <2>1, PlainContent
    <3> HIDE DEF c, len
    <3> QED BY <3>1
  <2>2. CASE f.width # 1
    <3> DEFINE low == Len(c) % Base  high == Len(c) \div Base
    <3>1. low \in Byte /\ high \in Byte /\ len = <<low, high>>
      BY <2>2, PlainContent
    <3> HIDE DEF c, len, low, high
    <3> QED BY <3>1
  <2> QED BY <2>1, <2>2
<1> HIDE DEF len, c
<1>6. c \in Seq(Byte)
  BY <1>3 DEF c
<1>7. <<name>> \in Seq(Byte) /\ Len(<<name>>) = 1 /\ <<name>>[1] = name
  BY <1>1
<1> DEFINE h == <<name>>
<1>8. h \in Seq(Byte) /\ Len(h) = 1 /\ h[1] = name
  BY <1>7
<1>9. e = (h \o len) \o c
  BY <1>4
<1> HIDE DEF h, e
<1>10. /\ h \o len \in Seq(Byte) /\ Len(h \o len) = 1 + Len(len)
       /\ (h \o len)[1] = name
  <2>1. /\ h \o len \in Seq(Byte) /\ Len(h \o len) = Len(h) + Len(len)
        /\ \A i \in 1 .. Len(h) + Len(len) :
             (h \o len)[i] = IF i <= Len(h) THEN h[i] ELSE len[i - Len(h)]
    BY <1>5, <1>8, ConcatProperties
  <2>2. Len(len) \in Nat /\ 1 \in 1 .. Len(h) + Len(len)
    BY <1>5, <1>8
  <2> QED BY <1>8, <2>1, <2>2
<1> DEFINE hl == h \o len
<1>11. hl \in Seq(Byte) /\ Len(hl) = 1 + Len(len) /\ hl[1] = name /\ e = hl \o c
  BY <1>9, <1>10
<1> HIDE DEF hl
<1>12. /\ hl \o c \in Seq(Byte) /\ Len(hl \o c) = Len(hl) + Len(c)
       /\ \A i \in 1 .. Len(hl) + Len(c) :
            (hl \o c)[i] = IF i <= Len(hl) THEN hl[i] ELSE c[i - Len(hl)]
  BY <1>6, <1>11, ConcatProperties
<1>13. Len(len) \in Nat /\ Len(c) \in Nat /\ 1 \in 1 .. Len(hl) + Len(c) /\ 1 <= Len(hl)
  BY <1>5, <1>6, <1>11
<1>14. e \in Seq(Byte) /\ Len(e) # 0 /\ e[1] = name
  BY <1>11, <1>12, <1>13
<1> QED BY <1>14, EmptySeq DEF e

LEMMA PartsType ==
  ASSUME NEW fields, DOMAIN fields \subseteq Names,
         \A name \in DOMAIN fields : \E size : IsPlain(fields[name], size)
  PROVE  Parts(fields) \in Seq(Seq(Byte)) /\ Len(Parts(fields)) = Base - FirstName
<1>1. ASSUME NEW k \in Places PROVE Part(fields, k) \in Seq(Byte)
  <2>1. CASE NameAt(k) \in DOMAIN fields
    <3>1. PICK size : IsPlain(fields[NameAt(k)], size)
      BY <2>1
    <3> QED BY <2>1, <3>1, PlainFieldType DEF Part
  <2>2. CASE NameAt(k) \notin DOMAIN fields
    BY <2>2, EmptySeq DEF Part
  <2> QED BY <2>1, <2>2
<1>2. Parts(fields) \in [Places -> Seq(Byte)]
  BY <1>1 DEF Parts
<1>3. Base - FirstName \in Nat
  BY PlacesAreNames
<1> QED BY <1>2, <1>3, SeqDef, LenProperties DEF Places

(* What is encoded from a name on is what is left of the whole there.      *)
LEMMA TailIsSuffix ==
  ASSUME NEW fields, DOMAIN fields \subseteq Names,
         \A name \in DOMAIN fields : \E size : IsPlain(fields[name], size),
         NEW tails, AreTails(tails, Parts(fields), Byte), NEW k \in Places
  PROVE  Encode(Restrict(fields, {n \in DOMAIN fields : n >= NameAt(k)})) = tails[k]
<1> DEFINE later  == {n \in DOMAIN fields : n >= NameAt(k)}
           some   == Restrict(fields, later)
           others == Parts(some)
<1>1. DOMAIN some = later /\ \A n \in later : some[n] = fields[n]
  BY DEF Restrict
<1>2. \A n \in later : n \in DOMAIN fields /\ n >= NameAt(k)
  OBVIOUS
<1>3. \A n \in DOMAIN fields : n >= NameAt(k) => n \in later
  OBVIOUS
<1> HIDE DEF later, some
<1>4. others \in Seq(Seq(Byte)) /\ Len(others) = Base - FirstName
  BY <1>1, <1>2, PartsType
<1>5. Parts(fields) \in Seq(Seq(Byte)) /\ Len(Parts(fields)) = Base - FirstName
  BY PartsType
<1>6. PICK ends : AreTails(ends, others, Byte) /\ ends[1] = FlattenSeq(others)
  BY <1>4, FlattenHasTails
<1>7. Base - FirstName \in Nat /\ k \in 1 .. Base - FirstName /\ k \in Nat
      /\ FirstName \in Nat
  BY PlacesAreNames DEF Places
<1>8. ends[1] = ends[k]
  <2>1. \A i \in 1 .. k - 1 : others[i] = << >>
    <3> SUFFICES ASSUME NEW i \in 1 .. k - 1 PROVE others[i] = << >>
      OBVIOUS
    <3>1. i \in Places /\ ~(NameAt(i) >= NameAt(k))
      BY <1>7 DEF Places, NameAt
    <3>2. NameAt(i) \notin DOMAIN some
      BY <1>1, <1>2, <3>1
    <3> QED BY <3>1, <3>2 DEF Parts, Part
  <2>2. 1 \in 1 .. Len(others) + 1 /\ k \in 1 .. Len(others) + 1
    BY <1>4, <1>7
  <2> HIDE DEF others
  <2> QED BY <1>4, <1>6, <2>1, <2>2, TailsSkip
<1>9. ends[k] = tails[k]
  <2>1. ASSUME NEW i \in k .. Base - FirstName PROVE others[i] = Parts(fields)[i]
    <3>1. i \in Places /\ NameAt(i) >= NameAt(k)
      BY <1>7 DEF Places, NameAt
    <3>2. /\ NameAt(i) \in DOMAIN some <=> NameAt(i) \in DOMAIN fields
          /\ NameAt(i) \in DOMAIN some => some[NameAt(i)] = fields[NameAt(i)]
      BY <1>1, <1>2, <1>3, <3>1
    <3>3. Part(some, i) = Part(fields, i)
      BY <3>2 DEF Part
    <3> QED BY <3>1, <3>3 DEF Parts
  <2>2. k \in 1 .. Len(Parts(fields)) + 1 /\ Len(others) = Len(Parts(fields))
        /\ \A i \in k .. Len(Parts(fields)) : others[i] = Parts(fields)[i]
    BY <1>4, <1>5, <1>7, <2>1
  <2> DEFINE all == Parts(fields)
  <2>3. all \in Seq(Seq(Byte)) /\ AreTails(tails, all, Byte) /\ Len(others) = Len(all)
        /\ k \in 1 .. Len(all) + 1 /\ \A i \in k .. Len(all) : others[i] = all[i]
    BY <1>5, <2>2
  <2> HIDE DEF others, all
  <2> QED BY <1>4, <1>6, <2>3, TailsAgree
<1> QED BY <1>6, <1>8, <1>9, EncodeIsFlattened DEF later, some

(* A message with plain fields, wherever they end and however it starts.   *)
Encodable(m) ==
  /\ DOMAIN m.fields \subseteq Names /\ m.checksum \in Byte
  /\ \A name \in DOMAIN m.fields : \E size : IsPlain(m.fields[name], size)

LEMMA UnambiguousIsEncodable ==
  ASSUME NEW m, Unambiguous(m)
  PROVE  Encodable(m)
  BY DEF Unambiguous, Encodable

(* The body of a message from each place on: from the last, the checksum.  *)
AreBodies(from, m) ==
  /\ from \in [1 .. Base - FirstName + 1 -> Seq(Byte)]
  /\ from[Base - FirstName + 1] = <<m.checksum>>
  /\ \A k \in Places : from[k] = Part(m.fields, k) \o from[k + 1]
  /\ from[1] = BodyOf(m)
  /\ \A k \in Places :
       NameAt(k) \in DOMAIN m.fields => SizeFrom(m, NameAt(k)) = Len(from[k])

LEMMA MessageHasBodies ==
  ASSUME NEW m, Encodable(m)
  PROVE  \E from : AreBodies(from, m)
<1> DEFINE fields == m.fields  N == Base - FirstName  end == <<m.checksum>>
<1>1. DOMAIN fields \subseteq Names /\ m.checksum \in Byte
      /\ \A name \in DOMAIN fields : \E size : IsPlain(fields[name], size)
  BY DEF Encodable
<1>2. N \in Nat /\ Places = 1 .. N
  BY PlacesAreNames DEF Places
<1>3. end \in Seq(Byte) /\ Len(end) = 1
  BY <1>1
<1> HIDE DEF end
<1>4. Parts(fields) \in Seq(Seq(Byte)) /\ Len(Parts(fields)) = N
      /\ \A k \in Places : Parts(fields)[k] = Part(fields, k)
                             /\ Parts(fields)[k] \in Seq(Byte)
  <2>1. Parts(fields) \in Seq(Seq(Byte)) /\ Len(Parts(fields)) = N
    BY <1>1, PartsType
  <2>2. \A k \in 1 .. N : Parts(fields)[k] \in Seq(Byte)
    BY <2>1, ElementOfSeq
  <2> QED BY <1>2, <2>1, <2>2 DEF Parts
<1>5. PICK tails : AreTails(tails, Parts(fields), Byte)
                     /\ tails[1] = FlattenSeq(Parts(fields))
  BY <1>4, FlattenHasTails
<1> HIDE DEF N, fields
<1>6. /\ tails \in [1 .. N + 1 -> Seq(Byte)] /\ tails[N + 1] = << >>
      /\ \A k \in 1 .. N : tails[k] = Parts(fields)[k] \o tails[k + 1]
  BY <1>4, <1>5 DEF AreTails
<1> DEFINE from == [k \in 1 .. N + 1 |-> tails[k] \o end]
<1>7. from \in [1 .. N + 1 -> Seq(Byte)]
  <2> SUFFICES ASSUME NEW k \in 1 .. N + 1 PROVE tails[k] \o end \in Seq(Byte)
    OBVIOUS
  <2>1. tails[k] \in Seq(Byte)
    BY <1>6
  <2> QED BY <1>3, <2>1, ConcatProperties
<1>8. from[N + 1] = end
  <2>1. N + 1 \in 1 .. N + 1
    BY <1>2
  <2>2. from[N + 1] = << >> \o end
    BY <1>6, <2>1
  <2> QED BY <1>3, <2>2, ConcatEmptySeq
<1>9. ASSUME NEW k \in Places PROVE from[k] = Part(fields, k) \o from[k + 1]
  <2>1. k \in 1 .. N /\ k \in 1 .. N + 1 /\ k + 1 \in 1 .. N + 1
    BY <1>2
  <2> DEFINE p == Part(fields, k)  t == tails[k + 1]
  <2>2. p \in Seq(Byte) /\ t \in Seq(Byte) /\ tails[k] = p \o t
    BY <1>4, <1>6, <2>1
  <2>3. from[k] = (p \o t) \o end /\ from[k + 1] = t \o end
    BY <2>1, <2>2
  <2> HIDE DEF p, t
  <2>4. (p \o t) \o end = p \o (t \o end)
    BY <1>3, <2>2, ConcatAssociative
  <2> QED BY <2>3, <2>4 DEF p
<1>10. from[1] = BodyOf(m)
  <2>1. from[1] = tails[1] \o end
    BY <1>2
  <2> QED BY <1>5, <2>1, EncodeIsFlattened DEF BodyOf, end, fields
<1>11. ASSUME NEW k \in Places, NameAt(k) \in DOMAIN fields
       PROVE  SizeFrom(m, NameAt(k)) = Len(from[k])
  <2>1. k \in 1 .. N + 1
    BY <1>2
  <2>2. from[k] = tails[k] \o end /\ tails[k] \in Seq(Byte)
    BY <1>6, <2>1
  <2>3. Len(from[k]) = Len(tails[k]) + 1
    <3>1. Len(tails[k] \o end) = Len(tails[k]) + Len(end)
      BY <1>3, <2>2, ConcatProperties
    <3> QED BY <1>3, <2>2, <3>1
  <2>4. Encode(Restrict(fields, {n \in DOMAIN fields : n >= NameAt(k)})) = tails[k]
    BY <1>1, <1>5, TailIsSuffix DEF fields
  <2> QED BY <2>3, <2>4 DEF SizeFrom, fields
<1> HIDE DEF from
<1>12. AreBodies(from, m)
  BY <1>7, <1>8, <1>9, <1>10, <1>11 DEF AreBodies, N, fields, end
<1> QED BY <1>12

(* What is left of a body has a field with a name in its place, or a later *)
(* one, at its front, or is the checksum alone.                            *)
LEMMA BodiesFollow ==
  ASSUME NEW m, Encodable(m), NEW from, AreBodies(from, m),
         NEW k \in 1 .. Base - FirstName + 1
  PROVE  /\ from[k] \in Seq(Byte) /\ from[k] # << >>
         /\ Len(from[k]) = 1 \/ from[k][1] >= NameAt(k)
<1> DEFINE N == Base - FirstName
           Follows(j) == /\ from[j] \in Seq(Byte) /\ Len(from[j]) >= 1
                         /\ Len(from[j]) = 1 \/ from[j][1] >= NameAt(j)
           T == {j \in 1 .. N + 1 : Follows(j)}
<1>1. N \in Nat /\ Places = 1 .. N /\ FirstName \in Nat /\ k \in 1 .. N + 1
  BY PlacesAreNames DEF Places
<1>2. N + 1 \in T
  <2>1. from[N + 1] = <<m.checksum>> /\ m.checksum \in Byte
    BY DEF AreBodies, Encodable
  <2>2. Len(from[N + 1]) = 1 /\ from[N + 1] \in Seq(Byte)
    BY <2>1
  <2>3. N + 1 \in 1 .. N + 1
    BY <1>1
  <2> HIDE DEF N
  <2>4. Follows(N + 1)
    BY <2>2
  <2> HIDE DEF Follows
  <2> QED BY <2>3, <2>4
<1>3. ASSUME NEW j \in 1 .. (N + 1) - 1, j + 1 \in T PROVE j \in T
  <2>1. j \in Places /\ j \in 1 .. N + 1 /\ j \in Nat
    BY <1>1
  <2>2. from[j] = Part(m.fields, j) \o from[j + 1] /\ Follows(j + 1)
    BY <1>3, <2>1 DEF AreBodies
  <2>3. CASE NameAt(j) \notin DOMAIN m.fields
    <3>1. from[j] = << >> \o from[j + 1]
      BY <2>2, <2>3 DEF Part
    <3>2. from[j] = from[j + 1]
      BY <2>2, <3>1, ConcatEmptySeq
    <3>3. NameAt(j + 1) = NameAt(j) + 1 /\ NameAt(j) \in Nat
      BY <1>1, <2>1 DEF NameAt
    <3>4. Len(from[j]) = 1 \/ from[j][1] >= NameAt(j)
      <4>1. from[j][1] \in Nat
        <5>1. 1 \in 1 .. Len(from[j])
          BY <2>2, <3>2
        <5>2. from[j][1] \in Byte
          BY <2>2, <3>2, <5>1, ElementOfSeq
        <5> QED BY <5>2, TlvAssumption DEF Byte
      <4> QED BY <2>2, <3>2, <3>3, <4>1
    <3> HIDE DEF N
    <3> QED BY <2>1, <2>2, <3>2, <3>4
  <2>4. CASE NameAt(j) \in DOMAIN m.fields
    <3> DEFINE e == EncodeField(NameAt(j), m.fields[NameAt(j)])
    <3>1. NameAt(j) \in Names /\ \E size : IsPlain(m.fields[NameAt(j)], size)
      BY <2>4 DEF Encodable
    <3>2. e \in Seq(Byte) /\ e # << >> /\ e[1] = NameAt(j) /\ NameAt(j) \in Nat
      BY <3>1, PlainFieldType, TlvAssumption DEF Names
    <3>3. from[j] = e \o from[j + 1]
      BY <2>2, <2>4 DEF Part
    <3> HIDE DEF e
    <3> DEFINE t == from[j + 1]
    <3>4. t \in Seq(Byte) /\ Len(t) >= 1
      BY <2>2
    <3>5. from[j] = e \o t
      BY <3>3
    <3> HIDE DEF t
    <3>6. /\ e \o t \in Seq(Byte) /\ Len(e \o t) = Len(e) + Len(t)
          /\ \A i \in 1 .. Len(e) + Len(t) :
               (e \o t)[i] = IF i <= Len(e) THEN e[i] ELSE t[i - Len(e)]
      BY <3>2, <3>4, ConcatProperties
    <3>7. Len(e) \in Nat /\ Len(e) >= 1 /\ Len(t) \in Nat
      BY <3>2, <3>4, EmptySeq
    <3>8. Follows(j)
      <4>1. 1 \in 1 .. Len(e) + Len(t) /\ 1 <= Len(e)
        BY <3>7
      <4>2. (e \o t)[1] = NameAt(j)
        BY <3>2, <3>6, <4>1
      <4>3. Len(e \o t) >= 1
        BY <3>6, <3>7
      <4> QED BY <3>2, <3>5, <3>6, <4>2, <4>3
    <3> HIDE DEF N, Follows
    <3> QED BY <2>1, <3>8
  <2> QED BY <2>3, <2>4
<1>4. 1 .. N + 1 \subseteq T
  <2>1. 1 \in Nat /\ N + 1 \in Nat
    BY <1>1
  <2> HIDE DEF T, N
  <2> QED BY <1>2, <1>3, <2>1, InductionDown
<1>5. Follows(k)
  BY <1>1, <1>4
<1> QED BY <1>5, EmptySeq

(* What is left of a body is no longer than a bound that leaves room for   *)
(* each field.                                                             *)
LEMMA BodiesBounded ==
  ASSUME NEW m, Encodable(m), NEW from, AreBodies(from, m),
         NEW cap \in [1 .. Base - FirstName + 1 -> Nat],
         cap[Base - FirstName + 1] >= 1,
         \A k \in Places : cap[k] >= cap[k + 1] + Len(Part(m.fields, k)),
         NEW k \in 1 .. Base - FirstName + 1
  PROVE  Len(from[k]) <= cap[k]
<1> DEFINE N == Base - FirstName
           T == {j \in 1 .. N + 1 : Len(from[j]) <= cap[j]}
<1>1. N \in Nat /\ Places = 1 .. N /\ k \in 1 .. N + 1
  BY PlacesAreNames DEF Places
<1>2. \A j \in 1 .. N + 1 : from[j] \in Seq(Byte) /\ Len(from[j]) \in Nat /\ cap[j] \in Nat
  BY DEF AreBodies
<1>3. N + 1 \in T
  <2>1. Len(from[N + 1]) = 1
    BY DEF AreBodies
  <2>2. N + 1 \in 1 .. N + 1
    BY <1>1
  <2> QED BY <1>2, <2>1, <2>2
<1>4. ASSUME NEW j \in 1 .. (N + 1) - 1, j + 1 \in T PROVE j \in T
  <2>1. j \in Places /\ j \in 1 .. N + 1 /\ j + 1 \in 1 .. N + 1
    BY <1>1
  <2> DEFINE p == Part(m.fields, j)  t == from[j + 1]
  <2>2. from[j] = p \o t /\ t \in Seq(Byte) /\ cap[j] >= cap[j + 1] + Len(p)
        /\ Len(t) <= cap[j + 1]
    BY <1>2, <1>4, <2>1 DEF AreBodies
  <2>3. p \in Seq(Byte)
    <3>1. CASE NameAt(j) \notin DOMAIN m.fields
      BY <3>1, EmptySeq DEF Part
    <3>2. CASE NameAt(j) \in DOMAIN m.fields
      <4>1. NameAt(j) \in Names /\ \E size : IsPlain(m.fields[NameAt(j)], size)
        BY <3>2 DEF Encodable
      <4> QED BY <3>2, <4>1, PlainFieldType DEF Part
    <3> QED BY <3>1, <3>2
  <2> HIDE DEF p, t
  <2>4. Len(p \o t) = Len(p) + Len(t)
    BY <2>2, <2>3, ConcatProperties
  <2>5. Len(p) \in Nat /\ Len(t) \in Nat /\ cap[j] \in Nat /\ cap[j + 1] \in Nat
    BY <1>2, <2>1, <2>2, <2>3
  <2>6. Len(from[j]) <= cap[j]
    BY <2>2, <2>4, <2>5
  <2> HIDE DEF N
  <2> QED BY <2>1, <2>6
<1>5. 1 .. N + 1 \subseteq T
  <2>1. 1 \in Nat /\ N + 1 \in Nat
    BY <1>1
  <2> HIDE DEF T, N
  <2> QED BY <1>3, <1>4, <2>1, InductionDown
<1> QED BY <1>1, <1>5

(* The length of a field with a length byte.                               *)
LEMMA OneByteFieldLen ==
  ASSUME NEW name \in Names, NEW f, NEW size, IsPlain(f, size), f.width = 1
  PROVE  Len(EncodeField(name, f)) = 2 + Len(Content(f))
<1> DEFINE c == Content(f)  len == <<Len(c)>>  rest == << >>
           e == <<name>> \o len \o c  b == e \o rest
<1>1. name \in Byte /\ c \in Seq(Byte) /\ Len(c) \in Byte
  BY PlainContent, TlvAssumption DEF Names, Byte
<1>2. EncodeField(name, f) = e
  BY DEF EncodeField
<1>3. rest \in Seq(Byte) /\ Len(rest) = 0
  BY EmptySeq
<1> HIDE DEF c, rest
<1>4. len \in Seq(Byte) /\ Len(len) = 1
  BY <1>1
<1> HIDE DEF len
<1>5. Len(b) = 1 + Len(len) + Len(c) + Len(rest)
  <2>1. HasBytes(b, name, len, c, rest)
    BY <1>1, <1>3, <1>4, FieldBytes
  <2> HIDE DEF b
  <2> QED BY <2>1 DEF HasBytes
<1>6. e \in Seq(Byte)
  BY <1>2, PlainFieldType
<1>7. b = e
  BY <1>6, ConcatEmptySeq DEF rest
<1>8. Len(c) \in Nat
  BY <1>1
<1>9. Len(e) = 2 + Len(c)
  BY <1>3, <1>4, <1>5, <1>7, <1>8
<1> QED BY <1>2, <1>9 DEF c

(* A body starts with its least name.                                      *)
LEMMA LeastNameFirst ==
  ASSUME NEW m, Encodable(m), NEW from, AreBodies(from, m),
         NEW name \in DOMAIN m.fields, \A n \in DOMAIN m.fields : name <= n
  PROVE  BodyOf(m)[1] = name
<1> DEFINE k == name - FirstName + 1
           T == {j \in 1 .. k : from[j] = from[1]}
<1>1. name \in Names /\ k \in Places /\ NameAt(k) = name /\ k \in Nat /\ k >= 1
      /\ FirstName \in Nat /\ name \in Nat
  BY PlacesAreNames, TlvAssumption DEF Encodable, Names, Places
<1>2. \A j \in 1 .. Base - FirstName + 1 : from[j] \in Seq(Byte)
  BY DEF AreBodies
<1>3. 1 \in T
  BY <1>1
<1>4. ASSUME NEW j \in 1 .. k - 1, j \in T PROVE j + 1 \in T
  <2>1. j \in Places /\ j + 1 \in 1 .. Base - FirstName + 1 /\ NameAt(j) < name
        /\ j + 1 \in 1 .. k
    BY <1>1, PlacesAreNames DEF Places, NameAt
  <2>2. NameAt(j) \notin DOMAIN m.fields
    BY <1>1, <2>1 DEF NameAt
  <2>3. from[j] = << >> \o from[j + 1]
    BY <2>1, <2>2 DEF AreBodies, Part
  <2>4. from[j] = from[j + 1]
    BY <1>2, <2>1, <2>3, ConcatEmptySeq
  <2> HIDE DEF k
  <2> QED BY <1>4, <2>1, <2>4
<1>5. from[k] = from[1]
  <2>1. 1 \in Nat
    OBVIOUS
  <2> HIDE DEF T, k
  <2>2. 1 .. k \subseteq T
    BY <1>1, <1>3, <1>4, <2>1, InductionUp
  <2>3. k \in T
    BY <1>1, <2>2
  <2> QED BY <2>3 DEF T
<1> DEFINE e == EncodeField(name, m.fields[name])  t == from[k + 1]
<1>6. e \in Seq(Byte) /\ e # << >> /\ e[1] = name
  <2>1. \E size : IsPlain(m.fields[name], size)
    BY DEF Encodable
  <2> QED BY <1>1, <2>1, PlainFieldType
<1>7. from[k] = e \o t /\ t \in Seq(Byte)
  <2>1. from[k] = Part(m.fields, k) \o from[k + 1]
    BY <1>1 DEF AreBodies
  <2>2. k + 1 \in 1 .. Base - FirstName + 1
    BY <1>1, PlacesAreNames DEF Places
  <2> QED BY <1>1, <1>2, <2>1, <2>2 DEF Part
<1> HIDE DEF e, t
<1>8. (e \o t)[1] = name
  <2>1. \A i \in 1 .. Len(e) + Len(t) :
          (e \o t)[i] = IF i <= Len(e) THEN e[i] ELSE t[i - Len(e)]
    BY <1>6, <1>7, ConcatProperties
  <2>2. 1 \in 1 .. Len(e) + Len(t) /\ 1 <= Len(e)
    BY <1>6, <1>7, EmptySeq
  <2> QED BY <1>6, <2>1, <2>2
<1> QED BY <1>5, <1>7, <1>8 DEF AreBodies

(* So that a field whose turn it is parses to what was encoded.            *)
LEMMA FieldOfBody ==
  ASSUME NEW m, Unambiguous(m), NEW from, AreBodies(from, m),
         NEW k \in Places, NameAt(k) \in DOMAIN m.fields
  PROVE  ParsesTo(from[k], NameAt(k), m.fields[NameAt(k)].value, from[k + 1])
<1> DEFINE name == NameAt(k)  f == m.fields[name]  b == from[k]  rest == from[k + 1]
<1>1. k + 1 \in 1 .. Base - FirstName + 1 /\ name \in Names /\ k \in Nat
      /\ FirstName \in Nat
  BY PlacesAreNames DEF Places
<1>2. rest \in Seq(Byte) /\ rest # << >> /\ (Len(rest) = 1 \/ rest[1] >= NameAt(k + 1))
  BY <1>1, UnambiguousIsEncodable, BodiesFollow
<1>3. Len(rest) = 1 \/ rest[1] > name
  <2>1. rest[1] \in Nat
    <3>1. 1 \in 1 .. Len(rest)
      BY <1>2, EmptySeq
    <3>2. rest[1] \in Byte
      BY <1>2, <3>1, ElementOfSeq
    <3> QED BY <3>2, TlvAssumption DEF Byte
  <2>2. NameAt(k + 1) = name + 1 /\ name \in Nat
    BY <1>1, TlvAssumption DEF NameAt, Names
  <2> HIDE DEF rest, name
  <2> QED BY <1>2, <2>1, <2>2
<1>4. b = EncodeField(name, f) \o rest
  BY DEF AreBodies, Part
<1>5. IsPlain(f, Len(b))
  <2>1. IsPlain(f, SizeFrom(m, name))
    BY DEF Unambiguous
  <2> QED BY <2>1 DEF AreBodies
<1> HIDE DEF name, f, b, rest
<1>6. ParsesTo(b, name, f.value, rest)
  <2>1. name \in Names /\ rest \in Seq(Byte) /\ rest # << >>
    BY <1>1, <1>2
  <2> QED BY <2>1, <1>3, <1>4, <1>5, PlainFieldParses
<1> QED BY <1>6 DEF name, f, b, rest

(* A slice to the end of a slice to the end is one.                        *)
LEMMA RestOfRest ==
  ASSUME NEW S, NEW body \in Seq(S), NEW i \in 0 .. Len(body),
         NEW j \in 0 .. Len(body) - i
  PROVE  RestFrom(RestFrom(body, i), j) = RestFrom(body, i + j)
<1> DEFINE r == RestFrom(body, i)  x == RestFrom(r, j)  y == RestFrom(body, i + j)
<1>1. Len(body) \in Nat /\ i \in Nat /\ j \in Nat /\ i + j \in 0 .. Len(body)
  OBVIOUS
<1>2. /\ r \in Seq(S) /\ Len(r) = Len(body) - i
      /\ \A l \in 1 .. Len(body) - i : r[l] = body[i + l]
  BY RestProperties
<1>3. /\ y \in Seq(S) /\ Len(y) = Len(body) - (i + j)
      /\ \A l \in 1 .. Len(body) - (i + j) : y[l] = body[(i + j) + l]
  BY <1>1, RestProperties
<1> HIDE DEF r, y
<1>4. j \in 0 .. Len(r)
  BY <1>2
<1>5. /\ x \in Seq(S) /\ Len(x) = Len(r) - j
      /\ \A l \in 1 .. Len(r) - j : x[l] = r[j + l]
  BY <1>2, <1>4, RestProperties
<1> HIDE DEF x
<1>6. Len(x) = Len(y)
  BY <1>1, <1>2, <1>3, <1>5
<1>7. ASSUME NEW l \in 1 .. Len(x) PROVE x[l] = y[l]
  <2>1. l \in 1 .. Len(r) - j /\ j + l \in 1 .. Len(body) - i
        /\ i + (j + l) = (i + j) + l /\ l \in 1 .. Len(body) - (i + j)
    BY <1>1, <1>2, <1>5
  <2> QED BY <1>2, <1>3, <1>5, <2>1
<1>8. x = y
  BY <1>3, <1>5, <1>6, <1>7, SeqEqual
<1> QED BY <1>8 DEF x, y, r

(* The walk over a body comes to the fields one by one.                    *)
LEMMA WalkComesTo ==
  ASSUME NEW m, Unambiguous(m), NEW from, AreBodies(from, m),
         NEW k \in 1 .. Base - FirstName + 1
  PROVE  /\ Len(BodyOf(m)) - Len(from[k]) \in 0 .. Len(BodyOf(m))
         /\ RestFrom(BodyOf(m), Len(BodyOf(m)) - Len(from[k])) = from[k]
<1> DEFINE N == Base - FirstName
           body == from[1]
           Reached(j) == /\ Len(from[j]) <= Len(body)
                         /\ RestFrom(body, Len(body) - Len(from[j])) = from[j]
           T == {j \in 1 .. N + 1 : Reached(j)}
<1>1. N \in Nat /\ Places = 1 .. N /\ k \in 1 .. N + 1 /\ body = BodyOf(m)
  BY PlacesAreNames DEF Places, AreBodies
<1>2. \A j \in 1 .. N + 1 : from[j] \in Seq(Byte) /\ Len(from[j]) \in Nat
  BY DEF AreBodies
<1>3. body \in Seq(Byte) /\ Len(body) \in Nat
  BY <1>1, <1>2
<1>4. 1 \in T
  <2>1. RestFrom(body, 0) = body
    BY <1>3 DEF RestFrom
  <2>2. Len(body) - Len(body) = 0
    BY <1>3
  <2>3. Reached(1)
    BY <1>3, <2>1, <2>2
  <2>4. 1 \in 1 .. N + 1
    BY <1>1
  <2> HIDE DEF Reached, N
  <2> QED BY <2>3, <2>4
<1> HIDE DEF body
<1>5. ASSUME NEW j \in 1 .. (N + 1) - 1, j \in T PROVE j + 1 \in T
  <2>1. j \in Places /\ j \in 1 .. N + 1 /\ j + 1 \in 1 .. N + 1
    BY <1>1
  <2>2. Reached(j)
    BY <1>5
  <2>3. Reached(j + 1)
    <3>1. CASE NameAt(j) \notin DOMAIN m.fields
      <4>1. from[j] = << >> \o from[j + 1] /\ from[j + 1] \in Seq(Byte)
        BY <1>2, <2>1, <3>1 DEF AreBodies, Part
      <4>2. from[j] = from[j + 1]
        BY <4>1, ConcatEmptySeq
      <4> QED BY <2>2, <4>2
    <3>2. CASE NameAt(j) \in DOMAIN m.fields
      <4> DEFINE b == from[j]  rest == from[j + 1]  c == Consumed(b)
                 at == Len(body) - Len(b)
      <4>1. ParsesTo(b, NameAt(j), m.fields[NameAt(j)].value, rest)
        BY <2>1, <3>2, FieldOfBody
      <4>2. MoreFields(b) /\ WellFormed(b) /\ RestFrom(b, c) = rest /\ Len(b) = c + Len(rest)
        BY <4>1 DEF ParsesTo
      <4>3. b \in Seq(Byte) /\ Len(b) \in Nat /\ Len(rest) \in Nat
        BY <1>2, <2>1
      <4>4. RestFrom(body, at) = b /\ Len(b) <= Len(body)
        BY <2>2
      <4> HIDE DEF b, rest
      <4>5. c \in 3 .. Len(b)
        BY <4>2, <4>3, AcceptedFits
      <4> HIDE DEF c
      <4>6. at \in 0 .. Len(body) /\ c \in 0 .. Len(body) - at
            /\ at + c = Len(body) - Len(rest) /\ Len(rest) <= Len(body)
        BY <1>3, <4>2, <4>3, <4>4, <4>5
      <4> HIDE DEF at
      <4>7. RestFrom(RestFrom(body, at), c) = RestFrom(body, at + c)
        BY <1>3, <4>6, RestOfRest
      <4>8. RestFrom(body, Len(body) - Len(rest)) = rest
        BY <4>2, <4>4, <4>6, <4>7
      <4> QED BY <4>6, <4>8 DEF rest
    <3> QED BY <3>1, <3>2
  <2> HIDE DEF Reached, N
  <2> QED BY <2>1, <2>3
<1>6. 1 .. N + 1 \subseteq T
  <2>1. 1 \in Nat /\ N + 1 \in Nat
    BY <1>1
  <2> HIDE DEF T, N
  <2> QED BY <1>4, <1>5, <2>1, InductionUp
<1>7. Reached(k)
  BY <1>1, <1>6
<1> HIDE DEF N
<1> QED BY <1>1, <1>2, <1>3, <1>7

(* And gathers their values: those from a place on.                        *)
ValuesFrom(m, k) ==
  [name \in {n \in DOMAIN m.fields : n >= NameAt(k)} |-> m.fields[name].value]

LEMMA WalkGathers ==
  ASSUME NEW m, Unambiguous(m), NEW from, AreBodies(from, m),
         NEW k \in 1 .. Base - FirstName + 1
  PROVE  Walk(BodyOf(m))[Len(BodyOf(m)) - Len(from[k])] = ValuesFrom(m, k)
<1> DEFINE N == Base - FirstName
           body == BodyOf(m)
           Off(j) == Len(body) - Len(from[j])
           T == {j \in 1 .. N + 1 : Walk(body)[Off(j)] = ValuesFrom(m, j)}
<1>1. N \in Nat /\ Places = 1 .. N /\ k \in 1 .. N + 1
      /\ FirstName \in Nat /\ Base \in Nat
  BY PlacesAreNames, TlvAssumption DEF Places
<1>2. \A j \in 1 .. N + 1 : from[j] \in Seq(Byte) /\ Len(from[j]) \in Nat
  BY DEF AreBodies
<1>3. body \in Seq(Byte) /\ Len(body) \in Nat
  <2>1. 1 \in 1 .. N + 1 /\ from[1] = body
    BY <1>1 DEF AreBodies
  <2> QED BY <1>2, <2>1
<1>4. \A j \in 1 .. N + 1 : Off(j) \in 0 .. Len(body) /\ RestFrom(body, Off(j)) = from[j]
  BY WalkComesTo
<1> HIDE DEF body, Off
<1>5. \A i \in 0 .. Len(body) :
        Walk(body)[i] = LET b == RestFrom(body, i)
                        IN  IF Accepts(body, i)
                              THEN Insert(ByteAt(b, 0), Value(b), Walk(body)[i + Consumed(b)])
                              ELSE << >>
  BY <1>3, WalkUnfolds
<1>6. \A n \in DOMAIN m.fields : n \in Names /\ n \in Nat
  BY TlvAssumption DEF Unambiguous, Names
<1>7. N + 1 \in T
  <2>1. N + 1 \in 1 .. N + 1
    BY <1>1
  <2>2. from[N + 1] = <<m.checksum>>
    BY DEF AreBodies
  <2>3. ~Accepts(body, Off(N + 1))
    <3>1. Len(from[N + 1]) = 1
      BY <2>2
    <3>2. ~MoreFields(from[N + 1])
      BY <3>1 DEF MoreFields
    <3> QED BY <1>4, <2>1, <3>2 DEF Accepts
  <2>4. Walk(body)[Off(N + 1)] = << >>
    BY <1>4, <1>5, <2>1, <2>3
  <2>5. ValuesFrom(m, N + 1) = << >>
    <3>1. \A n \in DOMAIN m.fields : ~(n >= NameAt(N + 1))
      BY <1>1, <1>6 DEF NameAt, Names
    <3>2. {n \in DOMAIN m.fields : n >= NameAt(N + 1)} = {}
      BY <3>1
    <3> QED BY <3>2 DEF ValuesFrom
  <2> HIDE DEF N
  <2> QED BY <2>1, <2>4, <2>5
<1>8. ASSUME NEW j \in 1 .. (N + 1) - 1, j + 1 \in T PROVE j \in T
  <2>1. j \in Places /\ j \in 1 .. N + 1 /\ j + 1 \in 1 .. N + 1 /\ j \in Nat
    BY <1>1
  <2>2. Walk(body)[Off(j + 1)] = ValuesFrom(m, j + 1)
    BY <1>8
  <2>3. NameAt(j + 1) = NameAt(j) + 1 /\ NameAt(j) \in Nat
    BY <1>1, <2>1 DEF NameAt
  <2> DEFINE old == {n \in DOMAIN m.fields : n >= NameAt(j + 1)}
             new == {n \in DOMAIN m.fields : n >= NameAt(j)}
  <2>4. Walk(body)[Off(j)] = ValuesFrom(m, j)
    <3>1. CASE NameAt(j) \notin DOMAIN m.fields
      <4>1. from[j] = << >> \o from[j + 1] /\ from[j + 1] \in Seq(Byte)
        BY <1>2, <2>1, <3>1 DEF AreBodies, Part
      <4>2. from[j] = from[j + 1]
        BY <4>1, ConcatEmptySeq
      <4>3. new = old
        <5>1. \A n \in DOMAIN m.fields : n >= NameAt(j) <=> n >= NameAt(j + 1)
          BY <1>6, <2>3, <3>1
        <5> QED BY <5>1
      <4>4. ValuesFrom(m, j) = ValuesFrom(m, j + 1)
        BY <4>3 DEF ValuesFrom
      <4>5. Off(j) = Off(j + 1)
        BY <4>2 DEF Off
      <4> QED BY <2>2, <4>4, <4>5
    <3>2. CASE NameAt(j) \in DOMAIN m.fields
      <4> DEFINE name == NameAt(j)  value == m.fields[name].value
                 b == from[j]  rest == from[j + 1]  c == Consumed(b)
      <4>1. ParsesTo(b, name, value, rest)
        BY <2>1, <3>2, FieldOfBody
      <4>2. MoreFields(b) /\ WellFormed(b) /\ ByteAt(b, 0) = name /\ Value(b) = value
            /\ Len(b) = c + Len(rest)
        BY <4>1 DEF ParsesTo
      <4>3. Off(j) \in 0 .. Len(body) /\ RestFrom(body, Off(j)) = b
        BY <1>4, <2>1
      <4>4. Accepts(body, Off(j))
        BY <4>2, <4>3 DEF Accepts
      <4>5. Walk(body)[Off(j)] = Insert(name, value, Walk(body)[Off(j) + c])
        BY <1>5, <4>2, <4>3, <4>4
      <4>6. Off(j) + c = Off(j + 1)
        <5>1. Len(b) \in Nat /\ Len(rest) \in Nat /\ b \in Seq(Byte)
          BY <1>2, <2>1
        <5>2. Off(j) = Len(body) - Len(b) /\ Off(j + 1) = Len(body) - Len(rest)
          BY DEF Off
        <5> HIDE DEF b, rest
        <5>3. c \in 3 .. Len(b)
          BY <4>2, <5>1, AcceptedFits
        <5> HIDE DEF c
        <5> QED BY <1>3, <4>2, <5>1, <5>2, <5>3
      <4>7. Walk(body)[Off(j)] = Insert(name, value, ValuesFrom(m, j + 1))
        BY <2>2, <4>5, <4>6
      <4>8. /\ old \cup {name} = new /\ name \notin old
            /\ DOMAIN ValuesFrom(m, j + 1) = old
        <5>1. \A n \in DOMAIN m.fields :
                n >= NameAt(j) <=> n >= NameAt(j + 1) \/ n = NameAt(j)
          BY <1>6, <2>3
        <5>2. ~(NameAt(j) >= NameAt(j + 1)) /\ NameAt(j) >= NameAt(j)
          BY <2>3
        <5> QED BY <3>2, <5>1, <5>2 DEF ValuesFrom
      <4>9. \A n \in new : n \notin old <=> n = name
        BY <4>8
      <4>10. Insert(name, value, ValuesFrom(m, j + 1))
               = [n \in new |-> IF n \in old THEN ValuesFrom(m, j + 1)[n] ELSE value]
        BY <4>8 DEF Insert
      <4>11. \A n \in old : ValuesFrom(m, j + 1)[n] = m.fields[n].value
        BY DEF ValuesFrom
      <4>12. [n \in new |-> IF n \in old THEN ValuesFrom(m, j + 1)[n] ELSE value]
               = [n \in new |-> m.fields[n].value]
        <5> SUFFICES ASSUME NEW n \in new
                     PROVE  (IF n \in old THEN ValuesFrom(m, j + 1)[n] ELSE value)
                              = m.fields[n].value
          OBVIOUS
        <5> QED BY <4>9, <4>11
      <4> QED BY <4>7, <4>10, <4>12 DEF ValuesFrom
    <3> QED BY <3>1, <3>2
  <2> HIDE DEF N
  <2> QED BY <2>1, <2>4
<1>9. 1 .. N + 1 \subseteq T
  <2>1. 1 \in Nat /\ N + 1 \in Nat
    BY <1>1
  <2> HIDE DEF T, N
  <2> QED BY <1>7, <1>8, <2>1, InductionDown
<1> QED BY <1>1, <1>9 DEF Off, body

(* The header of an unambiguous message is taken off as it was put on.     *)
LEMMA BodyIsFound ==
  ASSUME NEW m, Unambiguous(m), NEW from, AreBodies(from, m)
  PROVE  Body(BytesOf(m)) = BodyOf(m)
<1> DEFINE body == BodyOf(m)
<1>1. body \in Seq(Byte) /\ body # << >>
  <2>1. 1 \in 1 .. Base - FirstName + 1 /\ from[1] = body
    BY PlacesAreNames DEF AreBodies
  <2> QED BY <2>1, UnambiguousIsEncodable, BodiesFollow
<1>2. HeaderIsPlain(m)
  BY DEF Unambiguous
<1>3. CASE m.increment = << >> /\ body[1] \in FirstName .. LastFirst
  <2>1. BytesOf(m) = << >> \o body
    BY <1>3 DEF BytesOf
  <2> HIDE DEF body
  <2>2. << >> \o body = body
    BY <1>1, ConcatEmptySeq
  <2>3. Head(body) = body[1]
    BY <1>1
  <2> QED BY <1>1, <1>3, <2>1, <2>2, <2>3 DEF Body, body
<1>4. ASSUME NEW byte \in Byte \ (FirstName .. LastFirst), m.increment = <<byte>>
      PROVE  Body(BytesOf(m)) = body
  <2> DEFINE h == <<byte>>  all == h \o body
  <2>1. h \in Seq(Byte) /\ Len(h) = 1 /\ h[1] = byte /\ BytesOf(m) = h \o body
    BY <1>4 DEF BytesOf
  <2> HIDE DEF h, body
  <2>2. /\ all \in Seq(Byte) /\ Len(all) = Len(h) + Len(body)
        /\ \A i \in 1 .. Len(h) + Len(body) :
             all[i] = IF i <= Len(h) THEN h[i] ELSE body[i - Len(h)]
    BY <1>1, <2>1, ConcatProperties
  <2>3. BytesOf(m) = all
    BY <2>1
  <2> HIDE DEF all
  <2>4. Len(body) \in Nat /\ all # << >> /\ Len(all) = 1 + Len(body)
    BY <1>1, <2>1, <2>2
  <2>5. Head(all) = byte
    <3>1. 1 \in 1 .. Len(h) + Len(body) /\ 1 <= Len(h)
      BY <2>1, <2>4
    <3>2. all[1] = byte
      BY <2>1, <2>2, <3>1
    <3> QED BY <2>2, <2>4, <3>2
  <2>6. Tail(all) = body
    <3> DEFINE t == Tail(all)
    <3>1. /\ t \in Seq(Byte) /\ Len(t) = Len(all) - 1
          /\ \A i \in 1 .. Len(t) : t[i] = all[i + 1]
      BY <2>2, <2>4, HeadTailProperties
    <3> HIDE DEF t
    <3>2. Len(t) = Len(body)
      BY <2>4, <3>1
    <3>3. ASSUME NEW i \in 1 .. Len(t) PROVE t[i] = body[i]
      <4>1. i + 1 \in 1 .. Len(h) + Len(body) /\ ~(i + 1 <= Len(h)) /\ (i + 1) - Len(h) = i
        BY <2>1, <2>4, <3>2
      <4> QED BY <2>2, <3>1, <4>1
    <3>4. t = body
      BY <1>1, <3>1, <3>2, <3>3, SeqEqual
    <3> QED BY <3>4 DEF t
  <2> QED BY <1>4, <2>3, <2>4, <2>5, <2>6 DEF Body
<1> QED BY <1>2, <1>3, <1>4 DEF HeaderIsPlain

(* decode_fields is the inverse of the encoding, for any base, any limits  *)
(* and any message in which the guesses of the decoder are right.          *)
THEOREM DecodeInverts ==
  ASSUME NEW m, Unambiguous(m)
  PROVE  DecodeFields(Body(BytesOf(m))) = ValuesOf(m)
<1> DEFINE body == BodyOf(m)
<1>1. PICK from : AreBodies(from, m)
  BY UnambiguousIsEncodable, MessageHasBodies
<1>2. 1 \in 1 .. Base - FirstName + 1 /\ from[1] = body /\ from[1] \in Seq(Byte)
  BY <1>1, PlacesAreNames DEF AreBodies
<1>3. Walk(body)[Len(body) - Len(from[1])] = ValuesFrom(m, 1)
  BY <1>1, <1>2, WalkGathers
<1>4. Len(body) - Len(from[1]) = 0
  BY <1>2
<1>5. DecodeFields(body) = Walk(body)[0]
  BY <1>2, WalkUnfolds
<1>6. ValuesFrom(m, 1) = ValuesOf(m)
  <2>1. NameAt(1) = FirstName
    BY PlacesAreNames DEF NameAt
  <2>2. \A n \in DOMAIN m.fields : n >= NameAt(1)
    BY <2>1, PlacesAreNames DEF Unambiguous, Names
  <2>3. {n \in DOMAIN m.fields : n >= NameAt(1)} = DOMAIN m.fields
    BY <2>2
  <2> QED BY <2>3 DEF ValuesFrom, ValuesOf
<1> QED BY <1>1, <1>3, <1>4, <1>5, <1>6, BodyIsFound
==================================================================================
