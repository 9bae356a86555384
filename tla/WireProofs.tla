----------------------------- MODULE WireProofs -----------------------------
(***************************************************************************)
(* Theorems about Wire, for every set of text lengths and any number of    *)
(* calls: whatever is encoded by a layout is decoded by it, and so every   *)
(* account reads as the handlers meant it.                                 *)
(***************************************************************************)
EXTENDS Wire, SumProofs, SequenceTheorems

\* What a value can be made for: a field, a class, or the length of a text.
AnyName ==
    {"zero", "length", "disableRewards"} \cup Classes
        \cup UNION {NamesIn(ProgramLayout[class]) : class \in Classes}

FieldType == DOMAIN Width \cup {"str"}
ByteType == FieldType \cup {"discriminator"}
AnyValue == [of : AnyName, call : Nat, size : Nat]
AnyByte == [of : AnyValue, type : ByteType, at : Nat]

\* A field is found by its name, and the one text there may be is the uri.
WellFormed(layout) ==
    /\ layout \in Seq(NamesIn(layout) \X FieldType)
    /\ \A i, j \in DOMAIN layout : layout[i][1] = layout[j][1] => i = j
    /\ \A i \in DOMAIN layout : layout[i][2] = "str" => layout[i][1] = "uri"

\* A value that can be told from zeroed bytes in every field it may be in.
Readable(value, type) ==
    value \in AnyValue /\ (type = "str" => value = Zero \/ value.size > 0)

\* A struct has a value for every field.
Covers(struct, layout) == \A name \in NamesIn(layout) : struct[name] \in AnyValue

Storable(layout, struct) ==
    /\ struct \in [NamesIn(layout) -> AnyValue]
    /\ \A name \in NamesIn(layout) : name = "uri" => Readable(struct[name], "str")

\* A part stands in the data from a position on.
Occurs(part, data, at) ==
    /\ at + Len(part) - 1 <= Len(data)
    /\ \A i \in 1 .. Len(part) : data[at + i - 1] = part[i]

----------------------------------------------------------------------------
(***************************************************************************)
(* One field                                                               *)
(***************************************************************************)
LEMMA WidthTable ==
    /\ Width["publicKey"] = 32 /\ Width["i64"] = 8 /\ Width["u64"] = 8
    /\ Width["u32"] = 4 /\ Width["u16"] = 2 /\ Width["u8"] = 1 /\ Width["bool"] = 1
    /\ Width["[u64; 6]"] = 48 /\ Width["[u8; 32]"] = 32
    /\ Width["[u8; 232]"] = 232 /\ Width["[u8; 240]"] = 240
BY DEF Width

\* Every fixed type takes at least one byte, and every type has bytes of its own.
LEMMA Widths ==
    /\ \A type \in DOMAIN Width : Width[type] \in Nat \ {0}
    /\ Width["u32"] = 4
    /\ {"str", "u32"} \subseteq FieldType /\ "str" \notin DOMAIN Width
    /\ FieldType \subseteq ByteType
<1>1. DOMAIN Width = {"publicKey", "i64", "u64", "u32", "u16", "u8", "bool", "[u64; 6]",
                      "[u8; 32]", "[u8; 232]", "[u8; 240]"}
  BY DEF Width
<1>2. \A type \in DOMAIN Width : Width[type] \in Nat \ {0}
  <2>1. /\ Width["publicKey"] \in Nat \ {0} /\ Width["i64"] \in Nat \ {0}
        /\ Width["u64"] \in Nat \ {0} /\ Width["u32"] \in Nat \ {0}
        /\ Width["u16"] \in Nat \ {0} /\ Width["u8"] \in Nat \ {0}
        /\ Width["bool"] \in Nat \ {0} /\ Width["[u64; 6]"] \in Nat \ {0}
        /\ Width["[u8; 32]"] \in Nat \ {0} /\ Width["[u8; 232]"] \in Nat \ {0}
        /\ Width["[u8; 240]"] \in Nat \ {0}
    <3>1. /\ 1 \in Nat \ {0} /\ 2 \in Nat \ {0} /\ 4 \in Nat \ {0} /\ 8 \in Nat \ {0}
          /\ 32 \in Nat \ {0} /\ 48 \in Nat \ {0} /\ 232 \in Nat \ {0}
          /\ 240 \in Nat \ {0}
      OBVIOUS
    <3> QED
      BY <3>1, WidthTable
  <2> QED
    BY <1>1, <2>1
<1>3. {"str", "u32"} \subseteq FieldType
  BY <1>1 DEF FieldType
<1>4. "str" \notin DOMAIN Width
  BY <1>1
<1>5. FieldType \subseteq ByteType
  BY DEF ByteType
<1> QED
  BY <1>2, <1>3, <1>4, <1>5, WidthTable

\* The values of bytes nobody has written and of lengths are values.
LEMMA Values ==
    /\ Zero \in AnyValue /\ Zero.call = 0 /\ Zero.size = 0
    /\ ZeroByte \in AnyByte
    /\ \A size \in Nat : LengthOf(size) \in AnyValue /\ LengthOf(size).call = size
<1>1. \A of \in AnyName, call, size \in Nat :
        /\ Value(of, call, size) \in AnyValue
        /\ Value(of, call, size).call = call
        /\ Value(of, call, size).size = size
  <2> SUFFICES ASSUME NEW of \in AnyName, NEW call \in Nat, NEW size \in Nat
               PROVE  /\ Value(of, call, size) \in AnyValue
                      /\ Value(of, call, size).call = call
                      /\ Value(of, call, size).size = size
    OBVIOUS
  <2> QED
    BY DEF Value, AnyValue
<1>2. "zero" \in AnyName /\ "length" \in AnyName
  BY DEF AnyName
<1>3. Zero \in AnyValue /\ Zero.call = 0 /\ Zero.size = 0
  BY <1>1, <1>2 DEF Zero
<1>4. "u8" \in ByteType
  BY DEF ByteType, FieldType, Width
<1>5. ZeroByte \in AnyByte
  BY <1>3, <1>4 DEF ZeroByte, Byte, AnyByte
<1>6. ASSUME NEW size \in Nat
      PROVE  LengthOf(size) \in AnyValue /\ LengthOf(size).call = size
  BY <1>1, <1>2, <1>3 DEF LengthOf
<1> QED
  BY <1>3, <1>5, <1>6

\* The bytes of a fixed-width value: their number, and that the first of them
\* says whose they are.
LEMMA FixedBytesType ==
    ASSUME NEW value \in AnyValue, NEW type \in ByteType, NEW n \in Nat
    PROVE  /\ FixedBytes(value, type, n) \in Seq(AnyByte)
           /\ Len(FixedBytes(value, type, n)) = n
           /\ n > 0 => FixedBytes(value, type, n)[1].of = value
           /\ n > 0 /\ value # Zero => FixedBytes(value, type, n) # Zeros(n)
<1>1. CASE value = Zero
  BY <1>1, Values DEF FixedBytes, Zeros, ZeroByte, Byte
<1>2. CASE value # Zero
  <2> DEFINE bytes == [i \in 1 .. n |-> Byte(value, type, i)]
  <2>1. FixedBytes(value, type, n) = bytes
    BY <1>2 DEF FixedBytes
  <2>2. bytes \in Seq(AnyByte) /\ Len(bytes) = n
    BY DEF Byte, AnyByte
  <2>3. n > 0 => bytes[1].of = value
    BY DEF Byte
  <2>4. n > 0 => Zeros(n)[1].of = Zero
    BY DEF Zeros, ZeroByte, Byte
  <2> QED
    BY <1>2, <2>1, <2>2, <2>3, <2>4
<1> QED
  BY <1>1, <1>2

\* The bytes of a value read as that value.
LEMMA FixedValueReads ==
    ASSUME NEW value \in AnyValue, NEW type \in ByteType, NEW n \in Nat,
           n > 0 \/ value = Zero
    PROVE  FixedValue(FixedBytes(value, type, n), type, n) = value
<1> DEFINE bytes == FixedBytes(value, type, n)
<1>1. /\ ~(Len(bytes) < n)
      /\ n > 0 => bytes[1].of = value
      /\ n > 0 /\ value # Zero => bytes # Zeros(n)
  BY FixedBytesType
<1>2. CASE value = Zero
  <2>1. bytes = Zeros(n)
    BY <1>2 DEF FixedBytes
  <2> HIDE DEF bytes
  <2>2. FixedValue(bytes, type, n) = value
    BY <1>1, <1>2, <2>1 DEF FixedValue
  <2> QED
    BY <2>2 DEF bytes
<1>3. CASE value # Zero
  <2>1. bytes # Zeros(n) /\ bytes[1].of = value
    BY <1>1, <1>3
  <2>2. bytes = FixedBytes(bytes[1].of, type, n)
    BY <2>1
  <2> HIDE DEF bytes
  <2>3. FixedValue(bytes, type, n) = bytes[1].of
    BY <1>1, <2>1, <2>2 DEF FixedValue
  <2> QED
    BY <2>1, <2>3 DEF bytes
<1> QED
  BY <1>2, <1>3

\* What stands in the data is what a slice from there has.
LEMMA SliceReads ==
    ASSUME NEW part \in Seq(AnyByte), NEW data \in Seq(AnyByte), NEW at \in Nat \ {0},
           Occurs(part, data, at)
    PROVE  Slice(data, at, Len(part)) = part
<1> DEFINE n == Len(part)
           last == at + n - 1
           cut == SubSeq(data, at, last)
<1>1. n \in Nat /\ last \in Int /\ last <= Len(data) /\ Len(data) \in Nat
  BY LenProperties DEF Occurs
<1>2. Slice(data, at, n) = cut
  BY <1>1 DEF Slice
<1>3. \A i \in at .. last : data[i] \in AnyByte
  BY <1>1, ElementOfSeq
<1>4. /\ cut \in Seq(AnyByte)
      /\ Len(cut) = IF at <= last THEN last - at + 1 ELSE 0
      /\ \A i \in 1 .. last - at + 1 : cut[i] = data[at + i - 1]
  BY <1>1, <1>3, SubSeqProperties
<1>5. Len(cut) = n /\ last - at + 1 = n
  BY <1>1, <1>4
<1>6. \A i \in 1 .. n : cut[i] = part[i]
  BY <1>4, <1>5 DEF Occurs
<1>7. cut = part
  <2> HIDE DEF cut
  <2> QED
    BY <1>4, <1>5, <1>6, SeqEqual
<1> QED
  BY <1>2, <1>7

\* Two strings of bytes, one after the other.
LEMMA Concat ==
    ASSUME NEW front \in Seq(AnyByte), NEW back \in Seq(AnyByte)
    PROVE  /\ front \o back \in Seq(AnyByte)
           /\ Len(front) \in Nat /\ Len(back) \in Nat
           /\ Len(front \o back) = Len(front) + Len(back)
           /\ \A i \in 1 .. Len(front) :
                 i \in 1 .. Len(front \o back) /\ (front \o back)[i] = front[i]
           /\ \A i \in 1 .. Len(back) :
                 /\ Len(front) + i \in 1 .. Len(front \o back)
                 /\ (front \o back)[Len(front) + i] = back[i]
<1> DEFINE both == front \o back
<1>1. /\ both \in Seq(AnyByte)
      /\ Len(both) = Len(front) + Len(back)
      /\ \A i \in 1 .. Len(front) + Len(back) :
            both[i] = IF i <= Len(front) THEN front[i] ELSE back[i - Len(front)]
  BY ConcatProperties
<1>2. Len(front) \in Nat /\ Len(back) \in Nat
  BY LenProperties
<1> HIDE DEF both
<1>3. ASSUME NEW i \in 1 .. Len(front)
      PROVE  i \in 1 .. Len(both) /\ both[i] = front[i]
  BY <1>1, <1>2
<1>4. ASSUME NEW i \in 1 .. Len(back)
      PROVE  Len(front) + i \in 1 .. Len(both) /\ both[Len(front) + i] = back[i]
  <2>1. /\ Len(front) + i \in 1 .. Len(front) + Len(back)
        /\ ~(Len(front) + i <= Len(front)) /\ (Len(front) + i) - Len(front) = i
    BY <1>2
  <2> QED
    BY <1>1, <2>1
<1> QED
  BY <1>1, <1>2, <1>3, <1>4 DEF both

\* A value is encoded in bytes, a text behind its length.
LEMMA BytesType ==
    ASSUME NEW type \in FieldType, NEW value \in AnyValue
    PROVE  /\ Bytes(value, type) \in Seq(AnyByte)
           /\ Len(Bytes(value, type)) =
                 IF type = "str" THEN Width["u32"] + value.size ELSE Width[type]
<1>1. CASE type = "str"
  <2> DEFINE length == FixedBytes(LengthOf(value.size), "u32", Width["u32"])
             text == FixedBytes(value, "str", value.size)
  <2>1. value.size \in Nat /\ LengthOf(value.size) \in AnyValue
    BY Values DEF AnyValue
  <2>2. Width["u32"] \in Nat /\ "u32" \in ByteType /\ "str" \in ByteType
    BY Widths
  <2>3. length \in Seq(AnyByte) /\ Len(length) = Width["u32"]
    BY <2>1, <2>2, FixedBytesType
  <2>4. text \in Seq(AnyByte) /\ Len(text) = value.size
    BY <2>1, <2>2, FixedBytesType
  <2>5. Bytes(value, type) = length \o text
    BY <1>1 DEF Bytes
  <2> HIDE DEF length, text
  <2>6. length \o text \in Seq(AnyByte) /\ Len(length \o text) = Len(length) + Len(text)
    BY <2>3, <2>4, Concat
  <2> QED
    BY <1>1, <2>3, <2>4, <2>5, <2>6
<1>2. CASE type # "str"
  <2>1. type \in DOMAIN Width /\ type \in ByteType /\ Width[type] \in Nat
    BY <1>2, Widths DEF FieldType
  <2> QED
    BY <1>2, <2>1, FixedBytesType DEF Bytes
<1> QED
  BY <1>1, <1>2

\* What stands in a concatenation stands in the data the concatenation is in.
LEMMA OccursInConcat ==
    ASSUME NEW front \in Seq(AnyByte), NEW back \in Seq(AnyByte),
           NEW data \in Seq(AnyByte), NEW at \in Nat \ {0},
           Occurs(front \o back, data, at)
    PROVE  Occurs(front, data, at) /\ Occurs(back, data, at + Len(front))
<1> DEFINE both == front \o back
<1>1. /\ Len(both) = Len(front) + Len(back)
      /\ \A i \in 1 .. Len(front) : i \in 1 .. Len(both) /\ both[i] = front[i]
      /\ \A i \in 1 .. Len(back) :
            Len(front) + i \in 1 .. Len(both) /\ both[Len(front) + i] = back[i]
  BY Concat
<1>2. Len(front) \in Nat /\ Len(back) \in Nat /\ Len(data) \in Nat
  BY LenProperties
<1>3. at + Len(both) - 1 <= Len(data) /\ \A i \in 1 .. Len(both) : data[at + i - 1] = both[i]
  BY DEF Occurs
<1> HIDE DEF both
<1>4. Occurs(front, data, at)
  <2>1. at + Len(front) - 1 <= Len(data)
    BY <1>1, <1>2, <1>3
  <2>2. \A i \in 1 .. Len(front) : data[at + i - 1] = front[i]
    BY <1>1, <1>3
  <2> QED
    BY <2>1, <2>2 DEF Occurs
<1>5. ASSUME NEW i \in 1 .. Len(back) PROVE data[(at + Len(front)) + i - 1] = back[i]
  <2>1. data[at + (Len(front) + i) - 1] = both[Len(front) + i]
    BY <1>1, <1>3
  <2>2. (at + Len(front)) + i - 1 = at + (Len(front) + i) - 1
    BY <1>2
  <2> QED
    BY <1>1, <2>1, <2>2
<1>6. (at + Len(front)) + Len(back) - 1 <= Len(data)
  BY <1>1, <1>2, <1>3
<1> QED
  BY <1>4, <1>5, <1>6 DEF Occurs

\* A field is read back where it was written, and so is where the next begins.
LEMMA ReadBack ==
    ASSUME NEW type \in FieldType, NEW value, Readable(value, type),
           NEW data \in Seq(AnyByte), NEW at \in Nat \ {0},
           Occurs(Bytes(value, type), data, at)
    PROVE  ReadField(data, at, type) =
               [value |-> value, next |-> at + Len(Bytes(value, type))]
<1>0. value \in AnyValue
  BY DEF Readable
<1>1. CASE type = "str"
  <2> DEFINE size == value.size
             length == FixedBytes(LengthOf(size), "u32", Width["u32"])
             text == FixedBytes(value, "str", size)
  <2>1. size \in Nat /\ LengthOf(size) \in AnyValue /\ LengthOf(size).call = size
    BY <1>0, Values DEF AnyValue
  <2>0. Width["u32"] \in Nat /\ "u32" \in ByteType /\ "str" \in ByteType
    BY Widths
  <2>2. length \in Seq(AnyByte) /\ Len(length) = Width["u32"]
    BY <2>0, <2>1, FixedBytesType
  <2>3. text \in Seq(AnyByte) /\ Len(text) = size
    BY <1>0, <2>0, <2>1, FixedBytesType
  <2>4. Bytes(value, type) = length \o text
    BY <1>1 DEF Bytes
  <2> HIDE DEF length, text
  <2>5. Occurs(length, data, at) /\ Occurs(text, data, at + Width["u32"])
    BY <2>2, <2>3, <2>4, OccursInConcat
  <2>6. FixedValue(Slice(data, at, Width["u32"]), "u32", Width["u32"]) = LengthOf(size)
    <3>1. Slice(data, at, Width["u32"]) = length
      BY <2>2, <2>5, SliceReads
    <3> QED
      BY <2>1, <2>2, <3>1, Widths, FixedValueReads DEF length
  <2>7. FixedValue(Slice(data, at + Width["u32"], size), "str", size) = value
    <3>1. Slice(data, at + Width["u32"], size) = text
      BY <2>2, <2>3, <2>5, SliceReads
    <3>2. size > 0 \/ value = Zero
      BY <1>1, <2>1 DEF Readable
    <3> QED
      BY <1>0, <2>1, <3>1, <3>2, Widths, FixedValueReads DEF text
  <2>8. Len(Bytes(value, type)) = Width["u32"] + size
    BY <1>0, <1>1, BytesType
  <2>9. at + Width["u32"] + size = at + (Width["u32"] + size)
    BY <2>0, <2>1
  <2> HIDE DEF size
  <2> QED
    BY <1>1, <2>1, <2>6, <2>7, <2>8, <2>9 DEF ReadField
<1>2. CASE type # "str"
  <2>1. type \in DOMAIN Width /\ type \in ByteType /\ Width[type] \in Nat \ {0}
    BY <1>2, Widths DEF FieldType
  <2>2. Bytes(value, type) = FixedBytes(value, type, Width[type])
    BY <1>2 DEF Bytes
  <2>3. Len(Bytes(value, type)) = Width[type] /\ Bytes(value, type) \in Seq(AnyByte)
    BY <1>0, <1>2, BytesType
  <2>4. Slice(data, at, Width[type]) = Bytes(value, type)
    BY <2>3, SliceReads
  <2>5. FixedValue(Slice(data, at, Width[type]), type, Width[type]) = value
    BY <1>0, <2>1, <2>2, <2>4, FixedValueReads
  <2> QED
    BY <1>2, <2>3, <2>5 DEF ReadField
<1> QED
  BY <1>1, <1>2

----------------------------------------------------------------------------
(***************************************************************************)
(* The bytes of a struct: what the first n fields take, one after another  *)
(***************************************************************************)

\* Induction on a set of numbers.
LEMMA Segment ==
    ASSUME NEW N \in Nat, NEW T, 0 \in T, \A n \in 0 .. N - 1 : n \in T => n + 1 \in T
    PROVE  \A n \in 0 .. N : n \in T
<1> DEFINE Bad == {n \in 0 .. N : n \notin T}
<1> SUFFICES ASSUME Bad # {} PROVE FALSE
  OBVIOUS
<1>1. Bad \subseteq Nat
  OBVIOUS
<1> HIDE DEF Bad
<1>2. PICK m \in Bad : \A n \in Bad : ~(n < m)
  BY <1>1, LeastNatural
<1>3. m \in 0 .. N /\ m \notin T /\ m # 0
  BY <1>2 DEF Bad
<1>4. m - 1 \in 0 .. N - 1 /\ m - 1 \in 0 .. N /\ (m - 1) + 1 = m /\ m - 1 < m
  BY <1>3
<1>5. m - 1 \in T
  BY <1>2, <1>4 DEF Bad
<1> QED
  BY <1>3, <1>4, <1>5

\* t[n] is the first n parts put together.
Joins(t, parts) ==
    /\ t \in [0 .. Len(parts) -> Seq(AnyByte)]
    /\ t[0] = <<>>
    /\ \A n \in 1 .. Len(parts) : t[n] = t[n - 1] \o parts[n]

\* The parts of a sequence joined one after another.
LEMMA JoinsExist ==
    ASSUME NEW parts \in Seq(Seq(AnyByte))
    PROVE  \E t : Joins(t, parts)
<1> DEFINE N == Len(parts)
           Upto(n) == \E t \in [0 .. n -> Seq(AnyByte)] :
                         /\ t[0] = <<>>
                         /\ \A k \in 1 .. n : t[k] = t[k - 1] \o parts[k]
           T == {n \in 0 .. N : Upto(n)}
<1>0. N \in Nat
  BY LenProperties
<1>1. Upto(0)
  <2> DEFINE t == [n \in 0 .. 0 |-> <<>>]
  <2>1. t \in [0 .. 0 -> Seq(AnyByte)] /\ t[0] = <<>>
    OBVIOUS
  <2>2. 1 .. 0 = {}
    OBVIOUS
  <2> QED
    BY <2>1, <2>2
<1>2. ASSUME NEW n \in 0 .. N - 1, Upto(n)
      PROVE  Upto(n + 1)
  <2>1. PICK t \in [0 .. n -> Seq(AnyByte)] :
               t[0] = <<>> /\ \A k \in 1 .. n : t[k] = t[k - 1] \o parts[k]
    BY <1>2
  <2> DEFINE longer == [k \in 0 .. n + 1 |-> IF k <= n THEN t[k] ELSE t[n] \o parts[n + 1]]
  <2>2. n \in Nat /\ n + 1 \in 1 .. N
    BY <1>0
  <2>3. parts[n + 1] \in Seq(AnyByte)
    BY <2>2, ElementOfSeq
  <2>4. t[n] \o parts[n + 1] \in Seq(AnyByte)
    BY <2>1, <2>2, <2>3, Concat
  <2>5. longer \in [0 .. n + 1 -> Seq(AnyByte)]
    BY <2>1, <2>2, <2>4
  <2>6. longer[0] = <<>>
    BY <2>1, <2>2
  <2>7. ASSUME NEW k \in 1 .. n + 1 PROVE longer[k] = longer[k - 1] \o parts[k]
    <3>1. k - 1 \in 0 .. n /\ longer[k - 1] = t[k - 1]
      BY <2>2
    <3>2. CASE k <= n
      <4>1. longer[k] = t[k] /\ k \in 1 .. n
        BY <2>2, <3>2
      <4> HIDE DEF longer
      <4> QED
        BY <2>1, <3>1, <4>1
    <3>3. CASE ~(k <= n)
      <4>1. k = n + 1 /\ k - 1 = n
        BY <2>2, <3>3
      <4>2. longer[k] = t[n] \o parts[n + 1]
        BY <2>2, <3>3
      <4> HIDE DEF longer
      <4> QED
        BY <3>1, <4>1, <4>2
    <3> QED
      BY <3>2, <3>3
  <2> HIDE DEF longer
  <2> QED
    BY <2>5, <2>6, <2>7
<1>3. \A n \in 0 .. N : n \in T
  <2> HIDE DEF Upto, N
  <2>1. 0 \in T
    BY <1>0, <1>1
  <2>2. \A n \in 0 .. N - 1 : n \in T => n + 1 \in T
    BY <1>0, <1>2
  <2> HIDE DEF T
  <2> QED
    BY <1>0, <2>1, <2>2, Segment
<1> HIDE DEF Upto
<1>4. Upto(N)
  BY <1>0, <1>3
<1> QED
  BY <1>4 DEF Upto, Joins

\* The library's concatenation of sequences is the last entry of such a table.
LEMMA FlattenJoins ==
    ASSUME NEW parts \in Seq(Seq(AnyByte)), NEW t, Joins(t, parts)
    PROVE  FlattenSeq(parts) = t[Len(parts)]
<1> DEFINE N == Len(parts)
<1>0. N \in Nat
  BY LenProperties
<1>1. CASE N = 0
  <2>1. parts = <<>>
    BY <1>1, EmptySeq
  <2> QED
    BY <1>1, <2>1 DEF FlattenSeq, Joins
<1>2. CASE N # 0
  <2> DEFINE Flatten(f) == [i \in 1 .. Len(parts) |-> IF i = 1 THEN parts[i] ELSE f[i - 1] \o parts[i]]
             flat == CHOOSE f : f = Flatten(f)
             g == [i \in 1 .. Len(parts) |-> t[i]]
             T == {n \in 0 .. N : n > 0 => flat[n] = t[n]}
  <2>1. FlattenSeq(parts) = flat[Len(parts)]
    BY <1>2 DEF FlattenSeq
  <2>2. g = Flatten(g)
    <3>1. ASSUME NEW i \in 1 .. N
          PROVE  g[i] = IF i = 1 THEN parts[i] ELSE g[i - 1] \o parts[i]
      <4>1. t[i] = t[i - 1] \o parts[i]
        BY DEF Joins
      <4>2. g[i] = t[i]
        OBVIOUS
      <4> HIDE DEF g
      <4>3. CASE i = 1
        <5>1. t[0] = <<>> /\ parts[1] \in Seq(AnyByte)
          BY <4>3, ElementOfSeq DEF Joins
        <5>2. <<>> \o parts[1] = parts[1] /\ i - 1 = 0
          BY <4>3, <5>1, ConcatEmptySeq
        <5>3. t[i] = parts[i]
          BY <4>1, <4>3, <5>1, <5>2
        <5> QED
          BY <4>2, <4>3, <5>3
      <4>4. CASE i # 1
        <5>1. i - 1 \in 1 .. N
          BY <1>0, <4>4
        <5>2. g[i - 1] = t[i - 1]
          BY <5>1 DEF g
        <5> QED
          BY <4>1, <4>2, <4>4, <5>2
      <4> QED
        BY <4>3, <4>4
    <3> HIDE DEF g
    <3> QED
      BY <3>1 DEF g
  <2>3. flat = Flatten(flat)
    BY <2>2
  <2> HIDE DEF flat, g
  <2>4. \A i \in 1 .. N : flat[i] = IF i = 1 THEN parts[i] ELSE flat[i - 1] \o parts[i]
    BY <2>3
  <2> HIDE DEF Flatten
  <2>5. \A n \in 0 .. N - 1 : n \in T => n + 1 \in T
    <3> SUFFICES ASSUME NEW n \in 0 .. N - 1, n \in T PROVE flat[n + 1] = t[n + 1]
      BY <1>0
    <3>1. n + 1 \in 1 .. N /\ (n + 1) - 1 = n
      BY <1>0
    <3>2. t[n + 1] = t[n] \o parts[n + 1]
      BY <3>1 DEF Joins
    <3>3. CASE n = 0
      <4>1. t[0] = <<>> /\ parts[1] \in Seq(AnyByte)
        BY <3>1, <3>3, ElementOfSeq DEF Joins
      <4>2. <<>> \o parts[1] = parts[1]
        BY <4>1, ConcatEmptySeq
      <4> QED
        BY <2>4, <3>1, <3>2, <3>3, <4>1, <4>2
    <3>4. CASE n # 0
      <4>1. n > 0 /\ n + 1 # 1
        BY <1>0, <3>4
      <4>2. flat[n] = t[n]
        BY <4>1
      <4>3. flat[n + 1] = flat[n] \o parts[n + 1]
        BY <2>4, <3>1, <4>1
      <4> QED
        BY <3>2, <4>2, <4>3
    <3> QED
      BY <3>3, <3>4
  <2>6. 0 \in T
    BY <1>0
  <2>7. N \in T
    <3> HIDE DEF T, N
    <3>1. \A n \in 0 .. N : n \in T
      BY <1>0, <2>5, <2>6, Segment
    <3> QED
      BY <1>0, <3>1
  <2> QED
    BY <1>0, <1>2, <2>1, <2>7
<1> QED
  BY <1>1, <1>2

\* The bytes of each field of a struct.
Parts(layout, struct) ==
    [i \in DOMAIN layout |-> Bytes(struct[layout[i][1]], layout[i][2])]

\* A well-formed layout has one part of bytes for each field.
LEMMA PartsType ==
    ASSUME NEW layout, WellFormed(layout), NEW struct, Covers(struct, layout)
    PROVE  /\ Len(layout) \in Nat /\ DOMAIN layout = 1 .. Len(layout)
           /\ \A i \in 1 .. Len(layout) :
                 /\ layout[i][1] \in NamesIn(layout) /\ layout[i][2] \in FieldType
                 /\ Parts(layout, struct)[i] = Bytes(struct[layout[i][1]], layout[i][2])
                 /\ struct[layout[i][1]] \in AnyValue
           /\ Parts(layout, struct) \in Seq(Seq(AnyByte))
           /\ Len(Parts(layout, struct)) = Len(layout)
<1>1. layout \in Seq(NamesIn(layout) \X FieldType)
  BY DEF WellFormed
<1>2. Len(layout) \in Nat /\ DOMAIN layout = 1 .. Len(layout)
  BY <1>1, LenProperties
<1>3. ASSUME NEW i \in 1 .. Len(layout)
      PROVE  /\ layout[i][1] \in NamesIn(layout) /\ layout[i][2] \in FieldType
             /\ Parts(layout, struct)[i] = Bytes(struct[layout[i][1]], layout[i][2])
             /\ struct[layout[i][1]] \in AnyValue
             /\ Bytes(struct[layout[i][1]], layout[i][2]) \in Seq(AnyByte)
  <2>1. layout[i] \in NamesIn(layout) \X FieldType
    BY <1>1, ElementOfSeq
  <2>2. layout[i][1] \in NamesIn(layout) /\ layout[i][2] \in FieldType
    BY <2>1
  <2>3. struct[layout[i][1]] \in AnyValue
    BY <2>2 DEF Covers
  <2>4. Parts(layout, struct)[i] = Bytes(struct[layout[i][1]], layout[i][2])
    BY <1>2 DEF Parts
  <2> QED
    BY <2>2, <2>3, <2>4, BytesType
<1>4. Parts(layout, struct) \in [1 .. Len(layout) -> Seq(AnyByte)]
  <2>1. DOMAIN Parts(layout, struct) = 1 .. Len(layout)
        /\ Parts(layout, struct) = [i \in 1 .. Len(layout) |-> Parts(layout, struct)[i]]
    BY <1>2 DEF Parts
  <2>2. \A i \in 1 .. Len(layout) : Parts(layout, struct)[i] \in Seq(AnyByte)
    BY <1>3
  <2> QED
    BY <2>1, <2>2
<1>5. Parts(layout, struct) \in Seq(Seq(AnyByte)) /\ Len(Parts(layout, struct)) = Len(layout)
  BY <1>2, <1>4
<1> QED
  BY <1>2, <1>3, <1>5

\* A struct is encoded as its parts, one after another.
LEMMA EncodeJoins ==
    ASSUME NEW layout, WellFormed(layout), NEW struct, Covers(struct, layout)
    PROVE  /\ Encode(layout, struct) \in Seq(AnyByte)
           /\ \E t : Joins(t, Parts(layout, struct)) /\ Encode(layout, struct) = t[Len(layout)]
<1>1. Parts(layout, struct) \in Seq(Seq(AnyByte)) /\ Len(Parts(layout, struct)) = Len(layout)
      /\ Len(layout) \in Nat
  BY PartsType
<1>2. PICK t : Joins(t, Parts(layout, struct))
  BY <1>1, JoinsExist
<1>3. Encode(layout, struct) = t[Len(layout)]
  BY <1>1, <1>2, FlattenJoins DEF Encode, Parts
<1>4. t[Len(layout)] \in Seq(AnyByte)
  BY <1>1, <1>2 DEF Joins
<1> QED
  BY <1>2, <1>3, <1>4

\* Each part stands behind those before it.
InTurn(parts, t, data, at) ==
    \A n \in 1 .. Len(parts) :
        /\ Len(t[n - 1]) \in Nat
        /\ Occurs(parts[n], data, at + Len(t[n - 1]))
        /\ Len(t[n]) = Len(t[n - 1]) + Len(parts[n])

\* Where the parts stand when all of them stand one after another.
LEMMA JoinsOccur ==
    ASSUME NEW parts \in Seq(Seq(AnyByte)), NEW t, Joins(t, parts),
           NEW data \in Seq(AnyByte), NEW at \in Nat \ {0},
           Occurs(t[Len(parts)], data, at)
    PROVE  InTurn(parts, t, data, at)
<1> DEFINE N == Len(parts)
           T == {k \in 0 .. N : Occurs(t[N - k], data, at)}
<1>0. N \in Nat
  BY LenProperties
<1>1. ASSUME NEW n \in 1 .. N
      PROVE  /\ t[n - 1] \in Seq(AnyByte) /\ parts[n] \in Seq(AnyByte)
             /\ t[n] = t[n - 1] \o parts[n]
             /\ Len(t[n - 1]) \in Nat
             /\ Len(t[n]) = Len(t[n - 1]) + Len(parts[n])
  <2>1. n - 1 \in 0 .. N
    BY <1>0
  <2>2. t[n - 1] \in Seq(AnyByte) /\ parts[n] \in Seq(AnyByte)
    BY <2>1, ElementOfSeq DEF Joins
  <2>3. t[n] = t[n - 1] \o parts[n]
    BY DEF Joins
  <2> QED
    BY <2>2, <2>3, Concat
<1>2. ASSUME NEW n \in 1 .. N, Occurs(t[n], data, at)
      PROVE  Occurs(t[n - 1], data, at) /\ Occurs(parts[n], data, at + Len(t[n - 1]))
  BY <1>1, <1>2, OccursInConcat
<1>3. 0 \in T
  <2>1. N - 0 = N
    BY <1>0
  <2> QED
    BY <1>0, <2>1
<1>4. ASSUME NEW k \in 0 .. N - 1, k \in T PROVE k + 1 \in T
  <2>1. N - k \in 1 .. N /\ (N - k) - 1 = N - (k + 1) /\ k + 1 \in 0 .. N
    BY <1>0
  <2>2. Occurs(t[(N - k) - 1], data, at)
    BY <1>2, <1>4, <2>1
  <2> QED
    BY <2>1, <2>2
<1>5. \A k \in 0 .. N : k \in T
  <2> HIDE DEF T, N
  <2> QED
    BY <1>0, <1>3, <1>4, Segment
<1>6. ASSUME NEW n \in 1 .. N PROVE Occurs(t[n], data, at)
  <2>1. N - n \in 0 .. N /\ N - (N - n) = n
    BY <1>0
  <2>2. N - n \in T
    BY <1>5, <2>1
  <2> QED
    BY <2>1, <2>2
<1> QED
  BY <1>1, <1>2, <1>6 DEF InTurn

\* Whatever follows it, a struct is decoded from the bytes it was encoded to.
THEOREM DecodeEncode ==
    ASSUME NEW layout, WellFormed(layout), NEW struct, Storable(layout, struct),
           NEW data \in Seq(AnyByte), Occurs(Encode(layout, struct), data, 1)
    PROVE  Decode(layout, data) = struct
<1> DEFINE N == Len(layout)
           parts == Parts(layout, struct)
           Item(i) == struct[layout[i][1]]
<1>0. /\ struct \in [NamesIn(layout) -> AnyValue] /\ Covers(struct, layout)
      /\ \A i \in 1 .. N : Readable(Item(i), layout[i][2])
  <2>1. struct \in [NamesIn(layout) -> AnyValue] /\ Covers(struct, layout)
    BY DEF Storable, Covers
  <2>2. ASSUME NEW i \in 1 .. N PROVE Readable(Item(i), layout[i][2])
    <3>1. /\ layout[i][1] \in NamesIn(layout) /\ Item(i) \in AnyValue
          /\ i \in DOMAIN layout
      BY <2>1, PartsType
    <3>2. layout[i][2] = "str" => layout[i][1] = "uri"
      BY <3>1 DEF WellFormed
    <3>3. layout[i][1] = "uri" => Readable(Item(i), "str")
      BY <3>1 DEF Storable
    <3> QED
      BY <3>1, <3>2, <3>3 DEF Readable
  <2> QED
    BY <2>1, <2>2
<1>1. /\ N \in Nat /\ DOMAIN layout = 1 .. N
      /\ \A i \in 1 .. N :
            /\ layout[i][1] \in NamesIn(layout) /\ layout[i][2] \in FieldType
            /\ parts[i] = Bytes(Item(i), layout[i][2])
            /\ Item(i) \in AnyValue
      /\ parts \in Seq(Seq(AnyByte)) /\ Len(parts) = N
  BY <1>0, PartsType
<1>2. PICK t : Joins(t, parts) /\ Encode(layout, struct) = t[N]
  BY <1>0, EncodeJoins
<1>3. \A n \in 1 .. N :
         /\ Len(t[n - 1]) \in Nat
         /\ Occurs(parts[n], data, 1 + Len(t[n - 1]))
         /\ Len(t[n]) = Len(t[n - 1]) + Len(parts[n])
  <2> DEFINE at == 1
  <2>1. Occurs(t[Len(parts)], data, at) /\ at \in Nat \ {0}
    BY <1>1, <1>2
  <2>2. Joins(t, parts) /\ parts \in Seq(Seq(AnyByte))
    BY <1>1, <1>2
  <2> HIDE DEF parts, at
  <2>3. InTurn(parts, t, data, at)
    BY <2>1, <2>2, JoinsOccur
  <2>4. Len(parts) = N
    BY <1>1
  <2> HIDE DEF N
  <2> QED
    BY <2>3, <2>4 DEF InTurn, at
<1> DEFINE Entry(f, n) ==
               IF n = 0 THEN [next |-> 1, values |-> <<>>]
               ELSE LET before == f[n - 1]
                        one == ReadField(data, before.next, layout[n][2])
                    IN  [next |-> one.next, values |-> Append(before.values, one.value)]
           read == CHOOSE f : f = [n \in 0 .. Len(layout) |-> Entry(f, n)]
           Items(n) == [i \in 1 .. n |-> Item(i)]
           right == [n \in 0 .. Len(layout) |->
                        [next |-> 1 + Len(t[n]), values |-> Items(n)]]
<1>4. ASSUME NEW n \in 1 .. N
      PROVE  /\ ReadField(data, 1 + Len(t[n - 1]), layout[n][2]) =
                    [value |-> Item(n), next |-> 1 + Len(t[n])]
             /\ Append(Items(n - 1), Item(n)) = Items(n)
  <2>1. 1 + Len(t[n - 1]) \in Nat \ {0}
        /\ 1 + Len(t[n]) = (1 + Len(t[n - 1])) + Len(parts[n])
    <3>1. Len(parts[n]) \in Nat
      BY <1>1, ElementOfSeq, LenProperties
    <3>2. Len(t[n - 1]) \in Nat /\ Len(t[n]) = Len(t[n - 1]) + Len(parts[n])
      BY <1>3
    <3> DEFINE before == Len(t[n - 1])
               more == Len(parts[n])
               after == Len(t[n])
    <3>3. before \in Nat /\ more \in Nat /\ after = before + more
      BY <3>1, <3>2
    <3> HIDE DEF before, more, after
    <3>4. 1 + before \in Nat \ {0} /\ 1 + after = (1 + before) + more
      BY <3>3
    <3> QED
      BY <3>4 DEF before, more, after
  <2>2. Occurs(Bytes(Item(n), layout[n][2]), data, 1 + Len(t[n - 1]))
    BY <1>1, <1>3
  <2>3. ReadField(data, 1 + Len(t[n - 1]), layout[n][2]) =
           [value |-> Item(n),
            next |-> (1 + Len(t[n - 1])) + Len(Bytes(Item(n), layout[n][2]))]
    <3> HIDE DEF Item
    <3> QED
      BY <1>0, <1>1, <2>1, <2>2, ReadBack
  <2>4. Append(Items(n - 1), Item(n)) = Items(n)
    <3>0. /\ n \in Nat /\ n - 1 \in Nat
          /\ \A i \in 1 .. n : Item(i) \in AnyValue
          /\ \A i \in 1 .. n - 1 : Item(i) \in AnyValue
      BY <1>1
    <3> HIDE DEF Item
    <3>1. Items(n - 1) \in Seq(AnyValue) /\ Len(Items(n - 1)) = n - 1
      BY <3>0
    <3>2. Items(n) \in Seq(AnyValue) /\ Len(Items(n)) = n
      BY <3>0
    <3>3. \A i \in 1 .. n : Items(n)[i] = Item(i)
      OBVIOUS
    <3>4. \A i \in 1 .. n - 1 : Items(n - 1)[i] = Item(i)
      OBVIOUS
    <3> HIDE DEF Items
    <3>5. /\ Append(Items(n - 1), Item(n)) \in Seq(AnyValue)
          /\ Len(Append(Items(n - 1), Item(n))) = (n - 1) + 1
          /\ \A i \in 1 .. n - 1 : Append(Items(n - 1), Item(n))[i] = Items(n - 1)[i]
          /\ Append(Items(n - 1), Item(n))[(n - 1) + 1] = Item(n)
      BY <1>1, <3>1, AppendProperties
    <3>6. (n - 1) + 1 = n /\ \A i \in 1 .. n : i \in 1 .. n - 1 \/ i = n
      BY <1>1
    <3>7. \A i \in 1 .. n : Append(Items(n - 1), Item(n))[i] = Items(n)[i]
      BY <3>3, <3>4, <3>5, <3>6
    <3> QED
      BY <3>2, <3>5, <3>6, <3>7, SeqEqual
  <2> QED
    BY <1>1, <2>1, <2>3, <2>4
<1>5. Items(0) = <<>>
  OBVIOUS
<1> HIDE DEF Items, Item, parts
<1>6. right = [n \in 0 .. Len(layout) |-> Entry(right, n)]
  <2> SUFFICES ASSUME NEW n \in 0 .. N PROVE right[n] = Entry(right, n)
    OBVIOUS
  <2>0. right[n] = [next |-> 1 + Len(t[n]), values |-> Items(n)]
    OBVIOUS
  <2>1. CASE n = 0
    <3>1. Len(t[0]) = 0
      BY <1>2, EmptySeq DEF Joins
    <3> QED
      BY <1>5, <2>0, <2>1, <3>1
  <2>2. CASE n # 0
    <3>1. n \in 1 .. N /\ n - 1 \in 0 .. N
      BY <1>1, <2>2
    <3>2. right[n - 1] = [next |-> 1 + Len(t[n - 1]), values |-> Items(n - 1)]
      BY <3>1
    <3> HIDE DEF right
    <3>3. right[n - 1].next = 1 + Len(t[n - 1]) /\ right[n - 1].values = Items(n - 1)
      BY <3>2
    <3>4. ReadField(data, right[n - 1].next, layout[n][2]) =
             [value |-> Item(n), next |-> 1 + Len(t[n])]
      BY <1>4, <3>1, <3>3
    <3>5. Append(right[n - 1].values, Item(n)) = Items(n)
      BY <1>4, <3>1, <3>3
    <3>6. Entry(right, n) =
             [next |-> ReadField(data, right[n - 1].next, layout[n][2]).next,
              values |-> Append(right[n - 1].values,
                                ReadField(data, right[n - 1].next, layout[n][2]).value)]
      BY <2>2
    <3>7. /\ ReadField(data, right[n - 1].next, layout[n][2]).next = 1 + Len(t[n])
          /\ ReadField(data, right[n - 1].next, layout[n][2]).value = Item(n)
      BY <3>4
    <3> HIDE DEF Entry
    <3> QED
      BY <2>0, <3>5, <3>6, <3>7
  <2> QED
    BY <2>1, <2>2
<1>7. read = [n \in 0 .. Len(layout) |-> Entry(read, n)]
  <2> HIDE DEF Entry, right
  <2> QED
    BY <1>6
<1>8. Decode(layout, data) =
        [name \in NamesIn(layout) |->
            read[Len(layout)].values[CHOOSE i \in DOMAIN layout : layout[i][1] = name]]
  BY DEF Decode
<1> HIDE DEF read, right
<1>9. \A n \in 0 .. N : read[n] = right[n]
  <2> DEFINE T == {n \in 0 .. N : read[n] = right[n]}
  <2>1. 0 \in T
    <3>1. read[0] = [next |-> 1, values |-> <<>>] /\ right[0] = [next |-> 1, values |-> <<>>]
      BY <1>1, <1>6, <1>7
    <3> QED
      BY <1>1, <3>1
  <2>2. ASSUME NEW n \in 0 .. N - 1, n \in T PROVE n + 1 \in T
    <3>1. n + 1 \in 0 .. N /\ n + 1 # 0 /\ (n + 1) - 1 = n
      BY <1>1
    <3>2. Entry(read, n + 1) = Entry(right, n + 1)
      BY <2>2, <3>1
    <3> HIDE DEF Entry
    <3> QED
      BY <1>6, <1>7, <3>1, <3>2
  <2>3. \A n \in 0 .. N : n \in T
    <3> HIDE DEF T, N
    <3> QED
      BY <1>1, <2>1, <2>2, Segment
  <2> QED
    BY <2>3
<1>10. read[N].values = Items(N)
  <2>1. N \in 0 .. N
    BY <1>1
  <2>2. right[N] = [next |-> 1 + Len(t[N]), values |-> Items(N)]
    BY <2>1 DEF right
  <2> QED
    BY <1>9, <2>1, <2>2
<1>11. ASSUME NEW name \in NamesIn(layout)
       PROVE  Items(N)[CHOOSE i \in DOMAIN layout : layout[i][1] = name] = struct[name]
  <2> DEFINE place == CHOOSE i \in DOMAIN layout : layout[i][1] = name
  <2>1. \E i \in DOMAIN layout : layout[i][1] = name
    BY DEF NamesIn
  <2>2. place \in 1 .. N /\ layout[place][1] = name
    BY <1>1, <2>1
  <2> HIDE DEF place
  <2>3. Items(N)[place] = struct[name]
    BY <2>2 DEF Items, Item
  <2> QED
    BY <2>3 DEF place
<1>12. Decode(layout, data) = [name \in NamesIn(layout) |-> struct[name]]
  <2> DEFINE Place(name) == CHOOSE i \in DOMAIN layout : layout[i][1] = name
  <2>1. \A name \in NamesIn(layout) : read[Len(layout)].values[Place(name)] = struct[name]
    BY <1>10, <1>11
  <2>2. Decode(layout, data) =
           [name \in NamesIn(layout) |-> read[Len(layout)].values[Place(name)]]
    BY <1>8
  <2> HIDE DEF Place
  <2> QED
    BY <2>1, <2>2
<1> QED
  BY <1>0, <1>12

----------------------------------------------------------------------------
(***************************************************************************)
(* The space a struct takes                                                *)
(***************************************************************************)
LEMMA SpaceType ==
    ASSUME NEW layout, WellFormed(layout), NEW longest \in Nat
    PROVE  /\ SpaceOf(layout, longest) \in Nat
           /\ \A struct :
              Covers(struct, layout)
                /\ ("uri" \in NamesIn(layout) => struct["uri"].size <= longest) =>
              Len(Encode(layout, struct)) <= SpaceOf(layout, longest)
<1> DEFINE N == Len(layout)
           size == [i \in DOMAIN layout |->
                       IF layout[i][2] = "str" THEN Width["u32"] + longest
                                               ELSE Width[layout[i][2]]]
<1>1. N \in Nat /\ DOMAIN layout = 1 .. N /\ IsFiniteSet(1 .. N)
  <2>1. N \in Nat /\ DOMAIN layout = 1 .. N
    BY LenProperties DEF WellFormed
  <2> QED
    BY <2>1, FS_Interval
<1>2. \A i \in 1 .. N : layout[i][1] \in NamesIn(layout) /\ layout[i][2] \in FieldType
  <2> SUFFICES ASSUME NEW i \in 1 .. N
               PROVE  layout[i][1] \in NamesIn(layout) /\ layout[i][2] \in FieldType
    OBVIOUS
  <2>1. layout[i] \in NamesIn(layout) \X FieldType
    BY ElementOfSeq DEF WellFormed
  <2> QED
    BY <2>1
<1>3. size \in [1 .. N -> Nat]
  <2> SUFFICES ASSUME NEW i \in 1 .. N PROVE size[i] \in Nat
    BY <1>1
  <2>1. layout[i][2] = "str" \/ layout[i][2] \in DOMAIN Width
    BY <1>2 DEF FieldType
  <2>2. Width["u32"] \in Nat /\ Width["u32"] + longest \in Nat
        /\ \A type \in DOMAIN Width : Width[type] \in Nat
    BY Widths
  <2> QED
    BY <1>1, <2>1, <2>2
<1>4. PICK g : SumsBySubset(g, size, 1 .. N) /\ SumFunction(size) = g[1 .. N]
  <2> HIDE DEF size
  <2> QED
    BY <1>1, <1>3, SumRemoves
<1>5. SpaceOf(layout, longest) = g[1 .. N] /\ g[1 .. N] \in Nat
  BY <1>4 DEF SpaceOf, SumsBySubset
<1>6. ASSUME NEW struct, Covers(struct, layout),
             "uri" \in NamesIn(layout) => struct["uri"].size <= longest
      PROVE  Len(Encode(layout, struct)) <= g[1 .. N]
  <2> DEFINE parts == Parts(layout, struct)
  <2>1. PICK t : Joins(t, parts) /\ Encode(layout, struct) = t[N]
    BY <1>6, EncodeJoins
  <2>2. Len(parts) = N /\ parts \in Seq(Seq(AnyByte))
        /\ \A i \in 1 .. N : /\ parts[i] = Bytes(struct[layout[i][1]], layout[i][2])
                             /\ struct[layout[i][1]] \in AnyValue
    BY <1>6, PartsType
  <2>3. ASSUME NEW i \in 1 .. N
        PROVE  Len(parts[i]) \in Nat /\ Len(parts[i]) <= size[i] /\ size[i] \in Nat
    <3> DEFINE value == struct[layout[i][1]]
               type == layout[i][2]
    <3>1. /\ value \in AnyValue /\ type \in FieldType
          /\ type = "str" => value.size <= longest
      <4>1. type = "str" => layout[i][1] = "uri"
        BY <1>1 DEF WellFormed
      <4> QED
        BY <1>2, <1>6, <2>2, <4>1
    <3>2. value.size \in Nat /\ Width["u32"] \in Nat
      BY <3>1, Widths DEF AnyValue
    <3>3. size[i] = IF type = "str" THEN Width["u32"] + longest ELSE Width[type]
      BY <1>1
    <3>4. size[i] \in Nat
      BY <1>3
    <3>5. parts[i] = Bytes(value, type)
      BY <2>2
    <3> HIDE DEF value, type, size, parts
    <3>6. Len(Bytes(value, type)) =
             IF type = "str" THEN Width["u32"] + value.size ELSE Width[type]
      BY <3>1, BytesType
    <3> QED
      BY <3>1, <3>2, <3>3, <3>4, <3>5, <3>6
  <2> DEFINE T == {n \in 0 .. N : Len(t[n]) <= g[1 .. n]}
  <2> HIDE DEF parts, size
  <2>4. 0 \in T
    <3>1. 1 .. 0 = {} /\ 0 \in 0 .. N
      BY <1>1
    <3>2. Len(t[0]) = 0 /\ g[{}] = 0
      BY <1>4, <2>1, EmptySeq DEF Joins, SumsBySubset
    <3>3. Len(t[0]) <= g[1 .. 0]
      BY <3>1, <3>2
    <3> QED
      BY <3>1, <3>3
  <2>5. ASSUME NEW n \in 0 .. N - 1, n \in T PROVE n + 1 \in T
    <3>1. n + 1 \in 1 .. N /\ n + 1 \in 0 .. N /\ n \in 0 .. N /\ (n + 1) - 1 = n
      BY <1>1
    <3>2. t[n] \in Seq(AnyByte) /\ parts[n + 1] \in Seq(AnyByte)
          /\ t[n + 1] = t[n] \o parts[n + 1]
      BY <2>1, <2>2, <3>1, ElementOfSeq DEF Joins
    <3>3. Len(t[n + 1]) = Len(t[n]) + Len(parts[n + 1]) /\ Len(t[n]) \in Nat
      BY <3>2, Concat
    <3> DEFINE short == 1 .. n
               long == 1 .. (n + 1)
    <3>4. long \in SUBSET (1 .. N) /\ short \in SUBSET (1 .. N)
          /\ n + 1 \in long /\ long \ {n + 1} = short
      BY <3>1
    <3> HIDE DEF short, long
    <3>5. g[long] = size[n + 1] + g[short] /\ g[short] \in Nat
      BY <1>4, <3>4 DEF SumsBySubset
    <3>6. Len(t[n]) <= g[short]
      BY <2>5 DEF short
    <3>7. Len(parts[n + 1]) \in Nat /\ Len(parts[n + 1]) <= size[n + 1] /\ size[n + 1] \in Nat
      BY <2>3, <3>1
    <3>8. ASSUME NEW a \in Nat, NEW b \in Nat, NEW c \in Nat, NEW d \in Nat, a <= c, b <= d
          PROVE  a + b <= d + c
      BY <3>8
    <3>9. Len(t[n]) + Len(parts[n + 1]) <= size[n + 1] + g[short]
      BY <3>3, <3>5, <3>6, <3>7, <3>8
    <3>10. Len(t[n + 1]) <= g[long]
      BY <3>3, <3>5, <3>9
    <3> QED
      BY <3>1, <3>10 DEF long
  <2>6. \A n \in 0 .. N : n \in T
    <3> HIDE DEF T, N
    <3> QED
      BY <1>1, <2>4, <2>5, Segment
  <2> QED
    BY <1>1, <2>1, <2>6
<1> QED
  BY <1>5, <1>6

----------------------------------------------------------------------------
(***************************************************************************)
(* Layouts put together                                                    *)
(***************************************************************************)
LEMMA LayoutType ==
    ASSUME NEW layout, WellFormed(layout)
    PROVE  /\ layout \in Seq(NamesIn(layout) \X FieldType)
           /\ Len(layout) \in Nat /\ DOMAIN layout = 1 .. Len(layout)
           /\ \A i \in 1 .. Len(layout) :
                 layout[i][1] \in NamesIn(layout) /\ layout[i][2] \in FieldType
           /\ \A name \in NamesIn(layout) : \E i \in 1 .. Len(layout) : layout[i][1] = name
<1>1. layout \in Seq(NamesIn(layout) \X FieldType)
  BY DEF WellFormed
<1>2. Len(layout) \in Nat /\ DOMAIN layout = 1 .. Len(layout)
  BY <1>1, LenProperties
<1>3. ASSUME NEW i \in 1 .. Len(layout)
      PROVE  layout[i][1] \in NamesIn(layout) /\ layout[i][2] \in FieldType
  <2>1. layout[i] \in NamesIn(layout) \X FieldType
    BY <1>1, ElementOfSeq
  <2> QED
    BY <2>1
<1> QED
  BY <1>1, <1>2, <1>3 DEF NamesIn

\* Two layouts with no field in common make one layout.
LEMMA ConcatLayouts ==
    ASSUME NEW front, WellFormed(front), NEW back, WellFormed(back),
           NamesIn(front) \cap NamesIn(back) = {}
    PROVE  /\ WellFormed(front \o back)
           /\ NamesIn(front \o back) = NamesIn(front) \cup NamesIn(back)
           /\ Len(front \o back) = Len(front) + Len(back)
           /\ \A i \in 1 .. Len(front) : (front \o back)[i] = front[i]
           /\ \A i \in 1 .. Len(back) : (front \o back)[Len(front) + i] = back[i]
<1> DEFINE both == front \o back
           names == NamesIn(front) \cup NamesIn(back)
           A == Len(front)
           B == Len(back)
<1>1. front \in Seq(names \X FieldType) /\ back \in Seq(names \X FieldType)
  <2>1. NamesIn(front) \X FieldType \subseteq names \X FieldType
        /\ NamesIn(back) \X FieldType \subseteq names \X FieldType
    OBVIOUS
  <2> HIDE DEF names
  <2> QED
    BY <2>1, LayoutType, SeqMonotonic
<1>2. A \in Nat /\ B \in Nat
  BY LayoutType
<1>3. /\ both \in Seq(names \X FieldType)
      /\ Len(both) = A + B
      /\ \A i \in 1 .. A + B : both[i] = IF i <= A THEN front[i] ELSE back[i - A]
  <2> HIDE DEF names
  <2> QED
    BY <1>1, ConcatProperties
<1> HIDE DEF both
<1>4. DOMAIN both = 1 .. A + B
  BY <1>3, LenProperties
<1>5. \A i \in 1 .. A : i \in 1 .. A + B /\ both[i] = front[i]
  BY <1>2, <1>3
<1>6. ASSUME NEW i \in 1 .. B PROVE A + i \in 1 .. A + B /\ both[A + i] = back[i]
  <2>1. A + i \in 1 .. A + B /\ ~(A + i <= A) /\ (A + i) - A = i
    BY <1>2
  <2> QED
    BY <1>3, <2>1
<1>7. ASSUME NEW i \in 1 .. A + B
      PROVE  \/ i \in 1 .. A /\ both[i] = front[i]
             \/ i - A \in 1 .. B /\ both[i] = back[i - A]
  <2>1. i <= A => i \in 1 .. A
    BY <1>2
  <2>2. ~(i <= A) => i - A \in 1 .. B
    BY <1>2
  <2> QED
    BY <1>3, <2>1, <2>2
<1> HIDE DEF A, B
<1>8. NamesIn(both) = names
  <2>1. NamesIn(both) \subseteq names
    <3> SUFFICES ASSUME NEW i \in 1 .. A + B PROVE both[i][1] \in names
      BY <1>4 DEF NamesIn
    <3> QED
      BY <1>7, LayoutType DEF A, B
  <2>2. ASSUME NEW name \in NamesIn(front) PROVE name \in NamesIn(both)
    <3>1. PICK i \in 1 .. A : front[i][1] = name
      BY LayoutType DEF A
    <3> QED
      BY <1>4, <1>5, <3>1 DEF NamesIn
  <2>3. ASSUME NEW name \in NamesIn(back) PROVE name \in NamesIn(both)
    <3>1. PICK i \in 1 .. B : back[i][1] = name
      BY LayoutType DEF B
    <3> QED
      BY <1>4, <1>6, <3>1 DEF NamesIn
  <2> QED
    BY <2>1, <2>2, <2>3
<1>9. ASSUME NEW i \in 1 .. A + B, NEW j \in 1 .. A + B, both[i][1] = both[j][1]
      PROVE  i = j
  <2>1. \A k \in 1 .. A : front[k][1] \in NamesIn(front) /\ k \in DOMAIN front
    BY LayoutType DEF A
  <2>2. \A k \in 1 .. B : back[k][1] \in NamesIn(back) /\ k \in DOMAIN back
    BY LayoutType DEF B
  <2>3. CASE i \in 1 .. A /\ both[i] = front[i]
    <3>1. j \in 1 .. A /\ both[j] = front[j]
      BY <1>7, <1>9, <2>1, <2>2, <2>3
    <3> QED
      BY <1>9, <2>1, <2>3, <3>1 DEF WellFormed
  <2>4. CASE i - A \in 1 .. B /\ both[i] = back[i - A]
    <3>1. j - A \in 1 .. B /\ both[j] = back[j - A]
      BY <1>7, <1>9, <2>1, <2>2, <2>4
    <3>2. i - A = j - A
      BY <1>9, <2>2, <2>4, <3>1 DEF WellFormed
    <3> QED
      BY <1>2, <3>2 DEF A
  <2> QED
    BY <1>7, <2>3, <2>4
<1>10. ASSUME NEW i \in 1 .. A + B, both[i][2] = "str" PROVE both[i][1] = "uri"
  <2>1. CASE i \in 1 .. A /\ both[i] = front[i]
    BY <1>10, <2>1, LayoutType DEF WellFormed, A
  <2>2. CASE i - A \in 1 .. B /\ both[i] = back[i - A]
    BY <1>10, <2>2, LayoutType DEF WellFormed, B
  <2> QED
    BY <1>7, <2>1, <2>2
<1>11. WellFormed(both)
  BY <1>3, <1>4, <1>8, <1>9, <1>10 DEF WellFormed
<1> QED
  BY <1>3, <1>5, <1>6, <1>8, <1>11 DEF A, B, both

----------------------------------------------------------------------------
(***************************************************************************)
(* The program's layouts: every name once, and what the names are          *)
(***************************************************************************)
Lists(layout, names) == WellFormed(layout) /\ NamesIn(layout) = names

\* The types the tables of the program use.
LEMMA FieldTypes ==
    {"publicKey", "i64", "u64", "u32", "u16", "u8", "bool", "[u64; 6]", "[u8; 32]",
     "[u8; 232]", "[u8; 240]", "str"} \subseteq FieldType
BY DEF FieldType, Width

\* A function on an initial segment is a sequence.
LEMMA TableIsSeq ==
    ASSUME NEW S, NEW n \in Nat, NEW f \in [1 .. n -> S]
    PROVE  f \in Seq(S) /\ Len(f) = n
OBVIOUS

\* Fields of one type, by their names.
LEMMA Fields ==
    ASSUME NEW type \in FieldType, NEW n \in Nat, NEW names, DOMAIN names = 1 .. n,
           \A i, j \in 1 .. n : names[i] = names[j] => i = j,
           type = "str" => \A i \in 1 .. n : names[i] = "uri"
    PROVE  Lists(Of(type, names), {names[i] : i \in 1 .. n}) /\ Len(Of(type, names)) = n
<1> DEFINE layout == Of(type, names)
           set == {names[i] : i \in 1 .. n}
<1>1. layout = [i \in 1 .. n |-> <<names[i], type>>]
  BY DEF Of
<1>2. \A i \in 1 .. n : /\ layout[i] = <<names[i], type>>
                        /\ layout[i][1] = names[i] /\ layout[i][2] = type
  BY <1>1
<1>3. DOMAIN layout = 1 .. n
  BY <1>1
<1> HIDE DEF layout
<1>4. NamesIn(layout) = set
  BY <1>2, <1>3 DEF NamesIn
<1>5. layout \in [1 .. n -> set \X FieldType]
  BY <1>1
<1>6. layout \in Seq(set \X FieldType) /\ Len(layout) = n
  <2> HIDE DEF set
  <2> QED
    BY <1>5, TableIsSeq
<1>7. WellFormed(layout)
  <2> HIDE DEF set
  <2> QED
    BY <1>2, <1>3, <1>4, <1>6 DEF WellFormed
<1> QED
  BY <1>4, <1>6, <1>7 DEF layout, Lists

\* A group of one field of a type.
LEMMA Fields1 ==
    ASSUME NEW type \in FieldType, NEW a, type = "str" => a = "uri"
    PROVE  Lists(Of(type, <<a>>), {a}) /\ Len(Of(type, <<a>>)) = 1
<1> DEFINE names == <<a>>
<1>1. /\ DOMAIN names = 1 .. 1 /\ 1 .. 1 = {1}
      /\ names[1] = a
  OBVIOUS
<1> HIDE DEF names
<1>2. /\ \A i, j \in 1 .. 1 : names[i] = names[j] => i = j
      /\ type = "str" => \A i \in 1 .. 1 : names[i] = "uri"
      /\ {names[i] : i \in 1 .. 1} = {a}
  BY <1>1
<1>3. Lists(Of(type, names), {names[i] : i \in 1 .. 1}) /\ Len(Of(type, names)) = 1
  BY <1>1, <1>2, Fields
<1> QED
  BY <1>2, <1>3 DEF names

\* A group of two.
LEMMA Fields2 ==
    ASSUME NEW type \in FieldType, NEW a, NEW b, type # "str", a # b
    PROVE  Lists(Of(type, <<a, b>>), {a, b}) /\ Len(Of(type, <<a, b>>)) = 2
<1> DEFINE names == <<a, b>>
<1>1. /\ DOMAIN names = 1 .. 2 /\ 1 .. 2 = {1, 2}
      /\ names[1] = a /\ names[2] = b
  OBVIOUS
<1> HIDE DEF names
<1>2. /\ \A i, j \in 1 .. 2 : names[i] = names[j] => i = j
      /\ type = "str" => \A i \in 1 .. 2 : names[i] = "uri"
      /\ {names[i] : i \in 1 .. 2} = {a, b}
  BY <1>1
<1>3. Lists(Of(type, names), {names[i] : i \in 1 .. 2}) /\ Len(Of(type, names)) = 2
  BY <1>1, <1>2, Fields
<1> QED
  BY <1>2, <1>3 DEF names

\* A group of three.
LEMMA Fields3 ==
    ASSUME NEW type \in FieldType, NEW a, NEW b, NEW c, type # "str", a # b, a # c, b # c
    PROVE  Lists(Of(type, <<a, b, c>>), {a, b, c}) /\ Len(Of(type, <<a, b, c>>)) = 3
<1> DEFINE names == <<a, b, c>>
<1>1. /\ DOMAIN names = 1 .. 3 /\ 1 .. 3 = {1, 2, 3}
      /\ names[1] = a /\ names[2] = b /\ names[3] = c
  OBVIOUS
<1> HIDE DEF names
<1>2. /\ \A i, j \in 1 .. 3 : names[i] = names[j] => i = j
      /\ type = "str" => \A i \in 1 .. 3 : names[i] = "uri"
      /\ {names[i] : i \in 1 .. 3} = {a, b, c}
  BY <1>1
<1>3. Lists(Of(type, names), {names[i] : i \in 1 .. 3}) /\ Len(Of(type, names)) = 3
  BY <1>1, <1>2, Fields
<1> QED
  BY <1>2, <1>3 DEF names

\* A group of four.
LEMMA Fields4 ==
    ASSUME NEW type \in FieldType, NEW a, NEW b, NEW c, NEW d, type # "str", a # b, a # c, a # d, b # c, b # d, c # d
    PROVE  Lists(Of(type, <<a, b, c, d>>), {a, b, c, d}) /\ Len(Of(type, <<a, b, c, d>>)) = 4
<1> DEFINE names == <<a, b, c, d>>
<1>1. /\ DOMAIN names = 1 .. 4 /\ 1 .. 4 = {1, 2, 3, 4}
      /\ names[1] = a /\ names[2] = b /\ names[3] = c /\ names[4] = d
  OBVIOUS
<1> HIDE DEF names
<1>2. /\ \A i, j \in 1 .. 4 : names[i] = names[j] => i = j
      /\ type = "str" => \A i \in 1 .. 4 : names[i] = "uri"
      /\ {names[i] : i \in 1 .. 4} = {a, b, c, d}
  BY <1>1
<1>3. Lists(Of(type, names), {names[i] : i \in 1 .. 4}) /\ Len(Of(type, names)) = 4
  BY <1>1, <1>2, Fields
<1> QED
  BY <1>2, <1>3 DEF names

\* A layout and a further group.
LEMMA MoreFields ==
    ASSUME NEW front, NEW before, Lists(front, before), NEW back, NEW more, Lists(back, more),
           before \cap more = {}
    PROVE  Lists(front \o back, before \cup more) /\ Len(front \o back) = Len(front) + Len(back)
BY ConcatLayouts DEF Lists

\* An instruction without arguments.
LEMMA NoFields == Lists(<<>>, {})
<1>1. NamesIn(<<>>) = {}
  BY DEF NamesIn
<1> QED
  BY <1>1, EmptySeq DEF Lists, WellFormed

\* The tables, one by one: each is well formed and lists these fields.
LEMMA NamespaceFields ==
    Lists(ProgramNamespace, {"tokenMint", "deployer", "securityCouncil",
          "reviewCouncil", "overrideNow", "lockupDefaultTargetRewardsPct",
          "lockupDefaultTargetVotingPct", "lockupMinDuration", "lockupMinAmount",
          "lockupMaxSaturation", "proposalMinVotingPowerForQuorum",
          "proposalMinPassPct", "proposalCanUpdateAfterVotes", "lockupAmount",
          "proposalNonce", "padding"})
<1> DEFINE n1 == {"tokenMint", "deployer", "securityCouncil", "reviewCouncil"}
           n2 == {"overrideNow"}
           n3 == {"lockupDefaultTargetRewardsPct", "lockupDefaultTargetVotingPct"}
           n4 == {"lockupMinDuration"}
           n5 == {"lockupMinAmount", "lockupMaxSaturation", "proposalMinVotingPowerForQuorum"}
           n6 == {"proposalMinPassPct"}
           n7 == {"proposalCanUpdateAfterVotes"}
           n8 == {"lockupAmount"}
           n9 == {"proposalNonce"}
           n10 == {"padding"}
           f1 == Of("publicKey", <<"tokenMint", "deployer", "securityCouncil",
                                 "reviewCouncil">>)
           f2 == Of("i64", <<"overrideNow">>)
           f3 == Of("u16", <<"lockupDefaultTargetRewardsPct",
                                 "lockupDefaultTargetVotingPct">>)
           f4 == Of("i64", <<"lockupMinDuration">>)
           f5 == Of("u64", <<"lockupMinAmount", "lockupMaxSaturation",
                                 "proposalMinVotingPowerForQuorum">>)
           f6 == Of("u16", <<"proposalMinPassPct">>)
           f7 == Of("bool", <<"proposalCanUpdateAfterVotes">>)
           f8 == Of("u64", <<"lockupAmount">>)
           f9 == Of("u32", <<"proposalNonce">>)
           f10 == Of("[u8; 240]", <<"padding">>)
           l2 == f1 \o f2
           l3 == l2 \o f3
           l4 == l3 \o f4
           l5 == l4 \o f5
           l6 == l5 \o f6
           l7 == l6 \o f7
           l8 == l7 \o f8
           l9 == l8 \o f9
           l10 == l9 \o f10
<1>1. /\ Lists(f1, n1) /\ Lists(f2, n2) /\ Lists(f3, n3) /\ Lists(f4, n4)
      /\ Lists(f5, n5) /\ Lists(f6, n6) /\ Lists(f7, n7) /\ Lists(f8, n8)
      /\ Lists(f9, n9) /\ Lists(f10, n10)
  BY FieldTypes, Fields1, Fields2, Fields3, Fields4
<1>2. ProgramNamespace = l10
  BY DEF ProgramNamespace
<1> HIDE DEF f1, f2, f3, f4, f5, f6, f7, f8, f9, f10
<1>3. Lists(l2, n1 \cup n2)
  BY <1>1, MoreFields
<1> HIDE DEF l2
<1>4. Lists(l3, n1 \cup n2 \cup n3)
  BY <1>1, <1>3, MoreFields
<1> HIDE DEF l3
<1>5. Lists(l4, n1 \cup n2 \cup n3 \cup n4)
  BY <1>1, <1>4, MoreFields
<1> HIDE DEF l4
<1>6. Lists(l5, n1 \cup n2 \cup n3 \cup n4 \cup n5)
  BY <1>1, <1>5, MoreFields
<1> HIDE DEF l5
<1>7. Lists(l6, n1 \cup n2 \cup n3 \cup n4 \cup n5 \cup n6)
  BY <1>1, <1>6, MoreFields
<1> HIDE DEF l6
<1>8. Lists(l7, n1 \cup n2 \cup n3 \cup n4 \cup n5 \cup n6 \cup n7)
  BY <1>1, <1>7, MoreFields
<1> HIDE DEF l7
<1>9. Lists(l8, n1 \cup n2 \cup n3 \cup n4 \cup n5 \cup n6 \cup n7 \cup n8)
  BY <1>1, <1>8, MoreFields
<1> HIDE DEF l8
<1>10. Lists(l9, n1 \cup n2 \cup n3 \cup n4 \cup n5 \cup n6 \cup n7 \cup n8 \cup n9)
  BY <1>1, <1>9, MoreFields
<1> HIDE DEF l9
<1>11. Lists(l10, n1 \cup n2 \cup n3 \cup n4 \cup n5 \cup n6 \cup n7 \cup n8 \cup n9 \cup n10)
  BY <1>1, <1>10, MoreFields
<1> QED
  BY <1>2, <1>11

LEMMA LockupFields ==
    Lists(ProgramLockup, {"ns", "owner", "amount", "startTs", "endTs",
          "targetRewardsPct", "targetVotingPct", "weightedStartTs", "padding"})
<1> DEFINE n1 == {"ns", "owner"}
           n2 == {"amount"}
           n3 == {"startTs", "endTs"}
           n4 == {"targetRewardsPct", "targetVotingPct"}
           n5 == {"weightedStartTs"}
           n6 == {"padding"}
           f1 == Of("publicKey", <<"ns", "owner">>)
           f2 == Of("u64", <<"amount">>)
           f3 == Of("i64", <<"startTs", "endTs">>)
           f4 == Of("u16", <<"targetRewardsPct", "targetVotingPct">>)
           f5 == Of("i64", <<"weightedStartTs">>)
           f6 == Of("[u8; 232]", <<"padding">>)
           l2 == f1 \o f2
           l3 == l2 \o f3
           l4 == l3 \o f4
           l5 == l4 \o f5
           l6 == l5 \o f6
<1>1. /\ Lists(f1, n1) /\ Lists(f2, n2) /\ Lists(f3, n3) /\ Lists(f4, n4)
      /\ Lists(f5, n5) /\ Lists(f6, n6)
  BY FieldTypes, Fields1, Fields2
<1>2. ProgramLockup = l6
  BY DEF ProgramLockup
<1> HIDE DEF f1, f2, f3, f4, f5, f6
<1>3. Lists(l2, n1 \cup n2)
  BY <1>1, MoreFields
<1> HIDE DEF l2
<1>4. Lists(l3, n1 \cup n2 \cup n3)
  BY <1>1, <1>3, MoreFields
<1> HIDE DEF l3
<1>5. Lists(l4, n1 \cup n2 \cup n3 \cup n4)
  BY <1>1, <1>4, MoreFields
<1> HIDE DEF l4
<1>6. Lists(l5, n1 \cup n2 \cup n3 \cup n4 \cup n5)
  BY <1>1, <1>5, MoreFields
<1> HIDE DEF l5
<1>7. Lists(l6, n1 \cup n2 \cup n3 \cup n4 \cup n5 \cup n6)
  BY <1>1, <1>6, MoreFields
<1> QED
  BY <1>2, <1>7

LEMMA ProposalFields ==
    Lists(ProgramProposal, {"ns", "nonce", "owner", "startTs", "endTs", "status",
          "votingPowerChoices", "uri", "padding"})
<1> DEFINE n1 == {"ns"}
           n2 == {"nonce"}
           n3 == {"owner"}
           n4 == {"startTs", "endTs"}
           n5 == {"status"}
           n6 == {"votingPowerChoices"}
           n7 == {"uri"}
           n8 == {"padding"}
           f1 == Of("publicKey", <<"ns">>)
           f2 == Of("u32", <<"nonce">>)
           f3 == Of("publicKey", <<"owner">>)
           f4 == Of("i64", <<"startTs", "endTs">>)
           f5 == Of("u8", <<"status">>)
           f6 == Of("[u64; 6]", <<"votingPowerChoices">>)
           f7 == Of("str", <<"uri">>)
           f8 == Of("[u8; 240]", <<"padding">>)
           l2 == f1 \o f2
           l3 == l2 \o f3
           l4 == l3 \o f4
           l5 == l4 \o f5
           l6 == l5 \o f6
           l7 == l6 \o f7
           l8 == l7 \o f8
<1>1. /\ Lists(f1, n1) /\ Lists(f2, n2) /\ Lists(f3, n3) /\ Lists(f4, n4)
      /\ Lists(f5, n5) /\ Lists(f6, n6) /\ Lists(f7, n7) /\ Lists(f8, n8)
  BY FieldTypes, Fields1, Fields2
<1>2. ProgramProposal = l8
  BY DEF ProgramProposal
<1> HIDE DEF f1, f2, f3, f4, f5, f6, f7, f8
<1>3. Lists(l2, n1 \cup n2)
  BY <1>1, MoreFields
<1> HIDE DEF l2
<1>4. Lists(l3, n1 \cup n2 \cup n3)
  BY <1>1, <1>3, MoreFields
<1> HIDE DEF l3
<1>5. Lists(l4, n1 \cup n2 \cup n3 \cup n4)
  BY <1>1, <1>4, MoreFields
<1> HIDE DEF l4
<1>6. Lists(l5, n1 \cup n2 \cup n3 \cup n4 \cup n5)
  BY <1>1, <1>5, MoreFields
<1> HIDE DEF l5
<1>7. Lists(l6, n1 \cup n2 \cup n3 \cup n4 \cup n5 \cup n6)
  BY <1>1, <1>6, MoreFields
<1> HIDE DEF l6
<1>8. Lists(l7, n1 \cup n2 \cup n3 \cup n4 \cup n5 \cup n6 \cup n7)
  BY <1>1, <1>7, MoreFields
<1> HIDE DEF l7
<1>9. Lists(l8, n1 \cup n2 \cup n3 \cup n4 \cup n5 \cup n6 \cup n7 \cup n8)
  BY <1>1, <1>8, MoreFields
<1> QED
  BY <1>2, <1>9

LEMMA VoteRecordFields ==
    Lists(ProgramVoteRecord, {"ns", "owner", "proposal", "lockup", "choice",
          "votingPower", "padding"})
<1> DEFINE n1 == {"ns", "owner", "proposal", "lockup"}
           n2 == {"choice"}
           n3 == {"votingPower"}
           n4 == {"padding"}
           f1 == Of("publicKey", <<"ns", "owner", "proposal", "lockup">>)
           f2 == Of("u8", <<"choice">>)
           f3 == Of("u64", <<"votingPower">>)
           f4 == Of("[u8; 32]", <<"padding">>)
           l2 == f1 \o f2
           l3 == l2 \o f3
           l4 == l3 \o f4
<1>1. /\ Lists(f1, n1) /\ Lists(f2, n2) /\ Lists(f3, n3) /\ Lists(f4, n4)
  BY FieldTypes, Fields1, Fields4
<1>2. ProgramVoteRecord = l4
  BY DEF ProgramVoteRecord
<1> HIDE DEF f1, f2, f3, f4
<1>3. Lists(l2, n1 \cup n2)
  BY <1>1, MoreFields
<1> HIDE DEF l2
<1>4. Lists(l3, n1 \cup n2 \cup n3)
  BY <1>1, <1>3, MoreFields
<1> HIDE DEF l3
<1>5. Lists(l4, n1 \cup n2 \cup n3 \cup n4)
  BY <1>1, <1>4, MoreFields
<1> QED
  BY <1>2, <1>5

LEMMA DistributionFields ==
    Lists(ProgramDistribution, {"ns", "uuid", "cosigner1", "cosigner2", "startTs",
          "distributionTokenMint", "padding"})
<1> DEFINE n1 == {"ns", "uuid", "cosigner1", "cosigner2"}
           n2 == {"startTs"}
           n3 == {"distributionTokenMint"}
           n4 == {"padding"}
           f1 == Of("publicKey", <<"ns", "uuid", "cosigner1", "cosigner2">>)
           f2 == Of("i64", <<"startTs">>)
           f3 == Of("publicKey", <<"distributionTokenMint">>)
           f4 == Of("[u8; 240]", <<"padding">>)
           l2 == f1 \o f2
           l3 == l2 \o f3
           l4 == l3 \o f4
<1>1. /\ Lists(f1, n1) /\ Lists(f2, n2) /\ Lists(f3, n3) /\ Lists(f4, n4)
  BY FieldTypes, Fields1, Fields4
<1>2. ProgramDistribution = l4
  BY DEF ProgramDistribution
<1> HIDE DEF f1, f2, f3, f4
<1>3. Lists(l2, n1 \cup n2)
  BY <1>1, MoreFields
<1> HIDE DEF l2
<1>4. Lists(l3, n1 \cup n2 \cup n3)
  BY <1>1, <1>3, MoreFields
<1> HIDE DEF l3
<1>5. Lists(l4, n1 \cup n2 \cup n3 \cup n4)
  BY <1>1, <1>4, MoreFields
<1> QED
  BY <1>2, <1>5

LEMMA DistributionClaimFields ==
    Lists(ProgramDistributionClaim, {"ns", "distribution", "claimant",
          "distributionTokenMint", "amount", "cosignedMsg", "padding"})
<1> DEFINE n1 == {"ns", "distribution", "claimant", "distributionTokenMint"}
           n2 == {"amount"}
           n3 == {"cosignedMsg"}
           n4 == {"padding"}
           f1 == Of("publicKey", <<"ns", "distribution", "claimant",
                                 "distributionTokenMint">>)
           f2 == Of("u64", <<"amount">>)
           f3 == Of("[u8; 32]", <<"cosignedMsg">>)
           f4 == Of("[u8; 240]", <<"padding">>)
           l2 == f1 \o f2
           l3 == l2 \o f3
           l4 == l3 \o f4
<1>1. /\ Lists(f1, n1) /\ Lists(f2, n2) /\ Lists(f3, n3) /\ Lists(f4, n4)
  BY FieldTypes, Fields1, Fields4
<1>2. ProgramDistributionClaim = l4
  BY DEF ProgramDistributionClaim
<1> HIDE DEF f1, f2, f3, f4
<1>3. Lists(l2, n1 \cup n2)
  BY <1>1, MoreFields
<1> HIDE DEF l2
<1>4. Lists(l3, n1 \cup n2 \cup n3)
  BY <1>1, <1>3, MoreFields
<1> HIDE DEF l3
<1>5. Lists(l4, n1 \cup n2 \cup n3 \cup n4)
  BY <1>1, <1>4, MoreFields
<1> QED
  BY <1>2, <1>5

LEMMA UpdateNamespaceArgsFields ==
    Lists(ProgramUpdateNamespaceArgs, {"securityCouncil", "reviewCouncil",
          "lockupDefaultTargetRewardsPct", "lockupDefaultTargetVotingPct",
          "lockupMinDuration", "lockupMinAmount", "lockupMaxSaturation",
          "proposalMinVotingPowerForQuorum", "proposalMinPassPct",
          "proposalCanUpdateAfterVotes"})
<1> DEFINE n1 == {"securityCouncil", "reviewCouncil"}
           n2 == {"lockupDefaultTargetRewardsPct", "lockupDefaultTargetVotingPct"}
           n3 == {"lockupMinDuration"}
           n4 == {"lockupMinAmount", "lockupMaxSaturation", "proposalMinVotingPowerForQuorum"}
           n5 == {"proposalMinPassPct"}
           n6 == {"proposalCanUpdateAfterVotes"}
           f1 == Of("publicKey", <<"securityCouncil", "reviewCouncil">>)
           f2 == Of("u16", <<"lockupDefaultTargetRewardsPct",
                                 "lockupDefaultTargetVotingPct">>)
           f3 == Of("i64", <<"lockupMinDuration">>)
           f4 == Of("u64", <<"lockupMinAmount", "lockupMaxSaturation",
                                 "proposalMinVotingPowerForQuorum">>)
           f5 == Of("u16", <<"proposalMinPassPct">>)
           f6 == Of("bool", <<"proposalCanUpdateAfterVotes">>)
           l2 == f1 \o f2
           l3 == l2 \o f3
           l4 == l3 \o f4
           l5 == l4 \o f5
           l6 == l5 \o f6
<1>1. /\ Lists(f1, n1) /\ Lists(f2, n2) /\ Lists(f3, n3) /\ Lists(f4, n4)
      /\ Lists(f5, n5) /\ Lists(f6, n6)
  BY FieldTypes, Fields1, Fields2, Fields3
<1>2. ProgramUpdateNamespaceArgs = l6
  BY DEF ProgramUpdateNamespaceArgs
<1> HIDE DEF f1, f2, f3, f4, f5, f6
<1>3. Lists(l2, n1 \cup n2)
  BY <1>1, MoreFields
<1> HIDE DEF l2
<1>4. Lists(l3, n1 \cup n2 \cup n3)
  BY <1>1, <1>3, MoreFields
<1> HIDE DEF l3
<1>5. Lists(l4, n1 \cup n2 \cup n3 \cup n4)
  BY <1>1, <1>4, MoreFields
<1> HIDE DEF l4
<1>6. Lists(l5, n1 \cup n2 \cup n3 \cup n4 \cup n5)
  BY <1>1, <1>5, MoreFields
<1> HIDE DEF l5
<1>7. Lists(l6, n1 \cup n2 \cup n3 \cup n4 \cup n5 \cup n6)
  BY <1>1, <1>6, MoreFields
<1> QED
  BY <1>2, <1>7

LEMMA StakeArgsFields ==
    Lists(ProgramStakeArgs, {"amount", "endTs"})
<1> DEFINE n1 == {"amount"}
           n2 == {"endTs"}
           f1 == Of("u64", <<"amount">>)
           f2 == Of("i64", <<"endTs">>)
           l2 == f1 \o f2
<1>1. /\ Lists(f1, n1) /\ Lists(f2, n2)
  BY FieldTypes, Fields1
<1>2. ProgramStakeArgs = l2
  BY DEF ProgramStakeArgs
<1> HIDE DEF f1, f2
<1>3. Lists(l2, n1 \cup n2)
  BY <1>1, MoreFields
<1> QED
  BY <1>2, <1>3

LEMMA StakeToArgsFields ==
    Lists(ProgramStakeToArgs, {"amount", "endTs", "disableRewards"})
<1> DEFINE n1 == {"amount"}
           n2 == {"endTs"}
           n3 == {"disableRewards"}
           f1 == Of("u64", <<"amount">>)
           f2 == Of("i64", <<"endTs">>)
           f3 == Of("bool", <<"disableRewards">>)
           l2 == f1 \o f2
           l3 == l2 \o f3
<1>1. /\ Lists(f1, n1) /\ Lists(f2, n2) /\ Lists(f3, n3)
  BY FieldTypes, Fields1
<1>2. ProgramStakeToArgs = l3
  BY DEF ProgramStakeToArgs
<1> HIDE DEF f1, f2, f3
<1>3. Lists(l2, n1 \cup n2)
  BY <1>1, MoreFields
<1> HIDE DEF l2
<1>4. Lists(l3, n1 \cup n2 \cup n3)
  BY <1>1, <1>3, MoreFields
<1> QED
  BY <1>2, <1>4

LEMMA InitProposalArgsFields ==
    Lists(ProgramInitProposalArgs, {"startTs", "endTs", "uri"})
<1> DEFINE n1 == {"startTs", "endTs"}
           n2 == {"uri"}
           f1 == Of("i64", <<"startTs", "endTs">>)
           f2 == Of("str", <<"uri">>)
           l2 == f1 \o f2
<1>1. /\ Lists(f1, n1) /\ Lists(f2, n2)
  BY FieldTypes, Fields1, Fields2
<1>2. ProgramInitProposalArgs = l2
  BY DEF ProgramInitProposalArgs
<1> HIDE DEF f1, f2
<1>3. Lists(l2, n1 \cup n2)
  BY <1>1, MoreFields
<1> QED
  BY <1>2, <1>3

LEMMA UpdateProposalArgsFields ==
    Lists(ProgramUpdateProposalArgs, {"startTs", "endTs", "uri"})
<1> DEFINE n1 == {"startTs", "endTs"}
           n2 == {"uri"}
           f1 == Of("i64", <<"startTs", "endTs">>)
           f2 == Of("str", <<"uri">>)
           l2 == f1 \o f2
<1>1. /\ Lists(f1, n1) /\ Lists(f2, n2)
  BY FieldTypes, Fields1, Fields2
<1>2. ProgramUpdateProposalArgs = l2
  BY DEF ProgramUpdateProposalArgs
<1> HIDE DEF f1, f2
<1>3. Lists(l2, n1 \cup n2)
  BY <1>1, MoreFields
<1> QED
  BY <1>2, <1>3

LEMMA VoteArgsFields ==
    Lists(ProgramVoteArgs, {"choice"})
BY FieldTypes, Fields1 DEF ProgramVoteArgs

LEMMA InitDistributionArgsFields ==
    Lists(ProgramInitDistributionArgs, {"cosigner1", "cosigner2", "startTs"})
<1> DEFINE n1 == {"cosigner1", "cosigner2"}
           n2 == {"startTs"}
           f1 == Of("publicKey", <<"cosigner1", "cosigner2">>)
           f2 == Of("i64", <<"startTs">>)
           l2 == f1 \o f2
<1>1. /\ Lists(f1, n1) /\ Lists(f2, n2)
  BY FieldTypes, Fields1, Fields2
<1>2. ProgramInitDistributionArgs = l2
  BY DEF ProgramInitDistributionArgs
<1> HIDE DEF f1, f2
<1>3. Lists(l2, n1 \cup n2)
  BY <1>1, MoreFields
<1> QED
  BY <1>2, <1>3

LEMMA UpdateDistributionArgsFields ==
    Lists(ProgramUpdateDistributionArgs, {"startTs"})
BY FieldTypes, Fields1 DEF ProgramUpdateDistributionArgs

LEMMA ClaimFromDistributionArgsFields ==
    Lists(ProgramClaimFromDistributionArgs, {"amount", "cosignedMsg"})
<1> DEFINE n1 == {"amount"}
           n2 == {"cosignedMsg"}
           f1 == Of("u64", <<"amount">>)
           f2 == Of("[u8; 32]", <<"cosignedMsg">>)
           l2 == f1 \o f2
<1>1. /\ Lists(f1, n1) /\ Lists(f2, n2)
  BY FieldTypes, Fields1
<1>2. ProgramClaimFromDistributionArgs = l2
  BY DEF ProgramClaimFromDistributionArgs
<1> HIDE DEF f1, f2
<1>3. Lists(l2, n1 \cup n2)
  BY <1>1, MoreFields
<1> QED
  BY <1>2, <1>3

----------------------------------------------------------------------------
(***************************************************************************)
(* The tables: the three descriptions agree where they have to             *)
(***************************************************************************)
LEMMA LayoutsListed ==
    ASSUME NEW class \in Classes
    PROVE  WellFormed(ProgramLayout[class]) /\ NamesIn(ProgramLayout[class]) \subseteq AnyName
<1>1. WellFormed(ProgramLayout[class])
  <2>1. /\ ProgramLayout["namespace"] = ProgramNamespace
        /\ ProgramLayout["lockup"] = ProgramLockup
        /\ ProgramLayout["proposal"] = ProgramProposal
        /\ ProgramLayout["voteRecord"] = ProgramVoteRecord
        /\ ProgramLayout["distribution"] = ProgramDistribution
        /\ ProgramLayout["distributionClaim"] = ProgramDistributionClaim
    BY DEF ProgramLayout
  <2>2. /\ WellFormed(ProgramNamespace) /\ WellFormed(ProgramLockup)
        /\ WellFormed(ProgramProposal) /\ WellFormed(ProgramVoteRecord)
        /\ WellFormed(ProgramDistribution) /\ WellFormed(ProgramDistributionClaim)
    BY NamespaceFields, LockupFields, ProposalFields, VoteRecordFields,
       DistributionFields, DistributionClaimFields DEF Lists
  <2> QED
    BY <2>1, <2>2 DEF Classes
<1> QED
  BY <1>1 DEF AnyName

\* The instructions that write an account.
LEMMA WriterNames ==
    Writers = {"initNamespace", "updateNamespace", "stake", "stakeTo", "unstake",
               "initProposal", "updateProposal", "vote", "initDistribution",
               "updateDistribution", "claimFromDistribution"}
<1>1. DOMAIN ProgramArgs =
        {"initNamespace", "updateNamespace", "stake", "stakeTo", "unstake",
         "initProposal", "updateProposal", "vote", "initDistribution",
         "updateDistribution", "claimFromDistribution", "withdrawFromDistribution"}
  BY DEF ProgramArgs
<1> QED
  BY <1>1 DEF Writers

ArgNames ==
    [initNamespace |-> {},
     updateNamespace |-> NamespaceConfig \cup {"proposalCanUpdateAfterVotes"},
     stake |-> {"amount", "endTs"},
     stakeTo |-> {"amount", "endTs", "disableRewards"},
     unstake |-> {},
     initProposal |-> {"startTs", "endTs", "uri"},
     updateProposal |-> {"startTs", "endTs", "uri"},
     vote |-> {"choice"},
     initDistribution |-> {"cosigner1", "cosigner2", "startTs"},
     updateDistribution |-> {"startTs"},
     claimFromDistribution |-> {"amount", "cosignedMsg"}]

\* The arguments of each.
LEMMA ArgsListed ==
    ASSUME NEW ix \in Writers
    PROVE  Lists(ProgramArgs[ix], ArgNames[ix])
<1>1. \/ ix = "initNamespace" \/ ix = "updateNamespace" \/ ix = "stake" \/ ix = "stakeTo"
      \/ ix = "unstake" \/ ix = "initProposal" \/ ix = "updateProposal" \/ ix = "vote"
      \/ ix = "initDistribution" \/ ix = "updateDistribution" \/ ix = "claimFromDistribution"
  BY WriterNames
<1>2. CASE ix = "initNamespace" \/ ix = "unstake"
  <2>1. ProgramArgs[ix] = <<>>
    BY <1>2 DEF ProgramArgs
  <2>2. ArgNames[ix] = {}
    BY <1>2 DEF ArgNames
  <2> QED
    BY <2>1, <2>2, NoFields
<1>3. CASE ix = "updateNamespace"
  <2>1. ProgramArgs[ix] = ProgramUpdateNamespaceArgs
    BY <1>3 DEF ProgramArgs
  <2>2. ArgNames[ix] = NamespaceConfig \cup {"proposalCanUpdateAfterVotes"}
    BY <1>3 DEF ArgNames
  <2> QED
    BY <2>1, <2>2, UpdateNamespaceArgsFields DEF NamespaceConfig
<1>4. CASE ix = "stake"
  <2>1. ProgramArgs[ix] = ProgramStakeArgs
    BY <1>4 DEF ProgramArgs
  <2>2. ArgNames[ix] = {"amount", "endTs"}
    BY <1>4 DEF ArgNames
  <2> QED
    BY <2>1, <2>2, StakeArgsFields
<1>5. CASE ix = "stakeTo"
  <2>1. ProgramArgs[ix] = ProgramStakeToArgs
    BY <1>5 DEF ProgramArgs
  <2>2. ArgNames[ix] = {"amount", "endTs", "disableRewards"}
    BY <1>5 DEF ArgNames
  <2> QED
    BY <2>1, <2>2, StakeToArgsFields
<1>6. CASE ix = "initProposal"
  <2>1. ProgramArgs[ix] = ProgramInitProposalArgs
    BY <1>6 DEF ProgramArgs
  <2>2. ArgNames[ix] = {"startTs", "endTs", "uri"}
    BY <1>6 DEF ArgNames
  <2> QED
    BY <2>1, <2>2, InitProposalArgsFields
<1>7. CASE ix = "updateProposal"
  <2>1. ProgramArgs[ix] = ProgramUpdateProposalArgs
    BY <1>7 DEF ProgramArgs
  <2>2. ArgNames[ix] = {"startTs", "endTs", "uri"}
    BY <1>7 DEF ArgNames
  <2> QED
    BY <2>1, <2>2, UpdateProposalArgsFields
<1>8. CASE ix = "vote"
  <2>1. ProgramArgs[ix] = ProgramVoteArgs
    BY <1>8 DEF ProgramArgs
  <2>2. ArgNames[ix] = {"choice"}
    BY <1>8 DEF ArgNames
  <2> QED
    BY <2>1, <2>2, VoteArgsFields
<1>9. CASE ix = "initDistribution"
  <2>1. ProgramArgs[ix] = ProgramInitDistributionArgs
    BY <1>9 DEF ProgramArgs
  <2>2. ArgNames[ix] = {"cosigner1", "cosigner2", "startTs"}
    BY <1>9 DEF ArgNames
  <2> QED
    BY <2>1, <2>2, InitDistributionArgsFields
<1>10. CASE ix = "updateDistribution"
  <2>1. ProgramArgs[ix] = ProgramUpdateDistributionArgs
    BY <1>10 DEF ProgramArgs
  <2>2. ArgNames[ix] = {"startTs"}
    BY <1>10 DEF ArgNames
  <2> QED
    BY <2>1, <2>2, UpdateDistributionArgsFields
<1>11. CASE ix = "claimFromDistribution"
  <2>1. ProgramArgs[ix] = ProgramClaimFromDistributionArgs
    BY <1>11 DEF ProgramArgs
  <2>2. ArgNames[ix] = {"amount", "cosignedMsg"}
    BY <1>11 DEF ArgNames
  <2> QED
    BY <2>1, <2>2, ClaimFromDistributionArgsFields
<1> QED
  BY <1>1, <1>2, <1>3, <1>4, <1>5, <1>6, <1>7, <1>8, <1>9, <1>10, <1>11

\* Arguments are named like fields, and only proposals take a text.
LEMMA ArgsNamed ==
    ASSUME NEW ix \in Writers
    PROVE  /\ ArgNames[ix] \subseteq AnyName
           /\ "uri" \in ArgNames[ix] => ix \in {"initProposal", "updateProposal"}
<1>1. NamespaceConfig \cup {"proposalCanUpdateAfterVotes"} \subseteq AnyName
  <2>1. NamespaceConfig \cup {"proposalCanUpdateAfterVotes"} \subseteq NamesIn(ProgramNamespace)
    BY NamespaceFields DEF Lists, NamespaceConfig
  <2>2. ProgramLayout["namespace"] = ProgramNamespace /\ "namespace" \in Classes
    BY DEF ProgramLayout, Classes
  <2> QED
    BY <2>1, <2>2 DEF AnyName
<1>2. {"startTs", "endTs", "uri"} \subseteq AnyName
  <2>1. {"startTs", "endTs", "uri"} \subseteq NamesIn(ProgramProposal)
    BY ProposalFields DEF Lists
  <2>2. ProgramLayout["proposal"] = ProgramProposal /\ "proposal" \in Classes
    BY DEF ProgramLayout, Classes
  <2> QED
    BY <2>1, <2>2 DEF AnyName
<1>3. {"choice"} \subseteq AnyName
  <2>1. {"choice"} \subseteq NamesIn(ProgramVoteRecord)
    BY VoteRecordFields DEF Lists
  <2>2. ProgramLayout["voteRecord"] = ProgramVoteRecord /\ "voteRecord" \in Classes
    BY DEF ProgramLayout, Classes
  <2> QED
    BY <2>1, <2>2 DEF AnyName
<1>4. {"cosigner1", "cosigner2"} \subseteq AnyName
  <2>1. {"cosigner1", "cosigner2"} \subseteq NamesIn(ProgramDistribution)
    BY DistributionFields DEF Lists
  <2>2. ProgramLayout["distribution"] = ProgramDistribution /\ "distribution" \in Classes
    BY DEF ProgramLayout, Classes
  <2> QED
    BY <2>1, <2>2 DEF AnyName
<1>5. {"amount", "cosignedMsg"} \subseteq AnyName
  <2>1. {"amount", "cosignedMsg"} \subseteq NamesIn(ProgramDistributionClaim)
    BY DistributionClaimFields DEF Lists
  <2>2. /\ ProgramLayout["distributionClaim"] = ProgramDistributionClaim
        /\ "distributionClaim" \in Classes
    BY DEF ProgramLayout, Classes
  <2> QED
    BY <2>1, <2>2 DEF AnyName
<1>6. {"disableRewards"} \subseteq AnyName
  BY DEF AnyName
<1>7. /\ ArgNames["initNamespace"] = {} /\ ArgNames["unstake"] = {}
      /\ ArgNames["updateNamespace"] = NamespaceConfig \cup {"proposalCanUpdateAfterVotes"}
      /\ ArgNames["stake"] = {"amount", "endTs"}
      /\ ArgNames["stakeTo"] = {"amount", "endTs", "disableRewards"}
      /\ ArgNames["initProposal"] = {"startTs", "endTs", "uri"}
      /\ ArgNames["updateProposal"] = {"startTs", "endTs", "uri"}
      /\ ArgNames["vote"] = {"choice"}
      /\ ArgNames["initDistribution"] = {"cosigner1", "cosigner2", "startTs"}
      /\ ArgNames["updateDistribution"] = {"startTs"}
      /\ ArgNames["claimFromDistribution"] = {"amount", "cosignedMsg"}
  BY DEF ArgNames
<1>8. "uri" \notin NamespaceConfig \cup {"proposalCanUpdateAfterVotes"}
  BY DEF NamespaceConfig
<1>9. ASSUME NEW names \in {ArgNames[i] : i \in Writers} PROVE names \subseteq AnyName
  BY <1>1, <1>2, <1>3, <1>4, <1>5, <1>6, <1>7, WriterNames
<1>10. "uri" \in ArgNames[ix] => ix \in {"initProposal", "updateProposal"}
  BY <1>7, <1>8, WriterNames
<1> QED
  BY <1>9, <1>10

\* The generated client and the program lay out every account alike.
LEMMA ClientLayouts == ClientLayout = ProgramLayout
BY DEF ClientLayout, ProgramLayout, ClientNamespace, ProgramNamespace, ClientLockup,
       ProgramLockup, ClientProposal, ProgramProposal, ClientVoteRecord, ProgramVoteRecord,
       ClientDistribution, ProgramDistribution, ClientDistributionClaim,
       ProgramDistributionClaim

\* Whoever encodes the arguments of an instruction, its table is the program's.
LEMMA SenderLayouts ==
    ASSUME NEW sender, NEW ix
    PROVE  SenderLayout(sender, ix) = ProgramArgs[ix]
<1>1. ClientArgs = ProgramArgs
  BY DEF ClientArgs, ProgramArgs, ClientUpdateNamespaceArgs, ProgramUpdateNamespaceArgs,
         ClientStakeArgs, ProgramStakeArgs, ClientStakeToArgs, ProgramStakeToArgs,
         ClientInitProposalArgs, ProgramInitProposalArgs, ClientUpdateProposalArgs,
         ProgramUpdateProposalArgs, ClientVoteArgs, ProgramVoteArgs,
         ClientInitDistributionArgs, ProgramInitDistributionArgs,
         ClientUpdateDistributionArgs, ProgramUpdateDistributionArgs,
         ClientClaimFromDistributionArgs, ProgramClaimFromDistributionArgs
<1>2. IdlArgs = ProgramArgs
  BY DEF IdlArgs, ProgramArgs, IdlUpdateNamespaceArgs, ProgramUpdateNamespaceArgs,
         IdlStakeArgs, ProgramStakeArgs, IdlStakeToArgs, ProgramStakeToArgs,
         IdlInitProposalArgs, ProgramInitProposalArgs, IdlUpdateProposalArgs,
         ProgramUpdateProposalArgs, IdlVoteArgs, ProgramVoteArgs,
         IdlInitDistributionArgs, ProgramInitDistributionArgs,
         IdlUpdateDistributionArgs, ProgramUpdateDistributionArgs,
         IdlClaimFromDistributionArgs, ProgramClaimFromDistributionArgs
<1> QED
  BY <1>1, <1>2 DEF SenderLayout

----------------------------------------------------------------------------
(***************************************************************************)
(* What the handlers may do to which account                               *)
(***************************************************************************)
\* The fields of each class, and that only a proposal has a text.
LEMMA ClassNames ==
    /\ NamesIn(ProgramLayout["namespace"]) =
          NamespaceConfig \cup {"tokenMint", "deployer", "overrideNow",
              "proposalCanUpdateAfterVotes", "lockupAmount", "proposalNonce", "padding"}
    /\ NamesIn(ProgramLayout["lockup"]) =
          {"ns", "owner", "amount", "startTs", "endTs", "targetRewardsPct",
           "targetVotingPct", "weightedStartTs", "padding"}
    /\ NamesIn(ProgramLayout["proposal"]) =
          {"ns", "nonce", "owner", "startTs", "endTs", "status", "votingPowerChoices",
           "uri", "padding"}
    /\ NamesIn(ProgramLayout["voteRecord"]) =
          {"ns", "owner", "proposal", "lockup", "choice", "votingPower", "padding"}
    /\ NamesIn(ProgramLayout["distribution"]) =
          {"ns", "uuid", "cosigner1", "cosigner2", "startTs", "distributionTokenMint",
           "padding"}
    /\ NamesIn(ProgramLayout["distributionClaim"]) =
          {"ns", "distribution", "claimant", "distributionTokenMint", "amount",
           "cosignedMsg", "padding"}
<1>1. /\ ProgramLayout["namespace"] = ProgramNamespace
      /\ ProgramLayout["lockup"] = ProgramLockup
      /\ ProgramLayout["proposal"] = ProgramProposal
      /\ ProgramLayout["voteRecord"] = ProgramVoteRecord
      /\ ProgramLayout["distribution"] = ProgramDistribution
      /\ ProgramLayout["distributionClaim"] = ProgramDistributionClaim
  BY DEF ProgramLayout
<1>2. NamesIn(ProgramNamespace) =
          NamespaceConfig \cup {"tokenMint", "deployer", "overrideNow",
              "proposalCanUpdateAfterVotes", "lockupAmount", "proposalNonce", "padding"}
  BY NamespaceFields DEF Lists, NamespaceConfig
<1> QED
  BY <1>1, <1>2, LockupFields, ProposalFields, VoteRecordFields, DistributionFields,
     DistributionClaimFields DEF Lists

\* An effect an instruction may have: on fields its account has, from
\* arguments it has, and a text only from an argument.
Allowed(ix, e) ==
    /\ e.class \in Classes
    /\ e.mode \in {"init", "save", "close"}
    /\ e.taken \subseteq ArgNames[ix] \cap NamesIn(ProgramLayout[e.class])
    /\ e.computed \subseteq NamesIn(ProgramLayout[e.class]) \ {"uri"}

\* An effect whose fields are in place is allowed.
LEMMA EffectAllowed ==
    ASSUME NEW ix, NEW class \in Classes, NEW mode \in {"init", "save", "close"},
           NEW taken, taken \subseteq ArgNames[ix] \cap NamesIn(ProgramLayout[class]),
           NEW computed, computed \subseteq NamesIn(ProgramLayout[class]) \ {"uri"}
    PROVE  Allowed(ix, Effect(class, mode, taken, computed))
BY DEF Allowed, Effect

\* Every effect of every instruction is.
LEMMA EffectsAllowed ==
    ASSUME NEW ix \in Writers, NEW e \in Effects(ix)
    PROVE  Allowed(ix, e)
<1>1. \/ ix = "initNamespace" \/ ix = "updateNamespace" \/ ix = "stake" \/ ix = "stakeTo"
      \/ ix = "unstake" \/ ix = "initProposal" \/ ix = "updateProposal" \/ ix = "vote"
      \/ ix = "initDistribution" \/ ix = "updateDistribution" \/ ix = "claimFromDistribution"
  BY WriterNames
<1>2. "uri" \notin NamespaceConfig
  BY DEF NamespaceConfig
<1>3. /\ Classes = {"namespace", "lockup", "proposal", "voteRecord", "distribution",
                    "distributionClaim"}
      /\ "init" \in {"init", "save", "close"} /\ "save" \in {"init", "save", "close"}
      /\ "close" \in {"init", "save", "close"}
  BY DEF Classes
<1>4. /\ Allowed(ix, LockupTotal)
      /\ "uri" \notin NewLockup /\ NewLockup \subseteq NamesIn(ProgramLayout["lockup"])
  <2>1. Allowed(ix, Effect("namespace", "save", {}, {"lockupAmount"}))
    BY <1>3, ClassNames, EffectAllowed
  <2> QED
    BY <2>1, ClassNames DEF LockupTotal, NewLockup
<1>5. CASE ix = "initNamespace"
  <2> DEFINE computed == NamespaceConfig \cup {"deployer", "tokenMint"}
  <2>1. e = Effect("namespace", "init", {}, computed)
    BY <1>5 DEF Effects
  <2>2. computed \subseteq NamesIn(ProgramLayout["namespace"]) \ {"uri"}
    BY <1>2, ClassNames
  <2> HIDE DEF computed
  <2> QED
    BY <1>3, <2>1, <2>2, EffectAllowed
<1>6. CASE ix = "updateNamespace"
  <2>1. e = Effect("namespace", "save", NamespaceConfig, {})
    BY <1>6 DEF Effects
  <2>2. NamespaceConfig \subseteq ArgNames[ix] \cap NamesIn(ProgramLayout["namespace"])
    BY <1>6, ClassNames DEF ArgNames
  <2> QED
    BY <1>3, <2>1, <2>2, EffectAllowed
<1>7. CASE ix = "stake"
  <2>1. \/ e = LockupTotal
        \/ e = Effect("lockup", "save", {}, {"amount", "endTs", "weightedStartTs"})
        \/ e = Effect("lockup", "init", {"amount"}, NewLockup)
    <3>1. Effects(ix) =
            {LockupTotal,
             IF account["lockup"].owner = "program"
             THEN Effect("lockup", "save", {}, {"amount", "endTs", "weightedStartTs"})
             ELSE Effect("lockup", "init", {"amount"}, NewLockup)}
      BY <1>7 DEF Effects
    <3> QED
      BY <3>1
  <2>2. "amount" \in ArgNames[ix]
    BY <1>7 DEF ArgNames
  <2>3. Allowed(ix, Effect("lockup", "save", {}, {"amount", "endTs", "weightedStartTs"}))
    BY <1>3, ClassNames, EffectAllowed
  <2>4. Allowed(ix, Effect("lockup", "init", {"amount"}, NewLockup))
    BY <1>3, <1>4, <2>2, ClassNames, EffectAllowed
  <2> QED
    BY <1>4, <2>1, <2>3, <2>4
<1>8. CASE ix = "stakeTo"
  <2>1. e \in {LockupTotal, Effect("lockup", "init", {"amount"}, NewLockup)}
    BY <1>8 DEF Effects
  <2>2. "amount" \in ArgNames[ix]
    BY <1>8 DEF ArgNames
  <2>3. Allowed(ix, Effect("lockup", "init", {"amount"}, NewLockup))
    BY <1>3, <1>4, <2>2, ClassNames, EffectAllowed
  <2> QED
    BY <1>4, <2>1, <2>3
<1>9. CASE ix = "unstake"
  <2>1. e \in {LockupTotal, Effect("lockup", "close", {}, {})}
    BY <1>9 DEF Effects
  <2>2. Allowed(ix, Effect("lockup", "close", {}, {}))
    BY <1>3, EffectAllowed
  <2> QED
    BY <1>4, <2>1, <2>2
<1>10. CASE ix = "initProposal"
  <2>1. e \in {Effect("proposal", "init", {"uri", "startTs", "endTs"}, {"ns", "nonce", "owner"}),
               Effect("namespace", "save", {}, {"proposalNonce"})}
    BY <1>10 DEF Effects
  <2>2. {"uri", "startTs", "endTs"} \subseteq ArgNames[ix]
    BY <1>10 DEF ArgNames
  <2>3. Allowed(ix, Effect("proposal", "init", {"uri", "startTs", "endTs"},
                           {"ns", "nonce", "owner"}))
    BY <1>3, <2>2, ClassNames, EffectAllowed
  <2>4. Allowed(ix, Effect("namespace", "save", {}, {"proposalNonce"}))
    BY <1>3, ClassNames, EffectAllowed
  <2> QED
    BY <2>1, <2>3, <2>4
<1>11. CASE ix = "updateProposal"
  <2>1. e = Effect("proposal", "save", {"uri", "startTs", "endTs"}, {})
    BY <1>11 DEF Effects
  <2>2. {"uri", "startTs", "endTs"} \subseteq ArgNames[ix]
    BY <1>11 DEF ArgNames
  <2>3. Allowed(ix, Effect("proposal", "save", {"uri", "startTs", "endTs"}, {}))
    BY <1>3, <2>2, ClassNames, EffectAllowed
  <2> QED
    BY <2>1, <2>3
<1>12. CASE ix = "vote"
  <2> DEFINE computed == {"ns", "owner", "proposal", "lockup", "votingPower"}
  <2>1. e \in {Effect("proposal", "save", {}, {"votingPowerChoices"}),
               Effect("voteRecord", "init", {"choice"}, computed)}
    BY <1>12 DEF Effects
  <2>2. "choice" \in ArgNames[ix]
    BY <1>12 DEF ArgNames
  <2>3. Allowed(ix, Effect("proposal", "save", {}, {"votingPowerChoices"}))
    BY <1>3, ClassNames, EffectAllowed
  <2>4. Allowed(ix, Effect("voteRecord", "init", {"choice"}, computed))
    BY <1>3, <2>2, ClassNames, EffectAllowed
  <2> HIDE DEF computed
  <2> QED
    BY <2>1, <2>3, <2>4
<1>13. CASE ix = "initDistribution"
  <2> DEFINE taken == {"cosigner1", "cosigner2", "startTs"}
             computed == {"ns", "uuid", "distributionTokenMint"}
  <2>1. e = Effect("distribution", "init", taken, computed)
    BY <1>13 DEF Effects
  <2>2. taken \subseteq ArgNames[ix]
    BY <1>13 DEF ArgNames
  <2>3. Allowed(ix, Effect("distribution", "init", taken, computed))
    BY <1>3, <2>2, ClassNames, EffectAllowed
  <2> QED
    BY <2>1, <2>3
<1>14. CASE ix = "updateDistribution"
  <2>1. e = Effect("distribution", "save", {"startTs"}, {})
    BY <1>14 DEF Effects
  <2>2. "startTs" \in ArgNames[ix]
    BY <1>14 DEF ArgNames
  <2>3. Allowed(ix, Effect("distribution", "save", {"startTs"}, {}))
    BY <1>3, <2>2, ClassNames, EffectAllowed
  <2> QED
    BY <2>1, <2>3
<1>15. CASE ix = "claimFromDistribution"
  <2> DEFINE taken == {"amount", "cosignedMsg"}
             computed == {"ns", "distribution", "claimant", "distributionTokenMint"}
  <2>1. e = Effect("distributionClaim", "init", taken, computed)
    BY <1>15 DEF Effects
  <2>2. taken \subseteq ArgNames[ix]
    BY <1>15 DEF ArgNames
  <2>3. Allowed(ix, Effect("distributionClaim", "init", taken, computed))
    BY <1>3, <2>2, ClassNames, EffectAllowed
  <2> QED
    BY <2>1, <2>3
<1> QED
  BY <1>1, <1>5, <1>6, <1>7, <1>8, <1>9, <1>10, <1>11, <1>12, <1>13, <1>14, <1>15

----------------------------------------------------------------------------
(***************************************************************************)
(* Accounts: the discriminator, and the struct behind it                   *)
(***************************************************************************)
\* What stands at the front of the account of a class.
Opening(class, struct) == Discriminator(class) \o Encode(ProgramLayout[class], struct)

\* What a value is made of.
LEMMA ValueType ==
    ASSUME NEW of \in AnyName, NEW call \in Nat, NEW size \in Nat
    PROVE  /\ Value(of, call, size) \in AnyValue
           /\ Value(of, call, size).of = of
           /\ Value(of, call, size).size = size
BY DEF Value, AnyValue

\* A discriminator is eight bytes that name the class.
LEMMA DiscriminatorType ==
    ASSUME NEW class \in Classes
    PROVE  /\ Discriminator(class) \in Seq(AnyByte)
           /\ Len(Discriminator(class)) = 8
           /\ Discriminator(class)[1].of.of = class
<1>1. Value(class, 0, 0) \in AnyValue /\ Value(class, 0, 0).of = class
  <2>1. class \in AnyName
    BY DEF AnyName
  <2> QED
    BY <2>1, ValueType
<1>2. "discriminator" \in ByteType
  BY DEF ByteType
<1> DEFINE value == Value(class, 0, 0)
           bytes == FixedBytes(value, "discriminator", 8)
<1>3. Discriminator(class) = bytes
  BY DEF Discriminator, DiscriminatorSize
<1> HIDE DEF value
<1>4. bytes \in Seq(AnyByte) /\ Len(bytes) = 8 /\ bytes[1].of = value
  <2>1. 8 \in Nat /\ 8 > 0
    OBVIOUS
  <2> QED
    BY <1>1, <1>2, <2>1, FixedBytesType DEF value
<1> HIDE DEF bytes
<1> QED
  BY <1>1, <1>3, <1>4 DEF value

\* The front of an account is the discriminator and the struct.
LEMMA OpeningType ==
    ASSUME NEW class \in Classes, NEW struct, Storable(ProgramLayout[class], struct)
    PROVE  /\ Encode(ProgramLayout[class], struct) \in Seq(AnyByte)
           /\ Opening(class, struct) \in Seq(AnyByte)
           /\ Len(Opening(class, struct)) = 8 + Len(Encode(ProgramLayout[class], struct))
<1>1. Covers(struct, ProgramLayout[class]) /\ WellFormed(ProgramLayout[class])
  BY LayoutsListed DEF Storable, Covers
<1>2. Encode(ProgramLayout[class], struct) \in Seq(AnyByte)
  BY <1>1, EncodeJoins
<1> DEFINE first == Discriminator(class)
           rest == Encode(ProgramLayout[class], struct)
<1>3. first \in Seq(AnyByte) /\ Len(first) = 8 /\ rest \in Seq(AnyByte)
  BY <1>2, DiscriminatorType
<1>4. Opening(class, struct) = first \o rest
  BY DEF Opening
<1> HIDE DEF first, rest
<1>5. first \o rest \in Seq(AnyByte) /\ Len(first \o rest) = Len(first) + Len(rest)
  BY <1>3, Concat
<1> QED
  BY <1>3, <1>4, <1>5 DEF rest

\* An account is known by its first bytes and read from the bytes behind them.
LEMMA AccountReads ==
    ASSUME NEW class \in Classes, NEW struct, Storable(ProgramLayout[class], struct),
           NEW data \in Seq(AnyByte), Occurs(Opening(class, struct), data, 1)
    PROVE  /\ Slice(data, 1, DiscriminatorSize) = Discriminator(class)
           /\ Decode(ProgramLayout[class], Body(data)) = struct
<1> DEFINE first == Discriminator(class)
           rest == Encode(ProgramLayout[class], struct)
           body == Body(data)
<1>1. first \in Seq(AnyByte) /\ Len(first) = 8 /\ rest \in Seq(AnyByte)
  BY DiscriminatorType, OpeningType
<1>2. Occurs(first, data, 1) /\ Occurs(rest, data, 9)
  <2>1. Occurs(first \o rest, data, 1)
    BY DEF Opening
  <2> HIDE DEF first, rest
  <2>2. Occurs(first, data, 1) /\ Occurs(rest, data, 1 + Len(first))
    <3>1. 1 \in Nat \ {0}
      OBVIOUS
    <3> QED
      BY <1>1, <2>1, <3>1, OccursInConcat DEF first, rest
  <2>3. 1 + Len(first) = 9
    BY <1>1
  <2> QED
    BY <2>2, <2>3
<1>3. Slice(data, 1, DiscriminatorSize) = first
  <2>1. first \in Seq(AnyByte) /\ Len(first) = 8
    BY <1>1
  <2>2. Occurs(first, data, 1) /\ 1 \in Nat \ {0}
    BY <1>2
  <2> HIDE DEF first
  <2>3. Slice(data, 1, Len(first)) = first
    BY <2>1, <2>2, SliceReads
  <2> QED
    BY <2>1, <2>3 DEF DiscriminatorSize
<1>4. Len(data) \in Nat /\ 8 <= Len(data) /\ Len(rest) \in Nat /\ 8 + Len(rest) <= Len(data)
  <2> DEFINE n == Len(data)
             r == Len(rest)
  <2>1. n \in Nat /\ r \in Nat
    BY <1>1, LenProperties
  <2>2. 9 + r - 1 <= n
    BY <1>2 DEF Occurs
  <2> HIDE DEF n, r
  <2>3. 8 <= n /\ 8 + r <= n
    BY <2>1, <2>2
  <2> QED
    BY <2>1, <2>3 DEF n, r
<1>5. /\ body \in Seq(AnyByte) /\ Len(body) = Len(data) - 8
      /\ \A i \in 1 .. Len(data) - 8 : body[i] = data[9 + i - 1]
  <2>1. body = SubSeq(data, 9, Len(data))
    BY DEF Body, DiscriminatorSize
  <2> HIDE DEF body
  <2>2. \A i \in 9 .. Len(data) : data[i] \in AnyByte
    BY <1>4, ElementOfSeq
  <2>3. /\ body \in Seq(AnyByte)
        /\ Len(body) = IF 9 <= Len(data) THEN Len(data) - 9 + 1 ELSE 0
        /\ \A i \in 1 .. Len(data) - 9 + 1 : body[i] = data[9 + i - 1]
    BY <1>4, <2>1, <2>2, SubSeqProperties
  <2> DEFINE n == Len(data)
  <2>4. n \in Nat /\ 8 <= n
    BY <1>4
  <2> HIDE DEF n
  <2>5. n - 9 + 1 = n - 8 /\ (IF 9 <= n THEN n - 9 + 1 ELSE 0) = n - 8
    BY <2>4
  <2> QED
    BY <2>3, <2>5 DEF n
<1>6. Occurs(rest, body, 1)
  <2> HIDE DEF rest, body
  <2>1. 1 + Len(rest) - 1 <= Len(body)
    BY <1>4, <1>5
  <2>2. ASSUME NEW i \in 1 .. Len(rest) PROVE body[1 + i - 1] = rest[i]
    <3>1. i \in 1 .. Len(data) - 8 /\ 1 + i - 1 = i
      BY <1>4
    <3>2. data[9 + i - 1] = rest[i]
      BY <1>2 DEF Occurs
    <3> QED
      BY <1>5, <3>1, <3>2
  <2> QED
    BY <2>1, <2>2 DEF Occurs
<1>7. Decode(ProgramLayout[class], body) = struct
  <2> HIDE DEF body
  <2> QED
    BY <1>5, <1>6, LayoutsListed, DecodeEncode
<1> QED
  BY <1>3, <1>7

\* Writing a struct over an account leaves its size as it was.
LEMMA Overwrites ==
    ASSUME NEW class \in Classes, NEW struct, Storable(ProgramLayout[class], struct),
           NEW data \in Seq(AnyByte), Fits(data, class, struct)
    PROVE  /\ Overwrite(data, class, struct) \in Seq(AnyByte)
           /\ Occurs(Opening(class, struct), Overwrite(data, class, struct), 1)
           /\ Len(Overwrite(data, class, struct)) = Len(data)
<1> DEFINE front == Opening(class, struct)
           n == Len(front)
           m == Len(data)
           rest == SubSeq(data, n + 1, m)
<1>1. Overwrite(data, class, struct) = front \o rest /\ n <= m
  BY DEF Overwrite, Fits, Opening
<1>2. front \in Seq(AnyByte) /\ n \in Nat /\ m \in Nat
  <2>1. front \in Seq(AnyByte)
    BY OpeningType
  <2> QED
    BY <2>1, LenProperties
<1> HIDE DEF front
<1>3. rest \in Seq(AnyByte) /\ Len(rest) = m - n
  <2>1. n + 1 \in Int /\ m \in Int /\ \A i \in n + 1 .. m : data[i] \in AnyByte
    <3>1. n + 1 .. m \subseteq 1 .. m
      BY <1>2
    <3> QED
      BY <1>2, <3>1, ElementOfSeq
  <2>2. rest \in Seq(AnyByte) /\ Len(rest) = IF n + 1 <= m THEN m - (n + 1) + 1 ELSE 0
    <3> HIDE DEF n, m
    <3> QED
      BY <2>1, SubSeqProperties
  <2> QED
    BY <1>1, <1>2, <2>2
<1> HIDE DEF rest
<1>4. /\ front \o rest \in Seq(AnyByte)
      /\ Len(front \o rest) = n + Len(rest)
      /\ \A i \in 1 .. n : (front \o rest)[i] = front[i]
  BY <1>2, <1>3, Concat
<1>5. Occurs(front, front \o rest, 1)
  <2> DEFINE both == front \o rest
  <2>1. Len(both) = m
    BY <1>2, <1>3, <1>4
  <2>2. \A i \in 1 .. n : both[i] = front[i]
    BY <1>4
  <2> HIDE DEF both
  <2>3. 1 + n - 1 <= Len(both)
    BY <1>1, <1>2, <2>1
  <2>4. \A i \in 1 .. n : 1 + i - 1 = i
    BY <1>2
  <2>5. Occurs(front, both, 1)
    BY <2>2, <2>3, <2>4 DEF Occurs
  <2> QED
    BY <2>5 DEF both
<1> QED
  BY <1>1, <1>2, <1>3, <1>4, <1>5 DEF front

----------------------------------------------------------------------------
(***************************************************************************)
(* Arguments and fields: what may be stored, and how it travels            *)
(***************************************************************************)
LEMMA TextType ==
    ASSUME NEW call \in Nat, NEW size \in Nat
    PROVE  Readable(Text(call, size), "str") /\ Text(call, size).size = size
<1>1. "uri" \in AnyName
  BY ClassNames DEF AnyName, Classes
<1>2. CASE size = 0
  BY <1>2, Values DEF Text, Readable
<1>3. CASE size # 0
  <2>1. Text(call, size) = Value("uri", call, size)
    BY <1>3 DEF Text
  <2>2. Value("uri", call, size) \in AnyValue /\ Value("uri", call, size).size = size
    BY <1>1, ValueType
  <2> QED
    BY <1>3, <2>1, <2>2 DEF Readable
<1> QED
  BY <1>2, <1>3

\* Arguments as a client means them can be stored.
LEMMA IntendedStorable ==
    ASSUME NEW ix \in Writers, NEW call \in Nat, NEW size \in Nat
    PROVE  Storable(ProgramArgs[ix], Intended(ProgramArgs[ix], call, size))
<1> DEFINE layout == ProgramArgs[ix]
           args == Intended(layout, call, size)
<1>1. NamesIn(layout) \subseteq AnyName
  BY ArgsListed, ArgsNamed DEF Lists
<1>2. args = [name \in NamesIn(layout) |->
                 IF name = "uri" THEN Text(call, size) ELSE Value(name, call, 0)]
  BY DEF Intended
<1>3. Readable(Text(call, size), "str") /\ Text(call, size) \in AnyValue
  BY TextType DEF Readable
<1>4. \A name \in AnyName : Value(name, call, 0) \in AnyValue
  BY ValueType
<1> HIDE DEF layout, args
<1>5. args \in [NamesIn(layout) -> AnyValue]
  BY <1>1, <1>2, <1>3, <1>4
<1>6. \A name \in NamesIn(layout) : name = "uri" => Readable(args[name], "str")
  BY <1>2, <1>3
<1> QED
  BY <1>5, <1>6 DEF Storable, layout, args

\* Whichever client encoded the arguments, the program decodes what was meant.
LEMMA ArgumentsArrive ==
    ASSUME NEW sender, NEW ix \in Writers, NEW call \in Nat, NEW size \in Nat
    PROVE  LET layout == SenderLayout(sender, ix)
           IN  Decode(ProgramArgs[ix], Encode(layout, Intended(layout, call, size)))
                   = Intended(ProgramArgs[ix], call, size)
<1> DEFINE layout == ProgramArgs[ix]
           args == Intended(layout, call, size)
           data == Encode(layout, args)
<1>1. WellFormed(layout) /\ Storable(layout, args)
  BY ArgsListed, IntendedStorable DEF Lists
<1>2. data \in Seq(AnyByte)
  <2>1. Covers(args, layout)
    BY <1>1 DEF Storable, Covers
  <2> HIDE DEF layout, args
  <2> QED
    BY <1>1, <2>1, EncodeJoins
<1>3. Occurs(data, data, 1)
  <2> HIDE DEF data
  <2>1. Len(data) \in Nat
    BY <1>2, LenProperties
  <2>2. 1 + Len(data) - 1 <= Len(data) /\ \A i \in 1 .. Len(data) : 1 + i - 1 = i
    BY <2>1
  <2> QED
    BY <2>2 DEF Occurs
<1>4. Decode(layout, data) = args
  <2> HIDE DEF layout, args
  <2> QED
    BY <1>1, <1>2, <1>3, DecodeEncode
<1>5. SenderLayout(sender, ix) = layout
  BY SenderLayouts
<1> QED
  BY <1>4, <1>5

\* So can the zeroed struct of a new account,
LEMMA BlankStorable ==
    ASSUME NEW layout, WellFormed(layout)
    PROVE  Storable(layout, Blank(layout))
<1>1. Blank(layout) = [name \in NamesIn(layout) |-> Zero]
  BY DEF Blank
<1> QED
  BY <1>1, Values DEF Storable, Readable

\* and what an effect makes of a struct that can.
LEMMA AssignedStorable ==
    ASSUME NEW ix \in Writers, NEW e, Allowed(ix, e), NEW call \in Nat,
           NEW args, Storable(ProgramArgs[ix], args),
           NEW struct, Storable(ProgramLayout[e.class], struct)
    PROVE  Storable(ProgramLayout[e.class], Assigned(e, args, call, struct))
<1> DEFINE layout == ProgramLayout[e.class]
           names == NamesIn(layout)
           new == Assigned(e, args, call, struct)
<1>1. struct \in [names -> AnyValue]
      /\ \A f \in names : f = "uri" => Readable(struct[f], "str")
  BY DEF Storable
<1>2. \A f \in e.taken : /\ args[f] \in AnyValue
                         /\ f = "uri" => Readable(args[f], "str")
  <2>1. e.taken \subseteq NamesIn(ProgramArgs[ix])
    BY ArgsListed DEF Allowed, Lists
  <2>2. /\ args \in [NamesIn(ProgramArgs[ix]) -> AnyValue]
        /\ \A f \in NamesIn(ProgramArgs[ix]) : f = "uri" => Readable(args[f], "str")
    BY DEF Storable
  <2> QED
    BY <2>1, <2>2
<1>3. \A f \in e.computed : f # "uri" /\ Value(f, call, 0) \in AnyValue
  <2>1. e.computed \subseteq AnyName \ {"uri"}
    BY LayoutsListed DEF Allowed
  <2>2. \A f \in AnyName : Value(f, call, 0) \in AnyValue
    BY ValueType
  <2> QED
    BY <2>1, <2>2
<1>4. new = [f \in names |-> IF f \in e.taken THEN args[f]
                             ELSE IF f \in e.computed THEN Value(f, call, 0)
                             ELSE struct[f]]
  BY <1>1 DEF Assigned
<1> HIDE DEF names, new
<1>5. new \in [names -> AnyValue]
  BY <1>1, <1>2, <1>3, <1>4
<1>6. \A f \in names : f = "uri" => Readable(new[f], "str")
  BY <1>1, <1>2, <1>3, <1>4
<1> QED
  BY <1>5, <1>6 DEF Storable, names, new

\* No number that travels as a JSON number is wider than JavaScript keeps it.
LEMMA JsonKeeps ==
    ASSUME NEW layout, WellFormed(layout), NEW fields \in [NamesIn(layout) -> AnyValue]
    PROVE  ThroughJson(layout, fields) = fields
<1>1. \A type \in FieldType : ~JsonAsString(type) => ~(ElementBits(type) > 53)
  <2>1. ElementBits("u32") = 32 /\ ElementBits("u16") = 16 /\ ElementBits("u8") = 8
        /\ ElementBits("bool") = 8 /\ ElementBits("[u8; 32]") = 8
        /\ ElementBits("[u8; 232]") = 8 /\ ElementBits("[u8; 240]") = 8
    BY DEF ElementBits
  <2>2. FieldType = {"publicKey", "i64", "u64", "u32", "u16", "u8", "bool", "[u64; 6]",
                     "[u8; 32]", "[u8; 232]", "[u8; 240]", "str"}
    BY DEF FieldType, Width
  <2>3. ~(32 > 53) /\ ~(16 > 53) /\ ~(8 > 53)
    OBVIOUS
  <2> QED
    BY <2>1, <2>2, <2>3 DEF JsonAsString
<1>2. \A i \in DOMAIN layout : layout[i][2] \in FieldType
  BY LayoutType
<1>3. ThroughJson(layout, fields) = [name \in DOMAIN fields |-> fields[name]]
  BY <1>1, <1>2 DEF ThroughJson
<1> QED
  BY <1>3

----------------------------------------------------------------------------
(***************************************************************************)
(* Accounts written in their former layouts                                *)
(***************************************************************************)
\* The bytes of a struct depend on the fields of the layout only.
LEMMA EncodeAgree ==
    ASSUME NEW layout, NEW struct, NEW other,
           \A name \in NamesIn(layout) : struct[name] = other[name]
    PROVE  Encode(layout, struct) = Encode(layout, other)
<1>1. \A i \in DOMAIN layout : layout[i][1] \in NamesIn(layout)
  BY DEF NamesIn
<1>2. [i \in DOMAIN layout |-> Bytes(struct[layout[i][1]], layout[i][2])]
         = [i \in DOMAIN layout |-> Bytes(other[layout[i][1]], layout[i][2])]
  BY <1>1
<1> QED
  BY <1>2 DEF Encode

\* Three strings of bytes, joined either way.
LEMMA Associative ==
    ASSUME NEW a \in Seq(AnyByte), NEW b \in Seq(AnyByte), NEW c \in Seq(AnyByte)
    PROVE  (a \o b) \o c = a \o (b \o c)
BY ConcatAssociative

\* The bytes of two layouts are the bytes of each, joined.
LEMMA EncodeConcat ==
    ASSUME NEW front, WellFormed(front), NEW back, WellFormed(back),
           NamesIn(front) \cap NamesIn(back) = {},
           NEW struct, Covers(struct, front \o back)
    PROVE  /\ Encode(front \o back, struct) = Encode(front, struct) \o Encode(back, struct)
           /\ Encode(front, struct) \in Seq(AnyByte) /\ Encode(back, struct) \in Seq(AnyByte)
<1> DEFINE both == front \o back
           A == Len(front)
           B == Len(back)
           pf == Parts(front, struct)
           pb == Parts(back, struct)
           p == Parts(both, struct)
<1>1. /\ WellFormed(both) /\ NamesIn(both) = NamesIn(front) \cup NamesIn(back)
      /\ Len(both) = A + B
      /\ \A i \in 1 .. A : both[i] = front[i]
      /\ \A i \in 1 .. B : both[A + i] = back[i]
  BY ConcatLayouts
<1>2. Covers(struct, front) /\ Covers(struct, back) /\ Covers(struct, both)
  BY <1>1 DEF Covers
<1> HIDE DEF both
<1>3. A \in Nat /\ B \in Nat
  BY LayoutType
<1>4. /\ pf \in Seq(Seq(AnyByte)) /\ Len(pf) = A
      /\ pb \in Seq(Seq(AnyByte)) /\ Len(pb) = B
      /\ p \in Seq(Seq(AnyByte)) /\ Len(p) = A + B
  BY <1>1, <1>2, PartsType
<1>5. \A i \in 1 .. A : p[i] = pf[i]
  <2> SUFFICES ASSUME NEW i \in 1 .. A PROVE p[i] = pf[i]
    OBVIOUS
  <2>0. \A j \in 1 .. A + B : p[j] = Bytes(struct[both[j][1]], both[j][2])
    BY <1>1, <1>2, PartsType
  <2>1. i \in 1 .. A + B
    BY <1>3
  <2>2. p[i] = Bytes(struct[both[i][1]], both[i][2])
    BY <2>0, <2>1
  <2>3. pf[i] = Bytes(struct[front[i][1]], front[i][2])
    BY <1>2, PartsType
  <2> QED
    BY <1>1, <2>2, <2>3
<1>6. \A i \in 1 .. B : p[A + i] = pb[i]
  <2> SUFFICES ASSUME NEW i \in 1 .. B PROVE p[A + i] = pb[i]
    OBVIOUS
  <2>0. \A j \in 1 .. A + B : p[j] = Bytes(struct[both[j][1]], both[j][2])
    BY <1>1, <1>2, PartsType
  <2>1. A + i \in 1 .. A + B
    BY <1>3
  <2>2. p[A + i] = Bytes(struct[both[A + i][1]], both[A + i][2])
    BY <2>0, <2>1
  <2>3. pb[i] = Bytes(struct[back[i][1]], back[i][2])
    BY <1>2, PartsType
  <2> QED
    BY <1>1, <2>2, <2>3
<1>7. PICK tf : Joins(tf, pf) /\ Encode(front, struct) = tf[A]
  BY <1>2, EncodeJoins
<1>8. PICK tb : Joins(tb, pb) /\ Encode(back, struct) = tb[B]
  BY <1>2, EncodeJoins
<1>9. /\ tf \in [0 .. A -> Seq(AnyByte)] /\ tf[0] = <<>>
      /\ \A n \in 1 .. A : tf[n] = tf[n - 1] \o pf[n]
      /\ tb \in [0 .. B -> Seq(AnyByte)] /\ tb[0] = <<>>
      /\ \A n \in 1 .. B : tb[n] = tb[n - 1] \o pb[n]
  BY <1>4, <1>7, <1>8 DEF Joins
<1>10. tf[A] \in Seq(AnyByte) /\ tf[A] \o <<>> = tf[A]
  <2>1. A \in 0 .. A
    BY <1>3
  <2> QED
    BY <1>9, <2>1, ConcatEmptySeq
<1> DEFINE t == [n \in 0 .. A + B |-> IF n <= A THEN tf[n] ELSE tf[A] \o tb[n - A]]
<1>11. \A n \in 0 .. A : t[n] = tf[n]
  BY <1>3
<1>12. \A n \in 0 .. B : t[A + n] = tf[A] \o tb[n]
  <2> SUFFICES ASSUME NEW n \in 0 .. B PROVE t[A + n] = tf[A] \o tb[n]
    OBVIOUS
  <2>1. CASE n = 0
    <3>1. A + n = A /\ A \in 0 .. A
      BY <1>3, <2>1
    <3>2. t[A] = tf[A]
      BY <1>11, <3>1
    <3> QED
      BY <1>9, <1>10, <2>1, <3>1, <3>2
  <2>2. CASE n # 0
    <3>1. A + n \in 0 .. A + B /\ ~(A + n <= A) /\ (A + n) - A = n
      BY <1>3, <2>2
    <3> QED
      BY <3>1
  <2> QED
    BY <2>1, <2>2
<1>13. t \in [0 .. A + B -> Seq(AnyByte)]
  <2> SUFFICES ASSUME NEW n \in 0 .. A + B PROVE t[n] \in Seq(AnyByte)
    OBVIOUS
  <2>1. CASE n <= A
    <3>1. n \in 0 .. A
      BY <1>3, <2>1
    <3> QED
      BY <1>9, <1>11, <3>1
  <2>2. CASE ~(n <= A)
    <3>1. n - A \in 0 .. B
      BY <1>3, <2>2
    <3>2. tb[n - A] \in Seq(AnyByte)
      BY <1>9, <3>1
    <3>3. tf[A] \o tb[n - A] \in Seq(AnyByte)
      BY <1>10, <3>2, Concat
    <3> QED
      BY <2>2, <3>3
  <2> QED
    BY <2>1, <2>2
<1> HIDE DEF t, p, pf, pb
<1>14. ASSUME NEW n \in 1 .. A + B PROVE t[n] = t[n - 1] \o p[n]
  <2>1. CASE n <= A
    <3>1. n \in 1 .. A /\ n \in 0 .. A /\ n - 1 \in 0 .. A
      BY <1>3, <2>1
    <3> QED
      BY <1>5, <1>9, <1>11, <3>1
  <2>2. CASE ~(n <= A)
    <3> DEFINE k == n - A
    <3>1. k \in 1 .. B /\ k \in 0 .. B /\ k - 1 \in 0 .. B /\ A + k = n /\ A + (k - 1) = n - 1
      BY <1>3, <2>2
    <3> HIDE DEF k
    <3>2. t[n] = tf[A] \o tb[k] /\ t[n - 1] = tf[A] \o tb[k - 1] /\ p[n] = pb[k]
      BY <1>6, <1>12, <3>1
    <3>3. tb[k - 1] \in Seq(AnyByte) /\ pb[k] \in Seq(AnyByte) /\ tb[k] = tb[k - 1] \o pb[k]
      BY <1>4, <1>9, <3>1, ElementOfSeq
    <3>4. (tf[A] \o tb[k - 1]) \o pb[k] = tf[A] \o (tb[k - 1] \o pb[k])
      BY <1>10, <3>3, Associative
    <3> QED
      BY <3>2, <3>3, <3>4
  <2> QED
    BY <2>1, <2>2
<1>15. t[0] = <<>>
  <2>1. 0 \in 0 .. A
    BY <1>3
  <2> QED
    BY <1>9, <1>11, <2>1
<1>16. Joins(t, p)
  BY <1>4, <1>13, <1>14, <1>15 DEF Joins
<1>17. Encode(both, struct) = t[A + B]
  <2>1. FlattenSeq(p) = t[Len(p)]
    BY <1>4, <1>16, FlattenJoins
  <2> QED
    BY <1>4, <2>1 DEF Encode, p, Parts
<1>18. t[A + B] = tf[A] \o tb[B]
  <2>1. B \in 0 .. B
    BY <1>3
  <2> QED
    BY <1>12, <2>1
<1>19. Encode(front, struct) \in Seq(AnyByte) /\ Encode(back, struct) \in Seq(AnyByte)
  BY <1>2, EncodeJoins
<1> QED
  BY <1>7, <1>8, <1>17, <1>18, <1>19 DEF both

\* Zeroed bytes are bytes,
LEMMA ZerosType ==
    ASSUME NEW n \in Nat
    PROVE  Zeros(n) \in Seq(AnyByte) /\ Len(Zeros(n)) = n
<1>1. ZeroByte \in AnyByte
  BY Values
<1> QED
  BY <1>1, TableIsSeq DEF Zeros

\* and joined they are zeroed bytes.
LEMMA MoreZeros ==
    ASSUME NEW m \in Nat, NEW n \in Nat
    PROVE  Zeros(m) \o Zeros(n) = Zeros(m + n)
<1> DEFINE a == Zeros(m)
           b == Zeros(n)
           c == Zeros(m + n)
<1>1. /\ a \in Seq(AnyByte) /\ Len(a) = m /\ b \in Seq(AnyByte) /\ Len(b) = n
      /\ c \in Seq(AnyByte) /\ Len(c) = m + n
  BY ZerosType
<1>2. /\ \A i \in 1 .. m : a[i] = ZeroByte
      /\ \A i \in 1 .. n : b[i] = ZeroByte
      /\ \A i \in 1 .. m + n : c[i] = ZeroByte
  BY DEF Zeros
<1> HIDE DEF a, b, c
<1>3. /\ a \o b \in Seq(AnyByte)
      /\ Len(a \o b) = m + n
      /\ \A i \in 1 .. m + n : (a \o b)[i] = IF i <= m THEN a[i] ELSE b[i - m]
  BY <1>1, ConcatProperties
<1>4. \A i \in 1 .. m + n : (a \o b)[i] = c[i]
  <2> SUFFICES ASSUME NEW i \in 1 .. m + n PROVE (a \o b)[i] = ZeroByte
    BY <1>2
  <2>1. CASE i <= m
    <3>1. i \in 1 .. m
      BY <2>1
    <3> QED
      BY <1>2, <1>3, <2>1, <3>1
  <2>2. CASE ~(i <= m)
    <3>1. i - m \in 1 .. n
      BY <2>2
    <3> QED
      BY <1>2, <1>3, <2>2, <3>1
  <2> QED
    BY <2>1, <2>2
<1>5. a \o b = c
  <2> DEFINE both == a \o b
  <2>1. /\ both \in Seq(AnyByte) /\ Len(both) = Len(c)
        /\ \A i \in 1 .. Len(both) : both[i] = c[i]
    BY <1>1, <1>3, <1>4
  <2> HIDE DEF both
  <2>2. both = c
    BY <1>1, <2>1, SeqEqual
  <2> QED
    BY <2>2 DEF both
<1> QED
  BY <1>5 DEF a, b, c

\* A field that nobody has written is zeroed bytes.
LEMMA EncodeZero ==
    ASSUME NEW type \in DOMAIN Width, NEW name, NEW struct, struct[name] = Zero
    PROVE  Encode(Of(type, <<name>>), struct) = Zeros(Width[type])
<1> DEFINE layout == Of(type, <<name>>)
<1>1. layout = << <<name, type>> >>
  BY DEF Of
<1>2. type # "str" /\ type \in FieldType /\ Width[type] \in Nat
  BY Widths DEF FieldType
<1>3. WellFormed(layout) /\ NamesIn(layout) = {name} /\ Len(layout) = 1
  BY <1>2, Fields1 DEF Lists
<1>4. Covers(struct, layout)
  BY <1>3, Values DEF Covers
<1> HIDE DEF layout
<1>5. Parts(layout, struct)[1] = Zeros(Width[type])
  <2>1. 1 \in 1 .. Len(layout) /\ layout[1][1] = name /\ layout[1][2] = type
    BY <1>1, <1>3
  <2>2. Parts(layout, struct)[1] = Bytes(struct[name], type)
    BY <1>3, <1>4, <2>1, PartsType
  <2> QED
    BY <1>2, <2>2 DEF Bytes, FixedBytes
<1>6. PICK t : Joins(t, Parts(layout, struct)) /\ Encode(layout, struct) = t[1]
  BY <1>3, <1>4, EncodeJoins
<1>7. t[0] = <<>> /\ t[1] = t[0] \o Parts(layout, struct)[1]
  <2>1. Len(Parts(layout, struct)) = 1
    BY <1>3, <1>4, PartsType
  <2>2. 1 \in 1 .. 1 /\ 1 - 1 = 0
    OBVIOUS
  <2> QED
    BY <1>6, <2>1, <2>2 DEF Joins
<1>8. <<>> \o Zeros(Width[type]) = Zeros(Width[type])
  BY <1>2, ZerosType, ConcatEmptySeq
<1> QED
  BY <1>5, <1>6, <1>7, <1>8 DEF layout

\* A layout that was put together comes apart again.
LEMMA LayoutParts ==
    ASSUME NEW a, WellFormed(a), NEW b, WellFormed(b)
    PROVE  /\ Len(a) > 0 => SubSeq(a \o b, 1, Len(a)) = a
           /\ \A c : WellFormed(c) => (a \o b) \o c = a \o (b \o c)
<1> DEFINE Entries(layout) == NamesIn(layout) \X FieldType
<1>1. a \in Seq(Entries(a)) /\ b \in Seq(Entries(b)) /\ Len(a) \in Nat
  BY LayoutType
<1>2. Len(a) > 0 => SubSeq(a \o b, 1, Len(a)) = a
  <2> SUFFICES ASSUME Len(a) > 0 PROVE SubSeq(a \o b, 1, Len(a)) = a
    OBVIOUS
  <2> DEFINE S == Entries(a) \cup Entries(b)
  <2>1. Entries(a) \subseteq S /\ Entries(b) \subseteq S
    OBVIOUS
  <2> HIDE DEF S, Entries
  <2>2. a \in Seq(S) /\ b \in Seq(S)
    BY <1>1, <2>1, SeqMonotonic
  <2>3. 1 \in 1 .. Len(a) /\ Len(a) \in 1 .. Len(a)
    BY <1>1
  <2>4. SubSeq(a \o b, 1, Len(a)) = SubSeq(a, 1, Len(a))
    BY <2>2, <2>3, SubSeqOfConcat1
  <2> QED
    BY <2>2, <2>4, SubSeqFull
<1>3. ASSUME NEW c, WellFormed(c) PROVE (a \o b) \o c = a \o (b \o c)
  <2> DEFINE S == Entries(a) \cup Entries(b) \cup Entries(c)
  <2>1. Entries(a) \subseteq S /\ Entries(b) \subseteq S /\ Entries(c) \subseteq S
    OBVIOUS
  <2>2. c \in Seq(Entries(c))
    BY <1>3, LayoutType
  <2> HIDE DEF S, Entries
  <2>3. a \in Seq(S) /\ b \in Seq(S) /\ c \in Seq(S)
    BY <1>1, <2>1, <2>2, SeqMonotonic
  <2> QED
    BY <2>3, ConcatAssociative
<1> QED
  BY <1>2, <1>3

\* What is in front stands at the first position.
LEMMA OccursFirst ==
    ASSUME NEW front \in Seq(AnyByte), NEW back \in Seq(AnyByte)
    PROVE  Occurs(front, front \o back, 1)
<1> DEFINE both == front \o back
           n == Len(front)
<1>1. /\ n \in Nat /\ Len(back) \in Nat /\ Len(both) = n + Len(back)
      /\ \A i \in 1 .. n : both[i] = front[i]
  BY Concat
<1> HIDE DEF both
<1>2. 1 + n - 1 <= Len(both) /\ \A i \in 1 .. n : 1 + i - 1 = i
  BY <1>1
<1>3. Occurs(front, both, 1)
  BY <1>1, <1>2 DEF Occurs
<1> QED
  BY <1>3 DEF both

\* An account in a former layout is one in the layout of today, when all that
\* today's has behind the fields of the former one reads zeroed bytes.
LEMMA FormerReads ==
    ASSUME NEW class \in Classes, "uri" \notin NamesIn(ProgramLayout[class]),
           NEW front, WellFormed(front), "padding" \notin NamesIn(front),
           NEW back, WellFormed(back), NamesIn(front) \cap NamesIn(back) = {},
           ProgramLayout[class] = front \o back,
           NEW padding, Lists(padding, {"padding"}),
           FormerLayout[class] = front \o padding,
           NEW zeros, Encode(padding, FormerStruct(class, FormerLayout[class])) = zeros,
           NEW n \in Nat, NEW left \in Nat, zeros = Zeros(n) \o Zeros(left),
           Encode(back, FormerStruct(class, ProgramLayout[class])) = Zeros(n)
    PROVE  LET struct == FormerStruct(class, ProgramLayout[class])
               data == FormerAccount(class).data
           IN  /\ Storable(ProgramLayout[class], struct)
               /\ data \in Seq(AnyByte)
               /\ Occurs(Opening(class, struct), data, 1)
<1> DEFINE struct == FormerStruct(class, ProgramLayout[class])
           former == FormerStruct(class, FormerLayout[class])
           first == Discriminator(class)
           mid == Encode(front, struct)
<1>1. WellFormed(padding) /\ NamesIn(padding) = {"padding"}
  BY DEF Lists
<1>2. /\ NamesIn(ProgramLayout[class]) = NamesIn(front) \cup NamesIn(back)
      /\ NamesIn(FormerLayout[class]) = NamesIn(front) \cup {"padding"}
  <2>1. NamesIn(front \o back) = NamesIn(front) \cup NamesIn(back)
    BY ConcatLayouts
  <2>2. NamesIn(front \o padding) = NamesIn(front) \cup {"padding"}
    BY <1>1, ConcatLayouts
  <2> QED
    BY <2>1, <2>2
<1>3. NamesIn(ProgramLayout[class]) \subseteq AnyName /\ "padding" \in AnyName
  BY LayoutsListed, ClassNames DEF AnyName, Classes
<1>4. /\ struct = [f \in NamesIn(ProgramLayout[class]) |->
                     IF f = "padding" \/ f \notin NamesIn(FormerLayout[class]) THEN Zero
                     ELSE Value(f, 0, 0)]
      /\ former = [f \in NamesIn(FormerLayout[class]) |->
                     IF f = "padding" \/ f \notin NamesIn(FormerLayout[class]) THEN Zero
                     ELSE Value(f, 0, 0)]
  BY DEF FormerStruct
<1>5. Zero \in AnyValue /\ \A f \in AnyName : Value(f, 0, 0) \in AnyValue
  BY Values, ValueType
<1> HIDE DEF struct, former
<1>6. /\ struct \in [NamesIn(ProgramLayout[class]) -> AnyValue]
      /\ \A f \in NamesIn(FormerLayout[class]) : former[f] \in AnyValue
  BY <1>2, <1>3, <1>4, <1>5
<1>7. Storable(ProgramLayout[class], struct)
  BY <1>6 DEF Storable
<1>8. Covers(struct, front \o back) /\ Covers(former, front \o padding)
  BY <1>6 DEF Covers
<1>9. Encode(front, former) = mid
  <2>1. \A f \in NamesIn(front) : former[f] = struct[f]
    BY <1>2, <1>4
  <2> QED
    BY <2>1, EncodeAgree
<1>10. Encode(padding, former) = Zeros(n) \o Zeros(left)
  BY DEF former
<1>11. /\ Encode(front \o back, struct) = mid \o Zeros(n)
       /\ mid \in Seq(AnyByte)
  <2>1. Encode(back, struct) = Zeros(n)
    BY DEF struct
  <2> QED
    BY <1>8, <2>1, EncodeConcat
<1>12. Encode(front \o padding, former) = mid \o (Zeros(n) \o Zeros(left))
  <2>1. NamesIn(front) \cap NamesIn(padding) = {}
    BY <1>1
  <2> HIDE DEF mid
  <2>2. Encode(front \o padding, former) = Encode(front, former) \o Encode(padding, former)
    BY <1>1, <1>8, <2>1, EncodeConcat
  <2> QED
    BY <1>9, <1>10, <2>2
<1>13. FormerAccount(class).data = first \o (mid \o (Zeros(n) \o Zeros(left)))
  <2>1. FormerAccount(class).data = first \o Encode(front \o padding, former)
    BY DEF FormerAccount, former
  <2> QED
    BY <1>12, <2>1
<1>14. Opening(class, struct) = first \o (mid \o Zeros(n))
  BY <1>11 DEF Opening
<1>15. /\ first \in Seq(AnyByte) /\ Zeros(n) \in Seq(AnyByte) /\ Zeros(left) \in Seq(AnyByte)
  <2>1. first \in Seq(AnyByte)
    BY DiscriminatorType
  <2>2. Zeros(n) \in Seq(AnyByte) /\ Zeros(left) \in Seq(AnyByte)
    BY ZerosType
  <2> QED
    BY <2>1, <2>2
<1> HIDE DEF mid, first
<1>16. first \o (mid \o (Zeros(n) \o Zeros(left))) = (first \o (mid \o Zeros(n))) \o Zeros(left)
  <2> DEFINE z == Zeros(n)
             more == Zeros(left)
             both == mid \o z
  <2>1. mid \o (z \o more) = both \o more
    BY <1>11, <1>15, Associative
  <2>2. both \in Seq(AnyByte)
    BY <1>11, <1>15, Concat
  <2> HIDE DEF both
  <2>3. (first \o both) \o more = first \o (both \o more)
    BY <1>15, <2>2, Associative
  <2> QED
    BY <1>15, <2>1, <2>3 DEF both
<1>17. FormerAccount(class).data = Opening(class, struct) \o Zeros(left)
  BY <1>13, <1>14, <1>16
<1>18. Opening(class, struct) \in Seq(AnyByte)
  BY <1>7, OpeningType
<1>19. FormerAccount(class).data \in Seq(AnyByte)
  BY <1>15, <1>17, <1>18, Concat
<1>20. Occurs(Opening(class, struct), FormerAccount(class).data, 1)
  BY <1>15, <1>17, <1>18, OccursFirst
<1> QED
  BY <1>7, <1>19, <1>20 DEF struct

\* The padding of a former layout is 240 zeroed bytes,
LEMMA FormerPadding ==
    ASSUME NEW class, "padding" \in NamesIn(FormerLayout[class])
    PROVE  LET padding == Of("[u8; 240]", <<"padding">>)
           IN  /\ Lists(padding, {"padding"})
               /\ Encode(padding, FormerStruct(class, FormerLayout[class])) = Zeros(240)
<1>1. FormerStruct(class, FormerLayout[class])["padding"] = Zero
  BY DEF FormerStruct
<1>2. "[u8; 240]" \in DOMAIN Width
  BY DEF Width
<1>3. Lists(Of("[u8; 240]", <<"padding">>), {"padding"})
  BY FieldTypes, Fields1
<1>4. Encode(Of("[u8; 240]", <<"padding">>), FormerStruct(class, FormerLayout[class]))
        = Zeros(Width["[u8; 240]"])
  BY <1>1, <1>2, EncodeZero
<1>5. Width["[u8; 240]"] = 240
  BY WidthTable
<1> QED
  BY <1>3, <1>4, <1>5

\* of which the fields and the padding of today take the first ones.
LEMMA ZerosSplit ==
    /\ Zeros(240) = Zeros(240) \o Zeros(0)
    /\ Zeros(240) = Zeros(32) \o Zeros(208)
    /\ Zeros(240) = Zeros(8) \o Zeros(232)
<1> DEFINE J(a, b) == a \o b
<1>1. \A k, m, n \in Nat : k = m + n => Zeros(k) = J(Zeros(m), Zeros(n))
  BY MoreZeros
<1> HIDE DEF J
<1>2. /\ Zeros(240) = J(Zeros(240), Zeros(0))
      /\ Zeros(240) = J(Zeros(32), Zeros(208))
      /\ Zeros(240) = J(Zeros(8), Zeros(232))
  BY <1>1
<1> QED
  BY <1>2, Zenon DEF J

\* A lockup's former layout: weighted_start_ts reads eight bytes of padding.
LEMMA FormerLockupReads ==
    LET struct == FormerStruct("lockup", ProgramLayout["lockup"])
        data == FormerAccount("lockup").data
    IN  /\ Storable(ProgramLayout["lockup"], struct)
        /\ data \in Seq(AnyByte)
        /\ Occurs(Opening("lockup", struct), data, 1)
<1> DEFINE n1 == {"ns", "owner"}
           n2 == {"amount"}
           n3 == {"startTs", "endTs"}
           n4 == {"targetRewardsPct", "targetVotingPct"}
           f1 == Of("publicKey", <<"ns", "owner">>)
           f2 == Of("u64", <<"amount">>)
           f3 == Of("i64", <<"startTs", "endTs">>)
           f4 == Of("u16", <<"targetRewardsPct", "targetVotingPct">>)
           weighted == Of("i64", <<"weightedStartTs">>)
           padding == Of("[u8; 232]", <<"padding">>)
           older == Of("[u8; 240]", <<"padding">>)
           back == weighted \o padding
           l2 == f1 \o f2
           l3 == l2 \o f3
           front == l3 \o f4
           struct == FormerStruct("lockup", ProgramLayout["lockup"])
<1>0. Len(f1) = 2 /\ Len(f2) = 1 /\ Len(f3) = 2 /\ Len(f4) = 2
  BY FieldTypes, Fields1, Fields2
<1>1. /\ Lists(f1, n1) /\ Lists(f2, n2) /\ Lists(f3, n3) /\ Lists(f4, n4)
      /\ Lists(weighted, {"weightedStartTs"}) /\ Lists(padding, {"padding"})
      /\ Lists(older, {"padding"})
  BY FieldTypes, Fields1, Fields2
<1>2. ProgramLockup = (front \o weighted) \o padding
  BY DEF ProgramLockup
<1>3. ProgramLayout["lockup"] = ProgramLockup
      /\ FormerLayout["lockup"] = SubSeq(ProgramLockup, 1, 7) \o older
  BY DEF ProgramLayout, FormerLayout
<1>4. NamesIn(ProgramLayout["lockup"]) =
        {"ns", "owner", "amount", "startTs", "endTs", "targetRewardsPct",
         "targetVotingPct", "weightedStartTs", "padding"}
  BY ClassNames
<1>5. struct = [f \in NamesIn(ProgramLayout["lockup"]) |->
                  IF f = "padding" \/ f \notin NamesIn(FormerLayout["lockup"]) THEN Zero
                  ELSE Value(f, 0, 0)]
  BY DEF FormerStruct
<1> HIDE DEF f1, f2, f3, f4, struct, older, weighted, padding, back
<1>6. Lists(l2, n1 \cup n2) /\ Len(l2) = Len(f1) + Len(f2)
  BY <1>1, MoreFields
<1> HIDE DEF l2
<1>7. Lists(l3, n1 \cup n2 \cup n3) /\ Len(l3) = Len(l2) + Len(f3)
  BY <1>1, <1>6, MoreFields
<1> HIDE DEF l3
<1>8. Lists(front, n1 \cup n2 \cup n3 \cup n4) /\ Len(front) = Len(l3) + Len(f4)
  BY <1>1, <1>7, MoreFields
<1>80. Len(front) = 7 /\ Len(front) > 0
  BY <1>0, <1>6, <1>7, <1>8
<1> HIDE DEF front
<1>9. Lists(back, {"weightedStartTs"} \cup {"padding"})
  BY <1>1, MoreFields DEF back
<1>10. ProgramLockup = front \o back
  <2>1. WellFormed(front) /\ WellFormed(weighted) /\ WellFormed(padding)
    BY <1>1, <1>8 DEF Lists
  <2>2. (front \o weighted) \o padding = front \o (weighted \o padding)
    BY <2>1, LayoutParts
  <2> QED
    BY <1>2, <2>2, Zenon DEF back
<1>11. SubSeq(ProgramLockup, 1, 7) = front
  <2>1. SubSeq(front \o back, 1, Len(front)) = front
    <3>1. Len(front) > 0
      BY <1>80
    <3>2. WellFormed(front) /\ WellFormed(back)
      BY <1>8, <1>9 DEF Lists
    <3> QED
      BY <3>1, <3>2, LayoutParts
  <2> QED
    BY <1>80, <1>10, <2>1
<1>12. NamesIn(FormerLayout["lockup"]) = n1 \cup n2 \cup n3 \cup n4 \cup {"padding"}
  <2>1. Lists(front \o older, n1 \cup n2 \cup n3 \cup n4 \cup {"padding"})
    BY <1>1, <1>8, MoreFields
  <2> QED
    BY <1>3, <1>11, <2>1 DEF Lists
<1>13. struct["weightedStartTs"] = Zero /\ struct["padding"] = Zero
  BY <1>4, <1>5, <1>12
<1>14. Encode(weighted, struct) = Zeros(8) /\ Encode(padding, struct) = Zeros(232)
  <2>1. "i64" \in DOMAIN Width /\ "[u8; 232]" \in DOMAIN Width
    BY DEF Width
  <2>2. /\ Encode(weighted, struct) = Zeros(Width["i64"])
        /\ Encode(padding, struct) = Zeros(Width["[u8; 232]"])
    BY <1>13, <2>1, EncodeZero DEF weighted, padding
  <2>3. Width["i64"] = 8 /\ Width["[u8; 232]"] = 232
    BY WidthTable
  <2> QED
    BY <2>2, <2>3
<1>15. Encode(back, struct) = Zeros(240)
  <2>1. Covers(struct, back)
    BY <1>9, <1>13, Values DEF Covers, Lists
  <2>2. Encode(weighted \o padding, struct) = Encode(weighted, struct) \o Encode(padding, struct)
    BY <1>1, <2>1, EncodeConcat DEF Lists, back
  <2> QED
    BY <1>14, <2>2, ZerosSplit DEF back
<1>16. "lockup" \in Classes /\ "uri" \notin NamesIn(ProgramLayout["lockup"])
  BY <1>4 DEF Classes
<1>17. ProgramLayout["lockup"] = front \o back /\ FormerLayout["lockup"] = front \o older
  BY <1>3, <1>10, <1>11
<1>18. Lists(older, {"padding"})
       /\ Encode(older, FormerStruct("lockup", FormerLayout["lockup"])) = Zeros(240)
  BY <1>12, FormerPadding DEF older
<1>19. /\ WellFormed(front) /\ "padding" \notin NamesIn(front) /\ WellFormed(back)
       /\ NamesIn(front) \cap NamesIn(back) = {}
  BY <1>8, <1>9 DEF Lists
<1>20. /\ Encode(back, FormerStruct("lockup", ProgramLayout["lockup"])) = Zeros(240)
       /\ 240 \in Nat /\ 0 \in Nat
  BY <1>15 DEF struct
<1> DEFINE n == 240
           left == 0
           zeros == Zeros(240)
<1>21. /\ Encode(older, FormerStruct("lockup", FormerLayout["lockup"])) = zeros
       /\ zeros = Zeros(n) \o Zeros(left)
       /\ Encode(back, FormerStruct("lockup", ProgramLayout["lockup"])) = Zeros(n)
       /\ n \in Nat /\ left \in Nat
  BY <1>18, <1>20, ZerosSplit
<1> HIDE DEF n, left, zeros
<1> QED
  BY <1>16, <1>17, <1>18, <1>19, <1>21, FormerReads

\* A vote record's former layout: a longer padding.
LEMMA FormerVoteRecordReads ==
    LET struct == FormerStruct("voteRecord", ProgramLayout["voteRecord"])
        data == FormerAccount("voteRecord").data
    IN  /\ Storable(ProgramLayout["voteRecord"], struct)
        /\ data \in Seq(AnyByte)
        /\ Occurs(Opening("voteRecord", struct), data, 1)
<1> DEFINE n1 == {"ns", "owner", "proposal", "lockup"}
           n2 == {"choice"}
           n3 == {"votingPower"}
           f1 == Of("publicKey", <<"ns", "owner", "proposal", "lockup">>)
           f2 == Of("u8", <<"choice">>)
           f3 == Of("u64", <<"votingPower">>)
           padding == Of("[u8; 32]", <<"padding">>)
           older == Of("[u8; 240]", <<"padding">>)
           l2 == f1 \o f2
           front == l2 \o f3
           struct == FormerStruct("voteRecord", ProgramLayout["voteRecord"])
<1>0. Len(f1) = 4 /\ Len(f2) = 1 /\ Len(f3) = 1
  BY FieldTypes, Fields1, Fields4
<1>1. /\ Lists(f1, n1) /\ Lists(f2, n2) /\ Lists(f3, n3)
      /\ Lists(padding, {"padding"}) /\ Lists(older, {"padding"})
  BY FieldTypes, Fields1, Fields4
<1>2. ProgramVoteRecord = front \o padding
  BY DEF ProgramVoteRecord
<1>3. ProgramLayout["voteRecord"] = ProgramVoteRecord
      /\ FormerLayout["voteRecord"] = SubSeq(ProgramVoteRecord, 1, 6) \o older
  BY DEF ProgramLayout, FormerLayout
<1>4. NamesIn(ProgramLayout["voteRecord"]) =
        {"ns", "owner", "proposal", "lockup", "choice", "votingPower", "padding"}
  BY ClassNames
<1>5. struct = [f \in NamesIn(ProgramLayout["voteRecord"]) |->
                  IF f = "padding" \/ f \notin NamesIn(FormerLayout["voteRecord"]) THEN Zero
                  ELSE Value(f, 0, 0)]
  BY DEF FormerStruct
<1> HIDE DEF f1, f2, f3, padding, struct, older
<1>6. Encode(padding, struct) = Zeros(32)
  <2>1. struct["padding"] = Zero
    BY <1>4, <1>5
  <2>2. "[u8; 32]" \in DOMAIN Width
    BY DEF Width
  <2>3. Encode(padding, struct) = Zeros(Width["[u8; 32]"])
    BY <2>1, <2>2, EncodeZero DEF padding
  <2>4. Width["[u8; 32]"] = 32
    BY WidthTable
  <2> QED
    BY <2>3, <2>4
<1>7. Lists(l2, n1 \cup n2) /\ Len(l2) = Len(f1) + Len(f2)
  BY <1>1, MoreFields
<1> HIDE DEF l2
<1>8. Lists(front, n1 \cup n2 \cup n3) /\ Len(front) = Len(l2) + Len(f3)
  BY <1>1, <1>7, MoreFields
<1>80. Len(front) = 6 /\ Len(front) > 0
  BY <1>0, <1>7, <1>8
<1> HIDE DEF front
<1>9. SubSeq(ProgramVoteRecord, 1, 6) = front
  <2>1. SubSeq(front \o padding, 1, Len(front)) = front
    <3>1. Len(front) > 0
      BY <1>80
    <3>2. WellFormed(front) /\ WellFormed(padding)
      BY <1>1, <1>8 DEF Lists
    <3> QED
      BY <3>1, <3>2, LayoutParts
  <2> QED
    BY <1>2, <1>80, <2>1
<1>10. "voteRecord" \in Classes /\ "uri" \notin NamesIn(ProgramLayout["voteRecord"])
  BY <1>4 DEF Classes
<1>11. /\ ProgramLayout["voteRecord"] = front \o padding
       /\ FormerLayout["voteRecord"] = front \o older
  BY <1>2, <1>3, <1>9
<1>12. Lists(older, {"padding"})
       /\ Encode(older, FormerStruct("voteRecord", FormerLayout["voteRecord"])) = Zeros(240)
  <2>1. Lists(front \o older, n1 \cup n2 \cup n3 \cup {"padding"})
    BY <1>1, <1>8, MoreFields
  <2>2. "padding" \in NamesIn(FormerLayout["voteRecord"])
    BY <1>11, <2>1 DEF Lists
  <2> QED
    BY <2>2, FormerPadding DEF older
<1>13. /\ WellFormed(front) /\ "padding" \notin NamesIn(front) /\ WellFormed(padding)
       /\ NamesIn(front) \cap NamesIn(padding) = {}
  BY <1>1, <1>8 DEF Lists
<1>14. /\ Encode(padding, FormerStruct("voteRecord", ProgramLayout["voteRecord"])) = Zeros(32)
       /\ 32 \in Nat /\ 208 \in Nat
  BY <1>6 DEF struct
<1> DEFINE n == 32
           left == 208
           zeros == Zeros(240)
<1>15. /\ Encode(older, FormerStruct("voteRecord", FormerLayout["voteRecord"])) = zeros
       /\ zeros = Zeros(n) \o Zeros(left)
       /\ Encode(padding, FormerStruct("voteRecord", ProgramLayout["voteRecord"])) = Zeros(n)
       /\ n \in Nat /\ left \in Nat
  BY <1>12, <1>14, ZerosSplit
<1> HIDE DEF n, left, zeros
<1> QED
  BY <1>10, <1>11, <1>12, <1>13, <1>15, FormerReads

----------------------------------------------------------------------------
(***************************************************************************)
(* The invariant: an account of the program opens with its class and the   *)
(* struct the handlers meant, whatever is behind that in a former layout   *)
(* or after a shorter text; and a proposal never changes its size, which   *)
(* is what makes room for the texts to come.                               *)
(***************************************************************************)
Says(class, info, struct) ==
    /\ info.owner = "program"
    /\ info.data \in Seq(AnyByte)
    /\ Storable(ProgramLayout[class], struct)
    /\ Occurs(Opening(class, struct), info.data, 1)
    /\ class = "proposal" => Len(info.data) = Space(class)

Holds(class, info, struct) ==
    info \in {NoAccount, Funded} \/ Says(class, info, struct)

WireInv ==
    /\ calls \in Nat
    /\ DOMAIN account = Classes
    /\ \A class \in Classes : Holds(class, account[class], meant[class])

\* The space of a class is a number of bytes.
LEMMA SpaceNat ==
    ASSUME NEW class \in Classes
    PROVE  Space(class) \in Nat
<1>1. SpaceOf(ProgramLayout[class], MaxUri) \in Nat
  <2>1. MaxUri \in Nat
    BY DEF MaxUri
  <2> QED
    BY <2>1, LayoutsListed, SpaceType
<1> QED
  BY <1>1 DEF Space, DiscriminatorSize

\* What any effect leaves behind opens with what its handler meant.
LEMMA WrittenHolds ==
    ASSUME NEW ix \in Writers, NEW e, Allowed(ix, e), NEW call \in Nat,
           NEW args, Storable(ProgramArgs[ix], args), Possible(e, args, call),
           Holds(e.class, account[e.class], meant[e.class])
    PROVE  Holds(e.class, Written(e, args, call), Meaning(e, args, call))
<1> DEFINE class == e.class
           layout == ProgramLayout[class]
           old == StructBefore(e)
           new == Assigned(e, args, call, old)
           before == DataBefore(e)
           after == Overwrite(before, class, new)
<1>1. class \in Classes /\ e.mode \in {"init", "save", "close"}
  BY DEF Allowed
<1>2. CASE e.mode = "close"
  BY <1>2 DEF Written, Holds
<1>3. ASSUME e.mode # "close", Storable(layout, old), before \in Seq(AnyByte),
             class = "proposal" => Len(before) = Space(class)
      PROVE  Says(class, Written(e, args, call), new)
  <2>1. Written(e, args, call) = [owner |-> "program", data |-> after]
    BY <1>3 DEF Written
  <2>2. Storable(layout, new)
    BY <1>3, AssignedStorable
  <2>3. Fits(before, class, new)
    BY <1>3 DEF Possible
  <2> HIDE DEF class, old, new, before
  <2>4. /\ after \in Seq(AnyByte) /\ Occurs(Opening(class, new), after, 1)
        /\ Len(after) = Len(before)
    BY <1>1, <1>3, <2>2, <2>3, Overwrites
  <2> HIDE DEF after
  <2>5. /\ Written(e, args, call).owner = "program"
        /\ Written(e, args, call).data = after
    BY <2>1
  <2> QED
    BY <1>3, <2>2, <2>4, <2>5 DEF Says
<1>4. CASE e.mode = "init"
  <2>1. old = Blank(layout) /\ before = Zeros(Space(class))
    BY <1>4 DEF StructBefore, DataBefore
  <2>2. Storable(layout, old)
    BY <1>1, <2>1, BlankStorable, LayoutsListed
  <2>3. before \in Seq(AnyByte) /\ Len(before) = Space(class)
    BY <1>1, <2>1, SpaceNat, ZerosType
  <2>4. Meaning(e, args, call) = new
    BY <1>4, <2>1 DEF Meaning
  <2> HIDE DEF class, layout, old, new, before
  <2>5. Says(class, Written(e, args, call), new)
    BY <1>3, <1>4, <2>2, <2>3
  <2> QED
    BY <2>4, <2>5 DEF Holds, class
<1>5. CASE e.mode = "save"
  <2>1. account[class].owner = "program"
    BY <1>5 DEF Possible
  <2>2. Says(class, account[class], meant[class])
    <3>1. NoAccount.owner # "program" /\ Funded.owner # "program"
      BY DEF NoAccount, Funded
    <3> QED
      BY <2>1, <3>1 DEF Holds
  <2>3. /\ old = Decode(layout, Body(account[class].data))
        /\ before = account[class].data
    BY <1>5 DEF StructBefore, DataBefore
  <2>4. old = meant[class]
    BY <1>1, <2>2, <2>3, AccountReads DEF Says
  <2>5. Meaning(e, args, call) = new
    BY <1>5, <2>4 DEF Meaning
  <2>6. /\ Storable(layout, old) /\ before \in Seq(AnyByte)
        /\ class = "proposal" => Len(before) = Space(class)
    BY <2>2, <2>3, <2>4 DEF Says
  <2> HIDE DEF class, layout, old, new, before
  <2>7. Says(class, Written(e, args, call), new)
    BY <1>3, <1>5, <2>6
  <2> QED
    BY <2>5, <2>7 DEF Holds, class
<1> QED
  BY <1>1, <1>2, <1>4, <1>5

\* It holds on a ledger with accounts of an earlier version or none,
LEMMA WireInitHolds == WireInit => WireInv
<1> SUFFICES ASSUME WireInit PROVE WireInv
  OBVIOUS
<1>1. PICK former \in SUBSET DOMAIN FormerLayout :
        /\ account = [class \in Classes |->
              IF class \in former THEN FormerAccount(class) ELSE NoAccount]
        /\ meant = [class \in Classes |->
              IF class \in former THEN FormerStruct(class, ProgramLayout[class])
                                  ELSE <<>>]
  BY DEF WireInit
<1>2. former \subseteq {"lockup", "voteRecord"}
  BY DEF FormerLayout
<1>3. ASSUME NEW class \in {"lockup", "voteRecord"}
      PROVE  Says(class, FormerAccount(class), FormerStruct(class, ProgramLayout[class]))
  <2>1. FormerAccount(class).owner = "program"
    BY DEF FormerAccount
  <2>2. class # "proposal"
    OBVIOUS
  <2> QED
    BY <2>1, <2>2, FormerLockupReads, FormerVoteRecordReads DEF Says
<1>4. ASSUME NEW class \in Classes
      PROVE  Holds(class, account[class], meant[class])
  <2>1. CASE class \in former
    <3>1. /\ account[class] = FormerAccount(class)
          /\ meant[class] = FormerStruct(class, ProgramLayout[class])
      BY <1>1, <2>1
    <3> QED
      BY <1>2, <1>3, <2>1, <3>1 DEF Holds
  <2>2. CASE class \notin former
    <3>1. account[class] = NoAccount
      BY <1>1, <2>2
    <3> QED
      BY <3>1 DEF Holds
  <2> QED
    BY <2>1, <2>2
<1>5. calls \in Nat /\ DOMAIN account = Classes
  BY <1>1 DEF WireInit
<1> QED
  BY <1>4, <1>5 DEF WireInv

\* is kept by every call, whoever encoded its arguments,
LEMMA CallHolds ==
    ASSUME WireInv, NEW sender, NEW ix \in Writers, NEW size \in Nat, Call(sender, ix, size)
    PROVE  WireInv'
<1> DEFINE call == calls + 1
           layout == SenderLayout(sender, ix)
           received == Decode(ProgramArgs[ix], Encode(layout, Intended(layout, call, size)))
           intended == Intended(ProgramArgs[ix], call, size)
           EffectOn(class) == CHOOSE e \in Effects(ix) : e.class = class
           touched == {e.class : e \in Effects(ix)}
<1>1. call \in Nat
  BY DEF WireInv
<1>2. received = intended
  BY <1>1, ArgumentsArrive
<1>3. Storable(ProgramArgs[ix], intended)
  BY <1>1, IntendedStorable
<1>4. /\ calls' = call
      /\ \A e \in Effects(ix) : Possible(e, received, call)
      /\ account' = [class \in Classes |->
            IF class \in touched THEN Written(EffectOn(class), received, call)
                                 ELSE account[class]]
      /\ meant' = [class \in Classes |->
            IF class \in touched THEN Meaning(EffectOn(class), intended, call)
                                 ELSE meant[class]]
  BY DEF Call
<1> HIDE DEF call, layout, received, intended
<1>5. ASSUME NEW class \in Classes
      PROVE  Holds(class, account'[class], meant'[class])
  <2>0. Holds(class, account[class], meant[class])
    BY DEF WireInv
  <2>1. CASE class \in touched
    <3> DEFINE e == EffectOn(class)
    <3>1. e \in Effects(ix) /\ e.class = class
      BY <2>1
    <3>2. /\ account'[class] = Written(e, intended, call)
          /\ meant'[class] = Meaning(e, intended, call)
          /\ Possible(e, intended, call)
      BY <1>2, <1>4, <2>1, <3>1
    <3> HIDE DEF e
    <3>3. Allowed(ix, e)
      BY <3>1, EffectsAllowed
    <3>4. Holds(e.class, Written(e, intended, call), Meaning(e, intended, call))
      BY <1>1, <1>3, <2>0, <3>1, <3>2, <3>3, WrittenHolds
    <3> QED
      BY <3>1, <3>2, <3>4
  <2>2. CASE class \notin touched
    <3>1. account'[class] = account[class] /\ meant'[class] = meant[class]
      BY <1>4, <2>2
    <3> QED
      BY <2>0, <3>1
  <2> QED
    BY <2>1, <2>2
<1>6. calls' \in Nat /\ DOMAIN account' = Classes
  BY <1>1, <1>4
<1> QED
  BY <1>5, <1>6 DEF WireInv

\* and by lamports sent to an address without an account.
LEMMA FundHolds ==
    ASSUME WireInv, NEW class \in Classes, Fund(class)
    PROVE  WireInv'
<1>1. /\ account' = [account EXCEPT ![class] = Funded]
      /\ calls' = calls /\ meant' = meant
  BY DEF Fund
<1>2. DOMAIN account = Classes /\ calls \in Nat
  BY DEF WireInv
<1>3. ASSUME NEW other \in Classes
      PROVE  Holds(other, account'[other], meant'[other])
  <2>1. CASE other = class
    <3>1. account'[other] = Funded
      BY <1>1, <1>2, <2>1
    <3> QED
      BY <3>1 DEF Holds
  <2>2. CASE other # class
    <3>1. account'[other] = account[other] /\ meant'[other] = meant[other]
      BY <1>1, <1>2, <2>2
    <3> QED
      BY <3>1 DEF WireInv
  <2> QED
    BY <2>1, <2>2
<1>4. DOMAIN account' = Classes
  BY <1>1, <1>2
<1> QED
  BY <1>1, <1>2, <1>3, <1>4 DEF WireInv

\* Whatever the calls, every account opens with what the handlers meant it
\* to say (states.rs: the structs Anchor writes back over an account's data).
THEOREM WireInvariant == WireSpec => []WireInv
<1>1. WireInit => WireInv
  BY WireInitHolds
<1>2. WireInv /\ [WireNext]_wireVars => WireInv'
  <2> SUFFICES ASSUME WireInv, [WireNext]_wireVars PROVE WireInv'
    OBVIOUS
  <2>1. ASSUME NEW sender \in {"generated", "idl"}, NEW ix \in Writers,
               NEW size \in Sizes(ix), Call(sender, ix, size)
        PROVE  WireInv'
    <3>1. size \in Nat
      BY WireAssumption DEF Sizes
    <3> QED
      BY <2>1, <3>1, CallHolds
  <2>2. ASSUME NEW class \in Classes, Fund(class) PROVE WireInv'
    BY <2>2, FundHolds
  <2>3. CASE UNCHANGED wireVars
    BY <2>3 DEF wireVars, WireInv
  <2> QED
    BY <2>1, <2>2, <2>3 DEF WireNext
<1> QED
  BY <1>1, <1>2, PTL DEF WireSpec

----------------------------------------------------------------------------
(***************************************************************************)
(* What readers see                                                        *)
(***************************************************************************)
\* Who goes by the program's layout reads an account as it was meant.
LEMMA ProgramSees ==
    ASSUME WireInv, NEW class \in Classes
    PROVE  Sees(ProgramLayout, class)
<1> DEFINE layout == ProgramLayout[class]
           info == account[class]
           seen == Fetch(class, layout, info)
<1>0. /\ NoAccount.owner = "nobody" /\ Funded.owner = "system"
      /\ NoAccount # Funded
  BY DEF NoAccount, Funded
<1>1. CASE info.owner = "program"
  <2>1. Says(class, info, meant[class])
    BY <1>0, <1>1 DEF WireInv, Holds
  <2>2. /\ Slice(info.data, 1, DiscriminatorSize) = Discriminator(class)
        /\ Decode(layout, Body(info.data)) = meant[class]
    BY <2>1, AccountReads DEF Says
  <2>3. info # NoAccount
    BY <1>0, <1>1
  <2>4. seen = DecodeAccount(class, layout, info.data)
    BY <1>1, <2>3 DEF Fetch
  <2>5. DecodeAccount(class, layout, info.data) = Outcome("account", meant[class])
    BY <2>2 DEF DecodeAccount
  <2>6. seen.kind = "account" /\ seen.fields = meant[class]
    BY <2>4, <2>5 DEF Outcome
  <2>7. ThroughJson(layout, meant[class]) = meant[class]
    BY <2>1, LayoutsListed, JsonKeeps DEF Says, Storable
  <2> HIDE DEF layout, info
  <2> QED
    BY <1>1, <2>6, <2>7 DEF Sees, layout, info
<1>2. CASE info.owner # "program"
  <2>1. info \in {NoAccount, Funded}
    BY <1>2 DEF WireInv, Holds, Says
  <2>2. CASE info = NoAccount
    <3>1. seen = Outcome("null", <<>>)
      BY <2>2 DEF Fetch
    <3>2. seen.kind = "null"
      BY <3>1 DEF Outcome
    <3> QED
      BY <1>2, <2>2, <3>2 DEF Sees
  <2>3. CASE info = Funded
    <3>1. info # NoAccount
      BY <1>0, <2>3
    <3>2. seen = Outcome("throws", <<>>)
      BY <1>2, <3>1 DEF Fetch
    <3>3. seen.kind = "throws"
      BY <3>2 DEF Outcome
    <3> QED
      BY <1>2, <3>1, <3>3 DEF Sees
  <2> QED
    BY <2>1, <2>2, <2>3
<1> QED
  BY <1>1, <1>2

\* However an account came to be as it is, the generated client and the
\* program read every field of it as the handlers meant it (the decoders of
\* generated/accounts, and the structs of states.rs).
THEOREM ReadersSee == WireSpec => []ReadersSeeWhatWasMeant
<1>1. WireInv => ReadersSeeWhatWasMeant
  BY ProgramSees, ClientLayouts DEF ReadersSeeWhatWasMeant
<1> QED
  BY <1>1, WireInvariant, PTL

\* An account of one class is never decoded as one of another: the first
\* eight bytes differ (the discriminators of generated/accounts).
THEOREM ClassesKeptApart == WireSpec => []NeverAnotherClass
<1>1. WireInv => NeverAnotherClass
  <2> SUFFICES ASSUME WireInv, NEW class \in Classes, NEW other \in Classes, class # other,
                      account[other].owner = "program"
               PROVE  Fetch(class, ClientLayout[class], account[other]).kind = "throws"
    BY DEF NeverAnotherClass
  <2> DEFINE info == account[other]
             layout == ClientLayout[class]
  <2>0. NoAccount.owner # "program" /\ Funded.owner # "program"
    BY DEF NoAccount, Funded
  <2>1. Says(other, info, meant[other])
    BY <2>0 DEF WireInv, Holds
  <2>2. Slice(info.data, 1, DiscriminatorSize) = Discriminator(other)
    BY <2>1, AccountReads DEF Says
  <2>3. Discriminator(other) # Discriminator(class)
    BY DiscriminatorType
  <2>4. DecodeAccount(class, layout, info.data) = Outcome("throws", <<>>)
    BY <2>2, <2>3 DEF DecodeAccount
  <2>5. info # NoAccount
    BY <2>0
  <2>6. Fetch(class, layout, info) = Outcome("throws", <<>>)
    BY <2>4, <2>5 DEF Fetch
  <2>7. Outcome("throws", <<>>).kind = "throws"
    BY DEF Outcome
  <2> QED
    BY <2>6, <2>7
<1> QED
  BY <1>1, WireInvariant, PTL

\* Any text Proposal::valid accepts fits into any proposal there is, since
\* a proposal keeps the size it was made with (states.rs: Proposal's
\* max_len of 256, valid's limit of 255).
THEOREM TextsFit == WireSpec => []SpaceSuffices
<1>1. WireInv => SpaceSuffices
  <2> SUFFICES ASSUME WireInv, account["proposal"].owner = "program",
                      NEW size \in UriSizes, UriValid(size)
               PROVE  Fits(account["proposal"].data, "proposal",
                           [meant["proposal"] EXCEPT !["uri"] = Text(calls, size)])
    BY DEF SpaceSuffices
  <2> DEFINE layout == ProgramLayout["proposal"]
             data == account["proposal"].data
             old == meant["proposal"]
             text == Text(calls, size)
             new == [old EXCEPT !["uri"] = text]
  <2>1. "proposal" \in Classes /\ "uri" \in NamesIn(layout) /\ WellFormed(layout)
    <3>1. "proposal" \in Classes
      BY DEF Classes
    <3> QED
      BY <3>1, ClassNames, LayoutsListed
  <2>2. Says("proposal", account["proposal"], old)
    <3>1. NoAccount.owner # "program" /\ Funded.owner # "program"
      BY DEF NoAccount, Funded
    <3> QED
      BY <2>1, <3>1 DEF WireInv, Holds
  <2>3. Len(data) = Space("proposal") /\ old \in [NamesIn(layout) -> AnyValue]
        /\ Storable(layout, old)
    BY <2>2 DEF Says, Storable
  <2>4. Readable(text, "str") /\ text.size = size /\ size \in Nat
    BY WireAssumption, TextType DEF WireInv
  <2>5. text.size <= MaxUri /\ MaxUri \in Nat
    BY <2>4 DEF UriValid, MaxUri
  <2> HIDE DEF layout, data, old, text
  <2>6. Storable(layout, new)
    <3>1. text \in AnyValue
      BY <2>4 DEF Readable
    <3>2. new \in [NamesIn(layout) -> AnyValue] /\ new["uri"] = text
      BY <2>1, <2>3, <3>1
    <3> QED
      BY <2>4, <3>2 DEF Storable
  <2>7. new["uri"] = text
    BY <2>1, <2>3
  <2> HIDE DEF new
  <2>8. Len(Encode(layout, new)) <= SpaceOf(layout, MaxUri)
    <3>1. Covers(new, layout)
      BY <2>6 DEF Storable, Covers
    <3> QED
      BY <2>1, <2>5, <2>7, <3>1, SpaceType
  <2>9. Len(Opening("proposal", new)) = 8 + Len(Encode(layout, new))
        /\ Encode(layout, new) \in Seq(AnyByte)
    BY <2>1, <2>6, OpeningType DEF layout
  <2>10. Space("proposal") = 8 + SpaceOf(layout, MaxUri) /\ SpaceOf(layout, MaxUri) \in Nat
    BY <2>1, <2>5, SpaceType DEF Space, DiscriminatorSize, layout
  <2>11. Len(Opening("proposal", new)) <= Len(data)
    <3> DEFINE a == Len(Encode(layout, new))
               b == SpaceOf(layout, MaxUri)
    <3>1. a \in Nat /\ b \in Nat /\ a <= b
      BY <2>8, <2>9, <2>10, LenProperties
    <3>2. Len(Opening("proposal", new)) = 8 + a /\ Len(data) = 8 + b
      BY <2>3, <2>9, <2>10
    <3> HIDE DEF a, b
    <3> QED
      BY <3>1, <3>2
  <2>12. Fits(data, "proposal", new)
    BY <2>11 DEF Fits, Opening
  <2> QED
    BY <2>12 DEF data, new, old, text
<1> QED
  BY <1>1, WireInvariant, PTL
=============================================================================
