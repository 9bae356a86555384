-------------------------------- MODULE Borsh --------------------------------
(***************************************************************************)
(* Borsh encoding by a layout: the fields one after the other, each in the *)
(* bytes of its type, a string behind its length.  A value is known by the *)
(* field it was made for and the call that made it, and a byte by the      *)
(* value, the type and the place in it that it comes from, so that         *)
(* whatever is read from other bytes than it was written to is seen to be  *)
(* Garbage.  Zero is the value of bytes nobody has written.                *)
(***************************************************************************)
EXTENDS Integers, SequencesExt

Width ==
    [type \in {"publicKey", "i64", "u64", "u32", "u16", "u8", "bool", "[u64; 6]",
               "[u8; 32]", "[u8; 232]", "[u8; 240]"} |->
        CASE type \in {"u8", "bool"} -> 1
          [] type = "u16" -> 2
          [] type = "u32" -> 4
          [] type \in {"u64", "i64"} -> 8
          [] type \in {"publicKey", "[u8; 32]"} -> 32
          [] type = "[u64; 6]" -> 48
          [] type = "[u8; 232]" -> 232
          [] type = "[u8; 240]" -> 240]

\* [size] is the length of a string, and 0 for every other value.
Value(field, call, size) == [of |-> field, call |-> call, size |-> size]
Zero == Value("zero", 0, 0)
Garbage == Value("garbage", 0, 0)

Byte(value, type, at) == [of |-> value, type |-> type, at |-> at]
ZeroByte == Byte(Zero, "u8", 1)
Zeros(n) == [i \in 1 .. n |-> ZeroByte]

FixedBytes(value, type, n) ==
    IF value = Zero THEN Zeros(n) ELSE [i \in 1 .. n |-> Byte(value, type, i)]

LengthOf(size) == IF size = 0 THEN Zero ELSE Value("length", size, 0)

Bytes(value, type) ==
    IF type = "str"
    THEN FixedBytes(LengthOf(value.size), "u32", Width["u32"])
           \o FixedBytes(value, "str", value.size)
    ELSE FixedBytes(value, type, Width[type])

\* The bytes of a struct, given as a function from field names to values.
Encode(layout, struct) ==
    FlattenSeq([i \in DOMAIN layout |-> Bytes(struct[layout[i][1]], layout[i][2])])

\* At most n bytes from a position on.
Slice(data, at, n) ==
    SubSeq(data, at, IF at + n - 1 < Len(data) THEN at + n - 1 ELSE Len(data))

\* The value of n bytes, if they are one value of that type and nothing else.
FixedValue(bytes, type, n) ==
    IF Len(bytes) < n THEN Garbage
    ELSE IF bytes = Zeros(n) THEN Zero
    ELSE IF bytes = FixedBytes(bytes[1].of, type, n) THEN bytes[1].of
    ELSE Garbage

(***************************************************************************)
(* One field read at a position: the value, and where the next field is.   *)
(***************************************************************************)
ReadField(data, at, type) ==
    IF type = "str"
    THEN LET length == FixedValue(Slice(data, at, Width["u32"]), "u32", Width["u32"])
             size == length.call
             text == at + Width["u32"]
         IN  IF length = LengthOf(size)
             THEN [value |-> FixedValue(Slice(data, text, size), "str", size),
                   next |-> text + size]
             ELSE [value |-> Garbage, next |-> Len(data) + 1]
    ELSE [value |-> FixedValue(Slice(data, at, Width[type]), type, Width[type]),
          next |-> at + Width[type]]

NamesIn(layout) == {layout[i][1] : i \in DOMAIN layout}

\* The struct at the front of the data, whatever follows it: the values of the
\* first n fields, and where the next one begins.
Decode(layout, data) ==
    LET read[n \in 0 .. Len(layout)] ==
            IF n = 0 THEN [next |-> 1, values |-> <<>>]
            ELSE LET before == read[n - 1]
                     one == ReadField(data, before.next, layout[n][2])
                 IN  [next |-> one.next, values |-> Append(before.values, one.value)]
        values == read[Len(layout)].values
    IN  [name \in NamesIn(layout) |->
            values[CHOOSE i \in DOMAIN layout : layout[i][1] = name]]

\* What a struct takes when every string is as long as its largest.
SpaceOf(layout, longest) ==
    SumFunction([i \in DOMAIN layout |->
        IF layout[i][2] = "str" THEN Width["u32"] + longest ELSE Width[layout[i][2]]])

=============================================================================
