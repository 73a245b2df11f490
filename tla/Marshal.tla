------------------------------- MODULE Marshal -------------------------------
(***************************************************************************)
(* Readers and writers of byte strings (marshalutil, with what it uses of  *)
(* the marshal library).  Integers have IntLen bytes, the lowest first,    *)
(* and a byte is a digit to base Base.  A reader returns what it read and  *)
(* the bytes that are left, or an error when there are too few.            *)
(***************************************************************************)
EXTENDS Integers, SequencesExt

CONSTANTS
    Base,       \* 256 in the code
    IntLen      \* 8 in the code

ASSUME WidthAssumption == Base \in Nat \ {0, 1} /\ IntLen \in Nat \ {0}

Byte == 0..(Base - 1)
Bytes == Seq(Byte)

\* A number without its lowest i bytes.
Shifted(data) ==
    LET shifted[i \in 0..IntLen] == IF i = 0 THEN data ELSE shifted[i - 1] \div Base
    IN  shifted

\* The types uint64 and []byte: no length exceeds an integer.
Uint64 == {n \in Nat : Shifted(n)[IntLen] = 0}
Slbyte == {s \in Bytes : Len(s) \in Uint64}

-----------------------------------------------------------------------------
(* Writers. *)

WriteByte(data) == <<data>>
WriteBool(data) == IF data THEN <<1>> ELSE <<0>>
WriteInt(data) == [i \in 1..IntLen |-> Shifted(data)[i - 1] % Base]
WriteSlice1D(data) == WriteInt(Len(data)) \o data

\* Slices of elements that are written already: WriteSlice2D, WriteSlice3D and
\* the encoders of slices of messages.
WriteSlices(elems) == WriteInt(Len(elems)) \o FlattenSeq(elems)

WriteSlice2D(data) == WriteSlices([i \in DOMAIN data |-> WriteSlice1D(data[i])])
WriteSlice3D(data) == WriteSlices([i \in DOMAIN data |-> WriteSlice2D(data[i])])

-----------------------------------------------------------------------------
(* Readers. *)

Failed == [err |-> TRUE]
Ok(val, rest) == [err |-> FALSE, val |-> val, rest |-> rest]

ReadBytes(b, length) ==
    IF Len(b) < length
    THEN Failed
    ELSE Ok(SubSeq(b, 1, length), SubSeq(b, length + 1, Len(b)))

ReadByte(b) == IF Len(b) < 1 THEN Failed ELSE Ok(b[1], Tail(b))

\* Any byte but 0 is TRUE.
ReadBool(b) == IF Len(b) < 1 THEN Failed ELSE Ok(b[1] # 0, Tail(b))

\* Seeded fault: the value is taken from the low byte alone.
ReadLowByte(b) ==
    IF Len(b) < IntLen THEN Failed ELSE Ok(b[1], SubSeq(b, IntLen + 1, Len(b)))

\* The number with these bytes, from the highest down.
Value(digits) ==
    LET value[i \in 0..IntLen] ==
            IF i = 0 THEN 0 ELSE digits[IntLen - i + 1] + Base * value[i - 1]
    IN  value[IntLen]

ReadInt(b) ==
    IF Len(b) < IntLen
    THEN Failed
    ELSE Ok(Value(SubSeq(b, 1, IntLen)), SubSeq(b, IntLen + 1, Len(b)))

\* Seeded fault: what is there is read, also when it is less than the length.
ReadSliceShort(b) ==
    LET length == ReadInt(b)
        left == Len(length.rest)
    IN  IF length.err THEN Failed
        ELSE ReadBytes(length.rest, IF left < length.val THEN left ELSE length.val)

ReadSlice1D(b) ==
    LET length == ReadInt(b)
    IN  IF length.err THEN Failed ELSE ReadBytes(length.rest, length.val)

\* What readers read one after the other, up to the first that fails: the
\* statements of a generated decoder, the loops over slices.  A reader is a
\* function of the bytes.
ReadParts(readers, b) ==
    LET read[i \in 0..Len(readers)] ==
            IF i = 0 THEN Ok(<<>>, b)
            ELSE IF read[i - 1].err THEN Failed
            ELSE LET r == readers[i][read[i - 1].rest]
                 IN  IF r.err THEN Failed ELSE Ok(Append(read[i - 1].val, r.val), r.rest)
    IN  read[Len(readers)]

\* As many elements as the first integer says; ReadSlice2D goes on after an
\* error, but then returns it.
ReadSlices(reader, b) ==
    LET length == ReadInt(b)
    IN  IF length.err THEN Failed
        ELSE ReadParts([i \in 1..length.val |-> reader], length.rest)

ReadSlice2D(b) == ReadSlices([b1 \in Bytes |-> ReadSlice1D(b1)], b)
ReadSlice3D(b) == ReadSlices([b1 \in Bytes |-> ReadSlice2D(b1)], b)
=============================================================================
