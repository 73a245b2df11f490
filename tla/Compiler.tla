------------------------------ MODULE Compiler ------------------------------
(***************************************************************************)
(* The serialisation compiler (serde/compiler.go): from the structs of a   *)
(* file it generates, for each, an encoder and a decoder.  Generated code  *)
(* is built, when Go accepts it, and run here statement by statement: an   *)
(* object is encoded, its bytes may be cut or extended, and are decoded.   *)
(*                                                                         *)
(* A type is a tuple: <<"basic", kind>>, <<"slice", elem>>,                *)
(* <<"ptr", struct name>> or <<"map", key, elem>>; names that are given to *)
(* types other than structs are looked through (Underlying).  A function   *)
(* is its package and its name.                                            *)
(***************************************************************************)
EXTENDS Marshal, TLC

CONSTANTS
    Files,      \* sequences of structs; objects of the last one are encoded
    NoConst,    \* a field without the comment "serde: invariant: const"
    Ints,       \* values of fields
    Data

VARIABLES
    file,       \* the structs compiled
    obj,        \* an object of the last, once it is encoded
    stage,
    b,          \* the variable b of the encoder
    bs,         \* the variables b0, b1, ... of the decoder
    as          \* its variables a1, a2, ...

compilerVars == <<file, obj, stage, b, bs, as>>

Field(name, type) == [name |-> name, type |-> type, const |-> NoConst]

\* enc and dec: shouldGen, FALSE for a struct with the comment that says so.
Struct(name, fields) == [name |-> name, fields |-> fields, enc |-> TRUE, dec |-> TRUE]

Outer == file[Len(file)]

-----------------------------------------------------------------------------
(* Names of the functions that generated code calls. *)

Panic == <<"log", "Panic">>

\* What marshalutil and marshal have for the basic types.
BasicWriter ==
    [bool |-> <<"marshal", "WriteBool">>, byte |-> <<"marshalutil", "WriteByte">>,
     uint64 |-> <<"marshal", "WriteInt">>]
BasicReader == [bool |-> "Bool", byte |-> "Byte", uint64 |-> "Int"]

\* A name for any type.
RECURSIVE CanonTyName(_)
CanonTyName(t) ==
    CASE t[1] \in {"basic", "ptr"} -> t[2]
      [] t[1] = "slice" -> "Sl" \o CanonTyName(t[2])
      [] t[1] = "map"   -> "Map" \o CanonTyName(t[2]) \o CanonTyName(t[3])

\* genSliceEnc and genSliceDec; verb is Write or Read, suffix Encode or Decode.
RECURSIVE SliceFun(_, _, _, _)
SliceFun(t, depth, verb, suffix) ==
    LET elem == t[2] IN
    CASE depth > 3         -> Panic
      [] elem[1] = "slice" /\ depth <= 3 -> SliceFun(elem, depth + 1, verb, suffix)
      [] elem[1] = "basic" /\ depth <= 3 ->
            IF elem[2] = "byte"
            THEN <<"marshalutil", verb \o "Slice" \o ToString(depth) \o "D">>
            ELSE Panic
      [] elem[1] = "ptr" /\ depth <= 3 ->
            <<"", elem[2] \o "Slice" \o ToString(depth) \o "D" \o suffix>>
      [] elem[1] = "map" /\ depth <= 3 -> Panic

\* The function for a field that is not basic.
OtherFun(t, verb, suffix) ==
    CASE t[1] = "slice" -> SliceFun(t, 1, verb, suffix)
      [] t[1] = "ptr"   -> <<"", t[2] \o suffix>>
      [] t[1] = "map"   -> <<"", CanonTyName(t) \o suffix>>

OtherEnc(t) == OtherFun(t, "Write", "Encode")
OtherDec(t) == OtherFun(t, "Read", "Decode")

-----------------------------------------------------------------------------
(* genEncode: b = fun(b, val) for each field, where val is o.field or a      *)
(* constant.  The comment is looked for at fields of basic types only.       *)

FieldEnc(f) ==
    IF f.type[1] # "basic"
    THEN [fun |-> OtherEnc(f.type), const |-> NoConst, field |-> f.name]
    ELSE [fun |-> IF f.type[2] \in DOMAIN BasicWriter THEN BasicWriter[f.type[2]] ELSE Panic,
          const |-> f.const, field |-> f.name]

GenEncode(st) == [i \in DOMAIN st.fields |-> FieldEnc(st.fields[i])]

\* Seeded fault: every field is read from the start of the bytes.
OldBZero(fieldNum) == 0

OldB(fieldNum) == fieldNum

\* genDecode: a, b, err := fun(oldB), or fun(oldB, constant), for each field; then
\* the caller gets an error when err is set.  fieldNum counts from 0.
FieldDec(f, fieldNum) ==
    IF f.type[1] # "basic"
    THEN [fun |-> OtherDec(f.type), oldB |-> OldB(fieldNum),
          const |-> NoConst, lhs |-> 3]
    ELSE [fun |-> IF f.type[2] \notin DOMAIN BasicReader THEN Panic
                  ELSE <<"marshalutil",
                         IF f.const = NoConst THEN "Read" \o BasicReader[f.type[2]]
                         ELSE "ReadConst" \o BasicReader[f.type[2]]>>,
          oldB |-> OldB(fieldNum), const |-> f.const, lhs |-> 3]

GenDecode(st) == [i \in DOMAIN st.fields |-> FieldDec(st.fields[i], i - 1)]

-----------------------------------------------------------------------------
(* compile, and what Go makes of the result. *)

Stmts ==
    UNION {(IF file[i].enc THEN ToSet(GenEncode(file[i])) ELSE {})
           \cup (IF file[i].dec THEN ToSet(GenDecode(file[i])) ELSE {}) : i \in DOMAIN file}

Panics == \E stmt \in Stmts : stmt.fun = Panic

\* Functions of the package: those generated, and those written by hand for
\* slices of pointers and for maps from strings to bytes (kt/serde_misc.go).
ByHand ==
    {"MapstringSlbyteEncode", "MapstringSlbyteDecode"}
    \cup {file[i].name \o "Slice1DEncode" : i \in DOMAIN file}
    \cup {file[i].name \o "Slice1DDecode" : i \in DOMAIN file}
Generated ==
    {file[i].name \o "Encode" : i \in {j \in DOMAIN file : file[j].enc}}
    \cup {file[i].name \o "Decode" : i \in {j \in DOMAIN file : file[j].dec}}

\* ReadConstBool, ReadConstInt and ReadConstByte return the bytes left and an
\* error, the other readers a value as well.
NumResults(stmt) ==
    IF stmt.fun \in {<<"marshalutil", "ReadConst" \o kind>> : kind \in {"Bool", "Int", "Byte"}}
    THEN 2 ELSE 3

\* Go wants every function defined, as many variables as results, and both
\* packages of the fixed header used.
Builds ==
    /\ \A stmt \in Stmts : stmt.fun[1] = "" => stmt.fun[2] \in ByHand \cup Generated
    /\ \A stmt \in Stmts : "lhs" \in DOMAIN stmt => stmt.lhs = NumResults(stmt)
    /\ {"marshalutil", "marshal"} \subseteq {stmt.fun[1] : stmt \in Stmts}

-----------------------------------------------------------------------------
(* Running the functions.  No constant is run: its decoder does not build. *)

StructOf(name, suffix) == CHOOSE i \in DOMAIN file : file[i].name \o suffix = name
IsOf(name, suffix) == \E i \in DOMAIN file : file[i].name \o suffix = name

RECURSIVE Write(_, _)
Write(name, val) ==
    LET encode(st, o) ==
            FlattenSeq([i \in DOMAIN st.fields |->
                            Write(FieldEnc(st.fields[i]).fun[2], o[st.fields[i].name])])
        elem(o) == encode(file[StructOf(name, "Slice1DEncode")], o)
        entry(key) == WriteSlice1D(key) \o WriteSlice1D(val[key])
    IN
    CASE name = "WriteBool"    -> WriteBool(val)
      [] name = "WriteByte"    -> WriteByte(val)
      [] name = "WriteInt"     -> WriteInt(val)
      [] name = "WriteSlice1D" -> WriteSlice1D(val)
      [] name = "WriteSlice2D" -> WriteSlice2D(val)
      [] name = "WriteSlice3D" -> WriteSlice3D(val)
      [] name = "MapstringSlbyteEncode" ->
            LET keys == SetToSeq(DOMAIN val)
            IN  WriteSlices([i \in DOMAIN keys |-> entry(keys[i])])
      [] IsOf(name, "Slice1DEncode") -> WriteSlices([i \in DOMAIN val |-> elem(val[i])])
      [] IsOf(name, "Encode")  -> encode(file[StructOf(name, "Encode")], val)

RECURSIVE Read(_, _)
Read(name, rest) ==
    LET decode(st, b0) ==
            LET fields == st.fields
                run[i \in 0..Len(fields)] ==
                    IF i = 0 THEN Ok(<<>>, b0)
                    ELSE IF run[i - 1].err THEN Failed
                    ELSE LET r == Read(FieldDec(fields[i], i - 1).fun[2], run[i - 1].rest)
                         IN  IF r.err THEN Failed
                             ELSE Ok(run[i - 1].val @@ (fields[i].name :> r.val), r.rest)
            IN  run[Len(fields)]
        elem(b0) == decode(file[StructOf(name, "Slice1DDecode")], b0)
        entry(b0) ==
            LET key == ReadSlice1D(b0)
                val == ReadSlice1D(key.rest)
            IN  IF key.err \/ val.err THEN Failed ELSE Ok(<<key.val, val.val>>, val.rest)
        entries == ReadSlices([b0 \in Bytes |-> entry(b0)], rest)
        mapOf(s) == FoldLeft(LAMBDA m, e : (e[1] :> e[2]) @@ m, <<>>, s)
    IN
    CASE name = "ReadBool"    -> ReadBool(rest)
      [] name = "ReadByte"    -> ReadByte(rest)
      [] name = "ReadInt"     -> ReadInt(rest)
      [] name = "ReadSlice1D" -> ReadSlice1D(rest)
      [] name = "ReadSlice2D" -> ReadSlice2D(rest)
      [] name = "ReadSlice3D" -> ReadSlice3D(rest)
      [] name = "MapstringSlbyteDecode" ->
            IF entries.err THEN Failed ELSE Ok(mapOf(entries.val), entries.rest)
      [] IsOf(name, "Slice1DDecode") -> ReadSlices([b0 \in Bytes |-> elem(b0)], rest)
      [] IsOf(name, "Decode")  -> decode(file[StructOf(name, "Decode")], rest)

-----------------------------------------------------------------------------
\* Values of a type, with structs of file s.
RECURSIVE Samples(_, _)
Samples(s, t) ==
    LET struct(name) == s[CHOOSE i \in DOMAIN s : s[i].name = name]
        objects(st) ==
            FoldLeft(LAMBDA os, f :
                        {o @@ (f.name :> val) : o \in os, val \in Samples(s, f.type)},
                     {<<>>}, st.fields)
    IN
    CASE t = <<"basic", "bool">>   -> BOOLEAN
      [] t = <<"basic", "byte">>   -> {Base - 1}
      [] t = <<"basic", "uint64">> -> Ints
      [] t = <<"slice", <<"basic", "byte">> >> -> Data
      [] t[1] = "slice" /\ t[2] # <<"basic", "byte">> ->
            {<<>>} \cup {<<CHOOSE x \in Samples(s, t[2]) : TRUE, y>> : y \in Samples(s, t[2])}
      [] t[1] = "map" -> {<<>>} \cup [Data -> Data]
      [] t[1] = "ptr" -> objects(struct(t[2]))
      [] t[1] = "basic" -> {NoConst}

CompilerInit ==
    /\ file \in Files
    /\ obj = <<>>
    /\ stage = "compile"
    /\ b = <<>>
    /\ bs = <<>>
    /\ as = <<>>

Compile ==
    /\ stage = "compile"
    /\ stage' = IF Panics THEN "panic" ELSE IF Builds THEN "encode" ELSE "rejected"
    /\ UNCHANGED <<file, obj, b, bs, as>>

RunEncode ==
    /\ stage = "encode"
    /\ obj' \in Samples(file, <<"ptr", Outer.name>>)
    /\ b' = Write(Outer.name \o "Encode", obj')
    /\ stage' = "sent"
    /\ UNCHANGED <<file, bs, as>>

\* The bytes are cut, arrive, or are followed by others.
Deliver ==
    /\ stage = "sent"
    /\ \/ \E n \in 0..Len(b) : bs' = <<SubSeq(b, 1, n)>>
       \/ bs' = <<Append(b, 1)>>
    /\ stage' = "decode"
    /\ UNCHANGED <<file, obj, b, as>>

\* The two statements for a field.
DecodeField ==
    LET stmt == GenDecode(Outer)[Len(bs)]
        r == Read(stmt.fun[2], bs[stmt.oldB + 1])
    IN
    /\ stage = "decode"
    /\ Len(bs) <= Len(Outer.fields)
    /\ IF r.err
       THEN /\ stage' = "error"
            /\ UNCHANGED <<bs, as>>
       ELSE /\ bs' = Append(bs, r.rest)
            /\ as' = Append(as, r.val)
            /\ UNCHANGED stage
    /\ UNCHANGED <<file, obj, b>>

Return ==
    /\ stage = "decode"
    /\ Len(bs) = Len(Outer.fields) + 1
    /\ stage' = "done"
    /\ UNCHANGED <<file, obj, b, bs, as>>

CompilerNext == Compile \/ RunEncode \/ Deliver \/ DecodeField \/ Return

CompilerSpec == CompilerInit /\ [][CompilerNext]_compilerVars

-----------------------------------------------------------------------------
(* Properties. *)

\* The object that the decoder makes of its variables.
Result == [name \in DOMAIN obj |->
            as[CHOOSE i \in DOMAIN Outer.fields : Outer.fields[i].name = name]]

\* For every struct whose code is generated and builds, decoding what was
\* encoded gives the same object and leaves what follows alone; an encoding
\* that is cut anywhere gives an error, never an object.
GeneratedRoundTrip ==
    /\ stage = "error" => Len(bs[1]) < Len(b)
    /\ stage = "done" =>
        /\ Len(bs[1]) >= Len(b)
        /\ Result = obj
        /\ bs[Len(bs)] = SubSeq(bs[1], Len(b) + 1, Len(bs[1]))

\* The generated code builds, as the golden files of the compiler's test suppose.
GeneratedBuilds == stage # "rejected"
=============================================================================
