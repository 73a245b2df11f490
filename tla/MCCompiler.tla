----------------------------- MODULE MCCompiler -----------------------------
(* Constants for checking Compiler with TLC. *)
EXTENDS Compiler

Bool == <<"basic", "bool">>
BasicUint64 == <<"basic", "uint64">>
ByteSlice == <<"slice", <<"basic", "byte">> >>
Slice(t) == <<"slice", t>>
Inner == <<"ptr", "inner">>

Types ==
    {Bool, <<"basic", "byte">>, BasicUint64, <<"basic", "int32">>,
     ByteSlice, Slice(ByteSlice), Slice(Slice(ByteSlice)),
     Slice(Slice(Slice(ByteSlice))), Slice(Bool), Inner, Slice(Inner),
     <<"map", <<"basic", "string">>, ByteSlice>>, <<"map", BasicUint64, Inner>>,
     <<"map", BasicUint64, ByteSlice>>}

InnerStructs ==
    LET st == Struct("inner", <<Field("a1", BasicUint64)>>)
    IN  {st, [st EXCEPT !.enc = FALSE], [st EXCEPT !.dec = FALSE]}

\* All structs of one or two fields, before them the one that they may point to.
MCFiles ==
    {<<inner, Struct("outer", <<Field("a1", t)>>)>> : inner \in InnerStructs, t \in Types}
    \cup {<<inner, Struct("outer", <<Field("a1", t), Field("a2", u)>>)>> :
            inner \in InnerStructs, t, u \in Types}
    \cup {<<Struct("outer", <<Field("a1", t), Field("a2", u)>>)>> :
            t, u \in {Bool, BasicUint64, ByteSlice}}

\* serde/testdata: const and types.
ConstField(name, type, const) == [Field(name, type) EXCEPT !.const = const]
MCGolden ==
    {<<Struct("args", <<ConstField("a1", Bool, "true"), ConstField("a2", <<"basic", "byte">>, "3"),
                        ConstField("a3", BasicUint64, "3")>>)>>,
     <<Struct("args", <<Field("a1", Bool), Field("a2", <<"basic", "byte">>),
                        Field("a3", BasicUint64), Field("a4", ByteSlice),
                        Field("a5", Slice(ByteSlice)), Field("a6", Slice(Slice(ByteSlice)))>>)>>}

MCData == {<<>>, <<2, 1>>}
=============================================================================
