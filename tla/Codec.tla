------------------------------- MODULE Codec -------------------------------
(***************************************************************************)
(* Reflection: what a Writer makes of a value and what a Reader makes of   *)
(* the JSON, for every structure of the protocol and for the unions whose  *)
(* reader has to guess the alternative.                                    *)
(*                                                                         *)
(* A JSON value is a tuple <<kind, content>>; an object is a function from *)
(* its member names.  A C++ value is the tuple its type calls for: scalars *)
(* are held as their JSON, a structure as <<"struct", [member |-> value]>>.*)
(* Widths are scaled: IntBits stands for 32 bits, ByteBits for 8.          *)
(***************************************************************************)
EXTENDS ProtocolTypes, Integers, Sequences

CONSTANTS IntBits, ByteBits,   \* widths of int and of uint8_t
          MaxSet               \* members set one by one in a value

VARIABLE sent   \* <<type, value, members set so far>>; empty when nothing is sent

Null == <<"null">>
Unset == <<"unset">>
Throw == <<"throw">>           \* std::invalid_argument
Plain(s) == <<"str", s>>
Number(n) == <<"num", n>>
Is(json, kind) == json[1] = kind
HasMember(json, name) == Is(json, "obj") /\ name \in DOMAIN json[2]

Members(s) == DOMAIN Structs[s]
Lost(s) == IF s \in DOMAIN Unreflected THEN Unreflected[s] ELSE {}
Reflected(s) == Members(s) \ Lost(s)
IsOptional(type) == type[1] = "optional"

(* Two alternatives, and the reader that tells which one a JSON holds. *)
Alternatives ==
    [Hover |-> <<Vec(Or(Str, MarkedString)), The("MarkupContent")>>,
     WorkspaceEdit |-> <<The("lsTextDocumentEdit"), AnyJson>>,
     CodeAction |-> <<The("lsCommand"), The("CodeAction")>>,
     DocumentSymbol |-> <<The("lsSymbolInformation"), The("lsDocumentSymbol")>>,
     Completion |-> <<Vec(The("lsCompletionItem")), The("CompletionList")>>,
     PrepareRename |-> <<The("lsRange"), The("PrepareRenameResult")>>,
     LocationList |-> <<Vec(The("lsLocation")), Vec(The("LocationLink"))>>]

-----------------------------------------------------------------------------
(* Writing *)

\* ReflectMember of a Writer omits an optional that is not set.
Written(s, members) ==
    {m \in Reflected(s) : ~(IsOptional(Structs[s][m]) /\ members[m] = Unset)}

RECURSIVE Write(_, _)
WriteStruct(s, members) ==
    <<"obj", [m \in Written(s, members) |-> Write(Structs[s][m], members[m])]>>
WriteVector(type, items) == <<"arr", [i \in DOMAIN items |-> Write(type, items[i])]>>
WriteMap(type, entries) == <<"obj", [k \in DOMAIN entries |-> Write(type, entries[k])]>>
WriteMarked(v) ==
    IF v.language = Unset THEN v.value
    ELSE <<"obj", [language |-> v.language, value |-> v.value]>>
WriteEither(pair, v) == IF v[1] = "first" THEN Write(pair[1], v[2]) ELSE Write(pair[2], v[2])
Write(type, v) ==
    CASE type[1] = "optional" -> IF v = Unset THEN Null ELSE Write(type[2], v)
      [] type[1] = "vector" -> WriteVector(type[2], v[2])
      [] type[1] = "map" -> WriteMap(type[2], v[2])
      [] type[1] = "or" -> WriteEither(Tail(type), v)
      [] type[1] = "union" -> WriteEither(Alternatives[type[2]], v)
      [] type[1] = "struct" -> WriteStruct(type[2], v[2])
      [] type[1] = "marked" -> WriteMarked(v[2])
      [] type[1] = "any" -> v[2]
      [] OTHER -> v

-----------------------------------------------------------------------------
(* Reading *)

IsInt(json) == Is(json, "num") /\ json[2] \in -(2^(IntBits - 1)) .. 2^(IntBits - 1) - 1
IsUint64(json) == Is(json, "num") /\ json[2] >= 0

ReadInt(json) == IF IsInt(json) THEN json ELSE Throw
ReadByte(json) == IF IsInt(json) THEN Number(json[2] % 2^ByteBits) ELSE Throw
\* Fault: the check of a signed integer before an unsigned is read.
ReadUnsignedAsInt(json) == ReadInt(json)
ReadUnsigned(json) == IF IsUint64(json) THEN Number(json[2] % 2^IntBits) ELSE Throw
ReadDouble(json) == IF Is(json, "num") THEN json ELSE Throw
ReadBool(json) == IF Is(json, "bool") THEN json ELSE Throw
ReadString(json) == IF Is(json, "str") THEN json ELSE Throw
ReadId(json) == IF Is(json, "num") \/ Is(json, "str") THEN json ELSE Unset
ReadTrace(json) == IF Is(json, "str") THEN json ELSE Plain("off")
ReadDirection(json) ==
    IF ~Is(json, "str") \/ json = Plain("Children") THEN Plain("Both") ELSE json
ReadKeyData(json) ==
    CASE Is(json, "bool") \/ IsInt(json) \/ Is(json, "str") -> json
      [] Is(json, "num") -> Throw
      [] OTHER -> Unset

(* The reader of a union looks at the JSON for the mark of one alternative. *)
ReadsFirst(name, json) ==
    CASE name = "CodeAction" -> HasMember(json, "command") /\ Is(json[2].command, "str")
      [] name = "WorkspaceEdit" -> HasMember(json, "textDocument")
      [] name = "DocumentSymbol" -> HasMember(json, "location")
      [] name = "PrepareRename" -> ~HasMember(json, "placeholder")
      [] name = "Completion" -> Is(json, "arr")
      [] name = "Hover" -> ~Is(json, "obj")
      [] name = "LocationList" ->
            ~(Is(json, "arr") /\ json[2] # <<>> /\ HasMember(json[2][1], "originSelectionRange"))
\* A lone string in a hover, a lone Location in a list.
Listed(name, json) ==
    IF name \in {"Hover", "LocationList"} /\ ~Is(json, "arr") THEN <<"arr", <<json>>>> ELSE json

Reads(first, json) ==
    CASE first = Bool -> Is(json, "bool")
      [] first = Str -> Is(json, "str")
      [] OTHER -> ~Is(json, "obj")

RECURSIVE Read(_, _), Default(_)
ReadOptional(type, json) == IF json = Null THEN Unset ELSE Read(type, json)
Initial(s, m) ==
    IF s \in DOMAIN Initialized /\ m \in Initialized[s] THEN <<"bool", FALSE>> ELSE Default(Structs[s][m])
\* DoMember leaves a member alone that the JSON does not have.
ReadStruct(s, json) ==
    <<"struct", [m \in Members(s) |->
        IF m \in Reflected(s) /\ HasMember(json, m) THEN Read(Structs[s][m], json[2][m])
        ELSE Initial(s, m)]>>
ReadVector(type, json) ==
    IF Is(json, "arr") THEN <<"vector", [i \in DOMAIN json[2] |-> Read(type, json[2][i])]>> ELSE Throw
ReadMap(type, json) == <<"map", [k \in DOMAIN json[2] |-> Read(type, json[2][k])]>>
ReadMarked(json) ==
    <<"marked", [language |-> IF HasMember(json, "language") THEN json[2].language ELSE Unset,
                 value |-> IF HasMember(json, "value") THEN json[2].value ELSE Plain("")]>>
ReadOr(pair, json) ==
    IF Reads(pair[1], json) THEN <<"first", Read(pair[1], json)>> ELSE <<"second", Read(pair[2], json)>>
ReadUnion(name, json) ==
    IF ReadsFirst(name, json) THEN <<"first", Read(Alternatives[name][1], Listed(name, json))>>
    ELSE <<"second", Read(Alternatives[name][2], json)>>
Read(type, json) ==
    CASE type[1] = "optional" -> ReadOptional(type[2], json)
      [] type[1] = "vector" -> ReadVector(type[2], json)
      [] type[1] = "map" -> ReadMap(type[2], json)
      [] type[1] = "or" -> ReadOr(Tail(type), json)
      [] type[1] = "union" -> ReadUnion(type[2], json)
      [] type[1] = "struct" -> ReadStruct(type[2], json)
      [] type[1] = "marked" -> ReadMarked(json)
      [] type[1] = "any" -> <<"any", json>>
      [] type = Signed -> ReadInt(json)
      [] type = Octet -> ReadByte(json)
      [] type = Unsigned -> ReadUnsigned(json)
      [] type = Double -> ReadDouble(json)
      [] type = Bool -> ReadBool(json)
      [] type = Str -> ReadString(json)
      [] type = Id -> ReadId(json)
      [] type = Trace -> ReadTrace(json)
      [] type = Direction -> ReadDirection(json)
      [] type = KeyData -> ReadKeyData(json)

\* A value as its constructor leaves it.
Default(type) ==
    CASE type[1] \in {"optional", "id", "keyData"} -> Unset
      [] type[1] \in {"vector", "map"} -> <<type[1], <<>>>>
      [] type[1] = "struct" -> <<"struct", [m \in Members(type[2]) |-> Initial(type[2], m)]>>
      [] type[1] = "bool" -> <<"bool", FALSE>>
      [] type[1] \in {"int", "byte", "unsigned", "double"} -> Number(0)
      [] OTHER -> Plain("")

(* lsp::Any: what a resource operation of a workspace edit is taken for. *)
ResourceOperations == [create |-> "lsCreateFile", rename |-> "lsRenameFile", delete |-> "lsDeleteFile"]
GetResourceOperation(any) ==
    LET kind == any[2][2].kind[2]
    IN  IF kind \in DOMAIN ResourceOperations
        THEN Read(The(ResourceOperations[kind]), any[2])
        ELSE Null

-----------------------------------------------------------------------------
(* Values an application may send *)

RECURSIVE Some(_, _)
Filled(s, depth) ==
    <<"struct", [m \in Members(s) |->
        IF m \in Lost(s) \/ (depth = 0 /\ IsOptional(Structs[s][m])) THEN Initial(s, m)
        ELSE Some(Structs[s][m], depth)]>>
\* One value of a type, with its optional members set down to a depth.
Some(type, depth) ==
    CASE type[1] = "optional" -> Some(type[2], depth)
      [] type[1] = "vector" -> <<"vector", IF depth = 0 THEN <<>> ELSE <<Some(type[2], depth - 1)>>>>
      [] type[1] = "map" -> <<"map", [k |-> Some(type[2], depth)]>>
      [] type[1] = "or" -> <<"second", Some(type[3], depth)>>
      [] type[1] = "union" -> <<"first", Some(Alternatives[type[2]][1], depth)>>
      [] type[1] = "struct" -> Filled(type[2], IF depth = 0 THEN 0 ELSE depth - 1)
      [] type[1] = "marked" -> <<"marked", [language |-> Plain("tla"), value |-> Plain("x")]>>
      [] type[1] = "any" -> <<"any", <<"obj", [kind |-> Plain("create")]>>>>
      [] type[1] \in {"bool", "keyData"} -> <<"bool", TRUE>>
      [] type[1] \in {"int", "byte", "unsigned", "double"} -> Number(1)
      [] type = Trace -> Plain("verbose")
      [] type = Direction -> Plain("Parents")
      [] OTHER -> Plain("x")

RECURSIVE Samples(_)
Samples(type) ==
    CASE type[1] = "optional" -> {Unset} \cup Samples(type[2])
      [] type[1] = "vector" -> {<<"vector", <<>>>>} \cup {<<"vector", <<v, Some(type[2], 0)>>>> : v \in Samples(type[2])}
      [] type[1] = "or" -> ({"first"} \X Samples(type[2])) \cup ({"second"} \X Samples(type[3]))
      [] type[1] = "union" -> ({"first"} \X Samples(Alternatives[type[2]][1]))
                                \cup ({"second"} \X Samples(Alternatives[type[2]][2]))
      [] type[1] = "struct" -> {Some(type, 0), Some(type, 2)}
      [] type[1] = "marked" -> {<<"marked", [language |-> l, value |-> Plain("x")]>> : l \in {Unset, Plain("tla")}}
      [] type[1] = "any" -> {Some(type, 0), <<"any", <<"arr", <<Null>>>>>>}
      [] type = Bool -> {<<"bool", FALSE>>, <<"bool", TRUE>>}
      [] type = Signed -> {Number(-(2^(IntBits - 1))), Number(2^(IntBits - 1) - 1)}
      [] type = Unsigned -> {Number(2^IntBits - 1)}
      [] type = Octet -> {Number(2^ByteBits - 1)}
      [] type = Id -> {Number(2^IntBits), Plain("")}
      [] type = KeyData -> {<<"bool", FALSE>>, Number(-1), Plain("")}
      [] type = Trace -> {Plain("off"), Plain("messages")}
      [] type = Direction -> {Plain("Children"), Plain("Parents"), Plain("Both")}
      [] OTHER -> {Some(type, 1)}

\* The structures, and the results of requests whose answer is a union.
CodecInit ==
    \/ \E s \in DOMAIN Structs : sent = <<The(s), Filled(s, 0), 0>>
    \/ \E u \in DOMAIN Alternatives : \E v \in Samples(Union(u)) : sent = <<Union(u), v, MaxSet>>

\* The application sets a member of the value it is about to send.
SetMember ==
    /\ sent[3] < MaxSet
    /\ LET s == sent[1][2] IN
       \E m \in Members(s) : \E v \in Samples(Structs[s][m]) :
          sent' = <<sent[1], <<"struct", [sent[2][2] EXCEPT ![m] = v]>>, sent[3] + 1>>

CodecNext == SetMember

-----------------------------------------------------------------------------
(* Values that the readers are known to take for another one: a direction
   "Children", links without an origin, a marked string without a language. *)
Misread(type, v) ==
    \/ type \in {Direction, Opt(Direction)} /\ v = Plain("Children")
    \/ type = Union("LocationList") /\ v[1] = "second"
         /\ (v[2][2] # <<>> => v[2][2][1][2].originSelectionRange = Unset)
    \/ type = Union("Hover") /\ v[1] = "first"
         /\ \E i \in DOMAIN v[2][2] : v[2][2][i][1] = "second" /\ v[2][2][i][2][2].language = Unset

(* A resource operation put into a workspace edit is read as opaque JSON and
   then as the same operation. *)
OperationsArrive ==
    \A k \in DOMAIN ResourceOperations :
        LET s == ResourceOperations[k]
            v == <<"struct", [Filled(s, 2)[2] EXCEPT !.kind = Plain(k)]>>
            edit == Union("WorkspaceEdit")
            change == Read(edit, Write(edit, <<"second", <<"any", Write(The(s), v)>>>>))
        IN  change[1] = "second" /\ GetResourceOperation(change[2]) = v

(* What one side sets is what the other side sees: every member of every
   structure of the protocol comes back from its JSON with the value it was
   given, at the limits of the integer types too, and a union is read as the
   alternative that was sent.  Exceptions are the members no macro reflects
   and the values in Misread; an optional with an initial value comes back
   with that value when it was reset.  A resource operation of a workspace
   edit comes back as the same operation. *)
MembersArrive ==
    sent # <<>> => OperationsArrive /\
    LET type == sent[1]
        value == sent[2]
        got == Read(type, Write(type, value))
        s == type[2]
    IN  IF type[1] = "union" THEN Misread(type, value) \/ got = value
        ELSE \A m \in Reflected(s) :
                \/ got[2][m] = value[2][m]
                \/ Misread(Structs[s][m], value[2][m])
                \/ value[2][m] = Unset /\ got[2][m] = Initial(s, m)
=============================================================================
