-------------------------------- MODULE Wire --------------------------------
(***************************************************************************)
(* The messages of the .proto files and what the classes protoc generated  *)
(* for them (src/protobuf/*.pb.h, *.pb.cc) do with them: the accessors,    *)
(* Clear, ByteSizeLong, SerializeWithCachedSizes, the parser, MergeFrom    *)
(* and IsInitialized.  The generated classes differ in their fields only,  *)
(* so each class is its schema here, and each member function is one       *)
(* operator over a schema.                                                 *)
(*                                                                         *)
(* A message is a record: the name of its type, for every field number the *)
(* sequence of its values (empty when the has-bit is clear, one value when *)
(* it is set, any number for a repeated field), and the bytes of the       *)
(* fields the parser did not know.  Bytes are the numbers 0..255.          *)
(*                                                                         *)
(* Integers are natural numbers below 2^31: a negative int64, which takes  *)
(* ten bytes, and groups, which no message here has, are left out.         *)
(***************************************************************************)
EXTENDS Integers, Sequences, SequencesExt, TLC

(***************************************************************************)
(* Schemas: the position in the sequence is the field number.              *)
(***************************************************************************)
Required(type) == [label |-> "required", type |-> type, enum |-> {}]
Optional(type) == [label |-> "optional", type |-> type, enum |-> {}]
Repeated(type) == [label |-> "repeated", type |-> type, enum |-> {}]
RequiredEnum(values) == [label |-> "required", type |-> "enum", enum |-> values]
OptionalEnum(values) == [label |-> "optional", type |-> "enum", enum |-> values]

MessageType == 1 .. 3     \* REQUEST, RESPONSE, ERROR
ErrorCode   == 0 .. 6     \* NO_ERROR .. TIMEOUT

RpcMessage == <<RequiredEnum(MessageType), Required("fixed64"),
                Optional("string"), Optional("string"), Optional("bytes"),
                Optional("bytes"), OptionalEnum(ErrorCode)>>

QueryResponse   == <<Required("int64"), Optional("int64"),
                     Optional("int64"), Optional("int64")>>
SearchRequest   == <<Required("int64")>>
SearchResponse  == <<Required("int64"), Required("int64")>>
GenerateRequest == <<Required("int64"), Required("int64"), Required("int64")>>
MedianEmpty     == << >>

Query      == <<Required("int64"), Required("string"), Repeated("string")>>
Answer     == <<Required("int64"), Required("string"), Required("string"),
                Repeated("string")>>
QueryEmpty == <<Optional("int32")>>

SudokuRequest  == <<Required("string")>>
SudokuResponse == <<Optional("bool"), Optional("string")>>

ListRpcRequest     == <<Optional("string"), Optional("bool")>>
ListRpcResponse    == <<RequiredEnum(ErrorCode), Repeated("string"),
                        Repeated("string")>>
GetServiceRequest  == <<Required("string")>>
GetServiceResponse == <<RequiredEnum(ErrorCode), Repeated("string"),
                        Repeated("string")>>

(***************************************************************************)
(* What the descriptor table of each file registers in the generated pool, *)
(* by the names of the types; the two types called Empty are told apart    *)
(* by their packages.                                                      *)
(***************************************************************************)
RpcTypes        == [RpcMessage |-> RpcMessage]
MedianTypes     == [QueryResponse |-> QueryResponse, SearchRequest |-> SearchRequest,
                    SearchResponse |-> SearchResponse,
                    GenerateRequest |-> GenerateRequest, MedianEmpty |-> MedianEmpty]
QueryTypes      == [Query |-> Query, Answer |-> Answer, QueryEmpty |-> QueryEmpty]
SudokuTypes     == [SudokuRequest |-> SudokuRequest, SudokuResponse |-> SudokuResponse]
RpcServiceTypes == [ListRpcRequest |-> ListRpcRequest,
                    ListRpcResponse |-> ListRpcResponse,
                    GetServiceRequest |-> GetServiceRequest,
                    GetServiceResponse |-> GetServiceResponse]

Schemas == RpcTypes @@ MedianTypes @@ QueryTypes @@ SudokuTypes @@ RpcServiceTypes

\* The names in some order: on the wire a name is its place in it, one byte.
TypeNames == <<"RpcMessage", "QueryResponse", "SearchRequest", "SearchResponse",
               "GenerateRequest", "MedianEmpty", "Query", "Answer", "QueryEmpty",
               "SudokuRequest", "SudokuResponse", "ListRpcRequest",
               "ListRpcResponse", "GetServiceRequest", "GetServiceResponse">>

Fields(m) == DOMAIN Schemas[m.type]

(***************************************************************************)
(* Accessors.                                                              *)
(***************************************************************************)
New(type) ==
  [type |-> type, field |-> [f \in DOMAIN Schemas[type] |-> << >>],
   unknown |-> << >>]
Clear(m) == New(m.type)

Has(m, f) == m.field[f] # << >>
Set(m, f, v) == [m EXCEPT !.field[f] = <<v>>]
Add(m, f, v) == [m EXCEPT !.field[f] = Append(@, v)]

\* MergeFrom: repeated fields are appended, the others replaced when set.
MergeFrom(m, from) ==
  [m EXCEPT
     !.field = [f \in Fields(m) |->
                  IF Schemas[m.type][f].label = "repeated"
                  THEN @[f] \o from.field[f]
                  ELSE IF Has(from, f) THEN from.field[f] ELSE @[f]],
     !.unknown = @ \o from.unknown]

IsInitialized(m) ==
  \A f \in Fields(m) : Schemas[m.type][f].label = "required" => Has(m, f)

(***************************************************************************)
(* Writing.  The size is computed first and on its own, as the code does.  *)
(***************************************************************************)
IsString(type) == type \in {"string", "bytes"}
WireType(type) == CASE type = "fixed64" -> 1 [] IsString(type) -> 2 [] OTHER -> 0
Tag(f, type) == f * 8 + WireType(type)

Varint(n) ==
  LET varint[k \in Nat] == IF k < 128 THEN <<k>>
                           ELSE <<128 + (k % 128)>> \o varint[k \div 128]
  IN  varint[n]
VarintSize(n) ==
  LET size[k \in Nat] == IF k < 128 THEN 1 ELSE 1 + size[k \div 128]
  IN  size[n]

Fixed64(n) == <<n % 256, (n \div 256) % 256, (n \div 65536) % 256,
                n \div 16777216, 0, 0, 0, 0>>

Value(type, v) == CASE type = "fixed64" -> Fixed64(v)
                    [] IsString(type)   -> Varint(Len(v)) \o v
                    [] OTHER            -> Varint(v)
ValueSize(type, v) == CASE type = "fixed64" -> 8
                        [] IsString(type)   -> VarintSize(Len(v)) + Len(v)
                        [] OTHER            -> VarintSize(v)

ByteSizeLong(m) ==
  LET size(f) == FoldSeq(LAMBDA v, n : n + 1 + ValueSize(Schemas[m.type][f].type, v),
                         0, m.field[f])
  IN  Len(m.unknown)
        + FoldSeq(+, 0, [f \in Fields(m) |-> size(f)])

SerializeField(m, f) ==
  LET type == Schemas[m.type][f].type
  IN  FlattenSeq([i \in 1 .. Len(m.field[f]) |->
                    <<Tag(f, type)>> \o Value(type, m.field[f][i])])
Serialize(m) == FlattenSeq([f \in Fields(m) |-> SerializeField(m, f)]) \o m.unknown

(***************************************************************************)
(* Reading.                                                                *)
(***************************************************************************)
\* The last byte of the varint at position p, 0 when the bytes end before it.
VarintEnd(s, p) ==
  LET ends == {i \in p .. Len(s) : s[i] < 128}
  IN  IF ends = {} THEN 0 ELSE CHOOSE i \in ends : \A j \in ends : i <= j
VarintAt(s, p) ==
  LET v[i \in p .. VarintEnd(s, p)] ==
        (s[i] % 128) + (IF i = VarintEnd(s, p) THEN 0 ELSE 128 * v[i + 1])
  IN  v[p]

\* The field at position p: number, wire type, value, position after it and
\* whether it was there in full.  A tag 0 ends the parse before the bytes do,
\* which ParseFromArray refuses.
FieldAt(s, p) ==
  LET q    == VarintEnd(s, p) + 1
      tag  == IF q = 1 THEN 0 ELSE VarintAt(s, p)
      r    == VarintEnd(s, q)
      n    == IF r = 0 THEN 0 ELSE VarintAt(s, q)
      wire == tag % 8
      end  == CASE wire = 0 -> r
                [] wire = 1 -> q + 7
                [] wire = 2 -> r + n
                [] wire = 5 -> q + 3
                [] OTHER    -> 0
      ok   == /\ tag # 0
              /\ wire \in {0, 2} => r # 0
              /\ end \in q .. Len(s)
  IN  [ok |-> ok, number |-> tag \div 8, wire |-> wire, next |-> end + 1,
       raw |-> IF ok THEN SubSeq(s, p, end) ELSE << >>,
       value |-> CASE ~ok      -> 0
                   [] wire = 2 -> SubSeq(s, r + 1, end)
                   [] wire = 0 -> n
                   [] OTHER    -> s[q] + 256 * s[q + 1] + 65536 * s[q + 2]
                                    + 16777216 * s[q + 3]]

\* One round of the parser's loop: a known field with the wire type of its
\* schema is set or added, everything else is kept among the unknown fields,
\* an enum value that is not of the enum too.
MergeField(m, e) ==
  LET schema  == Schemas[m.type][e.number]
      known   == /\ e.number \in Fields(m)
                 /\ e.wire = WireType(schema.type)
                 /\ schema.type = "enum" => e.value \in schema.enum
  IN  IF ~known THEN [m EXCEPT !.unknown = @ \o e.raw]
      ELSE IF schema.label = "repeated" THEN Add(m, e.number, e.value)
      ELSE Set(m, e.number, e.value)

\* Clear, merge field by field, then look for what is missing.
ParseFromArray(message, s) ==
  LET fields[p \in 1 .. Len(s) + 1] ==
        IF p > Len(s) THEN << >>
        ELSE LET e == FieldAt(s, p)
             IN  IF e.ok THEN <<e>> \o fields[e.next] ELSE <<e>>
      m == FoldLeft(MergeField, Clear(message), SelectSeq(fields[1], LAMBDA e : e.ok))
  IN  [ok |-> (\A i \in 1 .. Len(fields[1]) : fields[1][i].ok) /\ IsInitialized(m),
       message |-> m]
=============================================================================
