------------------------------- MODULE MCCodec -------------------------------
EXTENDS Codec

\* One value for each kind of field; 300 takes two bytes as a varint.
Sample(field) == CASE IsString(field.type) -> <<7, 200>>
                   [] field.type = "enum"  -> 2
                   [] field.type = "bool"  -> 1
                   [] OTHER                -> 300

\* A message with the required fields only and one with all of them set, the
\* repeated ones twice.
Fill(type, labels) ==
  LET fill(m, f) == LET field == Schemas[type][f]
                        one   == Add(m, f, Sample(field))
                    IN  IF field.label \notin labels THEN m
                        ELSE IF field.label = "repeated" THEN Add(one, f, << >>)
                        ELSE one
  IN  FoldLeft(fill, New(type), [f \in DOMAIN Schemas[type] |-> f])
MessagesOf(type) == {Fill(type, {"required"}),
                     Fill(type, {"required", "optional", "repeated"})}

\* Every type; a request and an error answer of the many RpcMessages.
Request == LET id == Set(Set(New("RpcMessage"), 1, 1), 2, 300)
           IN  Set(Set(id, 3, <<1>>), 5, <<8, 5>>)
ErrorAnswer == Set(Set(Set(New("RpcMessage"), 1, 2), 2, 300), 7, 3)
Long == Set(New("SudokuRequest"), 1, [i \in 1 .. 17 |-> 1])

MCMessages ==
  [t \in DOMAIN Schemas |->
     CASE t = "RpcMessage"    -> {Request, ErrorAnswer}
       [] t = "SudokuRequest" -> {Long} \cup MessagesOf(t)
       [] OTHER               -> MessagesOf(t)]
MCRegistered == {"Query", "Answer", "RpcMessage"}

\* Frames with a right checksum and a wrong name or payload, and others.
Framed(nameLen, rest) ==
  LET checked == hostToNetwork32(nameLen) \o rest
      body == checked \o adler32(checked)
  IN  hostToNetwork32(Len(body)) \o body
Query7 == TypeName("SearchRequest") \o <<0, 8, 7>>
Damaged == LET f == Framed(2, Query7) IN [f EXCEPT ![Len(f)] = (@ + 1) % 256]
MCForeign ==
  {Framed(0, Query7), Framed(8, Query7),          \* name length
   Framed(2, <<99, 0, 8, 7>>),                    \* unknown type
   Framed(2, TypeName("SearchRequest") \o <<0>>), \* a required field missing
   Framed(2, TypeName("SearchRequest") \o <<0, 8, 200>>),  \* cut short
   Damaged,
   hostToNetwork32(-1) \o Query7 \o Query7 \o <<0, 0>>,  \* length
   hostToNetwork32(9) \o Query7 \o Query7 \o <<0, 0>>}
\* Two messages written one after the other read as their merge.
ASSUME MergesWhenJoined ==
  \A t \in DOMAIN MCMessages : \A m, n \in MCMessages[t] :
    ParseFromArray(m, Serialize(m) \o Serialize(n)).message = MergeFrom(m, n)

MCChunks == {1, 20}
=============================================================================
