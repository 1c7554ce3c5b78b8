-------------------------------- MODULE Codec --------------------------------
(***************************************************************************)
(* ProtobufCodec (src/protobuf/codec.h, codec.cc) and the dispatchers      *)
(* (dispatcher.h, dispatcher_lite.h) at the two ends of one connection:    *)
(* a sender frames messages in a Buffer and sends the bytes, the           *)
(* connection carries them as a stream that readFd cuts at will, and the   *)
(* receiver's onMessage finds the frames in inputBuffer_, parses them and  *)
(* hands them to the dispatcher, or reports an error and shuts down.       *)
(*                                                                         *)
(* A frame is  len  nameLen  typeName 0  payload  checkSum;  the integers  *)
(* and the payload are byte for byte those of the code, a type name is one *)
(* byte.  The int32 after a full stream and zlib are what they are; the    *)
(* sizes that are constants of the code and too large to enumerate         *)
(* (kInitialSize, ExtraBuf, kMaxMessageLen) are parameters.                *)
(***************************************************************************)
EXTENDS Buffer, Wire

CONSTANTS
  kMaxMessageLen,  \* 64 MiB in the code
  Messages,        \* for each type, the messages the sending program makes
  Foreign,         \* frames of a peer that the receiver must refuse
  Registered,      \* types with a callback of their own
  MaxBytes,        \* bound: bytes of all frames on the stream
  Chunks           \* bound: how many bytes one readv may bring

MaxInt32 == 2147483647

\* All that is sent can be counted by an int32.
ASSUME CodecAssumption == /\ MaxBytes \in Nat /\ MaxBytes <= MaxInt32
                          /\ kMaxMessageLen \in Nat
                          /\ Chunks \subseteq Nat \ {0}

kHeaderLen     == 4
kMinMessageLen == 2 * kHeaderLen + 2

NoMessage == [type |-> "none"]

VARIABLES
  sent,       \* every frame sent, with its message
  outbuf,     \* the Buffer of the last ProtobufCodec::send
  wire,       \* bytes sent and not read yet
  inbuf,      \* inputBuffer_ of the receiving connection
  decoding,   \* onMessage is in its loop
  delivered,  \* messages given to a callback, with the callback
  error,      \* the first error reported, kNoError before
  state,      \* state_ of the receiving connection
  open        \* it has not met the end of the stream

vars == <<sent, outbuf, wire, inbuf, decoding, delivered, error, state, open>>

(***************************************************************************)
(* Writing a frame.                                                        *)
(***************************************************************************)
\* zlib: the two sums modulo 65521, as the four bytes of the int32.
adler32(s) ==
  LET upTo[n \in 0 .. Len(s)] ==
        IF n = 0 THEN <<1, 0>>
        ELSE LET before == upTo[n - 1]
                 a      == (before[1] + s[n]) % 65521
             IN  <<a, (before[2] + a) % 65521>>
      sums == upTo[Len(s)]
  IN  <<sums[2] \div 256, sums[2] % 256, sums[1] \div 256, sums[1] % 256>>

TypeName(type) == <<CHOOSE i \in DOMAIN TypeNames : TypeNames[i] = type>>

\* The name with its length, in a buffer that must be empty.
WithName(b, name) ==
  append(appendInt32(Asserting(b, readableBytes(b) = 0), Len(name)), name)

\* The payload, written into space ensured for its computed size.
WithPayload(b, size, data) ==
  LET roomy == ensureWritableBytes(b, size)
  IN  Asserting(hasWritten(Copy(roomy, roomy.writer, data), size), Len(data) = size)

\* The checksum over all that is written so far, size bytes with it.
WithCheckSum(b, size) ==
  LET summed == append(b, adler32(Contents(b)))
  IN  Asserting(summed, readableBytes(summed) = size)

\* Mutant of WithLength: the length counts its own bytes as well.
WithLengthCountingItself(b) ==
  prepend(b, hostToNetwork32(readableBytes(b) + kHeaderLen))

\* The length of it all in front.
WithLength(b) == prepend(b, hostToNetwork32(readableBytes(b)))

fillEmptyBuffer(m) ==
  LET name  == Append(TypeName(m.type), 0)
      size  == ByteSizeLong(m)
      whole == WithPayload(WithName(NewBuffer, name), size, Serialize(m))
  IN  WithLength(WithCheckSum(whole, kHeaderLen + Len(name) + size + kHeaderLen))

(***************************************************************************)
(* Reading one.                                                            *)
(***************************************************************************)
\* A new message of the type with this name, none if it is not known.
createMessage(name) == {New(t) : t \in {t \in DOMAIN Schemas : TypeName(t) = name}}

Success(m) == [error |-> "kNoError", message |-> m]
Failure(e) == [error |-> e, message |-> NoMessage]

\* The payload parsed by the message created for it.
ParsePayload(created, data) ==
  LET result == ParseFromArray(CHOOSE m \in created : TRUE, data)
  IN  IF created = {} THEN Failure("kUnknownMessageType")
      ELSE IF result.ok THEN Success(result.message)
      ELSE Failure("kParseError")

ParseNamed(s, nameLen) ==
  IF nameLen \notin 2 .. Len(s) - 2 * kHeaderLen THEN Failure("kInvalidNameLen")
  ELSE ParsePayload(
         createMessage(SubSeq(s, kHeaderLen + 1, kHeaderLen + nameLen - 1)),
         SubSeq(s, kHeaderLen + nameLen + 1, Len(s) - kHeaderLen))

\* parse of the len bytes s after the length.
parse(s) ==
  IF SubSeq(s, Len(s) - kHeaderLen + 1, Len(s))
       # adler32(SubSeq(s, 1, Len(s) - kHeaderLen))
  THEN Failure("kCheckSumError")
  ELSE ParseNamed(s, networkToHost32(s))

\* What the sending program makes are messages the two ends agree about: the
\* receiver has the descriptor of the type, the size computed is the size
\* written, and what is written reads back as the message.
Agreed(m) ==
  /\ m # NoMessage
  /\ TypeName(m.type) \in Seq(0 .. 255) /\ Serialize(m) \in Seq(0 .. 255)
  /\ ByteSizeLong(m) = Len(Serialize(m))
  /\ createMessage(TypeName(m.type)) = {New(m.type)}
  /\ ParseFromArray(New(m.type), Serialize(m)) = [ok |-> TRUE, message |-> m]
ASSUME MessagesAssumption == \A t \in DOMAIN Messages : \A m \in Messages[t] : Agreed(m)

\* A foreign frame is as long as a frame must be, and onMessage refuses it for
\* its length or for what parse finds in it.
Refusable(frame) ==
  /\ frame \in Seq(0 .. 255) /\ Len(frame) >= kHeaderLen + kMinMessageLen
  /\ \/ networkToHost32(frame) \notin kMinMessageLen .. kMaxMessageLen
     \/ /\ networkToHost32(frame) = Len(frame) - kHeaderLen
        /\ parse(SubSeq(frame, kHeaderLen + 1, Len(frame))).error # "kNoError"
ASSUME ForeignAssumption == \A frame \in Foreign : Refusable(frame)

\* The dispatcher's choice: the callback of the descriptor or the default.
onProtobufMessage(m) == IF m.type \in Registered THEN m.type ELSE "default"

(***************************************************************************)
(* The sending program.                                                    *)
(***************************************************************************)
Init ==
  /\ sent = << >> /\ wire = << >>
  /\ outbuf = NewBuffer /\ inbuf = NewBuffer
  /\ decoding = FALSE /\ delivered = << >>
  /\ error = "kNoError" /\ state = "kConnected" /\ open = TRUE

Frames(items) == FlattenSeq([i \in DOMAIN items |-> items[i].frame])

Put(message, frame) ==
  /\ open
  /\ Len(Frames(sent)) + Len(frame) <= MaxBytes
  /\ sent' = Append(sent, [message |-> message, frame |-> frame])
  /\ wire' = wire \o frame
  /\ UNCHANGED <<inbuf, decoding, delivered, error, state, open>>

\* ProtobufCodec::send; the DCHECK lets no message with a field missing pass.
Send(m) ==
  /\ IsInitialized(m)
  /\ outbuf' = fillEmptyBuffer(m)
  /\ Put(m, Contents(outbuf'))

\* A frame from a peer built from other sources, or damaged on its way.
SendForeign(frame) == Put(NoMessage, frame) /\ UNCHANGED outbuf

(***************************************************************************)
(* The receiving connection.                                               *)
(***************************************************************************)
\* TcpConnection::handleRead with n > 0 goes on to onMessage.
Read(n) ==
  /\ ~decoding /\ open
  /\ n <= Len(wire) /\ n <= ReadvLimit(inbuf)
  /\ inbuf' = readFd(inbuf, SubSeq(wire, 1, n))
  /\ wire' = SubSeq(wire, n + 1, Len(wire))
  /\ decoding' = TRUE
  /\ UNCHANGED <<sent, outbuf, delivered, error, state, open>>

\* handleRead with n = 0: the peer has closed and everything is read; handle-
\* Close leaves state_ alone and lets nothing more be read.
ReadEnd ==
  /\ ~decoding /\ open /\ wire = << >>
  /\ open' = FALSE
  /\ UNCHANGED <<sent, outbuf, wire, inbuf, decoding, delivered, error, state>>

\* The conditions of onMessage's loop, in its order.
LongEnough == readableBytes(inbuf) >= kMinMessageLen + kHeaderLen
ValidLength == peekInt32(inbuf) \in kMinMessageLen .. kMaxMessageLen

\* Mutant of Complete: a frame is taken to be whole one byte too late.
CompleteTooLate == readableBytes(inbuf) > kHeaderLen + peekInt32(inbuf)
Complete == readableBytes(inbuf) >= kHeaderLen + peekInt32(inbuf)

Parsed == parse(SubSeq(Contents(inbuf), kHeaderLen + 1,
                       kHeaderLen + peekInt32(inbuf)))

\* A whole frame: the callback runs, then the frame is retrieved.
DeliverMessage(parsed) ==
  /\ parsed.error = "kNoError"
  /\ delivered' = Append(delivered, [message |-> parsed.message,
                                     to |-> onProtobufMessage(parsed.message)])
  /\ inbuf' = retrieve(peeked(inbuf), kHeaderLen + peekInt32(inbuf))
  /\ UNCHANGED <<sent, outbuf, wire, decoding, error, state, open>>

\* errorCallback_, by default a shutdown of a connection that is still up; the
\* loop ends and the frame stays where it is, to be met again by every read.
ReportError(e) ==
  /\ decoding' = FALSE
  /\ error' = IF error = "kNoError" THEN e ELSE error
  /\ state' = IF state = "kConnected" THEN "kDisconnecting" ELSE state
  /\ inbuf' = peeked(inbuf)
  /\ UNCHANGED <<sent, outbuf, wire, delivered, open>>

RefuseLength ==
  /\ decoding /\ LongEnough /\ ~ValidLength
  /\ ReportError("kInvalidLength")

RefuseMessage(parsed) ==
  /\ parsed.error # "kNoError"
  /\ ReportError(parsed.error)

TakeMessage ==
  /\ decoding /\ LongEnough /\ ValidLength /\ Complete
  /\ \E parsed \in {Parsed} : DeliverMessage(parsed) \/ RefuseMessage(parsed)

\* What is left is no whole frame: onMessage returns and waits for more.
AwaitMore ==
  /\ decoding
  /\ LongEnough => ValidLength /\ ~Complete
  /\ decoding' = FALSE
  /\ inbuf' = IF LongEnough THEN peeked(inbuf) ELSE inbuf
  /\ UNCHANGED <<sent, outbuf, wire, delivered, error, state, open>>

onMessage == TakeMessage \/ RefuseLength \/ AwaitMore

Terminated == ~open /\ UNCHANGED vars

Next ==
  \/ \E t \in DOMAIN Messages : \E m \in Messages[t] : Send(m)
  \/ \E f \in Foreign : SendForeign(f)
  \/ \E n \in Chunks : Read(n)
  \/ ReadEnd
  \/ onMessage
  \/ Terminated

\* The receiver's loop goes on: bytes that can be read are read in the end, and
\* onMessage, once called, returns.  (The steps are those of Read and onMessage;
\* named by what they do to decoding, they are cheap to look for.)
ReadSome == /\ ~decoding /\ open /\ wire # << >>
            /\ decoding' = TRUE
Return == decoding /\ decoding' = FALSE

Spec == Init /\ [][Next]_vars /\ WF_decoding(ReadSome) /\ WF_decoding(Return)

-----------------------------------------------------------------------------
\* No assert of the Buffer functions used, of fillEmptyBuffer (codec.cc 13, 48)
\* or of its size check (31) fails at either end, and inputBuffer_ keeps its
\* indices in order and inside the vector whatever the sizes of the reads and
\* the frames (Buffer.h 58-119, readFd).
BuffersSound == BufferOK(inbuf) /\ outbuf.ok

\* Growing, moving and the two halves of readFd lose, repeat or reorder no
\* byte: what is in inputBuffer_ and still on the wire are the frames from the
\* first one not delivered on (makeSpace, readFd, retrieve).
StreamIntact ==
  Contents(inbuf) \o wire = Frames(SubSeq(sent, Len(delivered) + 1, Len(sent)))

\* When onMessage has returned and no error was met, no whole frame is left
\* waiting in the buffer for bytes that may never come (codec.cc 94-120).
NothingLeftBehind ==
  ~decoding /\ error = "kNoError" /\ Len(delivered) < Len(sent) =>
    readableBytes(inbuf) < Len(sent[Len(delivered) + 1].frame)

\* What the receiver can take: a message whose frame is not over the limit,
\* which fillEmptyBuffer does not look at.
Acceptable(s) == s.message # NoMessage /\ Len(s.frame) - kHeaderLen <= kMaxMessageLen

\* The codec and the dispatcher implement the stream of messages: each message
\* as it was sent, in order, once, to its callback, until something is refused
\* and nothing after it; and each of them in the end.
Stream == INSTANCE MessageStream WITH
  Refused  <- NoMessage,
  Callback <- onProtobufMessage,
  sent     <- [i \in DOMAIN sent |->
                 IF Acceptable(sent[i]) THEN sent[i].message ELSE NoMessage],
  got      <- delivered,
  refusing <- error # "kNoError"
ImplementsMessageStream == Stream!Spec
=============================================================================
