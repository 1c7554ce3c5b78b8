----------------------------- MODULE CodecProofs -----------------------------
(***************************************************************************)
(* What is proved of Buffer and Codec for any sizes of the buffers, of the *)
(* reads and of the messages: no function of Buffer fails an assert, loses *)
(* a byte or moves one to another place; every byte of the stream is in    *)
(* inputBuffer_ or on its way until its frame has been delivered; and      *)
(* onMessage leaves no whole frame behind.                                 *)
(***************************************************************************)
EXTENDS Codec, SequenceTheorems, WellFoundedInduction, TLAPS

Byte == {k \in Nat : k <= 255}

\* The bytes of Wire are these.
LEMMA ByteIs == 0 .. 255 = Byte
<1>1. \A k : k \in 0 .. 255 <=> k \in Nat /\ k <= 255
  BY Z3
<1> QED BY <1>1, Zenon DEF Byte

\* A buffer, and one whose indices are in order.
IsBuffer(b) == b \in [mem : Seq(Byte), reader : Nat, writer : Nat, ok : BOOLEAN]
Sound(b)    == IsBuffer(b) /\ BufferOK(b)
-----------------------------------------------------------------------------
(***************************************************************************)
(* The functions of Buffer.                                                *)
(***************************************************************************)
\* The readable bytes of a sound buffer are a sequence, read by index.
LEMMA ContentsOf ==
  ASSUME NEW b, Sound(b)
  PROVE  /\ Contents(b) \in Seq(Byte)
         /\ Len(Contents(b)) = readableBytes(b)
         /\ \A i \in 1 .. readableBytes(b) : Contents(b)[i] = b.mem[b.reader + i]
<1> USE DEF Sound, IsBuffer, BufferOK, readableBytes, kCheapPrepend
<1>1. \A i \in b.reader + 1 .. b.writer : b.mem[i] \in Byte
  BY ElementOfSeq
<1>2. /\ SubSeq(b.mem, b.reader + 1, b.writer) \in Seq(Byte)
      /\ Len(SubSeq(b.mem, b.reader + 1, b.writer))
           = IF b.reader + 1 <= b.writer THEN b.writer - (b.reader + 1) + 1 ELSE 0
      /\ \A i \in 1 .. b.writer - (b.reader + 1) + 1 :
           SubSeq(b.mem, b.reader + 1, b.writer)[i] = b.mem[b.reader + 1 + i - 1]
  <2> HIDE DEF Byte
  <2> QED BY <1>1, SubSeqProperties
<1> QED BY <1>2 DEF Contents

\* An assert that holds changes nothing.
LEMMA AssertHolds ==
  ASSUME NEW b, IsBuffer(b), b.ok = TRUE, NEW condition, condition
  PROVE  Asserting(b, condition) = b
<1>1. Asserting(b, condition) = [b EXCEPT !.ok = TRUE]
  BY DEF Asserting
<1> QED BY <1>1 DEF IsBuffer

\* A copy of bytes into the vector changes them and nothing else.
LEMMA Copied ==
  ASSUME NEW b, IsBuffer(b), NEW at \in Nat, NEW s \in Seq(Byte),
         at + Len(s) <= Len(b.mem)
  PROVE  LET c == Copy(b, at, s)
         IN  /\ IsBuffer(c) /\ Len(c.mem) = Len(b.mem)
             /\ c.reader = b.reader /\ c.writer = b.writer /\ c.ok = b.ok
             /\ \A i \in 1 .. Len(b.mem) :
                  c.mem[i] = IF i \in at + 1 .. at + Len(s) THEN s[i - at]
                             ELSE b.mem[i]
<1> DEFINE n == Len(b.mem)
           before == SubSeq(b.mem, 1, at)
           after == SubSeq(b.mem, at + Len(s) + 1, n)
           mem == before \o s \o after
<1>1. b.mem \in Seq(Byte) /\ n \in Nat /\ Len(s) \in Nat
  BY DEF IsBuffer
<1>2. \A i \in 1 .. n : b.mem[i] \in Byte
  BY <1>1, ElementOfSeq
<1>3. /\ before \in Seq(Byte) /\ Len(before) = at
      /\ \A i \in 1 .. at : before[i] = b.mem[i]
  <2>1. \A i \in 1 .. at : b.mem[i] \in Byte
    BY <1>1, <1>2
  <2> HIDE DEF Byte
  <2>2. /\ before \in Seq(Byte) /\ Len(before) = IF 1 <= at THEN at - 1 + 1 ELSE 0
        /\ \A i \in 1 .. at - 1 + 1 : before[i] = b.mem[1 + i - 1]
    BY <2>1, SubSeqProperties
  <2> QED BY <2>2
<1>4. /\ after \in Seq(Byte) /\ Len(after) = n - (at + Len(s))
      /\ \A i \in 1 .. n - (at + Len(s)) : after[i] = b.mem[at + Len(s) + i]
  <2>1. \A i \in at + Len(s) + 1 .. n : b.mem[i] \in Byte
    BY <1>1, <1>2
  <2>2. at + Len(s) + 1 \in Int /\ n \in Int
    BY <1>1
  <2> HIDE DEF Byte, n
  <2>3. /\ after \in Seq(Byte)
        /\ Len(after) = IF at + Len(s) + 1 <= n THEN n - (at + Len(s) + 1) + 1 ELSE 0
        /\ \A i \in 1 .. n - (at + Len(s) + 1) + 1 :
             after[i] = b.mem[at + Len(s) + 1 + i - 1]
    BY <2>1, <2>2, SubSeqProperties
  <2> QED BY <1>1, <2>3 DEF n
<1> DEFINE front == before \o s
<1> HIDE DEF before, after
<1>5. /\ front \in Seq(Byte) /\ Len(front) = at + Len(s)
      /\ \A i \in 1 .. at + Len(s) :
           front[i] = IF i <= at THEN before[i] ELSE s[i - at]
  BY <1>3, ConcatProperties
<1> HIDE DEF front, mem, n
<1>6. /\ mem \in Seq(Byte) /\ Len(mem) = n
      /\ \A i \in 1 .. n :
           mem[i] = IF i <= at + Len(s) THEN front[i]
                    ELSE after[i - (at + Len(s))]
  <2>1. mem = front \o after
    BY DEF mem, front
  <2>2. /\ front \o after \in Seq(Byte) /\ Len(front \o after) = Len(front) + Len(after)
        /\ \A i \in 1 .. Len(front) + Len(after) :
             (front \o after)[i] = IF i <= Len(front) THEN front[i]
                                   ELSE after[i - Len(front)]
    <3>1. front \in Seq(Byte) /\ after \in Seq(Byte)
      BY <1>4, <1>5
    <3> QED BY <3>1, ConcatProperties
  <2>3. Len(front) = at + Len(s) /\ Len(after) = n - (at + Len(s))
    BY <1>4, <1>5
  <2>4. Len(front) + Len(after) = n
    BY <1>1, <2>3
  <2> QED BY <2>1, <2>2, <2>3, <2>4
<1>7. Copy(b, at, s) = [b EXCEPT !.mem = mem, !.ok = b.ok /\ TRUE]
  BY DEF Copy, before, after, front, mem, n
<1>8. \A i \in 1 .. n : mem[i] = IF i \in at + 1 .. at + Len(s) THEN s[i - at]
                                 ELSE b.mem[i]
  <2> TAKE i \in 1 .. n
  <2>1. CASE i <= at
    BY <1>1, <1>3, <1>5, <1>6, <2>1
  <2>2. CASE i \in at + 1 .. at + Len(s)
    BY <1>1, <1>5, <1>6, <2>2
  <2>3. CASE at + Len(s) < i
    <3>1. i - (at + Len(s)) \in 1 .. n - (at + Len(s))
      BY <1>1, <2>3
    <3>2. at + Len(s) + (i - (at + Len(s))) = i
      BY <1>1, <2>3
    <3>3. after[i - (at + Len(s))] = b.mem[i]
      BY <1>4, <3>1, <3>2
    <3> QED BY <1>1, <1>6, <2>3, <3>3
  <2> QED BY <1>1, <2>1, <2>2, <2>3
<1> QED BY <1>1, <1>6, <1>7, <1>8 DEF IsBuffer, n

\* A buffer holds s when its readable bytes are those of s.
LEMMA Holds ==
  ASSUME NEW b, Sound(b), NEW s \in Seq(Byte), readableBytes(b) = Len(s),
         \A i \in 1 .. Len(s) : b.mem[b.reader + i] = s[i]
  PROVE  Contents(b) = s
<1>1. /\ Contents(b) \in Seq(Byte) /\ Len(Contents(b)) = Len(s)
      /\ \A i \in 1 .. Len(s) : Contents(b)[i] = s[i]
  BY ContentsOf
<1> HIDE DEF Byte
<1> QED BY <1>1, SeqEqual

\* The vector keeps its bytes when it grows.
LEMMA Resized ==
  ASSUME NEW b, IsBuffer(b), NEW n \in Nat, Len(b.mem) <= n
  PROVE  LET c == Resize(b, n)
         IN  /\ IsBuffer(c) /\ Len(c.mem) = n
             /\ c.reader = b.reader /\ c.writer = b.writer /\ c.ok = b.ok
             /\ \A i \in 1 .. Len(b.mem) : c.mem[i] = b.mem[i]
<1> DEFINE zeros == [i \in 1 .. n - Len(b.mem) |-> 0]
<1>1. b.mem \in Seq(Byte) /\ Len(b.mem) \in Nat
  BY DEF IsBuffer
<1>2. zeros \in Seq(Byte) /\ Len(zeros) = n - Len(b.mem)
  BY <1>1 DEF Byte
<1> HIDE DEF zeros
<1>3. /\ b.mem \o zeros \in Seq(Byte)
      /\ Len(b.mem \o zeros) = Len(b.mem) + Len(zeros)
      /\ \A i \in 1 .. Len(b.mem) + Len(zeros) :
           (b.mem \o zeros)[i] = IF i <= Len(b.mem) THEN b.mem[i]
                                ELSE zeros[i - Len(b.mem)]
  BY <1>1, <1>2, ConcatProperties
<1>4. Resize(b, n) = [b EXCEPT !.mem = b.mem \o zeros]
  BY DEF Resize, zeros
<1> DEFINE mem == b.mem \o zeros
<1>5. mem \in Seq(Byte) /\ Len(mem) = n /\ \A i \in 1 .. Len(b.mem) : mem[i] = b.mem[i]
  BY <1>1, <1>2, <1>3
<1> HIDE DEF mem
<1>6. Resize(b, n) = [b EXCEPT !.mem = mem]
  BY <1>4 DEF mem
<1> QED BY <1>5, <1>6 DEF IsBuffer

\* retrieve takes bytes from the front (Buffer.h:83).
LEMMA Retrieved ==
  ASSUME NEW b, Sound(b), NEW len \in 0 .. readableBytes(b)
  PROVE  /\ Sound(retrieve(b, len))
         /\ Contents(retrieve(b, len))
              = SubSeq(Contents(b), len + 1, Len(Contents(b)))
<1> DEFINE c == retrieve(b, len)
           all == Contents(b)
           rest == SubSeq(all, len + 1, Len(all))
<1>1. c = [b EXCEPT !.reader = b.reader + len, !.ok = b.ok /\ len <= readableBytes(b)]
  BY DEF retrieve, Asserting, Sound, IsBuffer
<1>2. /\ Sound(c) /\ readableBytes(c) = readableBytes(b) - len
      /\ c.mem = b.mem /\ c.reader = b.reader + len
  <2>1. /\ b.reader \in Nat /\ b.writer \in Nat /\ b.mem \in Seq(Byte) /\ b.ok = TRUE
        /\ Len(b.mem) \in Nat
        /\ 8 <= b.reader /\ b.reader <= b.writer /\ b.writer <= Len(b.mem)
    BY DEF Sound, IsBuffer, BufferOK, kCheapPrepend
  <2>2. /\ c.mem = b.mem /\ c.reader = b.reader + len /\ c.writer = b.writer
        /\ c.ok = (len <= readableBytes(b))
    BY <1>1, <2>1 DEF Sound, IsBuffer
  <2>3. len \in Nat /\ len <= b.writer - b.reader
    BY <2>1 DEF readableBytes
  <2>4. IsBuffer(c)
    <3>1. b.reader + len \in Nat
      BY <2>1, <2>3
    <3> QED BY <1>1, <2>1, <3>1 DEF IsBuffer, Sound
  <2> HIDE DEF c
  <2>5. BufferOK(c)
    <3>1. len <= readableBytes(b) /\ 8 <= b.reader + len /\ b.reader + len <= b.writer
      BY <2>1, <2>3 DEF readableBytes
    <3> QED BY <2>1, <2>2, <3>1 DEF BufferOK, kCheapPrepend
  <2> QED BY <2>1, <2>2, <2>3, <2>4, <2>5 DEF Sound, readableBytes
<1>3. /\ all \in Seq(Byte) /\ Len(all) = readableBytes(b)
      /\ \A i \in 1 .. readableBytes(b) : all[i] = b.mem[b.reader + i]
  BY ContentsOf
<1>4. readableBytes(b) \in Nat /\ b.reader \in Nat
  BY DEF Sound, IsBuffer, BufferOK, readableBytes
<1> HIDE DEF all, c, Byte
<1>5. /\ rest \in Seq(Byte) /\ Len(rest) = readableBytes(b) - len
      /\ \A i \in 1 .. readableBytes(b) - len : rest[i] = all[len + i]
  <2>1. \A i \in len + 1 .. Len(all) : all[i] \in Byte
    BY <1>3, <1>4, ElementOfSeq
  <2>2. len + 1 \in Int /\ Len(all) \in Int
    BY <1>3, <1>4
  <2>3. /\ rest \in Seq(Byte)
        /\ Len(rest) = IF len + 1 <= Len(all) THEN Len(all) - (len + 1) + 1 ELSE 0
        /\ \A i \in 1 .. Len(all) - (len + 1) + 1 : rest[i] = all[len + 1 + i - 1]
    BY <2>1, <2>2, SubSeqProperties
  <2> QED BY <1>3, <1>4, <2>3, SMTT(60)
<1> HIDE DEF rest
<1>6. \A i \in 1 .. Len(rest) : c.mem[c.reader + i] = rest[i]
  <2> TAKE i \in 1 .. Len(rest)
  <2>1. rest[i] = all[len + i] /\ len + i \in 1 .. readableBytes(b)
    BY <1>4, <1>5
  <2>2. b.reader + (len + i) = b.reader + len + i
    BY <1>4, <1>5
  <2>3. all[len + i] = b.mem[b.reader + (len + i)]
    BY <1>3, <2>1
  <2> QED BY <1>2, <2>1, <2>2, <2>3
<1>7. Contents(c) = rest
  BY <1>2, <1>5, <1>6, Holds
<1> QED BY <1>2, <1>7 DEF c, rest, all

\* What the indices of a sound buffer are.
LEMMA Indices ==
  ASSUME NEW b, Sound(b)
  PROVE  /\ b.mem \in Seq(Byte) /\ Len(b.mem) \in Nat
         /\ b.reader \in Nat /\ b.writer \in Nat
         /\ 8 <= b.reader /\ b.reader <= b.writer /\ b.writer <= Len(b.mem)
         /\ b.ok = TRUE
         /\ readableBytes(b) = b.writer - b.reader /\ readableBytes(b) \in Nat
         /\ writableBytes(b) = Len(b.mem) - b.writer /\ writableBytes(b) \in Nat
         /\ prependableBytes(b) = b.reader
BY DEF Sound, IsBuffer, BufferOK, kCheapPrepend, readableBytes, writableBytes,
       prependableBytes

\* Bytes written where there is room for them follow those that are there.
LEMMA Written ==
  ASSUME NEW b, Sound(b), NEW s \in Seq(Byte), Len(s) <= writableBytes(b)
  PROVE  LET c == hasWritten(Copy(b, b.writer, s), Len(s))
         IN  /\ Sound(c) /\ Len(c.mem) = Len(b.mem) /\ c.reader = b.reader
             /\ Contents(c) = Contents(b) \o s
<1> DEFINE d == Copy(b, b.writer, s)
           c == hasWritten(d, Len(s))
           all == Contents(b) \o s
<1>1. /\ b.mem \in Seq(Byte) /\ Len(b.mem) \in Nat
      /\ b.reader \in Nat /\ b.writer \in Nat
      /\ 8 <= b.reader /\ b.reader <= b.writer
      /\ b.ok = TRUE /\ readableBytes(b) = b.writer - b.reader
      /\ Len(s) \in Nat /\ b.writer + Len(s) <= Len(b.mem)
  <2>1. Len(s) \in Nat
    BY LenProperties
  <2>2. b.writer + Len(s) <= Len(b.mem)
    <3>1. /\ writableBytes(b) = Len(b.mem) - b.writer
          /\ Len(b.mem) \in Nat /\ b.writer \in Nat
      BY Indices
    <3> QED BY <2>1, <3>1
  <2> QED BY <2>1, <2>2, Indices
<1>2. /\ IsBuffer(d) /\ Len(d.mem) = Len(b.mem)
      /\ d.reader = b.reader /\ d.writer = b.writer /\ d.ok = b.ok
      /\ \A i \in 1 .. Len(b.mem) :
           d.mem[i] = IF i \in b.writer + 1 .. b.writer + Len(s)
                      THEN s[i - b.writer] ELSE b.mem[i]
  BY <1>1, Copied, ZenonT(60) DEF Sound
<1> HIDE DEF d
<1>3. /\ IsBuffer(c) /\ c.mem = d.mem /\ c.reader = b.reader
      /\ c.writer = b.writer + Len(s) /\ c.ok = TRUE
  BY <1>1, <1>2, SMTT(60) DEF hasWritten, IsBuffer
<1> HIDE DEF c
<1>4. Sound(c) /\ readableBytes(c) = readableBytes(b) + Len(s)
  BY <1>1, <1>2, <1>3 DEF Sound, BufferOK, kCheapPrepend, readableBytes
<1>5. /\ Contents(b) \in Seq(Byte) /\ Len(Contents(b)) = readableBytes(b)
      /\ \A i \in 1 .. readableBytes(b) : Contents(b)[i] = b.mem[b.reader + i]
  BY ContentsOf
<1>6. /\ all \in Seq(Byte) /\ Len(all) = readableBytes(b) + Len(s)
      /\ \A i \in 1 .. readableBytes(b) + Len(s) :
           all[i] = IF i <= readableBytes(b) THEN Contents(b)[i]
                    ELSE s[i - readableBytes(b)]
  <2>1. Contents(b) \in Seq(Byte)
    BY <1>5
  <2>2. /\ all \in Seq(Byte) /\ Len(all) = Len(Contents(b)) + Len(s)
        /\ \A i \in 1 .. Len(Contents(b)) + Len(s) :
             all[i] = IF i <= Len(Contents(b)) THEN Contents(b)[i]
                      ELSE s[i - Len(Contents(b))]
    BY <2>1, ConcatProperties
  <2> QED BY <1>5, <2>2
<1> HIDE DEF all
<1>7. \A i \in 1 .. Len(all) : c.mem[c.reader + i] = all[i]
  <2> TAKE i \in 1 .. Len(all)
  <2>1. /\ i \in Nat /\ 1 <= i /\ i <= b.writer - b.reader + Len(s)
        /\ b.reader + i \in 1 .. Len(b.mem)
    BY <1>1, <1>6, SMTT(60)
  <2>2. CASE i <= readableBytes(b)
    <3>1. b.reader + i \notin b.writer + 1 .. b.writer + Len(s)
      BY <1>1, <2>1, <2>2
    <3>2. all[i] = b.mem[b.reader + i]
      BY <1>5, <1>6, <2>1, <2>2
    <3> QED BY <1>2, <1>3, <2>1, <3>1, <3>2
  <2>3. CASE ~(i <= readableBytes(b))
    <3>1. b.reader + i \in b.writer + 1 .. b.writer + Len(s)
      BY <1>1, <2>1, <2>3
    <3>2. PICK k \in 1 .. Len(b.mem), m \in Int :
             k = b.reader + i /\ m = i - readableBytes(b) /\ m = k - b.writer
      BY <1>1, <2>1, SMTT(60)
    <3>3. all[i] = s[m]
      BY <1>6, <2>3, <3>2
    <3>4. d.mem[k] = s[m]
      BY <1>2, <3>1, <3>2
    <3> QED BY <1>3, <3>2, <3>3, <3>4
  <2> QED BY <2>2, <2>3
<1>8. Contents(c) = all
  BY <1>4, <1>6, <1>7, Holds
<1> QED BY <1>2, <1>3, <1>4, <1>8 DEF c, d, all

\* makeSpace makes the room and keeps the bytes, its assert holding
\* (Buffer.cc, Buffer.h:108).
LEMMA SpaceMade ==
  ASSUME NEW b, Sound(b), NEW len \in Nat, writableBytes(b) < len
  PROVE  LET c == makeSpace(b, len)
         IN  /\ Sound(c) /\ len <= writableBytes(c)
             /\ Contents(c) = Contents(b)
<1> DEFINE c == makeSpace(b, len)
           all == Contents(b)
<1>1. /\ b.mem \in Seq(Byte) /\ Len(b.mem) \in Nat
      /\ b.reader \in Nat /\ b.writer \in Nat
      /\ 8 <= b.reader /\ b.reader <= b.writer /\ b.writer <= Len(b.mem)
      /\ b.ok = TRUE /\ readableBytes(b) = b.writer - b.reader
      /\ Len(b.mem) - b.writer < len /\ IsBuffer(b)
  BY Indices DEF Sound
<1>2. /\ all \in Seq(Byte) /\ Len(all) = b.writer - b.reader
      /\ \A i \in 1 .. b.writer - b.reader : all[i] = b.mem[b.reader + i]
  BY <1>1, ContentsOf
<1> HIDE DEF all
<1> SUFFICES /\ Sound(c) /\ len <= writableBytes(c)
             /\ readableBytes(c) = Len(all)
             /\ \A i \in 1 .. Len(all) : c.mem[c.reader + i] = all[i]
  <2>1. Sound(c) /\ len <= writableBytes(c) /\ Contents(c) = all
    BY <1>2, Holds
  <2> QED BY <2>1 DEF all
<1>3. CASE writableBytes(b) + prependableBytes(b) < len + kCheapPrepend
  <2>1. c = Resize(b, b.writer + len)
    BY <1>3 DEF makeSpace
  <2>2. b.writer + len \in Nat /\ Len(b.mem) <= b.writer + len
    BY <1>1
  <2>3. /\ IsBuffer(c) /\ Len(c.mem) = b.writer + len
        /\ c.reader = b.reader /\ c.writer = b.writer /\ c.ok = b.ok
        /\ \A i \in 1 .. Len(b.mem) : c.mem[i] = b.mem[i]
    BY <1>1, <2>1, <2>2, Resized
  <2> HIDE DEF c
  <2>4. Sound(c) /\ len <= writableBytes(c) /\ readableBytes(c) = Len(all)
    BY <1>1, <1>2, <2>3 DEF Sound, BufferOK, kCheapPrepend, readableBytes, writableBytes
  <2>5. ASSUME NEW i \in 1 .. Len(all) PROVE c.mem[c.reader + i] = all[i]
    <3>1. b.reader + i \in 1 .. Len(b.mem) /\ i \in 1 .. b.writer - b.reader
      BY <1>1, <1>2, SMTT(60)
    <3> QED BY <1>2, <2>3, <3>1
  <2> QED BY <2>4, <2>5
<1>4. CASE ~(writableBytes(b) + prependableBytes(b) < len + kCheapPrepend)
  <2> DEFINE d == Copy(b, 8, all)
  <2>1. 8 < b.reader /\ len + 8 <= Len(b.mem) - b.writer + b.reader
    BY <1>1, <1>4 DEF writableBytes, prependableBytes, kCheapPrepend
  <2>2. 8 + Len(all) <= Len(b.mem)
    BY <1>1, <1>2
  <2>3. /\ IsBuffer(d) /\ Len(d.mem) = Len(b.mem)
        /\ d.reader = b.reader /\ d.writer = b.writer /\ d.ok = b.ok
        /\ \A i \in 1 .. Len(b.mem) :
             d.mem[i] = IF i \in 8 + 1 .. 8 + Len(all) THEN all[i - 8] ELSE b.mem[i]
    BY <1>1, <1>2, <2>2, Copied, SMTT(60)
  <2> DEFINE moved == [d EXCEPT !.reader = 8, !.writer = 8 + readableBytes(b)]
  <2>4. c = Asserting(moved, 8 < b.reader /\ readableBytes(moved) = readableBytes(b))
    BY <1>4 DEF makeSpace, kCheapPrepend, all
  <2> HIDE DEF d
  <2>8. readableBytes(moved) = readableBytes(b)
    <3>1. moved.reader = 8 /\ moved.writer = 8 + (b.writer - b.reader)
      BY <1>1, <2>3 DEF IsBuffer
    <3> HIDE DEF moved
    <3> QED BY <1>1, <3>1 DEF readableBytes
  <2>5. /\ IsBuffer(c) /\ c.mem = d.mem /\ c.reader = 8
        /\ c.writer = 8 + (b.writer - b.reader) /\ c.ok = TRUE
    <3>1. /\ readableBytes(b) = b.writer - b.reader
          /\ 8 + (b.writer - b.reader) \in Nat /\ d.ok = TRUE
      BY <1>1, <2>3
    <3>2. c = [d EXCEPT !.reader = 8, !.writer = 8 + (b.writer - b.reader),
                        !.ok = TRUE]
      <4>1. moved = [d EXCEPT !.reader = 8, !.writer = 8 + (b.writer - b.reader)]
        BY <3>1
      <4>2. moved.ok = TRUE
        BY <2>3, <3>1 DEF IsBuffer
      <4> HIDE DEF moved
      <4>3. c = [moved EXCEPT !.ok = TRUE]
        BY <2>1, <2>4, <2>8, <4>2 DEF Asserting
      <4> QED BY <4>1, <4>3
    <3>3. d.mem \in Seq(Byte) /\ d = [mem |-> d.mem, reader |-> d.reader,
                                     writer |-> d.writer, ok |-> d.ok]
      BY <2>3 DEF IsBuffer
    <3>4. c = [mem |-> d.mem, reader |-> 8, writer |-> 8 + (b.writer - b.reader),
               ok |-> TRUE]
      BY <3>2, <3>3
    <3> QED BY <3>1, <3>3, <3>4 DEF IsBuffer
  <2> HIDE DEF c
  <2>6. Sound(c) /\ len <= writableBytes(c) /\ readableBytes(c) = Len(all)
    BY <1>1, <1>2, <2>1, <2>3, <2>5, SMTT(60)
       DEF Sound, BufferOK, kCheapPrepend, readableBytes, writableBytes
  <2>7. ASSUME NEW i \in 1 .. Len(all) PROVE c.mem[c.reader + i] = all[i]
    <3>1. /\ 8 + i \in 1 .. Len(b.mem) /\ 8 + i \in 8 + 1 .. 8 + Len(all)
          /\ 8 + i - 8 = i
      BY <1>1, <1>2, <2>2
    <3> QED BY <2>3, <2>5, <3>1
  <2> QED BY <2>6, <2>7
<1> QED BY <1>3, <1>4

\* ensureWritableBytes: so does it, its assert holding (Buffer.h:104-108).
LEMMA RoomEnsured ==
  ASSUME NEW b, Sound(b), NEW len \in Nat
  PROVE  LET c == ensureWritableBytes(b, len)
         IN  /\ Sound(c) /\ len <= writableBytes(c)
             /\ Contents(c) = Contents(b)
<1> DEFINE roomy == IF writableBytes(b) < len THEN makeSpace(b, len) ELSE b
           c == ensureWritableBytes(b, len)
<1>1. /\ Sound(roomy) /\ len <= writableBytes(roomy)
      /\ Contents(roomy) = Contents(b)
  <2>1. CASE writableBytes(b) < len
    BY <2>1, SpaceMade
  <2>2. CASE ~(writableBytes(b) < len)
    <3>1. writableBytes(b) \in Nat
      BY Indices
    <3> QED BY <2>2, <3>1
  <2> QED BY <2>1, <2>2
<1>2. c = Asserting(roomy, len <= writableBytes(roomy))
  BY DEF ensureWritableBytes
<1> HIDE DEF roomy
<1>3. c = roomy
  BY <1>1, <1>2 DEF Asserting, Sound, IsBuffer, BufferOK
<1> QED BY <1>1, <1>3

\* append (Buffer.h:89).
LEMMA Appended ==
  ASSUME NEW b, Sound(b), NEW s \in Seq(Byte)
  PROVE  Sound(append(b, s)) /\ Contents(append(b, s)) = Contents(b) \o s
<1> DEFINE roomy == ensureWritableBytes(b, Len(s))
<1>1. Len(s) \in Nat
  BY LenProperties
<1>2. /\ Sound(roomy) /\ Len(s) <= writableBytes(roomy)
      /\ Contents(roomy) = Contents(b)
  BY <1>1, RoomEnsured
<1> HIDE DEF roomy
<1>3. append(b, s) = hasWritten(Copy(roomy, roomy.writer, s), Len(s))
  BY DEF append, roomy
<1> QED BY <1>2, <1>3, Written

\* Where the i-th byte lies once n bytes stand before those from reader to writer.
LEMMA Shifted ==
  ASSUME NEW n \in Nat, NEW reader \in Nat, NEW writer \in Nat, NEW size \in Nat,
         n <= reader, reader <= writer, writer <= size,
         NEW i \in Nat, 1 <= i, i <= n + (writer - reader)
  PROVE  LET k == reader - n + 1 + i - 1
         IN  /\ k \in 1 .. size
             /\ i <= n => k \in reader - n + 1 .. reader /\ k - (reader - n) = i
             /\ ~(i <= n) => /\ i - n \in 1 .. writer - reader
                            /\ k = reader + (i - n)
                            /\ k \notin reader - n + 1 .. reader
OBVIOUS

\* prepend: the bytes stand before the others; there must be room, as there is
\* for a length in a new buffer (Buffer.h:114).
LEMMA Prepended ==
  ASSUME NEW b, Sound(b), NEW s \in Seq(Byte), Len(s) <= prependableBytes(b)
  PROVE  LET c == prepend(b, s)
         IN  /\ c.ok = TRUE
             /\ Contents(c) = s \o Contents(b)
<1> DEFINE front == Asserting([b EXCEPT !.reader = b.reader - Len(s)],
                              Len(s) <= prependableBytes(b))
           c == prepend(b, s)
           all == s \o Contents(b)
           n == Len(s)
<1>0. Len(s) \in Nat
  BY LenProperties
<1>1. /\ b.mem \in Seq(Byte) /\ Len(b.mem) \in Nat
      /\ b.reader \in Nat /\ b.writer \in Nat
      /\ 8 <= b.reader /\ b.reader <= b.writer /\ b.writer <= Len(b.mem)
      /\ b.ok = TRUE /\ readableBytes(b) = b.writer - b.reader
      /\ n <= b.reader /\ n \in Nat
  BY <1>0, Indices
<1>2. c = Copy(front, front.reader, s)
  BY DEF prepend
<1>3. /\ IsBuffer(front) /\ front.mem = b.mem /\ front.reader = b.reader - n
      /\ front.writer = b.writer /\ front.ok = TRUE
  <2> DEFINE moved == [b EXCEPT !.reader = b.reader - n]
  <2>2. PICK r \in Nat : r = b.reader - n
    BY <1>1
  <2>3. moved = [b EXCEPT !.reader = r]
    BY <2>2
  <2>4. /\ IsBuffer(moved) /\ moved.mem = b.mem /\ moved.reader = r
        /\ moved.writer = b.writer /\ moved.ok = TRUE
    BY <1>1, <2>3 DEF Sound, IsBuffer
  <2>5. front = Asserting(moved, Len(s) <= prependableBytes(b))
    OBVIOUS
  <2> HIDE DEF moved, front
  <2>6. front = moved
    BY <2>4, <2>5, AssertHolds
  <2> QED BY <2>2, <2>4, <2>6
<1> HIDE DEF front, c
<1>4. front.reader \in Nat /\ front.reader + n = b.reader
  BY <1>1, <1>3
<1>5. /\ IsBuffer(c) /\ Len(c.mem) = Len(b.mem)
      /\ c.reader = b.reader - n /\ c.writer = b.writer /\ c.ok = TRUE
      /\ \A i \in 1 .. Len(b.mem) :
           c.mem[i] = IF i \in b.reader - n + 1 .. b.reader THEN s[i - (b.reader - n)]
                      ELSE b.mem[i]
  <2>1. front.reader + n <= Len(front.mem)
    BY <1>1, <1>3, <1>4
  <2>2. /\ IsBuffer(c) /\ Len(c.mem) = Len(front.mem)
        /\ c.reader = front.reader /\ c.writer = front.writer /\ c.ok = front.ok
        /\ \A i \in 1 .. Len(front.mem) :
             c.mem[i] = IF i \in front.reader + 1 .. front.reader + n
                        THEN s[i - front.reader] ELSE front.mem[i]
    BY <1>2, <1>3, <1>4, <2>1, Copied, SMTT(60)
  <2> QED BY <1>3, <1>4, <2>2
<1>6. /\ Contents(b) \in Seq(Byte) /\ Len(Contents(b)) = b.writer - b.reader
      /\ \A i \in 1 .. b.writer - b.reader : Contents(b)[i] = b.mem[b.reader + i]
  BY <1>1, ContentsOf
<1>7. /\ all \in Seq(Byte) /\ Len(all) = n + (b.writer - b.reader)
      /\ \A i \in 1 .. n + (b.writer - b.reader) :
           all[i] = IF i <= n THEN s[i] ELSE Contents(b)[i - n]
  <2>1. Contents(b) \in Seq(Byte)
    BY <1>6
  <2>2. /\ all \in Seq(Byte) /\ Len(all) = n + Len(Contents(b))
        /\ \A i \in 1 .. n + Len(Contents(b)) :
             all[i] = IF i <= n THEN s[i] ELSE Contents(b)[i - n]
    BY <2>1, ConcatProperties
  <2> QED BY <1>6, <2>2
<1> DEFINE from == b.reader - n + 1
<1>8. /\ c.mem \in Seq(Byte) /\ from \in Nat /\ from \in Int /\ b.writer \in Int
      /\ \A i \in from .. b.writer : c.mem[i] \in Byte
  <2>1. c.mem \in Seq(Byte) /\ from \in Nat \ {0}
    BY <1>1, <1>5 DEF IsBuffer
  <2>2. \A i \in from .. b.writer : i \in 1 .. Len(c.mem)
    BY <1>1, <1>5, <2>1
  <2> HIDE DEF Byte, from
  <2> QED BY <1>1, <2>1, <2>2, ElementOfSeq
<1>9. /\ Contents(c) \in Seq(Byte) /\ Len(Contents(c)) = Len(all)
      /\ \A i \in 1 .. Len(all) : Contents(c)[i] = c.mem[from + i - 1]
  <2>1. Contents(c) = SubSeq(c.mem, from, b.writer)
    BY <1>5 DEF Contents
  <2> HIDE DEF from, Byte
  <2>2. /\ Contents(c) \in Seq(Byte)
        /\ Len(Contents(c)) = IF from <= b.writer THEN b.writer - from + 1 ELSE 0
        /\ \A i \in 1 .. b.writer - from + 1 : Contents(c)[i] = c.mem[from + i - 1]
    BY <1>8, <2>1, SubSeqProperties
  <2>3. /\ (IF from <= b.writer THEN b.writer - from + 1 ELSE 0) = Len(all)
        /\ b.writer - from + 1 = Len(all)
    BY <1>1, <1>7 DEF from
  <2> QED BY <2>2, <2>3
<1> HIDE DEF all
<1>10. ASSUME NEW i \in 1 .. Len(all) PROVE Contents(c)[i] = all[i]
  <2> DEFINE k == from + i - 1
  <2>1. /\ k \in 1 .. Len(b.mem)
        /\ i <= n => k \in b.reader - n + 1 .. b.reader /\ k - (b.reader - n) = i
        /\ ~(i <= n) => /\ i - n \in 1 .. b.writer - b.reader
                       /\ k = b.reader + (i - n)
                       /\ k \notin b.reader - n + 1 .. b.reader
    <3>1. /\ n \in Nat /\ b.reader \in Nat /\ b.writer \in Nat /\ Len(b.mem) \in Nat
          /\ n <= b.reader /\ b.reader <= b.writer /\ b.writer <= Len(b.mem)
          /\ i \in Nat /\ 1 <= i /\ i <= n + (b.writer - b.reader)
      BY <1>1, <1>7
    <3> QED BY <3>1, Shifted
  <2>2. Contents(c)[i] = c.mem[k]
    BY <1>9
  <2> HIDE DEF k, from
  <2>3. CASE i <= n
    BY <1>5, <1>7, <2>1, <2>2, <2>3
  <2>4. CASE ~(i <= n)
    <3>1. PICK m \in 1 .. b.writer - b.reader : m = i - n /\ k = b.reader + m
      BY <2>1, <2>4
    <3>2. all[i] = Contents(b)[m]
      BY <1>7, <2>4, <3>1
    <3> QED BY <1>5, <1>6, <2>1, <2>2, <2>4, <3>1, <3>2
  <2> QED BY <2>3, <2>4
<1>11. Contents(c) = all
  <2> HIDE DEF Byte, from
  <2> QED BY <1>7, <1>9, <1>10, SeqEqual
<1> QED BY <1>5, <1>11 DEF c, all

\* A sequence cut in two, of any kind of elements.
LEMMA Cut ==
  ASSUME NEW S, NEW s \in Seq(S), NEW n \in 0 .. Len(s)
  PROVE  LET first == SubSeq(s, 1, n)
             rest  == SubSeq(s, n + 1, Len(s))
         IN  /\ first \in Seq(S) /\ Len(first) = n
             /\ rest \in Seq(S) /\ Len(rest) = Len(s) - n
             /\ \A i \in 1 .. n : first[i] = s[i]
             /\ \A i \in 1 .. Len(s) - n : rest[i] = s[n + i]
             /\ first \o rest = s
<1> DEFINE first == SubSeq(s, 1, n)
           rest  == SubSeq(s, n + 1, Len(s))
<1>1. /\ Len(s) \in Nat /\ n \in Nat /\ n \in Int /\ n + 1 \in Int /\ Len(s) \in Int
      /\ \A i \in 1 .. Len(s) : s[i] \in S
  BY LenProperties, ElementOfSeq
<1>2. /\ first \in Seq(S) /\ Len(first) = n
      /\ \A i \in 1 .. n : first[i] = s[i]
  <2>1. \A i \in 1 .. n : s[i] \in S
    BY <1>1
  <2>2. /\ first \in Seq(S) /\ Len(first) = IF 1 <= n THEN n - 1 + 1 ELSE 0
        /\ \A i \in 1 .. n - 1 + 1 : first[i] = s[1 + i - 1]
    BY <1>1, <2>1, SubSeqProperties
  <2> QED BY <1>1, <2>2
<1>3. /\ rest \in Seq(S) /\ Len(rest) = Len(s) - n
      /\ \A i \in 1 .. Len(s) - n : rest[i] = s[n + i]
  <2>1. \A i \in n + 1 .. Len(s) : s[i] \in S
    BY <1>1
  <2>2. /\ rest \in Seq(S)
        /\ Len(rest) = IF n + 1 <= Len(s) THEN Len(s) - (n + 1) + 1 ELSE 0
        /\ \A i \in 1 .. Len(s) - (n + 1) + 1 : rest[i] = s[n + 1 + i - 1]
    BY <1>1, <2>1, SubSeqProperties
  <2> QED BY <1>1, <2>2
<1> HIDE DEF first, rest
<1>4. /\ first \o rest \in Seq(S) /\ Len(first \o rest) = Len(s)
      /\ \A i \in 1 .. Len(s) :
           (first \o rest)[i] = IF i <= n THEN first[i] ELSE rest[i - n]
  <2>1. first \in Seq(S) /\ rest \in Seq(S)
    BY <1>2, <1>3
  <2>2. /\ first \o rest \in Seq(S) /\ Len(first \o rest) = Len(first) + Len(rest)
        /\ \A i \in 1 .. Len(first) + Len(rest) :
             (first \o rest)[i] = IF i <= Len(first) THEN first[i]
                                  ELSE rest[i - Len(first)]
    BY <2>1, ConcatProperties
  <2>3. Len(first) = n /\ Len(first) + Len(rest) = Len(s)
    BY <1>1, <1>2, <1>3
  <2> QED BY <2>2, <2>3
<1>5. \A i \in 1 .. Len(s) : (first \o rest)[i] = s[i]
  <2> TAKE i \in 1 .. Len(s)
  <2>1. CASE i <= n
    BY <1>1, <1>2, <1>4, <2>1
  <2>2. CASE ~(i <= n)
    <3>1. PICK m \in 1 .. Len(s) - n : m = i - n /\ n + m = i
      BY <1>1, <2>2
    <3> QED BY <1>3, <1>4, <2>2, <3>1
  <2> QED BY <2>1, <2>2
<1>6. first \o rest = s
  BY <1>4, <1>5, SeqEqual
<1> QED BY <1>2, <1>3, <1>6 DEF first, rest

\* readFd appends what readv brings, whether the vector has room for it or the
\* rest goes through the buffer on the stack (Buffer.cc).
LEMMA FdRead ==
  ASSUME NEW b, Sound(b), NEW s \in Seq(Byte)
  PROVE  Sound(readFd(b, s)) /\ Contents(readFd(b, s)) = Contents(b) \o s
<1> DEFINE w == writableBytes(b)
<1>1. /\ Len(s) \in Nat /\ w \in Nat /\ w = Len(b.mem) - b.writer
      /\ b.writer \in Nat /\ Len(b.mem) \in Nat
  BY Indices, LenProperties
<1>2. CASE Len(s) <= w
  BY <1>2, Written DEF readFd
<1>3. CASE ~(Len(s) <= w)
  <2> DEFINE first == SubSeq(s, 1, w)
             rest  == SubSeq(s, w + 1, Len(s))
             full  == hasWritten(Copy(b, b.writer, first), Len(first))
  <2>1. w \in 0 .. Len(s)
    BY <1>1, <1>3
  <2> HIDE DEF w
  <2>2. /\ first \in Seq(Byte) /\ Len(first) = w
        /\ rest \in Seq(Byte) /\ first \o rest = s
    <3> HIDE DEF Byte
    <3> QED BY <2>1, Cut
  <2> HIDE DEF first, rest
  <2>3. /\ Sound(full) /\ Contents(full) = Contents(b) \o first
    <3>1. Len(first) <= writableBytes(b)
      BY <1>1, <2>2 DEF w
    <3> QED BY <2>2, <3>1, Written
  <2>4. full = [Copy(b, b.writer, first) EXCEPT !.writer = Len(b.mem)]
    <3>1. Copy(b, b.writer, first).writer + Len(first) = Len(b.mem)
      <4>1. b.writer + Len(first) <= Len(b.mem) /\ b.writer + Len(first) = Len(b.mem)
        BY <1>1, <2>2
      <4>2. IsBuffer(b)
        BY DEF Sound
      <4>3. Copy(b, b.writer, first).writer = b.writer
        BY <1>1, <2>2, <4>1, <4>2, Copied
      <4> QED BY <4>1, <4>3
    <3> QED BY <3>1 DEF hasWritten
  <2>5. readFd(b, s) = append(full, rest)
    BY <1>3, <2>4 DEF readFd, w, first, rest
  <2> HIDE DEF full
  <2>6. Sound(readFd(b, s)) /\ Contents(readFd(b, s)) = (Contents(b) \o first) \o rest
    BY <2>2, <2>3, <2>5, Appended
  <2>7. (Contents(b) \o first) \o rest = Contents(b) \o (first \o rest)
    <3>1. Contents(b) \in Seq(Byte) /\ first \in Seq(Byte) /\ rest \in Seq(Byte)
      BY <2>2, ContentsOf
    <3> QED BY <3>1, ConcatAssociative, SMTT(60)
  <2> QED BY <2>2, <2>6, <2>7
<1> QED BY <1>2, <1>3
-----------------------------------------------------------------------------
(***************************************************************************)
(* Recursive functions over 0 .. n.  Every set of numbers has a least one, *)
(* so a property that fails somewhere fails somewhere first.               *)
(***************************************************************************)
\* Every set of natural numbers has a least one.
LEMMA LeastNumber ==
  ASSUME NEW B \in SUBSET Nat, B # {}
  PROVE  \E m \in B : \A n \in B : ~(n < m)
<1> DEFINE R == OpToRel(<, Nat)
<1>1. IsWellFoundedOn(R, Nat)
  BY NatLessThanWellFounded, Zenon
<1>2. \A n, m \in Nat : n < m => <<n, m>> \in R
  BY DEF OpToRel
<1> HIDE DEF R
<1>3. \E m \in B : \A n \in B : <<n, m>> \notin R
  BY <1>1, WFMin
<1> QED BY <1>2, <1>3

\* What holds of 0 and of a number when of the one before holds up to n: the
\* numbers of which it holds are a set here.
LEMMA UpTo ==
  ASSUME NEW n \in Nat, NEW P, 0 \in P,
         \A i \in 1 .. n : i - 1 \in P => i \in P
  PROVE  \A i \in 0 .. n : i \in P
<1> DEFINE B == {i \in 0 .. n : i \notin P}
<1>1. ASSUME B # {} PROVE FALSE
  <2>0. B \in SUBSET Nat
    OBVIOUS
  <2>1. PICK m \in B : \A k \in B : ~(k < m)
    <3> HIDE DEF B
    <3> QED BY <1>1, <2>0, LeastNumber
  <2>2. m \in 1 .. n /\ m - 1 \in 0 .. n /\ m - 1 < m
    BY <2>1
  <2>3. m - 1 \in P
    BY <2>1, <2>2
  <2> QED BY <2>1, <2>2, <2>3
<1> QED BY <1>1

\* f has the value x0 at 0, and g gives each of its values from the one before.
DefinedBy(f, x0, n, g) == f[0] = x0 /\ \A i \in 1 .. n : f[i] = g[<<f[i - 1], i>>]

\* There is such a function.
LEMMA Recursion ==
  ASSUME NEW X, NEW x0 \in X, NEW n \in Nat, NEW g \in [X \X (1 .. n) -> X]
  PROVE  \E f \in [0 .. n -> X] : DefinedBy(f, x0, n, g)
<1> USE DEF DefinedBy
<1> DEFINE Defines(f, k) == f[0] = x0 /\ \A i \in 1 .. k : f[i] = g[<<f[i - 1], i>>]
           P == {k \in Nat : \E f \in [0 .. k -> X] : Defines(f, k)}
<1>1. 0 \in P
  <2> DEFINE f0 == [i \in 0 .. 0 |-> x0]
  <2>1. f0 \in [0 .. 0 -> X] /\ Defines(f0, 0)
    OBVIOUS
  <2> HIDE DEF Defines, f0
  <2> QED BY <2>1
<1>2. ASSUME NEW k \in 1 .. n, k - 1 \in P PROVE k \in P
  <2>1. PICK f \in [0 .. k - 1 -> X] : Defines(f, k - 1)
    BY <1>2
  <2>2. f[k - 1] \in X /\ g[<<f[k - 1], k>>] \in X
    OBVIOUS
  <2> DEFINE f2 == [i \in 0 .. k |-> IF i = k THEN g[<<f[k - 1], k>>] ELSE f[i]]
  <2>3. f2 \in [0 .. k -> X]
    BY <2>2
  <2>4. f2[0] = x0
    BY <2>1
  <2>5. \A i \in 1 .. k : f2[i] = g[<<f2[i - 1], i>>]
    <3> TAKE i \in 1 .. k
    <3>1. CASE i = k
      <4>1. k - 1 \in 0 .. k /\ k - 1 # k /\ k \in 0 .. k
        OBVIOUS
      <4>2. f2[k - 1] = f[k - 1] /\ f2[k] = g[<<f[k - 1], k>>]
        BY <4>1
      <4> HIDE DEF f2
      <4> QED BY <3>1, <4>2
    <3>2. CASE i # k
      <4>1. i \in 1 .. k - 1 /\ i - 1 \in 0 .. k /\ i - 1 # k /\ i \in 0 .. k
        BY <3>2
      <4>2. f2[i] = f[i] /\ f2[i - 1] = f[i - 1]
        BY <3>2, <4>1
      <4> HIDE DEF f2
      <4> QED BY <2>1, <4>1, <4>2
    <3> QED BY <3>1, <3>2
  <2> HIDE DEF f2
  <2> QED BY <2>3, <2>4, <2>5
<1>3. n \in P
  <2> HIDE DEF P
  <2> QED BY <1>1, <1>2, UpTo
<1> QED BY <1>3

\* The values of one are in X when g keeps them there.
LEMMA RecursionType ==
  ASSUME NEW X, NEW x0 \in X, NEW n \in Nat, NEW g \in [X \X (1 .. n) -> X],
         NEW h, h[0] = x0,
         \A i \in 1 .. n : h[i - 1] \in X => h[i] = g[<<h[i - 1], i>>]
  PROVE  \A i \in 0 .. n : h[i] \in X
<1> DEFINE Q == {i \in Nat : h[i] \in X}
<1>1. 0 \in Q
  OBVIOUS
<1>2. \A i \in 1 .. n : i - 1 \in Q => i \in Q
  <2> TAKE i \in 1 .. n
  <2> HAVE i - 1 \in Q
  <2>1. h[i - 1] \in X /\ i \in Nat
    OBVIOUS
  <2>2. h[i] = g[<<h[i - 1], i>>] /\ <<h[i - 1], i>> \in X \X (1 .. n)
    BY <2>1
  <2> QED BY <2>1, <2>2
<1>3. \A i \in 0 .. n : i \in Q
  <2> HIDE DEF Q
  <2> QED BY <1>1, <1>2, UpTo
<1> QED BY <1>3

\* A checksum is four bytes.
LEMMA CheckSumBytes ==
  ASSUME NEW s \in Seq(Byte)
  PROVE  adler32(s) \in Seq(Byte) /\ Len(adler32(s)) = 4
<1> DEFINE Sums == {k \in Nat : k <= 65520}
           X == Sums \X Sums
           n == Len(s)
           first(p, i) == (p[1] + s[i]) % 65521
           step(p, i) == <<first(p, i), (p[2] + first(p, i)) % 65521>>
           g == [q \in X \X (1 .. n) |-> step(q[1], q[2])]
           upTo == CHOOSE f : f = [i \in 0 .. n |->
                                     IF i = 0 THEN <<1, 0>> ELSE step(f[i - 1], i)]
<1>1. n \in Nat /\ \A i \in 1 .. n : s[i] \in Nat
  <2>1. n \in Nat /\ \A i \in 1 .. n : s[i] \in Byte
    BY LenProperties, ElementOfSeq
  <2>2. \A k \in Byte : k \in Nat
    BY DEF Byte
  <2> QED BY <2>1, <2>2
<1>a. /\ \A x, y \in Sums : <<x, y>> \in X
      /\ \A x \in X : x[1] \in Sums /\ x[2] \in Sums
  <2> HIDE DEF Sums
  <2> QED OBVIOUS
<1>2. <<1, 0>> \in X
  <2>1. 1 \in Sums /\ 0 \in Sums
    OBVIOUS
  <2> HIDE DEF X, Sums
  <2> QED BY <1>a, <2>1
<1> HIDE DEF X, n
<1>3. ASSUME NEW x \in X, NEW i \in 1 .. n PROVE step(x, i) \in X
  <2>1. x[1] \in Nat /\ x[2] \in Nat /\ s[i] \in Nat
    <3>1. x[1] \in Sums /\ x[2] \in Sums
      <4> HIDE DEF Sums
      <4> QED BY <1>a
    <3>2. \A k \in Sums : k \in Nat
      OBVIOUS
    <3>3. s[i] \in Nat
      BY <1>1
    <3> HIDE DEF Sums
    <3> QED BY <3>1, <3>2, <3>3
  <2>2. x[1] + s[i] \in Nat
    BY <2>1
  <2>3. \A k \in Nat : k % 65521 \in Sums
    OBVIOUS
  <2>4. first(x, i) \in Sums
    <3> HIDE DEF Sums
    <3> QED BY <2>2, <2>3
  <2>5. x[2] + first(x, i) \in Nat
    <3>0. \A k \in Sums : k \in Nat
      OBVIOUS
    <3>1. first(x, i) \in Nat
      <4> HIDE DEF first, Sums
      <4> QED BY <2>4, <3>0
    <3> HIDE DEF first, Sums
    <3> QED BY <2>1, <3>1
  <2>6. (x[2] + first(x, i)) % 65521 \in Sums
    <3> HIDE DEF first, Sums
    <3> QED BY <2>3, <2>5
  <2> HIDE DEF first, Sums
  <2> QED BY <1>a, <2>4, <2>6
<1> HIDE DEF step
<1>4. g \in [X \X (1 .. n) -> X]
  <2>1. \A q \in X \X (1 .. n) : step(q[1], q[2]) \in X
    BY <1>3
  <2> QED BY <2>1
<1>5. \A x \in X, i \in 1 .. n : g[<<x, i>>] = step(x, i)
  OBVIOUS
<1> HIDE DEF g
<1>6. PICK f \in [0 .. n -> X] :
        f[0] = <<1, 0>> /\ \A i \in 1 .. n : f[i] = g[<<f[i - 1], i>>]
  <2> DEFINE x0 == <<1, 0>>
  <2> HIDE DEF x0, upTo
  <2>1. \E f \in [0 .. n -> X] : DefinedBy(f, x0, n, g)
    <3>1. x0 \in X
      BY <1>2 DEF x0
    <3>2. n \in Nat
      BY <1>1
    <3> QED BY <1>4, <3>1, <3>2, Recursion
  <2> QED BY <2>1 DEF DefinedBy, x0
<1>7. f = [i \in 0 .. n |-> IF i = 0 THEN <<1, 0>> ELSE step(f[i - 1], i)]
  <2> HIDE DEF upTo
  <2>1. \A i \in 1 .. n : f[i - 1] \in X
    BY <1>1
  <2>2. \A i \in 1 .. n : f[i] = step(f[i - 1], i)
    BY <1>5, <1>6, <2>1
  <2>3. \A i \in 0 .. n : i = 0 \/ i \in 1 .. n
    BY <1>1
  <2> QED BY <1>6, <2>2, <2>3
<1>8. upTo = [i \in 0 .. n |-> IF i = 0 THEN <<1, 0>> ELSE step(upTo[i - 1], i)]
  BY <1>7, Zenon
<1> HIDE DEF upTo
<1>9. upTo[n] \in X
  <2>1. upTo[0] = <<1, 0>>
    BY <1>1, <1>8
  <2>2. \A i \in 1 .. n : upTo[i] = step(upTo[i - 1], i)
    <3> TAKE i \in 1 .. n
    <3>1. i \in 0 .. n /\ i # 0
      BY <1>1
    <3> QED BY <1>8, <3>1
  <2>3. \A i \in 1 .. n : upTo[i - 1] \in X => upTo[i] = g[<<upTo[i - 1], i>>]
    BY <1>5, <2>2
  <2> DEFINE x0 == <<1, 0>>
  <2> HIDE DEF x0
  <2>4. \A i \in 0 .. n : upTo[i] \in X
    <3>1. upTo[0] = x0 /\ x0 \in X
      BY <1>2, <2>1 DEF x0
    <3>2. n \in Nat
      BY <1>1
    <3> QED BY <1>4, <2>3, <3>1, <3>2, RecursionType
  <2> QED BY <1>1, <2>4
<1>10. adler32(s) = <<upTo[n][2] \div 256, upTo[n][2] % 256,
                      upTo[n][1] \div 256, upTo[n][1] % 256>>
  BY DEF adler32, upTo, n, step
<1>11. upTo[n][1] \in Sums /\ upTo[n][2] \in Sums
  <2> HIDE DEF Sums
  <2> QED BY <1>9, <1>a
<1>12. ASSUME NEW x \in Sums PROVE x \div 256 \in Byte /\ x % 256 \in Byte
  <2>1. x \div 256 \in Nat
    OBVIOUS
  <2>2. x \div 256 <= 255
    OBVIOUS
  <2>3. x % 256 \in Nat
    OBVIOUS
  <2>4. x % 256 <= 255
    OBVIOUS
  <2>5. \A k \in Nat : k <= 255 => k \in Byte
    BY DEF Byte
  <2> QED BY <2>1, <2>2, <2>3, <2>4, <2>5
<1>13. \A a, b, c, d \in Byte : <<a, b, c, d>> \in Seq(Byte) /\ Len(<<a, b, c, d>>) = 4
  OBVIOUS
<1> DEFINE x == upTo[n][1]
           y == upTo[n][2]
<1> HIDE DEF x, y, Sums
<1>15. x \div 256 \in Byte /\ x % 256 \in Byte /\ y \div 256 \in Byte /\ y % 256 \in Byte
  BY <1>11, <1>12 DEF x, y
<1>16. adler32(s) = <<y \div 256, y % 256, x \div 256, x % 256>>
  BY <1>10 DEF x, y
<1> QED BY <1>13, <1>15, <1>16
-----------------------------------------------------------------------------
(***************************************************************************)
(* The frame of a message.                                                 *)
(***************************************************************************)
\* An integer in network order takes four bytes.
LEMMA NetworkBytes ==
  ASSUME NEW x \in Nat
  PROVE  hostToNetwork32(x) \in Seq(Byte) /\ Len(hostToNetwork32(x)) = 4
<1> DEFINE a == (x \div 16777216) % 256
           b == (x \div 65536) % 256
           c == (x \div 256) % 256
           d == x % 256
<1>1. a \in Byte /\ b \in Byte /\ c \in Byte /\ d \in Byte
  BY DEF Byte
<1>2. hostToNetwork32(x) = <<a, b, c, d>>
  BY DEF hostToNetwork32
<1> HIDE DEF a, b, c, d
<1>3. <<a, b, c, d>> \in Seq(Byte) /\ Len(<<a, b, c, d>>) = 4
  BY <1>1
<1> QED BY <1>2, <1>3

\* It is read back from them, whatever follows, when it fits an int32.
LEMMA NetworkOrder ==
  ASSUME NEW x \in Nat, x <= MaxInt32, NEW s,
         \A i \in 1 .. 4 : s[i] = hostToNetwork32(x)[i]
  PROVE  networkToHost32(s) = x
<1> DEFINE a == (x \div 16777216) % 256
           b == (x \div 65536) % 256
           c == (x \div 256) % 256
           d == x % 256
<1>1. a < 128 /\ a * 16777216 + b * 65536 + c * 256 + d = x
  BY DEF MaxInt32
<1>2. hostToNetwork32(x) = <<a, b, c, d>>
  BY DEF hostToNetwork32
<1> HIDE DEF a, b, c, d
<1>3. s[1] = a /\ s[2] = b /\ s[3] = c /\ s[4] = d
  BY <1>2
<1> QED BY <1>1, <1>3 DEF networkToHost32

\* The length is read from the first four bytes alone.
LEMMA LengthRead ==
  ASSUME NEW s, NEW t, \A i \in 1 .. 4 : s[i] = t[i]
  PROVE  networkToHost32(s) = networkToHost32(t)
<1>1. s[1] = t[1] /\ s[2] = t[2] /\ s[3] = t[3] /\ s[4] = t[4]
  OBVIOUS
<1> QED BY <1>1 DEF networkToHost32

\* Two sequences joined, taken apart again.
LEMMA Joined ==
  ASSUME NEW S, NEW u \in Seq(S), NEW v \in Seq(S)
  PROVE  /\ u \o v \in Seq(S) /\ Len(u \o v) = Len(u) + Len(v)
         /\ SubSeq(u \o v, 1, Len(u)) = u
         /\ SubSeq(u \o v, Len(u) + 1, Len(u) + Len(v)) = v
         /\ \A i \in 1 .. Len(u) : (u \o v)[i] = u[i]
         /\ \A i \in 1 .. Len(v) : (u \o v)[Len(u) + i] = v[i]
<1> DEFINE w == u \o v
           n == Len(u)
           first == SubSeq(w, 1, n)
           rest == SubSeq(w, n + 1, Len(w))
<1>1. /\ w \in Seq(S) /\ Len(w) = n + Len(v) /\ n \in Nat /\ Len(v) \in Nat
      /\ \A i \in 1 .. n + Len(v) : w[i] = IF i <= n THEN u[i] ELSE v[i - n]
  <2>1. Len(u) \in Nat /\ Len(v) \in Nat
    BY LenProperties
  <2>2. /\ u \o v \in Seq(S) /\ Len(u \o v) = Len(u) + Len(v)
        /\ \A i \in 1 .. Len(u) + Len(v) :
             (u \o v)[i] = IF i <= Len(u) THEN u[i] ELSE v[i - Len(u)]
    BY ConcatProperties
  <2> QED BY <2>1, <2>2
<1> HIDE DEF w, n
<1>2. \A i \in 1 .. n : w[i] = u[i]
  BY <1>1
<1>3. \A i \in 1 .. Len(v) : w[n + i] = v[i]
  <2> TAKE i \in 1 .. Len(v)
  <2>1. PICK k \in 1 .. n + Len(v) : k = n + i /\ k - n = i /\ ~(k <= n)
    BY <1>1
  <2>2. w[k] = v[k - n]
    BY <1>1, <2>1
  <2> QED BY <2>1, <2>2
<1>4. /\ first \in Seq(S) /\ Len(first) = n
      /\ rest \in Seq(S) /\ Len(rest) = Len(w) - n
      /\ \A i \in 1 .. n : first[i] = w[i]
      /\ \A i \in 1 .. Len(w) - n : rest[i] = w[n + i]
  <2>1. n \in 0 .. Len(w)
    BY <1>1
  <2> QED BY <1>1, <2>1, Cut, ZenonT(60)
<1> HIDE DEF first, rest
<1>5. first = u
  <2>1. Len(first) = Len(u) /\ \A i \in 1 .. Len(first) : first[i] = u[i]
    BY <1>2, <1>4 DEF n
  <2> QED BY <1>4, <2>1, SeqEqual
<1>6. rest = v
  <2>1. Len(rest) = Len(v)
    BY <1>1, <1>4
  <2>2. Len(w) - n = Len(v)
    BY <1>1
  <2>3. \A i \in 1 .. Len(rest) : rest[i] = v[i]
    BY <1>3, <1>4, <2>1, <2>2
  <2> QED BY <1>4, <2>1, <2>3, SeqEqual
<1> QED BY <1>1, <1>2, <1>3, <1>5, <1>6 DEF w, n, first, rest

\* The bytes of the first of two sequences joined.
LEMMA JoinedFirst ==
  ASSUME NEW S, NEW u \in Seq(S), NEW v \in Seq(S)
  PROVE  \A i \in 1 .. Len(u) : (u \o v)[i] = u[i]
BY Joined

\* The bytes of the second one.
LEMMA JoinedSecond ==
  ASSUME NEW S, NEW u \in Seq(S), NEW v \in Seq(S)
  PROVE  \A i \in 1 .. Len(v) : (u \o v)[Len(u) + i] = v[i]
BY Joined

\* What the sender checksums, what follows the length, and the frame.
Name(m)    == Append(TypeName(m.type), 0)
Checked(m) == (hostToNetwork32(Len(Name(m))) \o Name(m)) \o Serialize(m)
Body(m)    == Checked(m) \o adler32(Checked(m))
FrameOf(m) == hostToNetwork32(Len(Body(m))) \o Body(m)

\* The parts of a frame are bytes, and as many as these.
LEMMA FrameParts ==
  ASSUME NEW m, Agreed(m)
  PROVE  /\ Name(m) \in Seq(Byte) /\ Len(Name(m)) = 2
         /\ Serialize(m) \in Seq(Byte)
         /\ hostToNetwork32(2) \in Seq(Byte)
         /\ hostToNetwork32(2) \o Name(m) \in Seq(Byte)
         /\ Len(hostToNetwork32(2) \o Name(m)) = 6
         /\ Checked(m) \in Seq(Byte) /\ Len(Checked(m)) = 6 + Len(Serialize(m))
         /\ adler32(Checked(m)) \in Seq(Byte) /\ Len(adler32(Checked(m))) = 4
         /\ Body(m) \in Seq(Byte) /\ Len(Body(m)) = 10 + Len(Serialize(m))
         /\ FrameOf(m) \in Seq(Byte) /\ Len(FrameOf(m)) = 4 + Len(Body(m))
<1>1. TypeName(m.type) \in Seq(Byte) /\ Serialize(m) \in Seq(Byte)
  BY ByteIs DEF Agreed
<1>2. Len(TypeName(m.type)) = 1
  BY DEF TypeName
<1>3. Name(m) \in Seq(Byte) /\ Len(Name(m)) = 2
  <2>1. 0 \in Byte
    BY DEF Byte
  <2>2. /\ Append(TypeName(m.type), 0) \in Seq(Byte)
        /\ Len(Append(TypeName(m.type), 0)) = Len(TypeName(m.type)) + 1
    BY <1>1, <2>1, AppendProperties
  <2> QED BY <1>2, <2>2 DEF Name
<1>4. hostToNetwork32(2) \in Seq(Byte) /\ Len(hostToNetwork32(2)) = 4
  BY NetworkBytes
<1> DEFINE front == hostToNetwork32(2) \o Name(m)
<1>5. front \in Seq(Byte) /\ Len(front) = 6
  <2> DEFINE two == hostToNetwork32(2)
  <2>0. two \in Seq(Byte) /\ Len(two) = 4
    BY <1>4
  <2> HIDE DEF two
  <2>1. two \o Name(m) \in Seq(Byte) /\ Len(two \o Name(m)) = Len(two) + Len(Name(m))
    BY <1>3, <2>0, ConcatProperties
  <2>2. Len(two) + Len(Name(m)) = 6
    BY <1>3, <2>0
  <2> QED BY <2>1, <2>2 DEF two
<1>6. Checked(m) = front \o Serialize(m)
  BY <1>3 DEF Checked
<1> HIDE DEF front
<1>7. Checked(m) \in Seq(Byte) /\ Len(Checked(m)) = 6 + Len(Serialize(m))
  <2>1. /\ Checked(m) \in Seq(Byte)
        /\ Len(Checked(m)) = Len(front) + Len(Serialize(m))
    BY <1>1, <1>5, <1>6, ConcatProperties, ZenonT(60)
  <2> QED BY <1>5, <2>1
<1>8. adler32(Checked(m)) \in Seq(Byte) /\ Len(adler32(Checked(m))) = 4
  BY <1>7, CheckSumBytes
<1>9. Body(m) \in Seq(Byte) /\ Len(Body(m)) = 10 + Len(Serialize(m))
  <2>1. /\ Body(m) \in Seq(Byte)
        /\ Len(Body(m)) = Len(Checked(m)) + Len(adler32(Checked(m)))
    BY <1>7, <1>8, ConcatProperties DEF Body
  <2>2. Len(Serialize(m)) \in Nat
    BY <1>1, LenProperties
  <2> QED BY <1>7, <1>8, <2>1, <2>2
<1>10. FrameOf(m) \in Seq(Byte) /\ Len(FrameOf(m)) = 4 + Len(Body(m))
  <2> DEFINE length == hostToNetwork32(Len(Body(m)))
  <2>1. Len(Body(m)) \in Nat
    BY <1>9, LenProperties
  <2>2. length \in Seq(Byte) /\ Len(length) = 4
    BY <2>1, NetworkBytes
  <2>3. FrameOf(m) = length \o Body(m)
    BY DEF FrameOf
  <2> HIDE DEF length
  <2>4. FrameOf(m) \in Seq(Byte) /\ Len(FrameOf(m)) = Len(length) + Len(Body(m))
    BY <1>9, <2>2, <2>3, ConcatProperties
  <2> QED BY <2>2, <2>4
<1> QED BY <1>1, <1>3, <1>4, <1>5, <1>7, <1>8, <1>9, <1>10 DEF front

\* A new buffer is sound and empty.
LEMMA NewIsSound == Sound(NewBuffer) /\ Contents(NewBuffer) = << >>
<1> DEFINE n == kCheapPrepend + kInitialSize
           zeros == [i \in 1 .. n |-> 0]
<1>1. n \in Nat /\ 8 <= n
  BY BufferAssumption DEF kCheapPrepend
<1>2. zeros \in Seq(Byte) /\ Len(zeros) = n
  <2>1. 0 \in Byte
    BY DEF Byte
  <2> HIDE DEF n
  <2> QED BY <1>1, <2>1
<1> HIDE DEF n, zeros
<1>3. NewBuffer = [mem |-> zeros, reader |-> 8, writer |-> 8, ok |-> TRUE]
  BY DEF NewBuffer, zeros, n, kCheapPrepend
<1>4. Sound(NewBuffer)
  BY <1>1, <1>2, <1>3 DEF Sound, IsBuffer, BufferOK, kCheapPrepend
<1>5. Contents(NewBuffer) = << >>
  <2>1. Contents(NewBuffer) \in Seq(Byte) /\ Len(Contents(NewBuffer)) = 0
    <3>1. readableBytes(NewBuffer) = 0
      BY <1>3 DEF readableBytes
    <3> QED BY <1>4, <3>1, ContentsOf
  <2> QED BY <2>1
<1> QED BY <1>4, <1>5

\* fillEmptyBuffer fails no assert and leaves the frame of the message in the
\* buffer: the payload is written into space ensured for the computed size,
\* which is the size written, and there is room for the length in front
\* (codec.cc, fillEmptyBuffer).
LEMMA Filled ==
  ASSUME NEW m, Agreed(m)
  PROVE  fillEmptyBuffer(m).ok = TRUE /\ Contents(fillEmptyBuffer(m)) = FrameOf(m)
<1> DEFINE name == Name(m)
           data == Serialize(m)
           length == hostToNetwork32(2)
           b1 == append(NewBuffer, length)
           b2 == append(b1, name)
           roomy == ensureWritableBytes(b2, Len(data))
           b3 == hasWritten(Copy(roomy, roomy.writer, data), Len(data))
           b4 == append(b3, adler32(Contents(b3)))
           b5 == prepend(b4, hostToNetwork32(readableBytes(b4)))
<1>1. /\ name \in Seq(Byte) /\ Len(name) = 2 /\ data \in Seq(Byte) /\ Len(data) \in Nat
      /\ length \in Seq(Byte) /\ length \o name \in Seq(Byte)
      /\ Checked(m) \in Seq(Byte) /\ adler32(Checked(m)) \in Seq(Byte)
      /\ Body(m) \in Seq(Byte) /\ Len(Body(m)) \in Nat
      /\ ByteSizeLong(m) = Len(data)
  BY FrameParts, LenProperties DEF Agreed
<1>2. Checked(m) = (length \o name) \o data
  BY <1>1 DEF Checked
<1> HIDE DEF name, data, length, b1, b2, roomy, b3, b4, b5
<1>3. Sound(b1) /\ Contents(b1) = length
  <2>1. Sound(b1) /\ Contents(b1) = << >> \o length
    BY <1>1, NewIsSound, Appended DEF b1
  <2> QED BY <1>1, <2>1, ConcatEmptySeq
<1>4. Sound(b2) /\ Contents(b2) = length \o name
  BY <1>1, <1>3, Appended DEF b2
<1>5. Sound(roomy) /\ Len(data) <= writableBytes(roomy) /\ Contents(roomy) = length \o name
  BY <1>1, <1>4, RoomEnsured DEF roomy
<1>6. Sound(b3) /\ Contents(b3) = Checked(m)
  BY <1>1, <1>2, <1>5, Written DEF b3
<1>7. Sound(b4) /\ Contents(b4) = Body(m)
  BY <1>1, <1>6, Appended DEF b4, Body
<1>8. readableBytes(b4) = Len(Body(m)) /\ 8 <= prependableBytes(b4)
  BY <1>7, ContentsOf, Indices
<1>9. b5.ok = TRUE /\ Contents(b5) = FrameOf(m)
  <2> DEFINE front == hostToNetwork32(Len(Body(m)))
  <2>1. front \in Seq(Byte) /\ Len(front) <= 8
    <3>1. Len(Body(m)) \in Nat
      BY <1>1
    <3>2. front \in Seq(Byte) /\ Len(front) = 4
      BY <3>1, NetworkBytes
    <3> QED BY <3>2
  <2>2. b5 = prepend(b4, front)
    BY <1>8 DEF b5
  <2> HIDE DEF front
  <2>3. Len(front) <= prependableBytes(b4)
    <3>1. prependableBytes(b4) \in Nat /\ Len(front) \in Nat
      BY <1>7, <2>1, Indices, LenProperties
    <3> QED BY <1>8, <2>1, <3>1
  <2>4. b5.ok = TRUE /\ Contents(b5) = front \o Contents(b4)
    BY <1>7, <2>1, <2>2, <2>3, Prepended
  <2> QED BY <1>7, <2>4 DEF FrameOf, front
<1>10. WithPayload(b2, ByteSizeLong(m), data) = b3
  <2>1. WithPayload(b2, Len(data), data) = Asserting(b3, Len(data) = Len(data))
    BY DEF WithPayload, b3, roomy
  <2>2. Asserting(b3, Len(data) = Len(data)) = b3
    BY <1>6, AssertHolds DEF Sound, BufferOK
  <2> QED BY <1>1, <2>1, <2>2
<1>11. fillEmptyBuffer(m) = b5
  <2>1. WithName(NewBuffer, name) = b2
    <3>1. Asserting(NewBuffer, readableBytes(NewBuffer) = 0) = NewBuffer
      <4>1. readableBytes(NewBuffer) = 0
        BY NewIsSound, ContentsOf
      <4> QED BY <4>1, NewIsSound, AssertHolds DEF Sound, BufferOK
    <3> QED BY <1>1, <3>1 DEF WithName, appendInt32, b2, b1, length
  <2> DEFINE size == kHeaderLen + Len(name) + Len(data) + kHeaderLen
  <2>2. WithCheckSum(b3, size) = b4
    <3>1. readableBytes(b4) = size
      <4>1. Len(Body(m)) = 10 + Len(data)
        BY FrameParts DEF data
      <4> QED BY <1>1, <1>8, <4>1 DEF kHeaderLen
    <3>2. WithCheckSum(b3, size) = Asserting(b4, readableBytes(b4) = size)
      BY DEF WithCheckSum, b4
    <3>3. Asserting(b4, readableBytes(b4) = size) = b4
      BY <1>7, <3>1, AssertHolds DEF Sound, BufferOK
    <3> QED BY <3>2, <3>3
  <2>3. WithLength(b4) = b5
    BY DEF WithLength, b5
  <2>4. fillEmptyBuffer(m)
          = WithLength(WithCheckSum(WithPayload(WithName(NewBuffer, name), ByteSizeLong(m), data),
                                    size))
    BY <1>1 DEF fillEmptyBuffer, name, Name, data
  <2> QED BY <1>10, <2>1, <2>2, <2>3, <2>4
<1> QED BY <1>9, <1>11
-----------------------------------------------------------------------------
(***************************************************************************)
(* Frames: the sequences of a sequence joined.                             *)
(***************************************************************************)
\* f[i] is the first i sequences of s joined.
Joins(f, s, S) ==
  /\ f[0] = << >>
  /\ \A i \in 0 .. Len(s) : f[i] \in Seq(S)
  /\ \A i \in 1 .. Len(s) : f[i] = f[i - 1] \o s[i]

\* There is such a function.
LEMMA JoinsExists ==
  ASSUME NEW S, NEW s \in Seq(Seq(S))
  PROVE  \E f : Joins(f, s, S)
<1> DEFINE n == Len(s)
           X == Seq(S)
           x0 == << >>
           g == [q \in X \X (1 .. n) |-> q[1] \o s[q[2]]]
<1>1. n \in Nat /\ \A i \in 1 .. n : s[i] \in X
  BY LenProperties, ElementOfSeq
<1>2. x0 \in X
  OBVIOUS
<1>3. \A x \in X, i \in 1 .. n : x \o s[i] \in X
  BY <1>1, ConcatProperties
<1> HIDE DEF X, n
<1>4. g \in [X \X (1 .. n) -> X]
  <2>1. \A q \in X \X (1 .. n) : q[1] \o s[q[2]] \in X
    BY <1>3
  <2> QED BY <2>1
<1>5. \A x \in X, i \in 1 .. n : g[<<x, i>>] = x \o s[i]
  OBVIOUS
<1> HIDE DEF g, x0
<1>6. PICK f \in [0 .. n -> X] : DefinedBy(f, x0, n, g)
  BY <1>1, <1>2, <1>4, Recursion
<1>7. \A i \in 0 .. n : f[i] \in X
  OBVIOUS
<1>8. ASSUME NEW i \in 1 .. n PROVE f[i] = f[i - 1] \o s[i]
  <2>1. i - 1 \in 0 .. n
    BY <1>1
  <2>2. f[i] = g[<<f[i - 1], i>>]
    BY <1>6 DEF DefinedBy
  <2> QED BY <1>5, <1>7, <2>1, <2>2
<1>9. f[0] = << >>
  BY <1>6 DEF DefinedBy, x0
<1>10. Joins(f, s, S)
  BY <1>7, <1>8, <1>9 DEF Joins, X, n
<1> QED BY <1>10

\* FlattenSeq is its last value.
LEMMA FlattenIsJoined ==
  ASSUME NEW S, NEW s \in Seq(Seq(S)), NEW f, Joins(f, s, S)
  PROVE  FlattenSeq(s) = f[Len(s)]
<1> DEFINE n == Len(s)
           flatten == CHOOSE e : e = [i \in 1 .. n |->
                                        IF i = 1 THEN s[i] ELSE e[i - 1] \o s[i]]
<1>0. n \in Nat
  BY LenProperties
<1>1. CASE n = 0
  <2>1. s = << >>
    BY <1>1
  <2> QED BY <1>1, <2>1 DEF FlattenSeq, Joins
<1>2. CASE n # 0
  <2> DEFINE h == [i \in 1 .. n |-> f[i]]
  <2>0. \A i \in 1 .. n : s[i] \in Seq(S)
    BY ElementOfSeq
  <2>1. \A i \in 1 .. n : f[i] = f[i - 1] \o s[i]
    BY DEF Joins
  <2>2. f[0] = << >>
    BY DEF Joins
  <2>3. ASSUME NEW i \in 1 .. n
        PROVE  h[i] = IF i = 1 THEN s[i] ELSE h[i - 1] \o s[i]
    <3>1. CASE i = 1
      <4>1. f[1] = << >> \o s[1]
        <5>1. f[i] = f[i - 1] \o s[i]
          BY <2>1
        <5>2. i - 1 = 0
          BY <3>1
        <5>3. f[i - 1] = << >>
          BY <2>2, <5>2
        <5> QED BY <3>1, <5>1, <5>3
      <4> QED BY <2>0, <3>1, <4>1, ConcatEmptySeq
    <3>2. CASE i # 1
      <4>1. i - 1 \in 1 .. n
        BY <1>0, <3>2
      <4> QED BY <2>1, <3>2, <4>1
    <3> QED BY <3>1, <3>2
  <2>4. h = [i \in 1 .. n |-> IF i = 1 THEN s[i] ELSE h[i - 1] \o s[i]]
    <3>1. h = [i \in 1 .. n |-> h[i]]
      OBVIOUS
    <3> HIDE DEF h
    <3> QED BY <2>3, <3>1
  <2> HIDE DEF h, n
  <2>5. flatten = [i \in 1 .. n |-> IF i = 1 THEN s[i] ELSE flatten[i - 1] \o s[i]]
    BY <2>4, Zenon
  <2>6. FlattenSeq(s) = flatten[n]
    BY <1>2 DEF FlattenSeq, n
  <2> HIDE DEF flatten
  <2> DEFINE Q == {i \in Nat : i = 0 \/ flatten[i] = f[i]}
  <2>7. 0 \in Q
    OBVIOUS
  <2>8. ASSUME NEW i \in 1 .. n, i - 1 \in Q PROVE i \in Q
    <3>1. CASE i = 1
      <4>1. flatten[1] = s[1] /\ s[1] \in Seq(S)
        BY <2>0, <2>5, <3>1
      <4>2. f[1] = << >> \o s[1]
        <5>1. f[i] = f[i - 1] \o s[i]
          BY <2>1
        <5>2. i - 1 = 0
          BY <3>1
        <5>3. f[i - 1] = << >>
          BY <2>2, <5>2
        <5> QED BY <3>1, <5>1, <5>3
      <4> QED BY <3>1, <4>1, <4>2, ConcatEmptySeq
    <3>2. CASE i # 1
      <4>1. flatten[i] = flatten[i - 1] \o s[i]
        BY <2>5, <3>2
      <4>2. flatten[i - 1] = f[i - 1]
        BY <2>8, <3>2
      <4>3. f[i] = f[i - 1] \o s[i]
        BY <2>1
      <4> HIDE DEF Q
      <4>4. flatten[i] = f[i]
        BY <4>1, <4>2, <4>3
      <4> QED BY <4>4 DEF Q
    <3> QED BY <3>1, <3>2
  <2>9. \A i \in 0 .. n : i \in Q
    <3> HIDE DEF Q
    <3> QED BY <1>0, <2>7, <2>8, UpTo
  <2>10. flatten[n] = f[n]
    BY <1>0, <1>2, <2>9
  <2> QED BY <2>6, <2>10 DEF n
<1> QED BY <1>1, <1>2

\* One more sequence comes last.
LEMMA FlattenAppend ==
  ASSUME NEW S, NEW s \in Seq(Seq(S)), NEW x \in Seq(S)
  PROVE  /\ FlattenSeq(s) \in Seq(S)
         /\ FlattenSeq(Append(s, x)) = FlattenSeq(s) \o x
<1> DEFINE n == Len(s)
           t == Append(s, x)
<1>1. /\ n \in Nat /\ t \in Seq(Seq(S)) /\ Len(t) = n + 1
      /\ \A i \in 1 .. n : t[i] = s[i]
      /\ t[n + 1] = x
  BY LenProperties, AppendProperties
<1> HIDE DEF t, n
<1>2. PICK f : Joins(f, t, S)
  BY <1>1, JoinsExists
<1>3. Joins(f, s, S)
  <2>1. f[0] = << >>
    BY <1>2 DEF Joins
  <2>2. ASSUME NEW i \in 0 .. n PROVE f[i] \in Seq(S)
    <3>1. i \in 0 .. n + 1
      BY <1>1
    <3> QED BY <1>1, <1>2, <3>1 DEF Joins
  <2>3. ASSUME NEW i \in 1 .. n PROVE f[i] = f[i - 1] \o s[i]
    <3>1. i \in 1 .. n + 1
      BY <1>1
    <3> QED BY <1>1, <1>2, <3>1 DEF Joins
  <2> QED BY <2>1, <2>2, <2>3 DEF Joins, n
<1>4. FlattenSeq(s) = f[n] /\ f[n] \in Seq(S)
  <2>1. FlattenSeq(s) = f[n]
    BY <1>3, FlattenIsJoined DEF n
  <2>2. n \in 0 .. n
    BY <1>1
  <2> QED BY <1>3, <2>1, <2>2 DEF Joins, n
<1>5. FlattenSeq(t) = f[n + 1]
  BY <1>1, <1>2, FlattenIsJoined
<1>6. f[n + 1] = f[n] \o x
  <2>1. n + 1 \in 1 .. n + 1 /\ (n + 1) - 1 = n
    BY <1>1
  <2>2. f[n + 1] = f[(n + 1) - 1] \o t[n + 1]
    BY <1>1, <1>2, <2>1 DEF Joins
  <2> QED BY <1>1, <2>1, <2>2
<1> QED BY <1>4, <1>5, <1>6 DEF t

\* Joining goes on in the same way when x is put in front of it all.
LEMMA JoinsAfter ==
  ASSUME NEW S, NEW x \in Seq(S), NEW u \in Seq(S), NEW v \in Seq(S), NEW w, w = u \o v
  PROVE  x \o w = (x \o u) \o v
<1>1. (x \o u) \o v = x \o (u \o v)
  BY ConcatAssociative
<1> QED BY <1>1

\* t is s with a sequence in front of the others.
Precedes(s, t, S) ==
  /\ s \in Seq(Seq(S)) /\ t \in Seq(Seq(S))
  /\ Len(t) = Len(s) + 1
  /\ \A i \in 1 .. Len(s) : t[i + 1] = s[i]

\* The first sequence comes first.
LEMMA FlattenFirst ==
  ASSUME NEW S, NEW s, NEW t, Precedes(s, t, S)
  PROVE  FlattenSeq(t) = t[1] \o FlattenSeq(s)
<1> DEFINE n == Len(s)
           x == t[1]
<1>1. n \in Nat /\ x \in Seq(S) /\ \A i \in 1 .. n : s[i] \in Seq(S) /\ t[i + 1] = s[i]
  <2>1. n \in Nat
    BY LenProperties DEF Precedes
  <2>2. \A i \in 1 .. n + 1 : t[i] \in Seq(S)
    BY ElementOfSeq DEF Precedes
  <2>3. \A i \in 1 .. n : s[i] \in Seq(S)
    BY ElementOfSeq DEF Precedes
  <2>4. 1 \in 1 .. n + 1
    BY <2>1
  <2> QED BY <2>1, <2>2, <2>3, <2>4 DEF Precedes
<1> HIDE DEF n, x
<1>2. PICK f : Joins(f, s, S)
  BY JoinsExists DEF Precedes
<1>3. /\ f[0] = << >>
      /\ \A i \in 0 .. n : f[i] \in Seq(S)
      /\ \A i \in 1 .. n : f[i] = f[i - 1] \o s[i]
  BY <1>2 DEF Joins, n
<1> DEFINE h == [i \in 0 .. n + 1 |-> IF i = 0 THEN << >> ELSE x \o f[i - 1]]
<1>4. h[0] = << >>
  BY <1>1
<1>5. ASSUME NEW k \in 0 .. n
      PROVE  h[k + 1] = x \o f[k] /\ h[k + 1] \in Seq(S) /\ f[k] \in Seq(S)
  <2>1. k + 1 \in 0 .. n + 1 /\ k + 1 # 0 /\ (k + 1) - 1 = k
    BY <1>1
  <2>2. h[k + 1] = x \o f[k]
    BY <2>1
  <2> HIDE DEF h
  <2>3. f[k] \in Seq(S)
    BY <1>3
  <2>4. x \o f[k] \in Seq(S)
    BY <1>1, <2>3, ConcatProperties
  <2> QED BY <2>2, <2>3, <2>4
<1> HIDE DEF h
<1>6. h[1] = h[0] \o t[1]
  <2>1. h[1] = x \o f[0]
    <3>1. 0 \in 0 .. n /\ 0 + 1 = 1
      BY <1>1
    <3> QED BY <1>5, <3>1
  <2>2. x \o << >> = x /\ << >> \o x = x
    BY <1>1, ConcatEmptySeq
  <2> QED BY <1>3, <1>4, <2>1, <2>2 DEF x
<1>7. ASSUME NEW k \in 1 .. n PROVE h[k + 1] = h[k] \o t[k + 1]
  <2>1. PICK j \in 0 .. n : j + 1 = k /\ j = k - 1
    BY <1>1
  <2>2. k \in 0 .. n
    BY <1>1
  <2>3. f[k] = f[j] \o s[k] /\ f[j] \in Seq(S) /\ s[k] \in Seq(S)
    BY <1>1, <1>3, <2>1
  <2>4. h[k] = x \o f[j] /\ h[k + 1] = x \o f[k]
    BY <1>5, <2>1, <2>2
  <2>5. x \o f[k] = (x \o f[j]) \o s[k]
    <3>1. x \in Seq(S)
      BY <1>1
    <3>2. PICK u, v \in Seq(S) : u = f[j] /\ v = s[k]
      BY <2>3
    <3>3. f[k] = u \o v
      BY <2>3, <3>2
    <3>4. x \o f[k] = (x \o u) \o v
      BY <3>1, <3>3, JoinsAfter, SMTT(60)
    <3> QED BY <3>2, <3>4
  <2> QED BY <1>1, <2>4, <2>5
<1>8. Joins(h, t, S)
  <2>1. \A i \in 0 .. n + 1 : h[i] \in Seq(S)
    <3> TAKE i \in 0 .. n + 1
    <3>1. CASE i = 0
      <4>1. << >> \in Seq(S)
        OBVIOUS
      <4> QED BY <1>4, <3>1, <4>1
    <3>2. CASE i # 0
      <4>1. PICK k \in 0 .. n : k + 1 = i
        BY <1>1, <3>2
      <4> QED BY <1>5, <4>1
    <3> QED BY <3>1, <3>2
  <2>2. \A i \in 1 .. n + 1 : h[i] = h[i - 1] \o t[i]
    <3> TAKE i \in 1 .. n + 1
    <3>1. CASE i = 1
      <4>1. 1 - 1 = 0
        OBVIOUS
      <4> QED BY <1>6, <3>1, <4>1
    <3>2. CASE i # 1
      <4>1. PICK k \in 1 .. n : k + 1 = i /\ i - 1 = k
        BY <1>1, <3>2
      <4> QED BY <1>7, <4>1
    <3> QED BY <3>1, <3>2
  <2> QED BY <1>4, <2>1, <2>2 DEF Joins, n, Precedes
<1>9. FlattenSeq(t) = h[n + 1]
  BY <1>8, FlattenIsJoined DEF n, Precedes
<1>10. FlattenSeq(s) = f[n]
  BY <1>2, FlattenIsJoined DEF n, Precedes
<1>11. h[n + 1] = x \o f[n]
  <2>1. n \in 0 .. n
    BY <1>1
  <2> QED BY <1>5, <2>1
<1> QED BY <1>9, <1>10, <1>11 DEF x
-----------------------------------------------------------------------------
(***************************************************************************)
(* Reading a frame.                                                        *)
(***************************************************************************)
\* A part of a sequence, known byte by byte.
LEMMA PartIs ==
  ASSUME NEW S, NEW s \in Seq(S), NEW t \in Seq(S), NEW m \in Nat,
         m + Len(t) <= Len(s), \A i \in 1 .. Len(t) : s[m + i] = t[i]
  PROVE  SubSeq(s, m + 1, m + Len(t)) = t
<1> DEFINE n == m + Len(t)
           part == SubSeq(s, m + 1, n)
<1>1. Len(s) \in Nat /\ Len(t) \in Nat /\ \A i \in 1 .. Len(s) : s[i] \in S
  BY LenProperties, ElementOfSeq
<1>2. m + 1 \in Int /\ n \in Int /\ \A i \in m + 1 .. n : s[i] \in S
  BY <1>1
<1>3. /\ part \in Seq(S) /\ Len(part) = IF m + 1 <= n THEN n - (m + 1) + 1 ELSE 0
      /\ \A i \in 1 .. n - (m + 1) + 1 : part[i] = s[m + 1 + i - 1]
  <2> HIDE DEF n
  <2> QED BY <1>2, SubSeqProperties
<1> HIDE DEF part
<1>4. Len(part) = Len(t) /\ n - (m + 1) + 1 = Len(t)
  BY <1>1, <1>3
<1>5. \A i \in 1 .. Len(t) : part[i] = t[i]
  <2> TAKE i \in 1 .. Len(t)
  <2>1. m + 1 + i - 1 = m + i
    BY <1>1
  <2>2. i \in 1 .. n - (m + 1) + 1
    BY <1>4
  <2>3. part[i] = s[m + 1 + i - 1]
    BY <1>3, <2>2
  <2> QED BY <2>1, <2>3
<1>6. part = t
  BY <1>3, <1>4, <1>5, SeqEqual
<1> QED BY <1>6 DEF part, n

\* What the sender framed is what parse finds: the checksum is right, the name
\* names the type, and the payload reads back (codec.cc, parse).
LEMMA ParsesBack ==
  ASSUME NEW m, Agreed(m)
  PROVE  parse(Body(m)) = Success(m)
<1> DEFINE s == Body(m)
           c == Checked(m)
           sum == adler32(c)
           front == hostToNetwork32(2) \o Name(m)
           name == TypeName(m.type)
           data == Serialize(m)
           length == hostToNetwork32(2)
<1>1. /\ Name(m) \in Seq(Byte) /\ Len(Name(m)) = 2
      /\ data \in Seq(Byte) /\ Len(data) \in Nat
      /\ length \in Seq(Byte) /\ Len(length) = 4
      /\ front \in Seq(Byte) /\ Len(front) = 6
      /\ c \in Seq(Byte) /\ Len(c) = 6 + Len(data)
      /\ sum \in Seq(Byte) /\ Len(sum) = 4
      /\ s \in Seq(Byte) /\ Len(s) = 10 + Len(data)
  BY FrameParts, LenProperties, NetworkBytes
<1>2. s = c \o sum /\ c = front \o data /\ front = length \o Name(m)
  BY <1>1, SMTT(60) DEF Body, Checked
<1>3. name \in Seq(Byte) /\ Len(name) = 1 /\ Name(m) = Append(name, 0)
  BY ByteIs DEF Agreed, Name, TypeName
<1>4. /\ ByteSizeLong(m) = Len(data)
      /\ createMessage(name) = {New(m.type)}
      /\ ParseFromArray(New(m.type), data) = [ok |-> TRUE, message |-> m]
  BY DEF Agreed
<1> HIDE DEF s, c, sum, front, name, data, length
<1>5. \A i \in 1 .. 6 + Len(data) : s[i] = c[i]
  <2>1. c \in Seq(Byte) /\ sum \in Seq(Byte) /\ s = c \o sum
    BY <1>1, <1>2
  <2>2. \A i \in 1 .. Len(c) : (c \o sum)[i] = c[i]
    BY <2>1, JoinedFirst
  <2> QED BY <1>1, <2>1, <2>2
<1>6. \A i \in 1 .. 4 : s[6 + Len(data) + i] = sum[i]
  <2>1. c \in Seq(Byte) /\ sum \in Seq(Byte) /\ s = c \o sum
    BY <1>1, <1>2
  <2>2. \A i \in 1 .. Len(sum) : (c \o sum)[Len(c) + i] = sum[i]
    BY <2>1, JoinedSecond
  <2> QED BY <1>1, <2>1, <2>2
<1>7. \A i \in 1 .. 6 : c[i] = front[i]
  <2>1. front \in Seq(Byte) /\ data \in Seq(Byte) /\ c = front \o data
    BY <1>1, <1>2
  <2>2. \A i \in 1 .. Len(front) : (front \o data)[i] = front[i]
    BY <2>1, JoinedFirst
  <2> QED BY <1>1, <2>1, <2>2
<1>8. \A i \in 1 .. Len(data) : c[6 + i] = data[i]
  <2>1. front \in Seq(Byte) /\ data \in Seq(Byte) /\ c = front \o data
    BY <1>1, <1>2
  <2>2. \A i \in 1 .. Len(data) : (front \o data)[Len(front) + i] = data[i]
    BY <2>1, JoinedSecond
  <2> QED BY <1>1, <2>1, <2>2
<1>9. \A i \in 1 .. 4 : front[i] = length[i]
  <2>1. length \in Seq(Byte) /\ Name(m) \in Seq(Byte) /\ front = length \o Name(m)
    BY <1>1, <1>2
  <2>2. \A i \in 1 .. Len(length) : (length \o Name(m))[i] = length[i]
    BY <2>1, JoinedFirst
  <2> QED BY <1>1, <2>1, <2>2
<1>10. front[5] = name[1]
  <2>1. /\ length \in Seq(Byte) /\ Name(m) \in Seq(Byte) /\ front = length \o Name(m)
        /\ Len(length) = 4 /\ Len(Name(m)) = 2
    BY <1>1, <1>2
  <2>2. front[4 + 1] = Name(m)[1]
    <3>0. length \in Seq(Byte) /\ Name(m) \in Seq(Byte)
      BY <1>1
    <3>1. \A i \in 1 .. Len(Name(m)) : (length \o Name(m))[Len(length) + i] = Name(m)[i]
      BY <3>0, JoinedSecond
    <3>2. 1 \in 1 .. Len(Name(m))
      BY <2>1
    <3> QED BY <2>1, <3>1, <3>2
  <2>3. Name(m)[1] = name[1]
    BY <1>3, ByteIs, AppendProperties
  <2> QED BY <2>2, <2>3
<1>11. networkToHost32(s) = 2
  <2>1. \A i \in 1 .. 4 : s[i] = hostToNetwork32(2)[i]
    <3> TAKE i \in 1 .. 4
    <3>1. i \in 1 .. 6 + Len(data) /\ i \in 1 .. 6
      BY <1>1
    <3>2. s[i] = length[i]
      BY <1>5, <1>7, <1>9, <3>1
    <3> QED BY <3>2 DEF length
  <2>2. 2 <= MaxInt32 /\ 2 \in Nat
    BY DEF MaxInt32
  <2> QED BY <2>1, <2>2, NetworkOrder
<1>12. SubSeq(s, Len(s) - kHeaderLen + 1, Len(s)) = sum
  <2>1. 6 + Len(data) \in Nat /\ 6 + Len(data) + Len(sum) <= Len(s)
    BY <1>1
  <2>2. SubSeq(s, 6 + Len(data) + 1, 6 + Len(data) + Len(sum)) = sum
    BY <1>1, <1>6, <2>1, PartIs
  <2>3. Len(s) - kHeaderLen + 1 = 6 + Len(data) + 1 /\ Len(s) = 6 + Len(data) + Len(sum)
    BY <1>1 DEF kHeaderLen
  <2> QED BY <2>2, <2>3
<1>13. SubSeq(s, 1, Len(s) - kHeaderLen) = c
  <2>1. \A i \in 1 .. Len(c) : s[0 + i] = c[i]
    BY <1>1, <1>5
  <2>2. 0 + Len(c) <= Len(s)
    BY <1>1
  <2>3. SubSeq(s, 0 + 1, 0 + Len(c)) = c
    BY <1>1, <2>1, <2>2, PartIs
  <2>4. 0 + Len(c) = Len(s) - kHeaderLen /\ 0 + 1 = 1
    BY <1>1 DEF kHeaderLen
  <2> QED BY <2>3, <2>4
<1>14. SubSeq(s, kHeaderLen + 1, kHeaderLen + 2 - 1) = name
  <2>1. \A i \in 1 .. Len(name) : s[4 + i] = name[i]
    <3>1. s[5] = name[1]
      <4>1. 5 \in 1 .. 6 + Len(data) /\ 5 \in 1 .. 6
        BY <1>1
      <4> QED BY <1>5, <1>7, <1>10, <4>1
    <3>2. \A i \in 1 .. Len(name) : i = 1 /\ 4 + i = 5
      BY <1>3
    <3> QED BY <3>1, <3>2
  <2>2. 4 + Len(name) <= Len(s)
    BY <1>1, <1>3
  <2>3. SubSeq(s, 4 + 1, 4 + Len(name)) = name
    BY <1>1, <1>3, <2>1, <2>2, PartIs
  <2>4. kHeaderLen + 1 = 4 + 1 /\ kHeaderLen + 2 - 1 = 4 + Len(name)
    BY <1>3 DEF kHeaderLen
  <2> QED BY <2>3, <2>4
<1>15. SubSeq(s, kHeaderLen + 2 + 1, Len(s) - kHeaderLen) = data
  <2>1. \A i \in 1 .. Len(data) : s[6 + i] = data[i]
    <3> TAKE i \in 1 .. Len(data)
    <3>1. 6 + i \in 1 .. 6 + Len(data)
      BY <1>1
    <3> QED BY <1>5, <1>8, <3>1
  <2>2. 6 + Len(data) <= Len(s)
    BY <1>1
  <2>3. SubSeq(s, 6 + 1, 6 + Len(data)) = data
    BY <1>1, <2>1, <2>2, PartIs
  <2>4. kHeaderLen + 2 + 1 = 6 + 1 /\ Len(s) - kHeaderLen = 6 + Len(data)
    BY <1>1 DEF kHeaderLen
  <2> QED BY <2>3, <2>4
<1>16. ParsePayload(createMessage(name), data) = Success(m)
  <2>1. (CHOOSE k \in {New(m.type)} : TRUE) = New(m.type)
    OBVIOUS
  <2> QED BY <1>4, <2>1 DEF ParsePayload
<1>17. ParseNamed(s, 2) = Success(m)
  <2>1. 2 \in 2 .. Len(s) - 2 * kHeaderLen
    BY <1>1 DEF kHeaderLen
  <2> QED BY <1>14, <1>15, <1>16, <2>1 DEF ParseNamed
<1>18. parse(s) = Success(m)
  BY <1>11, <1>12, <1>13, <1>17 DEF parse, sum
<1> QED BY <1>18 DEF s
-----------------------------------------------------------------------------
(***************************************************************************)
(* The stream.                                                             *)
(***************************************************************************)
\* When two ways to cut the same bytes in two are given, the shorter first
\* part is where the longer one begins, and what the longer one has beyond it
\* begins the other's rest.
LEMMA Overlap ==
  ASSUME NEW S, NEW u \in Seq(S), NEW v \in Seq(S), NEW w \in Seq(S), NEW x \in Seq(S),
         u \o v = w \o x
  PROVE  /\ \A i \in 1 .. Len(u) : i <= Len(w) => u[i] = w[i]
         /\ Len(w) <= Len(u) => SubSeq(u, Len(w) + 1, Len(u)) \o v = x
<1>1. Len(u) \in Nat /\ Len(v) \in Nat /\ Len(w) \in Nat /\ Len(x) \in Nat
  BY LenProperties
<1>2. \A i \in 1 .. Len(u) : (u \o v)[i] = u[i]
  BY JoinedFirst
<1>3. \A i \in 1 .. Len(w) : (w \o x)[i] = w[i]
  BY JoinedFirst
<1>4. ASSUME NEW i \in 1 .. Len(u), i <= Len(w) PROVE u[i] = w[i]
  <2>1. i \in 1 .. Len(w)
    BY <1>1, <1>4
  <2> QED BY <1>2, <1>3, <2>1
<1>5. ASSUME Len(w) <= Len(u) PROVE SubSeq(u, Len(w) + 1, Len(u)) \o v = x
  <2> DEFINE first == SubSeq(u, 1, Len(w))
             rest == SubSeq(u, Len(w) + 1, Len(u))
             y == rest \o v
  <2>1. Len(w) \in 0 .. Len(u)
    BY <1>1, <1>5
  <2>2. /\ first \in Seq(S) /\ Len(first) = Len(w)
        /\ rest \in Seq(S) /\ first \o rest = u
        /\ \A i \in 1 .. Len(w) : first[i] = u[i]
    BY <2>1, Cut, ZenonT(60)
  <2> HIDE DEF first, rest
  <2>3. first = w
    <3>1. \A i \in 1 .. Len(first) : first[i] = w[i]
      BY <1>1, <1>4, <1>5, <2>2
    <3> QED BY <2>2, <3>1, SeqEqual
  <2>4. u \o v = first \o y
    <3>1. first \in Seq(S) /\ rest \in Seq(S)
      BY <2>2
    <3>2. (first \o rest) \o v = first \o (rest \o v)
      BY <3>1, ConcatAssociative, SMTT(60)
    <3> QED BY <2>2, <3>2
  <2>5. y \in Seq(S)
    BY <2>2, ConcatProperties
  <2> HIDE DEF y
  <2>6. w \o y = w \o x
    BY <2>3, <2>4
  <2>7. y = x
    <3>1. SubSeq(w \o y, Len(w) + 1, Len(w) + Len(y)) = y /\ Len(w \o y) = Len(w) + Len(y)
      BY <2>5, Joined
    <3>2. SubSeq(w \o x, Len(w) + 1, Len(w) + Len(x)) = x /\ Len(w \o x) = Len(w) + Len(x)
      BY Joined
    <3>3. Len(w) + Len(y) = Len(w) + Len(x)
      BY <2>6, <3>1, <3>2
    <3> QED BY <2>6, <3>1, <3>2, <3>3
  <2> QED BY <2>7 DEF y, rest
<1> QED BY <1>4, <1>5

\* What may stand on the stream: a message with the frame fillEmptyBuffer
\* makes of it, and a foreign frame.
Own(s) == \E t \in DOMAIN Messages : \E m \in Messages[t] :
            s = [message |-> m, frame |-> FrameOf(m)]
Strange(s) == \E f \in Foreign : s = [message |-> NoMessage, frame |-> f]
AllMessages == UNION {Messages[t] : t \in DOMAIN Messages}
Sendable == {s \in [message : AllMessages \cup {NoMessage}, frame : Seq(Byte)] :
               Own(s) \/ Strange(s)}

\* A message of the program, with its frame, can be sent; so can a foreign one.
LEMMA CanBeSent ==
  /\ \A t \in DOMAIN Messages : \A m \in Messages[t] :
       [message |-> m, frame |-> FrameOf(m)] \in Sendable
  /\ \A f \in Foreign : [message |-> NoMessage, frame |-> f] \in Sendable
<1>1. ASSUME NEW t \in DOMAIN Messages, NEW m \in Messages[t]
      PROVE  [message |-> m, frame |-> FrameOf(m)] \in Sendable
  <2>1. FrameOf(m) \in Seq(Byte)
    BY MessagesAssumption, FrameParts
  <2>2. m \in AllMessages
    BY DEF AllMessages
  <2> QED BY <2>1, <2>2 DEF Sendable, Own
<1>2. ASSUME NEW f \in Foreign
      PROVE  [message |-> NoMessage, frame |-> f] \in Sendable
  <2>1. f \in Seq(Byte)
    BY ForeignAssumption, ByteIs DEF Refusable
  <2> DEFINE s == [message |-> NoMessage, frame |-> f]
  <2>2. Strange(s)
    BY DEF Strange
  <2>3. NoMessage \in AllMessages \cup {NoMessage}
    OBVIOUS
  <2>4. s \in [message : AllMessages \cup {NoMessage}, frame : Seq(Byte)]
    BY <2>1, <2>3
  <2> QED BY <2>2, <2>4 DEF Sendable
<1> QED BY <1>1, <1>2

\* What onMessage makes of a whole frame that fits an int32: either its length
\* is out of bounds, and the receiver cannot take it, or the length is right,
\* and parse finds the message, or an error in a foreign frame.
LEMMA ItemRead ==
  ASSUME NEW s \in Sendable, Len(s.frame) <= MaxInt32
  PROVE  LET n == networkToHost32(s.frame)
             parsed == parse(SubSeq(s.frame, kHeaderLen + 1, Len(s.frame)))
         IN  /\ s.frame \in Seq(Byte) /\ Len(s.frame) \in Nat
             /\ kHeaderLen + kMinMessageLen <= Len(s.frame)
             /\ n \notin kMinMessageLen .. kMaxMessageLen => ~Acceptable(s)
             /\ n \in kMinMessageLen .. kMaxMessageLen =>
                  /\ n = Len(s.frame) - kHeaderLen
                  /\ \/ Acceptable(s) /\ parsed = Success(s.message)
                     \/ ~Acceptable(s) /\ parsed.error # "kNoError"
<1> DEFINE n == networkToHost32(s.frame)
           body == SubSeq(s.frame, kHeaderLen + 1, Len(s.frame))
<1>1. s.frame \in Seq(Byte) /\ Len(s.frame) \in Nat
  <2>1. s.frame \in Seq(Byte)
    BY DEF Sendable
  <2> QED BY <2>1, LenProperties
<1>2. CASE Own(s)
  <2>0. PICK t \in DOMAIN Messages :
          \E m \in Messages[t] : s = [message |-> m, frame |-> FrameOf(m)]
    BY <1>2 DEF Own
  <2>1. PICK m \in Messages[t] : s = [message |-> m, frame |-> FrameOf(m)]
    BY <2>0
  <2>2. s.message = m /\ s.frame = FrameOf(m)
    BY <2>1
  <2>3. Agreed(m)
    BY MessagesAssumption
  <2>4. m # NoMessage
    BY <2>3 DEF Agreed
  <2> DEFINE length == hostToNetwork32(Len(Body(m)))
  <2>5. /\ Body(m) \in Seq(Byte) /\ Len(Body(m)) \in Nat /\ 10 <= Len(Body(m))
        /\ Len(s.frame) = 4 + Len(Body(m))
    <3>1. Serialize(m) \in Seq(Byte)
      BY <2>3, FrameParts
    <3>2. Len(Serialize(m)) \in Nat
      BY <3>1, LenProperties
    <3> QED BY <2>2, <2>3, <3>2, FrameParts
  <2>6. length \in Seq(Byte) /\ Len(length) = 4
    BY <2>5, NetworkBytes
  <2>7. s.frame = length \o Body(m)
    BY <2>2 DEF FrameOf
  <2> HIDE DEF length
  <2>8. n = Len(Body(m))
    <3>1. length \in Seq(Byte) /\ Body(m) \in Seq(Byte)
      BY <2>5, <2>6
    <3>2. \A i \in 1 .. Len(length) : (length \o Body(m))[i] = length[i]
      BY <3>1, JoinedFirst
    <3>3. \A i \in 1 .. 4 : s.frame[i] = hostToNetwork32(Len(Body(m)))[i]
      BY <2>6, <2>7, <3>2 DEF length
    <3>4. Len(Body(m)) <= MaxInt32
      BY <1>1, <2>5 DEF MaxInt32
    <3> QED BY <2>5, <3>3, <3>4, NetworkOrder
  <2>9. body = Body(m)
    <3>1. length \in Seq(Byte) /\ Body(m) \in Seq(Byte)
      BY <2>5, <2>6
    <3>2. SubSeq(length \o Body(m), Len(length) + 1, Len(length) + Len(Body(m))) = Body(m)
      BY <3>1, Joined
    <3> QED BY <2>5, <2>6, <2>7, <3>2 DEF kHeaderLen
  <2>10. parse(body) = Success(m)
    BY <2>3, <2>9, ParsesBack
  <2>11. Acceptable(s) <=> n <= kMaxMessageLen
    BY <2>2, <2>4, <2>5, <2>8 DEF Acceptable, kHeaderLen
  <2>12. n \in kMinMessageLen .. kMaxMessageLen <=> n <= kMaxMessageLen
    BY <2>5, <2>8, CodecAssumption DEF kMinMessageLen, kHeaderLen
  <2>13. kHeaderLen + kMinMessageLen <= Len(s.frame) /\ n = Len(s.frame) - kHeaderLen
    BY <2>5, <2>8 DEF kMinMessageLen, kHeaderLen
  <2> QED BY <1>1, <2>2, <2>10, <2>11, <2>12, <2>13
<1>3. CASE Strange(s)
  <2>1. PICK f \in Foreign : s = [message |-> NoMessage, frame |-> f]
    BY <1>3 DEF Strange
  <2>2. s.message = NoMessage /\ s.frame = f /\ Refusable(f)
    BY <2>1, ForeignAssumption
  <2>3. ~Acceptable(s)
    BY <2>2 DEF Acceptable
  <2>4. kHeaderLen + kMinMessageLen <= Len(s.frame)
    BY <1>1, <2>2 DEF Refusable, kHeaderLen, kMinMessageLen
  <2>5. n \in kMinMessageLen .. kMaxMessageLen =>
          n = Len(s.frame) - kHeaderLen /\ parse(body).error # "kNoError"
    BY <2>2 DEF Refusable
  <2> QED BY <1>1, <2>3, <2>4, <2>5
<1> QED BY <1>2, <1>3 DEF Sendable

\* The frames of the items are bytes, and so is all of them joined.
LEMMA FramesBytes ==
  ASSUME NEW s \in Seq(Sendable)
  PROVE  /\ [i \in DOMAIN s |-> s[i].frame] \in Seq(Seq(Byte))
         /\ Len([i \in DOMAIN s |-> s[i].frame]) = Len(s)
         /\ Frames(s) \in Seq(Byte) /\ Len(Frames(s)) \in Nat
<1> DEFINE t == [i \in DOMAIN s |-> s[i].frame]
<1>1. Len(s) \in Nat /\ DOMAIN s = 1 .. Len(s) /\ \A i \in 1 .. Len(s) : s[i] \in Sendable
  BY LenProperties, ElementOfSeq
<1>2. \A i \in 1 .. Len(s) : s[i].frame \in Seq(Byte)
  BY <1>1 DEF Sendable
<1>3. t \in Seq(Seq(Byte)) /\ Len(t) = Len(s)
  <2> HIDE DEF Byte
  <2> DEFINE X == Seq(Byte)
  <2>1. \A i \in 1 .. Len(s) : s[i].frame \in X
    BY <1>2
  <2> HIDE DEF X
  <2>2. t \in [1 .. Len(s) -> X]
    BY <1>1, <2>1
  <2>3. t \in Seq(X) /\ Len(t) = Len(s)
    BY <1>1, <2>2
  <2> QED BY <2>3 DEF X
<1> HIDE DEF t
<1>4. FlattenSeq(t) \in Seq(Byte)
  <2>1. << >> \in Seq(Byte)
    OBVIOUS
  <2> QED BY <1>3, <2>1, FlattenAppend
<1>5. Len(FlattenSeq(t)) \in Nat
  BY <1>4, LenProperties
<1> QED BY <1>3, <1>4, <1>5 DEF Frames, t

\* One more frame comes after the others.
LEMMA FramesAppend ==
  ASSUME NEW s \in Seq(Sendable), NEW x \in Sendable
  PROVE  Frames(Append(s, x)) = Frames(s) \o x.frame
<1> DEFINE t == [i \in DOMAIN s |-> s[i].frame]
           a == Append(s, x)
           u == [i \in DOMAIN a |-> a[i].frame]
           f == x.frame
<1>1. /\ Len(s) \in Nat /\ a \in Seq(Sendable) /\ Len(a) = Len(s) + 1
      /\ \A i \in 1 .. Len(s) : a[i] = s[i]
      /\ a[Len(s) + 1] = x
  BY LenProperties, AppendProperties
<1> HIDE DEF a
<1>2. /\ DOMAIN s = 1 .. Len(s) /\ DOMAIN a = 1 .. Len(s) + 1
  BY <1>1, LenProperties
<1>3. t \in Seq(Seq(Byte)) /\ Len(t) = Len(s) /\ u \in Seq(Seq(Byte)) /\ Len(u) = Len(s) + 1
  BY <1>1, FramesBytes
<1>4. f \in Seq(Byte)
  BY DEF Sendable
<1>5. /\ \A i \in 1 .. Len(s) : t[i] = s[i].frame
      /\ \A i \in 1 .. Len(s) + 1 : u[i] = a[i].frame
  BY <1>2
<1> HIDE DEF t, u, f
<1>6. u = Append(t, f)
  <2> DEFINE X == Seq(Byte)
             v == Append(t, f)
  <2>1. t \in Seq(X) /\ f \in X
    BY <1>3, <1>4
  <2> HIDE DEF X
  <2>2. /\ v \in Seq(X) /\ Len(v) = Len(s) + 1
        /\ \A i \in 1 .. Len(s) : v[i] = t[i]
        /\ v[Len(s) + 1] = f
    BY <1>3, <2>1, AppendProperties
  <2> HIDE DEF v
  <2>3. ASSUME NEW i \in 1 .. Len(s) + 1 PROVE u[i] = v[i]
    <3>1. CASE i \in 1 .. Len(s)
      BY <1>1, <1>5, <2>2, <3>1
    <3>2. CASE i = Len(s) + 1
      BY <1>1, <1>5, <2>2, <3>2 DEF f
    <3> QED BY <1>1, <3>1, <3>2
  <2>4. u = v
    <3>1. u \in Seq(X)
      BY <1>3 DEF X
    <3> QED BY <1>3, <2>2, <2>3, <3>1, SeqEqual
  <2> QED BY <2>4 DEF v
<1>7. FlattenSeq(u) = FlattenSeq(t) \o f
  BY <1>3, <1>4, <1>6, FlattenAppend
<1> QED BY <1>7 DEF Frames, t, u, a, f

\* The part of a sequence that is left once k items are taken, as the next item
\* and what is left then.
LEMMA LeftAfter ==
  ASSUME NEW S, NEW s \in Seq(S), NEW k \in Nat, k <= Len(s)
  PROVE  LET left == SubSeq(s, k + 1, Len(s))
         IN  /\ left \in Seq(S) /\ Len(left) = Len(s) - k
             /\ \A i \in 1 .. Len(s) - k : left[i] = s[k + i]
<1>1. k \in 0 .. Len(s)
  BY LenProperties
<1> QED BY <1>1, Cut

\* What is left begins with the next frame.
LEMMA FramesFirst ==
  ASSUME NEW s \in Seq(Sendable), NEW k \in Nat, k < Len(s)
  PROVE  /\ s[k + 1] \in Sendable
         /\ Frames(SubSeq(s, (k + 1) + 1, Len(s))) \in Seq(Byte)
         /\ Frames(SubSeq(s, k + 1, Len(s)))
              = s[k + 1].frame \o Frames(SubSeq(s, (k + 1) + 1, Len(s)))
<1> DEFINE a == SubSeq(s, k + 1, Len(s))
           b == SubSeq(s, (k + 1) + 1, Len(s))
           t == [i \in DOMAIN a |-> a[i].frame]
           u == [i \in DOMAIN b |-> b[i].frame]
<1>1. Len(s) \in Nat /\ \A i \in 1 .. Len(s) : s[i] \in Sendable
  BY LenProperties, ElementOfSeq
<1>2. /\ a \in Seq(Sendable) /\ Len(a) = Len(s) - k
      /\ \A i \in 1 .. Len(s) - k : a[i] = s[k + i]
  BY <1>1, LeftAfter
<1>3. /\ b \in Seq(Sendable) /\ Len(b) = Len(s) - (k + 1)
      /\ \A i \in 1 .. Len(s) - (k + 1) : b[i] = s[(k + 1) + i]
  <2>1. k + 1 \in Nat /\ k + 1 <= Len(s)
    BY <1>1
  <2> QED BY <2>1, LeftAfter
<1> HIDE DEF a, b
<1>4. DOMAIN a = 1 .. Len(a) /\ DOMAIN b = 1 .. Len(b)
  BY <1>2, <1>3, LenProperties
<1>5. t \in Seq(Seq(Byte)) /\ Len(t) = Len(a) /\ u \in Seq(Seq(Byte)) /\ Len(u) = Len(b)
  BY <1>2, <1>3, FramesBytes
<1>6. /\ \A i \in 1 .. Len(a) : t[i] = a[i].frame
      /\ \A i \in 1 .. Len(b) : u[i] = b[i].frame
  BY <1>4
<1>7. Frames(b) \in Seq(Byte)
  BY <1>3, FramesBytes
<1> HIDE DEF t, u
<1>8. Precedes(u, t, Byte)
  <2>1. Len(t) = Len(u) + 1
    BY <1>1, <1>2, <1>3, <1>5
  <2>2. ASSUME NEW i \in 1 .. Len(u) PROVE t[i + 1] = u[i]
    <3>1. i \in 1 .. Len(b) /\ i + 1 \in 1 .. Len(a) /\ k + (i + 1) = (k + 1) + i
      BY <1>1, <1>2, <1>3, <1>5
    <3>2. a[i + 1] = s[k + (i + 1)] /\ b[i] = s[(k + 1) + i]
      BY <1>2, <1>3, <3>1
    <3> QED BY <1>6, <3>1, <3>2
  <2> QED BY <1>5, <2>1, <2>2 DEF Precedes
<1>9. FlattenSeq(t) = t[1] \o FlattenSeq(u)
  BY <1>8, FlattenFirst
<1>10. t[1] = s[k + 1].frame /\ s[k + 1] \in Sendable
  <2>1. 1 \in 1 .. Len(a) /\ k + 1 \in 1 .. Len(s)
    BY <1>1, <1>2
  <2> QED BY <1>1, <1>2, <1>6, <2>1
<1> QED BY <1>7, <1>9, <1>10 DEF Frames, t, u, a, b

\* No frames are no bytes.
LEMMA FramesNone ==
  ASSUME NEW s \in Seq(Sendable), Len(s) = 0
  PROVE  Frames(s) = << >>
<1> DEFINE t == [i \in DOMAIN s |-> s[i].frame]
<1>1. t \in Seq(Seq(Byte)) /\ Len(t) = 0
  BY FramesBytes
<1> HIDE DEF t
<1>2. PICK f : Joins(f, t, Byte)
  BY <1>1, JoinsExists
<1>3. FlattenSeq(t) = f[0]
  BY <1>1, <1>2, FlattenIsJoined
<1>4. f[0] = << >>
  BY <1>2 DEF Joins
<1> QED BY <1>3, <1>4 DEF Frames, t

\* When u is what the receiver holds of the stream and it is as long as a frame
\* must be, its first bytes are those of the next frame's length, and of all of
\* that frame when it is whole.
LEMMA HeadOf ==
  ASSUME NEW s \in Seq(Sendable), NEW k \in 0 .. Len(s),
         NEW u \in Seq(Byte), NEW v \in Seq(Byte),
         u \o v = Frames(SubSeq(s, k + 1, Len(s))),
         kHeaderLen + kMinMessageLen <= Len(u),
         \A i \in 1 .. Len(s) : Len(s[i].frame) <= MaxInt32
  PROVE  /\ k < Len(s) /\ s[k + 1] \in Sendable
         /\ LET f == s[k + 1].frame
            IN  /\ Len(f) <= MaxInt32
                /\ networkToHost32(u) = networkToHost32(f)
                /\ Len(f) <= Len(u) =>
                     /\ SubSeq(u, kHeaderLen + 1, Len(f)) = SubSeq(f, kHeaderLen + 1, Len(f))
                     /\ SubSeq(u, Len(f) + 1, Len(u)) \o v
                          = Frames(SubSeq(s, (k + 1) + 1, Len(s)))
<1>1. Len(s) \in Nat /\ k \in Nat /\ Len(u) \in Nat /\ Len(v) \in Nat
  BY LenProperties
<1>2. k < Len(s)
  <2> SUFFICES ASSUME k = Len(s) PROVE FALSE
    BY <1>1
  <2> DEFINE left == SubSeq(s, k + 1, Len(s))
  <2>1. left \in Seq(Sendable) /\ Len(left) = 0
    BY <1>1, LeftAfter
  <2> HIDE DEF left
  <2>2. Frames(left) = << >>
    BY <2>1, FramesNone
  <2>3. u \o v = << >>
    BY <2>2 DEF left
  <2>4. Len(u \o v) = Len(u) + Len(v)
    BY ConcatProperties
  <2>5. Len(u) + Len(v) = 0
    BY <2>3, <2>4
  <2> QED BY <1>1, <2>5 DEF kHeaderLen, kMinMessageLen
<1> DEFINE h == s[k + 1]
           f == h.frame
           x == Frames(SubSeq(s, (k + 1) + 1, Len(s)))
<1>3. /\ h \in Sendable /\ x \in Seq(Byte)
      /\ Frames(SubSeq(s, k + 1, Len(s))) = f \o x
  BY <1>1, <1>2, FramesFirst
<1>4. Len(f) <= MaxInt32
  BY <1>1, <1>2
<1> HIDE DEF h
<1>5. /\ f \in Seq(Byte) /\ Len(f) \in Nat
      /\ kHeaderLen + kMinMessageLen <= Len(f)
  BY <1>3, <1>4, ItemRead
<1> HIDE DEF f, x
<1>6. u \o v = f \o x
  BY <1>3
<1>7. /\ \A i \in 1 .. Len(u) : i <= Len(f) => u[i] = f[i]
      /\ Len(f) <= Len(u) => SubSeq(u, Len(f) + 1, Len(u)) \o v = x
  <2>1. u \in Seq(Byte) /\ v \in Seq(Byte) /\ f \in Seq(Byte) /\ x \in Seq(Byte)
    BY <1>3, <1>5
  <2> QED BY <1>6, <2>1, Overlap
<1>8. networkToHost32(u) = networkToHost32(f)
  <2>1. \A i \in 1 .. 4 : i \in 1 .. Len(u) /\ i <= Len(f)
    BY <1>1, <1>5 DEF kHeaderLen, kMinMessageLen
  <2>2. \A i \in 1 .. 4 : u[i] = f[i]
    BY <1>7, <2>1
  <2> QED BY <2>2, LengthRead
<1>9. ASSUME Len(f) <= Len(u)
      PROVE  SubSeq(u, kHeaderLen + 1, Len(f)) = SubSeq(f, kHeaderLen + 1, Len(f))
  <2> DEFINE t == SubSeq(f, 4 + 1, Len(f))
  <2>1. 4 \in Nat /\ 4 <= Len(f) /\ 4 \in 0 .. Len(f)
    BY <1>5 DEF kHeaderLen, kMinMessageLen
  <2>2. /\ t \in Seq(Byte) /\ Len(t) = Len(f) - 4
        /\ \A i \in 1 .. Len(f) - 4 : t[i] = f[4 + i]
    BY <1>5, <2>1, LeftAfter
  <2> HIDE DEF t
  <2>3. 4 + Len(t) = Len(f)
    BY <1>5, <2>2
  <2>4. \A i \in 1 .. Len(t) : u[4 + i] = t[i]
    <3> TAKE i \in 1 .. Len(t)
    <3>1. /\ i \in 1 .. Len(f) - 4 /\ 4 + i \in 1 .. Len(u) /\ 4 + i <= Len(f)
      BY <1>1, <1>5, <1>9, <2>2
    <3> QED BY <1>7, <2>2, <3>1
  <2>5. SubSeq(u, 4 + 1, 4 + Len(t)) = t
    <3>1. 4 + Len(t) <= Len(u)
      BY <1>9, <2>3
    <3> QED BY <2>1, <2>2, <2>4, <3>1, PartIs
  <2> QED BY <2>3, <2>5 DEF t, kHeaderLen
<1> QED BY <1>2, <1>3, <1>4, <1>7, <1>8, <1>9 DEF f, h, x
-----------------------------------------------------------------------------
(***************************************************************************)
(* The inductive invariant: the types, the two safety properties, and that *)
(* an error is reported for the next frame to deliver, which the receiver  *)
(* cannot take.                                                            *)
(***************************************************************************)
Delivery == [message : AllMessages, to : {onProtobufMessage(m) : m \in AllMessages}]

TypeOK ==
  /\ sent \in Seq(Sendable)
  /\ \A i \in 1 .. Len(sent) : Len(sent[i].frame) <= MaxBytes
  /\ delivered \in Seq(Delivery) /\ Len(delivered) \in 0 .. Len(sent)
  /\ wire \in Seq(Byte) /\ Sound(inbuf) /\ outbuf.ok = TRUE
  /\ decoding \in BOOLEAN
  /\ state \in {"kConnected", "kDisconnecting"} /\ open \in BOOLEAN

RefusedNext ==
  error # "kNoError" =>
    Len(delivered) < Len(sent) /\ ~Acceptable(sent[Len(delivered) + 1])

IInv == TypeOK /\ StreamIntact /\ NothingLeftBehind /\ RefusedNext

\* What is known of the next frame once the buffer is long enough: its length,
\* and, when it is whole, what parse makes of it and what follows it.
LEMMA NextFrame ==
  ASSUME TypeOK, StreamIntact, LongEnough
  PROVE  LET h == sent[Len(delivered) + 1]
         IN  /\ Len(delivered) < Len(sent) /\ h \in Sendable
             /\ ~ValidLength => ~Acceptable(h)
             /\ ValidLength =>
                  /\ peekInt32(inbuf) \in Nat
                  /\ kHeaderLen + peekInt32(inbuf) = Len(h.frame)
                  /\ Complete =>
                       /\ \/ Acceptable(h) /\ Parsed = Success(h.message)
                          \/ ~Acceptable(h) /\ Parsed.error # "kNoError"
                       /\ SubSeq(Contents(inbuf), Len(h.frame) + 1, Len(Contents(inbuf)))
                            \o wire
                            = Frames(SubSeq(sent, (Len(delivered) + 1) + 1, Len(sent)))
<1> DEFINE k == Len(delivered)
           u == Contents(inbuf)
           h == sent[k + 1]
           f == h.frame
<1>1. /\ u \in Seq(Byte) /\ Len(u) = readableBytes(inbuf) /\ Len(u) \in Nat
  BY ContentsOf, LenProperties DEF TypeOK
<1>2. k \in 0 .. Len(sent) /\ Len(sent) \in Nat /\ sent \in Seq(Sendable)
  BY LenProperties DEF TypeOK
<1>3. \A i \in 1 .. Len(sent) : Len(sent[i].frame) <= MaxInt32
  <2> TAKE i \in 1 .. Len(sent)
  <2>1. Len(sent[i].frame) <= MaxBytes
    BY DEF TypeOK
  <2>2. Len(sent[i].frame) \in Nat
    <3>1. sent[i] \in Sendable
      BY <1>2, ElementOfSeq
    <3>2. sent[i].frame \in Seq(Byte)
      BY <3>1 DEF Sendable
    <3> QED BY <3>2, LenProperties
  <2> QED BY <2>1, <2>2, CodecAssumption DEF MaxInt32
<1>4. u \o wire = Frames(SubSeq(sent, k + 1, Len(sent)))
  BY DEF StreamIntact
<1>5. kHeaderLen + kMinMessageLen <= Len(u)
  BY <1>1 DEF LongEnough, kHeaderLen, kMinMessageLen
<1>6. wire \in Seq(Byte)
  BY DEF TypeOK
<1> HIDE DEF k, u
<1>7. /\ k < Len(sent) /\ h \in Sendable
      /\ Len(f) <= MaxInt32
      /\ networkToHost32(u) = networkToHost32(f)
      /\ Len(f) <= Len(u) =>
           /\ SubSeq(u, kHeaderLen + 1, Len(f)) = SubSeq(f, kHeaderLen + 1, Len(f))
           /\ SubSeq(u, Len(f) + 1, Len(u)) \o wire
                = Frames(SubSeq(sent, (k + 1) + 1, Len(sent)))
  BY <1>1, <1>2, <1>3, <1>4, <1>5, <1>6, HeadOf
<1> HIDE DEF h
<1> DEFINE n == networkToHost32(f)
<1>8. /\ Len(f) \in Nat
      /\ n \notin kMinMessageLen .. kMaxMessageLen => ~Acceptable(h)
      /\ n \in kMinMessageLen .. kMaxMessageLen =>
           /\ n = Len(f) - kHeaderLen
           /\ \/ Acceptable(h) /\ parse(SubSeq(f, kHeaderLen + 1, Len(f))) = Success(h.message)
              \/ ~Acceptable(h) /\ parse(SubSeq(f, kHeaderLen + 1, Len(f))).error # "kNoError"
  BY <1>7, ItemRead
<1>9. peekInt32(inbuf) = n
  BY <1>7 DEF peekInt32, u
<1> HIDE DEF f, n
<1>10. ValidLength <=> n \in kMinMessageLen .. kMaxMessageLen
  BY <1>9 DEF ValidLength
<1>11. ASSUME ValidLength
       PROVE  n \in Nat /\ kHeaderLen + n = Len(f)
  <2>1. n \in Nat
    BY <1>10, <1>11, CodecAssumption DEF kMinMessageLen, kHeaderLen
  <2> QED BY <1>8, <1>10, <1>11, <2>1 DEF kHeaderLen
<1>12. ASSUME ValidLength, Complete
       PROVE  /\ \/ Acceptable(h) /\ Parsed = Success(h.message)
                 \/ ~Acceptable(h) /\ Parsed.error # "kNoError"
              /\ SubSeq(u, Len(f) + 1, Len(u)) \o wire
                   = Frames(SubSeq(sent, (k + 1) + 1, Len(sent)))
  <2>1. Len(f) <= Len(u)
    BY <1>1, <1>8, <1>9, <1>11, <1>12 DEF Complete, u
  <2>2. Parsed = parse(SubSeq(u, kHeaderLen + 1, Len(f)))
    BY <1>9, <1>11, <1>12 DEF Parsed, u
  <2>3. Parsed = parse(SubSeq(f, kHeaderLen + 1, Len(f)))
    BY <1>7, <2>1, <2>2
  <2> QED BY <1>7, <1>8, <1>10, <1>12, <2>1, <2>3
<1> QED BY <1>7, <1>8, <1>9, <1>10, <1>11, <1>12 DEF k, u, h, f

\* The invariant holds in the initial state.
LEMMA InitIsSound ==
  ASSUME Init
  PROVE  IInv
<1>1. Len(sent) = 0 /\ Len(delivered) = 0 /\ sent = << >> /\ delivered = << >> /\ wire = << >>
  BY DEF Init
<1>2. Sound(inbuf) /\ Contents(inbuf) = << >> /\ outbuf.ok = TRUE
  <2>1. NewBuffer.ok = TRUE
    BY DEF NewBuffer
  <2> QED BY <2>1, NewIsSound DEF Init
<1>3. TypeOK
  <2>1. sent \in Seq(Sendable) /\ delivered \in Seq(Delivery) /\ wire \in Seq(Byte)
    <3>1. \A S : << >> \in Seq(S)
      OBVIOUS
    <3> QED BY <1>1, <3>1
  <2>2. /\ \A i \in 1 .. Len(sent) : Len(sent[i].frame) <= MaxBytes
        /\ Len(delivered) \in 0 .. Len(sent)
    BY <1>1
  <2>3. /\ decoding \in BOOLEAN
        /\ state \in {"kConnected", "kDisconnecting"} /\ open \in BOOLEAN
    BY DEF Init
  <2> QED BY <1>2, <2>1, <2>2, <2>3 DEF TypeOK
<1>4. StreamIntact
  <2>1. sent \in Seq(Sendable) /\ 0 \in Nat /\ 0 <= Len(sent)
    BY <1>1
  <2> DEFINE left == SubSeq(sent, Len(delivered) + 1, Len(sent))
  <2>2. left \in Seq(Sendable) /\ Len(left) = 0
    BY <1>1, <2>1, LeftAfter
  <2> HIDE DEF left
  <2>3. Frames(left) = << >>
    BY <2>2, FramesNone
  <2>4. Contents(inbuf) \o wire = << >>
    BY <1>1, <1>2
  <2> QED BY <2>3, <2>4 DEF StreamIntact, left
<1>5. NothingLeftBehind /\ RefusedNext
  BY <1>1 DEF NothingLeftBehind, RefusedNext, Init
<1> QED BY <1>3, <1>4, <1>5 DEF IInv

\* A frame put on the stream keeps the invariant: it comes last, and when
\* nothing was left to deliver, nothing of it is in inputBuffer_ yet.
LEMMA PutKeeps ==
  ASSUME IInv, NEW m, NEW f, [message |-> m, frame |-> f] \in Sendable, Put(m, f),
         outbuf'.ok = TRUE
  PROVE  IInv'
<1> DEFINE x == [message |-> m, frame |-> f]
           k == Len(delivered)
           n == Len(sent)
           left == SubSeq(sent, k + 1, n)
<1>1. /\ x \in Sendable /\ x.frame = f /\ f \in Seq(Byte) /\ Len(f) \in Nat
  <2>1. x.frame = f
    OBVIOUS
  <2>2. f \in Seq(Byte)
    BY <2>1 DEF Sendable
  <2> QED BY <2>1, <2>2, LenProperties
<1> HIDE DEF x
<1>2. /\ sent \in Seq(Sendable) /\ n \in Nat /\ delivered \in Seq(Delivery)
      /\ wire \in Seq(Byte) /\ k \in 0 .. n /\ k \in Nat
  BY LenProperties DEF IInv, TypeOK
<1>0. k \in Nat /\ n \in Nat /\ k <= n
  BY <1>2
<1>3. /\ sent' = Append(sent, x) /\ wire' = wire \o f
      /\ UNCHANGED <<inbuf, decoding, delivered, error, state, open>>
      /\ Len(Frames(sent)) + Len(f) <= MaxBytes
  BY DEF Put, x
<1>4. /\ sent' \in Seq(Sendable) /\ Len(sent') = n + 1
      /\ \A i \in 1 .. n : sent'[i] = sent[i]
      /\ sent'[n + 1] = x
  BY <1>1, <1>2, <1>3, AppendProperties
<1>5. Len(f) <= MaxBytes
  <2>1. Len(Frames(sent)) \in Nat
    BY <1>2, FramesBytes
  <2> QED BY <1>1, <1>3, <2>1, CodecAssumption
<1>6. wire' \in Seq(Byte)
  BY <1>1, <1>2, <1>3, ConcatProperties
<1>7. TypeOK'
  <2>1. \A i \in 1 .. Len(sent') : Len(sent'[i].frame) <= MaxBytes
    <3> TAKE i \in 1 .. Len(sent')
    <3>1. CASE i \in 1 .. n
      <4>1. Len(sent[i].frame) <= MaxBytes
        BY <3>1 DEF IInv, TypeOK
      <4> QED BY <1>4, <3>1, <4>1
    <3>2. CASE i = n + 1
      BY <1>1, <1>4, <1>5, <3>2
    <3> QED BY <1>2, <1>4, <3>1, <3>2
  <2>2. Len(delivered') \in 0 .. Len(sent')
    BY <1>2, <1>3, <1>4
  <2>3. /\ delivered' \in Seq(Delivery) /\ Sound(inbuf)' /\ decoding' \in BOOLEAN
        /\ state' \in {"kConnected", "kDisconnecting"} /\ open' \in BOOLEAN
    <3>1. Sound(inbuf)' <=> Sound(inbuf)
      BY <1>3
    <3> QED BY <1>3, <3>1 DEF IInv, TypeOK
  <2> QED BY <1>4, <1>6, <2>1, <2>2, <2>3 DEF TypeOK
<1>8. /\ left \in Seq(Sendable)
      /\ SubSeq(sent', k + 1, n + 1) = Append(left, x)
      /\ Len(left) = n - k
  <2>1. /\ left \in Seq(Sendable) /\ Len(left) = n - k
        /\ \A i \in 1 .. n - k : left[i] = sent[k + i]
    BY <1>2, LeftAfter
  <2> DEFINE a == SubSeq(sent', k + 1, Len(sent'))
             b == Append(left, x)
  <2>2. /\ a \in Seq(Sendable) /\ Len(a) = (n + 1) - k
        /\ \A i \in 1 .. (n + 1) - k : a[i] = sent'[k + i]
    <3>1. k <= Len(sent')
      BY <1>2, <1>4
    <3> QED BY <1>2, <1>4, <3>1, LeftAfter
  <2> HIDE DEF left, a
  <2>3. /\ b \in Seq(Sendable) /\ Len(b) = (n - k) + 1
        /\ \A i \in 1 .. n - k : b[i] = left[i]
        /\ b[(n - k) + 1] = x
    BY <1>1, <2>1, AppendProperties
  <2> HIDE DEF b
  <2>4. ASSUME NEW i \in 1 .. (n + 1) - k PROVE a[i] = b[i]
    <3>1. CASE i \in 1 .. n - k
      <4>1. k + i \in 1 .. n
        BY <1>2, <3>1
      <4> QED BY <1>4, <2>1, <2>2, <2>3, <3>1, <4>1
    <3>2. CASE i = (n - k) + 1
      <4>1. k + i = n + 1
        BY <1>2, <3>2
      <4> QED BY <1>4, <2>2, <2>3, <3>2, <4>1
    <3>3. i \in 1 .. n - k \/ i = (n - k) + 1
      BY <1>0
    <3> QED BY <3>1, <3>2, <3>3
  <2>5. a = b
    <3>1. Len(a) = Len(b) /\ Len(a) = (n + 1) - k
      BY <1>2, <2>2, <2>3
    <3> QED BY <2>2, <2>3, <2>4, <3>1, SeqEqual
  <2> QED BY <1>4, <2>1, <2>5 DEF a, b
<1> HIDE DEF left
<1>9. Contents(inbuf) \in Seq(Byte) /\ Len(Contents(inbuf)) = readableBytes(inbuf)
  BY ContentsOf DEF IInv, TypeOK
<1>10. Contents(inbuf) \o wire = Frames(left)
  BY DEF IInv, StreamIntact, left
<1>11. StreamIntact'
  <2>1. Frames(Append(left, x)) = Frames(left) \o f
    BY <1>1, <1>8, FramesAppend
  <2>2. Contents(inbuf) \o (wire \o f) = (Contents(inbuf) \o wire) \o f
    BY <1>1, <1>2, <1>9, ConcatAssociative, SMTT(60)
  <2>3. Contents(inbuf') \o wire' = Frames(SubSeq(sent', Len(delivered') + 1, Len(sent')))
    BY <1>3, <1>4, <1>8, <1>10, <2>1, <2>2
  <2> QED BY <2>3 DEF StreamIntact
<1>12. NothingLeftBehind'
  <2> SUFFICES ASSUME ~decoding', error' = "kNoError", Len(delivered') < Len(sent')
               PROVE  readableBytes(inbuf') < Len(sent'[Len(delivered') + 1].frame)
    BY DEF NothingLeftBehind
  <2>1. CASE k < n
    <3>0. k + 1 \in 1 .. n
      BY <1>0, <2>1
    <3>1. sent'[k + 1] = sent[k + 1]
      BY <1>4, <3>0
    <3> QED BY <1>3, <2>1, <3>1 DEF IInv, NothingLeftBehind
  <2>2. CASE k = n
    <3>0. Len(left) = 0
      BY <1>0, <1>8, <2>2
    <3>1. Frames(left) = << >>
      BY <1>8, <3>0, FramesNone
    <3>2. Len(Contents(inbuf) \o wire) = Len(Contents(inbuf)) + Len(wire)
      BY <1>2, <1>9, ConcatProperties
    <3>3. Len(Contents(inbuf)) \in Nat /\ Len(wire) \in Nat
      BY <1>2, <1>9, LenProperties
    <3>4. readableBytes(inbuf) = 0
      BY <1>9, <1>10, <3>1, <3>2, <3>3
    <3>5. sent'[Len(delivered') + 1].frame = f
      BY <1>1, <1>3, <1>4, <2>2
    <3>6. kHeaderLen + kMinMessageLen <= Len(f)
      <4>1. Len(x.frame) <= MaxInt32
        BY <1>1, <1>5, CodecAssumption DEF MaxInt32
      <4> QED BY <1>1, <4>1, ItemRead
    <3> QED BY <1>1, <1>3, <3>4, <3>5, <3>6 DEF kHeaderLen, kMinMessageLen
  <2> QED BY <1>2, <2>1, <2>2
<1>13. RefusedNext'
  <2> SUFFICES ASSUME error' # "kNoError"
               PROVE  /\ Len(delivered') < Len(sent')
                      /\ ~Acceptable(sent[Len(delivered) + 1])'
    BY DEF RefusedNext
  <2>1. k < n /\ ~Acceptable(sent[k + 1])
    BY <1>3 DEF IInv, RefusedNext
  <2>2. sent'[k + 1] = sent[k + 1]
    <3>1. k + 1 \in 1 .. n
      BY <1>0, <2>1
    <3> QED BY <1>4, <3>1
  <2>3. ~Acceptable(sent'[k + 1])
    BY <2>1, <2>2
  <2> QED BY <1>2, <1>3, <1>4, <2>1, <2>3 DEF Acceptable
<1> QED BY <1>7, <1>11, <1>12, <1>13 DEF IInv

\* The assert of peekInt32 holds where onMessage calls it (Buffer.h:86).
LEMMA PeekHolds ==
  ASSUME Sound(inbuf), LongEnough
  PROVE  peeked(inbuf) = inbuf
<1>1. readableBytes(inbuf) >= 4
  <2>1. readableBytes(inbuf) \in Nat
    BY Indices
  <2> QED BY <2>1 DEF LongEnough, kHeaderLen, kMinMessageLen
<1> QED BY <1>1, AssertHolds DEF peeked, Sound, BufferOK

\* The number of items and what is true of them stay when sent and delivered do.
LEMMA ItemsKept ==
  ASSUME IInv, UNCHANGED <<sent, delivered>>, wire' \in Seq(Byte), Sound(inbuf'),
         outbuf'.ok = TRUE, decoding' \in BOOLEAN,
         state' \in {"kConnected", "kDisconnecting"} /\ open' \in BOOLEAN
  PROVE  TypeOK'
<1>1. /\ sent \in Seq(Sendable) /\ delivered \in Seq(Delivery)
      /\ Len(delivered) \in 0 .. Len(sent)
      /\ \A i \in 1 .. Len(sent) : Len(sent[i].frame) <= MaxBytes
  BY DEF IInv, TypeOK
<1>2. Sound(inbuf)'
  OBVIOUS
<1> QED BY <1>1, <1>2 DEF TypeOK

\* readFd moves bytes from the wire to the end of inputBuffer_.
LEMMA ReadKeeps ==
  ASSUME IInv, NEW n \in Chunks, Read(n)
  PROVE  IInv'
<1> DEFINE first == SubSeq(wire, 1, n)
           rest == SubSeq(wire, n + 1, Len(wire))
<1>1. wire \in Seq(Byte) /\ Len(wire) \in Nat /\ n \in 0 .. Len(wire)
  <2>1. n \in Nat
    BY CodecAssumption
  <2> QED BY <2>1, LenProperties DEF IInv, TypeOK, Read
<1>2. first \in Seq(Byte) /\ rest \in Seq(Byte) /\ first \o rest = wire
  BY <1>1, Cut
<1> HIDE DEF first, rest
<1>3. /\ inbuf' = readFd(inbuf, first) /\ wire' = rest /\ decoding' = TRUE
      /\ UNCHANGED <<sent, outbuf, delivered, error, state, open>>
  BY DEF Read, first, rest
<1>4. Sound(inbuf') /\ Contents(inbuf') = Contents(inbuf) \o first
  BY <1>2, <1>3, FdRead DEF IInv, TypeOK
<1>5. TypeOK'
  <2>1. /\ wire' \in Seq(Byte) /\ outbuf'.ok = TRUE /\ decoding' \in BOOLEAN
        /\ state' \in {"kConnected", "kDisconnecting"} /\ open' \in BOOLEAN
    BY <1>2, <1>3 DEF IInv, TypeOK
  <2> QED BY <1>3, <1>4, <2>1, ItemsKept
<1>6. StreamIntact'
  <2>1. Contents(inbuf) \in Seq(Byte) /\ first \in Seq(Byte) /\ rest \in Seq(Byte)
    BY <1>2, ContentsOf DEF IInv, TypeOK
  <2>2. (Contents(inbuf) \o first) \o rest = Contents(inbuf) \o (first \o rest)
    BY <2>1, ConcatAssociative
  <2>3. Contents(inbuf') \o wire' = Contents(inbuf) \o wire
    BY <1>2, <1>3, <1>4, <2>2
  <2>4. Contents(inbuf) \o wire = Frames(SubSeq(sent, Len(delivered) + 1, Len(sent)))
    BY DEF IInv, StreamIntact
  <2>5. Contents(inbuf') \o wire' = Frames(SubSeq(sent', Len(delivered') + 1, Len(sent')))
    BY <1>3, <2>3, <2>4
  <2> QED BY <2>5 DEF StreamIntact
<1>7. NothingLeftBehind'
  BY <1>3 DEF NothingLeftBehind
<1>8. RefusedNext'
  BY <1>3 DEF IInv, RefusedNext, Acceptable
<1> QED BY <1>5, <1>6, <1>7, <1>8 DEF IInv

\* A message whose frame is whole is delivered; its frame, and no other byte,
\* leaves inputBuffer_.
LEMMA DeliverKeeps ==
  ASSUME IInv, decoding, LongEnough, ValidLength, Complete, DeliverMessage(Parsed)
  PROVE  /\ IInv'
         /\ Len(delivered) < Len(sent)
         /\ Acceptable(sent[Len(delivered) + 1])
         /\ Parsed = Success(sent[Len(delivered) + 1].message)
<1> DEFINE k == Len(delivered)
           h == sent[k + 1]
           f == h.frame
           u == Contents(inbuf)
           d == [message |-> Parsed.message, to |-> onProtobufMessage(Parsed.message)]
<1>1. /\ k < Len(sent) /\ h \in Sendable
      /\ peekInt32(inbuf) \in Nat /\ kHeaderLen + peekInt32(inbuf) = Len(f)
      /\ \/ Acceptable(h) /\ Parsed = Success(h.message)
         \/ ~Acceptable(h) /\ Parsed.error # "kNoError"
      /\ SubSeq(u, Len(f) + 1, Len(u)) \o wire
           = Frames(SubSeq(sent, (k + 1) + 1, Len(sent)))
  BY NextFrame DEF IInv
<1>2. /\ delivered' = Append(delivered, d)
      /\ inbuf' = retrieve(inbuf, Len(f))
      /\ UNCHANGED <<sent, outbuf, wire, decoding, error, state, open>>
      /\ Parsed.error = "kNoError"
  <2>1. peeked(inbuf) = inbuf
    BY PeekHolds DEF IInv, TypeOK
  <2> QED BY <1>1, <2>1 DEF DeliverMessage
<1>3. Acceptable(h) /\ Parsed = Success(h.message)
  BY <1>1, <1>2
<1>4. Parsed.message = h.message
  BY <1>3 DEF Success
<1>5. d \in Delivery
  <2>1. h.message \in AllMessages
    BY <1>1, <1>3 DEF Sendable, Acceptable
  <2> QED BY <1>4, <2>1 DEF Delivery
<1>6. /\ delivered \in Seq(Delivery) /\ k \in Nat /\ sent \in Seq(Sendable) /\ Len(sent) \in Nat
  BY LenProperties DEF IInv, TypeOK
<1> HIDE DEF d
<1>7. delivered' \in Seq(Delivery) /\ Len(delivered') = k + 1
  BY <1>2, <1>5, <1>6, AppendProperties
<1>8. Len(f) \in 0 .. readableBytes(inbuf)
  <2>1. readableBytes(inbuf) \in Nat
    BY Indices DEF IInv, TypeOK
  <2>2. Len(f) \in Nat
    <3>1. peekInt32(inbuf) \in Nat /\ 4 + peekInt32(inbuf) = Len(f)
      BY <1>1 DEF kHeaderLen
    <3> HIDE DEF f
    <3> QED BY <3>1
  <2> QED BY <1>1, <2>1, <2>2 DEF Complete
<1>9. Sound(inbuf') /\ Contents(inbuf') = SubSeq(u, Len(f) + 1, Len(u))
  BY <1>2, <1>8, Retrieved DEF IInv, TypeOK
<1>10. TypeOK'
  <2>1. Sound(inbuf)'
    BY <1>9
  <2>2. Len(delivered') \in 0 .. Len(sent')
    BY <1>1, <1>2, <1>6, <1>7
  <2> QED BY <1>2, <1>7, <2>1, <2>2 DEF IInv, TypeOK
<1>11. StreamIntact'
  <2>1. Contents(inbuf') \o wire' = Frames(SubSeq(sent', Len(delivered') + 1, Len(sent')))
    BY <1>1, <1>2, <1>7, <1>9
  <2> QED BY <2>1 DEF StreamIntact
<1>12. NothingLeftBehind'
  BY <1>2 DEF NothingLeftBehind
<1>13. RefusedNext'
  <2>1. error = "kNoError"
    BY <1>3 DEF IInv, RefusedNext
  <2> QED BY <1>2, <2>1 DEF RefusedNext
<1> QED BY <1>1, <1>3, <1>10, <1>11, <1>12, <1>13 DEF IInv

\* An error is reported for the next frame, which cannot be taken.
LEMMA ReportKeeps ==
  ASSUME IInv, LongEnough, NEW e, e # "kNoError", ReportError(e),
         Len(delivered) < Len(sent), ~Acceptable(sent[Len(delivered) + 1])
  PROVE  IInv'
<1>1. /\ decoding' = FALSE /\ error' # "kNoError"
      /\ state' \in {"kConnected", "kDisconnecting"} /\ open' \in BOOLEAN
      /\ UNCHANGED <<sent, outbuf, wire, inbuf, delivered, open>>
  BY PeekHolds DEF ReportError, IInv, TypeOK
<1>2. TypeOK'
  BY <1>1, ItemsKept DEF IInv, TypeOK
<1>3. StreamIntact'
  BY <1>1 DEF IInv, StreamIntact
<1>4. NothingLeftBehind'
  BY <1>1 DEF NothingLeftBehind
<1>5. RefusedNext'
  BY <1>1 DEF RefusedNext, Acceptable
<1> QED BY <1>2, <1>3, <1>4, <1>5 DEF IInv

\* What AwaitMore leaves in the buffer is less than the next frame.
LEMMA AwaitKeeps ==
  ASSUME IInv, AwaitMore
  PROVE  IInv'
<1>1. /\ decoding' = FALSE
      /\ UNCHANGED <<sent, outbuf, wire, inbuf, delivered, error, state, open>>
  BY PeekHolds DEF AwaitMore, IInv, TypeOK
<1>2. TypeOK'
  BY <1>1, ItemsKept DEF IInv, TypeOK
<1>3. StreamIntact'
  BY <1>1 DEF IInv, StreamIntact
<1>4. NothingLeftBehind'
  <2> SUFFICES ASSUME Len(delivered) < Len(sent)
               PROVE  readableBytes(inbuf) < Len(sent[Len(delivered) + 1].frame)
    BY <1>1 DEF NothingLeftBehind
  <2> DEFINE h == sent[Len(delivered) + 1]
  <2>1. readableBytes(inbuf) \in Nat
    BY Indices DEF IInv, TypeOK
  <2>2. CASE LongEnough
    <3>1. ValidLength /\ ~Complete
      BY <2>2 DEF AwaitMore
    <3>2. peekInt32(inbuf) \in Nat /\ kHeaderLen + peekInt32(inbuf) = Len(h.frame)
      BY <2>2, <3>1, NextFrame DEF IInv
    <3> QED BY <2>1, <3>1, <3>2 DEF Complete, kHeaderLen
  <2>3. CASE ~LongEnough
    <3>1. Len(delivered) + 1 \in 1 .. Len(sent)
      BY LenProperties DEF IInv, TypeOK
    <3>2. h \in Sendable /\ Len(h.frame) <= MaxBytes
      BY <3>1, ElementOfSeq DEF IInv, TypeOK
    <3>3. h.frame \in Seq(Byte)
      BY <3>2 DEF Sendable
    <3>4. Len(h.frame) <= MaxInt32
      <4>1. Len(h.frame) \in Nat
        BY <3>3, LenProperties
      <4> QED BY <3>2, <4>1, CodecAssumption DEF MaxInt32
    <3>5. Len(h.frame) \in Nat /\ kHeaderLen + kMinMessageLen <= Len(h.frame)
      BY <3>2, <3>4, ItemRead
    <3> QED BY <2>1, <2>3, <3>5 DEF LongEnough, kHeaderLen, kMinMessageLen
  <2> QED BY <2>2, <2>3
<1>5. RefusedNext'
  BY <1>1 DEF IInv, RefusedNext, Acceptable
<1> QED BY <1>2, <1>3, <1>4, <1>5 DEF IInv

\* What the sender puts on the stream is the frame of the message, and
\* fillEmptyBuffer fails no assert over it.
LEMMA SendPuts ==
  ASSUME NEW t \in DOMAIN Messages, NEW m \in Messages[t], Send(m)
  PROVE  /\ Put(m, FrameOf(m)) /\ outbuf'.ok = TRUE
         /\ [message |-> m, frame |-> FrameOf(m)] \in Sendable
<1>1. Agreed(m)
  BY MessagesAssumption
<1>2. outbuf' = fillEmptyBuffer(m) /\ Put(m, Contents(outbuf'))
  BY DEF Send
<1>3. outbuf'.ok = TRUE /\ Contents(outbuf') = FrameOf(m)
  BY <1>1, <1>2, Filled
<1> QED BY <1>2, <1>3, CanBeSent

\* A foreign frame is put on the stream as it is.
LEMMA ForeignPuts ==
  ASSUME IInv, NEW f \in Foreign, SendForeign(f)
  PROVE  /\ Put(NoMessage, f) /\ outbuf'.ok = TRUE
         /\ [message |-> NoMessage, frame |-> f] \in Sendable
<1>1. Put(NoMessage, f) /\ outbuf' = outbuf
  BY DEF SendForeign
<1> QED BY <1>1, CanBeSent DEF IInv, TypeOK

\* Every refusal of the loop is of the next frame, which cannot be taken.
LEMMA RefusesNext ==
  ASSUME IInv, decoding, LongEnough,
         ~ValidLength \/ (ValidLength /\ Complete /\ Parsed.error # "kNoError")
  PROVE  Len(delivered) < Len(sent) /\ ~Acceptable(sent[Len(delivered) + 1])
<1> DEFINE h == sent[Len(delivered) + 1]
<1>1. /\ Len(delivered) < Len(sent)
      /\ ~ValidLength => ~Acceptable(h)
      /\ ValidLength /\ Complete =>
           \/ Acceptable(h) /\ Parsed = Success(h.message)
           \/ ~Acceptable(h) /\ Parsed.error # "kNoError"
  BY NextFrame DEF IInv
<1> HIDE DEF h
<1>2. Success(h.message).error = "kNoError"
  BY DEF Success
<1> QED BY <1>1, <1>2 DEF h

\* Every step keeps the inductive invariant.
LEMMA NextKeeps ==
  ASSUME IInv, [Next]_vars
  PROVE  IInv'
<1>1. ASSUME NEW t \in DOMAIN Messages, NEW m \in Messages[t], Send(m)
      PROVE  IInv'
  BY <1>1, SendPuts, PutKeeps
<1>2. ASSUME NEW f \in Foreign, SendForeign(f)
      PROVE  IInv'
  BY <1>2, ForeignPuts, PutKeeps
<1>3. ASSUME NEW n \in Chunks, Read(n)
      PROVE  IInv'
  BY <1>3, ReadKeeps
<1>4. CASE ReadEnd
  <2>1. /\ open' = FALSE
        /\ UNCHANGED <<sent, outbuf, wire, inbuf, decoding, delivered, error, state>>
    BY <1>4 DEF ReadEnd
  <2>2. TypeOK'
    BY <2>1, ItemsKept DEF IInv, TypeOK
  <2>3. StreamIntact' /\ NothingLeftBehind' /\ RefusedNext'
    BY <2>1 DEF IInv, StreamIntact, NothingLeftBehind, RefusedNext, Acceptable
  <2> QED BY <2>2, <2>3 DEF IInv
<1>5. CASE TakeMessage
  <2>1. decoding /\ LongEnough /\ ValidLength /\ Complete
    BY <1>5 DEF TakeMessage
  <2>2. DeliverMessage(Parsed) \/ RefuseMessage(Parsed)
    BY <1>5 DEF TakeMessage
  <2>3. CASE DeliverMessage(Parsed)
    BY <2>1, <2>3, DeliverKeeps
  <2>4. CASE RefuseMessage(Parsed)
    <3>1. Parsed.error # "kNoError" /\ ReportError(Parsed.error)
      BY <2>4 DEF RefuseMessage
    <3>2. Len(delivered) < Len(sent) /\ ~Acceptable(sent[Len(delivered) + 1])
      BY <2>1, <3>1, RefusesNext
    <3> QED BY <2>1, <3>1, <3>2, ReportKeeps
  <2> QED BY <2>2, <2>3, <2>4
<1>6. CASE RefuseLength
  <2>1. decoding /\ LongEnough /\ ~ValidLength /\ ReportError("kInvalidLength")
    BY <1>6 DEF RefuseLength
  <2>2. Len(delivered) < Len(sent) /\ ~Acceptable(sent[Len(delivered) + 1])
    BY <2>1, RefusesNext
  <2>3. "kInvalidLength" # "kNoError"
    OBVIOUS
  <2> QED BY <2>1, <2>2, <2>3, ReportKeeps
<1>7. CASE AwaitMore
  BY <1>7, AwaitKeeps
<1>8. CASE UNCHANGED vars
  <2>1. UNCHANGED <<sent, outbuf, wire, inbuf, decoding, delivered, error, state, open>>
    BY <1>8 DEF vars
  <2>2. TypeOK'
    BY <2>1, ItemsKept DEF IInv, TypeOK
  <2>3. StreamIntact' /\ NothingLeftBehind' /\ RefusedNext'
    BY <2>1 DEF IInv, StreamIntact, NothingLeftBehind, RefusedNext, Acceptable
  <2> QED BY <2>2, <2>3 DEF IInv
<1>9. CASE Terminated
  BY <1>8, <1>9 DEF Terminated
<1> QED BY <1>1, <1>2, <1>3, <1>4, <1>5, <1>6, <1>7, <1>8, <1>9 DEF Next, onMessage

\* The inductive invariant holds in every reachable state.
THEOREM Invariant == Spec => []IInv
<1>1. Init => IInv
  BY InitIsSound
<1>2. IInv /\ [Next]_vars => IInv'
  BY NextKeeps
<1> QED BY <1>1, <1>2, PTL DEF Spec

\* No assert of Buffer or of fillEmptyBuffer fails and the indices of
\* inputBuffer_ stay in order inside its vector, whatever the sizes of buffer,
\* reads and messages (Buffer.h:58-119, readFd, fillEmptyBuffer).
THEOREM BuffersSoundCorrect == Spec => []BuffersSound
<1>1. IInv => BuffersSound
  BY DEF IInv, TypeOK, BuffersSound, Sound
<1> QED BY <1>1, Invariant, PTL

\* No byte is lost, repeated or moved between the frames sent and what is in
\* inputBuffer_ and on the wire (makeSpace, readFd, retrieve).
THEOREM StreamIntactCorrect == Spec => []StreamIntact
<1>1. IInv => StreamIntact
  BY DEF IInv
<1> QED BY <1>1, Invariant, PTL

\* When onMessage returns without an error no whole frame waits in the buffer
\* (codec.cc:94-120).
THEOREM NothingLeftBehindCorrect == Spec => []NothingLeftBehind
<1>1. IInv => NothingLeftBehind
  BY DEF IInv
<1> QED BY <1>1, Invariant, PTL
-----------------------------------------------------------------------------
(***************************************************************************)
(* The stream of messages that the codec implements.                       *)
(***************************************************************************)
\* The messages the abstract stream has been given.
Given == [i \in DOMAIN sent |-> IF Acceptable(sent[i]) THEN sent[i].message ELSE NoMessage]

\* What they are, one by one.
LEMMA GivenIs ==
  ASSUME IInv
  PROVE  /\ Len(Given) = Len(sent) /\ Len(sent) \in Nat
         /\ \A i \in 1 .. Len(sent) :
              Given[i] = IF Acceptable(sent[i]) THEN sent[i].message ELSE NoMessage
<1>1. DOMAIN sent = 1 .. Len(sent) /\ Len(sent) \in Nat
  BY LenProperties DEF IInv, TypeOK
<1>2. DOMAIN Given = 1 .. Len(sent)
  BY <1>1 DEF Given
<1>3. Len(Given) = Len(sent)
  BY <1>1, <1>2
<1> QED BY <1>1, <1>3 DEF Given

\* Putting a frame on the stream is sending its message, or something that
\* will be refused.
LEMMA PutSends ==
  ASSUME IInv, IInv', NEW m, NEW f, [message |-> m, frame |-> f] \in Sendable, Put(m, f)
  PROVE  /\ Len(Given') = Len(Given) + 1 /\ SubSeq(Given', 1, Len(Given)) = Given
         /\ UNCHANGED <<delivered, error>>
<1> DEFINE x == [message |-> m, frame |-> f]
           n == Len(sent)
<1>1. x \in Sendable /\ sent \in Seq(Sendable) /\ n \in Nat
  BY LenProperties DEF IInv, TypeOK
<1> HIDE DEF x
<1>2. sent' = Append(sent, x) /\ UNCHANGED <<delivered, error>>
  BY DEF Put, x
<1>3. Len(sent') = n + 1 /\ \A i \in 1 .. n : sent'[i] = sent[i]
  BY <1>1, <1>2, AppendProperties
<1>4. /\ Len(Given) = n
      /\ \A i \in 1 .. n :
           Given[i] = IF Acceptable(sent[i]) THEN sent[i].message ELSE NoMessage
  BY GivenIs
<1>5. /\ DOMAIN Given = 1 .. n
      /\ Given = [i \in 1 .. n |-> IF Acceptable(sent[i]) THEN sent[i].message ELSE NoMessage]
  <2>1. DOMAIN sent = 1 .. n
    BY <1>1, LenProperties
  <2> QED BY <2>1 DEF Given
<1>6. Given' = [i \in 1 .. n + 1 |->
                  IF Acceptable(sent'[i]) THEN sent'[i].message ELSE NoMessage]
  <2>1. sent' \in Seq(Sendable)
    BY DEF IInv, TypeOK
  <2>2. DOMAIN sent' = 1 .. n + 1
    BY <1>3, <2>1, LenProperties
  <2> QED BY <2>2 DEF Given, Acceptable
<1>7. ASSUME NEW i \in 1 .. n PROVE Given'[i] = Given[i]
  <2>1. i \in 1 .. n + 1 /\ sent'[i] = sent[i]
    BY <1>1, <1>3
  <2> QED BY <1>4, <1>6, <2>1
<1> DEFINE g == Given
           h == Given'
           any == {h[i] : i \in 1 .. n + 1}
<1>8. /\ h \in Seq(any) /\ Len(h) = n + 1
      /\ g \in Seq(any) /\ Len(g) = n /\ \A i \in 1 .. n : h[i] = g[i]
  <2>1. \A i \in 1 .. n + 1 : h[i] \in any
    OBVIOUS
  <2>2. \A i \in 1 .. n : h[i] = g[i] /\ g[i] \in any
    <3> TAKE i \in 1 .. n
    <3>1. i \in 1 .. n + 1
      BY <1>1
    <3> QED BY <1>7, <2>1, <3>1
  <2> HIDE DEF any
  <2>3. h \in [1 .. n + 1 -> any]
    <3> DEFINE e(i) == IF Acceptable(sent'[i]) THEN sent'[i].message ELSE NoMessage
    <3>1. h = [i \in 1 .. n + 1 |-> e(i)]
      BY <1>6
    <3>2. \A i \in 1 .. n + 1 : h[i] = e(i)
      BY <3>1
    <3> HIDE DEF e, h
    <3> QED BY <2>1, <3>1, <3>2
  <2>4. g \in [1 .. n -> any]
    <3> DEFINE e(i) == IF Acceptable(sent[i]) THEN sent[i].message ELSE NoMessage
    <3>1. g = [i \in 1 .. n |-> e(i)]
      BY <1>5
    <3>2. \A i \in 1 .. n : g[i] = e(i)
      BY <3>1
    <3> HIDE DEF e, g
    <3> QED BY <2>2, <3>1, <3>2
  <2> HIDE DEF g, h
  <2> QED BY <1>1, <2>2, <2>3, <2>4
<1> HIDE DEF g, h, any
<1>9. SubSeq(h, 1, n) = g
  <2>1. n \in 0 .. Len(h) /\ 0 \in Nat /\ 0 + Len(g) <= Len(h) /\ 0 + Len(g) = n
    BY <1>1, <1>8
  <2>2. \A i \in 1 .. Len(g) : h[0 + i] = g[i]
    BY <1>8
  <2>3. SubSeq(h, 0 + 1, 0 + Len(g)) = g
    BY <1>8, <2>1, <2>2, PartIs
  <2> QED BY <2>1, <2>3
<1> QED BY <1>2, <1>4, <1>8, <1>9 DEF g, h

\* Each step of the codec is a step of the stream of messages, or none.
LEMMA NextImplements ==
  ASSUME IInv, IInv', [Next]_vars
  PROVE  [Stream!Next]_(Stream!vars)
<1> DEFINE k == Len(delivered)
           x == Given[k + 1]
<1>0. /\ Stream!vars = <<Given, delivered, error # "kNoError">>
      /\ Stream!Next1 = x
  BY DEF Stream!vars, Stream!Next1, Given
<1>1. k \in 0 .. Len(sent) /\ Len(sent) \in Nat /\ Len(Given) = Len(sent)
  BY GivenIs DEF IInv, TypeOK
<1>2. ASSUME NEW m, NEW f, [message |-> m, frame |-> f] \in Sendable, Put(m, f)
      PROVE  Stream!Send
  BY <1>2, PutSends DEF Stream!Send, Given
<1>3. ASSUME UNCHANGED <<sent, delivered, error>>
      PROVE  UNCHANGED Stream!vars
  BY <1>3 DEF Stream!vars, Acceptable
<1>4. ASSUME decoding, LongEnough, ValidLength, Complete, DeliverMessage(Parsed)
      PROVE  Stream!Deliver
  <2>1. /\ k < Len(sent) /\ Acceptable(sent[k + 1])
        /\ Parsed = Success(sent[k + 1].message)
    BY <1>4, DeliverKeeps
  <2>2. Parsed.message = sent[k + 1].message
    BY <2>1 DEF Success
  <2>3. error = "kNoError"
    BY <2>1 DEF IInv, RefusedNext
  <2>4. k + 1 \in 1 .. Len(sent)
    BY <1>1, <2>1
  <2>5. x = sent[k + 1].message
    BY <2>1, <2>4, GivenIs
  <2>6. x # NoMessage
    BY <2>1, <2>5 DEF Acceptable
  <2>7. /\ delivered' = Append(delivered, [message |-> x, to |-> onProtobufMessage(x)])
        /\ UNCHANGED <<sent, error>>
    BY <1>4, <2>2, <2>5 DEF DeliverMessage
  <2>8. UNCHANGED Given
    BY <2>7 DEF Given, Acceptable
  <2> QED BY <1>0, <1>1, <2>1, <2>3, <2>6, <2>7, <2>8 DEF Stream!Deliver, Stream!Next1, Given
<1>5. ASSUME NEW e, e # "kNoError", ReportError(e),
             k < Len(sent), ~Acceptable(sent[k + 1])
      PROVE  Stream!Refuse \/ UNCHANGED Stream!vars
  <2>1. /\ error' = (IF error = "kNoError" THEN e ELSE error)
        /\ UNCHANGED <<sent, delivered>>
    BY <1>5 DEF ReportError
  <2>2. CASE error = "kNoError"
    <3>1. k + 1 \in 1 .. Len(sent)
      BY <1>1, <1>5
    <3>2. x = NoMessage
      BY <1>5, <3>1, GivenIs
    <3>3. UNCHANGED Given
      BY <2>1 DEF Given, Acceptable
    <3> QED BY <1>0, <1>1, <1>5, <2>1, <2>2, <3>2, <3>3 DEF Stream!Refuse, Stream!Next1, Given
  <2>3. CASE error # "kNoError"
    BY <1>3, <2>1, <2>3
  <2> QED BY <2>2, <2>3
<1>6. ASSUME NEW t \in DOMAIN Messages, NEW m \in Messages[t], Send(m)
      PROVE  Stream!Next
  BY <1>2, <1>6, SendPuts DEF Stream!Next
<1>7. ASSUME NEW f \in Foreign, SendForeign(f)
      PROVE  Stream!Next
  BY <1>2, <1>7, ForeignPuts DEF Stream!Next
<1>8. CASE TakeMessage
  <2>1. decoding /\ LongEnough /\ ValidLength /\ Complete
    BY <1>8 DEF TakeMessage
  <2>2. CASE DeliverMessage(Parsed)
    BY <1>4, <2>1, <2>2 DEF Stream!Next
  <2>3. CASE RefuseMessage(Parsed)
    <3>1. Parsed.error # "kNoError" /\ ReportError(Parsed.error)
      BY <2>3 DEF RefuseMessage
    <3>2. k < Len(sent) /\ ~Acceptable(sent[k + 1])
      BY <2>1, <3>1, RefusesNext
    <3> QED BY <1>5, <3>1, <3>2 DEF Stream!Next
  <2> QED BY <1>8, <2>2, <2>3 DEF TakeMessage
<1>9. CASE RefuseLength
  <2>1. decoding /\ LongEnough /\ ~ValidLength /\ ReportError("kInvalidLength")
    BY <1>9 DEF RefuseLength
  <2>2. k < Len(sent) /\ ~Acceptable(sent[k + 1])
    BY <2>1, RefusesNext
  <2> QED BY <1>5, <2>1, <2>2 DEF Stream!Next
<1>10. ASSUME NEW n \in Chunks, Read(n)
       PROVE  UNCHANGED Stream!vars
  BY <1>3, <1>10 DEF Read
<1>11. CASE ReadEnd
  BY <1>3, <1>11 DEF ReadEnd
<1>12. CASE AwaitMore
  BY <1>3, <1>12 DEF AwaitMore
<1>13. CASE UNCHANGED vars
  BY <1>3, <1>13 DEF vars
<1>14. CASE Terminated
  BY <1>13, <1>14 DEF Terminated
<1> QED BY <1>6, <1>7, <1>8, <1>9, <1>10, <1>11, <1>12, <1>13, <1>14 DEF Next, onMessage

\* The codec and the dispatcher implement the stream of messages: what they do
\* at any time is to give the next message to its callback, exactly as it was
\* sent, or to refuse it and give none after it.  (That each is given in the
\* end is the liveness part, which the run checks.)
THEOREM CodecImplementsStream ==
  Spec => Stream!Init /\ [][Stream!Next]_(Stream!vars)
<1>1. Init => Stream!Init
  <2> SUFFICES ASSUME Init PROVE Stream!Init
    OBVIOUS
  <2>1. IInv
    BY InitIsSound
  <2>2. Len(sent) = 0 /\ delivered = << >> /\ error = "kNoError"
    BY DEF Init
  <2>3. Len(Given) = 0
    BY <2>1, <2>2, GivenIs
  <2>4. Given = << >>
    <3>1. DOMAIN sent = 1 .. 0
      BY <2>1, <2>2, LenProperties DEF IInv, TypeOK
    <3> QED BY <3>1 DEF Given
  <2> QED BY <2>2, <2>4 DEF Stream!Init, Given
<1>2. IInv /\ IInv' /\ [Next]_vars => [Stream!Next]_(Stream!vars)
  BY NextImplements
<1> QED BY <1>1, <1>2, Invariant, PTL DEF Spec
=============================================================================
