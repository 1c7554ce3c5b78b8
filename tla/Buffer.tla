------------------------------- MODULE Buffer -------------------------------
(***************************************************************************)
(* muduo::Buffer (src/Buffer.h, src/Buffer.cc) as a data structure: a      *)
(* vector of bytes with two indices into it, the readable bytes between    *)
(* them.  Every member function that changes the buffer is an operator     *)
(* that returns the changed one, the ones it calls included.               *)
(*                                                                         *)
(* A buffer is a record: mem is buffer_, reader and writer are             *)
(* readerIndex_ and writerIndex_ (from 0, so that the readable bytes are   *)
(* mem[reader + 1 .. writer]), and ok says that no assert has failed yet.  *)
(* copy(3) beyond the vector is not modelled: it would make ok FALSE.      *)
(***************************************************************************)
EXTENDS Integers, Sequences

CONSTANTS
  kInitialSize,   \* bytes a new buffer can take (1024 in the code)
  ExtraBuf        \* size of readFd's buffer on the stack (65536 in the code)

ASSUME BufferAssumption == /\ kInitialSize \in Nat
                           /\ ExtraBuf \in Nat \ {0}

kCheapPrepend == 8

readableBytes(b)    == b.writer - b.reader
writableBytes(b)    == Len(b.mem) - b.writer
prependableBytes(b) == b.reader

\* The bytes from peek() to beginWrite().
Contents(b) == SubSeq(b.mem, b.reader + 1, b.writer)

Asserting(b, condition) == [b EXCEPT !.ok = @ /\ condition]

\* std::copy of the bytes s to begin() + at.
Copy(b, at, s) ==
  [b EXCEPT !.mem = SubSeq(@, 1, at) \o s \o SubSeq(@, at + Len(s) + 1, Len(@)),
            !.ok  = @ /\ at + Len(s) <= Len(b.mem)]

\* vector::resize to n bytes, more than there are: new ones are zero.
Resize(b, n) == [b EXCEPT !.mem = @ \o [i \in 1 .. n - Len(@) |-> 0]]

NewBuffer == [mem    |-> [i \in 1 .. kCheapPrepend + kInitialSize |-> 0],
              reader |-> kCheapPrepend,
              writer |-> kCheapPrepend,
              ok     |-> TRUE]

retrieve(b, len) ==
  Asserting([b EXCEPT !.reader = @ + len], len <= readableBytes(b))

hasWritten(b, len) == [b EXCEPT !.writer = @ + len]

\* Mutant of makeSpace: the indices stay when the bytes move.
makeSpaceKeepsIndices(b, len) ==
  IF writableBytes(b) + prependableBytes(b) < len + kCheapPrepend
  THEN Resize(b, b.writer + len)
  ELSE Copy(b, kCheapPrepend, Contents(b))

\* Room for len bytes: grow, or move the readable bytes to the front when the
\* space before and after them is enough.
makeSpace(b, len) ==
  IF writableBytes(b) + prependableBytes(b) < len + kCheapPrepend
  THEN Resize(b, b.writer + len)
  ELSE LET moved == [Copy(b, kCheapPrepend, Contents(b))
                       EXCEPT !.reader = kCheapPrepend,
                              !.writer = kCheapPrepend + readableBytes(b)]
       IN  Asserting(moved, /\ kCheapPrepend < b.reader
                            /\ readableBytes(moved) = readableBytes(b))

ensureWritableBytes(b, len) ==
  LET roomy == IF writableBytes(b) < len THEN makeSpace(b, len) ELSE b
  IN  Asserting(roomy, len <= writableBytes(roomy))

append(b, s) ==
  LET roomy == ensureWritableBytes(b, Len(s))
  IN  hasWritten(Copy(roomy, roomy.writer, s), Len(s))

prepend(b, s) ==
  LET front == Asserting([b EXCEPT !.reader = @ - Len(s)],
                      Len(s) <= prependableBytes(b))
  IN  Copy(front, front.reader, s)

\* Mutant of readFd: what went into the extra buffer is not appended.
readFdDropsExtra(b, s) ==
  IF Len(s) <= writableBytes(b)
  THEN hasWritten(Copy(b, b.writer, s), Len(s))
  ELSE [Copy(b, b.writer, SubSeq(s, 1, writableBytes(b)))
          EXCEPT !.writer = Len(b.mem)]

\* readFd when readv brings the bytes s: the vector takes what it has room
\* for, the buffer on the stack the rest, which is appended.
readFd(b, s) ==
  IF Len(s) <= writableBytes(b)
  THEN hasWritten(Copy(b, b.writer, s), Len(s))
  ELSE append([Copy(b, b.writer, SubSeq(s, 1, writableBytes(b)))
                 EXCEPT !.writer = Len(b.mem)],
              SubSeq(s, writableBytes(b) + 1, Len(s)))

\* What readv can return at once.
ReadvLimit(b) == writableBytes(b) + ExtraBuf

\* Big-endian int32.
hostToNetwork32(x) == <<(x \div 16777216) % 256, (x \div 65536) % 256,
                        (x \div 256) % 256, x % 256>>
networkToHost32(s) ==
  (IF s[1] < 128 THEN s[1] ELSE s[1] - 256) * 16777216
    + s[2] * 65536 + s[3] * 256 + s[4]

appendInt32(b, x) == append(b, hostToNetwork32(x))

\* What peekInt32 returns, and the buffer with its assert.
peekInt32(b) == networkToHost32(Contents(b))
peeked(b)    == Asserting(b, readableBytes(b) >= 4)

(***************************************************************************)
(* What the functions above keep: the indices in order and inside the      *)
(* vector, room in front for a length, and no assert failed.  It is false  *)
(* while prepended bytes stand in that room; a buffer that is read into    *)
(* has none there.                                                         *)
(***************************************************************************)
BufferOK(b) ==
  /\ b.ok
  /\ kCheapPrepend <= b.reader
  /\ b.reader <= b.writer
  /\ b.writer <= Len(b.mem)
=============================================================================
