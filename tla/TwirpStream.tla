---------------------------- MODULE TwirpStream ----------------------------
(***************************************************************************)
(* The body of a streaming twirp response, and what streaming.js makes of  *)
(* the bytes of it that have arrived so far.                               *)
(*                                                                         *)
(* A body is a row of frames.  A frame is a one-byte field tag, a varint   *)
(* with the length of the payload, and the payload.  What a byte is does   *)
(* not matter to the clients, only where the frames begin and how long     *)
(* their headers are, so a body is the record                              *)
(*   n      number of frames                                               *)
(*   start  start[i] is the position of the first byte of frame i, and     *)
(*          start[n + 1] is the length of the body                         *)
(*   head   head[i] is the number of header bytes (tag and length) of i    *)
(*   kind   what a reader that sees the header of frame i finds there      *)
(* Positions count bytes of the body from 0.                               *)
(***************************************************************************)
EXTENDS Integers, Sequences, FiniteSets

CONSTANT Bodies    \* the response bodies under consideration

\* "message"  MESSAGE_TAG and a length of at most MAX_LEN
\* "huge"     MESSAGE_TAG and a length above MAX_LEN
\* "EOF"      TRAILER_TAG, the payload is the string EOF
\* "error"    TRAILER_TAG, the payload is a json-encoded twirp error
\* "junk"     the tag is neither MESSAGE_TAG nor TRAILER_TAG
FrameKind == {"message", "huge", "EOF", "error", "junk"}

\* Only the last frame can be anything but a message: a server stops at its
\* trailer, and a reader stops at junk and at a huge frame.
IsBody(b) ==
    /\ b.n \in Nat
    /\ b.start \in [1 .. b.n + 1 -> Nat]
    /\ b.head \in [1 .. b.n -> Nat]
    /\ b.kind \in [1 .. b.n -> FrameKind]
    /\ b.start[1] = 0
    /\ \A i \in 1 .. b.n : b.head[i] >= 2
    /\ \A i \in 1 .. b.n : \A j \in i + 1 .. b.n + 1 :
          b.start[i] + b.head[i] <= b.start[j]
    /\ \A i \in 1 .. b.n : i < b.n => b.kind[i] = "message"

ASSUME BodiesAssumption == \A b \in Bodies : IsBody(b)

BodyLength(b) == b.start[b.n + 1]

\* The positions at which a body can be cut without cutting a frame.
Boundaries(b) == {b.start[i] : i \in 1 .. b.n + 1}

\* The messages of a body come first, so they are the frames 1 .. Messages(b).
Messages(b) == IF b.n > 0 /\ b.kind[b.n] # "message" THEN b.n - 1 ELSE b.n

----------------------------------------------------------------------------
(***************************************************************************)
(* A Uint8Array.  Its ArrayBuffer begins with the body's byte base, the    *)
(* view begins off bytes into the buffer (its byteOffset) and ends with    *)
(* the buffer, len bytes further.  Null and undefined are Empty: the code  *)
(* treats them alike (streaming.js 38, 39, 82).                            *)
(***************************************************************************)
View == [base : Nat, off : Nat, len : Nat]

Empty == [base |-> 0, off |-> 0, len |-> 0]

\* A chunk as it comes from the network: bytes from .. to - 1, in a buffer of
\* its own.
Chunk(from, to) == [base |-> from, off |-> 0, len |-> to - from]

\* The body's position of the first byte of a view.
First(view) == view.base + view.off

\* Mutant: the new chunk replaces the leftover bytes.
ConcatKeepsOne(aa, bb) == IF bb.len = 0 THEN aa ELSE bb

\* Only when both arrays hold bytes is a new buffer allocated.
concatByteArrays(aa, bb) ==
    CASE aa.len = 0 -> bb
      [] aa.len # 0 /\ bb.len = 0 -> aa
      [] OTHER -> [base |-> First(aa), off |-> 0, len |-> aa.len + bb.len]

----------------------------------------------------------------------------
(***************************************************************************)
(* One turn of the loop of extractMessages.  rr.pos is set to byteOffset   *)
(* before the first turn, and rr reads its view, so a turn at pos reads    *)
(* the body at First(view) + pos; the arrays it cuts out are cut from the  *)
(* buffer, at base + pos.  The two agree exactly if off is 0.  If they do  *)
(* not, the turn reads bytes from the middle of some payload: any of the   *)
(* outcomes is possible, save that a read past the end of the view fails.  *)
(***************************************************************************)
ReaderStart(view) == view.off

\* Mutant: messages are numbered from the end of the frame.
YieldNext(frame, next) ==
    [result |-> "yield", frame |-> frame + 1, next |-> next, rest |-> Empty]

Yield(frame, next) ==
    [result |-> "yield", frame |-> frame, next |-> next, rest |-> Empty]

Throw(error) == [result |-> error, frame |-> 0, next |-> 0, rest |-> Empty]

Incomplete(rest) ==
    [result |-> "incomplete", frame |-> 0, next |-> 0, rest |-> rest]

\* The trailer EOF: the generator returns.
Return == [result |-> "return", frame |-> 0, next |-> 0, rest |-> Empty]

Thrown == {"notTwirp", "huge", "RangeError", "TwirpError"}

\* The bytes from tagStartPos to the end of the buffer.
From(view, tagStartPos) ==
    [base |-> view.base, off |-> tagStartPos,
     len  |-> view.off + view.len - tagStartPos]

\* Of the frame at hand only the tag is there.
DanglingTag(avail) == avail <= 1

\* Mutant: a frame that ends where the view ends counts as incomplete.
CutAtTheEdge(next, view) == next >= view.len

\* The payload goes on beyond the end of the view (msgLen > leftInBuffer).
CutShort(next, view) == next > view.len

\* What a complete trailer makes of the stream.
Trailer(kind) == IF kind = "EOF" THEN Return ELSE Throw("TwirpError")

\* A turn at the first byte of frame i, of which avail bytes have arrived.
\* A varint that ends outside the view makes rr.int32 throw a RangeError; the
\* tag alone is noticed, a length cut in two is not.
TurnAtFrame(b, i, view, pos) ==
    LET avail == view.len - pos
        next  == pos + b.start[i + 1] - b.start[i]
        tag   == First(view) + pos
    IN  IF      b.kind[i] = "junk" THEN Throw("notTwirp")
        ELSE IF DanglingTag(avail) THEN Incomplete(Chunk(tag, tag + 1))
        ELSE IF avail < b.head[i]  THEN Throw("RangeError")
        ELSE IF b.kind[i] = "huge" THEN Throw("huge")
        ELSE IF CutShort(next, view) THEN Incomplete(From(view, pos))
        ELSE IF b.kind[i] \in {"EOF", "error"} THEN Trailer(b.kind[i])
        ELSE                            Yield(i, next)

\* A turn that reads and cuts at different places; frame 0 is a message that
\* nobody sent.
StrayTurns(view, pos) ==
    LET last == First(view) + view.len - 1
    IN  IF pos >= view.len
          THEN {Throw("RangeError")}
          ELSE {Throw(e) : e \in Thrown} \cup {Yield(0, next) : next \in pos + 2 .. view.len}
               \cup {Return, Incomplete(From(view, pos)), Incomplete(Chunk(last, last + 1))}

Turns(b, view, pos) ==
    LET here == {i \in 1 .. b.n : b.start[i] = First(view) + pos}
    IN  IF view.off = 0 /\ here # {}
          THEN {TurnAtFrame(b, i, view, pos) : i \in here}
          ELSE StrayTurns(view, pos)

----------------------------------------------------------------------------
(***************************************************************************)
(* Where a body ends for a client.  It gets the bytes before position at,  *)
(* and then the connection closes or reader.read() fails.                  *)
(***************************************************************************)
Ends(b) == [at : 0 .. BodyLength(b), how : {"close", "reset"}]

\* The body is closed in the middle of a frame, and nothing says so.
CutInside(b, e) == e.how = "close" /\ e.at \notin Boundaries(b)

\* The messages that reach the client whole.
ArriveWhole(b, e) == {i \in 1 .. Messages(b) : b.start[i + 1] <= e.at}

\* A response that neither breaks off nor reports an error.
Flawless(b, e) ==
    /\ e.how = "close"
    /\ e.at = BodyLength(b) => b.n = 0 \/ b.kind[b.n] \in {"message", "EOF"}
============================================================================
