------------------------------ MODULE GoClient ------------------------------
(***************************************************************************)
(* The generated Go client as main_client.go uses it: one Echo, and then a *)
(* streaming call.  Repeat starts a goroutine that reads the response with *)
(* protoStreamReader and hands every message over an unbuffered channel;   *)
(* the caller ranges over the channel, looks at each message and may       *)
(* cancel the context.                                                     *)
(*                                                                         *)
(* The goroutine decodes every message into the same RepeatResp and sends  *)
(* the same pointer each time, so what the caller looks at may change.     *)
(*                                                                         *)
(* Message i of the body carries the ID i (see TwirperServer).              *)
(***************************************************************************)
EXTENDS TwirpStream

CONSTANT CancelAfters   \* values of the flag cancel; a negative one never cancels

ASSUME CancelAftersAssumption == CancelAfters \subseteq Int

VARIABLES
    body,          \* the response body, as the server sends it
    end,           \* where the body ends for this client, and how
    cancelAfter,   \* the flag cancel
    cancelled,     \* the context is cancelled
    bodyOpen,      \* resp.Body is open
    goroutine,     \* "none", "reading", "decoding", "sending" or "returned"
    frame,         \* the frame the goroutine is at
    out,           \* the ID of the RepeatResp all messages are decoded into
    item,          \* what the goroutine sends: "message" or "error"
    caller,        \* "echoing", "calling", "waiting", "looking", "done" or "failed"
    received,      \* the messages received from the channel
    seen           \* the IDs the caller has read from them

vars == <<body, end, cancelAfter, cancelled, bodyOpen, goroutine, frame, out, item,
          caller, received, seen>>

TypeOK ==
    /\ IsBody(body)
    /\ end \in Ends(body)
    /\ cancelAfter \in Int
    /\ cancelled \in BOOLEAN
    /\ bodyOpen \in BOOLEAN
    /\ goroutine \in {"none", "reading", "decoding", "sending", "returned"}
    /\ frame \in 1 .. body.n + 1
    /\ out \in 0 .. body.n
    /\ item \in {"none", "message", "error"}
    /\ caller \in {"echoing", "calling", "waiting", "looking", "done", "failed"}
    /\ received \in Seq(1 .. body.n)
    /\ seen \in Seq(0 .. body.n)

Init ==
    /\ body \in Bodies
    /\ end \in Ends(body)
    /\ cancelAfter \in CancelAfters
    /\ cancelled = FALSE
    /\ bodyOpen = FALSE
    /\ goroutine = "none"
    /\ frame = 1
    /\ out = 0
    /\ item = "none"
    /\ caller = "echoing"
    /\ received = <<>>
    /\ seen = <<>>

----------------------------------------------------------------------------
\* doProtobufRequest returns the response or an error, which ends main; it closes
\* the body it has opened either way.
Echo ==
    /\ caller = "echoing"
    /\ caller' \in {"calling", "failed"}
    /\ UNCHANGED <<body, end, cancelAfter, cancelled, bodyOpen, goroutine, frame, out,
                   item, received, seen>>

(***************************************************************************)
(* Repeat                                                                  *)
(***************************************************************************)
\* The request cannot be marshalled, built or done, or the context is done before it.
RequestFails ==
    /\ caller = "calling"
    /\ caller' = "failed"
    /\ UNCHANGED <<body, end, cancelAfter, cancelled, bodyOpen, goroutine, frame, out,
                   item, received, seen>>

\* The context is done by now, or the status is not 200: the error is returned and
\* the body stays open.
StatusFails ==
    /\ caller = "calling"
    /\ bodyOpen' = TRUE
    /\ caller' = "failed"
    /\ UNCHANGED <<body, end, cancelAfter, cancelled, goroutine, frame, out, item,
                   received, seen>>

StartReading ==
    /\ caller = "calling"
    /\ bodyOpen' = TRUE
    /\ goroutine' = "reading"
    /\ caller' = "waiting"
    /\ UNCHANGED <<body, end, cancelAfter, cancelled, frame, out, item, received, seen>>

----------------------------------------------------------------------------
(***************************************************************************)
(* The goroutine and protoStreamReader.Read                                *)
(***************************************************************************)
\* Mutant: any end inside a message counts as the end of the stream.
ReadLeniently(b, at, i) ==
    IF i > b.n                                  THEN {"EOF"}
    ELSE IF at < b.start[i + 1]                 THEN {"EOF"}
    ELSE IF b.kind[i] \in {"message", "EOF"}    THEN {IF b.kind[i] = "EOF" THEN "EOF" ELSE "message"}
    ELSE                                             {"error"}

\* What Read finds at frame i if the connection closes at the end: a message, or
\* what it returns, "EOF" (io.EOF) or "error".  io.EOF comes from a body that ends
\* before the tag, before the length or before the payload; within the length it
\* depends on the version of encoding/binary.
ReadClosed(b, at, i) ==
    LET have == at - b.start[i]
        size == b.start[i + 1] - b.start[i]
    IN  IF i > b.n \/ have <= 0       THEN {"EOF"}
        ELSE IF b.kind[i] = "junk"    THEN {"error"}
        ELSE IF b.kind[i] \in {"EOF", "error"}
               THEN {IF have = size /\ b.kind[i] = "EOF" THEN "EOF" ELSE "error"}
        ELSE IF have = 1              THEN {"EOF"}
        ELSE IF have < b.head[i]      THEN {"EOF", "error"}
        ELSE IF b.kind[i] = "huge"    THEN {"error"}
        ELSE IF have >= size          THEN {"message"}
        ELSE IF have = b.head[i]      THEN {"EOF"}
        ELSE                               {"error"}

\* A reset, and a cancelled context, is an error unless the message has arrived
\* whole; a trailer is read to the end of the body and meets the reset too.
ReadBroken(b, at, i) ==
    IF i <= b.n /\ b.kind[i] = "message" /\ b.start[i + 1] <= at
      THEN {"message"} ELSE {"error"}

Reads(b, e, i) ==
    IF e.how = "close" THEN ReadClosed(b, e.at, i) ELSE ReadBroken(b, e.at, i)

\* The deferred function closes the body and the channel.
CloseAll ==
    /\ goroutine' = "returned"
    /\ bodyOpen' = FALSE

ReadMessage ==
    /\ goroutine = "reading"
    /\ "message" \in Reads(body, end, frame)
    /\ goroutine' = "decoding"
    /\ out' = 0                     \* proto.Unmarshal resets the message first
    /\ UNCHANGED <<body, end, cancelAfter, cancelled, bodyOpen, frame, item, caller,
                   received, seen>>

ReadEOF ==
    /\ goroutine = "reading"
    /\ "EOF" \in Reads(body, end, frame)
    /\ CloseAll
    /\ UNCHANGED <<body, end, cancelAfter, cancelled, frame, out, item, caller, received, seen>>

SendError ==
    /\ item' = "error"
    /\ goroutine' = "sending"
    /\ UNCHANGED <<body, end, cancelAfter, cancelled, bodyOpen, frame, out, caller,
                   received, seen>>

\* Bytes that are buffered are read after the cancellation too, or not.
ReadFails ==
    /\ goroutine = "reading"
    /\ "error" \in Reads(body, end, frame) \/ cancelled
    /\ SendError

\* Mutant: a response is dropped if the caller is not waiting for it.
DecodeOrDrop ==
    /\ goroutine = "decoding"
    /\ out' = frame
    /\ frame' = frame + 1
    /\ item' = "message"
    /\ goroutine' = IF caller = "waiting" THEN "sending" ELSE "reading"
    /\ UNCHANGED <<body, end, cancelAfter, cancelled, bodyOpen, caller, received, seen>>

Decode ==
    /\ goroutine = "decoding"
    /\ out' = frame
    /\ frame' = frame + 1
    /\ item' = "message"
    /\ goroutine' = "sending"
    /\ UNCHANGED <<body, end, cancelAfter, cancelled, bodyOpen, caller, received, seen>>

DecodeFails == goroutine = "decoding" /\ SendError

----------------------------------------------------------------------------
(***************************************************************************)
(* The channel and the caller                                              *)
(***************************************************************************)
\* The channel is unbuffered: only now does the goroutine go on.
Receive ==
    /\ caller = "waiting"
    /\ goroutine = "sending" /\ item = "message"
    /\ received' = Append(received, frame - 1)
    /\ goroutine' = "reading"
    /\ caller' = "looking"
    /\ UNCHANGED <<body, end, cancelAfter, cancelled, bodyOpen, frame, out, item, seen>>

\* Mutant: the goroutine sends the error and reads on.
ReceiveErrorAndGoOn ==
    /\ caller = "waiting"
    /\ goroutine = "sending" /\ item = "error"
    /\ goroutine' = "reading"
    /\ caller' = "failed"
    /\ UNCHANGED <<body, end, cancelAfter, cancelled, bodyOpen, frame, out, item, received, seen>>

ReceiveError ==
    /\ caller = "waiting"
    /\ goroutine = "sending" /\ item = "error"
    /\ CloseAll
    /\ caller' = "failed"
    /\ UNCHANGED <<body, end, cancelAfter, cancelled, frame, out, item, received, seen>>

\* The caller reads the ID through the pointer, and cancels at the ID it waits for.
Look ==
    /\ caller = "looking"
    /\ seen' = Append(seen, out)
    /\ cancelled' = (cancelled \/ out = cancelAfter)
    /\ caller' = "waiting"
    /\ UNCHANGED <<body, end, cancelAfter, bodyOpen, goroutine, frame, out, item, received>>

\* The channel is closed: the range loop ends.
LeaveRange ==
    /\ caller = "waiting"
    /\ goroutine = "returned"
    /\ caller' = "done"
    /\ UNCHANGED <<body, end, cancelAfter, cancelled, bodyOpen, goroutine, frame, out,
                   item, received, seen>>

Goroutine == ReadMessage \/ ReadEOF \/ ReadFails \/ Decode \/ DecodeFails

Caller == Echo \/ RequestFails \/ StatusFails \/ StartReading \/ Look \/ LeaveRange

Ended == caller \in {"done", "failed"}

Finished == Ended /\ goroutine \in {"none", "returned"} /\ UNCHANGED vars

Next == Goroutine \/ Caller \/ Receive \/ ReceiveError \/ Finished

Spec == Init /\ [][Next]_vars

\* The Go scheduler runs goroutines that can run, and a body delivers or ends.
FairSpec ==
    Spec /\ WF_vars(Goroutine) /\ WF_vars(Caller) /\ WF_vars(Receive \/ ReceiveError)

----------------------------------------------------------------------------
(***************************************************************************)
(* Properties                                                              *)
(***************************************************************************)
\* A body that closes inside the header of a message, or right behind it: Read
\* returns the io.EOF of a complete stream.
LostQuietly ==
    /\ end.how = "close"
    /\ \E i \in 1 .. body.n :
          /\ body.kind[i] \in {"message", "huge"}
          /\ end.at \in body.start[i] + 1 .. body.start[i] + body.head[i]
          /\ end.at < body.start[i + 1]

\* What the caller reads from a message is that message, or the next one, which
\* the goroutine may be decoding into the same memory, never anything further: the
\* unbuffered channel holds the goroutine back (twirper.twirp.go:122-131).
AtMostOneAhead ==
    \A k \in 1 .. Len(seen) : seen[k] \in {0, received[k], received[k] + 1}

\* A stream that was begun ends for both sides: the caller's loop is left, and the
\* goroutine has closed the body and the channel.
StreamEnds == goroutine = "reading" ~> (Ended /\ goroutine = "returned" /\ ~bodyOpen)

\* What the caller sees of the outcome.  Nothing is promised of a message that is
\* lost quietly: such a call maps to one where nothing ever happens.
Verdict ==
    IF LostQuietly \/ ~Ended THEN "pending"
    ELSE IF caller = "done" THEN "success" ELSE "failure"

Handed == IF LostQuietly THEN <<>> ELSE received

Promise == INSTANCE StreamDelivery
             WITH arriving <- Cardinality(ArriveWhole(body, end)),
                  flawless <- Flawless(body, end) /\ ~CutInside(body, end),
                  delivered <- Handed,
                  outcome <- Verdict

\* The call keeps what StreamDelivery promises: Repeat with its goroutine and the
\* reader implements it, for truncated bodies too: the range loop ends without an
\* error only if nothing that arrived was an error, a cut frame included, unless
\* the cut is one that Read cannot tell from the end (protoStreamReader.Read).
KeepsPromise == Promise!Spec

----------------------------------------------------------------------------
(***************************************************************************)
(* The inductive invariant behind TypeOK and AtMostOneAhead: the goroutine *)
(* is one frame ahead of what the caller has received exactly while it     *)
(* offers a message, and a caller that does not look has looked at         *)
(* everything.                                                             *)
(***************************************************************************)
Offering == goroutine = "sending" /\ item = "message"

FrameIsNext ==
    /\ received = [i \in 1 .. Len(received) |-> i]
    /\ frame = Len(received) + (IF Offering THEN 2 ELSE 1)
    /\ goroutine = "decoding" => frame <= body.n

OutIsRecent ==
    /\ out \in {0, Len(received), Len(received) + 1}
    /\ Offering => out = Len(received) + 1

SeenIsCurrent == Len(received) = Len(seen) + (IF caller = "looking" THEN 1 ELSE 0)

BeforeReading == caller \in {"echoing", "calling"} => goroutine = "none"

IInv ==
    TypeOK /\ BeforeReading /\ FrameIsNext /\ OutIsRecent /\ SeenIsCurrent /\ AtMostOneAhead

(***************************************************************************)
(* What KeepsPromise needs besides: the goroutine takes, offers and hands  *)
(* over only messages that have arrived whole, and closes the channel      *)
(* without an error only at the end of everything that arrived.            *)
(***************************************************************************)
Complete ==
    /\ Flawless(body, end) /\ ~CutInside(body, end)
    /\ Len(received) = Cardinality(ArriveWhole(body, end))

HandsOverWhatArrived ==
    /\ Len(received) <= Messages(body)
    /\ body.start[Len(received) + 1] <= end.at
    /\ goroutine = "decoding" \/ Offering => Len(received) + 1 \in ArriveWhole(body, end)

ClosesAtTheEnd == goroutine = "returned" /\ caller # "failed" /\ ~LostQuietly => Complete
============================================================================
