---------------------------- MODULE FetchStream ----------------------------
(***************************************************************************)
(* A call of transports/fetch_transport.js.  fetchTwirpRPC sends the       *)
(* request, and decodes a unary response at once; readFromStream reads a   *)
(* streaming response to its end, chunk by chunk, takes the messages out   *)
(* of the chunks with extractMessages, keeps the bytes of a message that   *)
(* is not complete for the next chunk (reader.leftover), and hands every   *)
(* message to the callback of the rpc method.                              *)
(*                                                                         *)
(* The network decides how the body is cut into chunks, where it ends and  *)
(* whether it ends by closing or by an error of reader.read().             *)
(***************************************************************************)
EXTENDS TwirpStream

VARIABLES
    streaming,  \* the method is one of streamingRespMethods
    body,       \* the response body, as the server sends it
    end,        \* where the body ends for this client, and how
    got,        \* how many bytes of it reader.read() has returned
    leftover,   \* reader.leftover
    phase,      \* where the call stands
    view,       \* the array extractMessages works on
    pos,        \* rr.pos, where its next turn begins
    delivered,  \* the frames handed to the callback
    outcome     \* how the promise of the call stands

response == <<streaming, body, end>>

vars == <<response, got, leftover, phase, view, pos, delivered, outcome>>

\* "requesting"  awaits fetch() or the json of an error response
\* "answering"   awaits resp.arrayBuffer() of a unary response
\* "reading"     awaits reader.read()
\* "extracting"  in the for loop of readFromStream
Phase == {"requesting", "answering", "reading", "extracting"}

\* The promise resolves, or is rejected by the request, by the status, because
\* callback or getReader is missing, by a broken connection, by decode or the
\* callback itself, or by extractMessages.
Outcome ==
    {"pending", "resolved", "transport", "status", "unusable", "network", "callback"}
    \cup Thrown

Truncated == streaming /\ CutInside(body, end)

TypeOK ==
    /\ streaming \in BOOLEAN
    /\ IsBody(body)
    /\ end \in Ends(body)
    /\ got \in 0 .. end.at
    /\ leftover \in View
    /\ phase \in Phase
    /\ view \in View
    /\ pos \in Nat
    /\ delivered \in Seq(0 .. body.n)
    /\ outcome \in Outcome

Init ==
    /\ streaming \in BOOLEAN
    /\ body \in Bodies
    /\ end \in Ends(body)
    /\ got = 0
    /\ leftover = Empty
    /\ phase = "requesting"
    /\ view = Empty
    /\ pos = 0
    /\ delivered = <<>>
    /\ outcome = "pending"

----------------------------------------------------------------------------
Settle(how) ==
    /\ outcome' = how
    /\ UNCHANGED <<response, got, leftover, phase, view, pos, delivered>>

(***************************************************************************)
(* fetchTwirpRPC and sendReqAndCheckResp                                   *)
(***************************************************************************)
RequestFails ==
    /\ outcome = "pending" /\ phase = "requesting"
    /\ Settle("transport")

\* The status is not 200.  A body that is no json ends in a ReferenceError, which
\* rejects the promise too.
StatusFails ==
    /\ outcome = "pending" /\ phase = "requesting"
    /\ Settle("status")

\* A streaming method without a callback, or without Response.body.getReader.
Unusable ==
    /\ outcome = "pending" /\ phase = "requesting"
    /\ streaming
    /\ Settle("unusable")

GetBody ==
    /\ outcome = "pending" /\ phase = "requesting"
    /\ phase' = IF streaming THEN "reading" ELSE "answering"
    /\ UNCHANGED <<response, got, leftover, view, pos, delivered, outcome>>

\* The unary response is decoded and returned.
Answer ==
    /\ outcome = "pending" /\ phase = "answering"
    /\ \/ end.how = "close" /\ \E how \in {"resolved", "callback"} : Settle(how)
       \/ end.how = "reset" /\ Settle("network")

(***************************************************************************)
(* readFromStream                                                          *)
(***************************************************************************)
\* Mutant: the leftover bytes are not cleared when they are joined.
BeginKeepingLeftover(chunk) ==
    /\ view' = concatByteArrays(leftover, chunk)
    /\ pos' = ReaderStart(view')
    /\ phase' = "extracting"
    /\ UNCHANGED <<response, leftover, delivered, outcome>>

\* What follows reader.read(): the bytes are joined to the leftover ones, which
\* are cleared, and the for loop begins.
BeginExtracting(chunk) ==
    /\ view' = concatByteArrays(leftover, chunk)
    /\ pos' = ReaderStart(view')
    /\ leftover' = Empty
    /\ phase' = "extracting"
    /\ UNCHANGED <<response, delivered, outcome>>

ReadChunk ==
    /\ outcome = "pending"
    /\ phase = "reading"
    /\ \E to \in got + 1 .. end.at :
          /\ got' = to
          /\ BeginExtracting(Chunk(got, to))

\* The reader is done, now and at every later call.
ReadDone ==
    /\ outcome = "pending"
    /\ phase = "reading"
    /\ got = end.at
    /\ end.how = "close"
    /\ \/ leftover.len = 0 /\ Settle("resolved")
       \/ leftover.len # 0 /\ got' = got /\ BeginExtracting(Empty)

ReadFails ==
    /\ outcome = "pending"
    /\ phase = "reading"
    /\ got = end.at
    /\ end.how = "reset"
    /\ Settle("network")

\* One turn of the for loop; the loop ends at the end of the view.
Take(turn) ==
    \/ /\ turn.result = "yield"
       /\ delivered' = Append(delivered, turn.frame)
       /\ pos' = turn.next
       /\ phase' = IF turn.next >= view.len THEN "reading" ELSE "extracting"
       /\ UNCHANGED <<response, got, leftover, view, outcome>>
    \/ /\ turn.result = "yield"     \* decode or the callback itself throws
       /\ Settle("callback")
    \/ /\ turn.result = "incomplete"
       /\ leftover' = turn.rest
       /\ phase' = "reading"
       /\ UNCHANGED <<response, got, view, pos, delivered, outcome>>
    \/ /\ turn.result = "return"
       /\ phase' = "reading"
       /\ UNCHANGED <<response, got, leftover, view, pos, delivered, outcome>>
    \/ /\ turn.result \in Thrown
       /\ Settle(turn.result)

Extract ==
    /\ outcome = "pending"
    /\ phase = "extracting"
    /\ \E turn \in Turns(body, view, pos) : Take(turn)

\* The call is over; nothing is left to do.
Settled == outcome # "pending" /\ UNCHANGED vars

Next == RequestFails \/ StatusFails \/ Unusable \/ GetBody \/ Answer
           \/ ReadChunk \/ ReadDone \/ ReadFails \/ Extract \/ Settled

Spec == Init /\ [][Next]_vars

\* The event loop runs what is ready, and a connection delivers or ends.
FairSpec == Spec /\ WF_vars(Next)
----------------------------------------------------------------------------
\* A failure that the first undelivered frame accounts for.
HasCause ==
    LET next == Len(delivered) + 1
    IN  /\ next <= body.n
        /\ outcome = "TwirpError" => body.kind[next] = "error"
        /\ outcome = "notTwirp" => body.kind[next] = "junk"
        /\ outcome = "huge" => body.kind[next] = "huge"
        /\ outcome = "RangeError" => body.head[next] > 2

\* What the caller sees of the outcome.  Nothing is promised of a body that is
\* cut inside a frame: such a call maps to one where nothing ever happens.  A
\* unary call hands nothing to a callback; its promise carries the message.
Verdict ==
    IF Truncated \/ outcome = "pending" THEN "pending"
    ELSE IF outcome = "resolved" THEN "success" ELSE "failure"

Handed == IF Truncated THEN <<>> ELSE delivered

Promise == INSTANCE StreamDelivery
             WITH arriving <- IF streaming THEN Cardinality(ArriveWhole(body, end)) ELSE 0,
                  flawless <- streaming => Flawless(body, end),
                  delivered <- Handed,
                  outcome <- Verdict

----------------------------------------------------------------------------
(***************************************************************************)
(* Properties                                                              *)
(***************************************************************************)
\* However the network cuts the body into chunks, the callback gets the
\* messages in order, each once and none of the server's left out in between
\* (readFromStream, extractMessages), unless the body is cut inside a frame.
InOrder ==
    Truncated \/ delivered = [i \in 1 .. Len(delivered) |-> i]

\* Between two reads no byte is lost or held twice: the leftover bytes begin
\* where the first undelivered frame begins and end where the next chunk begins.
LeftoverIsTheGap ==
    (~Truncated /\ outcome = "pending" /\ phase = "reading" /\ leftover.len # 0)
       => /\ First(leftover) = body.start[Len(delivered) + 1]
          /\ First(leftover) + leftover.len = got
          /\ body.start[Len(delivered) + 2] > got

\* The promise resolves only if every message that arrived has been handed
\* over and nothing that arrived was an error of the server.
ResolvedIsComplete ==
    (streaming /\ ~Truncated /\ outcome = "resolved")
       => /\ delivered = [i \in 1 .. Cardinality(ArriveWhole(body, end)) |-> i]
          /\ Flawless(body, end)

\* A failure has a cause in the body: the frame after the last delivered one
\* is a trailer, or no twirp frame, or has a length of more than one byte.
FailureHasCause == (~Truncated /\ outcome \in Thrown) => HasCause

\* The promise of a streaming call settles if no frame is cut by the end.
SettlesUnlessTruncated == ~Truncated ~> outcome # "pending"

----------------------------------------------------------------------------
(***************************************************************************)
(* The inductive invariant behind InOrder, LeftoverIsTheGap,               *)
(* ResolvedIsComplete and FailureHasCause: as long as the call is pending, *)
(* the bytes not yet turned into messages begin where frame Len(delivered) *)
(* + 1 begins and end where the next chunk will begin.                     *)
(***************************************************************************)
\* Every byte read belongs to a delivered message, or to the trailer EOF.
Drained ==
    \/ got = body.start[Len(delivered) + 1]
    \/ got = BodyLength(body) /\ Len(delivered) + 1 = body.n
       /\ body.kind[body.n] = "EOF"

WhileReading ==
    /\ leftover.len = 0 => Drained
    /\ leftover.len # 0 =>
          /\ Len(delivered) < body.n
          /\ First(leftover) = body.start[Len(delivered) + 1]
          /\ First(leftover) + leftover.len = got
          /\ got < body.start[Len(delivered) + 2]

WhileExtracting ==
    /\ Len(delivered) < body.n
    /\ leftover = Empty
    /\ view.off = 0
    /\ pos < view.len
    /\ view.base + pos = body.start[Len(delivered) + 1]
    /\ view.base + view.len = got

\* Before readFromStream nothing has been read.
BeforeReading ==
    /\ phase \in {"requesting", "answering"} =>
          got = 0 /\ leftover = Empty /\ delivered = <<>>
    /\ phase \in {"reading", "extracting"} => streaming
    /\ phase = "answering" => ~streaming

Progress ==
    /\ BeforeReading
    /\ Len(delivered) <= Messages(body)
    /\ delivered = [i \in 1 .. Len(delivered) |-> i]
    /\ (outcome = "pending" /\ phase = "reading") => WhileReading
    /\ (outcome = "pending" /\ phase = "extracting") => WhileExtracting
    /\ (streaming /\ outcome = "resolved") => Drained /\ got = end.at /\ end.how = "close"
    /\ outcome \in Thrown => HasCause

\* A truncated body is out of the code's control: nothing is claimed of it.
IInv == TypeOK /\ (Truncated \/ Progress)

\* Unless the body is cut inside a frame, the call keeps what StreamDelivery
\* promises: readFromStream implements it.
KeepsPromise == Promise!Spec

\* "Check for incomplete message" (streaming.js:120): a chunk that ends inside
\* a message is put aside, it never makes the call fail.
SplitNeverFails == outcome # "RangeError" \/ Truncated

============================================================================
