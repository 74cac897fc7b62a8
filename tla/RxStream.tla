------------------------------ MODULE RxStream ------------------------------
(***************************************************************************)
(* A call of createObservableTransport in rxjs_transport/index.js:         *)
(* FetchSubscriber.send fetches the response, and reads it, chunk by chunk *)
(* or all at once, into the pipeline of ProtoStreamSubscriber.             *)
(***************************************************************************)
EXTENDS ProtoStreamSubscriber

VARIABLE phase   \* where send stands

vars == <<response, got, splitter, delivered, outcome, phase>>

\* "fetching"   awaits fetch() or the json of an error response
\* "reading"    awaits reader.read() or resp.arrayBuffer(), or is inside this.next
\* "finishing"  has read all there is, and calls this.complete() next
\* "over"       has returned
Phase == {"fetching", "reading", "finishing", "over"}

\* The errors the observer is told of.
Errors == {"transport", "status", "network", "decode"} \cup Thrown

TypeOK ==
    /\ PipelineTypeOK
    /\ phase \in Phase
    /\ outcome \in {"pending", "completed", "unsubscribed"} \cup Errors

Init == PipelineInit /\ phase = "fetching"

----------------------------------------------------------------------------
\* send ends with this.error(err).
GiveUp(how) ==
    /\ Tell(how)
    /\ phase' = "over"
    /\ UNCHANGED <<response, got, splitter, delivered>>

\* fetch rejects, also when it was aborted; or a streaming response has no
\* body.getReader.
FetchFails == phase = "fetching" /\ GiveUp("transport")

\* The status is not 200.
StatusFails == phase = "fetching" /\ GiveUp("status")

GetBody ==
    /\ phase = "fetching"
    /\ phase' = "reading"
    /\ UNCHANGED <<response, got, splitter, delivered, outcome>>

Awaiting == phase = "reading" /\ ~looping

ReadChunk ==
    /\ Awaiting /\ Open /\ streaming
    /\ \E to \in got + 1 .. end.at : got' = to /\ Split(Chunk(got, to))
    /\ UNCHANGED <<response, phase>>

\* Mutant: the loop of send does not notice that the reader is done.
ReadDoneUnnoticed ==
    /\ Awaiting /\ Open /\ streaming
    /\ got = end.at /\ end.how = "close"
    /\ Split(Empty)
    /\ UNCHANGED <<response, got, phase>>

\* The reader is done; its value, undefined, goes through the pipeline too.
ReadDone ==
    /\ Awaiting /\ Open /\ streaming
    /\ got = end.at /\ end.how = "close"
    /\ phase' = "finishing"
    /\ Split(Empty)
    /\ UNCHANGED <<response, got>>

ReadAll ==
    /\ Awaiting /\ Open /\ ~streaming
    /\ end.how = "close"
    /\ got' = end.at
    /\ phase' = "finishing"
    /\ Answer
    /\ UNCHANGED response

ReadFails ==
    /\ Awaiting /\ Open
    /\ streaming => got = end.at
    /\ end.how = "reset"
    /\ GiveUp("network")

\* The request was aborted: read() and arrayBuffer() reject, and complete()
\* tells nobody.
ReadAborted ==
    /\ Awaiting /\ ~Open
    /\ GiveUp("completed")

\* A turn of the for loop inside this.next.
Loop ==
    /\ Extract
    /\ UNCHANGED <<response, got, phase>>

\* this.complete().  If it throws, the catch of send calls this.error, which a
\* stopped Subscriber ignores.
Complete ==
    /\ phase = "finishing" /\ ~looping
    /\ Finish
    /\ phase' = "over"
    /\ UNCHANGED response

\* The subscriber loses interest while send awaits something; the request is
\* aborted.
Unsubscribe ==
    /\ phase = "fetching" \/ Awaiting
    /\ Open
    /\ outcome' = "unsubscribed"
    /\ UNCHANGED <<response, got, splitter, delivered, phase>>

Over == phase = "over" /\ UNCHANGED vars

Send == FetchFails \/ StatusFails \/ GetBody \/ ReadChunk \/ ReadDone \/ ReadAll
           \/ ReadFails \/ ReadAborted \/ Loop \/ Complete

Next == Send \/ Unsubscribe \/ Over

Spec == Init /\ [][Next]_vars

----------------------------------------------------------------------------
\* send returns and lets go of the connection, however the subscription ends, and
\* the subscription ends unless a frame is cut by the end of the body; of an
\* XMLHttpRequest, which has no send to return, the second is left.
SendReturns == <>(phase = "over") /\ EndsUnlessTruncated

(***************************************************************************)
(* The inductive invariant behind TypeOK and KeepsPromise: send finishes   *)
(* only with all of the body, and a unary call answers exactly once.       *)
(***************************************************************************)
FinishingHasAll == phase = "finishing" => got = end.at /\ end.how = "close"

AnswersOnce ==
    ~streaming =>
        /\ phase \in {"fetching", "reading"} => delivered = <<>>
        /\ phase = "finishing" /\ Open => Len(delivered) = 1

IInv == TypeOK /\ PipelineInv /\ FinishingHasAll /\ AnswersOnce
============================================================================
