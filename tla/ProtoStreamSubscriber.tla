----------------------- MODULE ProtoStreamSubscriber -----------------------
(***************************************************************************)
(* What the two observable transports of rxjs_transport/index.js share:    *)
(* the pipeline behind the source.  In a streaming call                    *)
(* ProtoStreamSubscriber takes the messages out of the chunks with         *)
(* extractMessages, a map decodes them, and the observer is told; in a     *)
(* unary call the map decodes the whole body.                              *)
(*                                                                         *)
(* The operators between source and observer are rxjs Subscribers: each    *)
(* drops what comes after its end, and ending or unsubscribing at one of   *)
(* them unsubscribes all of them, up to the source.  So one variable,      *)
(* outcome, says for the whole chain whether it is open and how it ended.  *)
(***************************************************************************)
EXTENDS TwirpStream

VARIABLES
    streaming,  \* the method is one of streamingRespMethods
    body,       \* the response body, as the server sends it
    end,        \* where the body ends for this client, and how
    got,        \* how many bytes of it the source has been given
    leftover,   \* ProtoStreamSubscriber.leftover
    looping,    \* _next is in its for loop
    view,       \* the array extractMessages works on
    pos,        \* rr.pos, where its next turn begins
    delivered,  \* the frames that came to the observer, decoded
    outcome     \* how the subscription stands

response == <<streaming, body, end>>

splitter == <<leftover, looping, view, pos>>

Truncated == streaming /\ CutInside(body, end)

Open == outcome = "pending"

PipelineTypeOK ==
    /\ streaming \in BOOLEAN
    /\ IsBody(body)
    /\ end \in Ends(body)
    /\ got \in 0 .. end.at
    /\ leftover \in View
    /\ looping \in BOOLEAN
    /\ view \in View
    /\ pos \in Nat
    /\ delivered \in Seq(0 .. IF streaming THEN body.n ELSE 1)

PipelineInit ==
    /\ streaming \in BOOLEAN
    /\ body \in Bodies
    /\ end \in Ends(body)
    /\ got = 0
    /\ leftover = Empty
    /\ looping = FALSE
    /\ view = Empty
    /\ pos = 0
    /\ delivered = <<>>
    /\ outcome = "pending"

----------------------------------------------------------------------------
\* The observer is told, unless its subscription has ended before.
Tell(how) == outcome' = IF Open THEN how ELSE outcome

\* _next joins the bytes to the leftover ones, which are cleared, and begins its
\* loop; without any bytes the loop is empty.  The map before it has made an
\* array of its own of them (undefined and null become an empty one).
Split(bytes) ==
    /\ view' = concatByteArrays(leftover, bytes)
    /\ pos' = ReaderStart(view')
    /\ leftover' = Empty
    /\ looping' = (view'.len # 0)
    /\ UNCHANGED <<delivered, outcome>>

LeaveLoop(rest) ==
    /\ leftover' = rest
    /\ looping' = FALSE
    /\ UNCHANGED <<view, pos, delivered>>

\* A message on its way to the observer: it cannot be decoded, or it comes to
\* the observer, who may unsubscribe at once.
Decode(frame) ==
    \/ outcome' = "decode" /\ UNCHANGED delivered
    \/ delivered' = Append(delivered, frame) /\ outcome' \in {"pending", "unsubscribed"}

\* Mutant: a message that cannot be decoded is skipped.
EmitOrSkip(frame, next) ==
    /\ delivered' \in {delivered, Append(delivered, frame)}
    /\ pos' = next
    /\ looping' = (next < view.len)
    /\ UNCHANGED <<leftover, view, outcome>>

Emit(frame, next) ==
    /\ Decode(frame)
    /\ pos' = next
    /\ looping' = (next < view.len)
    /\ UNCHANGED <<leftover, view>>

\* Mutant: the loop does not look at this.destination.closed.
TurnRegardless(turn) ==
    \/ turn.result = "yield" /\ Emit(turn.frame, turn.next)
    \/ turn.result = "incomplete" /\ LeaveLoop(turn.rest) /\ UNCHANGED outcome
    \/ turn.result = "return" /\ LeaveLoop(Empty) /\ UNCHANGED outcome
    \/ turn.result \in Thrown /\ LeaveLoop(Empty) /\ Tell(turn.result)

\* What the loop does with a turn of extractMessages; this.destination.closed is
\* looked at after a message was taken out.
Turn(turn) ==
    \/ ~Open /\ LeaveLoop(Empty) /\ UNCHANGED outcome
    \/ Open /\ turn.result = "yield" /\ Emit(turn.frame, turn.next)
    \/ Open /\ turn.result = "incomplete" /\ LeaveLoop(turn.rest) /\ UNCHANGED outcome
    \/ Open /\ turn.result = "return" /\ LeaveLoop(Empty) /\ UNCHANGED outcome
    \/ Open /\ turn.result \in Thrown /\ LeaveLoop(Empty) /\ Tell(turn.result)

Extract ==
    /\ looping
    /\ \E turn \in Turns(body, view, pos) : Turn(turn)

\* The whole body of a unary call goes to the map.
Answer == Decode(1) /\ UNCHANGED splitter

\* complete() of the source marks every Subscriber on its way as stopped.  With
\* bytes left over _complete means to report an error, and fails on the undefined
\* name method before it does; nobody is told.
Finish ==
    /\ IF leftover.len # 0 THEN UNCHANGED outcome ELSE Tell("completed")
    /\ UNCHANGED <<got, splitter, delivered>>

----------------------------------------------------------------------------
\* What the observer sees of the outcome.  Nothing is promised of a body that is
\* cut inside a frame: such a call maps to one where nothing ever happens.
Verdict ==
    IF Truncated \/ outcome \in {"pending", "unsubscribed"} THEN "pending"
    ELSE IF outcome = "completed" THEN "success" ELSE "failure"

Handed == IF Truncated THEN <<>> ELSE delivered

\* A unary call has one message to deliver.
Arriving == IF streaming THEN Cardinality(ArriveWhole(body, end)) ELSE 1

Promise == INSTANCE StreamDelivery
             WITH arriving <- Arriving,
                  flawless <- IF streaming THEN Flawless(body, end) ELSE end.how = "close",
                  delivered <- Handed,
                  outcome <- Verdict

(***************************************************************************)
(* Properties                                                              *)
(***************************************************************************)
\* The contract of an Observable: after complete, error or unsubscribe nothing
\* comes, although messages of the same chunk may still be in the for loop
\* (rxjs_transport/index.js:43-46) and the error event of an XMLHttpRequest
\* comes after its last readystatechange.
NothingAfterTheEnd == [][~Open => UNCHANGED <<delivered, outcome>>]_<<delivered, outcome>>

\* Every subscription ends if no frame is cut by the end of the body.
EndsUnlessTruncated == ~Truncated ~> ~Open

\* Unless the body is cut inside a frame, the call keeps what StreamDelivery
\* promises: the pipeline implements it.
KeepsPromise == Promise!Spec

----------------------------------------------------------------------------
(***************************************************************************)
(* What the source's actions keep true of the pipeline, part of the        *)
(* inductive invariants of RxStream and AjaxTransport: as long as the      *)
(* subscription is open, the bytes not yet turned into messages begin      *)
(* where frame Len(delivered) + 1 begins and end where the next chunk will *)
(* begin.                                                                  *)
(***************************************************************************)
\* Every byte that came belongs to a delivered message, or to the trailer EOF.
Drained ==
    \/ got = body.start[Len(delivered) + 1]
    \/ got = BodyLength(body) /\ Len(delivered) + 1 = body.n
       /\ body.kind[body.n] = "EOF"

BetweenChunks ==
    /\ leftover.len = 0 => Drained
    /\ leftover.len # 0 =>
          /\ Len(delivered) < body.n
          /\ First(leftover) = body.start[Len(delivered) + 1]
          /\ First(leftover) + leftover.len = got
          /\ got < body.start[Len(delivered) + 2]

InTheLoop ==
    /\ Len(delivered) < body.n
    /\ leftover = Empty
    /\ view.off = 0
    /\ pos < view.len
    /\ view.base + pos = body.start[Len(delivered) + 1]
    /\ view.base + view.len = got

Progress ==
    /\ Len(delivered) <= Messages(body)
    /\ delivered = [i \in 1 .. Len(delivered) |-> i]
    /\ Open => IF looping THEN InTheLoop ELSE BetweenChunks

\* A truncated body is out of the code's control: nothing is claimed of it.  A
\* unary call makes no use of the splitter.
PipelineInv ==
    /\ PipelineTypeOK
    /\ streaming => Truncated \/ Progress
    /\ ~streaming => ~looping /\ leftover = Empty
============================================================================
