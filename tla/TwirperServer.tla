--------------------------- MODULE TwirperServer ---------------------------
(***************************************************************************)
(* One request on the Go server: ServeHTTP of twirper.twirp.go and what it *)
(* calls (the handler).  Echo is answered at once; for Repeat the service  *)
(* starts the goroutine sendRepeatResps of repeat_resp_stream.go (the      *)
(* sender), which hands responses to the handler over an unbuffered        *)
(* channel.  The request's context is cancelled by net/http when the       *)
(* client has gone away, or once the handler has returned.                 *)
(***************************************************************************)
EXTENDS Integers, Sequences

CONSTANT Requests   \* the requests under consideration

\* json: the Content-Type is application/json; silent: the message is empty.  An
\* EchoReq has no numbers; they are ignored.
Request == [method : {"Echo", "Repeat"}, json : BOOLEAN, silent : BOOLEAN,
            NumRepeats : Int, ErrAfter : Int]

ASSUME RequestsAssumption == Requests \subseteq Request

VARIABLES
    request,
    connected,   \* the client still listens
    cancelled,   \* ctx.Done() is closed
    handler,     \* "admitting", "selecting", "writing", "failing" or "returned"
    held,        \* what the handler took from the channel last
    status,      \* the HTTP status: "none", "ok" or "error"
    wire,        \* what the client was sent of the stream
    hooks,       \* the server hooks called
    sender,      \* "absent", "deciding", "delaying", "offering" or "returned"
    offer,       \* what the sender is blocked on sending
    repeated     \* how many responses the sender has begun

vars == <<request, connected, cancelled, handler, held, status, wire, hooks,
          sender, offer, repeated>>

\* What passes through the channel, and what goes over the wire: a response
\* with its ID, or an error with its code (the trailer).
Response(id) == [kind |-> "response", id |-> id, code |-> "none"]
Error(code) == [kind |-> "error", id |-> 0, code |-> code]

Item == [kind : {"response", "error", "EOF"}, id : Nat,
         code : {"none", "unknown", "aborted", "internal"}]

HookOrder == <<"RequestReceived", "RequestRouted", "ResponsePrepared", "Error", "ResponseSent">>

Hook == {"RequestReceived", "RequestRouted", "ResponsePrepared", "Error", "ResponseSent"}

Rank(hook) == CHOOSE i \in 1 .. 5 : HookOrder[i] = hook

TypeOK ==
    /\ request \in Request
    /\ connected \in BOOLEAN
    /\ cancelled \in BOOLEAN
    /\ handler \in {"admitting", "selecting", "writing", "failing", "returned"}
    /\ held \in Item
    /\ status \in {"none", "ok", "error"}
    /\ wire \in Seq(Item)
    /\ hooks \in Seq(Hook)
    /\ sender \in {"absent", "deciding", "delaying", "offering", "returned"}
    /\ offer \in Item
    /\ repeated \in Nat

Init ==
    /\ request \in Requests
    /\ connected = TRUE
    /\ cancelled = FALSE
    /\ handler = "admitting"
    /\ held = Error("none")
    /\ status = "none"
    /\ wire = <<>>
    /\ hooks = <<>>
    /\ sender = "absent"
    /\ offer = Error("none")
    /\ repeated = 0

----------------------------------------------------------------------------
\* A request that theTwirper.Repeat refuses.
Refused == request.silent \/ request.NumRepeats <= 0

\* writeError after the hooks called so far.  A failed write is ignored.
WriteError(before) ==
    /\ hooks' = before \o <<"Error", "ResponseSent">>
    /\ status' = "error"
    /\ handler' = "returned"
    /\ UNCHANGED <<request, connected, cancelled, held, wire, sender, offer, repeated>>

\* The hook RequestReceived returns an error, or the HTTP method, the path or
\* the content type is wrong.
Reject == handler = "admitting" /\ WriteError(<<"RequestReceived">>)

\* The hook RequestRouted returns an error, the body cannot be read or parsed, or
\* the service returns an error or panics.
Refuse ==
    /\ handler = "admitting"
    /\ request.method = "Echo" \/ ~request.json
    /\ WriteError(<<"RequestReceived", "RequestRouted">>)

Prepared == <<"RequestReceived", "RequestRouted", "ResponsePrepared">>

\* serveEchoJSON and serveEchoProtobuf differ in the encoding only.  The response
\* cannot be marshalled:
EchoFails ==
    /\ handler = "admitting"
    /\ request.method = "Echo" /\ ~request.silent
    /\ WriteError(Prepared)

\* Mutant: a failed write takes the path of an error.
AnswerEchoTwice ==
    /\ handler = "admitting"
    /\ request.method = "Echo" /\ ~request.silent
    /\ hooks' = Prepared \o <<"Error", "ResponseSent", "Error", "ResponseSent">>
    /\ status' = "ok"
    /\ handler' = "returned"
    /\ UNCHANGED <<request, connected, cancelled, held, wire, sender, offer, repeated>>

\* The response is written, or the write fails.
AnswerEcho ==
    /\ handler = "admitting"
    /\ request.method = "Echo" /\ ~request.silent
    /\ hooks' \in {Prepared \o <<"ResponseSent">>, Prepared \o <<"Error", "ResponseSent">>}
    /\ status' = "ok"
    /\ handler' = "returned"
    /\ UNCHANGED <<request, connected, cancelled, held, wire, sender, offer, repeated>>

\* serveRepeatJSON has no body: net/http answers 200 with nothing in it.
ServeJSON ==
    /\ handler = "admitting"
    /\ request.method = "Repeat" /\ request.json
    /\ hooks' = <<"RequestReceived">>
    /\ status' = "ok"
    /\ handler' = "returned"
    /\ UNCHANGED <<request, connected, cancelled, held, wire, sender, offer, repeated>>

\* The service starts the sender; the handler writes the header of the response.
Admit ==
    /\ handler = "admitting"
    /\ request.method = "Repeat" /\ ~request.json
    /\ ~Refused
    /\ hooks' = Prepared
    /\ status' = "ok"
    /\ handler' = "selecting"
    /\ sender' = "deciding"
    /\ UNCHANGED <<request, connected, cancelled, held, wire, offer, repeated>>

----------------------------------------------------------------------------
(***************************************************************************)
(* The sender, sendRepeatResps                                             *)
(***************************************************************************)
Offer(item) ==
    /\ offer' = item
    /\ sender' = "offering"
    /\ UNCHANGED <<request, connected, cancelled, handler, held, status, wire, hooks, repeated>>

OfferError ==
    /\ sender = "deciding"
    /\ request.ErrAfter # 0 /\ repeated = request.ErrAfter
    /\ Offer(Error("unknown"))

\* Mutant: the stream is closed one response early.
CloseStreamEarly ==
    /\ sender = "deciding"
    /\ repeated = request.NumRepeats - 1
    /\ sender' = "returned"
    /\ UNCHANGED <<request, connected, cancelled, handler, held, status, wire, hooks, offer, repeated>>

\* The deferred close(respStream) comes with the return.
CloseStream ==
    /\ sender = "deciding"
    /\ ~(request.ErrAfter # 0 /\ repeated = request.ErrAfter)
    /\ repeated = request.NumRepeats
    /\ sender' = "returned"
    /\ UNCHANGED <<request, connected, cancelled, handler, held, status, wire, hooks, offer, repeated>>

BeginDelay ==
    /\ sender = "deciding"
    /\ ~(request.ErrAfter # 0 /\ repeated = request.ErrAfter)
    /\ repeated # request.NumRepeats
    /\ repeated' = repeated + 1
    /\ sender' = "delaying"
    /\ UNCHANGED <<request, connected, cancelled, handler, held, status, wire, hooks, offer>>

\* The select: the timer fires, or the context is done.  Neither case returns.
OfferResponse ==
    /\ sender = "delaying"
    /\ Offer(Response(repeated))

OfferAborted ==
    /\ sender = "delaying"
    /\ cancelled
    /\ Offer(Error("aborted"))

Sender == OfferError \/ CloseStream \/ BeginDelay \/ OfferResponse \/ OfferAborted

----------------------------------------------------------------------------
(***************************************************************************)
(* The handler's loop in serveRepeatProtobuf                               *)
(***************************************************************************)
\* The channel is unbuffered: both sides go on together.  Only the error the
\* client asked for is followed by a return of the sender.
Receive ==
    /\ handler = "selecting"
    /\ sender = "offering"
    /\ held' = offer
    /\ handler' = IF offer.kind = "error" THEN "failing" ELSE "writing"
    /\ sender' = IF offer.code = "unknown" THEN "returned" ELSE "deciding"
    /\ UNCHANGED <<request, connected, cancelled, status, wire, hooks, offer, repeated>>

SeeDone ==
    /\ handler = "selecting"
    /\ cancelled
    /\ handler' = "returned"
    /\ UNCHANGED <<request, connected, cancelled, held, status, wire, hooks, sender, offer, repeated>>

\* Mutant: a closed channel is not noticed.
WriteEOFNever == FALSE

\* The channel is closed: writeTrailer(io.EOF) encodes the trailer and returns
\* before it is written.
WriteEOF ==
    /\ handler = "selecting"
    /\ sender = "returned"
    /\ handler' = "returned"
    /\ UNCHANGED <<request, connected, cancelled, held, status, wire, hooks, sender, offer, repeated>>

\* A write to a client that has gone away may fail; it reaches nobody if it
\* does not.
WriteMessage ==
    /\ handler = "writing"
    /\ \/ /\ wire' = IF connected THEN Append(wire, held) ELSE wire
          /\ handler' = "selecting"
          /\ UNCHANGED held
       \/ /\ ~connected                       \* resp.Write fails
          /\ held' = Error("internal")
          /\ handler' = "failing"
          /\ UNCHANGED wire
    /\ UNCHANGED <<request, connected, cancelled, status, hooks, sender, offer, repeated>>

\* EncodeMessage fails: nothing of this message is written.
EncodeFails ==
    /\ handler = "writing"
    /\ held' = Error("internal")
    /\ handler' = "failing"
    /\ UNCHANGED <<request, connected, cancelled, status, wire, hooks, sender, offer, repeated>>

\* writeTrailer of an error: the Error hook, then the trailer.
WriteTrailer ==
    /\ handler = "failing"
    /\ hooks' = Append(hooks, "Error")
    /\ wire' = IF connected THEN Append(wire, held) ELSE wire
    /\ handler' = "returned"
    /\ UNCHANGED <<request, connected, cancelled, held, status, sender, offer, repeated>>

Handler == Reject \/ Refuse \/ EchoFails \/ AnswerEcho \/ ServeJSON \/ Admit
              \/ SeeDone \/ WriteEOF \/ WriteMessage \/ EncodeFails \/ WriteTrailer

----------------------------------------------------------------------------
(***************************************************************************)
(* net/http                                                                *)
(***************************************************************************)
Disconnect ==
    /\ connected
    /\ connected' = FALSE
    /\ UNCHANGED <<request, cancelled, handler, held, status, wire, hooks, sender, offer, repeated>>

Cancel ==
    /\ ~cancelled
    /\ ~connected \/ handler = "returned"
    /\ cancelled' = TRUE
    /\ UNCHANGED <<request, connected, handler, held, status, wire, hooks, sender, offer, repeated>>

\* Neither goroutine can go on: the sender has returned or is blocked forever.
Finished ==
    /\ handler = "returned" /\ cancelled
    /\ sender \in {"absent", "offering", "returned"}
    /\ UNCHANGED vars

Next == Sender \/ Handler \/ Receive \/ Disconnect \/ Cancel \/ Finished

Spec == Init /\ [][Next]_vars

\* The Go scheduler runs goroutines that can run, the timer fires, and
\* net/http cancels the context.
FairSpec ==
    /\ Spec
    /\ WF_vars(Sender) /\ WF_vars(Handler) /\ WF_vars(Receive) /\ WF_vars(Cancel)

----------------------------------------------------------------------------
(***************************************************************************)
(* Properties                                                              *)
(***************************************************************************)
\* The stream a request asks for.
FailsAt(r) == r.ErrAfter > 0 /\ r.ErrAfter <= r.NumRepeats

Responses(r) == IF FailsAt(r) THEN r.ErrAfter ELSE r.NumRepeats

Stream(r) ==
    LET responses == [i \in 1 .. Responses(r) |-> Response(i)]
    IN  IF FailsAt(r) THEN Append(responses, Error("unknown")) ELSE responses

\* The response was begun by Admit, not refused and not left empty.
Streaming == status = "ok" /\ request.method = "Repeat" /\ ~request.json

\* The wire carries the stream of the request from its beginning; only an
\* internal error may stand where the stream would go on (serveRepeatProtobuf
\* 541-583 with sendRepeatResps 34-77).
WireIsThePrefix ==
    \A i \in 1 .. Len(wire) :
        \/ i <= Len(Stream(request)) /\ wire[i] = Stream(request)[i]
        \/ i = Len(wire) /\ wire[i] = Error("internal")

\* A client that stays gets its whole stream, or is told of an internal error:
\* the handler does not return early.
WholeStream ==
    (connected /\ handler = "returned" /\ Streaming)
       => \/ wire = Stream(request)
          \/ Len(wire) > 0 /\ wire[Len(wire)] = Error("internal")

\* The aborted error of a cancelled context is never read by a client ("this
\* error goes nowhere because the connection is closed",
\* repeat_resp_stream.go:62).
AbortGoesNowhere ==
    \A i \in 1 .. Len(wire) : wire[i].code # "aborted"

\* The hooks come in the order of a request, each at most once, whichever of the
\* handler's many ways out is taken ("it would mean the Error hook got called
\* twice for one request", twirper.twirp.go:667), and an error that a client can
\* read was reported to the Error hook.
HooksInOrder ==
    /\ \A i, j \in DOMAIN hooks : i < j => Rank(hooks[i]) < Rank(hooks[j])
    /\ (status = "error" \/ \E i \in 1 .. Len(wire) : wire[i].kind = "error")
          => \E i \in DOMAIN hooks : hooks[i] = "Error"

\* The handler returns in the end, whether the client stays or goes.
HandlerReturns == <>(handler = "returned")

----------------------------------------------------------------------------
(***************************************************************************)
(* The inductive invariant behind WireIsThePrefix, WholeStream and         *)
(* AbortGoesNowhere: while the client listens, the wire, the response in   *)
(* the handler's hands and the one in the sender's are consecutive.        *)
(***************************************************************************)
\* How many responses have passed through the channel, if none was lost.
Taken == Len(wire) + (IF handler = "writing" THEN 1 ELSE 0)

BeforeStream ==
    handler = "admitting" =>
        sender = "absent" /\ wire = <<>> /\ repeated = 0 /\ status = "none"

\* While the handler runs, the wire holds the first responses and no error.
OnlyResponses ==
    handler # "returned" =>
        /\ \A i \in 1 .. Len(wire) : wire[i] = Response(i)
        /\ Len(wire) <= Responses(request) \/ Refused

Running == handler \in {"selecting", "writing", "failing"}

SenderIsNext ==
    (connected /\ handler \in {"selecting", "writing"}) =>
        /\ sender = "deciding" => repeated = Taken
        /\ sender = "delaying" => repeated = Taken + 1
        /\ sender = "offering" =>
              \/ offer = Response(Taken + 1) /\ repeated = Taken + 1
              \/ /\ offer = Error("unknown") /\ FailsAt(request)
                 /\ Taken = request.ErrAfter
        /\ sender = "returned" => Taken = request.NumRepeats /\ ~FailsAt(request)
        /\ sender # "absent"

HeldIsNext ==
    connected =>
        /\ handler = "writing" => held = Response(Len(wire) + 1)
        /\ handler = "failing" =>
              \/ held = Error("internal")
              \/ /\ held = Error("unknown") /\ FailsAt(request)
                 /\ Len(wire) = request.ErrAfter

Limits ==
    /\ Running => Streaming /\ ~Refused
    /\ sender # "absent" => ~Refused
    /\ repeated <= Responses(request) \/ Refused
    /\ (connected /\ handler = "writing") => Taken <= Responses(request)
    /\ (connected /\ handler # "returned") => ~cancelled

IInv ==
    /\ TypeOK
    /\ BeforeStream
    /\ Limits
    /\ OnlyResponses
    /\ SenderIsNext
    /\ HeldIsNext
    /\ WireIsThePrefix
    /\ WholeStream
    /\ AbortGoesNowhere

\* The hooks of the requests that end with an error reported, and of the others.
Reported ==
    {<<"RequestReceived", "Error", "ResponseSent">>,
     <<"RequestReceived", "RequestRouted", "Error", "ResponseSent">>,
     <<"RequestReceived", "RequestRouted", "ResponsePrepared", "Error", "ResponseSent">>,
     <<"RequestReceived", "RequestRouted", "ResponsePrepared", "Error">>}

Unreported ==
    {<<"RequestReceived">>,
     <<"RequestReceived", "RequestRouted", "ResponsePrepared">>,
     <<"RequestReceived", "RequestRouted", "ResponsePrepared", "ResponseSent">>}

\* The inductive invariant behind HooksInOrder, beside IInv: which hooks the
\* handler has called, and that none but a reported way out sends an error.
HooksSoFar ==
    /\ handler = "admitting" => hooks = <<>>
    /\ Running => hooks = Prepared
    /\ handler = "returned" =>
          \/ hooks \in Reported
          \/ /\ hooks \in Unreported
             /\ status # "error"
             /\ \A i \in 1 .. Len(wire) : wire[i].kind # "error"
============================================================================
