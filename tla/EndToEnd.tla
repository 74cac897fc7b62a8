------------------------------ MODULE EndToEnd ------------------------------
(***************************************************************************)
(* A call of a twirpjs client answered by the Twirper server.  The server  *)
(* is TwirperServer; the client is what FetchStream and RxStream show both *)
(* transports to be, reading the server's wire: a message is delivered     *)
(* when it has arrived, a trailer or a broken connection fails the call,   *)
(* and the call succeeds at the clean end of a body of which everything    *)
(* was delivered.  The call is put beside the promise StreamDelivery made  *)
(* for the stream that was asked for.                                      *)
(***************************************************************************)
EXTENDS TwirperServer

VARIABLES
    delivered,   \* the IDs of the responses handed to the caller
    outcome      \* "pending", "success", "failure", or "left" by an unsubscription

serverVars == vars

callVars == <<serverVars, delivered, outcome>>

CallTypeOK ==
    /\ TypeOK
    /\ delivered \in Seq(Nat)
    /\ outcome \in {"pending", "success", "failure", "left"}

CallInit == Init /\ delivered = <<>> /\ outcome = "pending"

----------------------------------------------------------------------------
\* The next item that the client has not taken from the wire.
Arrived == Len(delivered) < Len(wire)

NextItem == wire[Len(delivered) + 1]

Deliver ==
    /\ outcome = "pending"
    /\ Arrived /\ NextItem.kind = "response"
    /\ delivered' = Append(delivered, NextItem.id)
    /\ UNCHANGED <<serverVars, outcome>>

\* A trailer, a response that cannot be decoded, or a callback that throws.  The
\* fetch transport keeps its connection, the RxJS transport aborts it.
ItemFails ==
    /\ outcome = "pending"
    /\ Arrived
    /\ outcome' = "failure"
    /\ connected' \in {connected, FALSE}
    /\ UNCHANGED <<request, cancelled, handler, held, status, wire, hooks, sender, offer,
                   repeated, delivered>>

StatusFails ==
    /\ outcome = "pending"
    /\ status = "error"
    /\ outcome' = "failure"
    /\ UNCHANGED <<serverVars, delivered>>

\* The reader rejects when the connection breaks, whatever is still unread.
ReadFails ==
    /\ outcome = "pending"
    /\ ~connected
    /\ outcome' = "failure"
    /\ UNCHANGED <<serverVars, delivered>>

\* Mutant: a broken connection is taken for the end of the body.
SucceedAtAnyEnd ==
    /\ outcome = "pending"
    /\ status = "ok" /\ (handler = "returned" \/ ~connected)
    /\ ~Arrived
    /\ outcome' = "success"
    /\ UNCHANGED <<serverVars, delivered>>

\* The server ends the body when the handler has returned.
Succeed ==
    /\ outcome = "pending"
    /\ status = "ok" /\ handler = "returned" /\ connected
    /\ ~Arrived
    /\ outcome' = "success"
    /\ UNCHANGED <<serverVars, delivered>>

\* Unsubscribing from an observable call aborts its fetch.
Leave ==
    /\ outcome = "pending"
    /\ outcome' = "left"
    /\ connected' = FALSE
    /\ UNCHANGED <<request, cancelled, handler, held, status, wire, hooks, sender, offer,
                   repeated, delivered>>

Reading == Deliver \/ ItemFails \/ StatusFails \/ ReadFails \/ Succeed

Server == Next /\ UNCHANGED <<delivered, outcome>>

CallNext == Server \/ Reading \/ Leave

CallSpec == CallInit /\ [][CallNext]_callVars

\* The server's fairness; the event loop runs the client when there is something to
\* read.
FairCallSpec ==
    /\ CallSpec
    /\ WF_callVars(Sender /\ UNCHANGED <<delivered, outcome>>)
    /\ WF_callVars(Handler /\ UNCHANGED <<delivered, outcome>>)
    /\ WF_callVars(Receive /\ UNCHANGED <<delivered, outcome>>)
    /\ WF_callVars(Cancel /\ UNCHANGED <<delivered, outcome>>)
    /\ WF_callVars(Reading)

----------------------------------------------------------------------------
(***************************************************************************)
(* Properties                                                              *)
(***************************************************************************)
\* A call of Repeat with the encoding that twirpjs uses.  (Echo has no stream, and
\* serveRepeatJSON answers with none.)
Streams == request.method = "Repeat" /\ ~request.json

\* The promise, for the stream that was asked for and not only for what arrives:
\* NumRepeats responses, or ErrAfter of them and a failure.
Promise == INSTANCE StreamDelivery WITH
    arriving <- IF Streams /\ ~Refused THEN Responses(request) ELSE 0,
    flawless <- Streams => ~Refused /\ ~FailsAt(request),
    delivered <- delivered,
    outcome <- IF outcome = "left" THEN "failure" ELSE outcome

\* What the caller of the client sees is the stream it asked the server for: its
\* responses from 1, in order, and a success only after the last of them, although
\* the server never writes the trailer that says so.
KeepsPromise == Promise!Spec

\* Every call ends, for the caller and for the server's handler, however the
\* server, the network and the caller interleave.
CallEnds == <>(outcome # "pending") /\ HandlerReturns

----------------------------------------------------------------------------
\* What the client has is the beginning of what the wire carries.
ClientIsBehind ==
    /\ Len(delivered) <= Len(wire)
    /\ \A i \in 1 .. Len(delivered) : wire[i] = Response(i) /\ delivered[i] = i

\* Responses are sent for a stream that was not refused, and for nothing else.
OnlyStreamsAreSent ==
    /\ wire # <<>> => Streams /\ ~Refused
    /\ (status = "ok" /\ Streams) => ~Refused

CallInv == IInv /\ CallTypeOK /\ ClientIsBehind /\ OnlyStreamsAreSent
=============================================================================
