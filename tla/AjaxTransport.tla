--------------------------- MODULE AjaxTransport ---------------------------
(***************************************************************************)
(* A call of createObservableXHRTransport in rxjs_transport/index.js: the  *)
(* AjaxSubscriber of ajax_observable.js sends an XMLHttpRequest and turns  *)
(* its events into notifications, checkXHRStatus looks at the status, and  *)
(* the pipeline of ProtoStreamSubscriber follows.                          *)
(*                                                                         *)
(* A streaming call asks for the response type moz-chunked-arraybuffer,    *)
(* with which every readystatechange at 3 carries a chunk of its own.      *)
(* When a request fails, times out or is aborted, readystatechange at 4    *)
(* comes first, with status 0 and no response, and then the event error,   *)
(* timeout or abort.  Events happen one at a time; only abort(), called by *)
(* unsubscribe, raises its own inside another handler.                     *)
(***************************************************************************)
EXTENDS ProtoStreamSubscriber

VARIABLES
    status,      \* what the server answers
    readyState,  \* of the XMLHttpRequest
    done,        \* AjaxSubscriber.done
    handling,    \* inside the readystatechange handler at 4, before complete()
    pending      \* an error or timeout event comes next

xhrVars == <<response, got, splitter, delivered, outcome, status, readyState, done,
          handling, pending>>

\* "200", a status of the twirp protocol with the error as json, or what some
\* proxy says.
Status == {"200", "twirp", "foreign"}

\* The codes of the errors the observer is told of: "internal" is
\* TwirpErrorIntermediate, "twirp" is the server's own.
XHRErrors == {"transport", "internal", "twirp", "decode"} \cup Thrown

XHRTypeOK ==
    /\ PipelineTypeOK
    /\ outcome \in {"pending", "completed", "unsubscribed"} \cup XHRErrors
    /\ status \in Status
    /\ readyState \in {0, 1, 3, 4}
    /\ done \in BOOLEAN
    /\ handling \in BOOLEAN
    /\ pending \in BOOLEAN

XHRInit ==
    /\ PipelineInit
    /\ status \in Status
    /\ readyState = 0
    /\ done = FALSE
    /\ handling = FALSE
    /\ pending = FALSE

----------------------------------------------------------------------------
(***************************************************************************)
(* Pieces of handlers                                                      *)
(***************************************************************************)
\* Mutant: unsubscribe does not abort.
ReleaseLater == UNCHANGED <<readyState, done>>

\* A subscription that ends in this step unsubscribes AjaxSubscriber, which aborts
\* a request that is under way; the readystatechange of the abort marks it as done
\* and reaches nobody else.
Release ==
    IF outcome' = "pending" \/ done
      THEN UNCHANGED <<readyState, done>>
      ELSE readyState' = 4 /\ done' = TRUE

\* parseTwirpError of the bytes at hand: the error of the server, if they are the
\* whole of it.
ParseTwirpError(from, to) ==
    IF status = "twirp" /\ from = 0 /\ to = BodyLength(body) THEN "twirp" ELSE "internal"

\* checkXHRStatus for a response with the bytes from .. to - 1.
CheckXHRStatus(from, to) ==
    IF status = "200"
      THEN IF streaming THEN Split(Chunk(from, to)) ELSE Answer
      ELSE Tell(ParseTwirpError(from, to)) /\ UNCHANGED <<splitter, delivered>>

Idle == ~looping /\ ~handling /\ ~pending

UnderWay == readyState \in {1, 3} /\ Idle

----------------------------------------------------------------------------
(***************************************************************************)
(* AjaxSubscriber, driven by the events of the XMLHttpRequest              *)
(***************************************************************************)
\* The XMLHttpRequest cannot be created, opened or sent.
SendFails ==
    /\ readyState = 0
    /\ Open
    /\ outcome' = "transport"
    /\ UNCHANGED <<response, got, splitter, delivered, status, readyState, done, handling, pending>>

XHRSend ==
    /\ readyState = 0
    /\ Open
    /\ readyState' = 1
    /\ UNCHANGED <<response, got, splitter, delivered, outcome, status, done, handling, pending>>

\* readystatechange at 3.  Without chunks the handler returns at once.
Chunked ==
    /\ UnderWay
    /\ streaming
    /\ \E to \in got + 1 .. end.at :
          /\ got' = to
          /\ CheckXHRStatus(got, to)
    /\ IF outcome' = "pending" THEN readyState' = 3 /\ UNCHANGED done ELSE Release
    /\ UNCHANGED <<response, status, handling, pending>>

\* readystatechange at 4 for a response that has come to its end: next(), and
\* complete() is still to come.
Loaded ==
    /\ UnderWay
    /\ end.how = "close"
    /\ got' = end.at
    /\ readyState' = 4
    /\ done' = TRUE
    /\ CheckXHRStatus(got, end.at)
    /\ handling' = TRUE
    /\ UNCHANGED <<response, status, pending>>

\* Mutant: the last readystatechange of a request that failed passes as a response.
BreakUnnoticed ==
    /\ readyState' = 4
    /\ done' = TRUE
    /\ handling' = TRUE
    /\ pending' = TRUE
    /\ UNCHANGED <<response, got, splitter, delivered, outcome, status>>

\* readystatechange at 4 of a request that failed: a status of 0 and no response.
Break ==
    /\ Tell("internal")
    /\ readyState' = 4
    /\ done' = TRUE
    /\ handling' = TRUE
    /\ pending' = TRUE
    /\ UNCHANGED <<response, got, splitter, delivered, status>>

\* The connection is lost.
Lost ==
    /\ UnderWay
    /\ end.how = "reset"
    /\ streaming => got = end.at
    /\ Break

\* The timeout of ajaxOptions runs out.
TimesOut == UnderWay /\ Break

\* A turn of the for loop of ProtoStreamSubscriber inside next().
XHRLoop ==
    /\ Extract
    /\ Release
    /\ UNCHANGED <<response, got, status, handling, pending>>

\* complete() at the end of the handler.  What it may throw is reported by rxjs to
\* the host, not to the observer.
XHRComplete ==
    /\ handling /\ ~looping
    /\ handling' = FALSE
    /\ Finish
    /\ UNCHANGED <<response, status, readyState, done, pending>>

\* The event error or timeout: subscriber.error() becomes a TRANSPORT error, if
\* somebody still listens.
LateEvent ==
    /\ pending /\ ~handling
    /\ pending' = FALSE
    /\ Tell("transport")
    /\ UNCHANGED <<response, got, splitter, delivered, status, readyState, done, handling>>

\* Between two events the subscriber loses interest.
XHRUnsubscribe ==
    /\ UnderWay
    /\ Open
    /\ outcome' = "unsubscribed"
    /\ Release
    /\ UNCHANGED <<response, got, splitter, delivered, status, handling, pending>>

XHROver ==
    /\ readyState = 4 \/ ~Open
    /\ Idle
    /\ UNCHANGED xhrVars

Event == SendFails \/ XHRSend \/ Chunked \/ Loaded \/ Lost \/ XHRLoop \/ XHRComplete \/ LateEvent

XHRNext == Event \/ TimesOut \/ XHRUnsubscribe \/ XHROver

XHRSpec == XHRInit /\ [][XHRNext]_xhrVars

----------------------------------------------------------------------------
(***************************************************************************)
(* Properties                                                              *)
(***************************************************************************)
\* A subscription that has ended holds no connection: nothing more is read
\* (AjaxSubscriber.unsubscribe).
LetsGo == [][~Open => UNCHANGED got]_xhrVars

\* A request that fails or times out is told to the observer as an error, if it
\* still listens, although readystatechange comes before the event error or
\* timeout and complete() in between.
BreakIsTold == pending /\ ~handling => outcome \in XHRErrors \cup {"unsubscribed"}

(***************************************************************************)
(* The inductive invariant behind XHRTypeOK, BreakIsTold, LetsGo and       *)
(* KeepsPromise: a request is under way only while the subscription is     *)
(* open, and complete() finds an open subscription only behind all of the  *)
(* body.                                                                   *)
(***************************************************************************)
OpenWhileUnderWay ==
    /\ done \/ handling => readyState = 4
    /\ readyState \in {1, 3} => Open

LoadedHasAll == handling /\ Open => got = end.at /\ end.how = "close"

XHRAnswersOnce ==
    ~streaming =>
        /\ readyState # 4 => delivered = <<>>
        /\ handling /\ Open => Len(delivered) = 1

XHRInv ==
    /\ XHRTypeOK /\ PipelineInv
    /\ OpenWhileUnderWay /\ LoadedHasAll /\ XHRAnswersOnce
    /\ pending => outcome = "internal"
============================================================================
