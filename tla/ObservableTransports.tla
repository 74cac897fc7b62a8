------------------------ MODULE ObservableTransports ------------------------
(***************************************************************************)
(* A call of either transport of rxjs_transport/index.js: the generator    *)
(* that made the client decides whether FetchSubscriber or AjaxSubscriber  *)
(* is in front of the pipeline of ProtoStreamSubscriber.  What both        *)
(* promise is stated of both at once.                                      *)
(***************************************************************************)
EXTENDS RxStream, AjaxTransport

VARIABLE transport   \* "fetch" or "xhr"

ajaxVars == <<status, readyState, done, handling, pending>>

callVars == <<vars, ajaxVars, transport>>

\* The variables of the other transport stand still.
CreateObservableTransport ==
    /\ transport = "fetch"
    /\ Init
    /\ status = "200" /\ readyState = 0
    /\ done = FALSE /\ handling = FALSE /\ pending = FALSE

CreateObservableXHRTransport ==
    /\ transport = "xhr"
    /\ XHRInit
    /\ phase = "over"

CallInit == CreateObservableTransport \/ CreateObservableXHRTransport

\* The event loop runs what is ready.
Run ==
    \/ transport = "fetch" /\ Send /\ UNCHANGED <<ajaxVars, transport>>
    \/ transport = "xhr" /\ Event /\ UNCHANGED <<phase, transport>>

\* What need not happen.
Chance ==
    \/ transport = "fetch" /\ Unsubscribe /\ UNCHANGED <<ajaxVars, transport>>
    \/ transport = "xhr" /\ (TimesOut \/ XHRUnsubscribe) /\ UNCHANGED <<phase, transport>>

Ended ==
    \/ transport = "fetch" /\ Over /\ UNCHANGED <<ajaxVars, transport>>
    \/ transport = "xhr" /\ XHROver /\ UNCHANGED <<phase, transport>>

CallNext == Run \/ Chance \/ Ended

CallSpec == CallInit /\ [][CallNext]_callVars

\* A browser raises the events of a request, and a connection delivers or ends; a
\* timeout need not be set, and nobody has to unsubscribe.
FairCallSpec == CallSpec /\ WF_callVars(Run)

-----------------------------------------------------------------------------
\* The variables of whichever transport it is keep their types; which errors the
\* observer may be told of depends on it.
CallTypeOK == IF transport = "fetch" THEN TypeOK ELSE XHRTypeOK
=============================================================================
