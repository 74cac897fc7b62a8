------------------------- MODULE TwirperServerProofs -------------------------
(***************************************************************************)
(* Proofs about TwirperServer, and about EndToEnd: a client's call and its *)
(* server together keep the promise StreamDelivery.  Both are for every    *)
(* set of requests.                                                        *)
(***************************************************************************)
EXTENDS EndToEnd, SequenceTheorems, TLAPS

\* The codes an error may carry.
Code == {"none", "unknown", "aborted", "internal"}

LEMMA ItemFacts ==
    /\ \A n \in Nat : Response(n) \in Item
    /\ \A code \in Code : Error(code) \in Item
  BY DEF Response, Error, Item, Code

LEMMA TypeInit == Init => TypeOK
<1> SUFFICES ASSUME Init
             PROVE  TypeOK
  OBVIOUS
<1>1. request \in Request
  BY RequestsAssumption DEF Init
<1>2. Error("none") \in Item
  BY ItemFacts DEF Code
<1>3. wire \in Seq(Item)
  BY DEF Init
<1>4. hooks \in Seq(Hook)
  BY DEF Init
<1>5. /\ connected \in BOOLEAN /\ cancelled \in BOOLEAN /\ repeated \in Nat
      /\ handler = "admitting" /\ status = "none" /\ sender = "absent"
      /\ held \in Item /\ offer \in Item
  BY <1>2 DEF Init
<1> QED
  BY <1>1, <1>3, <1>4, <1>5 DEF TypeOK

\* A step keeps the types.
LEMMA TypeStep == TypeOK /\ [Next]_vars => TypeOK'
<1> SUFFICES ASSUME TypeOK, [Next]_vars
             PROVE  TypeOK'
  OBVIOUS
<1> USE ItemFacts
<1>1. ASSUME NEW before \in Seq(Hook), WriteError(before)
      PROVE  TypeOK'
  <2>1. before \o <<"Error", "ResponseSent">> \in Seq(Hook)
    BY DEF Hook
  <2> QED
    BY <1>1, <2>1 DEF WriteError, TypeOK
<1>2. CASE Reject \/ Refuse \/ EchoFails
  <2>1. /\ <<"RequestReceived">> \in Seq(Hook) /\ <<"RequestReceived", "RequestRouted">> \in Seq(Hook)
        /\ Prepared \in Seq(Hook)
    BY DEF Hook, Prepared
  <2> QED
    BY <1>1, <1>2, <2>1 DEF Reject, Refuse, EchoFails
<1>3. CASE AnswerEcho \/ ServeJSON \/ Admit
  <2>1. <<"RequestReceived">> \in Seq(Hook) /\ Prepared \in Seq(Hook)
    BY DEF Hook, Prepared
  <2>2. Prepared \o <<"ResponseSent">> \in Seq(Hook) /\ Prepared \o <<"Error", "ResponseSent">> \in Seq(Hook)
    <3>1. <<"ResponseSent">> \in Seq(Hook) /\ <<"Error", "ResponseSent">> \in Seq(Hook)
      BY DEF Hook
    <3> QED
      BY <2>1, <3>1
  <2> QED
    BY <1>3, <2>1, <2>2 DEF AnswerEcho, ServeJSON, Admit, TypeOK
<1>4. CASE Sender
  <2>1. ASSUME NEW item \in Item, Offer(item)
        PROVE  TypeOK'
    BY <2>1 DEF Offer, TypeOK
  <2>2. CASE OfferError \/ OfferResponse \/ OfferAborted
    BY <2>1, <2>2 DEF OfferError, OfferResponse, OfferAborted, TypeOK, Code
  <2>3. CASE CloseStream \/ BeginDelay
    BY <2>3 DEF CloseStream, BeginDelay, TypeOK
  <2> QED
    BY <1>4, <2>2, <2>3 DEF Sender
<1>5. CASE Receive \/ SeeDone \/ WriteEOF \/ Disconnect \/ Cancel
  BY <1>5 DEF Receive, SeeDone, WriteEOF, Disconnect, Cancel, TypeOK
<1>6. CASE WriteMessage \/ EncodeFails
  <2>1. Append(wire, held) \in Seq(Item)
    BY DEF TypeOK
  <2> QED
    BY <1>6, <2>1 DEF WriteMessage, EncodeFails, TypeOK, Code
<1>7. CASE WriteTrailer
  <2>1. Append(wire, held) \in Seq(Item) /\ Append(hooks, "Error") \in Seq(Hook)
    BY DEF TypeOK, Hook
  <2> QED
    BY <1>7, <2>1 DEF WriteTrailer, TypeOK
<1>8. CASE Finished \/ UNCHANGED vars
  BY <1>8 DEF Finished, vars, TypeOK
<1> QED
  BY <1>2, <1>3, <1>4, <1>5, <1>6, <1>7, <1>8 DEF Next, Handler

\* TypeOK holds of every state of the handler and the sender.
THEOREM TypeCorrect == Spec => []TypeOK
  BY TypeInit, TypeStep, PTL DEF Spec

----------------------------------------------------------------------------
\* The stream of a request that is not refused, element by element.
LEMMA StreamFacts ==
    ASSUME NEW r \in Request, r.NumRepeats > 0
    PROVE  /\ Responses(r) \in Nat
           /\ FailsAt(r) => /\ Responses(r) = r.ErrAfter
                            /\ Len(Stream(r)) = r.ErrAfter + 1
                            /\ Stream(r)[r.ErrAfter + 1] = Error("unknown")
           /\ ~FailsAt(r) => /\ Responses(r) = r.NumRepeats
                             /\ Len(Stream(r)) = r.NumRepeats
           /\ \A i \in 1 .. Responses(r) : Stream(r)[i] = Response(i)
           /\ DOMAIN Stream(r) = 1 .. Len(Stream(r))
           /\ Stream(r) \in Seq(Item)
<1>1. /\ r.NumRepeats \in Int /\ r.ErrAfter \in Int
      /\ Responses(r) \in Nat
      /\ FailsAt(r) => Responses(r) = r.ErrAfter
      /\ ~FailsAt(r) => Responses(r) = r.NumRepeats
  BY DEF Request, Responses, FailsAt
<1> DEFINE responses == [i \in 1 .. Responses(r) |-> Response(i)]
<1>2. /\ responses \in Seq(Item)
      /\ Len(responses) = Responses(r)
      /\ \A i \in 1 .. Responses(r) : responses[i] = Response(i)
  BY <1>1, ItemFacts
<1>3. Error("unknown") \in Item
  BY ItemFacts DEF Code
<1>4. Stream(r) = IF FailsAt(r) THEN Append(responses, Error("unknown")) ELSE responses
  BY DEF Stream
<1> HIDE DEF responses
<1>5. CASE FailsAt(r)
  BY <1>1, <1>2, <1>3, <1>4, <1>5
<1>6. CASE ~FailsAt(r)
  BY <1>1, <1>2, <1>4, <1>6
<1> QED
  BY <1>1, <1>5, <1>6

LEMMA IInvInit == Init => IInv
<1> SUFFICES ASSUME Init
             PROVE  IInv
  OBVIOUS
<1>1. TypeOK
  BY TypeInit
<1>2. Len(wire) = 0 /\ repeated = 0
  BY DEF Init
<1>3. repeated <= Responses(request) \/ Refused
  BY <1>1, <1>2, StreamFacts DEF TypeOK, Refused, Request
<1> QED
  BY <1>1, <1>2, <1>3
  DEF Init, IInv, BeforeStream, Limits, Running, OnlyResponses, SenderIsNext,
      HeldIsNext, WireIsThePrefix, WholeStream, AbortGoesNowhere

\* A step that leaves the wire and the request alone leaves alone what is only
\* about them.
LEMMA WireAlone ==
    ASSUME IInv, UNCHANGED <<request, wire>>
    PROVE  WireIsThePrefix' /\ AbortGoesNowhere'
  BY DEF IInv, WireIsThePrefix, AbortGoesNowhere

\* The handler answers a request without a stream.
LEMMA AnswerStep ==
    IInv /\ TypeOK' /\ (Reject \/ Refuse \/ EchoFails \/ AnswerEcho \/ ServeJSON) => IInv'
<1> SUFFICES ASSUME IInv, TypeOK', Reject \/ Refuse \/ EchoFails \/ AnswerEcho \/ ServeJSON
             PROVE  IInv'
  OBVIOUS
<1>1. /\ handler = "admitting" /\ handler' = "returned"
      /\ UNCHANGED <<request, connected, cancelled, held, wire, sender, offer, repeated>>
      /\ ~Streaming'
  BY DEF Reject, Refuse, EchoFails, AnswerEcho, WriteError, ServeJSON, Streaming
<1> QED
  BY <1>1, WireAlone
  DEF IInv, BeforeStream, Limits, Running, Refused, OnlyResponses, SenderIsNext,
      HeldIsNext, WholeStream

LEMMA AdmitStep == IInv /\ TypeOK' /\ Admit => IInv'
<1> SUFFICES ASSUME IInv, TypeOK', Admit
             PROVE  IInv'
  OBVIOUS
<1>1. /\ handler' = "selecting" /\ sender' = "deciding" /\ status' = "ok"
      /\ request.method = "Repeat" /\ ~request.json /\ ~Refused
      /\ UNCHANGED <<request, connected, cancelled, held, wire, offer, repeated>>
      /\ wire = <<>> /\ repeated = 0
  BY DEF Admit, IInv, BeforeStream
<1>2. Taken' = 0
  BY <1>1 DEF Taken
<1>3. OnlyResponses' /\ WholeStream' /\ SenderIsNext' /\ HeldIsNext'
  BY <1>1, <1>2, StreamFacts
  DEF IInv, TypeOK, Request, Refused, OnlyResponses, WholeStream, SenderIsNext, HeldIsNext
<1>4. BeforeStream' /\ Limits'
  BY <1>1, StreamFacts DEF Admit, IInv, BeforeStream, Limits, Running, Streaming, Refused
<1> QED
  BY <1>1, <1>3, <1>4, WireAlone DEF IInv

\* The sender's turn: what it offers comes after what the handler has taken.
LEMMA SenderStep == IInv /\ TypeOK' /\ Sender => IInv'
<1> SUFFICES ASSUME IInv, TypeOK', Sender
             PROVE  IInv'
  OBVIOUS
<1>1. /\ sender # "absent" /\ sender' # "absent"
      /\ UNCHANGED <<request, connected, cancelled, handler, held, status, wire, hooks>>
  BY DEF Sender, OfferError, OfferResponse, OfferAborted, CloseStream, BeginDelay, Offer
<1>2. /\ ~Refused /\ request \in Request /\ request.NumRepeats > 0
      /\ request.ErrAfter \in Int /\ request.NumRepeats \in Int
      /\ repeated \in Nat /\ repeated <= Responses(request)
      /\ Responses(request) \in Nat
      /\ UNCHANGED <<Taken, Refused, Running, Streaming, Responses(request), FailsAt(request)>>
      /\ Taken \in Nat
  <2>1. ~Refused /\ request \in Request /\ Len(wire) \in Nat
    BY <1>1 DEF IInv, Limits, TypeOK
  <2>2. /\ UNCHANGED <<Taken, Refused, Running, Streaming, Responses(request), FailsAt(request)>>
        /\ Taken \in Nat
    BY <1>1, <2>1 DEF Taken, Refused, Running, Streaming
  <2> QED
    BY <2>1, <2>2, StreamFacts DEF IInv, Limits, TypeOK, Refused, Request
<1>3. repeated' <= Responses(request) /\ SenderIsNext'
  <2>1. CASE OfferError
    BY <1>1, <1>2, <2>1
    DEF OfferError, Offer, IInv, SenderIsNext, FailsAt, Responses
  <2>2. CASE CloseStream
    BY <1>1, <1>2, <2>2
    DEF CloseStream, IInv, SenderIsNext, FailsAt, Responses
  <2>3. CASE BeginDelay
    BY <1>1, <1>2, <2>3
    DEF BeginDelay, IInv, SenderIsNext, FailsAt, Responses
  <2>4. CASE OfferResponse
    BY <1>1, <1>2, <2>4 DEF OfferResponse, Offer, IInv, SenderIsNext
  <2>5. CASE OfferAborted
    BY <1>1, <1>2, <2>5 DEF OfferAborted, Offer, IInv, SenderIsNext, Limits
  <2> QED
    BY <2>1, <2>2, <2>3, <2>4, <2>5 DEF Sender
<1>4. BeforeStream' /\ Limits' /\ OnlyResponses' /\ HeldIsNext' /\ WholeStream'
  BY <1>1, <1>2, <1>3
  DEF IInv, BeforeStream, Limits, OnlyResponses, HeldIsNext, WholeStream
<1> QED
  BY <1>1, <1>3, <1>4, WireAlone DEF IInv

\* The rendezvous: what the sender offers becomes what the handler holds.
LEMMA ReceiveStep == IInv /\ TypeOK' /\ Receive => IInv'
<1> SUFFICES ASSUME IInv, TypeOK', Receive
             PROVE  IInv'
  OBVIOUS
<1>1. /\ handler = "selecting" /\ sender = "offering" /\ held' = offer
      /\ handler' = IF offer.kind = "error" THEN "failing" ELSE "writing"
      /\ sender' = IF offer.code = "unknown" THEN "returned" ELSE "deciding"
      /\ UNCHANGED <<request, connected, cancelled, status, wire, hooks, offer, repeated>>
  BY DEF Receive
<1>2. /\ ~Refused /\ Streaming /\ request \in Request /\ request.NumRepeats > 0
      /\ Len(wire) \in Nat /\ Taken = Len(wire) /\ Responses(request) \in Nat
      /\ repeated \in Nat /\ repeated <= Responses(request)
  <2>1. ~Refused /\ Streaming /\ request \in Request /\ Len(wire) \in Nat
    BY <1>1 DEF IInv, Limits, TypeOK, Running
  <2> QED
    BY <1>1, <2>1, StreamFacts DEF IInv, Limits, TypeOK, Refused, Request, Taken
<1>3. connected => \/ offer = Response(Len(wire) + 1) /\ repeated = Len(wire) + 1
                   \/ /\ offer = Error("unknown") /\ FailsAt(request)
                      /\ Len(wire) = request.ErrAfter
  BY <1>1, <1>2 DEF IInv, SenderIsNext
<1>4. Taken' = Len(wire) + (IF handler' = "writing" THEN 1 ELSE 0)
  BY <1>1 DEF Taken
<1>5. SenderIsNext' /\ HeldIsNext'
  BY <1>1, <1>2, <1>3, <1>4 DEF SenderIsNext, HeldIsNext, Response, Error
<1>6. (connected /\ handler' = "writing") => Taken' <= Responses(request)
  BY <1>1, <1>2, <1>3, <1>4 DEF Response, Error
<1>7. BeforeStream' /\ Limits' /\ OnlyResponses' /\ WholeStream'
  BY <1>1, <1>2, <1>6
  DEF IInv, BeforeStream, Limits, Running, Streaming, Refused, OnlyResponses, WholeStream
<1> QED
  BY <1>1, <1>5, <1>7, WireAlone DEF IInv

\* What a wire of responses is worth to a client.
LEMMA WireOfResponses ==
    ASSUME NEW r \in Request, r.NumRepeats > 0, NEW w \in Seq(Item),
           \A i \in 1 .. Len(w) : w[i] = Response(i), Len(w) <= Responses(r)
    PROVE  /\ \A i \in 1 .. Len(w) : i <= Len(Stream(r)) /\ w[i] = Stream(r)[i]
           /\ \A i \in 1 .. Len(w) : w[i].code # "aborted"
           /\ Len(w) = r.NumRepeats /\ ~FailsAt(r) => w = Stream(r)
<1>1. /\ Len(w) \in Nat /\ Responses(r) \in Nat /\ r.ErrAfter \in Int
      /\ Len(Stream(r)) \in Nat /\ Responses(r) <= Len(Stream(r))
  BY StreamFacts DEF Request
<1>2. ASSUME NEW i \in 1 .. Len(w)
      PROVE  i <= Len(Stream(r)) /\ w[i] = Stream(r)[i] /\ w[i].code # "aborted"
  <2>1. i \in 1 .. Responses(r) /\ i <= Len(Stream(r))
    BY <1>1
  <2>2. w[i] = Response(i) /\ Stream(r)[i] = Response(i)
    BY <2>1, StreamFacts
  <2> QED
    BY <2>1, <2>2 DEF Response
<1>3. ASSUME Len(w) = r.NumRepeats, ~FailsAt(r)
      PROVE  w = Stream(r)
  <2>1. Len(Stream(r)) = Len(w) /\ Stream(r) \in Seq(Item)
    BY <1>3, StreamFacts
  <2> QED
    BY <1>2, <2>1, SeqEqual
<1> QED
  BY <1>2, <1>3

\* The handler stops without writing: the client has gone away, or the channel
\* is closed and the stream is complete.
LEMMA StopStep == IInv /\ TypeOK' /\ (SeeDone \/ WriteEOF) => IInv'
<1> SUFFICES ASSUME IInv, TypeOK', SeeDone \/ WriteEOF
             PROVE  IInv'
  OBVIOUS
<1>1. /\ handler = "selecting" /\ handler' = "returned"
      /\ cancelled \/ sender = "returned"
      /\ UNCHANGED <<request, connected, cancelled, held, status, wire, hooks, sender, offer, repeated>>
  BY DEF SeeDone, WriteEOF
<1>2. /\ ~Refused /\ Streaming /\ request \in Request /\ request.NumRepeats > 0
      /\ wire \in Seq(Item) /\ Len(wire) <= Responses(request)
      /\ \A i \in 1 .. Len(wire) : wire[i] = Response(i)
  BY <1>1 DEF IInv, Limits, TypeOK, Running, OnlyResponses, Refused, Request
<1>3. connected => Len(wire) = request.NumRepeats /\ ~FailsAt(request)
  <2>1. Len(wire) \in Nat /\ Taken = Len(wire)
    BY <1>1, <1>2 DEF Taken
  <2> QED
    BY <1>1, <2>1 DEF IInv, Limits, SenderIsNext
<1>4. WholeStream'
  BY <1>1, <1>2, <1>3, WireOfResponses DEF WholeStream
<1>5. BeforeStream' /\ Limits' /\ OnlyResponses' /\ SenderIsNext' /\ HeldIsNext'
  BY <1>1, <1>2
  DEF IInv, BeforeStream, Limits, Running, Refused, OnlyResponses, SenderIsNext, HeldIsNext
<1> QED
  BY <1>1, <1>4, <1>5, WireAlone DEF IInv

\* A message is written, or the write or the encoding fails.
LEMMA WriteStep == IInv /\ TypeOK' /\ (WriteMessage \/ EncodeFails) => IInv'
<1> SUFFICES ASSUME IInv, TypeOK', WriteMessage \/ EncodeFails
             PROVE  IInv'
  OBVIOUS
<1>1. /\ handler = "writing" /\ handler' \in {"selecting", "failing"}
      /\ UNCHANGED <<request, connected, cancelled, status, hooks, sender, offer, repeated>>
  BY DEF WriteMessage, EncodeFails
<1>2. /\ ~Refused /\ Streaming /\ request \in Request /\ request.NumRepeats > 0
      /\ wire \in Seq(Item) /\ Len(wire) \in Nat /\ Len(wire) <= Responses(request)
      /\ \A i \in 1 .. Len(wire) : wire[i] = Response(i)
      /\ Taken = Len(wire) + 1
      /\ connected => Len(wire) + 1 <= Responses(request) /\ held = Response(Len(wire) + 1)
      /\ held \in Item
  BY <1>1 DEF IInv, Limits, TypeOK, Running, OnlyResponses, Refused, Request, Taken, HeldIsNext
<1>3. BeforeStream' /\ WholeStream' /\ (Running /\ Streaming /\ ~Refused)'
  BY <1>1, <1>2 DEF BeforeStream, WholeStream, Running, Streaming, Refused
<1>4. CASE handler' = "failing"
  <2>1. held' = Error("internal") /\ wire' = wire
    BY <1>1, <1>4 DEF WriteMessage, EncodeFails
  <2>2. Limits' /\ OnlyResponses' /\ SenderIsNext' /\ HeldIsNext'
    BY <1>1, <1>2, <1>3, <1>4, <2>1
    DEF IInv, Limits, Refused, OnlyResponses, SenderIsNext, HeldIsNext
  <2> QED
    BY <1>1, <1>3, <2>1, <2>2, WireAlone DEF IInv
<1>5. CASE handler' = "selecting"
  <2>1. wire' = IF connected THEN Append(wire, Response(Len(wire) + 1)) ELSE wire
    BY <1>1, <1>2, <1>5 DEF WriteMessage, EncodeFails
  <2>2. /\ wire' \in Seq(Item)
        /\ Len(wire') = IF connected THEN Len(wire) + 1 ELSE Len(wire)
        /\ \A i \in 1 .. Len(wire') : wire'[i] = Response(i)
        /\ Len(wire') <= Responses(request)
    <3>1. Response(Len(wire) + 1) \in Item
      BY <1>2, ItemFacts
    <3> QED
      BY <1>2, <2>1, <3>1
  <2>3. connected => Taken' = Taken
    BY <1>1, <1>2, <1>5, <2>2 DEF Taken
  <2>4. Limits' /\ OnlyResponses' /\ SenderIsNext' /\ HeldIsNext'
    BY <1>1, <1>2, <1>3, <1>5, <2>2, <2>3
    DEF IInv, Limits, Refused, OnlyResponses, SenderIsNext, HeldIsNext
  <2>5. WireIsThePrefix' /\ AbortGoesNowhere'
    BY <1>1, <1>2, <2>2, WireOfResponses DEF WireIsThePrefix, AbortGoesNowhere
  <2> QED
    BY <1>3, <2>4, <2>5 DEF IInv
<1> QED
  BY <1>1, <1>4, <1>5, Zenon

\* The error trailer: after it nothing follows.
LEMMA TrailerStep == IInv /\ TypeOK' /\ WriteTrailer => IInv'
<1> SUFFICES ASSUME IInv, TypeOK', WriteTrailer
             PROVE  IInv'
  OBVIOUS
<1>1. /\ handler = "failing" /\ handler' = "returned"
      /\ wire' = IF connected THEN Append(wire, held) ELSE wire
      /\ UNCHANGED <<request, connected, cancelled, held, status, sender, offer, repeated>>
  BY DEF WriteTrailer
<1>2. /\ ~Refused /\ Streaming /\ request \in Request /\ request.NumRepeats > 0
      /\ wire \in Seq(Item) /\ Len(wire) \in Nat /\ Len(wire) <= Responses(request)
      /\ \A i \in 1 .. Len(wire) : wire[i] = Response(i)
      /\ held \in Item
      /\ connected => \/ held = Error("internal")
                      \/ /\ held = Error("unknown") /\ FailsAt(request)
                         /\ Len(wire) = request.ErrAfter
  BY <1>1 DEF IInv, Limits, TypeOK, Running, OnlyResponses, Refused, Request, HeldIsNext
<1>3. BeforeStream' /\ Limits' /\ OnlyResponses' /\ SenderIsNext' /\ HeldIsNext'
  BY <1>1, <1>2
  DEF IInv, BeforeStream, Limits, Running, Refused, OnlyResponses, SenderIsNext, HeldIsNext
<1>4. CASE ~connected
  BY <1>1, <1>3, <1>4, WireAlone DEF IInv, WholeStream
<1>5. CASE connected
  <2>1. /\ wire' = Append(wire, held) /\ wire' \in Seq(Item)
        /\ Len(wire') = Len(wire) + 1 /\ wire'[Len(wire) + 1] = held
        /\ \A i \in 1 .. Len(wire) : wire'[i] = wire[i]
    BY <1>1, <1>2, <1>5
  <2>2. \A i \in 1 .. Len(wire) :
           i <= Len(Stream(request)) /\ wire[i] = Stream(request)[i] /\ wire[i].code # "aborted"
    BY <1>2, WireOfResponses
  <2>3. held.code # "aborted"
    BY <1>2, <1>5 DEF Error
  <2>4. ASSUME NEW i \in 1 .. Len(wire')
        PROVE  i \in 1 .. Len(wire) \/ i = Len(wire) + 1
    BY <1>2, <2>1
  <2>5. AbortGoesNowhere'
    BY <2>1, <2>2, <2>3, <2>4 DEF AbortGoesNowhere
  <2>6. CASE held = Error("internal")
    <3>1. WireIsThePrefix'
      BY <1>1, <2>1, <2>2, <2>4, <2>6 DEF WireIsThePrefix
    <3>2. WholeStream'
      BY <1>2, <2>1, <2>6 DEF WholeStream
    <3> QED
      BY <1>3, <2>5, <3>1, <3>2 DEF IInv
  <2>7. CASE held = Error("unknown") /\ FailsAt(request) /\ Len(wire) = request.ErrAfter
    <3>1. /\ Len(Stream(request)) = Len(wire') /\ Stream(request) \in Seq(Item)
          /\ Stream(request)[Len(wire) + 1] = held
      BY <1>2, <2>1, <2>7, StreamFacts
    <3>2. \A i \in 1 .. Len(wire') : i <= Len(Stream(request)) /\ wire'[i] = Stream(request)[i]
      BY <2>1, <2>2, <2>4, <3>1
    <3>3. wire' = Stream(request)
      BY <2>1, <3>1, <3>2, SeqEqual
    <3>4. WireIsThePrefix' /\ WholeStream'
      BY <1>1, <3>2, <3>3 DEF WireIsThePrefix, WholeStream
    <3> QED
      BY <1>3, <2>5, <3>4 DEF IInv
  <2> QED
    BY <1>2, <1>5, <2>6, <2>7
<1> QED
  BY <1>4, <1>5

\* The client goes away, or the context is cancelled.
LEMMA NetworkStep == IInv /\ TypeOK' /\ (Disconnect \/ Cancel) => IInv'
<1> SUFFICES ASSUME IInv, TypeOK', Disconnect \/ Cancel
             PROVE  IInv'
  OBVIOUS
<1>1. /\ UNCHANGED <<request, handler, held, status, wire, hooks, sender, offer, repeated>>
      /\ connected' => connected
      /\ cancelled' => cancelled \/ ~connected' \/ handler = "returned"
  BY DEF Disconnect, Cancel, IInv, TypeOK
<1>2. UNCHANGED Taken
  BY <1>1 DEF Taken
<1> QED
  BY <1>1, <1>2, WireAlone
  DEF IInv, BeforeStream, Limits, Running, Streaming, Refused, OnlyResponses,
      SenderIsNext, HeldIsNext, WholeStream

\* IInv is an invariant of the handler, the sender and net/http together.
LEMMA IInvStep == IInv /\ [Next]_vars => IInv'
<1> SUFFICES ASSUME IInv, [Next]_vars
             PROVE  IInv'
  OBVIOUS
<1>1. TypeOK'
  BY TypeStep DEF IInv
<1>2. CASE Finished \/ UNCHANGED vars
  <2>1. UNCHANGED vars /\ UNCHANGED Taken
    BY <1>2 DEF Finished, vars, Taken
  <2> QED
    BY <1>1, <2>1
    DEF vars, IInv, BeforeStream, Limits, Running, Streaming, Refused, OnlyResponses,
        SenderIsNext, HeldIsNext, WireIsThePrefix, WholeStream, AbortGoesNowhere
<1> QED
  BY <1>1, <1>2, AnswerStep, AdmitStep, SenderStep, ReceiveStep, StopStep,
     WriteStep, TrailerStep, NetworkStep DEF Next, Handler

\* Handler, sender and wire hold consecutive parts of the stream, as IInv says,
\* under every interleaving.
THEOREM Invariance == Spec => []IInv
  BY IInvInit, IInvStep, PTL DEF Spec

\* What a client is sent is the stream it asked for from its beginning, for
\* every interleaving of handler, sender, disconnection and cancellation.
THEOREM SendsInOrder == Spec => []WireIsThePrefix
<1>1. IInv => WireIsThePrefix
  BY DEF IInv
<1> QED
  BY <1>1, Invariance, PTL

\* The handler does not return before the stream is complete, unless the
\* client has gone away or an encoding fails.
THEOREM SendsTheWholeStream == Spec => []WholeStream
<1>1. IInv => WholeStream
  BY DEF IInv
<1> QED
  BY <1>1, Invariance, PTL

\* No client reads the aborted error of a cancelled context.
THEOREM AbortIsNeverSent == Spec => []AbortGoesNowhere
<1>1. IInv => AbortGoesNowhere
  BY DEF IInv
<1> QED
  BY <1>1, Invariance, PTL

----------------------------------------------------------------------------
(***************************************************************************)
(* The hooks                                                               *)
(***************************************************************************)
LEMMA RankFacts ==
    /\ Rank("RequestReceived") = 1
    /\ Rank("RequestRouted") = 2
    /\ Rank("ResponsePrepared") = 3
    /\ Rank("Error") = 4
    /\ Rank("ResponseSent") = 5
<1>1. /\ HookOrder[1] = "RequestReceived" /\ HookOrder[2] = "RequestRouted"
      /\ HookOrder[3] = "ResponsePrepared" /\ HookOrder[4] = "Error"
      /\ HookOrder[5] = "ResponseSent"
  BY DEF HookOrder
<1>2. 1 .. 5 = {1, 2, 3, 4, 5}
  OBVIOUS
<1> QED
  BY <1>1, <1>2 DEF Rank

\* The hooks a sequence names come in the order of a request.
Ordered(calls) == \A i, j \in DOMAIN calls : i < j => Rank(calls[i]) < Rank(calls[j])

LEMMA WaysAreOrdered ==
    /\ \A calls \in Reported : Ordered(calls) /\ \E i \in DOMAIN calls : calls[i] = "Error"
    /\ \A calls \in Unreported : Ordered(calls)
    /\ Ordered(<<>>) /\ Ordered(Prepared)
<1>2. Ordered(<<"RequestReceived">>)
  BY DEF Ordered
<1>3. Ordered(<<"RequestReceived", "RequestRouted", "ResponsePrepared">>)
  BY RankFacts DEF Ordered
<1>4. Ordered(<<"RequestReceived", "RequestRouted", "ResponsePrepared", "ResponseSent">>)
  BY RankFacts DEF Ordered
<1>5. \A calls \in Reported : Ordered(calls)
  <2>1. Ordered(<<"RequestReceived", "Error", "ResponseSent">>)
    BY RankFacts DEF Ordered
  <2>2. Ordered(<<"RequestReceived", "RequestRouted", "Error", "ResponseSent">>)
    BY RankFacts DEF Ordered
  <2>3. Ordered(<<"RequestReceived", "RequestRouted", "ResponsePrepared", "Error", "ResponseSent">>)
    BY RankFacts DEF Ordered
  <2>4. Ordered(<<"RequestReceived", "RequestRouted", "ResponsePrepared", "Error">>)
    BY RankFacts DEF Ordered
  <2> QED
    BY <2>1, <2>2, <2>3, <2>4 DEF Reported
<1>6. \A calls \in Reported : \E i \in DOMAIN calls : calls[i] = "Error"
  <2>1. LET calls == <<"RequestReceived", "Error", "ResponseSent">>
        IN  2 \in DOMAIN calls /\ calls[2] = "Error"
    OBVIOUS
  <2>2. LET calls == <<"RequestReceived", "RequestRouted", "Error", "ResponseSent">>
        IN  3 \in DOMAIN calls /\ calls[3] = "Error"
    OBVIOUS
  <2>3. LET calls == <<"RequestReceived", "RequestRouted", "ResponsePrepared", "Error", "ResponseSent">>
        IN  4 \in DOMAIN calls /\ calls[4] = "Error"
    OBVIOUS
  <2>4. LET calls == <<"RequestReceived", "RequestRouted", "ResponsePrepared", "Error">>
        IN  4 \in DOMAIN calls /\ calls[4] = "Error"
    OBVIOUS
  <2> QED
    BY <2>1, <2>2, <2>3, <2>4 DEF Reported
<1> QED
  BY <1>2, <1>3, <1>4, <1>5, <1>6 DEF Unreported, Prepared, Ordered

\* The hooks that the handler's ways out add to those called before.
LEMMA WaysOut ==
    /\ <<"RequestReceived">> \o <<"Error", "ResponseSent">>
          = <<"RequestReceived", "Error", "ResponseSent">>
    /\ <<"RequestReceived", "RequestRouted">> \o <<"Error", "ResponseSent">>
          = <<"RequestReceived", "RequestRouted", "Error", "ResponseSent">>
    /\ Prepared \o <<"Error", "ResponseSent">>
          = <<"RequestReceived", "RequestRouted", "ResponsePrepared", "Error", "ResponseSent">>
    /\ Prepared \o <<"ResponseSent">>
          = <<"RequestReceived", "RequestRouted", "ResponsePrepared", "ResponseSent">>
    /\ Append(Prepared, "Error")
          = <<"RequestReceived", "RequestRouted", "ResponsePrepared", "Error">>
<1>1. <<"RequestReceived">> \o <<"Error", "ResponseSent">>
        = <<"RequestReceived", "Error", "ResponseSent">>
  <2> DEFINE s == <<"RequestReceived">> \o <<"Error", "ResponseSent">>
             t == <<"RequestReceived", "Error", "ResponseSent">>
  <2>1. s \in Seq(Hook) /\ t \in Seq(Hook) /\ Len(s) = 3 /\ Len(t) = 3
    BY DEF Hook
  <2>2. s[1] = t[1] /\ s[2] = t[2] /\ s[3] = t[3]
    OBVIOUS
  <2> HIDE DEF s, t
  <2>3. s = t
    BY <2>1, <2>2, SeqEqual
  <2> QED
    BY <2>3 DEF s, t
<1>2. <<"RequestReceived", "RequestRouted">> \o <<"Error", "ResponseSent">>
        = <<"RequestReceived", "RequestRouted", "Error", "ResponseSent">>
  <2> DEFINE s == <<"RequestReceived", "RequestRouted">> \o <<"Error", "ResponseSent">>
             t == <<"RequestReceived", "RequestRouted", "Error", "ResponseSent">>
  <2>1. s \in Seq(Hook) /\ t \in Seq(Hook) /\ Len(s) = 4 /\ Len(t) = 4
    BY DEF Hook
  <2>2. s[1] = t[1] /\ s[2] = t[2] /\ s[3] = t[3] /\ s[4] = t[4]
    OBVIOUS
  <2> HIDE DEF s, t
  <2>3. s = t
    BY <2>1, <2>2, SeqEqual
  <2> QED
    BY <2>3 DEF s, t
<1>3. <<"RequestReceived", "RequestRouted", "ResponsePrepared">> \o <<"Error", "ResponseSent">>
        = <<"RequestReceived", "RequestRouted", "ResponsePrepared", "Error", "ResponseSent">>
  <2> DEFINE s == <<"RequestReceived", "RequestRouted", "ResponsePrepared">> \o <<"Error", "ResponseSent">>
             t == <<"RequestReceived", "RequestRouted", "ResponsePrepared", "Error", "ResponseSent">>
  <2>1. s \in Seq(Hook) /\ t \in Seq(Hook) /\ Len(s) = 5 /\ Len(t) = 5
    BY DEF Hook
  <2>2. s[1] = t[1] /\ s[2] = t[2] /\ s[3] = t[3] /\ s[4] = t[4] /\ s[5] = t[5]
    OBVIOUS
  <2> HIDE DEF s, t
  <2>3. s = t
    BY <2>1, <2>2, SeqEqual
  <2> QED
    BY <2>3 DEF s, t
<1>4. <<"RequestReceived", "RequestRouted", "ResponsePrepared">> \o <<"ResponseSent">>
        = <<"RequestReceived", "RequestRouted", "ResponsePrepared", "ResponseSent">>
  <2> DEFINE s == <<"RequestReceived", "RequestRouted", "ResponsePrepared">> \o <<"ResponseSent">>
             t == <<"RequestReceived", "RequestRouted", "ResponsePrepared", "ResponseSent">>
  <2>1. s \in Seq(Hook) /\ t \in Seq(Hook) /\ Len(s) = 4 /\ Len(t) = 4
    BY DEF Hook
  <2>2. s[1] = t[1] /\ s[2] = t[2] /\ s[3] = t[3] /\ s[4] = t[4]
    OBVIOUS
  <2> HIDE DEF s, t
  <2>3. s = t
    BY <2>1, <2>2, SeqEqual
  <2> QED
    BY <2>3 DEF s, t
<1>5. Append(<<"RequestReceived", "RequestRouted", "ResponsePrepared">>, "Error")
        = <<"RequestReceived", "RequestRouted", "ResponsePrepared", "Error">>
  <2> DEFINE s == Append(<<"RequestReceived", "RequestRouted", "ResponsePrepared">>, "Error")
             t == <<"RequestReceived", "RequestRouted", "ResponsePrepared", "Error">>
  <2>1. s \in Seq(Hook) /\ t \in Seq(Hook) /\ Len(s) = 4 /\ Len(t) = 4
    BY DEF Hook
  <2>2. s[1] = t[1] /\ s[2] = t[2] /\ s[3] = t[3] /\ s[4] = t[4]
    OBVIOUS
  <2> HIDE DEF s, t
  <2>3. s = t
    BY <2>1, <2>2, SeqEqual
  <2> QED
    BY <2>3 DEF s, t
<1> QED
  BY <1>1, <1>2, <1>3, <1>4, <1>5, Zenon DEF Prepared

\* While the handler runs, no error has been sent.
LEMMA NoErrorYet ==
    ASSUME IInv, handler # "returned"
    PROVE  \A i \in 1 .. Len(wire) : wire[i].kind # "error"
<1> SUFFICES ASSUME NEW i \in 1 .. Len(wire)
             PROVE  wire[i].kind # "error"
  OBVIOUS
<1>1. wire[i] = Response(i)
  BY DEF IInv, OnlyResponses
<1> QED
  BY <1>1 DEF Response

\* A step of the handler calls the next hooks of a way out, and only WriteTrailer
\* sends an error.
LEMMA HooksStep == IInv /\ HooksSoFar /\ [Next]_vars => HooksSoFar'
<1> SUFFICES ASSUME IInv, HooksSoFar, [Next]_vars
             PROVE  HooksSoFar'
  OBVIOUS
<1>1. CASE Reject \/ Refuse \/ EchoFails
  <2>1. /\ <<"RequestReceived">> \o <<"Error", "ResponseSent">>
              = <<"RequestReceived", "Error", "ResponseSent">>
        /\ <<"RequestReceived", "RequestRouted">> \o <<"Error", "ResponseSent">>
              = <<"RequestReceived", "RequestRouted", "Error", "ResponseSent">>
        /\ Prepared \o <<"Error", "ResponseSent">>
              = <<"RequestReceived", "RequestRouted", "ResponsePrepared", "Error", "ResponseSent">>
    BY WaysOut
  <2>2. handler' = "returned" /\ hooks' \in Reported
    BY <1>1, <2>1 DEF Reject, Refuse, EchoFails, WriteError, Reported
  <2> QED
    BY <2>2 DEF HooksSoFar, Running
<1>2. CASE AnswerEcho \/ ServeJSON
  <2>1. /\ Prepared \o <<"Error", "ResponseSent">>
              = <<"RequestReceived", "RequestRouted", "ResponsePrepared", "Error", "ResponseSent">>
        /\ Prepared \o <<"ResponseSent">>
              = <<"RequestReceived", "RequestRouted", "ResponsePrepared", "ResponseSent">>
    BY WaysOut
  <2>2. handler' = "returned" /\ hooks' \in Reported \cup Unreported
    BY <1>2, <2>1 DEF AnswerEcho, ServeJSON, Reported, Unreported
  <2>3. status' = "ok" /\ wire' = <<>>
    BY <1>2 DEF AnswerEcho, ServeJSON, IInv, BeforeStream
  <2> QED
    BY <2>2, <2>3 DEF HooksSoFar, Running
<1>3. CASE Admit
  BY <1>3 DEF Admit, HooksSoFar, Running
<1>4. CASE SeeDone \/ WriteEOF
  <2>1. /\ handler = "selecting" /\ handler' = "returned"
        /\ hooks' = Prepared /\ status' = "ok" /\ wire' = wire
    BY <1>4 DEF SeeDone, WriteEOF, HooksSoFar, Running, IInv, Limits, Streaming
  <2>2. \A i \in 1 .. Len(wire) : wire[i].kind # "error"
    BY <2>1, NoErrorYet
  <2>3. hooks' \in Unreported
    BY <2>1 DEF Unreported, Prepared
  <2> QED
    BY <2>1, <2>2, <2>3 DEF HooksSoFar, Running
<1>5. CASE WriteTrailer
  <2>1. Append(Prepared, "Error")
          = <<"RequestReceived", "RequestRouted", "ResponsePrepared", "Error">>
    BY WaysOut
  <2>2. handler' = "returned" /\ hooks' \in Reported
    BY <1>5, <2>1 DEF WriteTrailer, HooksSoFar, Running, Reported
  <2> QED
    BY <2>2 DEF HooksSoFar, Running
<1>6. CASE WriteMessage \/ EncodeFails \/ Receive
  BY <1>6 DEF WriteMessage, EncodeFails, Receive, HooksSoFar, Running
<1>7. CASE Sender \/ Disconnect \/ Cancel \/ Finished \/ UNCHANGED vars
  <2>1. UNCHANGED <<handler, hooks, status, wire>>
    BY <1>7 DEF Sender, OfferError, OfferResponse, OfferAborted, CloseStream, BeginDelay, Offer,
       Disconnect, Cancel, Finished, vars
  <2> QED
    BY <2>1 DEF HooksSoFar, Running
<1> QED
  BY <1>1, <1>2, <1>3, <1>4, <1>5, <1>6, <1>7 DEF Next, Handler

LEMMA HooksInit == Init => HooksSoFar
  BY DEF Init, HooksSoFar, Running

LEMMA HooksFollow == IInv /\ HooksSoFar => HooksInOrder
<1> SUFFICES ASSUME IInv, HooksSoFar
             PROVE  HooksInOrder
  OBVIOUS
<1>1. handler \in {"admitting", "returned"} \/ Running
  BY DEF IInv, TypeOK, Running
<1>2. Ordered(hooks)
  BY <1>1, WaysAreOrdered DEF HooksSoFar
<1>3. ASSUME handler # "returned"
      PROVE  status # "error" /\ \A i \in 1 .. Len(wire) : wire[i].kind # "error"
  <2>1. status # "error"
    BY <1>1, <1>3 DEF IInv, BeforeStream, Limits, Streaming
  <2>2. \A i \in 1 .. Len(wire) : wire[i].kind # "error"
    BY <1>3, NoErrorYet
  <2> QED
    BY <2>1, <2>2
<1>4. hooks \in Reported => \E i \in DOMAIN hooks : hooks[i] = "Error"
  BY WaysAreOrdered
<1> QED
  BY <1>2, <1>3, <1>4 DEF HooksInOrder, HooksSoFar, Ordered

\* Whichever of the handler's ways out is taken, and whatever the sender and the
\* client do meanwhile, the hooks come once each and in order, and an error that
\* the client can read was reported.
THEOREM HooksComeInOrder == Spec => []HooksInOrder
<1>1. Spec => [](IInv /\ HooksSoFar)
  BY IInvInit, HooksInit, IInvStep, HooksStep, PTL DEF Spec
<1> QED
  BY <1>1, HooksFollow, PTL

----------------------------------------------------------------------------
(***************************************************************************)
(* The server and the client of a call                                     *)
(***************************************************************************)
\* What is proved of TwirperServer alone holds in the composition: the client
\* moves the server by disconnecting only.
LEMMA StepsOfTheServer == IInv /\ [CallNext]_callVars => [Next]_vars
  <1> SUFFICES ASSUME IInv, [CallNext]_callVars PROVE [Next]_vars
    OBVIOUS
  <1>1. CASE Server \/ UNCHANGED callVars
    BY <1>1 DEF Server, callVars, serverVars
  <1>2. CASE Deliver \/ StatusFails \/ ReadFails \/ Succeed
    BY <1>2 DEF Deliver, StatusFails, ReadFails, Succeed, serverVars
  <1>3. CASE ItemFails \/ Leave
    <2>1. /\ UNCHANGED <<request, cancelled, handler, held, status, wire, hooks, sender, offer, repeated>>
          /\ connected' = connected \/ connected' = FALSE
      BY <1>3 DEF ItemFails, Leave
    <2>2. CASE connected' = connected
      BY <2>1, <2>2 DEF vars
    <2>3. CASE connected' # connected /\ connected = TRUE
      BY <2>1, <2>3 DEF Disconnect, Next
    <2>4. CASE connected' # connected /\ connected # TRUE
      <3>1. connected = FALSE
        BY <2>4 DEF TypeOK, IInv
      <3> QED
        BY <2>1, <2>4, <3>1
    <2> QED
      BY <2>2, <2>3, <2>4
  <1> QED
    BY <1>1, <1>2, <1>3 DEF CallNext, Reading

\* What a step of the server does to the wire and the status.
LEMMA ServerStep ==
  ASSUME IInv, OnlyStreamsAreSent, [Next]_vars
  PROVE  /\ wire' = wire \/ (wire' = Append(wire, held) /\ handler \in {"writing", "failing"})
         /\ OnlyStreamsAreSent'
  <1>1. request' = request
    BY DEF Next, Sender, OfferError, Offer, CloseStream, BeginDelay, OfferResponse, OfferAborted,
       Handler, Reject, Refuse, EchoFails, WriteError, AnswerEcho, ServeJSON, Admit, SeeDone,
       WriteEOF, WriteMessage, EncodeFails, WriteTrailer, Receive, Disconnect, Cancel, Finished, vars
  <1>2. CASE Sender \/ Receive \/ Disconnect \/ Cancel \/ Finished \/ UNCHANGED vars
    BY <1>1, <1>2 DEF Sender, OfferError, Offer, CloseStream, BeginDelay, OfferResponse, OfferAborted,
       Receive, Disconnect, Cancel, Finished, vars, OnlyStreamsAreSent, Streams, Refused
  <1>3. CASE Handler
    <2>1. CASE Reject \/ Refuse \/ EchoFails
      BY <1>1, <2>1 DEF Reject, Refuse, EchoFails, WriteError, OnlyStreamsAreSent, Streams, Refused
    <2>2. CASE AnswerEcho \/ ServeJSON \/ Admit
      BY <1>1, <2>2 DEF AnswerEcho, ServeJSON, Admit, OnlyStreamsAreSent, Streams, Refused
    <2>3. CASE SeeDone \/ WriteEOF \/ EncodeFails
      BY <1>1, <2>3 DEF SeeDone, WriteEOF, EncodeFails, OnlyStreamsAreSent, Streams, Refused
    <2>4. CASE WriteMessage \/ WriteTrailer
      <3>1. handler \in {"writing", "failing"} /\ status' = status
        BY <2>4 DEF WriteMessage, WriteTrailer
      <3>2. wire' = wire \/ wire' = Append(wire, held)
        BY <2>4 DEF WriteMessage, WriteTrailer
      <3>3. Streams /\ ~Refused
        BY <3>1 DEF IInv, Limits, Running, Streaming, Streams
      <3> QED
        BY <1>1, <3>1, <3>2, <3>3 DEF OnlyStreamsAreSent, Streams, Refused
    <2> QED
      BY <1>3, <2>1, <2>2, <2>3, <2>4 DEF Handler
  <1> QED
    BY <1>2, <1>3 DEF Next

\* The client keeps a prefix of the wire when the wire grows.
LEMMA BehindAfterServer ==
  ASSUME IInv, ClientIsBehind, delivered \in Seq(Nat), delivered' = delivered,
         wire' = wire \/ wire' = Append(wire, held)
  PROVE  ClientIsBehind'
  <1>1. wire \in Seq(Item) /\ held \in Item
    BY DEF IInv, TypeOK
  <1>2. Len(wire) <= Len(wire') /\ \A i \in 1 .. Len(wire) : wire'[i] = wire[i]
    BY <1>1
  <1>3. Len(delivered) \in Nat /\ Len(wire) \in Nat /\ Len(wire') \in Nat
    BY <1>1
  <1> QED
    BY <1>2, <1>3 DEF ClientIsBehind

\* The next item on the wire is the next response, or an error.
LEMMA NextOfTheStream ==
  ASSUME CallInv, Arrived, NextItem.kind = "response"
  PROVE  /\ NextItem = Response(Len(delivered) + 1)
         /\ NextItem.id = Len(delivered) + 1
         /\ Len(delivered) + 1 <= Responses(request)
         /\ Streams /\ ~Refused
  <1> DEFINE n == Len(delivered) + 1
  <1>1. n \in 1 .. Len(wire) /\ wire \in Seq(Item) /\ request \in Request
    BY DEF CallInv, CallTypeOK, IInv, TypeOK, Arrived
  <1>2. wire # <<>>
    BY <1>1
  <1>3. Streams /\ ~Refused /\ request.NumRepeats > 0
    BY <1>1, <1>2 DEF CallInv, OnlyStreamsAreSent, Refused, Request
  <1>4. wire[n] # Error("internal")
    BY DEF NextItem, Error
  <1>5. n <= Len(Stream(request)) /\ wire[n] = Stream(request)[n]
    BY <1>1, <1>4 DEF CallInv, IInv, WireIsThePrefix
  <1>6. n <= Responses(request) /\ Stream(request)[n] = Response(n)
    <2>1. Responses(request) \in Nat /\ n \in Nat
      BY <1>1, <1>3, StreamFacts
    <2>2. CASE FailsAt(request)
      <3>1. Len(Stream(request)) = request.ErrAfter + 1 /\ Responses(request) = request.ErrAfter
        BY <1>1, <1>3, <2>2, StreamFacts
      <3>2. Stream(request)[request.ErrAfter + 1] = Error("unknown")
        BY <1>1, <1>3, <2>2, StreamFacts
      <3>3. n # request.ErrAfter + 1
        BY <1>5, <3>2 DEF NextItem, Error
      <3> QED
        BY <1>1, <1>3, <1>5, <2>1, <3>1, <3>3, StreamFacts
    <2>3. CASE ~FailsAt(request)
      BY <1>1, <1>3, <1>5, <2>1, <2>3, StreamFacts
    <2> QED
      BY <2>2, <2>3
  <1>7. Response(n).id = n
    BY DEF Response
  <1> QED
    BY <1>3, <1>5, <1>6, <1>7 DEF NextItem
\* The client's steps keep it behind the wire.
LEMMA CallStep == CallInv /\ [CallNext]_callVars => CallInv'
  <1> SUFFICES ASSUME CallInv, [CallNext]_callVars PROVE CallInv'
    OBVIOUS
  <1>1. IInv /\ [Next]_vars
    BY StepsOfTheServer DEF CallInv
  <1>2. IInv'
    BY <1>1, IInvStep
  <1>3. CallTypeOK'
    <2>1. TypeOK'
      BY <1>2 DEF IInv
    <2>2. delivered' \in Seq(Nat)
      <3>1. CASE Deliver
        <4>1. NextItem.id \in Nat
          <5>1. NextItem.id = Len(delivered) + 1
            BY <3>1, NextOfTheStream DEF Deliver
          <5> QED
            BY <5>1 DEF CallInv, CallTypeOK
        <4> QED
          BY <3>1, <4>1 DEF Deliver, CallInv, CallTypeOK
      <3>2. CASE ~Deliver
        BY <3>2 DEF CallNext, Server, Reading, ItemFails, StatusFails, ReadFails, Succeed, Leave,
           callVars, CallInv, CallTypeOK
      <3> QED
        BY <3>1, <3>2
    <2>3. outcome' \in {"pending", "success", "failure", "left"}
      BY DEF CallNext, Server, Reading, Deliver, ItemFails, StatusFails, ReadFails, Succeed, Leave,
         callVars, CallInv, CallTypeOK
    <2> QED
      BY <2>1, <2>2, <2>3 DEF CallTypeOK
  <1>4. OnlyStreamsAreSent' /\ (wire' = wire \/ wire' = Append(wire, held))
    BY <1>1, ServerStep DEF CallInv
  <1>5. ClientIsBehind'
    <2>1. CASE Deliver
      <3>1. wire' = wire /\ delivered' = Append(delivered, NextItem.id)
        BY <2>1 DEF Deliver, serverVars, vars
      <3>2. /\ NextItem = Response(Len(delivered) + 1)
            /\ NextItem.id = Len(delivered) + 1
        BY <2>1, NextOfTheStream DEF Deliver
      <3>3. delivered \in Seq(Nat) /\ wire \in Seq(Item) /\ Len(delivered) < Len(wire)
        BY <2>1 DEF Deliver, Arrived, CallInv, CallTypeOK, TypeOK
      <3>4. /\ Len(delivered') = Len(delivered) + 1
            /\ \A i \in 1 .. Len(delivered) : delivered'[i] = delivered[i]
            /\ delivered'[Len(delivered) + 1] = Len(delivered) + 1
        BY <3>1, <3>2, <3>3
      <3>5. wire[Len(delivered) + 1] = Response(Len(delivered) + 1)
        BY <3>2 DEF NextItem
      <3> QED
        BY <3>1, <3>3, <3>4, <3>5 DEF CallInv, ClientIsBehind
    <2>2. CASE ~Deliver
      <3>1. delivered' = delivered
        BY <2>2 DEF CallNext, Server, Reading, ItemFails, StatusFails, ReadFails, Succeed, Leave, callVars
      <3> QED
        BY <3>1, <1>4, BehindAfterServer DEF CallInv, CallTypeOK
    <2> QED
      BY <2>1, <2>2
  <1> QED
    BY <1>2, <1>3, <1>4, <1>5 DEF CallInv

\* While the client reads, it has a prefix of the wire, and the wire carries nothing
\* that was not asked for.
THEOREM CallInvariance == CallSpec => []CallInv
  <1>1. CallInit => CallInv
    <2> SUFFICES ASSUME CallInit PROVE CallInv
      OBVIOUS
    <2>1. IInv
      BY IInvInit DEF CallInit
    <2>2. wire = <<>> /\ status = "none" /\ delivered = <<>> /\ outcome = "pending"
      BY DEF CallInit, Init
    <2> QED
      BY <2>1, <2>2 DEF CallInv, CallTypeOK, IInv, ClientIsBehind, OnlyStreamsAreSent
  <1> QED
    BY <1>1, CallStep, PTL DEF CallSpec

\* The hooks of a call come in order with a client that reads, fails or leaves at
\* any moment.
THEOREM HooksComeInOrderInACall == CallSpec => []HooksInOrder
  <1>1. CallInit => IInv /\ HooksSoFar
    BY IInvInit, HooksInit DEF CallInit
  <1>2. IInv /\ HooksSoFar /\ [CallNext]_callVars => (IInv /\ HooksSoFar)'
    BY StepsOfTheServer, IInvStep, HooksStep
  <1> QED
    BY <1>1, <1>2, HooksFollow, PTL DEF CallSpec

\* A success comes after the whole stream that was asked for.
LEMMA SuccessIsWhole ==
  ASSUME CallInv, Succeed
  PROVE  /\ Streams => ~Refused /\ ~FailsAt(request)
         /\ Len(delivered) = IF Streams /\ ~Refused THEN Responses(request) ELSE 0
  <1>1. /\ status = "ok" /\ handler = "returned" /\ connected
        /\ delivered \in Seq(Nat) /\ wire \in Seq(Item) /\ request \in Request
        /\ Len(delivered) = Len(wire)
    BY DEF Succeed, Arrived, CallInv, CallTypeOK, TypeOK, ClientIsBehind
  <1>2. CASE ~Streams
    BY <1>1, <1>2 DEF CallInv, OnlyStreamsAreSent
  <1>3. CASE Streams
    <2>1. ~Refused /\ request.NumRepeats > 0
      BY <1>1, <1>3 DEF CallInv, OnlyStreamsAreSent, Refused, Request
    <2>2. \A i \in 1 .. Len(wire) : wire[i].kind = "response"
      <3> SUFFICES ASSUME NEW i \in 1 .. Len(wire) PROVE wire[i].kind = "response"
        OBVIOUS
      <3>1. wire[i] = Response(i)
        BY <1>1 DEF CallInv, ClientIsBehind
      <3> QED
        BY <3>1 DEF Response
    <2>3. ~(Len(wire) > 0 /\ wire[Len(wire)] = Error("internal"))
      BY <1>1, <2>2 DEF Error
    <2>4. wire = Stream(request)
      BY <1>1, <1>3, <2>3 DEF CallInv, IInv, WholeStream, Streaming, Streams
    <2>5. ~FailsAt(request)
      <3> SUFFICES ASSUME FailsAt(request) PROVE FALSE
        OBVIOUS
      <3>1. Len(wire) = request.ErrAfter + 1 /\ wire[request.ErrAfter + 1] = Error("unknown")
        BY <1>1, <2>1, <2>4, StreamFacts
      <3>2. request.ErrAfter + 1 \in 1 .. Len(wire)
        BY <1>1, <3>1 DEF FailsAt, Request
      <3> QED
        BY <2>2, <3>1, <3>2 DEF Error
    <2>6. Len(wire) = Responses(request)
      BY <1>1, <2>1, <2>4, <2>5, StreamFacts
    <2> QED
      BY <1>1, <1>3, <2>1, <2>5, <2>6
  <1> QED
    BY <1>2, <1>3

\* A client of the server that succeeds has the stream it asked for, and no client
\* ever sees anything but the beginning of that stream.
THEOREM ImplementsThePromise == CallSpec => KeepsPromise
  <1>1. CallInit => Promise!Init
    <2> SUFFICES ASSUME CallInit PROVE Promise!Init
      OBVIOUS
    <2>1. request \in Request
      BY TypeInit DEF CallInit, TypeOK
    <2>2. Streams /\ ~Refused => Responses(request) \in Nat
      <3> SUFFICES ASSUME ~Refused PROVE Responses(request) \in Nat
        OBVIOUS
      <3>1. request.NumRepeats > 0
        BY <2>1 DEF Refused, Request
      <3> QED
        BY <2>1, <3>1, StreamFacts
    <2> QED
      BY <2>2 DEF CallInit, Promise!Init
  <1>2. CallInv /\ [CallNext]_callVars => [Promise!Next]_(Promise!vars)
    <2> SUFFICES ASSUME CallInv, [CallNext]_callVars PROVE [Promise!Next]_(Promise!vars)
      OBVIOUS
    <2>1. request' = request
      <3>1. [Next]_vars
        BY StepsOfTheServer DEF CallInv
      <3> QED
        BY <3>1 DEF Next, Sender, OfferError, Offer, CloseStream, BeginDelay, OfferResponse,
           OfferAborted, Handler, Reject, Refuse, EchoFails, WriteError, AnswerEcho, ServeJSON,
           Admit, SeeDone, WriteEOF, WriteMessage, EncodeFails, WriteTrailer, Receive, Disconnect,
           Cancel, Finished, vars
    <2>2. /\ UNCHANGED (IF Streams /\ ~Refused THEN Responses(request) ELSE 0)
          /\ UNCHANGED (Streams => ~Refused /\ ~FailsAt(request))
      BY <2>1 DEF Streams, Refused, Responses, FailsAt
    <2>3. CASE Deliver
      <3>1. /\ NextItem.id = Len(delivered) + 1
            /\ Len(delivered) + 1 <= Responses(request)
            /\ Streams /\ ~Refused
        BY <2>3, NextOfTheStream DEF Deliver
      <3>2. Responses(request) \in Int /\ Len(delivered) \in Nat
        BY <3>1 DEF CallInv, CallTypeOK, TypeOK, Request, Responses
      <3>3. Len(delivered) < Responses(request)
        BY <3>1, <3>2
      <3>4. /\ outcome = "pending" /\ outcome' = outcome
            /\ delivered' = Append(delivered, Len(delivered) + 1)
        BY <2>3, <3>1 DEF Deliver
      <3>5. Promise!Deliver
        BY <2>2, <3>1, <3>3, <3>4 DEF Promise!Deliver
      <3> QED
        BY <3>5 DEF Promise!Next
    <2>4. CASE Succeed
      <3>1. Promise!Succeed
        BY <2>2, <2>4, SuccessIsWhole DEF Succeed, Promise!Succeed
      <3> QED
        BY <3>1 DEF Promise!Next
    <2>5. CASE ItemFails \/ StatusFails \/ ReadFails \/ Leave
      <3>1. outcome = "pending" /\ outcome' \in {"failure", "left"} /\ delivered' = delivered
        BY <2>5 DEF ItemFails, StatusFails, ReadFails, Leave
      <3>2. Promise!Fail
        BY <2>2, <3>1 DEF Promise!Fail
      <3> QED
        BY <3>2 DEF Promise!Next
    <2>6. CASE Server \/ UNCHANGED callVars
      <3>1. UNCHANGED <<delivered, outcome>>
        BY <2>6 DEF Server, callVars
      <3> QED
        BY <2>2, <3>1 DEF Promise!vars
    <2> QED
      BY <2>3, <2>4, <2>5, <2>6 DEF CallNext, Reading
  <1> QED
    BY <1>1, <1>2, CallInvariance, PTL DEF CallSpec, KeepsPromise, Promise!Spec
=============================================================================
