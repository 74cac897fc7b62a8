--------------------------- MODULE GoClientProofs ---------------------------
(***************************************************************************)
(* Proofs about GoClient, for every set of bodies and every cancelAfter.    *)
(***************************************************************************)
EXTENDS GoClient, TwirpStreamProofs

\* What Read finds is a message only if there is a frame to find it in.
LEMMA MessageIsAFrame ==
    ASSUME NEW b, b.n \in Nat, NEW e, NEW i \in Nat, "message" \in Reads(b, e, i)
    PROVE  i <= b.n
  BY DEF Reads, ReadClosed, ReadBroken

LEMMA IInvInit == Init => IInv
<1> SUFFICES ASSUME Init
             PROVE  IInv
  OBVIOUS
<1>1. IsBody(body) /\ body.n \in Nat
  BY BodiesAssumption, BodyFacts DEF Init
<1>2. TypeOK
  <2>1. cancelAfter \in Int
    BY CancelAftersAssumption DEF Init
  <2>2. received \in Seq(1 .. body.n) /\ seen \in Seq(0 .. body.n)
    BY DEF Init
  <2>3. frame \in 1 .. body.n + 1 /\ out \in 0 .. body.n
    BY <1>1 DEF Init
  <2>4. end \in Ends(body) /\ cancelled \in BOOLEAN /\ bodyOpen \in BOOLEAN
    BY DEF Init
  <2>5. /\ goroutine \in {"none", "reading", "decoding", "sending", "returned"}
        /\ item \in {"none", "message", "error"}
        /\ caller \in {"echoing", "calling", "waiting", "looking", "done", "failed"}
    BY DEF Init
  <2> QED
    BY <1>1, <2>1, <2>2, <2>3, <2>4, <2>5 DEF TypeOK
<1>3. received = [i \in 1 .. Len(received) |-> i]
  BY DEF Init
<1>4. Len(received) = 0 /\ Len(seen) = 0
  BY DEF Init
<1>5. FrameIsNext /\ OutIsRecent /\ SeenIsCurrent
  BY <1>3, <1>4 DEF Init, FrameIsNext, Offering, OutIsRecent, SeenIsCurrent
<1>6. AtMostOneAhead
  BY <1>4 DEF AtMostOneAhead
<1> QED
  BY <1>2, <1>5, <1>6 DEF Init, IInv, BeforeReading

----------------------------------------------------------------------------
(***************************************************************************)
(* One lemma for the steps of each kind.                                   *)
(***************************************************************************)
\* A step that leaves the messages alone, and neither starts nor stops offering
\* one, keeps what IInv says of them.
LEMMA MessagesAlone ==
    ASSUME IInv, UNCHANGED <<body, frame, received, seen>>, ~Offering, ~Offering',
           caller' = caller \/ "looking" \notin {caller, caller'},
           out' \in {0, out},
           goroutine' = "decoding" => goroutine = "decoding" \/ frame <= body.n
    PROVE  FrameIsNext' /\ OutIsRecent' /\ SeenIsCurrent' /\ AtMostOneAhead'
<1>1. FrameIsNext'
  BY DEF IInv, FrameIsNext
<1>2. OutIsRecent' /\ SeenIsCurrent' /\ AtMostOneAhead'
  BY DEF IInv, OutIsRecent, SeenIsCurrent, AtMostOneAhead
<1> QED
  BY <1>1, <1>2

\* The caller before and after the stream, and the goroutine's reads.
LEMMA QuietStep ==
    ASSUME IInv,
           \/ Echo \/ RequestFails \/ StatusFails \/ StartReading \/ LeaveRange
           \/ ReadMessage \/ ReadEOF \/ ReadFails \/ DecodeFails \/ ReceiveError
    PROVE  IInv'
<1>1. TypeOK /\ body.n \in Nat
  BY BodyFacts DEF IInv, TypeOK
<1>2. CASE Echo \/ RequestFails \/ StatusFails
  <2>1. TypeOK' /\ BeforeReading'
    BY <1>1, <1>2 DEF IInv, BeforeReading, Echo, RequestFails, StatusFails, TypeOK
  <2>2. FrameIsNext' /\ OutIsRecent' /\ SeenIsCurrent' /\ AtMostOneAhead'
    BY <1>1, <1>2
    DEF Echo, RequestFails, StatusFails, IInv, FrameIsNext, Offering, OutIsRecent,
        SeenIsCurrent, AtMostOneAhead
  <2> QED
    BY <2>1, <2>2 DEF IInv
<1>3. CASE StartReading
  <2>1. TypeOK'
    BY <1>1, <1>3 DEF StartReading, TypeOK
  <2>2. /\ UNCHANGED <<body, frame, received, seen, out>>
        /\ ~Offering /\ ~Offering' /\ "looking" \notin {caller, caller'}
        /\ goroutine' = "reading" /\ BeforeReading'
    BY <1>3 DEF StartReading, IInv, BeforeReading, Offering
  <2> QED
    BY <2>1, <2>2, MessagesAlone DEF IInv
<1>4. CASE LeaveRange \/ ReadMessage \/ ReadEOF \/ ReadFails \/ DecodeFails \/ ReceiveError
  <2> USE DEF LeaveRange, ReadMessage, ReadEOF, ReadFails, DecodeFails, SendError,
              ReceiveError, CloseAll
  <2>1. TypeOK'
    <3>1. UNCHANGED <<body, end, cancelAfter, cancelled, frame, received, seen>>
      BY <1>4
    <3>2. /\ bodyOpen' \in {bodyOpen, FALSE} /\ out' \in {0, out}
          /\ goroutine' \in {goroutine, "decoding", "sending", "returned"}
          /\ item' \in {item, "error"}
          /\ caller' \in {caller, "done", "failed"}
      BY <1>4
    <3>3. bodyOpen' \in BOOLEAN /\ cancelled' \in BOOLEAN
      BY <1>1, <3>1, <3>2 DEF TypeOK
    <3>4. 0 \in 0 .. body.n
      BY <1>1
    <3> QED
      BY <1>1, <3>1, <3>2, <3>3, <3>4 DEF TypeOK
  <2>2. UNCHANGED <<body, frame, received, seen>> /\ out' \in {0, out}
    BY <1>4
  <2>3. ~Offering /\ ~Offering'
    BY <1>4 DEF Offering
  <2>4. caller' = caller \/ "looking" \notin {caller, caller'}
    BY <1>4
  <2>5. BeforeReading'
    BY <1>4 DEF IInv, BeforeReading
  <2>6. goroutine' = "decoding" => goroutine = "decoding" \/ frame <= body.n
    BY <1>1, <1>4, MessageIsAFrame DEF TypeOK
  <2> QED
    BY <2>1, <2>2, <2>3, <2>4, <2>5, <2>6, MessagesAlone DEF IInv
<1> QED
  BY <1>2, <1>3, <1>4

\* The goroutine offers the message after those that were received.
LEMMA DecodeStep ==
    ASSUME IInv, Decode
    PROVE  IInv'
<1>1. /\ TypeOK /\ body.n \in Nat /\ Len(received) \in Nat
      /\ frame = Len(received) + 1 /\ frame <= body.n
  BY BodyFacts DEF IInv, TypeOK, FrameIsNext, Offering, Decode
<1>2. TypeOK'
  BY <1>1 DEF Decode, TypeOK
<1>3. Offering' /\ UNCHANGED <<body, received, seen, caller>>
      /\ out' = frame /\ frame' = frame + 1 /\ goroutine' = "sending"
  BY DEF Decode, Offering
<1>4. FrameIsNext' /\ OutIsRecent' /\ SeenIsCurrent' /\ AtMostOneAhead' /\ BeforeReading'
  BY <1>1, <1>3 DEF Decode, IInv, BeforeReading, FrameIsNext, OutIsRecent, SeenIsCurrent, AtMostOneAhead
<1> QED
  BY <1>2, <1>4 DEF IInv

\* The rendezvous: the message on offer is received.
LEMMA ReceiveStep ==
    ASSUME IInv, Receive
    PROVE  IInv'
<1>1. /\ TypeOK /\ body.n \in Nat /\ Len(received) \in Nat
      /\ received \in Seq(1 .. body.n)
      /\ frame = Len(received) + 2 /\ frame \in 1 .. body.n + 1
      /\ out = Len(received) + 1
      /\ Len(received) = Len(seen)
      /\ received = [i \in 1 .. Len(received) |-> i]
  BY BodyFacts DEF IInv, TypeOK, FrameIsNext, OutIsRecent, SeenIsCurrent, Offering, Receive
<1>2. received' = Append(received, Len(received) + 1)
  BY <1>1 DEF Receive
<1>3. /\ Len(received) + 1 \in 1 .. body.n
      /\ received' \in Seq(1 .. body.n)
      /\ Len(received') = Len(received) + 1
      /\ \A k \in 1 .. Len(received) : received'[k] = received[k]
      /\ received' = [i \in 1 .. Len(received') |-> i]
  BY <1>1, <1>2
<1>4. TypeOK'
  BY <1>1, <1>3 DEF Receive, TypeOK
<1>5. FrameIsNext' /\ OutIsRecent' /\ SeenIsCurrent' /\ BeforeReading'
  BY <1>1, <1>3 DEF Receive, BeforeReading, FrameIsNext, OutIsRecent, SeenIsCurrent, Offering
<1>6. AtMostOneAhead'
  <2>1. UNCHANGED seen /\ 1 .. Len(seen) = 1 .. Len(received)
    BY <1>1 DEF Receive
  <2>2. \A k \in 1 .. Len(seen) : seen[k] \in {0, received[k], received[k] + 1}
    BY DEF IInv, AtMostOneAhead
  <2>3. \A k \in 1 .. Len(seen) : seen[k] \in {0, received'[k], received'[k] + 1}
    BY <1>3, <2>1, <2>2
  <2> QED
    BY <2>1, <2>3 DEF AtMostOneAhead
<1> QED
  BY <1>4, <1>5, <1>6 DEF IInv

\* The caller looks at the last message received, while the goroutine decodes.
LEMMA LookStep ==
    ASSUME IInv, Look
    PROVE  IInv'
<1>1. /\ TypeOK /\ body.n \in Nat /\ Len(received) \in Nat /\ Len(seen) \in Nat
      /\ seen \in Seq(0 .. body.n) /\ out \in 0 .. body.n
      /\ Len(received) = Len(seen) + 1
      /\ received[Len(received)] = Len(received)
      /\ out \in {0, Len(received), Len(received) + 1}
  BY BodyFacts DEF IInv, TypeOK, FrameIsNext, OutIsRecent, SeenIsCurrent, Look
<1>2. seen' = Append(seen, out) /\ UNCHANGED received
  BY DEF Look
<1>3. /\ seen' \in Seq(0 .. body.n)
      /\ Len(seen') = Len(seen) + 1
      /\ seen'[Len(seen) + 1] = out
      /\ \A k \in 1 .. Len(seen) : seen'[k] = seen[k]
  BY <1>1, <1>2
<1>4. TypeOK'
  BY <1>1, <1>3 DEF Look, TypeOK
<1>5. FrameIsNext' /\ OutIsRecent' /\ SeenIsCurrent' /\ BeforeReading'
  BY <1>1, <1>3 DEF Look, IInv, BeforeReading, FrameIsNext, OutIsRecent, SeenIsCurrent, Offering
<1>6. ASSUME NEW k \in 1 .. Len(seen')
      PROVE  seen'[k] \in {0, received'[k], received'[k] + 1}
  <2>1. k \in 1 .. Len(seen) \/ k = Len(received)
    BY <1>1, <1>3
  <2> QED
    BY <1>1, <1>2, <1>3, <2>1 DEF IInv, AtMostOneAhead
<1> QED
  BY <1>4, <1>5, <1>6 DEF IInv, AtMostOneAhead

LEMMA IInvStep == IInv /\ [Next]_vars => IInv'
<1> SUFFICES ASSUME IInv, [Next]_vars
             PROVE  IInv'
  OBVIOUS
<1>1. CASE Finished \/ UNCHANGED vars
  <2>1. UNCHANGED vars
    BY <1>1 DEF Finished
  <2>2. TypeOK'
    BY <2>1 DEF vars, IInv, TypeOK
  <2> QED
    BY <2>1, <2>2 DEF vars, IInv, BeforeReading, FrameIsNext, Offering,
                      OutIsRecent, SeenIsCurrent, AtMostOneAhead
<1> QED
  BY <1>1, QuietStep, DecodeStep, ReceiveStep, LookStep
  DEF Next, Goroutine, Caller

\* IInv is an invariant of the caller and the goroutine together.
THEOREM Invariance == Spec => []IInv
  BY IInvInit, IInvStep, PTL DEF Spec

\* TypeOK holds of every state of the generated Go client and its caller.
THEOREM TypeCorrect == Spec => []TypeOK
<1>1. IInv => TypeOK
  BY DEF IInv
<1> QED
  BY <1>1, Invariance, PTL

\* The one RepeatResp that every message is decoded into (twirper.twirp.go:120)
\* never shows the caller anything but the message it received, the next one, or
\* the empty message of a decoding that has begun.
THEOREM SharedMessageIsAtMostOneAhead == Spec => []AtMostOneAhead
<1>1. IInv => AtMostOneAhead
  BY DEF IInv
<1> QED
  BY <1>1, Invariance, PTL

----------------------------------------------------------------------------
(***************************************************************************)
(* The call implements StreamDelivery.                                     *)
(***************************************************************************)
\* A message that Read finds has arrived whole.
LEMMA MessageHasArrived ==
    ASSUME NEW b, IsBody(b), NEW e \in Ends(b), NEW i \in 1 .. b.n + 1,
           "message" \in Reads(b, e, i)
    PROVE  i \in ArriveWhole(b, e)
<1>1. i \in 1 .. b.n /\ b.n \in Nat
  BY BodyFacts, MessageIsAFrame
<1>2. /\ b.start[i] \in Nat /\ b.start[i + 1] \in Nat
      /\ b.kind[i] \in FrameKind
  BY <1>1, BodyFacts
<1>3. e.at \in Nat
  BY BodyFacts DEF Ends
<1>4. b.kind[i] = "message" /\ b.start[i + 1] <= e.at
  BY <1>1, <1>2, <1>3 DEF Reads, ReadClosed, ReadBroken, FrameKind
<1>5. i \in 1 .. Messages(b)
  BY <1>1, <1>4, BodyFacts
<1> QED
  BY <1>4, <1>5 DEF ArriveWhole

\* What Read may take for the end of the stream at frame i, if everything before
\* it has arrived: the end of what arrived, a trailer EOF, or a cut in a header.
LEMMA EOFIsAnEnd ==
    ASSUME NEW b, IsBody(b), NEW e \in Ends(b), NEW i \in 1 .. b.n + 1,
           b.start[i] <= e.at, "EOF" \in Reads(b, e, i)
    PROVE  /\ e.how = "close"
           /\ \/ e.at = b.start[i]
              \/ i \in 1 .. b.n /\ e.at = b.start[i + 1] /\ b.kind[i] = "EOF"
              \/ /\ i \in 1 .. b.n /\ b.kind[i] \in {"message", "huge"}
                 /\ e.at \in b.start[i] + 1 .. b.start[i] + b.head[i]
                 /\ e.at < b.start[i + 1]
<1>1. e.how = "close" /\ "EOF" \in ReadClosed(b, e.at, i)
  BY DEF Reads, ReadBroken
<1>2. /\ b.n \in Nat /\ BodyLength(b) \in Nat /\ BodyLength(b) = b.start[b.n + 1]
      /\ e.at \in Nat /\ e.at <= BodyLength(b) /\ b.start[i] \in Nat
  BY BodyFacts DEF Ends
<1>3. CASE i > b.n
  <2>1. i = b.n + 1
    BY <1>2, <1>3
  <2> QED
    BY <1>1, <1>2, <2>1
<1>4. CASE e.at - b.start[i] <= 0
  BY <1>1, <1>2, <1>4
<1>5. CASE ~(i > b.n) /\ ~(e.at - b.start[i] <= 0)
  <2>1. i \in 1 .. b.n /\ i + 1 \in 1 .. b.n + 1
    BY <1>2, <1>5
  <2>2. /\ b.start[i + 1] \in Nat /\ b.head[i] \in Nat /\ b.head[i] >= 2
        /\ b.kind[i] \in FrameKind
    BY <2>1, BodyFacts
  <2>3. b.start[i] + b.head[i] <= b.start[i + 1]
    <3>1. i + 1 \in i + 1 .. b.n + 1
      BY <1>2, <2>1
    <3> QED
      BY <2>1, <3>1 DEF IsBody
  <2>4. CASE b.kind[i] \in {"EOF", "error", "junk"}
    BY <1>1, <1>2, <1>5, <2>1, <2>2, <2>4 DEF ReadClosed
  <2>5. CASE b.kind[i] \in {"message", "huge"}
    BY <1>1, <1>2, <1>5, <2>1, <2>2, <2>3, <2>5 DEF ReadClosed
  <2> QED
    BY <2>2, <2>4, <2>5 DEF FrameKind
<1> QED
  BY <1>3, <1>4, <1>5

\* The goroutine returns without an error only when it is through with all that
\* arrived, unless a message is lost quietly.
LEMMA EOFCompletes ==
    ASSUME IInv, HandsOverWhatArrived, ReadEOF, ~LostQuietly
    PROVE  Complete
<1> DEFINE L == Len(received)
<1>1. /\ IsBody(body) /\ end \in Ends(body) /\ body.n \in Nat
      /\ L \in Nat /\ L <= Messages(body) /\ Messages(body) \in 0 .. body.n
      /\ frame = L + 1 /\ L + 1 \in 1 .. body.n + 1
      /\ body.start[L + 1] <= end.at
      /\ "EOF" \in Reads(body, end, L + 1)
  BY BodyFacts DEF IInv, TypeOK, FrameIsNext, Offering, HandsOverWhatArrived, ReadEOF
<1> HIDE DEF L
<1>2. end.how = "close" /\ (\/ end.at = body.start[L + 1]
                            \/ /\ L + 1 \in 1 .. body.n /\ end.at = body.start[L + 2]
                               /\ body.kind[L + 1] = "EOF")
  <2>1. (L + 1) + 1 = L + 2
    BY <1>1
  <2>2. ~(/\ L + 1 \in 1 .. body.n /\ body.kind[L + 1] \in {"message", "huge"}
          /\ end.at \in body.start[L + 1] + 1 .. body.start[L + 1] + body.head[L + 1]
          /\ end.at < body.start[(L + 1) + 1]) \/ end.how # "close"
    BY DEF LostQuietly
  <2> QED
    BY <1>1, <2>1, <2>2, EOFIsAnEnd
<1>3. CASE end.at = body.start[L + 1]
  <2>1. end.at \in Boundaries(body)
    BY <1>1, <1>3 DEF Boundaries
  <2>2. L = Cardinality(ArriveWhole(body, end)) /\ Flawless(body, end)
    BY <1>1, <1>2, <1>3, DrainedIsComplete
  <2> QED
    BY <2>1, <2>2 DEF Complete, CutInside, L
<1>4. CASE /\ L + 1 \in 1 .. body.n /\ end.at = body.start[L + 2]
           /\ body.kind[L + 1] = "EOF"
  <2>1. ~(L + 1 <= Messages(body))
    BY <1>1, <1>4, BodyFacts
  <2>2. L + 1 = body.n
    BY <1>1, <1>4, <2>1, BodyFacts
  <2>3. L + 2 = body.n + 1 /\ L + 2 \in 1 .. body.n + 1
    BY <1>1, <2>2
  <2>4. end.at \in Boundaries(body) /\ end.at = BodyLength(body)
    BY <1>4, <2>3 DEF Boundaries, BodyLength
  <2>5. L = Cardinality(ArriveWhole(body, end)) /\ Flawless(body, end)
    BY <1>1, <1>2, <1>4, <2>2, <2>4, DrainedIsComplete
  <2> QED
    BY <2>4, <2>5 DEF Complete, CutInside, L
<1> QED
  BY <1>2, <1>3, <1>4

ArrivalInv == IInv /\ HandsOverWhatArrived /\ ClosesAtTheEnd

LEMMA ArrivalInit == Init => ArrivalInv
<1> SUFFICES ASSUME Init
             PROVE  ArrivalInv
  OBVIOUS
<1>1. IInv
  BY IInvInit
<1>2. IsBody(body) /\ body.n \in Nat /\ end \in Ends(body) /\ Len(received) = 0
  BY <1>1, BodyFacts DEF IInv, TypeOK, Init
<1>3. /\ Messages(body) \in Nat /\ body.start[1] = 0 /\ end.at \in Nat
      /\ goroutine = "none"
  BY <1>2, BodyFacts DEF Init, Ends
<1> QED
  BY <1>1, <1>2, <1>3 DEF ArrivalInv, HandsOverWhatArrived, ClosesAtTheEnd, Offering

\* What a message on offer or being decoded says of the body.
LEMMA ArrivedNext ==
    ASSUME IInv, Len(received) + 1 \in ArriveWhole(body, end)
    PROVE  /\ Len(received) + 1 <= Messages(body)
           /\ body.start[Len(received) + 2] <= end.at
           /\ Len(received) + 1 <= Cardinality(ArriveWhole(body, end))
<1>1. IsBody(body) /\ end \in Ends(body) /\ Len(received) \in Nat
  BY DEF IInv, TypeOK
<1>2. (Len(received) + 1) + 1 = Len(received) + 2
  BY <1>1
<1>3. Len(received) + 1 <= Cardinality(ArriveWhole(body, end))
  BY <1>1, ArriveWholeFacts
<1>4. /\ Len(received) + 1 \in 1 .. Messages(body)
      /\ body.start[(Len(received) + 1) + 1] <= end.at
  BY DEF ArriveWhole
<1>5. Messages(body) \in Nat
  BY <1>1, BodyFacts
<1> QED
  BY <1>1, <1>2, <1>3, <1>4, <1>5

LEMMA ArrivalStep == ArrivalInv /\ [Next]_vars => ArrivalInv'
<1> SUFFICES ASSUME ArrivalInv, [Next]_vars
             PROVE  HandsOverWhatArrived' /\ ClosesAtTheEnd'
  BY IInvStep DEF ArrivalInv
<1>1. IInv /\ HandsOverWhatArrived /\ ClosesAtTheEnd
  BY DEF ArrivalInv
<1>2. /\ IsBody(body) /\ end \in Ends(body) /\ body.n \in Nat /\ Len(received) \in Nat
      /\ frame \in 1 .. body.n + 1
      /\ frame = Len(received) + (IF Offering THEN 2 ELSE 1)
  BY <1>1, BodyFacts DEF IInv, TypeOK, FrameIsNext
\* The steps that leave both sides where they are with respect to the arrivals.
<1>3. CASE \/ Echo \/ RequestFails \/ StatusFails \/ StartReading \/ Look
           \/ ReadFails \/ DecodeFails \/ ReceiveError \/ Finished \/ UNCHANGED vars
  <2>1. /\ UNCHANGED <<body, end, received>>
        /\ goroutine' = "decoding" => goroutine = "decoding"
        /\ Offering' => Offering
    BY <1>3
    DEF Echo, RequestFails, StatusFails, StartReading, Look, ReadFails, DecodeFails,
        SendError, ReceiveError, CloseAll, Finished, vars, Offering
  <2>2. HandsOverWhatArrived'
    BY <1>1, <2>1 DEF HandsOverWhatArrived
  <2>3. /\ goroutine' = "returned" /\ caller' # "failed"
           => goroutine = "returned" /\ caller # "failed"
    BY <1>1, <1>3
    DEF Echo, RequestFails, StatusFails, StartReading, Look, ReadFails, DecodeFails,
        SendError, ReceiveError, CloseAll, Finished, vars
  <2>4. ClosesAtTheEnd'
    BY <1>1, <2>1, <2>3 DEF ClosesAtTheEnd, LostQuietly, Complete
  <2> QED
    BY <2>2, <2>4
<1>4. CASE ReadMessage
  <2>1. ~Offering /\ frame = Len(received) + 1
    BY <1>2, <1>4 DEF ReadMessage, Offering
  <2>2. Len(received) + 1 \in ArriveWhole(body, end)
    BY <1>2, <1>4, <2>1, MessageHasArrived DEF ReadMessage
  <2> QED
    BY <1>1, <1>4, <2>2 DEF ReadMessage, HandsOverWhatArrived, ClosesAtTheEnd
<1>5. CASE ReadEOF
  <2>1. ~LostQuietly => Complete
    BY <1>1, <1>5, EOFCompletes
  <2>2. UNCHANGED <<body, end, received>> /\ goroutine' = "returned"
    BY <1>5 DEF ReadEOF, CloseAll
  <2> QED
    BY <1>1, <2>1, <2>2
    DEF HandsOverWhatArrived, ClosesAtTheEnd, LostQuietly, Complete, Offering
<1>6. CASE Decode
  BY <1>1, <1>6 DEF Decode, HandsOverWhatArrived, ClosesAtTheEnd
<1>7. CASE Receive
  <2>1. Offering /\ goroutine' = "reading" /\ ~Offering' /\ UNCHANGED <<body, end>>
    BY <1>7 DEF Receive, Offering
  <2>2. Len(received') = Len(received) + 1
    BY <1>1, <1>7 DEF Receive, IInv, TypeOK
  <2>3. /\ Len(received) + 1 <= Messages(body)
        /\ body.start[Len(received) + 2] <= end.at
    BY <1>1, <2>1, ArrivedNext DEF HandsOverWhatArrived
  <2>4. Len(received') + 1 = Len(received) + 2
    BY <1>2, <2>2
  <2> QED
    BY <2>1, <2>2, <2>3, <2>4 DEF HandsOverWhatArrived, ClosesAtTheEnd
<1>8. CASE LeaveRange
  BY <1>1, <1>8
  DEF LeaveRange, HandsOverWhatArrived, ClosesAtTheEnd, Offering, LostQuietly, Complete
<1> QED
  BY <1>3, <1>4, <1>5, <1>6, <1>7, <1>8 DEF Next, Goroutine, Caller

\* A step of the call is a step of StreamDelivery, or one that it does not see.
LEMMA PromiseStep ==
    ArrivalInv /\ [Next]_vars => [Promise!Next]_(Promise!vars)
<1> SUFFICES ASSUME ArrivalInv, [Next]_vars
             PROVE  [Promise!Next]_(Promise!vars)
  OBVIOUS
<1> DEFINE Arriving == Cardinality(ArriveWhole(body, end))
<1>1. IInv /\ HandsOverWhatArrived /\ ClosesAtTheEnd
  BY DEF ArrivalInv
<1>2. UNCHANGED <<body, end>>
  BY DEF Next, Goroutine, Caller, Finished, vars, Echo, RequestFails, StatusFails,
         StartReading, Look, LeaveRange, ReadMessage, ReadEOF, ReadFails, Decode,
         DecodeFails, SendError, Receive, ReceiveError, CloseAll
<1>3. /\ UNCHANGED Cardinality(ArriveWhole(body, end))
      /\ UNCHANGED (Flawless(body, end) /\ ~CutInside(body, end))
      /\ UNCHANGED LostQuietly
  BY <1>2 DEF LostQuietly
<1>4. CASE LostQuietly
  <2>1. UNCHANGED <<Handed, Verdict>>
    BY <1>3, <1>4 DEF Handed, Verdict
  <2> QED
    BY <1>3, <2>1 DEF Promise!vars
<1>5. CASE ~LostQuietly
  <2>0. /\ Handed = received /\ Handed' = received'
        /\ Verdict = (IF ~Ended THEN "pending"
                      ELSE IF caller = "done" THEN "success" ELSE "failure")
        /\ Verdict' = (IF ~Ended' THEN "pending"
                       ELSE IF caller' = "done" THEN "success" ELSE "failure")
    BY <1>3, <1>5 DEF Handed, Verdict
  <2>1. CASE Receive
    <3>1. /\ Offering /\ ~Ended /\ ~Ended'
          /\ received' = Append(received, Len(received) + 1)
      BY <1>1, <2>1 DEF Receive, Offering, Ended, IInv, FrameIsNext, TypeOK
    <3>2. Len(received) + 1 <= Cardinality(ArriveWhole(body, end))
      BY <1>1, <3>1, ArrivedNext DEF HandsOverWhatArrived
    <3>3. Len(received) \in Nat /\ Cardinality(ArriveWhole(body, end)) \in Nat
      BY <1>1, ArriveWholeFacts DEF IInv, TypeOK
    <3>4. Len(received) < Cardinality(ArriveWhole(body, end))
      BY <3>2, <3>3
    <3> QED
      BY <1>3, <2>0, <3>1, <3>4 DEF Promise!Next, Promise!Deliver
  <2>2. CASE LeaveRange
    <3>1. Complete /\ ~Ended /\ Ended' /\ caller' = "done" /\ UNCHANGED received
      BY <1>1, <1>5, <2>2 DEF LeaveRange, ClosesAtTheEnd, Ended
    <3> QED
      BY <1>3, <2>0, <3>1 DEF Complete, Promise!Next, Promise!Succeed
  <2>3. CASE (Echo /\ caller' = "failed") \/ RequestFails \/ StatusFails \/ ReceiveError
    <3>1. ~Ended /\ Ended' /\ caller' = "failed" /\ UNCHANGED received
      BY <2>3 DEF Echo, RequestFails, StatusFails, ReceiveError, Ended
    <3> QED
      BY <1>3, <2>0, <3>1 DEF Promise!Next, Promise!Fail
  <2>4. CASE (Echo /\ caller' # "failed") \/ StartReading \/ Look
    <3>1. ~Ended /\ ~Ended' /\ UNCHANGED received
      BY <2>4 DEF Echo, StartReading, Look, Ended
    <3> QED
      BY <1>3, <2>0, <3>1 DEF Promise!vars
  <2>5. CASE Goroutine \/ Finished \/ UNCHANGED vars
    <3>1. UNCHANGED <<caller, received>>
      BY <2>5 DEF Goroutine, ReadMessage, ReadEOF, ReadFails, Decode, DecodeFails,
                  SendError, CloseAll, Finished, vars
    <3> QED
      BY <1>3, <2>0, <3>1 DEF Promise!vars, Ended
  <2> QED
    BY <2>1, <2>2, <2>3, <2>4, <2>5 DEF Next, Caller
<1> QED
  BY <1>4, <1>5

\* Repeat, its goroutine and protoStreamReader.Read implement StreamDelivery: the
\* messages come in order, none twice and none left out, and the range loop ends
\* without an error only after the last message that arrived, of a body that was
\* neither cut nor reported an error - unless the cut is one that Read cannot tell
\* from the end of the stream.
THEOREM KeepsThePromise == Spec => KeepsPromise
<1>1. Init => Promise!Init
  <2> SUFFICES ASSUME Init
               PROVE  Promise!Init
    OBVIOUS
  <2>1. IsBody(body) /\ end \in Ends(body)
    BY IInvInit DEF IInv, TypeOK
  <2>2. Cardinality(ArriveWhole(body, end)) \in Nat
    BY <2>1, ArriveWholeFacts
  <2>3. Handed = <<>> /\ Verdict = "pending"
    BY DEF Init, Handed, Verdict, Ended
  <2>4. (Flawless(body, end) /\ ~CutInside(body, end)) \in BOOLEAN
    OBVIOUS
  <2> QED
    BY <2>2, <2>3, <2>4 DEF Promise!Init
<1> QED
  BY <1>1, ArrivalInit, ArrivalStep, PromiseStep, PTL DEF Spec, KeepsPromise, Promise!Spec
=============================================================================
