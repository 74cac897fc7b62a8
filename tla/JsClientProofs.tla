--------------------------- MODULE JsClientProofs ---------------------------
(***************************************************************************)
(* Proofs about the observable transports of the JavaScript client, for    *)
(* every set of bodies, every way the network cuts a body into chunks and  *)
(* every way the body ends, and about the registry of transports.  The     *)
(* lemmas on the pipeline come first; RxStream and AjaxTransport share     *)
(* them.                                                                   *)
(***************************************************************************)
EXTENDS ObservableTransports, TwirpClient, TwirpStreamProofs

\* The variables no step changes are always needed one by one.
USE DEF response, splitter

----------------------------------------------------------------------------
(***************************************************************************)
(* The pipeline                                                            *)
(***************************************************************************)
LEMMA PipelineFacts ==
    ASSUME PipelineTypeOK
    PROVE  /\ IsBody(body) /\ body.n \in Nat /\ end \in Ends(body)
           /\ BodyLength(body) \in Nat /\ end.at \in Nat /\ end.at <= BodyLength(body)
           /\ got \in Nat /\ got <= end.at
           /\ leftover \in View /\ view \in View /\ pos \in Nat
           /\ Len(delivered) \in Nat
<1>1. BodyLength(body) \in Nat /\ body.n \in Nat
  BY BodyFacts DEF PipelineTypeOK
<1> QED
  BY <1>1 DEF PipelineTypeOK, Ends

LEMMA PipelineStarts ==
    ASSUME PipelineInit
    PROVE  PipelineInv /\ delivered = <<>> /\ Open
<1>1. IsBody(body) /\ body.n \in Nat /\ BodyLength(body) \in Nat
  BY BodiesAssumption, BodyFacts DEF PipelineInit
<1>2. end \in Ends(body) /\ end.at \in Nat /\ 0 \in 0 .. end.at
  BY <1>1 DEF PipelineInit, Ends
<1>3. delivered \in Seq(0 .. IF streaming THEN body.n ELSE 1)
  BY DEF PipelineInit
<1>4. PipelineTypeOK
  BY <1>1, <1>2, <1>3, ViewFacts DEF PipelineInit, PipelineTypeOK
<1>5. Len(delivered) = 0 /\ delivered = [i \in 1 .. Len(delivered) |-> i]
  BY DEF PipelineInit
<1>6. body.start[1] = 0 /\ 0 <= Messages(body)
  BY <1>1, BodyFacts
<1>7. Progress
  BY <1>5, <1>6 DEF PipelineInit, Progress, BetweenChunks, Drained, Empty
<1> QED
  BY <1>4, <1>7 DEF PipelineInit, PipelineInv, Open

LEMMA ChunkIsView ==
    \A from, to \in Nat : from <= to => Chunk(from, to) \in View
  BY DEF Chunk, View

LEMMA SplitTypes ==
    ASSUME PipelineTypeOK, NEW bytes \in View, Split(bytes),
           UNCHANGED response, got' \in 0 .. end.at
    PROVE  PipelineTypeOK'
<1>1. view' \in View
  BY ViewFacts DEF Split, PipelineTypeOK
<1>2. pos' \in Nat
  BY <1>1 DEF Split, ReaderStart, View
<1> QED
  BY <1>1, <1>2, ViewFacts DEF Split, PipelineTypeOK

\* What a turn of the for loop may do to the observer, whatever the bytes are.
LEMMA TurnOutcome ==
    ASSUME PipelineTypeOK, streaming, NEW turn \in TurnSet(body), Turn(turn),
           UNCHANGED <<response, got>>
    PROVE  /\ PipelineTypeOK'
           /\ outcome' \in {outcome, "pending", "unsubscribed", "decode"} \cup Thrown
           /\ ~Open => UNCHANGED <<delivered, outcome>>
<1>1. turn.frame \in 0 .. body.n /\ turn.next \in Nat /\ turn.rest \in View
  BY DEF TurnSet
<1>2. CASE Open /\ turn.result = "yield" /\ Emit(turn.frame, turn.next)
  <2>1. delivered' \in {delivered, Append(delivered, turn.frame)}
    BY <1>2 DEF Emit, Decode
  <2>2. delivered' \in Seq(0 .. body.n)
    <3>1. delivered \in Seq(0 .. body.n)
      BY DEF PipelineTypeOK
    <3>2. Append(delivered, turn.frame) \in Seq(0 .. body.n)
      BY <1>1, <3>1
    <3> QED
      BY <2>1, <3>1, <3>2
  <2>3. outcome' \in {"pending", "unsubscribed", "decode"}
    BY <1>2 DEF Emit, Decode
  <2>4. PipelineTypeOK'
    BY <1>1, <1>2, <2>2 DEF Emit, PipelineTypeOK
  <2> QED
    BY <1>2, <2>3, <2>4
<1>3. CASE /\ \E rest \in {Empty, turn.rest} : LeaveLoop(rest)
           /\ outcome' = outcome \/ (Open /\ turn.result \in Thrown /\ Tell(turn.result))
  BY <1>1, <1>3, ViewFacts DEF LeaveLoop, PipelineTypeOK, Tell
<1> QED
  BY <1>2, <1>3 DEF Turn

LEMMA ExtractOutcome ==
    ASSUME PipelineTypeOK, streaming, Extract, UNCHANGED <<response, got>>
    PROVE  /\ PipelineTypeOK'
           /\ outcome' \in {outcome, "pending", "unsubscribed", "decode"} \cup Thrown
           /\ ~Open => UNCHANGED <<delivered, outcome>>
<1>1. PICK turn \in Turns(body, view, pos) : Turn(turn)
  BY DEF Extract
<1>2. turn \in TurnSet(body)
  BY TurnType, PipelineFacts
<1> QED
  BY <1>1, <1>2, TurnOutcome

\* The bytes of the next chunk follow the leftover ones.
LEMMA ChunkProgress ==
    ASSUME PipelineTypeOK, Progress, Open, ~looping,
           NEW to \in got + 1 .. end.at, got' = to, Split(Chunk(got, to)),
           UNCHANGED response
    PROVE  Progress'
<1> DEFINE L == Len(delivered)
<1>1. /\ IsBody(body) /\ body.n \in Nat /\ got \in Nat /\ to \in Nat /\ got < to
      /\ to <= BodyLength(body) /\ BodyLength(body) \in Nat /\ L \in Nat
      /\ leftover \in View
  BY PipelineFacts
<1>2. BetweenChunks /\ L <= Messages(body) /\ delivered = [i \in 1 .. L |-> i]
  BY DEF Progress
<1> HIDE DEF L
<1>3. L < body.n /\ L + 1 \in 1 .. body.n + 1 /\ body.start[L + 1] \in Nat
  <2>1. L <= body.n
    BY <1>1, <1>2, BodyFacts
  <2>2. CASE leftover.len = 0
    <3>1. got = body.start[L + 1]
      BY <1>1, <1>2, <2>2, BodyFacts DEF BetweenChunks, Drained, L
    <3> QED
      BY <1>1, <2>1, <3>1, BodyFacts
  <2>3. CASE leftover.len # 0
    BY <1>1, <1>2, <2>3, BodyFacts DEF BetweenChunks, L
  <2> QED
    BY <2>2, <2>3
<1>4. /\ leftover' = Empty /\ looping' = (view'.len # 0)
      /\ UNCHANGED <<delivered, outcome, body>>
      /\ view' = concatByteArrays(leftover, Chunk(got, to))
      /\ pos' = view'.off
  BY DEF Split, ReaderStart
<1>5. /\ view'.off = 0 /\ 0 < view'.len /\ view'.len \in Nat
      /\ view'.base = body.start[L + 1]
      /\ view'.base + view'.len = to
  <2>1. CASE leftover.len = 0
    <3>1. view' = Chunk(got, to)
      BY <1>1, <1>4, <2>1, ConcatAdjacent
    <3>2. got = body.start[L + 1]
      BY <1>1, <1>2, <1>3, <2>1, BodyFacts DEF BetweenChunks, Drained, L
    <3> QED
      BY <1>1, <3>1, <3>2 DEF Chunk
  <2>2. CASE leftover.len # 0
    <3>1. view' = [base |-> First(leftover), off |-> 0, len |-> leftover.len + (to - got)]
      BY <1>1, <1>4, <2>2, ConcatAdjacent
    <3>2. /\ First(leftover) = body.start[L + 1]
          /\ First(leftover) + leftover.len = got
          /\ leftover.len \in Nat
      BY <1>1, <1>2, <2>2 DEF BetweenChunks, View, L
    <3> QED
      BY <1>1, <1>3, <3>1, <3>2
  <2> QED
    BY <2>1, <2>2
<1>6. InTheLoop'
  <2>1. pos' = 0 /\ view'.base + pos' = body.start[L + 1]
    BY <1>3, <1>4, <1>5
  <2> QED
    BY <1>1, <1>3, <1>4, <1>5, <2>1 DEF InTheLoop, L
<1>7. looping'
  <2>1. view'.len # 0
    BY <1>5
  <2> QED
    BY <1>4, <2>1, Zenon
<1>8. Len(delivered') <= Messages(body') /\ delivered' = [i \in 1 .. Len(delivered') |-> i]
  BY <1>2, <1>4 DEF L
<1> QED
  BY <1>6, <1>7, <1>8 DEF Progress

\* At the end of the body the reader's undefined, or an empty last chunk, finds
\* nothing left over if no frame is cut, and brings nothing.
LEMMA NothingLeftOver ==
    ASSUME PipelineTypeOK, streaming, ~Truncated, Progress, Open, ~looping,
           got = end.at, end.how = "close"
    PROVE  leftover.len = 0 /\ Drained
<1> DEFINE L == Len(delivered)
<1>1. /\ IsBody(body) /\ got \in Nat /\ L \in Nat /\ leftover \in View /\ end.at \in Nat
      /\ BetweenChunks
  BY PipelineFacts DEF Progress
<1>2. CASE leftover.len # 0
  <2>1. /\ L < body.n /\ First(leftover) = body.start[L + 1]
        /\ First(leftover) + leftover.len = end.at /\ end.at < body.start[L + 2]
    BY <1>1, <1>2 DEF BetweenChunks
  <2> HIDE DEF L
  <2>2. L + 1 \in 1 .. body.n /\ L + 1 + 1 = L + 2
    BY <1>1, <2>1, BodyFacts
  <2>3. body.start[L + 1] < end.at
    BY <1>1, <1>2, <2>1 DEF View, First
  <2>4. end.at \notin Boundaries(body)
    BY <1>1, <2>1, <2>2, <2>3, InsideAFrame
  <2> QED
    BY <2>4 DEF Truncated, CutInside
<1>3. CASE leftover.len = 0
  BY <1>1, <1>3 DEF BetweenChunks
<1> QED
  BY <1>2, <1>3

LEMMA EmptyChunkProgress ==
    ASSUME PipelineTypeOK, streaming, ~Truncated, Progress, Open, ~looping,
           got = end.at, end.how = "close",
           NEW bytes, bytes.len = 0, Split(bytes), UNCHANGED <<response, got>>
    PROVE  Progress'
<1>1. leftover.len = 0 /\ Drained
  BY NothingLeftOver
<1>2. view' = bytes
  BY <1>1 DEF Split, concatByteArrays
<1>3. ~looping'
  BY <1>2, Zenon DEF Split
<1>4. leftover' = Empty /\ UNCHANGED <<delivered, outcome, body, got>>
  BY DEF Split
<1>5. Drained' /\ leftover'.len = 0
  BY <1>1, <1>4 DEF Drained, Empty
<1>6. BetweenChunks'
  BY <1>5 DEF BetweenChunks
<1> QED
  BY <1>3, <1>4, <1>6 DEF Progress

\* A turn of the loop hands over the next message, which has arrived whole, or
\* puts the rest of the chunk aside, or ends the subscription.
TurnEffect ==
    \/ /\ delivered' = Append(delivered, Len(delivered) + 1)
       /\ Len(delivered) + 1 \in ArriveWhole(body, end)
       /\ outcome' \in {"pending", "unsubscribed"}
    \/ delivered' = delivered /\ outcome' \in {"pending", "decode"} \cup Thrown

LEMMA ExtractProgress ==
    ASSUME PipelineTypeOK, streaming, Progress, Open, Extract, UNCHANGED <<response, got>>
    PROVE  Progress' /\ TurnEffect
<1> DEFINE L == Len(delivered)
           next == pos + body.start[L + 2] - body.start[L + 1]
<1>1. /\ IsBody(body) /\ body.n \in Nat /\ L \in Nat /\ got \in Nat /\ pos \in Nat
      /\ end.at \in Nat /\ got <= end.at /\ got <= BodyLength(body)
      /\ BodyLength(body) \in Nat /\ view \in View
      /\ view.base \in Nat /\ view.off \in Nat /\ view.len \in Nat
  BY PipelineFacts DEF View
<1>2. InTheLoop /\ L <= Messages(body) /\ delivered = [i \in 1 .. L |-> i]
  BY DEF Progress, Extract
<1>3. /\ L < body.n /\ leftover = Empty /\ view.off = 0 /\ pos < view.len
      /\ view.base + pos = body.start[L + 1]
      /\ view.base + view.len = got
  BY <1>2 DEF InTheLoop
<1> HIDE DEF L
<1>4. /\ L + 1 \in 1 .. body.n /\ L + 1 + 1 = L + 2
      /\ body.start[L + 1] \in Nat /\ body.start[L + 2] \in Nat
      /\ body.start[L + 1] + 2 <= body.start[L + 2]
  <2>1. L + 1 \in 1 .. body.n /\ L + 1 \in 1 .. body.n + 1 /\ L + 2 \in 1 .. body.n + 1
    BY <1>1, <1>3
  <2> QED
    BY <1>1, <2>1, BodyFacts
<1>0. next = pos + body.start[L + 2] - body.start[L + 1]
  OBVIOUS
<1> HIDE DEF next
<1>5. PICK turn : turn = TurnAtFrame(body, L + 1, view, pos) /\ Turn(turn)
  <2>1. body.start[L + 1] = First(view) + pos
    BY <1>1, <1>3 DEF First
  <2> QED
    BY <1>1, <1>3, <1>4, <2>1, AlignedTurn DEF Extract
<1>6. /\ turn.result = "yield" =>
            /\ turn.frame = L + 1 /\ turn.next = next /\ next <= view.len
            /\ body.kind[L + 1] = "message"
      /\ turn.result = "incomplete" =>
            /\ view.len < next
            /\ First(turn.rest) = view.base + pos
            /\ turn.rest.len = view.len - pos
      /\ turn.result = "return" => body.kind[L + 1] = "EOF" /\ next <= view.len
  BY <1>0, <1>1, <1>3, <1>4, <1>5, TurnCases
<1>7. UNCHANGED <<body, end, streaming, got>>
  OBVIOUS
<1>8. CASE turn.result = "yield" /\ Emit(turn.frame, turn.next)
  <2>1. L + 1 \in 1 .. Messages(body)
    BY <1>1, <1>4, <1>6, <1>8, BodyFacts
  <2>2. next \in Nat /\ view.base + next = body.start[L + 2] /\ body.start[L + 2] <= got
    BY <1>0, <1>1, <1>3, <1>4, <1>6, <1>8
  <2>3. L + 1 \in ArriveWhole(body, end)
    BY <1>1, <1>4, <2>1, <2>2 DEF ArriveWhole
  <2>4. /\ pos' = next /\ looping' = (next < view.len)
        /\ UNCHANGED <<leftover, view>>
    BY <1>6, <1>8 DEF Emit
  <2>5. CASE outcome' = "decode" /\ UNCHANGED delivered
    BY <1>2, <1>7, <2>5 DEF Progress, Open, TurnEffect, L
  <2>6. CASE delivered' = Append(delivered, L + 1) /\ outcome' \in {"pending", "unsubscribed"}
    <3>1. /\ delivered' = [i \in 1 .. Len(delivered') |-> i] /\ Len(delivered') = L + 1
          /\ Len(delivered') + 1 = L + 2
      BY <1>1, <1>2, <2>6 DEF L
    <3>2. Len(delivered') <= Messages(body)
      BY <1>1, <2>1, <3>1
    <3>3. CASE next < view.len
      <4>1. body.start[L + 2] < got
        BY <1>1, <1>3, <1>4, <2>2, <3>3
      <4>2. L + 1 # body.n
        BY <1>1, <1>4, <4>1, BodyFacts DEF BodyLength
      <4>3. L + 1 < body.n
        BY <1>1, <1>4, <4>2
      <4>4. InTheLoop'
        BY <1>1, <1>3, <1>7, <2>2, <2>4, <3>1, <3>3, <4>3 DEF InTheLoop
      <4>5. looping'
        BY <2>4, <3>3, Zenon
      <4> QED
        BY <1>7, <2>3, <2>6, <3>1, <3>2, <4>4, <4>5 DEF Progress, TurnEffect, L
    <3>4. CASE ~(next < view.len)
      <4>1. got = body.start[L + 2]
        BY <1>0, <1>1, <1>3, <1>4, <1>6, <1>8, <2>2, <3>4
      <4>2. leftover'.len = 0 /\ Drained'
        BY <1>3, <1>7, <2>4, <3>1, <4>1 DEF Drained, Empty
      <4>3. BetweenChunks'
        BY <4>2 DEF BetweenChunks
      <4>4. ~looping'
        BY <2>4, <3>4, Zenon
      <4> QED
        BY <1>7, <2>3, <2>6, <3>1, <3>2, <4>3, <4>4 DEF Progress, TurnEffect, L
    <3> QED
      BY <3>3, <3>4
  <2> QED
    BY <1>6, <1>8, <2>5, <2>6 DEF Emit, Decode
<1>9. CASE turn.result = "incomplete" /\ LeaveLoop(turn.rest) /\ UNCHANGED outcome
  <2>1. leftover' = turn.rest /\ ~looping' /\ UNCHANGED <<delivered, outcome>>
    BY <1>9 DEF LeaveLoop
  <2>2. /\ leftover'.len # 0
        /\ First(leftover') = body.start[L + 1]
        /\ First(leftover') + leftover'.len = got
        /\ got < body.start[L + 2]
    BY <1>0, <1>1, <1>3, <1>4, <1>6, <1>9, <2>1
  <2>3. BetweenChunks'
    BY <1>3, <1>7, <2>1, <2>2 DEF BetweenChunks, First, L
  <2> QED
    BY <1>2, <1>7, <2>1, <2>3 DEF Progress, TurnEffect, Open, L
<1>10. CASE turn.result = "return" /\ LeaveLoop(Empty) /\ UNCHANGED outcome
  <2>1. L + 1 = body.n
    <3>1. \A i \in 1 .. body.n : i < body.n => body.kind[i] = "message"
      BY <1>1 DEF IsBody
    <3> QED
      BY <1>1, <1>4, <1>6, <1>10, <3>1
  <2>2. got = BodyLength(body)
    <3>1. L + 2 = body.n + 1
      BY <1>1, <1>4, <2>1
    <3>2. BodyLength(body) = body.start[L + 2]
      BY <3>1 DEF BodyLength
    <3>3. next <= view.len
      BY <1>6, <1>10
    <3> QED
      BY <1>0, <1>1, <1>3, <1>4, <3>2, <3>3
  <2>3. leftover' = Empty /\ ~looping' /\ UNCHANGED <<delivered, outcome>>
    BY <1>10 DEF LeaveLoop
  <2>4. Drained' /\ leftover'.len = 0
    BY <1>6, <1>7, <1>10, <2>1, <2>2, <2>3 DEF Drained, Empty, L
  <2>5. BetweenChunks'
    BY <2>4 DEF BetweenChunks
  <2> QED
    BY <1>2, <1>7, <2>3, <2>5 DEF Progress, TurnEffect, Open, L
<1>11. CASE turn.result \in Thrown /\ LeaveLoop(Empty) /\ Tell(turn.result)
  <2>1. outcome' \in Thrown /\ UNCHANGED delivered
    BY <1>11 DEF LeaveLoop, Tell
  <2>2. ~Open'
    BY <2>1 DEF Thrown, Open
  <2> QED
    BY <1>2, <1>7, <2>1, <2>2 DEF Progress, TurnEffect, L
<1> QED
  BY <1>5, <1>8, <1>9, <1>10, <1>11 DEF Turn

\* Where nothing more comes to the observer, nothing is claimed but the order.
LEMMA ClosedProgress ==
    ASSUME Progress, ~Open', UNCHANGED <<body, delivered>>
    PROVE  Progress'
  BY DEF Progress

----------------------------------------------------------------------------
(***************************************************************************)
(* The steps of the pipeline: each keeps PipelineInv, and is a step of     *)
(* StreamDelivery or one that it does not see.                             *)
(***************************************************************************)
PromiseStep == [Promise!Next]_(Promise!vars)

LEMMA ArrivingIsNat ==
    ASSUME PipelineTypeOK
    PROVE  Arriving \in Nat
<1>1. Cardinality(ArriveWhole(body, end)) \in Nat
  BY PipelineFacts, ArriveWholeFacts
<1> QED
  BY <1>1 DEF Arriving

\* The outcome that the caller sees does not change.
LEMMA Unseen ==
    ASSUME UNCHANGED response,
           \/ Truncated
           \/ delivered' = delivered /\ (outcome' = outcome \/ (Open /\ outcome' = "unsubscribed"))
    PROVE  PromiseStep
<1>1. UNCHANGED <<streaming, body, end>>
  OBVIOUS
<1>2. /\ UNCHANGED Arriving /\ UNCHANGED Truncated
      /\ UNCHANGED (IF streaming THEN Flawless(body, end) ELSE end.how = "close")
  BY <1>1 DEF Arriving, Truncated
<1>3. UNCHANGED Handed /\ UNCHANGED Verdict
  BY <1>2 DEF Handed, Verdict, Open
<1> QED
  BY <1>2, <1>3 DEF PromiseStep, Promise!vars

\* The rest of an open call that is not truncated.
LEMMA Seen ==
    ASSUME UNCHANGED response, ~Truncated, Open,
           \/ /\ delivered' = Append(delivered, Len(delivered) + 1)
              /\ Len(delivered) < Arriving
              /\ outcome' \in {"pending", "unsubscribed"}
           \/ /\ delivered' = delivered /\ outcome' = "completed"
              /\ Len(delivered) = Arriving
              /\ IF streaming THEN Flawless(body, end) ELSE end.how = "close"
           \/ /\ delivered' = delivered
              /\ outcome' \notin {"pending", "unsubscribed", "completed"}
    PROVE  PromiseStep
<1>1. UNCHANGED <<streaming, body, end>>
  OBVIOUS
<1>2. /\ UNCHANGED Arriving /\ UNCHANGED Truncated
      /\ UNCHANGED (IF streaming THEN Flawless(body, end) ELSE end.how = "close")
  BY <1>1 DEF Arriving, Truncated
<1>3. /\ Handed = delivered /\ Handed' = delivered' /\ Verdict = "pending"
      /\ Verdict' = IF outcome' \in {"pending", "unsubscribed"} THEN "pending"
                    ELSE IF outcome' = "completed" THEN "success" ELSE "failure"
  BY <1>2 DEF Handed, Verdict, Open
<1>4. CASE /\ delivered' = Append(delivered, Len(delivered) + 1)
           /\ Len(delivered) < Arriving
           /\ outcome' \in {"pending", "unsubscribed"}
  BY <1>2, <1>3, <1>4 DEF PromiseStep, Promise!Next, Promise!Deliver
<1>5. CASE /\ delivered' = delivered /\ outcome' = "completed"
           /\ Len(delivered) = Arriving
           /\ IF streaming THEN Flawless(body, end) ELSE end.how = "close"
  BY <1>2, <1>3, <1>5 DEF PromiseStep, Promise!Next, Promise!Succeed
<1>6. CASE /\ delivered' = delivered
           /\ outcome' \notin {"pending", "unsubscribed", "completed"}
  BY <1>2, <1>3, <1>6 DEF PromiseStep, Promise!Next, Promise!Fail
<1> QED
  BY <1>4, <1>5, <1>6

\* _next with the next chunk, or without bytes at the end of the body.
LEMMA SplitStep ==
    ASSUME PipelineInv, streaming, Open, ~looping, NEW bytes, Split(bytes), UNCHANGED response,
           \/ \E to \in got + 1 .. end.at : got' = to /\ bytes = Chunk(got, to)
           \/ /\ got' = got /\ got = end.at /\ end.how = "close"
              /\ bytes \in View /\ bytes.len = 0
    PROVE  PipelineInv' /\ PromiseStep
<1>1. PipelineTypeOK /\ got \in Nat /\ end.at \in Nat /\ got <= end.at
  BY PipelineFacts DEF PipelineInv
<1>2. bytes \in View /\ got' \in 0 .. end.at
  BY <1>1, ChunkIsView
<1>3. PipelineTypeOK'
  BY <1>1, <1>2, SplitTypes
<1>4. streaming' /\ (Truncated' <=> Truncated)
  BY DEF Truncated
<1>5. ASSUME ~Truncated
      PROVE  Progress'
  <2>1. Progress
    BY <1>5 DEF PipelineInv
  <2>2. CASE \E to \in got + 1 .. end.at : got' = to /\ bytes = Chunk(got, to)
    BY <1>1, <2>1, <2>2, ChunkProgress
  <2>3. CASE got' = got /\ got = end.at /\ end.how = "close" /\ bytes.len = 0
    BY <1>1, <1>5, <2>1, <2>3, EmptyChunkProgress
  <2> QED
    BY <2>2, <2>3
<1>6. PromiseStep
  BY Unseen DEF Split
<1> QED
  BY <1>3, <1>4, <1>5, <1>6 DEF PipelineInv

\* A turn of the for loop.
LEMMA ExtractStep ==
    ASSUME PipelineInv, Extract, UNCHANGED <<response, got>>
    PROVE  PipelineInv' /\ PromiseStep
<1>1. PipelineTypeOK /\ streaming
  BY DEF PipelineInv, Extract
<1>2. PipelineTypeOK' /\ (~Open => UNCHANGED <<delivered, outcome>>)
  BY <1>1, ExtractOutcome
<1>3. streaming' /\ UNCHANGED <<body, end>> /\ (Truncated' <=> Truncated)
  BY <1>1 DEF Truncated
<1>4. CASE Truncated
  BY <1>2, <1>3, <1>4, Unseen DEF PipelineInv
<1>5. CASE ~Truncated /\ ~Open
  <2>1. Progress'
    BY <1>1, <1>2, <1>3, <1>5, ClosedProgress DEF PipelineInv, Open
  <2> QED
    BY <1>2, <1>3, <1>5, <2>1, Unseen DEF PipelineInv
<1>6. CASE ~Truncated /\ Open
  <2>1. Progress
    BY <1>1, <1>6 DEF PipelineInv
  <2>2. Progress' /\ TurnEffect
    BY <1>1, <1>6, <2>1, ExtractProgress
  <2>3. PromiseStep
    <3>1. CASE /\ delivered' = Append(delivered, Len(delivered) + 1)
               /\ Len(delivered) + 1 \in ArriveWhole(body, end)
               /\ outcome' \in {"pending", "unsubscribed"}
      <4>1. Len(delivered) + 1 <= Cardinality(ArriveWhole(body, end))
            /\ Cardinality(ArriveWhole(body, end)) \in Nat /\ Len(delivered) \in Nat
        BY <1>1, <3>1, PipelineFacts, ArriveWholeFacts
      <4>2. Len(delivered) < Arriving
        BY <1>1, <4>1 DEF Arriving
      <4> QED
        BY <1>6, <3>1, <4>2, Seen
    <3>2. CASE delivered' = delivered /\ outcome' = "pending"
      BY <1>6, <3>2, Unseen DEF Open
    <3>3. CASE delivered' = delivered /\ outcome' \in {"decode"} \cup Thrown
      BY <1>6, <3>3, Seen DEF Thrown
    <3> QED
      BY <2>2, <3>1, <3>2, <3>3 DEF TurnEffect
  <2> QED
    BY <1>2, <1>3, <2>2, <2>3 DEF PipelineInv
<1> QED
  BY <1>4, <1>5, <1>6

\* The answer of a unary call.
LEMMA AnswerStep ==
    ASSUME PipelineInv, ~streaming, Open, delivered = <<>>, Answer,
           UNCHANGED response, got' \in 0 .. end.at
    PROVE  PipelineInv' /\ PromiseStep /\ (Open' => Len(delivered') = 1)
<1>1. UNCHANGED <<leftover, looping, view, pos, streaming, body, end>>
  BY DEF Answer
<1>2. delivered' \in {<<>>, <<1>>} /\ (Open' => delivered' = <<1>>)
  BY DEF Answer, Decode, Open
<1>3. delivered' \in Seq(0 .. 1)
  <2>1. <<>> \in Seq(0 .. 1)
    OBVIOUS
  <2>2. <<1>> \in Seq(0 .. 1)
    OBVIOUS
  <2> QED
    BY <1>2, <2>1, <2>2
<1>4. PipelineInv'
  BY <1>1, <1>3 DEF PipelineInv, PipelineTypeOK
<1>5. ~Truncated /\ Arriving = 1 /\ Len(delivered) = 0
  BY DEF Truncated, Arriving
<1>6. PromiseStep
  <2>1. CASE outcome' = "decode" /\ UNCHANGED delivered
    BY <1>5, <2>1, Seen
  <2>2. CASE delivered' = Append(delivered, 1) /\ outcome' \in {"pending", "unsubscribed"}
    BY <1>5, <2>2, Seen
  <2> QED
    BY <2>1, <2>2 DEF Answer, Decode
<1> QED
  BY <1>2, <1>4, <1>6

\* complete() behind all of the body.
LEMMA FinishStep ==
    ASSUME PipelineInv, ~looping, Finish, UNCHANGED response,
           Open => got = end.at /\ end.how = "close",
           ~streaming /\ Open => Len(delivered) = 1
    PROVE  PipelineInv' /\ PromiseStep
<1>1. UNCHANGED <<got, leftover, looping, view, pos, delivered, streaming, body, end>>
  BY DEF Finish
<1>2. PipelineTypeOK'
  BY <1>1 DEF PipelineInv, PipelineTypeOK
<1>3. outcome' = outcome \/ (Open /\ leftover.len = 0 /\ outcome' = "completed")
  BY DEF Finish, Tell
<1>4. (Truncated' <=> Truncated) /\ UNCHANGED <<Drained, InTheLoop, BetweenChunks>>
  BY <1>1 DEF Truncated, Drained, InTheLoop, BetweenChunks
<1>5. Progress => Progress'
  BY <1>1, <1>3, <1>4 DEF Progress, Open
<1>6. PipelineInv'
  BY <1>1, <1>2, <1>4, <1>5 DEF PipelineInv
<1>7. CASE outcome' = outcome
  BY <1>1, <1>6, <1>7, Unseen
<1>8. CASE Open /\ outcome' = "completed" /\ streaming
  <2>1. CASE Truncated
    BY <1>6, <2>1, Unseen
  <2>2. CASE ~Truncated
    <3>1. PipelineTypeOK /\ Progress
      BY <1>8, <2>2 DEF PipelineInv
    <3>2. Drained
      BY <1>8, <2>2, <3>1, NothingLeftOver
    <3>3. /\ IsBody(body) /\ end \in Ends(body) /\ Len(delivered) \in Nat
          /\ Len(delivered) <= Messages(body)
      BY <3>1, PipelineFacts DEF Progress
    <3>4. \/ end.at = body.start[Len(delivered) + 1]
          \/ /\ end.at = BodyLength(body) /\ Len(delivered) + 1 = body.n
             /\ body.kind[body.n] = "EOF"
      BY <1>8, <3>2 DEF Drained
    <3>5. Len(delivered) = Cardinality(ArriveWhole(body, end)) /\ Flawless(body, end)
      BY <1>8, <3>3, <3>4, DrainedIsComplete
    <3> QED
      BY <1>1, <1>6, <1>8, <2>2, <3>5, Seen DEF Arriving
  <2> QED
    BY <2>1, <2>2
<1>9. CASE Open /\ outcome' = "completed" /\ ~streaming
  BY <1>1, <1>6, <1>9, Seen DEF Arriving, Truncated
<1> QED
  BY <1>3, <1>7, <1>8, <1>9

\* The subscription ends in another way, or has ended before.
LEMMA EndStep ==
    ASSUME PipelineInv, UNCHANGED <<response, splitter, delivered>>,
           got' \in 0 .. end.at, ~Open',
           outcome' = outcome \/ (Open /\ outcome' # "completed")
    PROVE  PipelineInv' /\ PromiseStep
<1>1. UNCHANGED <<leftover, looping, view, pos, delivered, streaming, body, end>>
  OBVIOUS
<1>2. PipelineTypeOK' /\ (Truncated' <=> Truncated)
  BY <1>1 DEF PipelineInv, PipelineTypeOK, Truncated
<1>3. PipelineInv'
  BY <1>1, <1>2, ClosedProgress DEF PipelineInv
<1>4. PromiseStep
  <2>1. CASE outcome' = outcome \/ (Open /\ outcome' = "unsubscribed") \/ Truncated
    BY <1>1, <2>1, Unseen
  <2>2. CASE Open /\ outcome' \notin {"unsubscribed", "completed"} /\ ~Truncated
    BY <1>1, <2>2, Seen DEF Open
  <2> QED
    BY <2>1, <2>2
<1> QED
  BY <1>3, <1>4

\* The pipeline rests.
LEMMA RestStep ==
    ASSUME PipelineInv, UNCHANGED <<response, got, splitter, delivered, outcome>>
    PROVE  PipelineInv' /\ PromiseStep
<1>1. PipelineTypeOK' /\ (Truncated' <=> Truncated)
  BY DEF PipelineInv, PipelineTypeOK, Truncated
<1>2. Progress => Progress'
  BY DEF Progress, Open, InTheLoop, BetweenChunks, Drained
<1> QED
  BY <1>1, <1>2, Unseen DEF PipelineInv

LEMMA PromiseStarts ==
    ASSUME PipelineInit
    PROVE  Promise!Init
<1>1. Arriving \in Nat
  BY PipelineStarts, ArrivingIsNat DEF PipelineInv
<1>2. (IF streaming THEN Flawless(body, end) ELSE end.how = "close") \in BOOLEAN
  BY DEF Flawless
<1>3. Handed = <<>> /\ Verdict = "pending"
  BY DEF PipelineInit, Handed, Verdict
<1> QED
  BY <1>1, <1>2, <1>3 DEF Promise!Init

----------------------------------------------------------------------------
(***************************************************************************)
(* RxStream                                                                *)
(***************************************************************************)
LEMMA RxInit == Init => IInv
<1> SUFFICES ASSUME Init
             PROVE  IInv
  OBVIOUS
<1>1. PipelineInv /\ delivered = <<>> /\ phase = "fetching" /\ outcome = "pending"
  BY PipelineStarts DEF Init, Open
<1> QED
  BY <1>1 DEF IInv, TypeOK, Phase, PipelineInv, FinishingHasAll, AnswersOnce

\* Each action of send, and unsubscribing, keeps the invariant of the pipeline and
\* the promise.
LEMMA RxPipelineStep ==
    ASSUME IInv, [Next]_vars
    PROVE  PipelineInv' /\ PromiseStep
<1>1. /\ PipelineInv /\ PipelineTypeOK
      /\ got \in Nat /\ end.at \in Nat /\ got <= end.at /\ got \in 0 .. end.at
  <2>1. PipelineInv /\ PipelineTypeOK
    BY DEF IInv, PipelineInv
  <2> QED
    BY <2>1, PipelineFacts
<1>2. CASE \E how \in {"transport", "status", "network"} : Open /\ GiveUp(how)
  <2>1. PICK how \in {"transport", "status", "network"} : Open /\ GiveUp(how)
    BY <1>2
  <2>2. /\ UNCHANGED <<response, got, splitter, delivered>>
        /\ outcome' = how /\ ~Open' /\ Open /\ outcome' # "completed"
    BY <2>1 DEF GiveUp, Tell, Open
  <2> QED
    BY <1>1, <2>2, EndStep
<1>3. CASE ~Open /\ \E how : GiveUp(how)
  <2>1. UNCHANGED <<response, got, splitter, delivered, outcome>>
    BY <1>3 DEF GiveUp, Tell
  <2> QED
    BY <1>1, <2>1, RestStep
<1>4. CASE GetBody
  BY <1>1, <1>4, RestStep DEF GetBody
<1>5. CASE ReadChunk
  <2>1. PICK to \in got + 1 .. end.at : got' = to /\ Split(Chunk(got, to))
    BY <1>5 DEF ReadChunk
  <2> QED
    BY <1>1, <1>5, <2>1, SplitStep DEF ReadChunk, Awaiting
<1>6. CASE ReadDone
  <2>1. Empty \in View /\ Empty.len = 0
    BY ViewFacts DEF Empty
  <2> QED
    BY <1>1, <1>6, <2>1, SplitStep DEF ReadDone, Awaiting
<1>7. CASE ReadAll
  <2>1. delivered = <<>> /\ ~streaming /\ Open /\ Answer /\ UNCHANGED response
    BY <1>7 DEF IInv, AnswersOnce, ReadAll, Awaiting
  <2>2. got' \in 0 .. end.at
    BY <1>1, <1>7 DEF ReadAll
  <2> QED
    BY <1>1, <2>1, <2>2, AnswerStep
<1>8. CASE Loop
  BY <1>1, <1>8, ExtractStep DEF Loop
<1>9. CASE Complete
  <2>1. /\ ~looping /\ Finish /\ UNCHANGED response
        /\ got = end.at /\ end.how = "close"
        /\ ~streaming /\ Open => Len(delivered) = 1
    BY <1>9 DEF Complete, IInv, FinishingHasAll, AnswersOnce
  <2> QED
    BY <1>1, <2>1, FinishStep
<1>10. CASE Unsubscribe
  <2>1. ~Open' /\ Open /\ outcome' # "completed" /\ UNCHANGED <<response, got, splitter, delivered>>
    BY <1>10 DEF Unsubscribe, Open
  <2> QED
    BY <1>1, <2>1, EndStep
<1>11. CASE Over \/ UNCHANGED vars
  BY <1>1, <1>11, RestStep DEF Over, vars
<1>12. CASE FetchFails \/ StatusFails \/ ReadFails \/ ReadAborted
  BY <1>2, <1>3, <1>12 DEF FetchFails, StatusFails, ReadFails, ReadAborted
<1> QED
  BY <1>4, <1>5, <1>6, <1>7, <1>8, <1>9, <1>10, <1>11, <1>12 DEF Next, Send

LEMMA RxStep == IInv /\ [Next]_vars => IInv'
<1> SUFFICES ASSUME IInv, [Next]_vars
             PROVE  IInv'
  OBVIOUS
<1>1. PipelineInv'
  BY RxPipelineStep
<1>2. TypeOK /\ PipelineInv /\ FinishingHasAll /\ AnswersOnce
  BY DEF IInv
<1>3. CASE \E how \in {"transport", "status", "network", "completed"} : GiveUp(how)
  <2>1. /\ outcome' \in {outcome, "transport", "status", "network", "completed"}
        /\ phase' = "over" /\ UNCHANGED streaming
    BY <1>3 DEF GiveUp, Tell
  <2> QED
    BY <1>1, <1>2, <2>1
    DEF IInv, TypeOK, PipelineInv, Phase, Errors, FinishingHasAll, AnswersOnce
<1>4. CASE GetBody \/ ReadChunk \/ Unsubscribe \/ Over \/ UNCHANGED vars
  <2>1. /\ outcome' \in {outcome, "unsubscribed"}
        /\ UNCHANGED <<streaming, end>>
        /\ phase' = phase \/ (phase = "fetching" /\ phase' = "reading")
        /\ phase \notin {"fetching", "reading"} => UNCHANGED got
        /\ UNCHANGED delivered
        /\ Open' => Open
    BY <1>4 DEF GetBody, ReadChunk, Unsubscribe, Over, vars, Split, Awaiting, Open
  <2> QED
    BY <1>1, <1>2, <2>1
    DEF IInv, TypeOK, PipelineInv, Phase, Errors, FinishingHasAll, AnswersOnce
<1>5. CASE ReadDone
  BY <1>1, <1>2, <1>5
  DEF ReadDone, Split, IInv, TypeOK, PipelineInv, Phase, FinishingHasAll, AnswersOnce
<1>6. CASE ReadAll
  <2>1. delivered = <<>> /\ ~streaming /\ Open /\ Answer /\ UNCHANGED response
    BY <1>2, <1>6 DEF AnswersOnce, ReadAll, Awaiting
  <2>2. got' \in 0 .. end.at /\ got' = end.at
    BY <1>2, <1>6, PipelineFacts DEF ReadAll, PipelineInv
  <2>3. Open' => Len(delivered') = 1
    BY <1>2, <2>1, <2>2, AnswerStep
  <2>4. outcome' \in {"pending", "unsubscribed", "decode"}
    BY <2>1 DEF Answer, Decode
  <2> QED
    BY <1>1, <1>6, <2>1, <2>2, <2>3, <2>4
    DEF ReadAll, IInv, TypeOK, PipelineInv, Phase, Errors, FinishingHasAll, AnswersOnce
<1>7. CASE Loop
  <2>1. streaming /\ Extract /\ UNCHANGED <<response, got, phase>>
    BY <1>2, <1>7 DEF Loop, Extract, PipelineInv
  <2>2. outcome' \in {outcome, "pending", "unsubscribed", "decode"} \cup Thrown
    BY <1>2, <2>1, ExtractOutcome DEF PipelineInv
  <2> QED
    BY <1>1, <1>2, <2>1, <2>2
    DEF IInv, TypeOK, PipelineInv, Phase, Errors, FinishingHasAll, AnswersOnce
<1>8. CASE Complete
  <2>1. outcome' \in {outcome, "completed"} /\ phase' = "over"
    BY <1>8 DEF Complete, Finish, Tell
  <2> QED
    BY <1>1, <1>2, <1>8, <2>1
    DEF IInv, TypeOK, PipelineInv, Phase, FinishingHasAll, AnswersOnce
<1> QED
  BY <1>3, <1>4, <1>5, <1>6, <1>7, <1>8
  DEF Next, Send, FetchFails, StatusFails, ReadFails, ReadAborted

\* What is known of the bytes between the last delivered message and the next
\* chunk, and of how far send has come, holds for every body, cut and end.
THEOREM Invariance == Spec => []IInv
  BY RxInit, RxStep, PTL DEF Spec

\* TypeOK holds of every state of a call of createObservableTransport, whatever
\* bytes the network delivers and whenever the observer unsubscribes.
THEOREM TypeCorrect == Spec => []TypeOK
<1>1. IInv => TypeOK
  BY DEF IInv
<1> QED
  BY <1>1, Invariance, PTL

\* FetchSubscriber.send, ProtoStreamSubscriber and the decoding map implement
\* StreamDelivery on every body that is not cut inside a frame: the observer gets
\* the messages in order, none twice and none left out, and complete only after
\* the last one that arrived, of a body that did not end in an error.
THEOREM ImplementsStreamDelivery == Spec => KeepsPromise
<1>1. Init => Promise!Init
  BY PromiseStarts DEF Init
<1>2. IInv /\ [Next]_vars => [Promise!Next]_(Promise!vars)
  BY RxPipelineStep DEF PromiseStep
<1> QED
  BY <1>1, <1>2, Invariance, PTL DEF Spec, KeepsPromise, Promise!Spec

\* After complete, error or unsubscribe nothing comes to the observer, although
\* send may be in its for loop, awaiting a chunk or about to complete.
THEOREM NothingComesAfterTheEnd == Spec => NothingAfterTheEnd
<1>1. IInv /\ [Next]_vars
        => [~Open => UNCHANGED <<delivered, outcome>>]_<<delivered, outcome>>
  <2> SUFFICES ASSUME IInv, [Next]_vars, ~Open
               PROVE  UNCHANGED <<delivered, outcome>>
    OBVIOUS
  <2>1. CASE \E how : GiveUp(how)
    BY <2>1 DEF GiveUp, Tell
  <2>2. CASE Loop
    <3>1. streaming /\ PipelineTypeOK
      BY <2>2 DEF Loop, Extract, IInv, PipelineInv
    <3> QED
      BY <2>2, <3>1, ExtractOutcome DEF Loop
  <2>3. CASE GetBody \/ ReadChunk \/ ReadDone \/ ReadAll \/ Complete \/ Unsubscribe
             \/ Over \/ UNCHANGED vars
    BY <2>3
    DEF GetBody, ReadChunk, ReadDone, ReadAll, Complete, Finish, Tell, Unsubscribe, Over, vars
  <2> QED
    BY <2>1, <2>2, <2>3 DEF Next, Send, FetchFails, StatusFails, ReadFails, ReadAborted
<1> QED
  BY <1>1, Invariance, PTL DEF Spec, NothingAfterTheEnd

----------------------------------------------------------------------------
(***************************************************************************)
(* AjaxTransport                                                           *)
(***************************************************************************)
LEMMA AjaxInit == XHRInit => XHRInv
<1> SUFFICES ASSUME XHRInit
             PROVE  XHRInv
  OBVIOUS
<1>1. PipelineInit
  BY DEF XHRInit
<1>2. PipelineInv /\ PipelineTypeOK /\ delivered = <<>> /\ outcome = "pending"
  BY <1>1, PipelineStarts DEF PipelineInv, Open
<1>3. XHRTypeOK
  BY <1>2 DEF XHRInit, XHRTypeOK
<1> QED
  BY <1>2, <1>3
  DEF XHRInit, XHRInv, OpenWhileUnderWay, LoadedHasAll, XHRAnswersOnce, Open

LEMMA AjaxFacts ==
    ASSUME XHRInv
    PROVE  /\ PipelineInv /\ PipelineTypeOK
           /\ got \in Nat /\ end.at \in Nat /\ got <= end.at /\ got \in 0 .. end.at
           /\ UnderWay => ~done /\ Open /\ ~looping /\ ~handling /\ ~pending
                               /\ readyState # 4
           /\ UnderWay /\ ~streaming => delivered = <<>>
           /\ pending => ~Open
<1>1. PipelineInv /\ PipelineTypeOK
  BY DEF XHRInv, PipelineInv
<1>2. got \in Nat /\ end.at \in Nat /\ got <= end.at
  BY <1>1, PipelineFacts
<1> QED
  BY <1>1, <1>2
  DEF XHRInv, OpenWhileUnderWay, XHRAnswersOnce, UnderWay, Idle, Open

\* What checkXHRStatus makes of a chunk, or of all of the response.
LEMMA CheckStep ==
    ASSUME XHRInv, UnderWay, NEW to \in got .. end.at, got' = to,
           CheckXHRStatus(got, to), UNCHANGED response,
           ~streaming \/ to = got => to = end.at /\ end.how = "close"
    PROVE  /\ PipelineInv' /\ PromiseStep
           /\ outcome' \in {"pending", "unsubscribed", "decode", "internal", "twirp"}
           /\ ~streaming /\ Open' => Len(delivered') = 1
<1>1. /\ PipelineInv /\ PipelineTypeOK /\ Open /\ ~looping
      /\ got \in Nat /\ end.at \in Nat /\ got <= end.at /\ got' \in 0 .. end.at
      /\ ~streaming => delivered = <<>>
  BY AjaxFacts
<1>2. CASE status = "200" /\ streaming
  <2>1. Split(Chunk(got, to))
    BY <1>2 DEF CheckXHRStatus
  <2>2. \/ \E t \in got + 1 .. end.at : got' = t /\ Chunk(got, to) = Chunk(got, t)
        \/ /\ got' = got /\ got = end.at /\ end.how = "close"
           /\ Chunk(got, to) \in View /\ Chunk(got, to).len = 0
    <3>1. CASE to = got
      BY <1>1, <3>1, ChunkIsView DEF Chunk
    <3>2. CASE to # got
      BY <1>1, <3>2
    <3> QED
      BY <3>1, <3>2
  <2>3. PipelineInv' /\ PromiseStep
    BY <1>1, <1>2, <2>1, <2>2, SplitStep
  <2>4. outcome' = "pending"
    BY <1>1, <2>1 DEF Split, Open
  <2> QED
    BY <1>2, <2>3, <2>4
<1>3. CASE status = "200" /\ ~streaming
  <2>1. Answer
    BY <1>3 DEF CheckXHRStatus
  <2>2. outcome' \in {"pending", "unsubscribed", "decode"}
    BY <2>1 DEF Answer, Decode
  <2> QED
    BY <1>1, <1>3, <2>1, <2>2, AnswerStep
<1>4. CASE status # "200"
  <2>1. Tell(ParseTwirpError(got, to)) /\ UNCHANGED <<splitter, delivered>>
    BY <1>4 DEF CheckXHRStatus
  <2>2. outcome' \in {"internal", "twirp"}
    BY <1>1, <2>1 DEF Tell, ParseTwirpError
  <2>3. ~Open' /\ outcome' # "completed"
    BY <2>2 DEF Open
  <2> QED
    BY <1>1, <2>1, <2>2, <2>3, EndStep
<1> QED
  BY <1>2, <1>3, <1>4

LEMMA AjaxPipelineStep ==
    ASSUME XHRInv, [XHRNext]_xhrVars
    PROVE  PipelineInv' /\ PromiseStep
<1>1. /\ PipelineInv /\ PipelineTypeOK
      /\ got \in Nat /\ end.at \in Nat /\ got <= end.at /\ got \in 0 .. end.at
  BY AjaxFacts
<1>2. CASE SendFails \/ XHRUnsubscribe
  <2>1. /\ UNCHANGED <<response, splitter, delivered, got>>
        /\ Open /\ ~Open' /\ outcome' # "completed"
    BY <1>2 DEF SendFails, XHRUnsubscribe, Open
  <2> QED
    BY <1>1, <2>1, EndStep
<1>3. CASE Chunked
  <2>1. PICK to \in got + 1 .. end.at : got' = to /\ CheckXHRStatus(got, to)
    BY <1>3 DEF Chunked
  <2>2. to \in got .. end.at /\ to # got /\ streaming /\ UnderWay /\ UNCHANGED response
    BY <1>1, <1>3 DEF Chunked
  <2> QED
    BY <2>1, <2>2, CheckStep
<1>4. CASE Loaded
  <2>1. end.at \in got .. end.at
    BY <1>1
  <2> QED
    BY <1>4, <2>1, CheckStep DEF Loaded
<1>5. CASE Lost \/ TimesOut
  <2>1. UnderWay /\ Open
    BY <1>5, AjaxFacts DEF Lost, TimesOut
  <2>2. /\ UNCHANGED <<response, splitter, delivered, got>> /\ outcome' = "internal"
    BY <1>5, <2>1 DEF Lost, TimesOut, Break, Tell
  <2>3. ~Open'
    BY <2>2 DEF Open
  <2> QED
    BY <1>1, <2>1, <2>2, <2>3, EndStep
<1>6. CASE XHRLoop
  BY <1>1, <1>6, ExtractStep DEF XHRLoop
<1>7. CASE XHRComplete
  <2>1. /\ ~looping /\ Finish /\ UNCHANGED response
        /\ Open => got = end.at /\ end.how = "close"
        /\ ~streaming /\ Open => Len(delivered) = 1
    BY <1>7
    DEF XHRComplete, XHRInv, LoadedHasAll, XHRAnswersOnce, Open
  <2> QED
    BY <1>1, <2>1, FinishStep
<1>8. CASE LateEvent
  <2>1. UNCHANGED <<response, got, splitter, delivered, outcome>>
    BY <1>8, AjaxFacts DEF LateEvent, Tell
  <2> QED
    BY <1>1, <2>1, RestStep
<1>9. CASE XHRSend \/ XHROver \/ UNCHANGED xhrVars
  BY <1>1, <1>9, RestStep DEF XHRSend, XHROver, xhrVars
<1> QED
  BY <1>2, <1>3, <1>4, <1>5, <1>6, <1>7, <1>8, <1>9 DEF XHRNext, Event

LEMMA AjaxStep == XHRInv /\ [XHRNext]_xhrVars => XHRInv'
<1> SUFFICES ASSUME XHRInv, [XHRNext]_xhrVars
             PROVE  XHRInv'
  OBVIOUS
<1>1. PipelineInv' /\ PipelineTypeOK'
  <2>1. PipelineInv'
    BY AjaxPipelineStep
  <2>2. PipelineTypeOK'
    BY <2>1 DEF PipelineInv
  <2> QED
    BY <2>1, <2>2
<1>2. /\ status \in Status /\ readyState \in {0, 1, 3, 4}
      /\ done \in BOOLEAN /\ handling \in BOOLEAN /\ pending \in BOOLEAN
      /\ outcome \in {"pending", "completed", "unsubscribed"} \cup XHRErrors
      /\ done \/ handling => readyState = 4
      /\ readyState \in {1, 3} => Open
      /\ handling /\ Open => got = end.at /\ end.how = "close"
      /\ ~streaming => /\ readyState # 4 => delivered = <<>>
                       /\ handling /\ Open => Len(delivered) = 1
      /\ pending => outcome = "internal" /\ ~Open
  BY DEF XHRInv, XHRTypeOK, OpenWhileUnderWay, LoadedHasAll, XHRAnswersOnce,
         Open
<1>3. UNCHANGED <<response, status>>
  BY DEF XHRNext, Event, SendFails, XHRSend, Chunked, Loaded, Lost,
      TimesOut, Break, XHRLoop, XHRComplete, LateEvent, XHRUnsubscribe,
      XHROver, xhrVars
\* What is left to show of a step.
<1>4. ASSUME /\ readyState' \in {0, 1, 3, 4}
             /\ done' \in BOOLEAN /\ handling' \in BOOLEAN /\ pending' \in BOOLEAN
             /\ outcome' \in {"pending", "completed", "unsubscribed"} \cup XHRErrors
             /\ done' \/ handling' => readyState' = 4
             /\ readyState' \in {1, 3} => Open'
             /\ handling' /\ Open' => got' = end.at /\ end.how = "close"
             /\ ~streaming => /\ readyState' # 4 => delivered' = <<>>
                              /\ handling' /\ Open' => Len(delivered') = 1
             /\ pending' => outcome' = "internal"
      PROVE  XHRInv'
  BY <1>1, <1>2, <1>3, <1>4
  DEF XHRInv, XHRTypeOK, OpenWhileUnderWay, LoadedHasAll, XHRAnswersOnce,
      Open
<1>5. CASE SendFails
  <2>1. /\ UNCHANGED <<got, delivered, readyState, done, handling, pending>>
        /\ readyState = 0 /\ Open /\ outcome' = "transport"
    BY <1>5 DEF SendFails
  <2> QED
    BY <1>2, <1>4, <2>1 DEF XHRErrors, Open
<1>6. CASE XHRSend
  <2>1. /\ UNCHANGED <<got, delivered, outcome, done, handling, pending>>
        /\ readyState = 0 /\ Open /\ readyState' = 1
    BY <1>6 DEF XHRSend
  <2> QED
    BY <1>2, <1>4, <2>1 DEF Open
<1>7. CASE Chunked
  <2>1. PICK to \in got + 1 .. end.at : got' = to /\ CheckXHRStatus(got, to)
    BY <1>7 DEF Chunked
  <2>2. /\ to \in got .. end.at /\ to # got /\ streaming /\ UnderWay
        /\ UNCHANGED <<handling, pending>> /\ ~done /\ ~handling /\ ~pending
    BY <1>7, AjaxFacts DEF Chunked
  <2>3. outcome' \in {"pending", "unsubscribed", "decode", "internal", "twirp"}
    BY <1>3, <2>1, <2>2, CheckStep
  <2>4. IF outcome' = "pending" THEN readyState' = 3 /\ ~done' ELSE readyState' = 4 /\ done'
    BY <1>7, <2>2 DEF Chunked, Release
  <2>5. done' \in BOOLEAN
    BY <1>2, <1>7 DEF Chunked, Release
  <2> QED
    BY <1>2, <1>4, <2>2, <2>3, <2>4, <2>5 DEF XHRErrors, Open
<1>8. CASE Loaded
  <2>1. end.at \in got .. end.at /\ ~pending /\ UnderWay /\ end.how = "close"
    BY <1>8, AjaxFacts DEF Loaded
  <2>2. /\ got' = end.at /\ readyState' = 4 /\ done' = TRUE /\ handling' = TRUE
        /\ UNCHANGED pending /\ CheckXHRStatus(got, end.at)
    BY <1>8 DEF Loaded
  <2>3. /\ outcome' \in {"pending", "unsubscribed", "decode", "internal", "twirp"}
        /\ ~streaming /\ Open' => Len(delivered') = 1
    BY <1>3, <2>1, <2>2, CheckStep
  <2> QED
    BY <1>2, <1>4, <2>1, <2>2, <2>3 DEF XHRErrors, Open
<1>9. CASE Lost \/ TimesOut
  <2>1. UnderWay /\ Open
    BY <1>9, AjaxFacts DEF Lost, TimesOut
  <2>2. /\ outcome' = "internal"
        /\ readyState' = 4 /\ done' = TRUE /\ handling' = TRUE /\ pending' = TRUE
    BY <1>9, <2>1 DEF Lost, TimesOut, Break, Tell
  <2> QED
    BY <1>2, <1>4, <2>2 DEF XHRErrors, Open
<1>10. CASE XHRLoop
  <2>1. /\ Extract /\ Release /\ UNCHANGED <<got, handling, pending>>
    BY <1>10 DEF XHRLoop
  <2>2. PipelineTypeOK /\ streaming
    BY <2>1, AjaxFacts DEF Extract, PipelineInv
  <2>3. /\ outcome' \in {outcome, "pending", "unsubscribed", "decode"} \cup Thrown
        /\ ~Open => UNCHANGED <<delivered, outcome>>
    BY <1>3, <2>1, <2>2, ExtractOutcome
  <2>4. outcome' \in {"pending", "completed", "unsubscribed"} \cup XHRErrors
    BY <1>2, <2>3 DEF XHRErrors
  <2>5. \/ UNCHANGED <<readyState, done>> /\ (done \/ Open')
        \/ readyState' = 4 /\ done' = TRUE
    BY <2>1 DEF Release, Open
  <2>6. Open' => Open
    BY <2>3 DEF Open
  <2>7. /\ handling' \in BOOLEAN /\ pending' \in BOOLEAN /\ done' \in BOOLEAN
        /\ readyState' \in {0, 1, 3, 4}
    BY <1>2, <2>1, <2>5
  <2>8. /\ done' \/ handling' => readyState' = 4
        /\ readyState' \in {1, 3} => Open'
    BY <1>2, <2>1, <2>5, <2>6 DEF Open
  <2>9. handling' /\ Open' => got' = end.at /\ end.how = "close"
    BY <1>2, <2>1, <2>6
  <2>10. pending' => outcome' = "internal"
    BY <1>2, <2>1, <2>3
  <2> QED
    BY <1>4, <2>2, <2>4, <2>7, <2>8, <2>9, <2>10
<1>11. CASE XHRComplete
  <2>1. /\ Finish /\ handling /\ handling' = FALSE /\ UNCHANGED <<readyState, done, pending>>
    BY <1>11 DEF XHRComplete
  <2>2. UNCHANGED delivered /\ (outcome' = outcome \/ (Open /\ outcome' = "completed"))
    BY <2>1 DEF Finish, Tell
  <2>3. readyState = 4 /\ readyState' = 4
    BY <1>2, <2>1
  <2>4. /\ outcome' \in {"pending", "completed", "unsubscribed"} \cup XHRErrors
        /\ pending' => outcome' = "internal"
    BY <1>2, <2>1, <2>2
  <2>5. /\ done' \in BOOLEAN /\ pending' \in BOOLEAN
        /\ handling' \in BOOLEAN /\ ~handling'
    BY <1>2, <2>1
  <2> QED
    BY <1>4, <2>3, <2>4, <2>5
<1>12. CASE LateEvent
  <2>1. /\ pending /\ ~handling /\ pending' = FALSE /\ Tell("transport")
        /\ UNCHANGED <<got, delivered, readyState, done, handling>>
    BY <1>12 DEF LateEvent
  <2>2. outcome' = outcome
    BY <1>2, <2>1 DEF Tell
  <2> QED
    BY <1>2, <1>4, <2>1, <2>2 DEF Open
<1>13. CASE XHRUnsubscribe
  <2>1. /\ outcome' = "unsubscribed" /\ UNCHANGED <<got, delivered, handling, pending>>
        /\ ~handling /\ ~pending /\ ~done
    BY <1>13, AjaxFacts DEF XHRUnsubscribe
  <2>2. readyState' = 4 /\ done' = TRUE
    BY <1>13, <2>1 DEF XHRUnsubscribe, Release
  <2> QED
    BY <1>2, <1>4, <2>1, <2>2 DEF Open
<1>14. CASE XHROver \/ UNCHANGED xhrVars
  <2>1. UNCHANGED <<got, delivered, outcome, readyState, done, handling, pending>>
    BY <1>14 DEF XHROver, xhrVars
  <2> QED
    BY <1>2, <1>4, <2>1 DEF Open
<1> QED
  BY <1>5, <1>6, <1>7, <1>8, <1>9, <1>10, <1>11, <1>12, <1>13, <1>14
  DEF XHRNext, Event

\* A request is under way only while the subscription is open, and what lies
\* between two messages is known, for every body, cut, status and end.
THEOREM AjaxInvariance == XHRSpec => []XHRInv
  BY AjaxInit, AjaxStep, PTL DEF XHRSpec

\* A request that fails or times out is told to the observer as an error, or it
\* does not listen any more, before the event error or timeout is raised.
THEOREM BreaksAreTold == XHRSpec => []BreakIsTold
<1>1. XHRInv => BreakIsTold
  BY DEF XHRInv, BreakIsTold, XHRErrors
<1> QED
  BY <1>1, AjaxInvariance, PTL

\* Once the subscription has ended, AjaxSubscriber reads nothing more: whichever
\* way it ended, the request is over or was aborted with it.
THEOREM ConnectionsAreLetGo == XHRSpec => LetsGo
<1>1. XHRInv /\ [XHRNext]_xhrVars
        => [~Open => UNCHANGED got]_xhrVars
  <2> SUFFICES ASSUME XHRInv, [XHRNext]_xhrVars, ~Open
               PROVE  UNCHANGED got
    OBVIOUS
  <2>1. ~UnderWay
    BY AjaxFacts
  <2> QED
    BY <2>1
    DEF XHRNext, Event, SendFails, XHRSend, Chunked, Loaded, Lost,
        TimesOut, XHRLoop, XHRComplete, Finish, LateEvent, XHRUnsubscribe,
        XHROver, xhrVars
<1> QED
  BY <1>1, AjaxInvariance, PTL DEF XHRSpec, LetsGo

\* With XMLHttpRequest as with fetch, nothing comes to the observer after its end,
\* although complete() and the events error and timeout are still to come.
THEOREM NoEventComesAfterTheEnd == XHRSpec => NothingAfterTheEnd
<1>1. XHRInv /\ [XHRNext]_xhrVars
        => [~Open => UNCHANGED <<delivered, outcome>>]_<<delivered, outcome>>
  <2> SUFFICES ASSUME XHRInv, [XHRNext]_xhrVars, ~Open
               PROVE  UNCHANGED <<delivered, outcome>>
    OBVIOUS
  <2>1. ~UnderWay /\ PipelineInv /\ PipelineTypeOK /\ ~Open
    BY AjaxFacts
  <2>2. CASE XHRLoop
    <3>1. Extract /\ UNCHANGED <<response, got>> /\ streaming
      BY <2>1, <2>2 DEF XHRLoop, Extract, PipelineInv
    <3> QED
      BY <2>1, <3>1, ExtractOutcome
  <2>3. CASE XHRComplete
    BY <2>1, <2>3 DEF XHRComplete, Finish, Tell
  <2>4. CASE LateEvent
    BY <2>1, <2>4 DEF LateEvent, Tell
  <2>5. CASE XHRSend \/ XHROver \/ UNCHANGED xhrVars
    BY <2>5 DEF XHRSend, XHROver, xhrVars
  <2> QED
    BY <2>1, <2>2, <2>3, <2>4, <2>5
    DEF XHRNext, Event, SendFails, Chunked, Loaded, Lost,
        TimesOut, XHRUnsubscribe
<1> QED
  BY <1>1, AjaxInvariance, PTL DEF XHRSpec, NothingAfterTheEnd

\* AjaxSubscriber, checkXHRStatus, ProtoStreamSubscriber and the decoding map
\* implement StreamDelivery on every body that is not cut inside a frame.
THEOREM AjaxImplementsStreamDelivery == XHRSpec => KeepsPromise
<1>1. XHRInit => Promise!Init
  BY PromiseStarts DEF XHRInit
<1>2. XHRInv /\ [XHRNext]_xhrVars => [Promise!Next]_(Promise!vars)
  BY AjaxPipelineStep DEF PromiseStep
<1> QED
  BY <1>1, <1>2, AjaxInvariance, PTL DEF XHRSpec, KeepsPromise, Promise!Spec

----------------------------------------------------------------------------
(***************************************************************************)
(* A call of either transport                                              *)
(***************************************************************************)
LEMMA StepIsOfOneTransport ==
    ASSUME [CallNext]_callVars
    PROVE  /\ transport' = transport
           /\ transport = "fetch" => [Next]_vars /\ UNCHANGED <<status, readyState, done, handling, pending>>
           /\ transport = "xhr" => [XHRNext]_xhrVars /\ UNCHANGED phase
<1>1. CASE Run
  BY <1>1 DEF Run, Next, XHRNext, ajaxVars
<1>2. CASE Chance
  BY <1>2 DEF Chance, Next, XHRNext, ajaxVars
<1>3. CASE Ended
  BY <1>3 DEF Ended, Next, XHRNext, ajaxVars
<1>4. CASE UNCHANGED callVars
  BY <1>4 DEF callVars, vars, xhrVars, ajaxVars
<1> QED
  BY <1>1, <1>2, <1>3, <1>4 DEF CallNext

\* A call of a client of rxjs_transport/index.js is one of FetchSubscriber or one of
\* AjaxSubscriber from its beginning to its end.
THEOREM CallIsOfOneTransport == CallSpec => Spec \/ XHRSpec
<1>1. CallInit => (transport = "fetch" /\ Init) \/ (transport = "xhr" /\ XHRInit)
  BY DEF CallInit, CreateObservableTransport, CreateObservableXHRTransport
<1>2. transport = "fetch" /\ [CallNext]_callVars => (transport = "fetch")' /\ [Next]_vars
  BY StepIsOfOneTransport
<1>3. transport = "xhr" /\ [CallNext]_callVars => (transport = "xhr")' /\ [XHRNext]_xhrVars
  BY StepIsOfOneTransport
<1> QED
  BY <1>1, <1>2, <1>3, PTL DEF CallSpec, Spec, XHRSpec

\* The invariant of the transport that it is; with fetch no event is still to come.
BothInv ==
    /\ transport \in {"fetch", "xhr"}
    /\ transport = "fetch" => IInv /\ ~pending
    /\ transport = "xhr" => XHRInv

LEMMA BothInvariance == CallSpec => []BothInv
<1>1. CallInit => BothInv
  BY RxInit, AjaxInit DEF CallInit, CreateObservableTransport, CreateObservableXHRTransport, BothInv
<1>2. BothInv /\ [CallNext]_callVars => BothInv'
  <2> SUFFICES ASSUME BothInv, [CallNext]_callVars
               PROVE  BothInv'
    OBVIOUS
  <2>1. CASE transport = "fetch"
    BY <2>1, StepIsOfOneTransport, RxStep DEF BothInv
  <2>2. CASE transport = "xhr"
    BY <2>2, StepIsOfOneTransport, AjaxStep DEF BothInv
  <2> QED
    BY <2>1, <2>2 DEF BothInv
<1> QED
  BY <1>1, <1>2, PTL DEF CallSpec

\* The variables of both observable transports keep their types.
THEOREM CallsAreTyped == CallSpec => []CallTypeOK
<1>1. BothInv => CallTypeOK
  BY DEF BothInv, CallTypeOK, IInv, XHRInv
<1> QED
  BY <1>1, BothInvariance, PTL

\* Whichever transport it is, a request that fails or times out is told to the
\* observer before the event error or timeout is raised.
THEOREM CallsTellBreaks == CallSpec => []BreakIsTold
<1>1. BothInv => BreakIsTold
  BY DEF BothInv, BreakIsTold, XHRInv, XHRErrors
<1> QED
  BY <1>1, BothInvariance, PTL

\* With either transport a subscription that has ended reads nothing more.
THEOREM CallsLetGo == CallSpec => LetsGo
<1>1. IInv /\ [Next]_vars => [~Open => UNCHANGED got]_xhrVars
  BY DEF Next, Send, FetchFails, StatusFails, GiveUp, GetBody, ReadChunk, ReadDone, ReadAll, ReadFails,
         ReadAborted, Loop, Complete, Finish, Unsubscribe, Over, vars
<1>2. Spec => LetsGo
  BY <1>1, Invariance, PTL DEF Spec, LetsGo
<1> QED
  BY <1>2, ConnectionsAreLetGo, CallIsOfOneTransport, PTL

\* With either transport nothing comes to the observer after complete, error or
\* unsubscribe.
THEOREM CallsAreOverAtTheEnd == CallSpec => NothingAfterTheEnd
  BY NothingComesAfterTheEnd, NoEventComesAfterTheEnd, CallIsOfOneTransport, PTL

\* Both transports implement StreamDelivery on every body that is not cut inside a
\* frame.
THEOREM CallsKeepPromise == CallSpec => KeepsPromise
  BY ImplementsStreamDelivery, AjaxImplementsStreamDelivery, CallIsOfOneTransport, PTL

----------------------------------------------------------------------------
(***************************************************************************)
(* TwirpClient: the registry and the headers, for every set of names and   *)
(* every number of clients and calls.                                      *)
(***************************************************************************)
LEMMA RegistryInitIsGood == RegistryInit => RegistryInv
  <1> SUFFICES ASSUME RegistryInit PROVE RegistryInv
    OBVIOUS
  <1>1. RegistryTypeOK
    BY NamesAssumption, OptionsAssumption
    DEF RegistryInit, RegistryTypeOK, Generators, Client, Request
  <1>2. NamesAreRegistered /\ DefaultIsUsable /\ types["DEFAULT"] \in Names
    BY NamesAssumption DEF RegistryInit, NamesAreRegistered, DefaultIsUsable
  <1>3. ClientsAreCurrent /\ CallsHaveClients
    BY DEF RegistryInit, ClientsAreCurrent, CallsHaveClients
  <1>4. CustomUntilFirst /\ FetchNamesContentType /\ HeadersGoOnce
    BY DEF RegistryInit, CustomUntilFirst, FetchNamesContentType, HeadersGoOnce
  <1> QED
    BY <1>1, <1>2, <1>3, <1>4 DEF RegistryInv

\* What a registration does to the registry.
LEMMA RegisterIsGood ==
  ASSUME RegistryInv, NEW n \in Names, NEW g \in Generators, NEW d \in BOOLEAN, Register(n, g, d)
  PROVE  RegistryInv'
  <1> USE DEF RegistryInv
  <1>1. /\ types' \in [Names -> Names \cup {"undefined"}]
        /\ generators' \in [Names -> Generators \cup {"undefined"}]
    BY NamesAssumption DEF Register, RegistryTypeOK
  <1>2. RegistryTypeOK'
    BY <1>1 DEF Register, RegistryTypeOK
  <1>3. generators'[n] = g /\ \A m \in Names \ {n} : generators'[m] = generators[m]
    BY DEF Register, RegistryTypeOK
  <1>4. g # "undefined"
    BY DEF Generators
  <1>5. types'[n] = n /\ \A m \in Names \ {n, "DEFAULT"} : types'[m] = types[m]
    BY NamesAssumption DEF Register, RegistryTypeOK
  <1>6. types'["DEFAULT"] \in {types["DEFAULT"], n}
    BY NamesAssumption DEF Register, RegistryTypeOK
  <1>7. NamesAreRegistered' /\ DefaultIsUsable' /\ types'["DEFAULT"] \in Names
    BY <1>3, <1>4, <1>5, <1>6, NamesAssumption DEF NamesAreRegistered, DefaultIsUsable
  <1>8. n # "DEFAULT" => generators[n] = "undefined"
    BY DEF Register, NamesAreRegistered
  <1>9. ClientsAreCurrent'
    <2> SUFFICES ASSUME NEW i \in DOMAIN clients, clients[i].type # "DEFAULT"
                 PROVE  clients[i].rpc = generators'[clients[i].type]
      BY DEF Register, ClientsAreCurrent
    <2>1. clients[i] \in Client
      BY DEF RegistryTypeOK
    <2>2. generators[clients[i].type] = clients[i].rpc
      BY DEF ClientsAreCurrent
    <2>3. clients[i].type # n
      BY <2>1, <2>2, <1>8 DEF Client, Generators
    <2> QED
      BY <2>1, <2>2, <2>3, <1>3 DEF Client
  <1>10. CallsHaveClients' /\ CustomUntilFirst' /\ FetchNamesContentType' /\ HeadersGoOnce'
    BY DEF Register, CallsHaveClients, CustomUntilFirst, FetchNamesContentType,
           HeadersGoOnce, IsFetch, Options
  <1> QED
    BY <1>2, <1>7, <1>9, <1>10

\* A new client changes nothing for the old ones.
LEMMA NewClientIsGood ==
  ASSUME RegistryInv, NEW asked \in Names \cup {"undefined"}, NEW fromTable \in BOOLEAN,
         asked = "undefined" => ~fromTable,
         NEW o \in OptionObjects \cup {"none"}, NewClient(asked, fromTable, o)
  PROVE  RegistryInv'
  <1> USE DEF RegistryInv
  <1> DEFINE tt == IF fromTable THEN types[asked] ELSE asked
             type == TransportType(tt)
             new == [asked |-> asked, type |-> type, rpc |-> generators[type], options |-> o]
  <1>1. type \in Names
    BY DEF TransportType, RegistryTypeOK
  <1>2. new \in Client
    BY <1>1 DEF NewClient, Client, RegistryTypeOK
  <1>3. clients' = Append(clients, new)
    BY DEF NewClient
  <1>4. UNCHANGED <<types, generators, custom, observables, requests>>
    BY DEF NewClient
  <1> HIDE DEF new, type, tt
  <1>5. clients' \in Seq(Client)
    BY <1>2, <1>3 DEF RegistryTypeOK
  <1>6. /\ DOMAIN clients' = 1 .. Len(clients) + 1
        /\ \A i \in DOMAIN clients : i \in DOMAIN clients' /\ clients'[i] = clients[i]
        /\ \A i \in DOMAIN clients' : i \in DOMAIN clients \/ clients'[i] = new
    BY <1>2, <1>3 DEF RegistryTypeOK
  <1>7. RegistryTypeOK'
    BY <1>4, <1>5 DEF RegistryTypeOK
  <1>8. NamesAreRegistered' /\ DefaultIsUsable' /\ types'["DEFAULT"] \in Names
    BY <1>4 DEF NamesAreRegistered, DefaultIsUsable
  <1>9. ClientsAreCurrent'
    BY <1>4, <1>6 DEF ClientsAreCurrent, new
  <1>10. CallsHaveClients'
    BY <1>4, <1>6 DEF CallsHaveClients
  <1>11. \A r \in DOMAIN requests : (IsFetch(r)' <=> IsFetch(r)) /\ Options(r)' = Options(r)
    BY <1>4, <1>6 DEF CallsHaveClients, IsFetch, Options
  <1>12. CustomUntilFirst'
    BY <1>4, <1>11 DEF CustomUntilFirst
  <1>13. FetchNamesContentType'
    BY <1>4, <1>11 DEF FetchNamesContentType
  <1>14. HeadersGoOnce'
    <2> SUFFICES ASSUME NEW r \in DOMAIN requests, IsFetch(r)
                 PROVE  "own" \in requests[r].headers <=>
                          /\ Options(r) \in WithHeaders
                          /\ \A q \in 1 .. r - 1 : ~(IsFetch(q)' /\ Options(q)' = Options(r))
      BY <1>4, <1>11 DEF HeadersGoOnce
    <2>1. 1 .. r - 1 \subseteq DOMAIN requests
      BY DEF RegistryTypeOK
    <2> QED
      BY <2>1, <1>11 DEF HeadersGoOnce
  <1> QED
    BY <1>7, <1>8, <1>9, <1>10, <1>12, <1>13, <1>14

\* One more request, of client c with the headers h.
LEMMA RequestIsGood ==
  ASSUME RegistryInv, NEW c \in DOMAIN clients, NEW h \in Headers,
         requests' = Append(requests, [client |-> c, headers |-> h]),
         UNCHANGED <<types, generators, clients, observables>>,
         IF clients[c].rpc = "fetch"
           THEN /\ custom' = custom \ {clients[c].options}
                /\ "type" \in h
                /\ "own" \in h <=> clients[c].options \in custom
           ELSE custom' = custom
  PROVE  RegistryInv'
  <1> USE DEF RegistryInv
  <1> DEFINE req == [client |-> c, headers |-> h]
  <1>0. PICK last \in Nat : last = Len(requests) + 1
    BY DEF RegistryTypeOK
  <1>1. req \in Request
    BY DEF Request, RegistryTypeOK
  <1>2. /\ DOMAIN requests' = DOMAIN requests \cup {last}
        /\ DOMAIN requests = 1 .. last - 1
        /\ \A r \in DOMAIN requests : requests'[r] = requests[r]
        /\ requests'[last] = req
        /\ requests' \in Seq(Request)
    BY <1>0, <1>1 DEF RegistryTypeOK
  <1>3. RegistryTypeOK'
    BY <1>2 DEF RegistryTypeOK
  <1>4. NamesAreRegistered' /\ DefaultIsUsable' /\ types'["DEFAULT"] \in Names /\ ClientsAreCurrent'
    BY DEF NamesAreRegistered, DefaultIsUsable, ClientsAreCurrent
  <1>5. CallsHaveClients'
    BY <1>2 DEF CallsHaveClients
  <1>6. /\ \A r \in DOMAIN requests : (IsFetch(r)' <=> IsFetch(r)) /\ Options(r)' = Options(r)
        /\ IsFetch(last)' <=> clients[c].rpc = "fetch"
        /\ Options(last)' = clients[c].options
    BY <1>2 DEF IsFetch, Options
  <1>7. last \notin DOMAIN requests
    BY <1>1, <1>2
  <1>8. CustomUntilFirst'
    BY <1>2, <1>6 DEF CustomUntilFirst
  <1>9. FetchNamesContentType'
    BY <1>2, <1>6 DEF FetchNamesContentType
  <1>10. HeadersGoOnce'
    <2> SUFFICES ASSUME NEW r \in DOMAIN requests', IsFetch(r)'
                 PROVE  "own" \in requests'[r].headers <=>
                          /\ Options(r)' \in WithHeaders
                          /\ \A q \in 1 .. r - 1 : ~(IsFetch(q)' /\ Options(q)' = Options(r)')
      BY DEF HeadersGoOnce
    <2>1. CASE r \in DOMAIN requests
      <3>1. 1 .. r - 1 \subseteq DOMAIN requests
        BY <2>1, <1>1, <1>2
      <3> QED
        BY <2>1, <3>1, <1>2, <1>6 DEF HeadersGoOnce
    <2>2. CASE r = last
      <3>1. "own" \in requests'[r].headers <=> clients[c].options \in custom
        BY <2>2, <1>2, <1>6
      <3>2. clients[c].options \in custom <=>
              /\ clients[c].options \in WithHeaders
              /\ \A q \in DOMAIN requests : ~(IsFetch(q) /\ Options(q) = clients[c].options)
        BY DEF CustomUntilFirst, RegistryTypeOK
      <3> QED
        BY <2>2, <3>1, <3>2, <1>2, <1>6
    <2> QED
      BY <2>1, <2>2, <1>2
  <1> QED
    BY <1>3, <1>4, <1>5, <1>8, <1>9, <1>10

LEMMA CallsAreGood ==
  ASSUME RegistryInv, Calls
  PROVE  RegistryInv'
  <1>1. ASSUME NEW c \in DOMAIN clients, Fetch(c) PROVE RegistryInv'
    <2> DEFINE h == {"type"} \cup (IF clients[c].options \in custom THEN {"own"} ELSE {})
    <2>1. h \in Headers /\ "type" \in h /\ ("own" \in h <=> clients[c].options \in custom)
      BY DEF Headers
    <2>2. /\ requests' = Append(requests, [client |-> c, headers |-> h])
          /\ clients[c].rpc = "fetch"
          /\ custom' = custom \ {clients[c].options}
          /\ UNCHANGED <<types, generators, clients, observables>>
      BY <1>1 DEF Fetch
    <2> HIDE DEF h
    <2> QED
      BY <2>1, <2>2, RequestIsGood
  <1>2. ASSUME NEW c \in DOMAIN clients, NEW own \in BOOLEAN, Observe(c, own) PROVE RegistryInv'
    <2> USE DEF RegistryInv
    <2> DEFINE h == IF own \/ clients[c].options \in custom THEN {"own"} ELSE {"type"}
    <2>1. [client |-> c, headers |-> h] \in Request
      BY DEF Request, Headers, RegistryTypeOK
    <2>2. /\ observables' = Append(observables, [client |-> c, headers |-> h])
          /\ clients[c].rpc = "observable"
          /\ UNCHANGED <<types, generators, clients, custom, requests>>
      BY <1>2 DEF Observe
    <2> HIDE DEF h
    <2>3. RegistryTypeOK'
      BY <2>1, <2>2 DEF RegistryTypeOK
    <2>4. CallsHaveClients'
      BY <2>1, <2>2 DEF CallsHaveClients, RegistryTypeOK
    <2> QED
      BY <2>2, <2>3, <2>4 DEF NamesAreRegistered, DefaultIsUsable, ClientsAreCurrent,
         CustomUntilFirst, FetchNamesContentType, HeadersGoOnce, IsFetch, Options
  <1>3. ASSUME NEW o \in DOMAIN observables, Subscribe(o) PROVE RegistryInv'
    <2>1. observables[o] \in Request
      BY DEF RegistryInv, RegistryTypeOK
    <2>2. PICK c \in DOMAIN clients, h \in Headers :
            /\ observables[o] = [client |-> c, headers |-> h]
            /\ clients[c].rpc = "observable"
      BY <2>1 DEF Request, RegistryInv, CallsHaveClients
    <2>3. /\ requests' = Append(requests, [client |-> c, headers |-> h])
          /\ custom' = custom
          /\ UNCHANGED <<types, generators, clients, observables>>
      BY <1>3, <2>2 DEF Subscribe
    <2>4. clients[c].rpc # "fetch"
      BY <2>2
    <2> QED
      BY <2>2, <2>3, <2>4, RequestIsGood
  <1> QED
    BY <1>1, <1>2, <1>3 DEF Calls

\* Registry and headers are as RegistryInv says, after every sequence of registrations,
\* new clients, calls and subscriptions.
THEOREM RegistryInvariance == RegistrySpec => []RegistryInv
  <1>1. RegistryInv /\ [RegistryNext]_registryVars => RegistryInv'
    <2> SUFFICES ASSUME RegistryInv, [RegistryNext]_registryVars PROVE RegistryInv'
      OBVIOUS
    <2>1. CASE Registrations
      BY <2>1, RegisterIsGood DEF Registrations
    <2>2. CASE Creations
      <3>1. PICK o \in OptionObjects \cup {"none"}, asked \in Names \cup {"undefined"},
                 fromTable \in BOOLEAN :
               /\ asked = "undefined" => ~fromTable
               /\ NewClient(asked, fromTable, o)
        BY <2>2, NamesAssumption DEF Creations
      <3> QED
        BY <3>1, NewClientIsGood
    <2>3. CASE Calls
      BY <2>3, CallsAreGood
    <2>4. CASE UNCHANGED registryVars
      BY <2>4
      DEF registryVars, RegistryInv, RegistryTypeOK, NamesAreRegistered, DefaultIsUsable,
         ClientsAreCurrent, CallsHaveClients, CustomUntilFirst, FetchNamesContentType, HeadersGoOnce, IsFetch, Options
    <2> QED
      BY <2>1, <2>2, <2>3, <2>4 DEF RegistryNext
  <1> QED
    BY <1>1, RegistryInitIsGood, PTL DEF RegistrySpec

\* TRANSPORT_TYPES, TransportGenerators, clients and requests keep their types.
THEOREM RegistryTypeCorrect == RegistrySpec => []RegistryTypeOK
  <1>1. RegistryInv => RegistryTypeOK
    BY DEF RegistryInv
  <1> QED
    BY <1>1, RegistryInvariance, PTL

\* A client that names no transport can always be made.
THEOREM DefaultAlwaysUsable == RegistrySpec => []DefaultIsUsable
  <1>1. RegistryInv => DefaultIsUsable
    BY DEF RegistryInv
  <1> QED
    BY <1>1, RegistryInvariance, PTL

\* Clients of one type, other than DEFAULT, have one transport.
THEOREM OneTransportPerType == RegistrySpec => []SameTypeSameTransport
  <1>1. RegistryInv => SameTypeSameTransport
    BY DEF RegistryInv, ClientsAreCurrent, SameTypeSameTransport
  <1> QED
    BY <1>1, RegistryInvariance, PTL

\* Every request of the fetch transport names its content type.
THEOREM ContentTypeIsNamed == RegistrySpec => []FetchNamesContentType
  <1>1. RegistryInv => FetchNamesContentType
    BY DEF RegistryInv
  <1> QED
    BY <1>1, RegistryInvariance, PTL

\* The headers in fetchOptions go with the first request of the fetch transport
\* that has them, and with no other.
THEOREM HeadersGoWithTheFirst == RegistrySpec => []HeadersGoOnce
  <1>1. RegistryInv => HeadersGoOnce
    BY DEF RegistryInv
  <1> QED
    BY <1>1, RegistryInvariance, PTL

\* No registration replaces the generator of a name other than DEFAULT.
THEOREM GeneratorsStay == RegistrySpec => NamesKeepGenerators
  <1>1. ASSUME RegistryInv, [RegistryNext]_registryVars
        PROVE  [\A n \in Names \ {"DEFAULT"} :
                  generators[n] # "undefined" => generators'[n] = generators[n]]_registryVars
    <2>1. CASE Registrations
      <3>1. PICK m \in Names, g \in Generators, d \in BOOLEAN : Register(m, g, d)
        BY <2>1 DEF Registrations
      <3>2. m # "DEFAULT" => generators[m] = "undefined"
        BY <1>1, <3>1 DEF Register, RegistryInv, NamesAreRegistered
      <3>3. \A n \in Names \ {m} : generators'[n] = generators[n]
        BY <1>1, <3>1 DEF Register, RegistryInv, RegistryTypeOK
      <3> QED
        BY <3>2, <3>3
    <2>2. CASE ~Registrations
      <3>1. generators' = generators
        BY <1>1, <2>2
        DEF RegistryNext, Creations, NewClient, Calls, Fetch, Observe, Subscribe, registryVars
      <3> QED
        BY <3>1
    <2> QED
      BY <2>1, <2>2
  <1> QED
    BY <1>1, RegistryInvariance, PTL DEF RegistrySpec, NamesKeepGenerators
=============================================================================
