------------------------- MODULE FetchStreamProofs -------------------------
(***************************************************************************)
(* Proofs about FetchStream, for every set of bodies, every way the        *)
(* network cuts a body into chunks and every way the body ends.            *)
(***************************************************************************)
EXTENDS FetchStream, TwirpStreamProofs

\* The variables no step changes are always needed one by one.
USE DEF response

----------------------------------------------------------------------------
\* TypeOK holds at the start.
LEMMA TypeInit == Init => TypeOK
<1> SUFFICES ASSUME Init
             PROVE  TypeOK
  OBVIOUS
<1>1. IsBody(body)
  BY BodiesAssumption DEF Init
<1>2. BodyLength(body) \in Nat
  BY <1>1, BodyFacts
<1>3. end \in Ends(body) /\ 0 \in 0 .. end.at
  BY <1>2 DEF Init, Ends
<1>4. delivered \in Seq(0 .. body.n)
  BY DEF Init
<1> QED
  BY <1>1, <1>3, <1>4, ViewFacts DEF Init, TypeOK, Outcome, Phase

\* A step keeps the types.
LEMMA TypeStep == TypeOK /\ [Next]_vars => TypeOK'
<1> SUFFICES ASSUME TypeOK, [Next]_vars
             PROVE  TypeOK'
  OBVIOUS
<1>0. /\ IsBody(body) /\ end \in Ends(body) /\ end.at \in Nat
      /\ got \in Nat /\ got <= end.at
  <2>1. BodyLength(body) \in Nat
    BY BodyFacts DEF TypeOK
  <2> QED
    BY <2>1 DEF TypeOK, Ends
<1>1. ASSUME NEW chunk \in View, BeginExtracting(chunk), got' \in 0 .. end.at
      PROVE  TypeOK'
  <2>1. view' \in View
    BY <1>1, ViewFacts DEF BeginExtracting, TypeOK
  <2>2. pos' \in Nat
    BY <1>1, <2>1 DEF BeginExtracting, ReaderStart, View
  <2> QED
    BY <1>1, <2>1, <2>2, ViewFacts DEF BeginExtracting, TypeOK, Phase
<1>2. ASSUME NEW how \in Outcome, Settle(how)
      PROVE  TypeOK'
  BY <1>2 DEF Settle, TypeOK
<1>3. CASE ReadChunk
  <2>1. PICK to \in got + 1 .. end.at : got' = to /\ BeginExtracting(Chunk(got, to))
    BY <1>3 DEF ReadChunk
  <2>2. Chunk(got, to) \in View
    BY <1>0, ViewFacts
  <2> QED
    BY <1>0, <1>1, <2>1, <2>2
<1>4. CASE ReadDone
  BY <1>0, <1>1, <1>2, <1>4, ViewFacts DEF ReadDone, Outcome
<1>5. CASE ReadFails
  BY <1>2, <1>5 DEF ReadFails, Outcome
<1>6. CASE Extract
  <2>1. PICK turn \in Turns(body, view, pos) : Take(turn)
    BY <1>6 DEF Extract
  <2>2. turn \in TurnSet(body)
    BY <1>0, TurnType DEF TypeOK
  <2>3. CASE turn.result = "yield" /\ ~Settle("callback")
    <3>1. turn.frame \in 0 .. body.n /\ turn.next \in Nat
      BY <2>2 DEF TurnSet
    <3>2. /\ delivered' = Append(delivered, turn.frame)
          /\ pos' = turn.next
          /\ phase' \in Phase
          /\ UNCHANGED <<response, got, leftover, view, outcome>>
      BY <2>1, <2>3 DEF Take, Thrown, Phase
    <3>3. delivered' \in Seq(0 .. body.n)
      BY <3>1, <3>2 DEF TypeOK
    <3> QED
      BY <3>1, <3>2, <3>3 DEF TypeOK
  <2>4. CASE turn.result = "incomplete" \/ turn.result = "return"
    <3>1. turn.rest \in View
      BY <2>2 DEF TurnSet
    <3> QED
      BY <2>1, <2>4, <3>1 DEF Take, Thrown, TypeOK, Phase
  <2>5. CASE Settle("callback")
    BY <1>2, <2>5 DEF Outcome
  <2>6. CASE turn.result \in Thrown
    BY <1>2, <2>1, <2>6 DEF Take, Thrown, Outcome
  <2> QED
    BY <2>2, <2>3, <2>4, <2>5, <2>6 DEF TurnSet
<1>7. CASE Settled \/ UNCHANGED vars
  BY <1>7 DEF Settled, vars, TypeOK
<1>8. CASE RequestFails \/ StatusFails \/ Unusable \/ Answer
  BY <1>2, <1>8 DEF RequestFails, StatusFails, Unusable, Answer, Outcome
<1>9. CASE GetBody
  BY <1>9 DEF GetBody, TypeOK, Phase
<1> QED
  BY <1>3, <1>4, <1>5, <1>6, <1>7, <1>8, <1>9 DEF Next

\* TypeOK holds of every reachable state of readFromStream, whatever bytes the
\* network delivers and even if the body is cut inside a frame.
THEOREM TypeCorrect == Spec => []TypeOK
  BY TypeInit, TypeStep, PTL DEF Spec

----------------------------------------------------------------------------
LEMMA ProgressInit == Init => Progress
<1> SUFFICES ASSUME Init
             PROVE  Progress
  OBVIOUS
<1>1. IsBody(body)
  BY BodiesAssumption DEF Init
<1>2. Len(delivered) = 0 /\ delivered = [i \in 1 .. Len(delivered) |-> i]
  BY DEF Init
<1> QED
  BY <1>1, <1>2, BodyFacts DEF Init, Progress, BeforeReading, Empty, Thrown

\* Joining the leftover bytes to the next chunk restores the loop's invariant.
LEMMA ChunkProgress ==
    TypeOK /\ ~Truncated /\ Progress /\ ReadChunk => Progress'
<1> SUFFICES ASSUME TypeOK, Progress, ReadChunk
             PROVE  Progress'
  OBVIOUS
<1> DEFINE L == Len(delivered)
<1>1. PICK to \in got + 1 .. end.at : got' = to /\ BeginExtracting(Chunk(got, to))
  BY DEF ReadChunk
<1>2. /\ IsBody(body) /\ got \in Nat /\ end.at \in Nat /\ to \in Nat /\ got < to
      /\ to <= BodyLength(body) /\ L \in Nat
  <2>1. BodyLength(body) \in Nat
    BY BodyFacts DEF TypeOK
  <2>2. end.at \in 0 .. BodyLength(body)
    BY DEF TypeOK, Ends
  <2> QED
    BY <2>1, <2>2 DEF TypeOK
<1>3. WhileReading
  BY DEF ReadChunk, Progress
<1>4. L < body.n /\ L + 1 \in 1 .. body.n + 1 /\ body.start[L + 1] \in Nat
  <2>1. L <= body.n
    BY <1>2, BodyFacts DEF Progress
  <2>2. CASE leftover.len = 0
    <3>1. got = body.start[L + 1]
      BY <1>2, <1>3, <2>2, BodyFacts DEF WhileReading, Drained
    <3> QED
      BY <1>2, <2>1, <3>1, BodyFacts
  <2>3. CASE leftover.len # 0
    BY <1>2, <1>3, <2>3, BodyFacts DEF WhileReading
  <2> QED
    BY <2>2, <2>3
<1> HIDE DEF L
<1>5. /\ leftover' = Empty /\ phase' = "extracting"
      /\ UNCHANGED <<response, delivered, outcome>>
      /\ view' = concatByteArrays(leftover, Chunk(got, to))
      /\ pos' = view'.off
  BY <1>1 DEF BeginExtracting, ReaderStart
<1>6. /\ view'.off = 0 /\ 0 < view'.len
      /\ view'.base = body.start[L + 1]
      /\ view'.base + view'.len = to
  <2>1. leftover \in View
    BY DEF TypeOK
  <2>2. CASE leftover.len = 0
    <3>1. view' = Chunk(got, to)
      BY <1>2, <1>5, <2>1, <2>2, ConcatAdjacent
    <3>2. got = body.start[L + 1]
      BY <1>2, <1>3, <1>4, <2>2, BodyFacts DEF WhileReading, Drained, L
    <3> QED
      BY <1>2, <3>1, <3>2 DEF Chunk
  <2>3. CASE leftover.len # 0
    <3>1. view' = [base |-> First(leftover), off |-> 0, len |-> leftover.len + (to - got)]
      BY <1>2, <1>5, <2>1, <2>3, ConcatAdjacent
    <3>2. /\ First(leftover) = body.start[L + 1]
          /\ First(leftover) + leftover.len = got
          /\ leftover.len \in Nat
      BY <1>3, <2>1, <2>3 DEF WhileReading, View, L
    <3> QED
      BY <1>2, <1>4, <3>1, <3>2
  <2> QED
    BY <2>2, <2>3
<1>7. WhileExtracting'
  BY <1>1, <1>2, <1>4, <1>5, <1>6 DEF WhileExtracting, L
<1> QED
  BY <1>5, <1>7 DEF Progress, BeforeReading, HasCause, ReadChunk, Thrown

\* A turn of the for loop keeps it, whether the loop goes on, stops or throws.
LEMMA ExtractProgress ==
    TypeOK /\ ~Truncated /\ Progress /\ Extract => Progress'
<1> SUFFICES ASSUME TypeOK, Progress, Extract
             PROVE  Progress'
  OBVIOUS
<1> DEFINE L == Len(delivered)
           next == pos + body.start[L + 2] - body.start[L + 1]
<1>1. /\ IsBody(body) /\ L \in Nat /\ got \in Nat /\ pos \in Nat /\ got <= BodyLength(body)
      /\ view.base \in Nat /\ view.off \in Nat /\ view.len \in Nat
  <2>1. BodyLength(body) \in Nat
    BY BodyFacts DEF TypeOK
  <2>2. end.at \in 0 .. BodyLength(body)
    BY DEF TypeOK, Ends
  <2> QED
    BY <2>1, <2>2 DEF TypeOK, View
<1>2. WhileExtracting /\ outcome = "pending" /\ streaming
  BY DEF Extract, Progress, BeforeReading
<1>3. /\ L < body.n /\ leftover = Empty /\ view.off = 0 /\ pos < view.len
      /\ view.base + pos = body.start[L + 1]
      /\ view.base + view.len = got
  BY <1>2 DEF WhileExtracting
<1>4. /\ body.n \in Nat /\ L + 1 \in 1 .. body.n
      /\ body.start[L + 1] \in Nat /\ body.start[L + 2] \in Nat
      /\ body.start[L + 1] + 2 <= body.start[L + 2]
      /\ body.head[L + 1] \in Nat
  <2>1. body.n \in Nat /\ L < body.n /\ L \in Nat
    BY <1>1, <1>3, BodyFacts
  <2> HIDE DEF L
  <2>2. L + 1 \in 1 .. body.n /\ L + 1 \in 1 .. body.n + 1 /\ L + 2 \in 1 .. body.n + 1
    BY <2>1
  <2> QED
    BY <1>1, <2>1, <2>2, BodyFacts
<1> HIDE DEF L
<1>0. next = pos + body.start[L + 2] - body.start[L + 1]
  OBVIOUS
<1> HIDE DEF next
<1>5. PICK turn : turn = TurnAtFrame(body, L + 1, view, pos) /\ Take(turn)
  <2>1. body.start[L + 1] = First(view) + pos
    BY <1>1, <1>3 DEF First
  <2> QED
    BY <1>1, <1>3, <1>4, <2>1, AlignedTurn DEF Extract
<1>6. /\ turn.result = "yield" =>
            /\ turn.frame = L + 1 /\ turn.next = next /\ next <= view.len
            /\ body.kind[L + 1] = "message"
      /\ turn.result = "incomplete" =>
            /\ view.len < next
            /\ First(turn.rest) = view.base + pos
            /\ turn.rest.len = view.len - pos
      /\ turn.result = "return" => body.kind[L + 1] = "EOF" /\ next <= view.len
      /\ turn.result = "TwirpError" => body.kind[L + 1] = "error"
      /\ turn.result = "notTwirp" => body.kind[L + 1] = "junk"
      /\ turn.result = "huge" => body.kind[L + 1] = "huge"
      /\ turn.result = "RangeError" => body.head[L + 1] > 2
  <2>1. view \in View /\ L + 1 + 1 = L + 2
    BY <1>1 DEF TypeOK
  <2> QED
    BY <1>0, <1>1, <1>3, <1>4, <1>5, <2>1, TurnCases
<1>7. CASE turn.result = "yield" /\ ~Settle("callback")
  <2>1. L + 1 <= Messages(body)
    BY <1>1, <1>4, <1>6, <1>7, BodyFacts
  <2>2. /\ delivered' = Append(delivered, L + 1)
        /\ pos' = next
        /\ phase' = IF next >= view.len THEN "reading" ELSE "extracting"
        /\ UNCHANGED <<response, got, leftover, view, outcome>>
    BY <1>5, <1>6, <1>7 DEF Take, Thrown
  <2>3. delivered' = [i \in 1 .. Len(delivered') |-> i] /\ Len(delivered') = L + 1
    BY <2>2 DEF TypeOK, Progress, L
  <2>4. next \in Nat /\ view.base + next = body.start[L + 2]
    BY <1>1, <1>0, <1>3, <1>4
  <2>5. Len(delivered') + 1 = L + 2
    BY <1>1, <2>3
  <2>6. CASE next >= view.len
    <3>1. got = body.start[L + 2]
      BY <1>1, <1>0, <1>3, <1>4, <1>6, <1>7, <2>4, <2>6
    <3>2. phase' = "reading" /\ leftover'.len = 0 /\ Drained'
      BY <1>3, <2>2, <2>5, <2>6, <3>1 DEF Drained, Empty, L
    <3> QED
      BY <1>2, <2>1, <2>2, <2>3, <3>2 DEF Progress, BeforeReading, WhileReading, Thrown, L
  <2>7. CASE ~(next >= view.len)
    <3>1. body.start[L + 2] < got
      BY <1>1, <1>3, <1>4, <2>4, <2>7
    <3>2. L + 1 # body.n
      BY <1>1, <1>4, <3>1, BodyFacts DEF BodyLength
    <3>3. L + 1 < body.n
      BY <1>4, <3>2
    <3>4. WhileExtracting'
      BY <1>1, <1>3, <2>2, <2>3, <2>4, <2>5, <2>7, <3>3 DEF WhileExtracting, L
    <3> QED
      BY <1>2, <2>1, <2>2, <2>3, <2>7, <3>4 DEF Progress, BeforeReading, Thrown
  <2> QED
    BY <2>6, <2>7
<1>8. CASE turn.result = "incomplete"
  <2>1. /\ leftover' = turn.rest /\ phase' = "reading"
        /\ UNCHANGED <<response, got, view, pos, delivered, outcome>>
    BY <1>5, <1>8 DEF Take, Thrown
  <2>2. /\ leftover'.len # 0
        /\ First(leftover') = body.start[L + 1]
        /\ First(leftover') + leftover'.len = got
        /\ got < body.start[L + 2]
    BY <1>1, <1>0, <1>3, <1>4, <1>6, <1>8, <2>1
  <2>3. WhileReading'
    BY <1>3, <2>1, <2>2 DEF WhileReading, First, L
  <2> QED
    BY <1>2, <2>1, <2>3 DEF Progress, BeforeReading, Thrown
<1>9. CASE turn.result = "return"
  <2>1. L + 1 = body.n
    <3>1. \A i \in 1 .. body.n : i < body.n => body.kind[i] = "message"
      BY <1>1 DEF IsBody
    <3> QED
      BY <1>4, <1>6, <1>9, <3>1
  <2>2. got = BodyLength(body)
    <3>1. L + 2 = body.n + 1
      BY <1>1, <1>4, <2>1
    <3>2. BodyLength(body) = body.start[L + 2]
      BY <3>1 DEF BodyLength
    <3> QED
      BY <1>1, <1>0, <1>3, <1>4, <1>6, <1>9, <3>2
  <2>3. phase' = "reading" /\ UNCHANGED <<response, got, leftover, view, pos, delivered, outcome>>
    BY <1>5, <1>9 DEF Take, Thrown
  <2>4. Drained'
    BY <1>6, <1>9, <2>1, <2>2, <2>3 DEF Drained, L
  <2>5. WhileReading'
    BY <1>3, <2>3, <2>4 DEF WhileReading, Empty
  <2> QED
    BY <1>2, <2>3, <2>5 DEF Progress, BeforeReading, Thrown
<1>10. CASE Settle("callback")
  BY <1>10 DEF Settle, Progress, BeforeReading, Thrown
<1>11. CASE turn.result \in Thrown
  <2>1. Settle(turn.result)
    BY <1>5, <1>11 DEF Take, Thrown
  <2>2. HasCause'
    BY <1>4, <1>6, <2>1 DEF Settle, HasCause, L
  <2> QED
    BY <1>11, <2>1, <2>2 DEF Settle, Progress, BeforeReading, Thrown
<1> QED
  <2>1. turn.result \in {"yield", "incomplete", "return"} \cup Thrown
    BY <1>5 DEF Take
  <2> QED
    BY <1>7, <1>8, <1>9, <1>10, <1>11, <2>1

\* No step changes the response.
LEMMA ConstantResponse == [Next]_vars => UNCHANGED response
<1>1. ASSUME NEW chunk, BeginExtracting(chunk)
      PROVE  UNCHANGED response
  BY <1>1 DEF BeginExtracting
<1>2. ASSUME NEW how, Settle(how)
      PROVE  UNCHANGED response
  BY <1>2 DEF Settle
<1>3. ASSUME NEW turn, Take(turn)
      PROVE  UNCHANGED response
  BY <1>2, <1>3 DEF Take
<1>4. ReadChunk \/ ReadDone \/ ReadFails \/ Extract => UNCHANGED response
  BY <1>1, <1>2, <1>3 DEF ReadChunk, ReadDone, ReadFails, Extract
<1>5. RequestFails \/ StatusFails \/ Unusable \/ GetBody \/ Answer => UNCHANGED response
  BY <1>2 DEF RequestFails, StatusFails, Unusable, GetBody, Answer
<1> QED
  BY <1>4, <1>5 DEF Next, Settled, vars

\* IInv is an invariant: what is known of the bytes between the last delivered
\* message and the next chunk survives every step of readFromStream.
LEMMA IInvInductive ==
    /\ Init => IInv
    /\ IInv /\ [Next]_vars => IInv'
<1>1. Init => IInv
  BY TypeInit, ProgressInit DEF IInv
<1>2. IInv /\ [Next]_vars => IInv'
  <2> SUFFICES ASSUME IInv, [Next]_vars
               PROVE  IInv'
    OBVIOUS
  <2>1. TypeOK /\ TypeOK'
    BY TypeStep DEF IInv
  <2>2. UNCHANGED response
    BY ConstantResponse
  <2>3. CASE Truncated
    BY <2>1, <2>2, <2>3 DEF IInv, Truncated
  <2>4. CASE ~Truncated
    <3>1. Progress
      BY <2>4 DEF IInv
    <3>2. ASSUME ReadDone
          PROVE  Progress'
      <4>1. WhileReading
        BY <3>1, <3>2 DEF ReadDone, Progress
      <4>2. CASE leftover.len = 0
        <5>1. Drained /\ Settle("resolved")
          BY <3>2, <4>1, <4>2 DEF ReadDone, WhileReading
        <5> QED
          BY <3>1, <3>2, <5>1 DEF ReadDone, Settle, Progress, BeforeReading, Drained, Thrown
      <4>3. CASE leftover.len # 0
        <5> DEFINE L == Len(delivered)
        <5>1. /\ IsBody(body) /\ L \in Nat /\ L < body.n /\ leftover \in View
              /\ First(leftover) = body.start[L + 1]
              /\ First(leftover) + leftover.len = end.at
              /\ end.at < body.start[L + 2] /\ end.at \in Nat
              /\ end.how = "close"
          <6>1. BodyLength(body) \in Nat
            BY <2>1, BodyFacts DEF TypeOK
          <6> QED
            BY <2>1, <3>2, <4>1, <4>3, <6>1 DEF TypeOK, ReadDone, WhileReading, Ends
        <5> HIDE DEF L
        <5>2. L + 1 \in 1 .. body.n /\ L + 1 + 1 = L + 2
          BY <5>1, BodyFacts
        <5>3. body.start[L + 1] < end.at
          BY <4>3, <5>1 DEF View, First
        <5>4. end.at \notin Boundaries(body)
          BY <5>1, <5>2, <5>3, InsideAFrame
        <5> QED
          BY <2>4, <3>1, <3>2, <5>1, <5>4
             DEF Truncated, CutInside, Progress, BeforeReading, ReadDone
      <4> QED
        BY <4>2, <4>3
    <3>3. ASSUME ReadFails \/ Settled \/ UNCHANGED vars
          PROVE  Progress'
      BY <3>1, <3>3 DEF ReadFails, Settle, Settled, vars, Progress, BeforeReading,
                        HasCause, Drained, WhileReading, WhileExtracting, Thrown
    <3>4. ASSUME NEW how \in Outcome \ Thrown, Settle(how),
                 outcome = "pending", phase \in {"requesting", "answering"},
                 how = "resolved" => ~streaming
          PROVE  Progress'
      BY <3>1, <3>4 DEF Settle, Progress, BeforeReading, HasCause
    <3>5. ASSUME RequestFails \/ StatusFails \/ Unusable
          PROVE  Progress'
      BY <3>4, <3>5 DEF RequestFails, StatusFails, Unusable, Outcome, Thrown
    <3>6. ASSUME GetBody
          PROVE  Progress'
      <4>1. Drained
        BY <2>1, <3>1, <3>6, BodyFacts DEF GetBody, Progress, BeforeReading, Drained, TypeOK
      <4> QED
        BY <3>1, <3>6, <4>1
           DEF GetBody, Progress, BeforeReading, WhileReading, Drained, Empty, Thrown
    <3>7. ASSUME Answer
          PROVE  Progress'
      BY <3>1, <3>4, <3>7 DEF Answer, Progress, BeforeReading, Outcome, Thrown
    <3>8. Progress'
      BY <2>1, <2>4, <3>1, <3>2, <3>3, <3>5, <3>6, <3>7, ChunkProgress, ExtractProgress
         DEF Next
    <3> QED
      BY <2>1, <3>8 DEF IInv
  <2> QED
    BY <2>3, <2>4
<1> QED
  BY <1>1, <1>2

\* What is known of the bytes between the last delivered message and the next
\* chunk holds for every body, every cut and every end.
THEOREM Invariance == Spec => []IInv
  BY IInvInductive, PTL DEF Spec

----------------------------------------------------------------------------
\* The callback gets the messages of a body that is not cut inside a frame in
\* order, none twice and none skipped, however the network cuts the chunks.
THEOREM DeliversInOrder == Spec => []InOrder
<1>1. IInv => InOrder
  BY DEF IInv, Progress, InOrder
<1> QED
  BY <1>1, Invariance, PTL

\* Between two calls of reader.read() the leftover bytes are exactly those
\* between the last delivered message and the next chunk.
THEOREM KeepsTheGap == Spec => []LeftoverIsTheGap
<1>1. IInv => LeftoverIsTheGap
  <2> SUFFICES ASSUME IInv, ~Truncated, outcome = "pending", phase = "reading",
                      leftover.len # 0
               PROVE  /\ First(leftover) = body.start[Len(delivered) + 1]
                      /\ First(leftover) + leftover.len = got
                      /\ body.start[Len(delivered) + 2] > got
    BY DEF LeftoverIsTheGap
  <2>1. WhileReading /\ IsBody(body) /\ Len(delivered) \in Nat /\ got \in Nat
    <3>1. BodyLength(body) \in Nat
      BY BodyFacts DEF IInv, TypeOK
    <3> QED
      BY <3>1 DEF IInv, Progress, TypeOK, Ends
  <2>2. body.start[Len(delivered) + 2] \in Nat
    BY <2>1, BodyFacts DEF WhileReading
  <2> QED
    BY <2>1, <2>2 DEF WhileReading
<1> QED
  BY <1>1, Invariance, PTL

\* When extractMessages throws, the frame after the last delivered message
\* accounts for it.
THEOREM FailsForACause == Spec => []FailureHasCause
<1>1. IInv => FailureHasCause
  BY DEF IInv, Progress, FailureHasCause
<1> QED
  BY <1>1, Invariance, PTL

\* If every byte up to the end has been taken, what was delivered is what
\* arrived, and the end is no error.
LEMMA NothingMissing ==
    ASSUME IInv, ~Truncated, Drained, got = end.at, end.how = "close"
    PROVE  Len(delivered) = Cardinality(ArriveWhole(body, end)) /\ Flawless(body, end)
<1>1. /\ IsBody(body) /\ end \in Ends(body) /\ Len(delivered) \in Nat
      /\ Len(delivered) <= Messages(body)
  BY DEF IInv, TypeOK, Progress
<1>2. \/ end.at = body.start[Len(delivered) + 1]
      \/ /\ end.at = BodyLength(body) /\ Len(delivered) + 1 = body.n
         /\ body.kind[body.n] = "EOF"
  BY DEF Drained
<1> QED
  BY <1>1, <1>2, DrainedIsComplete

\* The promise of a streaming call never resolves before every message that
\* arrived whole was handed over, nor after an error of the server.
THEOREM ResolvesComplete == Spec => []ResolvedIsComplete
<1>1. IInv => ResolvedIsComplete
  <2> SUFFICES ASSUME IInv, streaming, ~Truncated, outcome = "resolved"
               PROVE  /\ delivered = [i \in 1 .. Cardinality(ArriveWhole(body, end)) |-> i]
                      /\ Flawless(body, end)
    BY DEF ResolvedIsComplete
  <2>1. Drained /\ got = end.at /\ end.how = "close"
        /\ delivered = [i \in 1 .. Len(delivered) |-> i]
    BY DEF IInv, Progress
  <2> QED
    BY <2>1, NothingMissing
<1> QED
  BY <1>1, Invariance, PTL

----------------------------------------------------------------------------
\* If no frame is cut, a step that starts from a pending call is a step of
\* StreamDelivery.
LEMMA StepKeepsPromise ==
    IInv /\ IInv' /\ ~Truncated /\ [Next]_vars => [Promise!Next]_(Promise!vars)
<1> SUFFICES ASSUME IInv, IInv', ~Truncated, [Next]_vars
             PROVE  [Promise!Next]_(Promise!vars)
  OBVIOUS
<1> USE DEF Promise!vars
<1> DEFINE arriving == IF streaming THEN Cardinality(ArriveWhole(body, end)) ELSE 0
           flawless == streaming => Flawless(body, end)
<1>1. UNCHANGED <<streaming, arriving, flawless, Truncated>>
  BY ConstantResponse DEF ArriveWhole, Flawless, Truncated
<1>2. Handed = delivered /\ Handed' = delivered'
  BY <1>1 DEF Handed
<1>3. TypeOK /\ Progress /\ Progress'
  BY <1>1 DEF IInv
<1>4. ASSUME UNCHANGED <<delivered, outcome>>
      PROVE  UNCHANGED <<arriving, flawless, Handed, Verdict>>
  BY <1>1, <1>2, <1>4 DEF Verdict
<1>5. ASSUME outcome = "pending", outcome' \notin {"pending", "resolved"}, delivered' = delivered
      PROVE  Promise!Fail
  BY <1>1, <1>2, <1>5 DEF Promise!Fail, Verdict
<1>6. CASE ReadChunk
  BY <1>4, <1>6 DEF ReadChunk, BeginExtracting
<1>7. CASE ReadDone
  <2>1. CASE leftover.len = 0
    <3>1. Settle("resolved") /\ Drained /\ got = end.at /\ end.how = "close"
          /\ outcome = "pending" /\ streaming
      BY <1>3, <1>7, <2>1 DEF ReadDone, Progress, WhileReading, BeforeReading
    <3>2. Len(delivered) = Cardinality(ArriveWhole(body, end)) /\ Flawless(body, end)
      BY <3>1, NothingMissing
    <3> QED
      BY <1>1, <1>2, <3>1, <3>2 DEF Settle, Promise!Next, Promise!Succeed, Verdict
  <2>2. CASE leftover.len # 0
    BY <1>4, <1>7, <2>2 DEF ReadDone, BeginExtracting
  <2> QED
    BY <2>1, <2>2
<1>8. CASE ReadFails
  BY <1>5, <1>8 DEF ReadFails, Settle, Promise!Next
<1>9. CASE Extract
  <2>1. PICK turn : Take(turn)
    BY <1>9 DEF Extract
  <2>2. outcome = "pending" /\ streaming
    BY <1>3, <1>9 DEF Extract, Progress, BeforeReading
  <2>3. CASE turn.result = "yield" /\ ~Settle("callback")
    <3>1. UNCHANGED <<response, got, outcome>> /\ delivered' = Append(delivered, turn.frame)
      BY <2>1, <2>3 DEF Take, Thrown
    <3>2. Len(delivered') = Len(delivered) + 1 /\ Len(delivered) \in Nat
      <4>1. turn.frame \in 0 .. body.n
        <5>1. delivered' \in Seq(0 .. body'.n) /\ delivered \in Seq(0 .. body.n)
          BY DEF IInv, TypeOK
        <5>2. delivered'[Len(delivered) + 1] = turn.frame /\ Len(delivered) + 1 \in 1 .. Len(delivered')
          BY <3>1, <5>1
        <5> QED
          BY <3>1, <5>1, <5>2
      <4> QED
        BY <1>3, <3>1, <4>1 DEF TypeOK
    <3>3. turn.frame = Len(delivered) + 1
      <4>1. delivered' = [i \in 1 .. Len(delivered) + 1 |-> i]
        BY <1>3, <3>2 DEF Progress
      <4>2. delivered'[Len(delivered) + 1] = Len(delivered) + 1
        BY <3>2, <4>1
      <4> QED
        BY <1>3, <3>1, <3>2, <4>2 DEF TypeOK
    <3>4. Len(delivered) + 1 \in ArriveWhole(body, end)
      <4> DEFINE L == Len(delivered)
      <4>1. L + 1 <= Messages(body) /\ L + 1 \in 1 .. Messages(body)
        BY <1>3, <3>1, <3>2, BodyFacts DEF Progress, TypeOK
      <4>2. body.start[L + 2] <= end.at
        <5>1. (outcome' = "pending" /\ phase' = "reading") \/ (outcome' = "pending" /\ phase' = "extracting")
          BY <2>1, <2>2, <2>3 DEF Take, Thrown
        <5>2. /\ IsBody(body) /\ body.n \in Nat /\ L + 2 \in 1 .. body.n + 1
              /\ body.start[L + 2] \in Nat /\ body.start[L + 2] <= BodyLength(body)
          <6>1. IsBody(body) /\ body.n \in Nat /\ Messages(body) <= body.n /\ L \in Nat
                /\ Messages(body) \in Nat
            BY <1>3, <3>2, BodyFacts DEF TypeOK
          <6> HIDE DEF L
          <6>2. L + 2 \in 1 .. body.n + 1 /\ body.n + 1 \in 1 .. body.n + 1
            BY <4>1, <6>1
          <6>3. L + 2 < body.n + 1 \/ L + 2 = body.n + 1
            BY <6>1, <6>2
          <6>4. body.start[L + 2] \in Nat /\ body.start[body.n + 1] \in Nat
            BY <6>1, <6>2, BodyFacts
          <6>5. body.start[L + 2] <= body.start[body.n + 1]
            BY <6>1, <6>2, <6>3, <6>4, BodyFacts
          <6> QED
            BY <6>1, <6>2, <6>4, <6>5 DEF BodyLength
        <5>3. Len(delivered') + 1 = L + 2 /\ got \in Nat /\ got <= end.at /\ end.at \in Nat
          BY <1>3, <3>2, <5>2, BodyFacts DEF TypeOK, Ends
        <5>4. CASE WhileReading'
          <6>1. leftover' \in View
            BY DEF IInv, TypeOK
          <6>2. CASE leftover'.len = 0
            <7>1. got = body.start[L + 2] \/ got = BodyLength(body)
              BY <3>1, <5>3, <5>4, <6>2 DEF WhileReading, Drained
            <7> QED
              BY <5>2, <5>3, <7>1
          <6>3. CASE leftover'.len # 0
            <7>1. body.start[L + 2] + leftover'.len = got
              BY <3>1, <5>3, <5>4, <6>3 DEF WhileReading
            <7> QED
              BY <5>2, <5>3, <6>1, <7>1 DEF View
          <6> QED
            BY <6>2, <6>3
        <5>5. CASE WhileExtracting'
          <6>1. view' \in View /\ pos' \in Nat
            BY DEF IInv, TypeOK
          <6>2. /\ view'.base + pos' = body.start[L + 2] /\ pos' < view'.len
                /\ view'.base + view'.len = got
            BY <3>1, <5>3, <5>5 DEF WhileExtracting
          <6> QED
            BY <5>2, <5>3, <6>1, <6>2 DEF View
        <5> QED
          BY <1>3, <5>1, <5>4, <5>5 DEF Progress
      <4> QED
        BY <3>2, <4>1, <4>2 DEF ArriveWhole
    <3>5. Len(delivered) < Cardinality(ArriveWhole(body, end))
      BY <1>3, <3>2, <3>4, ArriveWholeFacts DEF TypeOK
    <3> QED
      BY <1>1, <1>2, <2>2, <3>1, <3>3, <3>5 DEF Promise!Next, Promise!Deliver, Verdict
  <2>4. CASE Settle("callback")
    BY <1>5, <2>2, <2>4 DEF Settle, Promise!Next
  <2>5. CASE turn.result \in {"incomplete", "return"}
    BY <1>4, <2>1, <2>5 DEF Take, Thrown
  <2>6. CASE turn.result \in Thrown
    BY <1>5, <2>1, <2>2, <2>6 DEF Take, Thrown, Settle, Promise!Next
  <2> QED
    BY <2>1, <2>3, <2>4, <2>5, <2>6 DEF Take
<1>10. CASE Settled \/ UNCHANGED vars
  BY <1>4, <1>10 DEF Settled, vars
<1>11. CASE RequestFails \/ StatusFails \/ Unusable
  BY <1>5, <1>11 DEF RequestFails, StatusFails, Unusable, Settle, Promise!Next
<1>12. CASE GetBody
  BY <1>4, <1>12 DEF GetBody
<1>13. CASE Answer
  <2>1. outcome = "pending" /\ ~streaming /\ delivered = <<>> /\ delivered' = delivered
    BY <1>3, <1>13 DEF Answer, Settle, Progress, BeforeReading
  <2>2. CASE Settle("resolved")
    BY <1>1, <1>2, <2>1, <2>2 DEF Settle, Promise!Next, Promise!Succeed, Verdict
  <2>3. CASE Settle("callback") \/ Settle("network")
    BY <1>5, <2>1, <2>3 DEF Settle, Promise!Next
  <2> QED
    BY <1>13, <2>2, <2>3 DEF Answer
<1> QED
  BY <1>6, <1>7, <1>8, <1>9, <1>10, <1>11, <1>12, <1>13 DEF Next

\* readFromStream implements StreamDelivery on every body that is not cut
\* inside a frame: the caller can rely on the abstract promise alone.
THEOREM ImplementsStreamDelivery == Spec => KeepsPromise
<1>1. Init => Promise!Init
  <2> SUFFICES ASSUME Init
               PROVE  Promise!Init
    OBVIOUS
  <2>1. Cardinality(ArriveWhole(body, end)) \in Nat
    BY TypeInit, ArriveWholeFacts DEF TypeOK
  <2>2. Flawless(body, end) \in BOOLEAN
    BY DEF Flawless
  <2> QED
    BY <2>1, <2>2 DEF Init, Promise!Init, Verdict, Handed
<1>2. Truncated /\ [Next]_vars => UNCHANGED Promise!vars
  <2> SUFFICES ASSUME Truncated, [Next]_vars
               PROVE  UNCHANGED Promise!vars
    OBVIOUS
  <2>1. UNCHANGED <<streaming, ArriveWhole(body, end), Flawless(body, end), Truncated>>
    BY ConstantResponse DEF ArriveWhole, Flawless, Truncated
  <2> QED
    BY <2>1 DEF Promise!vars, Handed, Verdict
<1>3. IInv /\ IInv' /\ [Next]_vars => [Promise!Next]_(Promise!vars)
  BY <1>2, StepKeepsPromise
<1> QED
  BY <1>1, <1>3, Invariance, PTL DEF Spec, KeepsPromise, Promise!Spec
============================================================================
