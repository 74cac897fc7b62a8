-------------------------- MODULE TwirpStreamProofs --------------------------
(***************************************************************************)
(* Lemmas about bodies, views and the turns of extractMessages, on which   *)
(* the proofs about the readers of a stream rest.                          *)
(***************************************************************************)
EXTENDS TwirpStream, FiniteSetTheorems, TLAPS

\* What IsBody says, in the form the proofs use it.
LEMMA BodyFacts ==
    ASSUME NEW b, IsBody(b)
    PROVE  /\ b.n \in Nat
           /\ \A i \in 1 .. b.n + 1 : b.start[i] \in Nat
           /\ \A i \in 1 .. b.n : b.head[i] \in Nat /\ b.head[i] >= 2
           /\ \A i \in 1 .. b.n : b.kind[i] \in FrameKind
           /\ b.start[1] = 0
           /\ \A i, j \in 1 .. b.n + 1 : i < j => b.start[i] + 2 <= b.start[j]
           /\ \A i, j \in 1 .. b.n + 1 : b.start[i] = b.start[j] => i = j
           /\ BodyLength(b) = b.start[b.n + 1]
           /\ BodyLength(b) \in Nat
           /\ Messages(b) \in 0 .. b.n
           /\ Messages(b) < b.n => Messages(b) = b.n - 1 /\ b.kind[b.n] # "message"
           /\ \A i \in 1 .. b.n : b.kind[i] = "message" <=> i <= Messages(b)
<1> USE DEF IsBody
<1>1. /\ b.n \in Nat
      /\ \A i \in 1 .. b.n + 1 : b.start[i] \in Nat
      /\ \A i \in 1 .. b.n : b.head[i] \in Nat /\ b.head[i] >= 2
      /\ \A i \in 1 .. b.n : b.kind[i] \in FrameKind
      /\ b.start[1] = 0
  OBVIOUS
<1>2. \A i, j \in 1 .. b.n + 1 : i < j => b.start[i] + 2 <= b.start[j]
  <2> SUFFICES ASSUME NEW i \in 1 .. b.n + 1, NEW j \in 1 .. b.n + 1, i < j
               PROVE  b.start[i] + 2 <= b.start[j]
    OBVIOUS
  <2>1. i \in 1 .. b.n /\ j \in i + 1 .. b.n + 1
    BY <1>1
  <2>2. b.start[i] + b.head[i] <= b.start[j]
    BY <2>1
  <2>3. /\ b.start[i] \in Nat /\ b.start[j] \in Nat
        /\ b.head[i] \in Nat /\ b.head[i] >= 2
    BY <1>1, <2>1
  <2> HIDE DEF IsBody
  <2> QED
    BY <2>2, <2>3
<1>3. \A i, j \in 1 .. b.n + 1 : b.start[i] = b.start[j] => i = j
  <2> SUFFICES ASSUME NEW i \in 1 .. b.n + 1, NEW j \in 1 .. b.n + 1, i # j
               PROVE  b.start[i] # b.start[j]
    OBVIOUS
  <2>1. i < j \/ j < i
    BY <1>1
  <2> QED
    BY <1>1, <1>2, <2>1
<1>4. BodyLength(b) = b.start[b.n + 1] /\ BodyLength(b) \in Nat
  BY <1>1 DEF BodyLength
<1>5. /\ Messages(b) \in 0 .. b.n
      /\ Messages(b) < b.n => Messages(b) = b.n - 1 /\ b.kind[b.n] # "message"
  BY <1>1 DEF Messages
<1>6. \A i \in 1 .. b.n : b.kind[i] = "message" <=> i <= Messages(b)
  <2> SUFFICES ASSUME NEW i \in 1 .. b.n
               PROVE  b.kind[i] = "message" <=> i <= Messages(b)
    OBVIOUS
  <2>1. CASE i < b.n
    BY <1>1, <2>1 DEF Messages
  <2>2. CASE i = b.n
    BY <1>1, <2>2 DEF Messages
  <2> QED
    BY <1>1, <2>1, <2>2
<1> QED
  BY <1>1, <1>2, <1>3, <1>4, <1>5, <1>6

\* The views the code builds are views.
LEMMA ViewFacts ==
    /\ Empty \in View
    /\ \A from, to \in Nat : from < to => Chunk(from, to) \in View
    /\ \A v \in View : First(v) \in Nat
    /\ \A aa, bb \in View : concatByteArrays(aa, bb) \in View
  BY DEF Empty, View, Chunk, First, concatByteArrays

\* concatByteArrays joins adjacent arrays without losing or repeating a byte.
LEMMA ConcatAdjacent ==
    ASSUME NEW aa \in View, NEW from \in Nat, NEW to \in Nat, from < to
    PROVE  /\ aa.len = 0 => concatByteArrays(aa, Chunk(from, to)) = Chunk(from, to)
           /\ aa.len # 0 =>
                 concatByteArrays(aa, Chunk(from, to)) =
                    [base |-> First(aa), off |-> 0, len |-> aa.len + (to - from)]
  BY DEF View, Chunk, First, concatByteArrays

\* The shape of a turn's outcome.
TurnSet(b) ==
    [result : {"yield", "incomplete", "return"} \cup Thrown,
     frame : 0 .. b.n, next : Nat, rest : View]

LEMMA TurnType ==
    ASSUME NEW b, IsBody(b), NEW v \in View, NEW p \in Nat, NEW turn \in Turns(b, v, p)
    PROVE  turn \in TurnSet(b)
<1> USE BodyFacts
<1>1. ASSUME NEW i \in 1 .. b.n, v.off = 0, turn = TurnAtFrame(b, i, v, p)
      PROVE  turn \in TurnSet(b)
  <2>1. b.start[i] \in Nat /\ b.start[i + 1] \in Nat /\ b.start[i] <= b.start[i + 1]
    OBVIOUS
  <2>2. b.head[i] \in Nat
    OBVIOUS
  <2> QED
    BY <1>1, <2>1, <2>2
    DEF TurnAtFrame, DanglingTag, CutShort, Trailer, TurnSet, Throw, Incomplete, Return, Yield, From, Chunk,
        First, Empty, View, Thrown
<1>2. ASSUME turn \in StrayTurns(v, p)
      PROVE  turn \in TurnSet(b)
  BY <1>2 DEF StrayTurns, TurnSet, Throw, Incomplete, Return, Yield, From,
              Chunk, First, Empty, View, Thrown
<1> QED
  BY <1>1, <1>2 DEF Turns

\* A position strictly inside a frame is no boundary.
LEMMA InsideAFrame ==
    ASSUME NEW b, IsBody(b), NEW i \in 1 .. b.n, NEW at \in Nat,
           b.start[i] < at, at < b.start[i + 1]
    PROVE  at \notin Boundaries(b)
<1> SUFFICES ASSUME NEW j \in 1 .. b.n + 1, at = b.start[j]
             PROVE  FALSE
  BY DEF Boundaries
<1>1. i + 1 \in 1 .. b.n + 1 /\ i \in 1 .. b.n + 1
  BY BodyFacts
<1>2. b.start[i] \in Nat /\ b.start[j] \in Nat /\ b.start[i + 1] \in Nat
  BY <1>1, BodyFacts
<1>3. j < i \/ j = i \/ j = i + 1 \/ i + 1 < j
  BY BodyFacts
<1>4. (j < i => b.start[j] < b.start[i]) /\ (i + 1 < j => b.start[i + 1] < b.start[j])
  BY <1>1, <1>2, BodyFacts
<1> QED
  BY <1>2, <1>3, <1>4

\* At the first byte of a frame, an aligned view leaves one outcome of a turn.
LEMMA AlignedTurn ==
    ASSUME NEW b, IsBody(b), NEW v, NEW p, v.off = 0,
           NEW i \in 1 .. b.n, b.start[i] = First(v) + p
    PROVE  Turns(b, v, p) = {TurnAtFrame(b, i, v, p)}
<1>1. \A j \in 1 .. b.n : b.start[j] = b.start[i] => j = i
  BY BodyFacts
<1> QED
  BY <1>1 DEF Turns

\* What each outcome of a turn at frame i says of the bytes that are there.
LEMMA TurnCases ==
    ASSUME NEW b, IsBody(b), NEW v \in View, v.off = 0, NEW p \in Nat, p < v.len,
           NEW i \in 1 .. b.n, NEW turn, turn = TurnAtFrame(b, i, v, p)
    PROVE  /\ turn.result = "yield" =>
                 /\ turn.frame = i
                 /\ turn.next = p + b.start[i + 1] - b.start[i]
                 /\ turn.next <= v.len
                 /\ b.kind[i] = "message"
           /\ turn.result = "incomplete" =>
                 /\ v.len < p + b.start[i + 1] - b.start[i]
                 /\ First(turn.rest) = v.base + p
                 /\ turn.rest.len = v.len - p
           /\ turn.result = "return" =>
                 /\ b.kind[i] = "EOF"
                 /\ p + b.start[i + 1] - b.start[i] <= v.len
           /\ turn.result = "TwirpError" => b.kind[i] = "error"
           /\ turn.result = "notTwirp" => b.kind[i] = "junk"
           /\ turn.result = "huge" => b.kind[i] = "huge"
           /\ turn.result = "RangeError" => b.head[i] > 2
<1> DEFINE next == p + b.start[i + 1] - b.start[i]
<1>1. /\ b.start[i] \in Nat /\ b.start[i + 1] \in Nat /\ b.start[i] + 2 <= b.start[i + 1]
      /\ b.head[i] \in Nat /\ b.kind[i] \in FrameKind
      /\ v.len \in Nat /\ v.base \in Nat
  BY BodyFacts DEF View
<1>2. CASE b.kind[i] = "junk"
  BY <1>2 DEF TurnAtFrame, DanglingTag, CutShort, Trailer, Throw
<1>3. CASE b.kind[i] # "junk" /\ v.len - p <= 1
  BY <1>1, <1>3 DEF TurnAtFrame, DanglingTag, CutShort, Trailer, Incomplete, Chunk, First
<1>4. CASE b.kind[i] # "junk" /\ ~(v.len - p <= 1) /\ v.len - p < b.head[i]
  BY <1>1, <1>4 DEF TurnAtFrame, DanglingTag, CutShort, Trailer, Throw
<1>5. CASE ~(v.len - p <= 1) /\ ~(v.len - p < b.head[i]) /\ b.kind[i] = "huge"
  BY <1>1, <1>5 DEF TurnAtFrame, DanglingTag, CutShort, Trailer, Throw
<1>6. CASE /\ b.kind[i] \notin {"junk", "huge"} /\ ~(v.len - p <= 1)
           /\ ~(v.len - p < b.head[i]) /\ next > v.len
  BY <1>1, <1>6 DEF TurnAtFrame, DanglingTag, CutShort, Trailer, Incomplete, From, First
<1>7. CASE /\ b.kind[i] \notin {"junk", "huge"} /\ ~(v.len - p <= 1)
           /\ ~(v.len - p < b.head[i]) /\ ~(next > v.len)
  <2>1. turn = IF b.kind[i] = "EOF" THEN Return
               ELSE IF b.kind[i] = "error" THEN Throw("TwirpError")
               ELSE Yield(i, next)
    BY <1>7 DEF TurnAtFrame, DanglingTag, CutShort, Trailer
  <2>2. next <= v.len /\ (b.kind[i] \notin {"EOF", "error"} => b.kind[i] = "message")
    BY <1>1, <1>7 DEF FrameKind
  <2> QED
    BY <2>1, <2>2 DEF Return, Throw, Yield
<1> QED
  BY <1>1, <1>2, <1>3, <1>4, <1>5, <1>6, <1>7

\* The messages that arrive whole are the first ones.
LEMMA ArriveWholeFacts ==
    ASSUME NEW b, IsBody(b), NEW e \in Ends(b)
    PROVE  /\ Cardinality(ArriveWhole(b, e)) \in Nat
           /\ \A k \in ArriveWhole(b, e) : k <= Cardinality(ArriveWhole(b, e))
           /\ \A k \in 0 .. b.n :
                 ArriveWhole(b, e) = 1 .. k => Cardinality(ArriveWhole(b, e)) = k
<1>1. IsBody(b) /\ b.n \in Nat /\ Messages(b) \in 0 .. b.n
  BY BodyFacts
<1>2. e.at \in Nat
  BY <1>1, BodyFacts DEF Ends
<1>3. IsFiniteSet(1 .. Messages(b))
  BY <1>1, FS_Interval
<1>4. ArriveWhole(b, e) \subseteq 1 .. Messages(b)
  BY DEF ArriveWhole
<1>5. IsFiniteSet(ArriveWhole(b, e)) /\ Cardinality(ArriveWhole(b, e)) \in Nat
  BY <1>3, <1>4, FS_Subset, FS_CardinalityType
<1>6. ASSUME NEW k \in Nat
      PROVE  Cardinality(1 .. k) = k
  BY <1>6, FS_Interval
<1>7. ASSUME NEW k \in ArriveWhole(b, e)
      PROVE  k <= Cardinality(ArriveWhole(b, e))
  <2>1. k \in 1 .. Messages(b) /\ k \in Nat /\ k + 1 \in 1 .. b.n + 1
        /\ b.start[k + 1] <= e.at
    BY <1>1, <1>7 DEF ArriveWhole
  <2>2. ASSUME NEW i \in 1 .. k
        PROVE  i \in ArriveWhole(b, e)
    <3>1. /\ i \in 1 .. Messages(b)
          /\ i + 1 \in 1 .. b.n + 1
          /\ i + 1 < k + 1 \/ i + 1 = k + 1
      BY <1>1, <2>1
    <3>2. /\ b.start[i + 1] \in Nat /\ b.start[k + 1] \in Nat
          /\ b.start[i + 1] <= b.start[k + 1]
      BY <1>1, <2>1, <3>1, BodyFacts
    <3> QED
      BY <1>2, <2>1, <3>1, <3>2 DEF ArriveWhole
  <2>3. 1 .. k \subseteq ArriveWhole(b, e)
    BY <2>2
  <2>4. Cardinality(1 .. k) <= Cardinality(ArriveWhole(b, e))
    BY <1>5, <2>3, FS_Subset
  <2> QED
    BY <1>6, <2>1, <2>4
<1> QED
  BY <1>1, <1>5, <1>6, <1>7

\* If every byte up to the end has been taken by the first k messages, or by
\* all of them and a trailer EOF, then k messages arrived and nothing went wrong.
LEMMA DrainedIsComplete ==
    ASSUME NEW b, IsBody(b), NEW e \in Ends(b), e.how = "close",
           NEW k \in Nat, k <= Messages(b),
           \/ e.at = b.start[k + 1]
           \/ e.at = BodyLength(b) /\ k + 1 = b.n /\ b.kind[b.n] = "EOF"
    PROVE  k = Cardinality(ArriveWhole(b, e)) /\ Flawless(b, e)
<1>1. b.n \in Nat /\ Messages(b) \in 0 .. b.n /\ e.at \in Nat
  BY BodyFacts DEF Ends
<1>2. k \in 0 .. b.n /\ k + 1 \in 1 .. b.n + 1 /\ b.start[k + 1] \in Nat
  BY <1>1, BodyFacts
<1>3. CASE e.at = b.start[k + 1]
  <2>1. ASSUME NEW i \in 1 .. Messages(b)
        PROVE  b.start[i + 1] <= e.at <=> i <= k
    <3>1. i + 1 \in 1 .. b.n + 1 /\ b.start[i + 1] \in Nat
      BY <1>1, BodyFacts
    <3>2. CASE i < k
      BY <1>1, <1>2, <1>3, <3>1, <3>2, BodyFacts
    <3>3. CASE i = k
      BY <1>1, <1>2, <1>3, <3>1, <3>3
    <3>4. CASE i > k
      BY <1>1, <1>2, <1>3, <3>1, <3>4, BodyFacts
    <3> QED
      BY <1>1, <3>2, <3>3, <3>4
  <2>2. ArriveWhole(b, e) = 1 .. k
    BY <1>1, <2>1 DEF ArriveWhole
  <2>3. e.at = BodyLength(b) => k = b.n
    <3>1. b.n + 1 \in 1 .. b.n + 1
      BY <1>1
    <3>2. b.start[k + 1] = b.start[b.n + 1] => k + 1 = b.n + 1
      BY <1>1, <1>2, <3>1, BodyFacts
    <3>3. k + 1 = b.n + 1 => k = b.n
      BY <1>1
    <3> QED
      BY <1>3, <3>2, <3>3 DEF BodyLength
  <2>4. e.at = BodyLength(b) => b.n = 0 \/ b.kind[b.n] = "message"
    BY <1>1, <2>3, BodyFacts
  <2> QED
    BY <1>1, <1>2, <2>2, <2>4, ArriveWholeFacts DEF Flawless
<1>4. CASE e.at = BodyLength(b) /\ k + 1 = b.n /\ b.kind[b.n] = "EOF"
  <2>1. Messages(b) = k
    BY <1>1, <1>4 DEF Messages
  <2>2. ASSUME NEW i \in 1 .. Messages(b)
        PROVE  b.start[i + 1] <= e.at
    <3>1. i + 1 \in 1 .. b.n + 1 /\ b.n + 1 \in 1 .. b.n + 1 /\ i + 1 < b.n + 1
      BY <1>1, <1>4, <2>1
    <3>2. b.start[i + 1] \in Nat /\ b.start[b.n + 1] \in Nat
          /\ b.start[i + 1] + 2 <= b.start[b.n + 1]
      BY <1>1, <3>1, BodyFacts
    <3> QED
      BY <1>4, <3>2 DEF BodyLength
  <2>3. ArriveWhole(b, e) = 1 .. k
    BY <2>1, <2>2 DEF ArriveWhole
  <2> QED
    BY <1>1, <1>2, <1>4, <2>3, ArriveWholeFacts DEF Flawless
<1> QED
  BY <1>3, <1>4
==============================================================================
