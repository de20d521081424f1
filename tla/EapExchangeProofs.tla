------------------------- MODULE EapExchangeProofs --------------------------
(***************************************************************************)
(* Theorems about Reassembler, for every limit, every octet alphabet and   *)
(* every set of fragments; and about EapExchange, for every script of      *)
(* messages, every fragment size and every limit.                          *)
(***************************************************************************)
EXTENDS EapExchange, SequenceTheorems, FiniteSetTheorems, TLAPS

(***************************************************************************)
(* The reassembler alone.                                                  *)
(***************************************************************************)

MemoryInv     == TypeOK /\ Bounded
ReassemblyInv == MemoryInv /\ Intact /\ InProgress

\* A fragment's data extends the buffer by its length.
LEMMA Extended ==
    ASSUME TypeOK, NEW f \in Fragments
    PROVE  /\ buf \o f.data \in Seq(Octet)
           /\ Len(buf \o f.data) = Len(buf) + Len(f.data)
           /\ received \o f.data \in Seq(Octet)
           /\ f.data \in Seq(Octet) /\ f.more \in BOOLEAN
           /\ f.total \in Nat \cup {NoTotal}
           /\ <<>> \o f.data = f.data
<1>1. f.data \in Seq(Octet) /\ f.total \in Nat \cup {NoTotal} /\ f.more \in BOOLEAN
  BY FragmentAssumption DEF Fragment
<1> QED
  BY <1>1, ConcatProperties DEF TypeOK

LEMMA InitReassembly == Init => ReassemblyInv
<1> SUFFICES ASSUME Init PROVE ReassemblyInv
  OBVIOUS
<1>1. <<>> \in Seq(Octet) /\ Len(<<>>) = 0
  OBVIOUS
<1>2. More \in Outcomes
  BY <1>1 DEF More, Outcomes
<1> QED
  BY <1>1, <1>2, BoundAssumption
  DEF Init, ReassemblyInv, MemoryInv, TypeOK, Bounded, Intact, InProgress, More, NoTotal

\* The history keeps its type through every push.
LEMMA RecordType ==
    ASSUME TypeOK, NEW f \in Fragments, Record(f)
    PROVE  received' \in Seq(Octet) /\ declared' \in SUBSET Nat
<1>1. received' \in Seq(Octet)
  BY Extended DEF Record
<1>2. declared' \in SUBSET Nat
  BY Extended DEF Record, TypeOK
<1> QED
  BY <1>1, <1>2

\* Types and the memory bound survive every push, errors included.
LEMMA MemoryStep ==
    ASSUME MemoryInv, NEW f \in Fragments, Push(f)
    PROVE  MemoryInv'
<1> USE DEF MemoryInv
<1>1. received' \in Seq(Octet) /\ declared' \in SUBSET Nat
  BY RecordType DEF Push
<1>2. TotalAfter(f) \in Nat \cup {NoTotal}
  BY Extended DEF TotalAfter, TypeOK
<1>3. <<>> \in Seq(Octet) /\ Len(<<>>) = 0
  OBVIOUS
<1>4. Len(buf) \in Nat /\ Len(f.data) \in Nat
  BY Extended, LenProperties DEF TypeOK
<1>5. CASE Reject(f)
  <2>1. Error \in Outcomes /\ Error.message = <<>> /\ Error.tag = "Error"
    BY <1>3 DEF Error, Outcomes
  <2>2. buf' \in Seq(Octet) /\ Len(buf') <= MaxTotal
    BY <1>5, Extended DEF Reject, WithinTotal, TypeOK, Bounded
  <2>3. expectedTotal' \in Nat \cup {NoTotal} /\ fragments' \in Nat
    BY <1>2, <1>5 DEF Reject, TypeOK
  <2> QED
    BY <1>1, <1>3, <1>5, <2>1, <2>2, <2>3, BoundAssumption DEF Reject, TypeOK, Bounded
<1>6. CASE Accumulate(f)
  <2>1. More \in Outcomes /\ More.message = <<>>
    BY <1>3 DEF More, Outcomes
  <2>2. buf' \in Seq(Octet) /\ Len(buf') <= MaxTotal
    BY <1>6, Extended DEF Accumulate, Accepted, WithinTotal
  <2>3. fragments' \in Nat /\ fragments' <= MaxFragments
    BY <1>6 DEF Accumulate, Accepted, WithinCount, TypeOK
  <2> QED
    BY <1>1, <1>2, <1>3, <1>6, <2>1, <2>2, <2>3, BoundAssumption DEF Accumulate, TypeOK, Bounded
<1>7. CASE Finish(f)
  <2>1. /\ Complete(buf \o f.data) \in Outcomes
        /\ Complete(buf \o f.data).message = buf \o f.data
    BY Extended DEF Complete, Outcomes
  <2>2. Len(buf \o f.data) <= MaxTotal
    BY <1>7, Extended DEF Finish, Accepted, WithinTotal
  <2> QED
    BY <1>1, <1>3, <1>7, <2>1, <2>2, BoundAssumption DEF Finish, TypeOK, Bounded
<1> QED
  BY <1>5, <1>6, <1>7 DEF Push

\* Content survives every push of a caller that has seen no error.
LEMMA ContentStep ==
    ASSUME ReassemblyInv, result.tag # "Error", NEW f \in Fragments, Push(f)
    PROVE  Intact' /\ InProgress'
<1> USE DEF ReassemblyInv, MemoryInv
<1>1. result.tag \in {"More", "Complete"}
  BY DEF TypeOK, Outcomes
<1>2. Record(f)
  BY DEF Push
\* The data in the buffer and the history move in step.
<1>3. received' = buf \o f.data
  BY <1>1, <1>2 DEF Record, InProgress
<1>4. declared' = ({expectedTotal} \cup {f.total}) \ {NoTotal}
  BY <1>1, <1>2 DEF Record, InProgress
<1>5. TotalAgrees(f) => declared' = {TotalAfter(f)} \ {NoTotal}
  BY <1>4, Extended DEF TotalAgrees, TotalAfter, TypeOK, NoTotal
<1>6. CASE Reject(f)
  BY <1>6 DEF Reject, Error, Intact, InProgress
<1>7. CASE Accumulate(f)
  BY <1>3, <1>5, <1>7 DEF Accumulate, Accepted, More, Intact, InProgress
<1>8. CASE Finish(f)
  <2>1. result' = Complete(received') /\ fragments' = 0 /\ buf' = <<>>
    BY <1>3, <1>8 DEF Finish
  <2>2. \A t \in declared' : Len(received') = t
    BY <1>3, <1>5, <1>8, Extended DEF Finish, Accepted, LengthMatches
  <2> QED
    BY <1>8, <2>1, <2>2, BoundAssumption
    DEF Finish, Complete, Intact, InProgress
<1> QED
  BY <1>6, <1>7, <1>8 DEF Push

\* Memory and fragment count are bounded for any sequence of pushes, by a caller
\* that goes on after an error as well.
THEOREM MemoryIsBounded == Spec => [](TypeOK /\ Bounded)
<1>1. Init => MemoryInv
  BY InitReassembly DEF ReassemblyInv
<1>2. MemoryInv /\ [Next]_vars => MemoryInv'
  <2>1. ASSUME MemoryInv, Next PROVE MemoryInv'
    BY <2>1, MemoryStep DEF Next
  <2>2. ASSUME MemoryInv, UNCHANGED vars PROVE MemoryInv'
    BY <2>2 DEF vars, state, MemoryInv, TypeOK, Bounded
  <2> QED
    BY <2>1, <2>2
<1>3. MemoryInv => TypeOK /\ Bounded
  BY DEF MemoryInv
<1> QED
  BY <1>1, <1>2, <1>3, PTL DEF Spec

\* The callers of the program, which stop at an error, see intact messages: the
\* data of their fragments in order and of the declared length.
THEOREM MessagesAreIntact == HostedSpec => []Intact
<1>1. ReassemblyInv /\ [HostedNext]_vars => ReassemblyInv'
  <2>1. ASSUME ReassemblyInv, HostedNext PROVE ReassemblyInv'
    BY <2>1, MemoryStep, ContentStep DEF HostedNext, Next, ReassemblyInv
  <2>2. ASSUME ReassemblyInv, UNCHANGED vars PROVE ReassemblyInv'
    BY <2>2
    DEF vars, state, ReassemblyInv, MemoryInv, TypeOK, Bounded, Intact, InProgress
  <2> QED
    BY <2>1, <2>2
<1>2. ReassemblyInv => Intact
  BY DEF ReassemblyInv
<1> QED
  BY InitReassembly, <1>1, <1>2, PTL DEF HostedSpec

(***************************************************************************)
(* The exchange: where it stands.                                          *)
(***************************************************************************)

\* The requests that carry the server's n-th message, and the responses that
\* carry the client's.
Said(n)     == IF n = 1 THEN <<Start>> ELSE Pieces(FromServer[n], ServerChunk)
Answered(n) == Pieces(FromClient[n], MaxFragment)

\* What the first k pieces of a message carry.
Front(message, max, k) ==
    SubSeq(message, 1, IF k < Len(Pieces(message, max))
                       THEN k * (IF max > 1 THEN max ELSE 1) ELSE Len(message))

\* The reassembler has taken the first k pieces of a message of the server.
Holds(message, k) ==
    /\ buf = Front(message, ServerChunk, k)
    /\ fragments = k
    /\ expectedTotal = IF k = 0 THEN NoTotal ELSE Len(message)

\* The server's n-th message is under way, and its k-th piece the current request.
SpeakingAt(n, k) ==
    /\ Len(clientGot) = n - 1
    /\ outQueue = <<>> /\ heard = <<>>
    /\ current = Said(n)[k]
    /\ unsent = SubSeq(Said(n), k + 1, Len(Said(n)))
    /\ hostId = serverId => k < Len(Said(n))
    /\ result.tag # "Error" => Holds(FromServer[n], IF hostId = serverId THEN k ELSE k - 1)

\* The client's n-th flight is under way, and its j-th piece went out last.
AnsweringAt(n, j) ==
    /\ Len(clientGot) = n
    /\ unsent = <<>>
    /\ buf = <<>> /\ fragments = 0 /\ expectedTotal = NoTotal
    /\ outQueue = SubSeq(Answered(n), j + 1, Len(Answered(n)))
    /\ IF hostId = serverId
       THEN hostReply = Answered(n)[j] /\ heard = Front(FromClient[n], MaxFragment, j - 1)
       ELSE /\ j < Len(Answered(n)) /\ current = Ack
            /\ heard = Front(FromClient[n], MaxFragment, j)

\* The server has the last flight, and asks for nothing more.
Over ==
    /\ Len(clientGot) = Len(FromServer)
    /\ outQueue = <<>>
    /\ hostId # serverId /\ \A i \in 1..Len(requests) : requests[i].id = hostId

Turn == Len(serverGot) + 1

TurnInv ==
    \/ /\ Turn <= Len(FromServer)
       /\ \/ \E k \in 1..Len(Said(Turn)) : SpeakingAt(Turn, k)
          \/ \E j \in 1..Len(Answered(Turn)) : AnsweringAt(Turn, j)
    \/ Turn = Len(FromServer) + 1 /\ Over

\* The link is behind the two ends by no more than the request and the response
\* under way: every other packet on it is a repetition.
LinkInv ==
    /\ hostId \in {serverId - 1, serverId}
    /\ \A i \in 1..Len(requests) :
          /\ requests[i].id \in {hostId, serverId}
          /\ requests[i].id # hostId =>
                /\ requests[i].piece = current
                /\ \A j \in i..Len(requests) : requests[j].id # hostId
    /\ \A i \in 1..Len(responses) :
          /\ responses[i].id <= hostId
          /\ responses[i].id = serverId => responses[i].piece = hostReply

Packets == [id : Nat, piece : Fragment]

ExchangeTypeOK ==
    /\ outQueue \in Seq(Fragment) /\ unsent \in Seq(Fragment)
    /\ hostReply \in Fragment /\ current \in Fragment
    /\ clientGot \in Seq(Seq(Octet)) /\ serverGot \in Seq(Seq(Octet))
    /\ heard \in Seq(Octet)
    /\ hostId \in Nat /\ serverId \in Nat /\ losses \in Nat
    /\ requests \in Seq(Packets) /\ responses \in Seq(Packets)

ExchangeInv == ExchangeTypeOK /\ LinkInv /\ TurnInv

\* Until the client stops, it has counted the pieces that it has taken of the
\* messages of its phase, each once.
Now == Counted(Len(clientGot) + 1, fragments)

RoundsInv ==
    /\ rounds \in Nat
    /\ limits \in RoundLimits
    /\ ~Stopped => IsFiniteSet(Now) /\ rounds = Cardinality(Now)

(***************************************************************************)
(* What fragment makes of a message.                                       *)
(***************************************************************************)

\* A quotient rounded up is the least number of chunks that hold the length.
LEMMA RoundedUp ==
    ASSUME NEW length \in Nat, NEW chunk \in Nat \ {0}, chunk < length,
           NEW n, n = (length + chunk - 1) \div chunk
    PROVE  /\ n \in Nat \ {0, 1}
           /\ length <= n * chunk
           /\ \A k \in 0..n : k < n => k * chunk < length
<1>1. n \in Int /\ n * chunk <= length + chunk - 1 /\ length + chunk - 1 < n * chunk + chunk
  OBVIOUS
<1>2. length <= n * chunk
  BY <1>1
<1>3. n \in Nat \ {0, 1}
  BY <1>1, <1>2
<1>4. ASSUME NEW k \in 0..n, k < n PROVE k * chunk < length
  <2>1. k \in Int /\ k <= n - 1
    BY <1>1, <1>4
  <2>2. k * chunk <= (n - 1) * chunk
    BY <2>1, <1>1
  <2>3. (n - 1) * chunk = n * chunk - chunk
    BY <1>1
  <2> QED
    BY <1>1, <2>1, <2>2, <2>3
<1> QED
  BY <1>2, <1>3, <1>4

\* P carries the message from front to end, all but its last piece say that there
\* is more, and the first of several says how long the message is.
Carries(P, message, max) ==
    /\ P \in Seq(Fragment) /\ Len(P) \in Nat \ {0}
    /\ Front(message, max, 0) = <<>>
    /\ Front(message, max, Len(P)) = message
    /\ \A k \in 0..Len(P) :
          /\ Front(message, max, k) \in Seq(Octet)
          /\ Len(Front(message, max, k)) <= Len(message)
    /\ \A k \in 1..Len(P) :
          /\ (P[k].more <=> k < Len(P))
          /\ P[k].total = IF k = 1 /\ Len(P) > 1 THEN Len(message) ELSE NoTotal
          /\ P[k] # Start
          /\ Front(message, max, k - 1) \o P[k].data = Front(message, max, k)

\* fragment loses nothing of a message and adds nothing to it.
LEMMA PiecesCarryTheMessage ==
    ASSUME NEW message \in Seq(Octet), NEW max \in Nat
    PROVE  Carries(Pieces(message, max), message, max)
<1> DEFINE pieces   == Pieces(message, max)
           chunk    == IF max > 1 THEN max ELSE 1
           n        == (Len(message) + chunk - 1) \div chunk
           Upto(k)  == IF k < n THEN k * chunk ELSE Len(message)
           data(k)  == SubSeq(message, (k - 1) * chunk + 1, Upto(k))
           piece(k) == Piece(k < n, IF k = 1 THEN Len(message) ELSE NoTotal, data(k))
<1>1. chunk \in Nat \ {0} /\ Len(message) \in Nat
  OBVIOUS
<1>2. Len(message) <= chunk => pieces = <<Piece(FALSE, NoTotal, message)>>
  BY DEF Pieces
<1>3. chunk < Len(message) => pieces = [k \in 1..n |-> piece(k)]
  BY <1>1 DEF Pieces
<1>4. chunk < Len(message) =>
          /\ n \in Nat \ {0, 1} /\ Len(message) <= n * chunk
          /\ \A k \in 0..n : k < n => k * chunk < Len(message)
  BY <1>1, RoundedUp
<1>5. \A k : Front(message, max, k) =
               SubSeq(message, 1, IF k < Len(pieces) THEN k * chunk ELSE Len(message))
  BY DEF Front
<1>6. Start.total = 0
  BY DEF Start, Ack, Piece
<1>7. \A a \in 0..Len(message) : \A b \in a..Len(message) :
          SubSeq(message, 1, a) \o SubSeq(message, a + 1, b) = SubSeq(message, 1, b)
  <2> TAKE a \in 0..Len(message)
  <2> TAKE b \in a..Len(message)
  <2>1. 1 \in 1..Len(message) + 1 /\ a \in 1 - 1 .. Len(message)
    BY <1>1
  <2> QED
    BY <2>1, ConcatAdjacentSubSeq
<1> HIDE DEF pieces, n, chunk
<1>8. CASE Len(message) <= chunk
  <2> DEFINE only == Piece(FALSE, NoTotal, message)
  <2>1. only \in Fragment /\ pieces = <<only>>
    BY <1>2, <1>8 DEF Piece, Fragment
  <2>2. /\ ~only.more /\ only.total = NoTotal /\ only.data = message
        /\ only # Start
    BY <1>6 DEF Piece, NoTotal
  <2> HIDE DEF only
  <2>3. Len(pieces) = 1 /\ pieces[1] = only
    BY <2>1
  <2>4. pieces \in Seq(Fragment)
    BY <2>1
  <2>5. Front(message, max, 1) = message
    BY <1>5, <2>3, SubSeqFull
  <2>6. Front(message, max, 0) = <<>>
    BY <1>1, <1>5, <2>3, SubSeqEmpty
  <2>7. <<>> \o message = message
    BY ConcatEmptySeq
  <2>8. /\ ~pieces[1].more /\ pieces[1].total = NoTotal /\ pieces[1].data = message
        /\ pieces[1] # Start
    BY <2>3, <2>2
  <2>9. \A k \in 1..Len(pieces) : k = 1 /\ k - 1 = 0
    BY <2>3
  <2>10. ASSUME NEW k \in 1..Len(pieces)
         PROVE  /\ (pieces[k].more <=> k < Len(pieces))
                /\ pieces[k].total = IF k = 1 /\ Len(pieces) > 1 THEN Len(message) ELSE NoTotal
                /\ pieces[k] # Start
                /\ Front(message, max, k - 1) \o pieces[k].data = Front(message, max, k)
    <3>1. k = 1 /\ k - 1 = 0
      BY <2>9
    <3>2. (pieces[k].more <=> k < Len(pieces))
      BY <2>3, <2>8, <3>1
    <3>3. Front(message, max, k - 1) \o pieces[k].data = Front(message, max, k)
      BY <2>5, <2>6, <2>7, <2>8, <3>1
    <3> QED
      BY <2>3, <2>8, <3>1, <3>2, <3>3
  <2>11. \A k \in 0..Len(pieces) :
            /\ Front(message, max, k) \in Seq(Octet)
            /\ Len(Front(message, max, k)) <= Len(message)
    <3>1. \A k \in 0..Len(pieces) : k = 0 \/ k = 1
      BY <2>3
    <3> DEFINE nothing == Front(message, max, 0)
    <3>2. nothing = <<>>
      BY <2>6
    <3> HIDE DEF nothing
    <3>3. nothing \in Seq(Octet) /\ Len(nothing) = 0
      BY <3>2
    <3>4. Front(message, max, 0) \in Seq(Octet) /\ Len(Front(message, max, 0)) = 0
      BY <3>3 DEF nothing
    <3>5. Front(message, max, 1) \in Seq(Octet) /\ Len(Front(message, max, 1)) = Len(message)
      BY <2>5
    <3> QED
      BY <1>1, <3>1, <3>4, <3>5
  <2>12. Carries(pieces, message, max)
    BY <2>3, <2>4, <2>5, <2>6, <2>10, <2>11 DEF Carries
  <2> QED
    BY <2>12 DEF pieces
<1>9. CASE chunk < Len(message)
  <2>1. n \in Nat \ {0, 1} /\ \A k \in 0..n : k < n => k * chunk < Len(message)
    BY <1>4, <1>9
  <2>2. ASSUME NEW k \in 0..n
        PROVE  Upto(k) \in 0..Len(message) /\ (k < n => Upto(k) = k * chunk)
    <3>1. k * chunk \in Nat
      BY <1>1, <2>1
    <3> QED
      BY <1>1, <2>1, <3>1
  <2>3. Upto(0) = 0 /\ Upto(n) = Len(message)
    <3>1. 0 * chunk = 0
      BY <1>1
    <3> QED
      BY <2>1, <3>1
  <2>4. ASSUME NEW k \in 1..n
        PROVE  Upto(k - 1) = (k - 1) * chunk /\ Upto(k - 1) <= Upto(k)
    <3>1. k - 1 \in 0..n /\ k - 1 < n /\ k \in 0..n
      BY <2>1
    <3>2. Upto(k - 1) = (k - 1) * chunk /\ (k - 1) * chunk < Len(message)
      BY <2>1, <2>2, <3>1
    <3>3. (k - 1) * chunk <= k * chunk
      <4>1. k * chunk = (k - 1) * chunk + chunk /\ (k - 1) * chunk \in Int
        BY <1>1, <2>1
      <4> QED
        BY <1>1, <4>1
    <3>4. CASE k < n
      BY <2>2, <3>1, <3>2, <3>3, <3>4
    <3>5. CASE ~(k < n)
      BY <1>1, <3>2, <3>5
    <3> QED
      BY <3>4, <3>5
  <2> HIDE DEF Upto
  <2>5. ASSUME NEW k \in 1..n PROVE piece(k) \in Fragment
    <3>1. k - 1 \in 0..n /\ k \in 0..n
      BY <2>1
    <3>2. Upto(k - 1) \in 0..Len(message) /\ Upto(k) \in 0..Len(message)
      BY <2>2, <3>1
    <3>3. data(k) = SubSeq(message, Upto(k - 1) + 1, Upto(k))
      BY <2>4
    <3>4. \A i \in Upto(k - 1) + 1 .. Upto(k) : message[i] \in Octet
      BY <1>1, <3>2, ElementOfSeq
    <3> HIDE DEF data
    <3>5. data(k) \in Seq(Octet)
      BY <1>1, <3>2, <3>3, <3>4, SubSeqProperties
    <3> QED
      BY <1>1, <3>5 DEF Piece, Fragment
  <2>6. pieces \in Seq(Fragment) /\ Len(pieces) = n /\ \A k \in 1..n : pieces[k] = piece(k)
    <3> HIDE DEF piece
    <3>1. pieces = [k \in 1..n |-> piece(k)]
      BY <1>3, <1>9
    <3> QED
      BY <2>1, <2>5, <3>1
  <2>7. \A k : Front(message, max, k) = SubSeq(message, 1, Upto(k))
    BY <1>5, <2>6 DEF Upto
  <2>8. Front(message, max, 0) = <<>>
    BY <2>3, <2>7, SubSeqEmpty
  <2>9. Front(message, max, n) = message
    BY <2>3, <2>7, SubSeqFull
  <2>10. ASSUME NEW k \in 1..n
         PROVE  Front(message, max, k - 1) \o pieces[k].data = Front(message, max, k)
    <3>1. k - 1 \in 0..n /\ k \in 0..n
      BY <2>1
    <3>2. pieces[k].data = SubSeq(message, Upto(k - 1) + 1, Upto(k))
      BY <2>4, <2>6 DEF Piece
    <3>3. Upto(k - 1) \in 0..Len(message) /\ Upto(k) \in 0..Len(message)
      BY <2>2, <3>1
    <3>4. Upto(k) \in Upto(k - 1)..Len(message)
      BY <1>1, <2>4, <3>3
    <3>5. SubSeq(message, 1, Upto(k - 1)) \o SubSeq(message, Upto(k - 1) + 1, Upto(k))
            = SubSeq(message, 1, Upto(k))
      BY <1>7, <3>3, <3>4
    <3> QED
      BY <2>7, <3>2, <3>5
  <2>11. ASSUME NEW k \in 1..n
         PROVE  /\ (pieces[k].more <=> k < n)
                /\ pieces[k].total = IF k = 1 THEN Len(message) ELSE NoTotal
                /\ pieces[k] # Start
    <3>1. pieces[k].more = (k < n) /\ pieces[k].total = IF k = 1 THEN Len(message) ELSE NoTotal
      BY <2>6 DEF Piece
    <3>2. (pieces[k].more <=> k < n) /\ pieces[k].total = IF k = 1 THEN Len(message) ELSE NoTotal
      BY <3>1
    <3> QED
      BY <1>1, <1>6, <1>9, <3>2 DEF NoTotal
  <2> HIDE DEF piece, data
  <2>12. ASSUME NEW k \in 1..Len(pieces)
         PROVE  /\ (pieces[k].more <=> k < Len(pieces))
                /\ pieces[k].total = IF k = 1 /\ Len(pieces) > 1 THEN Len(message) ELSE NoTotal
                /\ pieces[k] # Start
                /\ Front(message, max, k - 1) \o pieces[k].data = Front(message, max, k)
    <3>1. Len(pieces) = n /\ n > 1 /\ k \in 1..n
      BY <2>1, <2>6
    <3>2. Front(message, max, k - 1) \o pieces[k].data = Front(message, max, k)
      BY <2>10, <3>1
    <3>3. /\ (pieces[k].more <=> k < n)
          /\ pieces[k].total = IF k = 1 THEN Len(message) ELSE NoTotal
          /\ pieces[k] # Start
      BY <2>11, <3>1
    <3> QED
      BY <3>1, <3>2, <3>3
  <2>13. ASSUME NEW k \in 0..Len(pieces)
         PROVE  /\ Front(message, max, k) \in Seq(Octet)
                /\ Len(Front(message, max, k)) <= Len(message)
    <3>1. Upto(k) \in 0..Len(message)
      BY <2>2, <2>6
    <3>2. \A i \in 1..Upto(k) : message[i] \in Octet
      BY <1>1, <3>1, ElementOfSeq
    <3> DEFINE u     == Upto(k)
               front == SubSeq(message, 1, u)
    <3>3. u \in Int /\ 1 \in Int
      BY <1>1, <3>1
    <3> HIDE DEF u
    <3>4. front \in Seq(Octet) /\ Len(front) = IF 1 <= u THEN u - 1 + 1 ELSE 0
      BY <3>2, <3>3, SubSeqProperties DEF u
    <3> HIDE DEF front
    <3>5. Len(front) <= Len(message)
      BY <1>1, <3>1, <3>3, <3>4 DEF u
    <3>6. Front(message, max, k) = front
      BY <2>7 DEF front, u
    <3> QED
      BY <3>4, <3>5, <3>6
  <2>14. Carries(pieces, message, max)
    BY <2>1, <2>6, <2>8, <2>9, <2>12, <2>13 DEF Carries
  <2> QED
    BY <2>14 DEF pieces
<1> QED
  BY <1>1, <1>8, <1>9

\* The pieces of both sides' messages.
LEMMA SaidAndAnswered ==
    ASSUME NEW n \in 1..Len(FromServer)
    PROVE  /\ n \in 1..Len(FromClient)
           /\ FromServer[n] \in Seq(Octet) /\ FromClient[n] \in Seq(Octet)
           /\ Answered(n) = Pieces(FromClient[n], MaxFragment)
           /\ Carries(Answered(n), FromClient[n], MaxFragment)
           /\ n = 1 => /\ Said(n) = <<Start>> /\ Len(Said(n)) = 1
                       /\ FromServer[n] = <<>>
           /\ n # 1 => /\ Said(n) = Pieces(FromServer[n], ServerChunk)
                       /\ Carries(Said(n), FromServer[n], ServerChunk)
           /\ Said(n) \in Seq(Fragment) /\ Len(Said(n)) \in Nat \ {0}
           /\ Front(FromServer[n], ServerChunk, 0) = <<>>
<1>1. n \in 1..Len(FromClient) /\ FromServer[n] \in Seq(Octet) /\ FromClient[n] \in Seq(Octet)
  BY ScriptAssumption, ElementOfSeq
<1>2. Carries(Pieces(FromClient[n], MaxFragment), FromClient[n], MaxFragment)
  BY <1>1, SizeAssumption, PiecesCarryTheMessage
<1>3. Carries(Pieces(FromServer[n], ServerChunk), FromServer[n], ServerChunk)
  BY <1>1, SizeAssumption, PiecesCarryTheMessage
<1>4. Start \in Fragment
  BY EmptySeq DEF Start, Ack, Piece, Fragment
<1>5. Front(FromServer[n], ServerChunk, 0) = <<>>
  BY <1>3 DEF Carries
<1>6. Carries(Answered(n), FromClient[n], MaxFragment)
  BY <1>2 DEF Answered
<1>7. Answered(n) = Pieces(FromClient[n], MaxFragment)
  BY DEF Answered
<1>8. CASE n = 1
  <2>1. Said(n) = <<Start>> /\ FromServer[n] = <<>>
    BY <1>8, ScriptAssumption DEF Said
  <2> HIDE DEF Start
  <2>2. Said(n) \in Seq(Fragment) /\ Len(Said(n)) = 1
    BY <1>4, <2>1
  <2>3. Len(Said(n)) \in Nat \ {0}
    BY <2>2
  <2> QED
    BY <1>1, <1>8, <1>5, <1>6, <1>7, <2>1, <2>2, <2>3
<1>9. CASE n # 1
  <2>1. Said(n) = Pieces(FromServer[n], ServerChunk)
    BY <1>9 DEF Said
  <2>2. Carries(Said(n), FromServer[n], ServerChunk)
    BY <1>3, <2>1
  <2>3. Said(n) \in Seq(Fragment) /\ Len(Said(n)) \in Nat \ {0}
    BY <2>2 DEF Carries
  <2> QED
    BY <1>1, <1>9, <1>5, <1>6, <1>7, <2>1, <2>2, <2>3
<1> QED
  BY <1>8, <1>9

\* Both ends start with the server's Start under way.
LEMMA InitExchangeInv == ExchangeInit => ExchangeInv
<1> SUFFICES ASSUME ExchangeInit PROVE ExchangeInv
  OBVIOUS
<1> USE DEF ExchangeInit, Init
<1>1. Start \in Fragment /\ Ack \in Fragment /\ <<>> \in Seq(Octet)
  BY EmptySeq DEF Start, Ack, Piece, Fragment, NoTotal
<1>2. 1 \in 1..Len(FromServer)
  BY ScriptAssumption
<1>3. Packet(1, Start) \in Packets
  BY <1>1 DEF Packet, Packets
<1>4. /\ requests \in Seq(Packets) /\ Len(requests) = 1
      /\ requests[1].id = 1 /\ requests[1].piece = Start
  <2>1. Packet(1, Start).id = 1 /\ Packet(1, Start).piece = Start
    BY DEF Packet
  <2> HIDE DEF Start
  <2> DEFINE p == Packet(1, Start)
  <2> HIDE DEF p
  <2>2. requests = <<p>> /\ p \in Packets
    BY <1>3 DEF p
  <2>3. requests \in Seq(Packets) /\ Len(requests) = 1 /\ requests[1] = p
    BY <2>2
  <2> QED
    BY <2>1, <2>3 DEF p
<1>5. ExchangeTypeOK
  BY <1>1, <1>4, EmptySeq DEF ExchangeTypeOK
<1>6. LinkInv
  BY <1>4 DEF LinkInv
<1>7. SpeakingAt(1, 1)
  <2>1. Said(1) = <<Start>> /\ Front(FromServer[1], ServerChunk, 0) = <<>>
    BY <1>2, SaidAndAnswered
  <2> HIDE DEF Start
  <2>2. Said(1)[1] = Start /\ SubSeq(Said(1), 1 + 1, Len(Said(1))) = <<>>
    <3>1. Said(1)[1] = Start /\ Len(Said(1)) = 1
      BY <2>1
    <3>2. SubSeq(Said(1), 2, 1) = <<>>
      BY SubSeqEmpty
    <3>3. 1 + 1 = 2
      OBVIOUS
    <3> QED
      BY <3>1, <3>2, <3>3, Zenon
  <2>3. hostId # serverId /\ current = Start /\ unsent = <<>> /\ outQueue = <<>>
          /\ heard = <<>> /\ Len(clientGot) = 1 - 1
    OBVIOUS
  <2>4. Holds(FromServer[1], IF hostId = serverId THEN 1 ELSE 1 - 1)
    BY <2>1, <2>3 DEF Holds
  <2> HIDE DEF ExchangeInit, Init
  <2> QED
    BY <2>2, <2>3, <2>4 DEF SpeakingAt
<1>8. TurnInv
  <2>1. Turn = 1 /\ 1 \in 1..Len(Said(1))
    BY <1>2, SaidAndAnswered DEF Turn
  <2> QED
    BY <1>2, <1>7, <2>1 DEF TurnInv
<1> QED
  BY <1>5, <1>6, <1>8 DEF ExchangeInv

(***************************************************************************)
(* The exchange: the client's steps.                                       *)
(***************************************************************************)

\* The reassembler takes the pieces of a message one by one, and hands it out
\* with the last, unless it finds fault with one.
LEMMA PushOfAPiece ==
    ASSUME NEW n \in 1..Len(FromServer), n # 1, NEW k \in 1..Len(Said(n)),
           Holds(FromServer[n], k - 1), Push(Said(n)[k])
    PROVE  \/ result' = Error
           \/ /\ result' = More /\ k < Len(Said(n))
              /\ Holds(FromServer[n], k)'
           \/ /\ result' = Complete(FromServer[n]) /\ k = Len(Said(n))
              /\ buf' = <<>> /\ fragments' = 0 /\ expectedTotal' = NoTotal
<1> DEFINE f == Said(n)[k]
           m == FromServer[n]
<1>1. Carries(Said(n), m, ServerChunk)
  BY SaidAndAnswered
<1>2. k \in Nat /\ k >= 1 /\ k <= Len(Said(n)) /\ Len(Said(n)) \in Nat
  BY <1>1 DEF Carries
<1>3. /\ f.more <=> k < Len(Said(n))
      /\ f.total = IF k = 1 /\ Len(Said(n)) > 1 THEN Len(m) ELSE NoTotal
      /\ Front(m, ServerChunk, k - 1) \o f.data = Front(m, ServerChunk, k)
      /\ Front(m, ServerChunk, Len(Said(n))) = m
  BY <1>1 DEF Carries
<1>4. /\ buf \o f.data = Front(m, ServerChunk, k)
      /\ fragments + 1 = k
      /\ expectedTotal = IF k = 1 THEN NoTotal ELSE Len(m)
  <2>1. /\ buf = Front(m, ServerChunk, k - 1) /\ fragments = k - 1
        /\ expectedTotal = IF k - 1 = 0 THEN NoTotal ELSE Len(m)
    BY DEF Holds
  <2>2. buf \o f.data = Front(m, ServerChunk, k)
    BY <1>3, <2>1
  <2>3. k - 1 = 0 <=> k = 1
    BY <1>2
  <2>4. fragments + 1 = k
    BY <1>2, <2>1
  <2>5. expectedTotal = IF k = 1 THEN NoTotal ELSE Len(m)
    BY <2>1, <2>3
  <2> QED
    BY <2>2, <2>4, <2>5, Zenon
<1>5. k < Len(Said(n)) => TotalAfter(f) = Len(m)
  <2>1. Len(m) \in Nat
    BY SaidAndAnswered
  <2> QED
    BY <1>2, <1>3, <1>4, <2>1 DEF TotalAfter, NoTotal
<1>6. CASE Reject(f)
  BY <1>6 DEF Reject
<1>7. CASE Accumulate(f)
  <2>1. k < Len(Said(n)) /\ k # 0
    BY <1>2, <1>3, <1>7 DEF Accumulate
  <2>2. buf' = Front(m, ServerChunk, k) /\ fragments' = k /\ expectedTotal' = Len(m)
    BY <1>4, <1>5, <1>7, <2>1 DEF Accumulate
  <2>3. Holds(FromServer[n], k)'
    BY <2>1, <2>2 DEF Holds
  <2> QED
    BY <1>7, <2>1, <2>3 DEF Accumulate
<1>8. CASE Finish(f)
  <2>1. k = Len(Said(n))
    BY <1>2, <1>3, <1>8 DEF Finish
  <2>2. result' = Complete(m)
    BY <1>3, <1>4, <1>8, <2>1 DEF Finish
  <2> QED
    BY <1>8, <2>1, <2>2 DEF Finish
<1> QED
  BY <1>6, <1>7, <1>8 DEF Push

\* The request that the client is handed is the one the server waits on, and all
\* that follow it on the link repeat it.
LEMMA Awaited ==
    ASSUME ExchangeInv, ClientReceives
    PROVE  /\ hostId # serverId
           /\ Head(requests).id = serverId /\ Head(requests).piece = current
           /\ Tail(requests) \in Seq(Packets)
           /\ \A i \in 1..Len(Tail(requests)) : Tail(requests)[i].id = serverId
           /\ Turn \in 1..Len(FromServer)
           /\ \/ \E k \in 1..Len(Said(Turn)) : SpeakingAt(Turn, k)
              \/ \E j \in 1..Len(Answered(Turn)) : AnsweringAt(Turn, j)
<1> USE DEF ExchangeInv, ExchangeTypeOK
<1>1. requests # <<>> /\ requests \in Seq(Packets) /\ Head(requests).id # hostId
  BY DEF ClientReceives
<1>2. Len(requests) \in Nat \ {0} /\ Head(requests) = requests[1] /\ 1 \in 1..Len(requests)
  BY <1>1
<1>3. /\ requests[1].id = serverId /\ hostId # serverId
      /\ requests[1].piece = current
      /\ \A j \in 1..Len(requests) : requests[j].id # hostId
  BY <1>1, <1>2 DEF LinkInv
<1>4. \A j \in 1..Len(requests) : requests[j].id = serverId
  BY <1>3 DEF LinkInv
<1>5. /\ Tail(requests) \in Seq(Packets)
      /\ Len(Tail(requests)) = Len(requests) - 1
      /\ \A i \in 1..Len(Tail(requests)) : Tail(requests)[i] = requests[i + 1]
  BY <1>1, HeadTailProperties
<1>6. \A i \in 1..Len(Tail(requests)) : Tail(requests)[i].id = serverId
  <2> TAKE i \in 1..Len(Tail(requests))
  <2>1. i + 1 \in 1..Len(requests)
    BY <1>2, <1>5
  <2> QED
    BY <1>4, <1>5, <2>1
<1>7. ~Over
  BY <1>2, <1>3 DEF Over
<1>8. Turn \in Nat \ {0}
  BY LenProperties DEF Turn
<1> QED
  BY <1>2, <1>3, <1>5, <1>6, <1>7, <1>8, ScriptAssumption DEF TurnInv

\* An answer of the client is the last packet on the link.
LEMMA AnswerKeepsLink ==
    ASSUME ExchangeInv, ClientReceives, NEW piece \in Fragment,
           Replies(Head(requests).id, piece)
    PROVE  /\ LinkInv'
           /\ hostId' \in Nat /\ hostReply' \in Fragment
           /\ requests' \in Seq(Packets) /\ responses' \in Seq(Packets)
           /\ hostId' = serverId' /\ hostReply' = piece
<1>1. /\ hostId' = serverId /\ serverId' = serverId /\ hostReply' = piece
      /\ responses' = Append(responses, Packet(serverId, piece))
      /\ requests' = Tail(requests) /\ current' = current
  BY Awaited DEF Replies, ClientReceives, server
<1>2. Packet(serverId, piece) \in Packets /\ responses \in Seq(Packets) /\ serverId \in Nat /\ hostId \in Nat
  BY DEF Packet, Packets, ExchangeInv, ExchangeTypeOK
<1>3. /\ responses' \in Seq(Packets) /\ Len(responses') = Len(responses) + 1
      /\ \A i \in 1..Len(responses) : responses'[i] = responses[i]
      /\ responses'[Len(responses) + 1] = Packet(serverId, piece)
  BY <1>1, <1>2, AppendProperties
<1>4. /\ Tail(requests) \in Seq(Packets) /\ hostId # serverId
      /\ \A i \in 1..Len(Tail(requests)) : Tail(requests)[i].id = serverId
  BY Awaited
<1>5. \A i \in 1..Len(requests') :
          /\ requests'[i].id \in {hostId', serverId'}
          /\ requests'[i].id # hostId' =>
                /\ requests'[i].piece = current'
                /\ \A j \in i..Len(requests') : requests'[j].id # hostId'
  BY <1>1, <1>4
<1>6. \A i \in 1..Len(responses') :
          /\ responses'[i].id <= hostId'
          /\ responses'[i].id = serverId' => responses'[i].piece = hostReply'
  <2> TAKE i \in 1..Len(responses')
  <2>1. CASE i \in 1..Len(responses)
    <3>1. responses[i].id <= hostId /\ hostId = serverId - 1
      BY <1>4, <2>1 DEF ExchangeInv, LinkInv
    <3>2. responses[i] \in Packets
      BY <1>2, <2>1, ElementOfSeq
    <3>3. responses[i].id \in Nat
      BY <3>2 DEF Packets
    <3> QED
      BY <1>1, <1>2, <1>3, <2>1, <3>1, <3>3
  <2>2. CASE i = Len(responses) + 1
    BY <1>1, <1>2, <1>3, <2>2 DEF Packet
  <2> QED
    BY <1>2, <1>3, <2>1, <2>2, LenProperties
<1>7. hostId' \in {serverId' - 1, serverId'}
  BY <1>1
<1>8. LinkInv'
  BY <1>5, <1>6, <1>7 DEF LinkInv
<1> QED
  BY <1>1, <1>2, <1>3, <1>4, <1>8

\* The rest of a message's pieces, without the next of them.
LEMMA RestOfPieces ==
    ASSUME NEW P \in Seq(Fragment), NEW k \in Nat, k < Len(P)
    PROVE  /\ SubSeq(P, k + 1, Len(P)) # <<>>
           /\ SubSeq(P, k + 1, Len(P)) \in Seq(Fragment)
           /\ Head(SubSeq(P, k + 1, Len(P))) = P[k + 1]
           /\ Tail(SubSeq(P, k + 1, Len(P))) = SubSeq(P, (k + 1) + 1, Len(P))
           /\ P[k + 1] \in Fragment
<1>1. Len(P) \in Nat
  OBVIOUS
<1>2. k + 1 \in 1..Len(P) /\ Len(P) \in k + 1 .. Len(P)
  BY <1>1
<1>3. \A i \in k + 1 .. Len(P) : P[i] \in Fragment
  BY <1>1
<1>4. /\ SubSeq(P, k + 1, Len(P)) \in Seq(Fragment)
      /\ Len(SubSeq(P, k + 1, Len(P))) = Len(P) - (k + 1) + 1
  BY <1>2, <1>3, SubSeqProperties
<1>5. SubSeq(P, k + 1, Len(P)) # <<>>
  <2> DEFINE rest == SubSeq(P, k + 1, Len(P))
  <2>1. rest \in Seq(Fragment) /\ Len(rest) = Len(P) - (k + 1) + 1
    BY <1>4
  <2> HIDE DEF rest
  <2>2. Len(rest) # 0
    BY <1>1, <1>2, <2>1
  <2>3. rest # <<>>
    BY <2>2
  <2> QED
    BY <2>3 DEF rest
<1> QED
  BY <1>2, <1>3, <1>4, <1>5, HeadTailOfSubSeq

\* Nothing is left after the last piece, and all but the head after the first.
LEMMA EndsOfPieces ==
    ASSUME NEW P \in Seq(Fragment), P # <<>>
    PROVE  /\ \A k : k = Len(P) => SubSeq(P, k + 1, Len(P)) = <<>>
           /\ Head(P) = P[1] /\ Head(P) \in Fragment
           /\ Tail(P) = SubSeq(P, 1 + 1, Len(P)) /\ Tail(P) \in Seq(Fragment)
<1>1. Len(P) \in Nat /\ 1 + 1 = 2
  OBVIOUS
<1>2. SubSeq(P, Len(P) + 1, Len(P)) = <<>>
  BY <1>1, SubSeqEmpty
<1>3. Tail(P) = SubSeq(P, 2, Len(P)) /\ Head(P) = P[1]
  BY TailIsSubSeq
<1>4. Head(P) \in Fragment /\ Tail(P) \in Seq(Fragment)
  BY HeadTailProperties
<1> QED
  BY <1>1, <1>2, <1>3, <1>4, Zenon

\* A flight starts with its first piece.
LEMMA FirstPiece ==
    ASSUME NEW n \in 1..Len(FromServer), NEW p, Send(p, n)
    PROVE  /\ Replies(p.id, Answered(n)[1]) /\ Answered(n)[1] \in Fragment
           /\ outQueue' = SubSeq(Answered(n), 1 + 1, Len(Answered(n)))
           /\ outQueue' \in Seq(Fragment)
           /\ 1 \in 1..Len(Answered(n))
           /\ Front(FromClient[n], MaxFragment, 1 - 1) = <<>>
<1>1. /\ Answered(n) \in Seq(Fragment) /\ Len(Answered(n)) \in Nat \ {0}
      /\ Front(FromClient[n], MaxFragment, 0) = <<>>
  BY SaidAndAnswered DEF Carries
<1>2. outQueue' = Tail(Answered(n)) /\ Replies(p.id, Head(Answered(n)))
  BY SaidAndAnswered DEF Send
<1>3. Answered(n) # <<>> /\ 1 \in 1..Len(Answered(n)) /\ 1 - 1 = 0
  BY <1>1
<1> QED
  BY <1>1, <1>2, <1>3, EndsOfPieces

\* The next fragment of the flight answers the server's acknowledgement.
LEMMA NextFragmentStep ==
    ASSUME ExchangeInv, ClientReceives, NextOutFragment(Head(requests))
    PROVE  ExchangeInv'
<1> DEFINE p == Head(requests)
           Q == Answered(Turn)
<1>1. outQueue # <<>> /\ outQueue' = Tail(outQueue) /\ Replies(p.id, Head(outQueue))
  BY DEF NextOutFragment, Drains
<1>2. UNCHANGED <<rx, clientGot, server, losses>>
  BY DEF NextOutFragment, ClientReceives
<1>3. Turn \in 1..Len(FromServer) /\ hostId # serverId
  BY Awaited
<1>4. PICK j \in 1..Len(Q) : AnsweringAt(Turn, j)
  BY <1>1, Awaited DEF SpeakingAt
<1>5. Q \in Seq(Fragment) /\ Carries(Q, FromClient[Turn], MaxFragment)
  BY <1>3, SaidAndAnswered DEF Carries
<1>6. /\ Len(clientGot) = Turn /\ unsent = <<>>
      /\ buf = <<>> /\ fragments = 0 /\ expectedTotal = NoTotal
      /\ outQueue = SubSeq(Q, j + 1, Len(Q)) /\ j < Len(Q)
      /\ heard = Front(FromClient[Turn], MaxFragment, j)
  BY <1>3, <1>4 DEF AnsweringAt
<1>7. /\ Head(outQueue) = Q[j + 1] /\ Q[j + 1] \in Fragment
      /\ outQueue' = SubSeq(Q, (j + 1) + 1, Len(Q)) /\ outQueue' \in Seq(Fragment)
  <2>1. Head(outQueue) = Q[j + 1] /\ Q[j + 1] \in Fragment
    BY <1>5, <1>6, RestOfPieces
  <2>2. Tail(outQueue) = SubSeq(Q, (j + 1) + 1, Len(Q))
    BY <1>5, <1>6, RestOfPieces
  <2>3. Tail(outQueue) \in Seq(Fragment)
    BY <1>1, HeadTailProperties DEF ExchangeInv, ExchangeTypeOK
  <2> QED
    BY <1>1, <2>1, <2>2, <2>3
<1>8. /\ LinkInv' /\ hostId' = serverId' /\ hostReply' = Q[j + 1]
      /\ hostId' \in Nat /\ hostReply' \in Fragment
      /\ requests' \in Seq(Packets) /\ responses' \in Seq(Packets)
  BY <1>1, <1>7, AnswerKeepsLink
<1>9. ExchangeTypeOK'
  BY <1>2, <1>7, <1>8 DEF ExchangeInv, ExchangeTypeOK, server
<1>10. AnsweringAt(Turn, j + 1)'
  <2>1. (j + 1) - 1 = j
    OBVIOUS
  <2>2. Turn' = Turn /\ Q' = Q /\ j' = j
    BY <1>2 DEF Turn, server
  <2>3. heard' = Front(FromClient[Turn], MaxFragment, j + 1 - 1)
    BY <1>2, <1>6, <2>1 DEF server
  <2> QED
    BY <1>2, <1>6, <1>7, <1>8, <2>2, <2>3 DEF AnsweringAt, rx, vars, state, server
<1>11. TurnInv'
  <2>1. j + 1 \in 1..Len(Q) /\ Turn' = Turn /\ Turn <= Len(FromServer)
    BY <1>2, <1>3, <1>5, <1>6 DEF Carries, Turn, server
  <2> QED
    BY <1>10, <2>1 DEF TurnInv
<1> QED
  BY <1>8, <1>9, <1>11 DEF ExchangeInv

\* The server's Start opens the client's first flight.
LEMMA StartStep ==
    ASSUME ExchangeInv, ClientReceives, TakeStart(Head(requests))
    PROVE  ExchangeInv' /\ outQueue = <<>> /\ fragments = 0 /\ Abstract!ClientHears
<1> DEFINE p == Head(requests)
           Q == Answered(1)
<1>1. clientGot = <<>> /\ clientGot' = <<FromServer[1]>> /\ Send(p, 1)
  BY DEF TakeStart
<1>2. UNCHANGED <<rx, server, losses>>
  BY DEF TakeStart, ClientReceives
<1>3. Turn \in 1..Len(FromServer) /\ hostId # serverId
  BY Awaited
<1>4. PICK k \in 1..Len(Said(Turn)) : SpeakingAt(Turn, k)
  BY <1>1, <1>3, Awaited DEF AnsweringAt
<1>5. Turn = 1 /\ outQueue = <<>> /\ heard = <<>> /\ serverGot = <<>>
  <2>1. Len(clientGot) = Turn - 1 /\ outQueue = <<>> /\ heard = <<>>
    BY <1>4 DEF SpeakingAt
  <2>2. Turn = 1
    BY <1>1, <1>3, <2>1
  <2>3. Len(serverGot) = 0 /\ serverGot \in Seq(Seq(Octet))
    BY <2>2, LenProperties DEF Turn, ExchangeInv, ExchangeTypeOK
  <2> QED
    BY <2>1, <2>2, <2>3, EmptySeq
<1>6. unsent = <<>> /\ Holds(FromServer[1], 0)
  <2>1. Said(1) = <<Start>> /\ Said(1) \in Seq(Fragment)
    BY <1>3, <1>5, SaidAndAnswered
  <2>2. Len(Said(1)) = 1
    BY <1>3, <1>5, SaidAndAnswered
  <2>3. Said(1) # <<>>
    BY <2>2
  <2>4. k \in 1..Len(Said(1))
    BY <1>5
  <2>5. k \in 1..1
    BY <2>2, <2>4, Zenon
  <2>6. k = 1
    BY <2>5
  <2>7. k = 1 /\ k - 1 = 0 /\ k = Len(Said(1))
    BY <2>2, <2>6
  <2>8. unsent = <<>>
    BY <1>4, <1>5, <2>1, <2>7, <2>3, EndsOfPieces DEF SpeakingAt
  <2>9. result.tag # "Error" => Holds(FromServer[1], k - 1)
    BY <1>3, <1>4, <1>5 DEF SpeakingAt
  <2> QED
    BY <2>7, <2>8, <2>9 DEF ClientReceives, Stopped
<1>7. buf = <<>> /\ fragments = 0 /\ expectedTotal = NoTotal
  BY <1>3, <1>5, <1>6, SaidAndAnswered DEF Holds
<1>8. /\ Replies(p.id, Q[1]) /\ Q[1] \in Fragment
      /\ outQueue' = SubSeq(Q, 1 + 1, Len(Q)) /\ outQueue' \in Seq(Fragment)
      /\ 1 \in 1..Len(Q) /\ Front(FromClient[1], MaxFragment, 1 - 1) = <<>>
  BY <1>1, <1>3, <1>5, FirstPiece
<1>9. /\ LinkInv' /\ hostId' = serverId' /\ hostReply' = Q[1]
      /\ hostId' \in Nat /\ hostReply' \in Fragment
      /\ requests' \in Seq(Packets) /\ responses' \in Seq(Packets)
  BY <1>8, AnswerKeepsLink
<1>10. clientGot' \in Seq(Seq(Octet)) /\ Len(clientGot') = 1
  BY <1>1, <1>3, <1>5, SaidAndAnswered
<1>11. ExchangeTypeOK'
  BY <1>2, <1>8, <1>9, <1>10 DEF ExchangeInv, ExchangeTypeOK, server
<1>12. AnsweringAt(1, 1)'
  BY <1>2, <1>5, <1>6, <1>7, <1>8, <1>9, <1>10
  DEF AnsweringAt, rx, vars, state, server
<1>13. TurnInv'
  <2>1. Turn' = 1 /\ 1 <= Len(FromServer)
    BY <1>2, <1>3, <1>5 DEF Turn, server
  <2> QED
    BY <1>8, <1>12, <2>1 DEF TurnInv
<1>14. Abstract!ClientHears
  <2>1. Len(clientGot) = 0 /\ Len(serverGot) = 0 /\ 0 < Len(FromServer) /\ 0 + 1 = 1
    BY <1>1, <1>3, <1>5
  <2>2. clientGot' = Append(clientGot, FromServer[1])
    BY <1>1
  <2> QED
    BY <1>2, <2>1, <2>2 DEF Abstract!ClientHears, server
<1> QED
  BY <1>5, <1>7, <1>9, <1>11, <1>13, <1>14 DEF ExchangeInv

\* A fragment is taken while the server speaks, and it is the piece that follows
\* what the reassembler holds.
LEMMA FragmentIsNext ==
    ASSUME ExchangeInv, ClientReceives, TakeFragment(Head(requests))
    PROVE  \E k \in 1..Len(Said(Turn)) :
              /\ Turn \in 1..Len(FromServer) /\ Turn # 1
              /\ SpeakingAt(Turn, k)
              /\ Head(requests).piece = Said(Turn)[k]
              /\ Holds(FromServer[Turn], k - 1)
<1> DEFINE p == Head(requests)
           m == FromServer[Turn]
           P == Said(Turn)
           Q == Answered(Turn)
<1>1. /\ ~Drains(p.piece) /\ p.piece # Start /\ Push(p.piece)
      /\ p.piece = current /\ result.tag # "Error"
  BY Awaited DEF TakeFragment, Counts, ClientReceives, Stopped
<1>2. UNCHANGED <<server, losses>> /\ requests' = Tail(requests)
  BY DEF ClientReceives
<1>3. Turn \in 1..Len(FromServer) /\ hostId # serverId /\ Turn' = Turn
  BY <1>2, Awaited DEF Turn, server
<1>4. PICK k \in 1..Len(P) : SpeakingAt(Turn, k)
  <2>1. ASSUME NEW j \in 1..Len(Q), AnsweringAt(Turn, j) PROVE FALSE
    <3>1. /\ Q \in Seq(Fragment) /\ j < Len(Q) /\ current = Ack
          /\ outQueue = SubSeq(Q, j + 1, Len(Q))
      BY <1>3, <2>1, SaidAndAnswered DEF AnsweringAt, Carries
    <3>2. outQueue # <<>>
      BY <3>1, RestOfPieces
    <3>3. IsAck(Ack)
      BY DEF IsAck, Ack, Piece, Start, NoTotal
    <3> QED
      BY <1>1, <3>1, <3>2, <3>3 DEF Drains
  <2> QED
    BY <2>1, Awaited
<1>5. /\ Len(clientGot) = Turn - 1 /\ outQueue = <<>> /\ heard = <<>>
      /\ current = P[k] /\ unsent = SubSeq(P, k + 1, Len(P))
      /\ Holds(m, k - 1)
  BY <1>1, <1>3, <1>4 DEF SpeakingAt
<1>6. Turn # 1
  <2>1. ASSUME Turn = 1 PROVE FALSE
    <3>1. P = <<Start>> /\ Len(P) = 1
      BY <1>3, <2>1, SaidAndAnswered
    <3>2. k \in 1..1
      BY <1>4, <3>1, Zenon
    <3>3. k = 1
      BY <3>2
    <3>4. P[1] = Start
      BY <3>1
    <3> QED
      BY <1>1, <1>5, <3>3, <3>4
  <2> QED
    BY <2>1
<1> QED
  BY <1>1, <1>3, <1>4, <1>5, <1>6

\* The message that a fragment completes is the server's.
LEMMA TakeFragmentStep ==
    ASSUME ExchangeInv, ClientReceives, TakeFragment(Head(requests))
    PROVE  /\ ExchangeInv'
           /\ outQueue = <<>>
           /\ clientGot' = clientGot \/ Abstract!ClientHears
<1> DEFINE p == Head(requests)
           m == FromServer[Turn]
           P == Said(Turn)
           Q == Answered(Turn)
<1>1. Push(p.piece) /\ result.tag # "Error"
  BY DEF TakeFragment, ClientReceives, Stopped
<1>2. UNCHANGED <<server, losses>> /\ requests' = Tail(requests)
  BY DEF ClientReceives
<1>3. Turn \in 1..Len(FromServer) /\ hostId # serverId /\ Turn' = Turn
  BY <1>2, Awaited DEF Turn, server
<1>4. PICK k \in 1..Len(P) :
          Turn # 1 /\ SpeakingAt(Turn, k) /\ p.piece = P[k] /\ Holds(m, k - 1)
  BY FragmentIsNext
<1>5. /\ Len(clientGot) = Turn - 1 /\ outQueue = <<>> /\ heard = <<>>
      /\ current = P[k] /\ unsent = SubSeq(P, k + 1, Len(P))
  BY <1>4 DEF SpeakingAt
<1>6. P \in Seq(Fragment) /\ Len(P) \in Nat \ {0} /\ P # <<>> /\ k \in Nat
  BY <1>3, SaidAndAnswered
<1>7. \/ result' = Error
      \/ /\ result' = More /\ k < Len(P)
         /\ Holds(m, k)'
      \/ /\ result' = Complete(m) /\ k = Len(P)
         /\ buf' = <<>> /\ fragments' = 0 /\ expectedTotal' = NoTotal
  BY <1>1, <1>3, <1>4, PushOfAPiece
<1>8. Error.tag = "Error" /\ More.tag = "More" /\ Complete(m).tag = "Complete" /\ Complete(m).message = m
  BY DEF Error, More, Complete
<1>9. CASE result' = Error
  <2>1. UNCHANGED <<outQueue, clientGot, hostId, hostReply, responses>>
    BY <1>8, <1>9 DEF TakeFragment
  <2>2. requests' \in Seq(Packets)
    BY <1>2, Awaited
  <2>3. ExchangeTypeOK'
    BY <1>2, <2>1, <2>2 DEF ExchangeInv, ExchangeTypeOK, server
  <2>4. LinkInv'
    <3>1. \A i \in 1..Len(requests') : requests'[i].id = serverId
      BY <1>2, Awaited
    <3>2. \A i \in 1..Len(requests') : requests'[i].piece = current
      <4> TAKE i \in 1..Len(requests')
      <4>1. /\ requests \in Seq(Packets) /\ requests # <<>>
            /\ Len(requests') = Len(requests) - 1 /\ requests'[i] = requests[i + 1]
        BY <1>2, HeadTailProperties DEF ExchangeInv, ExchangeTypeOK, ClientReceives
      <4>2. i + 1 \in 1..Len(requests)
        BY <4>1, LenProperties
      <4> QED
        BY <1>3, <3>1, <4>1, <4>2 DEF ExchangeInv, LinkInv
    <3>3. UNCHANGED <<hostId, serverId, hostReply, responses, current>>
      BY <1>2, <2>1 DEF server
    <3>4. \A i \in 1..Len(requests') :
              /\ requests'[i].id \in {hostId', serverId'}
              /\ requests'[i].id # hostId' =>
                    /\ requests'[i].piece = current'
                    /\ \A j \in i..Len(requests') : requests'[j].id # hostId'
      <4> TAKE i \in 1..Len(requests')
      <4>1. requests'[i].id \in {hostId', serverId'} /\ requests'[i].piece = current'
        BY <3>1, <3>2, <3>3
      <4>2. ASSUME NEW j \in i..Len(requests') PROVE requests'[j].id # hostId'
        <5>1. j \in 1..Len(requests')
          BY <2>2, LenProperties
        <5> QED
          BY <1>3, <3>1, <3>3, <5>1
      <4> QED
        BY <4>1, <4>2
    <3> QED
      BY <3>3, <3>4 DEF ExchangeInv, LinkInv
  <2>5. SpeakingAt(Turn, k)'
    BY <1>2, <1>3, <1>5, <1>8, <1>9, <2>1 DEF SpeakingAt, server
  <2>6. TurnInv'
    BY <1>3, <2>5 DEF TurnInv
  <2> QED
    BY <1>5, <2>1, <2>3, <2>4, <2>6 DEF ExchangeInv
<1>10. CASE result' = More /\ k < Len(P) /\ Holds(m, k)'
  <2>1. Replies(p.id, Ack) /\ UNCHANGED <<outQueue, clientGot>>
    BY <1>8, <1>10 DEF TakeFragment
  <2>2. Ack \in Fragment
    BY EmptySeq DEF Ack, Piece, Fragment
  <2>3. /\ LinkInv' /\ hostId' = serverId'
        /\ hostId' \in Nat /\ hostReply' \in Fragment
        /\ requests' \in Seq(Packets) /\ responses' \in Seq(Packets)
    BY <2>1, <2>2, AnswerKeepsLink
  <2>4. ExchangeTypeOK'
    BY <1>2, <2>1, <2>3 DEF ExchangeInv, ExchangeTypeOK, server
  <2>5. SpeakingAt(Turn, k)'
    BY <1>2, <1>3, <1>5, <1>10, <2>1, <2>3 DEF SpeakingAt, server
  <2>6. TurnInv'
    BY <1>3, <2>5 DEF TurnInv
  <2> QED
    BY <1>5, <2>1, <2>3, <2>4, <2>6 DEF ExchangeInv
<1>11. CASE /\ result' = Complete(m) /\ k = Len(P)
            /\ buf' = <<>> /\ fragments' = 0 /\ expectedTotal' = NoTotal
  <2>1. clientGot' = Append(clientGot, m) /\ Send(p, Len(clientGot'))
    BY <1>8, <1>11 DEF TakeFragment
  <2>2. m \in Seq(Octet) /\ clientGot \in Seq(Seq(Octet))
    BY <1>3, SaidAndAnswered DEF ExchangeInv, ExchangeTypeOK
  <2>3. clientGot' \in Seq(Seq(Octet)) /\ Len(clientGot') = Turn
    <3>1. Len(clientGot') = Len(clientGot) + 1 /\ clientGot' \in Seq(Seq(Octet))
      BY <2>1, <2>2, AppendProperties
    <3> QED
      BY <1>3, <1>5, <3>1
  <2>4. /\ Replies(p.id, Q[1]) /\ Q[1] \in Fragment
        /\ outQueue' = SubSeq(Q, 1 + 1, Len(Q)) /\ outQueue' \in Seq(Fragment)
        /\ 1 \in 1..Len(Q) /\ Front(FromClient[Turn], MaxFragment, 1 - 1) = <<>>
    BY <1>3, <2>1, <2>3, FirstPiece
  <2>5. /\ LinkInv' /\ hostId' = serverId' /\ hostReply' = Q[1]
        /\ hostId' \in Nat /\ hostReply' \in Fragment
        /\ requests' \in Seq(Packets) /\ responses' \in Seq(Packets)
    BY <2>4, AnswerKeepsLink
  <2>6. ExchangeTypeOK'
    BY <1>2, <2>3, <2>4, <2>5 DEF ExchangeInv, ExchangeTypeOK, server
  <2>7. unsent' = <<>>
    BY <1>2, <1>5, <1>6, <1>11, EndsOfPieces DEF server
  <2>8. AnsweringAt(Turn, 1)'
    BY <1>2, <1>3, <1>5, <1>11, <2>3, <2>4, <2>5, <2>7 DEF AnsweringAt, server
  <2>9. TurnInv'
    BY <1>3, <2>4, <2>8 DEF TurnInv
  <2>10. Abstract!ClientHears
    <3>1. /\ Len(clientGot) = Len(serverGot) /\ Len(clientGot) < Len(FromServer)
          /\ Len(clientGot) + 1 = Turn /\ UNCHANGED serverGot
      BY <1>2, <1>3, <1>5, ScriptAssumption, LenProperties DEF Turn, server, ExchangeInv, ExchangeTypeOK
    <3> QED
      BY <2>1, <3>1 DEF Abstract!ClientHears
  <2> QED
    BY <1>5, <2>5, <2>6, <2>9, <2>10 DEF ExchangeInv
<1> QED
  BY <1>7, <1>9, <1>10, <1>11

(***************************************************************************)
(* The exchange: the steps of the server and of the link.                  *)
(***************************************************************************)

\* What is left on the link when its first packet is gone.
LEMMA TailOfLink ==
    ASSUME NEW s \in Seq(Packets), s # <<>>
    PROVE  /\ Tail(s) \in Seq(Packets) /\ Head(s) = s[1] /\ 1 \in 1..Len(s)
           /\ \A i \in 1..Len(Tail(s)) :
                 /\ i + 1 \in 1..Len(s) /\ Tail(s)[i] = s[i + 1]
                 /\ \A j \in i..Len(Tail(s)) : j + 1 \in i + 1 .. Len(s) /\ Tail(s)[j] = s[j + 1]
<1>1. /\ Tail(s) \in Seq(Packets) /\ Len(Tail(s)) = Len(s) - 1 /\ Len(s) \in Nat \ {0}
      /\ \A i \in 1..Len(Tail(s)) : Tail(s)[i] = s[i + 1]
  BY HeadTailProperties
<1>2. Head(s) = s[1] /\ 1 \in 1..Len(s)
  BY <1>1
<1>3. ASSUME NEW i \in 1..Len(Tail(s)), NEW j \in i..Len(Tail(s))
      PROVE  i + 1 \in 1..Len(s) /\ j + 1 \in i + 1 .. Len(s) /\ Tail(s)[j] = s[j + 1]
  <2>1. j \in 1..Len(Tail(s))
    BY <1>1
  <2> QED
    BY <1>1, <2>1
<1>4. ASSUME NEW i \in 1..Len(Tail(s)) PROVE i + 1 \in 1..Len(s)
  BY <1>1
<1> QED
  BY <1>1, <1>2, <1>3, <1>4

\* Turns do not depend on what is on the link.
LEMMA TurnStays ==
    ASSUME TurnInv, Over => Over',
           UNCHANGED <<outQueue, clientGot, hostId, hostReply, serverId, current, unsent,
                       heard, serverGot, buf, expectedTotal, fragments, result>>
    PROVE  TurnInv'
<1>1. Turn' = Turn
  BY DEF Turn
<1>2. ASSUME NEW k, SpeakingAt(Turn, k) PROVE SpeakingAt(Turn, k)'
  BY <1>1, <1>2 DEF SpeakingAt, Holds
<1>3. ASSUME NEW j, AnsweringAt(Turn, j) PROVE AnsweringAt(Turn, j)'
  BY <1>1, <1>3 DEF AnsweringAt
<1>4. Said(Turn)' = Said(Turn) /\ Answered(Turn)' = Answered(Turn)
  BY <1>1
<1> QED
  BY <1>1, <1>2, <1>3, <1>4 DEF TurnInv

\* Losing or handling the oldest packet leaves the link behind the ends as it was.
LEMMA ShorterLink ==
    ASSUME ExchangeInv,
           UNCHANGED <<rx, outQueue, clientGot, hostId, hostReply, server>>,
           \/ requests # <<>> /\ requests' = Tail(requests)
           \/ requests' = requests,
           \/ responses # <<>> /\ responses' = Tail(responses)
           \/ responses' = responses,
           losses' \in Nat
    PROVE  ExchangeInv'
<1>1. requests \in Seq(Packets) /\ responses \in Seq(Packets)
  BY DEF ExchangeInv, ExchangeTypeOK
<1>2. UNCHANGED <<outQueue, clientGot, hostId, hostReply, serverId, current, unsent,
                  heard, serverGot, buf, expectedTotal, fragments, result>>
  BY DEF server, rx, vars, state
<1>3. requests' \in Seq(Packets) /\ responses' \in Seq(Packets)
  BY <1>1, TailOfLink
<1>4. ExchangeTypeOK'
  BY <1>2, <1>3 DEF ExchangeInv, ExchangeTypeOK
<1>5. \A i \in 1..Len(requests') :
          /\ requests'[i].id \in {hostId, serverId}
          /\ requests'[i].id # hostId =>
                /\ requests'[i].piece = current
                /\ \A j \in i..Len(requests') : requests'[j].id # hostId
  <2>1. CASE requests' = requests
    BY <2>1 DEF ExchangeInv, LinkInv
  <2>2. CASE requests # <<>> /\ requests' = Tail(requests)
    BY <1>1, <2>2, TailOfLink DEF ExchangeInv, LinkInv
  <2> QED
    BY <2>1, <2>2
<1>6. \A i \in 1..Len(responses') :
          /\ responses'[i].id <= hostId
          /\ responses'[i].id = serverId => responses'[i].piece = hostReply
  <2>1. CASE responses' = responses
    BY <2>1 DEF ExchangeInv, LinkInv
  <2>2. CASE responses # <<>> /\ responses' = Tail(responses)
    BY <1>1, <2>2, TailOfLink DEF ExchangeInv, LinkInv
  <2> QED
    BY <2>1, <2>2
<1>7. LinkInv'
  BY <1>2, <1>5, <1>6 DEF ExchangeInv, LinkInv
<1>8. Over => Over'
  <2>1. CASE requests' = requests
    BY <1>2, <2>1 DEF Over
  <2>2. CASE requests # <<>> /\ requests' = Tail(requests)
    BY <1>1, <1>2, <2>2, TailOfLink DEF Over
  <2> QED
    BY <2>1, <2>2
<1>9. TurnInv'
  BY <1>2, <1>8, TurnStays DEF ExchangeInv
<1> QED
  BY <1>4, <1>7, <1>9 DEF ExchangeInv

\* What is on the link when a packet is added.
LEMMA LongerLink ==
    ASSUME NEW s \in Seq(Packets), NEW id \in Nat, NEW piece \in Fragment,
           NEW t, t = Append(s, Packet(id, piece))
    PROVE  /\ t \in Seq(Packets)
           /\ Len(t) = Len(s) + 1 /\ Len(s) \in Nat
           /\ \A i \in 1..Len(s) : t[i] = s[i]
           /\ t[Len(s) + 1].id = id /\ t[Len(s) + 1].piece = piece
<1>1. Packet(id, piece) \in Packets
  BY DEF Packet, Packets
<1>2. Packet(id, piece).id = id /\ Packet(id, piece).piece = piece
  BY DEF Packet
<1> HIDE DEF Packet
<1> QED
  BY <1>1, <1>2, AppendProperties

\* The server's next request is one ahead of everything else on the link.
LEMMA AskKeepsLink ==
    ASSUME ExchangeInv, hostId = serverId, UNCHANGED client,
           responses # <<>>, responses' = Tail(responses),
           NEW piece \in Fragment, Asks(piece)
    PROVE  /\ LinkInv' /\ hostId' # serverId'
           /\ serverId' \in Nat /\ current' \in Fragment
           /\ requests' \in Seq(Packets) /\ responses' \in Seq(Packets)
<1>1. /\ serverId' = serverId + 1 /\ current' = piece
      /\ requests' = Append(requests, Packet(serverId + 1, piece))
      /\ hostId' = hostId /\ hostReply' = hostReply
  BY DEF Asks, client
<1>2. /\ requests \in Seq(Packets) /\ responses \in Seq(Packets)
      /\ serverId \in Nat /\ serverId + 1 \in Nat /\ hostId \in Nat
  BY DEF ExchangeInv, ExchangeTypeOK
<1>3. /\ requests' \in Seq(Packets)
      /\ Len(requests') = Len(requests) + 1 /\ Len(requests) \in Nat
      /\ \A i \in 1..Len(requests) : requests'[i] = requests[i]
      /\ requests'[Len(requests) + 1].id = serverId'
      /\ requests'[Len(requests) + 1].piece = current'
  <2> DEFINE t == Append(requests, Packet(serverId + 1, piece))
           id == serverId + 1
  <2>1. t = Append(requests, Packet(id, piece)) /\ id \in Nat /\ id = serverId'
    BY <1>1, <1>2
  <2>2. requests' = t
    BY <1>1
  <2> HIDE DEF t, id
  <2>3. /\ t \in Seq(Packets) /\ Len(t) = Len(requests) + 1 /\ Len(requests) \in Nat
        /\ \A i \in 1..Len(requests) : t[i] = requests[i]
        /\ t[Len(requests) + 1].id = id /\ t[Len(requests) + 1].piece = piece
    BY <1>2, <2>1, LongerLink, SMTT(40)
  <2> QED
    BY <1>1, <2>1, <2>2, <2>3
<1>4. \A i \in 1..Len(requests) : requests[i].id = hostId
  BY DEF ExchangeInv, LinkInv
<1>5. ASSUME NEW i \in 1..Len(requests')
      PROVE  \/ i \in 1..Len(requests) /\ requests'[i].id = hostId'
             \/ i = Len(requests) + 1
  <2>1. i \in 1..Len(requests) \/ i = Len(requests) + 1
    BY <1>3
  <2> QED
    BY <1>1, <1>3, <1>4, <2>1
<1>6. \A i \in 1..Len(requests') :
          /\ requests'[i].id \in {hostId', serverId'}
          /\ requests'[i].id # hostId' =>
                /\ requests'[i].piece = current'
                /\ \A j \in i..Len(requests') : requests'[j].id # hostId'
  <2> TAKE i \in 1..Len(requests')
  <2>1. CASE i \in 1..Len(requests) /\ requests'[i].id = hostId'
    BY <2>1
  <2>2. CASE i = Len(requests) + 1
    <3>1. requests'[i].id = serverId' /\ requests'[i].piece = current' /\ serverId' # hostId'
      BY <1>1, <1>2, <1>3, <2>2
    <3>2. \A j \in i..Len(requests') : j = i
      BY <1>3, <2>2
    <3> QED
      BY <3>1, <3>2
  <2> QED
    BY <1>5, <2>1, <2>2
<1>7. responses' \in Seq(Packets)
  BY <1>2, TailOfLink
<1>8. \A i \in 1..Len(responses') :
          /\ responses'[i].id <= hostId'
          /\ responses'[i].id = serverId' => responses'[i].piece = hostReply'
  <2> TAKE i \in 1..Len(responses')
  <2>1. i + 1 \in 1..Len(responses) /\ responses'[i] = responses[i + 1]
    BY <1>2, TailOfLink
  <2>2. responses[i + 1].id <= hostId /\ responses[i + 1] \in Packets
    BY <1>2, <2>1, ElementOfSeq DEF ExchangeInv, LinkInv
  <2>3. responses[i + 1].id \in Nat
    BY <2>2 DEF Packets
  <2> QED
    BY <1>1, <1>2, <2>1, <2>2, <2>3
<1>9. hostId' \in {serverId' - 1, serverId'} /\ hostId' # serverId'
  BY <1>1, <1>2
<1>10. LinkInv'
  BY <1>6, <1>8, <1>9 DEF LinkInv
<1> QED
  BY <1>1, <1>2, <1>3, <1>7, <1>9, <1>10

\* EAPHost's repetition is the answer it gave before.
LEMMA HostRepeatsStep ==
    ASSUME ExchangeInv, HostRepeats
    PROVE  ExchangeInv'
<1>1. /\ requests # <<>> /\ requests' = Tail(requests)
      /\ responses' = Append(responses, Packet(hostId, hostReply))
      /\ UNCHANGED <<client, server, losses>>
  BY DEF HostRepeats
<1>2. UNCHANGED <<outQueue, clientGot, hostId, hostReply, serverId, current, unsent,
                  heard, serverGot, buf, expectedTotal, fragments, result, losses>>
  BY <1>1 DEF client, server, rx, vars, state
<1>3. /\ requests \in Seq(Packets) /\ responses \in Seq(Packets)
      /\ hostId \in Nat /\ serverId \in Nat /\ hostReply \in Fragment
  BY DEF ExchangeInv, ExchangeTypeOK
<1>4. /\ responses' \in Seq(Packets)
      /\ Len(responses') = Len(responses) + 1 /\ Len(responses) \in Nat
      /\ \A i \in 1..Len(responses) : responses'[i] = responses[i]
      /\ responses'[Len(responses) + 1].id = hostId
      /\ responses'[Len(responses) + 1].piece = hostReply
  BY <1>1, <1>3, LongerLink
<1>5. requests' \in Seq(Packets)
  BY <1>1, <1>3, TailOfLink
<1>6. ExchangeTypeOK'
  BY <1>2, <1>4, <1>5 DEF ExchangeInv, ExchangeTypeOK
<1>7. \A i \in 1..Len(requests') :
          /\ requests'[i].id \in {hostId, serverId}
          /\ requests'[i].id # hostId =>
                /\ requests'[i].piece = current
                /\ \A j \in i..Len(requests') : requests'[j].id # hostId
  BY <1>1, <1>3, TailOfLink DEF ExchangeInv, LinkInv
<1>8. \A i \in 1..Len(responses') :
          /\ responses'[i].id <= hostId
          /\ responses'[i].id = serverId => responses'[i].piece = hostReply
  <2> TAKE i \in 1..Len(responses')
  <2>1. i \in 1..Len(responses) \/ i = Len(responses) + 1
    BY <1>4
  <2>2. CASE i \in 1..Len(responses)
    BY <1>4, <2>2 DEF ExchangeInv, LinkInv
  <2>3. CASE i = Len(responses) + 1
    BY <1>3, <1>4, <2>3
  <2> QED
    BY <2>1, <2>2, <2>3
<1>9. LinkInv'
  BY <1>2, <1>7, <1>8 DEF ExchangeInv, LinkInv
<1>10. Over => Over'
  BY <1>1, <1>2, <1>3, TailOfLink DEF Over
<1>11. TurnInv'
  BY <1>2, <1>10, TurnStays DEF ExchangeInv
<1> QED
  BY <1>6, <1>9, <1>11 DEF ExchangeInv

\* A repeated request is the one that is awaited.
LEMMA RetransmitStep ==
    ASSUME ExchangeInv, Retransmit
    PROVE  ExchangeInv'
<1>1. /\ requests' = Append(requests, Packet(serverId, current)) /\ ~Done
      /\ UNCHANGED <<client, server, responses, losses>>
  BY DEF Retransmit
<1>2. UNCHANGED <<outQueue, clientGot, hostId, hostReply, serverId, current, unsent,
                  heard, serverGot, buf, expectedTotal, fragments, result, losses, responses>>
  BY <1>1 DEF client, server, rx, vars, state
<1>3. /\ requests \in Seq(Packets) /\ serverId \in Nat /\ hostId \in Nat /\ current \in Fragment
  BY DEF ExchangeInv, ExchangeTypeOK
<1>4. /\ requests' \in Seq(Packets)
      /\ Len(requests') = Len(requests) + 1 /\ Len(requests) \in Nat
      /\ \A i \in 1..Len(requests) : requests'[i] = requests[i]
      /\ requests'[Len(requests) + 1].id = serverId
      /\ requests'[Len(requests) + 1].piece = current
  BY <1>1, <1>3, LongerLink
<1>5. ExchangeTypeOK'
  BY <1>2, <1>4 DEF ExchangeInv, ExchangeTypeOK
<1>6. \A i \in 1..Len(requests') :
          /\ requests'[i].id \in {hostId, serverId}
          /\ requests'[i].id # hostId =>
                /\ requests'[i].piece = current
                /\ \A j \in i..Len(requests') : requests'[j].id # hostId
  <2> TAKE i \in 1..Len(requests')
  <2>1. i \in 1..Len(requests) \/ i = Len(requests) + 1
    BY <1>4
  <2>2. CASE i \in 1..Len(requests)
    <3>1. requests'[i].id \in {hostId, serverId}
      BY <1>4, <2>2 DEF ExchangeInv, LinkInv
    <3>2. ASSUME requests'[i].id # hostId
          PROVE  /\ requests'[i].piece = current
                 /\ \A j \in i..Len(requests') : requests'[j].id # hostId
      <4>1. /\ requests[i].piece = current /\ serverId # hostId
            /\ \A j \in i..Len(requests) : requests[j].id # hostId
        BY <1>4, <2>2, <3>1, <3>2 DEF ExchangeInv, LinkInv
      <4>2. ASSUME NEW j \in i..Len(requests') PROVE requests'[j].id # hostId
        <5>1. j \in i..Len(requests) \/ j = Len(requests) + 1
          BY <1>4, <2>2
        <5>2. CASE j \in i..Len(requests)
          <6>1. j \in 1..Len(requests)
            BY <1>4, <2>2, <5>2
          <6> QED
            BY <1>4, <4>1, <5>2, <6>1
        <5> QED
          BY <1>4, <4>1, <5>1, <5>2
      <4> QED
        BY <1>4, <2>2, <4>1, <4>2
    <3> QED
      BY <3>1, <3>2
  <2>3. CASE i = Len(requests) + 1
    <3>1. \A j \in i..Len(requests') : j = i
      BY <1>4, <2>3
    <3> QED
      BY <1>4, <2>3, <3>1
  <2> QED
    BY <2>1, <2>2, <2>3
<1>7. LinkInv'
  BY <1>2, <1>6 DEF ExchangeInv, LinkInv
<1>8. TurnInv'
  <2>1. ~Done => Turn # Len(FromServer) + 1
    BY LenProperties, ScriptAssumption DEF Done, Turn, ExchangeInv, ExchangeTypeOK
  <2>2. Turn' = Turn
    BY <1>2 DEF Turn
  <2>3. ASSUME NEW k, SpeakingAt(Turn, k) PROVE SpeakingAt(Turn, k)'
    BY <1>2, <2>2, <2>3 DEF SpeakingAt, Holds
  <2>4. ASSUME NEW j, AnsweringAt(Turn, j) PROVE AnsweringAt(Turn, j)'
    BY <1>2, <2>2, <2>4 DEF AnsweringAt
  <2>5. Said(Turn)' = Said(Turn) /\ Answered(Turn)' = Answered(Turn)
    BY <2>2
  <2> QED
    BY <1>1, <2>1, <2>2, <2>3, <2>4, <2>5 DEF TurnInv, ExchangeInv
<1> QED
  BY <1>5, <1>7, <1>8 DEF ExchangeInv

\* The server goes on with its message, acknowledges a piece of the client's, or
\* takes the last one; or it has had this response before.
LEMMA ServerStep ==
    ASSUME ExchangeInv, ServerReceives
    PROVE  /\ ExchangeInv' /\ UNCHANGED clientGot
           /\ serverGot' = serverGot \/ Abstract!ServerHears
<1> DEFINE r == Head(responses)
           Q == Answered(Turn)
<1>1. /\ responses # <<>> /\ responses' = Tail(responses)
      /\ UNCHANGED <<client, losses>>
  BY DEF ServerReceives
<1>2. UNCHANGED <<outQueue, clientGot, hostId, hostReply,
                  buf, expectedTotal, fragments, result>>
  BY <1>1 DEF client, rx, vars, state
<1>3. CASE r.id # serverId
  <2>1. UNCHANGED <<server, requests>>
    BY <1>3 DEF ServerReceives
  <2>2. losses' \in Nat
    BY <1>1 DEF ExchangeInv, ExchangeTypeOK
  <2>3. ExchangeInv'
    BY <1>1, <2>1, <2>2, ShorterLink DEF client
  <2> QED
    BY <1>2, <2>1, <2>3 DEF server
<1>4. CASE r.id = serverId
  <2>1. responses \in Seq(Packets) /\ r = responses[1] /\ 1 \in 1..Len(responses)
    BY <1>1, TailOfLink DEF ExchangeInv, ExchangeTypeOK
  <2>2. hostId = serverId /\ r.piece = hostReply
    <3>1. r.id <= hostId /\ r.piece = hostReply /\ hostId \in {serverId - 1, serverId}
      BY <1>4, <2>1 DEF ExchangeInv, LinkInv
    <3>2. serverId \in Nat
      BY DEF ExchangeInv, ExchangeTypeOK
    <3> QED
      BY <1>4, <3>1, <3>2
  <2>3. Turn \in 1..Len(FromServer) /\ ~Over
    <3>1. Turn \in Nat \ {0} /\ ~Over
      BY <2>2, LenProperties DEF Over, Turn, ExchangeInv, ExchangeTypeOK
    <3>2. Turn <= Len(FromServer)
      BY <3>1 DEF ExchangeInv, TurnInv
    <3> QED
      BY <3>1, <3>2, ScriptAssumption
  <2>4. CASE unsent # <<>>
    <3> DEFINE P == Said(Turn)
    <3>1. Asks(Head(unsent)) /\ unsent' = Tail(unsent) /\ UNCHANGED <<heard, serverGot>>
      BY <1>4, <2>4 DEF ServerReceives
    <3>2. PICK k \in 1..Len(P) : SpeakingAt(Turn, k)
      BY <2>3, <2>4 DEF AnsweringAt, ExchangeInv, TurnInv
    <3>3. /\ Len(clientGot) = Turn - 1 /\ outQueue = <<>> /\ heard = <<>>
          /\ unsent = SubSeq(P, k + 1, Len(P)) /\ k < Len(P)
          /\ result.tag # "Error" => Holds(FromServer[Turn], k)
      BY <2>2, <3>2 DEF SpeakingAt
    <3>4. P \in Seq(Fragment) /\ Len(P) \in Nat /\ k \in Nat
      BY <2>3, SaidAndAnswered
    <3>5. Head(unsent) = P[k + 1] /\ Head(unsent) \in Fragment
      BY <3>3, <3>4, RestOfPieces
    <3>6. unsent' = SubSeq(P, (k + 1) + 1, Len(P))
      BY <3>1, <3>3, <3>4, RestOfPieces
    <3>7. /\ LinkInv' /\ hostId' # serverId' /\ current' = P[k + 1]
          /\ serverId' \in Nat /\ current' \in Fragment
          /\ requests' \in Seq(Packets) /\ responses' \in Seq(Packets)
      BY <1>1, <2>2, <3>1, <3>5, AskKeepsLink DEF Asks
    <3>8. unsent' \in Seq(Fragment)
      BY <2>4, <3>1, HeadTailProperties DEF ExchangeInv, ExchangeTypeOK
    <3>9. ExchangeTypeOK'
      BY <1>1, <1>2, <3>1, <3>7, <3>8 DEF ExchangeInv, ExchangeTypeOK
    <3>10. Turn' = Turn /\ (k + 1) - 1 = k
      BY <3>1, <3>4 DEF Turn
    <3>11. result'.tag # "Error" => Holds(FromServer[Turn], k + 1 - 1)'
      BY <1>2, <3>3, <3>10 DEF Holds
    <3>12. SpeakingAt(Turn, k + 1)'
      BY <1>2, <3>1, <3>3, <3>6, <3>7, <3>10, <3>11 DEF SpeakingAt
    <3>13. TurnInv'
      <4>1. k + 1 \in 1..Len(P)
        BY <3>3, <3>4
      <4> QED
        BY <2>3, <3>10, <3>12, <4>1 DEF TurnInv
    <3> QED
      BY <1>2, <3>1, <3>7, <3>9, <3>13 DEF ExchangeInv
  <2>5. ASSUME unsent = <<>>
        PROVE  \E j \in 1..Len(Q) : AnsweringAt(Turn, j)
    <3>1. ASSUME NEW k \in 1..Len(Said(Turn)), SpeakingAt(Turn, k) PROVE FALSE
      <4>1. unsent = SubSeq(Said(Turn), k + 1, Len(Said(Turn))) /\ k < Len(Said(Turn))
        BY <2>2, <3>1 DEF SpeakingAt
      <4>2. Said(Turn) \in Seq(Fragment) /\ k \in Nat
        BY <2>3, SaidAndAnswered
      <4> QED
        BY <2>5, <4>1, <4>2, RestOfPieces
    <3> QED
      BY <2>3, <3>1 DEF ExchangeInv, TurnInv
  <2>6. ASSUME unsent = <<>>, NEW j \in 1..Len(Q), AnsweringAt(Turn, j)
        PROVE  /\ Len(clientGot) = Turn
               /\ buf = <<>> /\ fragments = 0 /\ expectedTotal = NoTotal
               /\ outQueue = SubSeq(Q, j + 1, Len(Q))
               /\ r.piece.more <=> j < Len(Q)
               /\ heard \o r.piece.data = Front(FromClient[Turn], MaxFragment, j)
               /\ heard \o r.piece.data \in Seq(Octet)
               /\ Q \in Seq(Fragment) /\ Len(Q) \in Nat
               /\ Front(FromClient[Turn], MaxFragment, Len(Q)) = FromClient[Turn]
    <3>1. Carries(Q, FromClient[Turn], MaxFragment)
      BY <2>3, SaidAndAnswered
    <3>2. /\ Len(clientGot) = Turn
          /\ buf = <<>> /\ fragments = 0 /\ expectedTotal = NoTotal
          /\ outQueue = SubSeq(Q, j + 1, Len(Q))
          /\ r.piece = Q[j] /\ heard = Front(FromClient[Turn], MaxFragment, j - 1)
      BY <2>2, <2>6 DEF AnsweringAt
    <3>3. hostReply.data \in Seq(Octet) /\ heard \in Seq(Octet)
      BY DEF ExchangeInv, ExchangeTypeOK, Fragment
    <3>4. heard \o r.piece.data \in Seq(Octet)
      BY <2>2, <3>3, ConcatProperties
    <3> QED
      BY <3>1, <3>2, <3>4 DEF Carries
  <2>7. CASE unsent = <<>> /\ r.piece.more
    <3>1. Asks(Ack) /\ heard' = heard \o r.piece.data /\ UNCHANGED <<unsent, serverGot>>
      BY <1>4, <2>7 DEF ServerReceives
    <3>2. PICK j \in 1..Len(Q) : AnsweringAt(Turn, j)
      BY <2>5, <2>7
    <3>3. Ack \in Fragment
      BY EmptySeq DEF Ack, Piece, Fragment
    <3>4. /\ LinkInv' /\ hostId' # serverId' /\ current' = Ack
          /\ serverId' \in Nat /\ current' \in Fragment
          /\ requests' \in Seq(Packets) /\ responses' \in Seq(Packets)
      BY <1>1, <2>2, <3>1, <3>3, AskKeepsLink DEF Asks
    <3>5. ExchangeTypeOK'
      BY <1>1, <1>2, <2>6, <2>7, <3>1, <3>2, <3>4 DEF ExchangeInv, ExchangeTypeOK
    <3>6. Turn' = Turn
      BY <3>1 DEF Turn
    <3>7. AnsweringAt(Turn, j)'
      BY <1>2, <2>6, <2>7, <3>1, <3>2, <3>4, <3>6 DEF AnsweringAt
    <3>8. TurnInv'
      BY <2>3, <3>6, <3>7 DEF TurnInv
    <3> QED
      BY <1>2, <3>1, <3>4, <3>5, <3>8 DEF ExchangeInv
  <2>8. CASE unsent = <<>> /\ ~r.piece.more
    <3>1. serverGot' = Append(serverGot, heard \o r.piece.data) /\ heard' = <<>>
      BY <1>4, <2>8 DEF ServerReceives
    <3>2. PICK j \in 1..Len(Q) : AnsweringAt(Turn, j)
      BY <2>5, <2>8
    <3>3. /\ Len(clientGot) = Turn
          /\ buf = <<>> /\ fragments = 0 /\ expectedTotal = NoTotal
          /\ outQueue = SubSeq(Q, j + 1, Len(Q))
          /\ ~(j < Len(Q)) /\ Len(Q) \in Nat /\ Q \in Seq(Fragment)
          /\ heard \o r.piece.data = Front(FromClient[Turn], MaxFragment, j)
          /\ Front(FromClient[Turn], MaxFragment, Len(Q)) = FromClient[Turn]
      BY <2>6, <2>8, <3>2
    <3>4. j = Len(Q) /\ Q # <<>>
      BY <3>3
    <3>5. outQueue = <<>> /\ heard \o r.piece.data = FromClient[Turn]
      BY <3>3, <3>4, EndsOfPieces
    <3>6. /\ FromClient[Turn] \in Seq(Octet)
          /\ serverGot \in Seq(Seq(Octet)) /\ serverGot' = Append(serverGot, FromClient[Turn])
      BY <2>3, <3>1, <3>5, SaidAndAnswered DEF ExchangeInv, ExchangeTypeOK
    <3>7. /\ serverGot' \in Seq(Seq(Octet))
          /\ Len(serverGot') = Turn /\ Turn' = Turn + 1
      <4>1. serverGot' \in Seq(Seq(Octet)) /\ Len(serverGot') = Len(serverGot) + 1
        BY <3>6, AppendProperties
      <4> QED
        BY <4>1 DEF Turn
    <3>8. Abstract!ServerHears
      <4>1. Len(serverGot) + 1 = Turn /\ Len(serverGot) < Len(clientGot)
        BY <2>3, <3>3, <3>6, LenProperties DEF Turn
      <4> QED
        BY <1>2, <3>6, <4>1 DEF Abstract!ServerHears
    <3>9. CASE Turn < Len(FromServer)
      <4> DEFINE P == Said(Turn + 1)
      <4>1. Turn + 1 \in 1..Len(FromServer) /\ Turn + 1 # 1
        BY <2>3, <3>9, ScriptAssumption
      <4>2. P = Pieces(FromServer[Turn + 1], ServerChunk)
        BY <4>1, SaidAndAnswered
      <4>3. Asks(Head(P)) /\ unsent' = Tail(P)
        BY <1>4, <2>8, <3>1, <3>7, <3>9, <4>2 DEF ServerReceives
      <4>4. /\ P \in Seq(Fragment) /\ Len(P) \in Nat \ {0}
            /\ Front(FromServer[Turn + 1], ServerChunk, 0) = <<>>
        BY <4>1, SaidAndAnswered
      <4>5. P # <<>>
        BY <4>4
      <4>6. /\ Head(P) = P[1] /\ Head(P) \in Fragment
            /\ unsent' = SubSeq(P, 1 + 1, Len(P)) /\ unsent' \in Seq(Fragment)
        BY <4>3, <4>4, <4>5, EndsOfPieces
      <4>7. /\ LinkInv' /\ hostId' # serverId' /\ current' = P[1]
            /\ serverId' \in Nat /\ current' \in Fragment
            /\ requests' \in Seq(Packets) /\ responses' \in Seq(Packets)
        BY <1>1, <2>2, <4>3, <4>6, AskKeepsLink DEF Asks
      <4>8. ExchangeTypeOK'
        BY <1>1, <1>2, <3>1, <3>7, <4>6, <4>7, EmptySeq DEF ExchangeInv, ExchangeTypeOK
      <4>9. Holds(FromServer[Turn], 1 - 1)'
        BY <1>2, <3>7, <3>3, <4>4 DEF Holds
      <4>10. Len(clientGot') = Turn' - 1
        BY <1>2, <2>3, <3>3, <3>7
      <4>11. SpeakingAt(Turn, 1)'
        BY <1>2, <3>1, <3>5, <3>7, <4>6, <4>7, <4>9, <4>10 DEF SpeakingAt
      <4>12. TurnInv'
        <5>1. 1 \in 1..Len(P) /\ Turn + 1 <= Len(FromServer)
          BY <4>1, <4>4
        <5> QED
          BY <3>7, <4>11, <5>1 DEF TurnInv
      <4> QED
        BY <1>2, <3>8, <4>7, <4>8, <4>12 DEF ExchangeInv
    <3>10. CASE ~(Turn < Len(FromServer))
      <4>1. serverId' = serverId + 1 /\ UNCHANGED <<current, unsent, requests>>
        BY <1>4, <2>8, <3>1, <3>7, <3>10 DEF ServerReceives
      <4>2. /\ serverId \in Nat /\ hostId \in Nat
            /\ requests \in Seq(Packets) /\ responses \in Seq(Packets)
        BY DEF ExchangeInv, ExchangeTypeOK
      <4>3. \A i \in 1..Len(requests') : requests'[i].id = hostId'
        BY <1>2, <2>2, <4>1 DEF ExchangeInv, LinkInv
      <4>4. \A i \in 1..Len(responses') : responses'[i].id \in Nat /\ responses'[i].id <= hostId'
        <5> TAKE i \in 1..Len(responses')
        <5>1. i + 1 \in 1..Len(responses) /\ responses'[i] = responses[i + 1]
          BY <1>1, <4>2, TailOfLink
        <5>2. responses[i + 1].id <= hostId /\ responses[i + 1] \in Packets
          BY <4>2, <5>1, ElementOfSeq DEF ExchangeInv, LinkInv
        <5>3. responses[i + 1].id \in Nat
          BY <5>2 DEF Packets
        <5> QED
          BY <1>2, <5>1, <5>2, <5>3
      <4>5. hostId' = serverId' - 1 /\ hostId' # serverId'
        BY <1>2, <2>2, <4>1, <4>2
      <4>6. \A i \in 1..Len(responses') : responses'[i].id # serverId'
        BY <1>2, <4>2, <4>4, <4>5
      <4>7. LinkInv'
        BY <4>3, <4>4, <4>5, <4>6 DEF LinkInv
      <4>8. responses' \in Seq(Packets)
        BY <1>1, <4>2, TailOfLink
      <4>9. ExchangeTypeOK'
        BY <1>1, <1>2, <3>1, <3>7, <4>1, <4>8, EmptySeq DEF ExchangeInv, ExchangeTypeOK
      <4>10. Turn = Len(FromServer)
        BY <2>3, <3>10, ScriptAssumption
      <4>11. Over'
        BY <1>2, <3>3, <3>5, <4>3, <4>5, <4>10 DEF Over
      <4>12. TurnInv'
        BY <3>7, <4>10, <4>11 DEF TurnInv
      <4> QED
        BY <1>2, <3>8, <4>7, <4>9, <4>12 DEF ExchangeInv
    <3> QED
      BY <3>9, <3>10
  <2> QED
    BY <2>4, <2>7, <2>8
<1> QED
  BY <1>3, <1>4

\* The link loses a packet, and nothing else happens.
LEMMA LoseStep ==
    ASSUME ExchangeInv, Lose
    PROVE  ExchangeInv' /\ UNCHANGED <<clientGot, serverGot>>
<1>1. losses' \in Nat
  BY DEF Lose, ExchangeInv, ExchangeTypeOK
<1>2. ExchangeInv'
  BY <1>1, ShorterLink DEF Lose, client
<1> QED
  BY <1>2 DEF Lose, client, server

(***************************************************************************)
(* The exchange: theorems.                                                 *)
(***************************************************************************)

\* Every call of the method keeps the invariant, finds no fragment of an earlier
\* flight left when it hands a message out, and hands out the next one.
LEMMA ClientStep ==
    ASSUME ExchangeInv, ClientReceives
    PROVE  /\ ExchangeInv' /\ UNCHANGED serverGot
           /\ clientGot' = clientGot \/ (outQueue = <<>> /\ Abstract!ClientHears)
<1>1. UNCHANGED serverGot
  BY DEF ClientReceives, server
<1>2. CASE NextOutFragment(Head(requests))
  BY <1>1, <1>2, NextFragmentStep DEF NextOutFragment
<1>3. CASE TakeStart(Head(requests))
  BY <1>1, <1>3, StartStep
<1>4. CASE TakeFragment(Head(requests))
  BY <1>1, <1>4, TakeFragmentStep
<1>5. CASE StopAtLimit(Head(requests))
  <2>1. UNCHANGED <<rx, outQueue, clientGot, hostId, hostReply, server, responses, losses>>
        /\ requests # <<>> /\ requests' = Tail(requests)
    BY <1>5 DEF StopAtLimit, ClientReceives
  <2>2. losses' \in Nat
    BY <2>1 DEF ExchangeInv, ExchangeTypeOK
  <2>3. ExchangeInv'
    BY <2>1, <2>2, ShorterLink
  <2> QED
    BY <1>1, <2>1, <2>3
<1> QED
  BY <1>2, <1>3, <1>4, <1>5 DEF ClientReceives

\* Every step keeps the invariant and is one of the conversation's, or none.
LEMMA ExchangeStep ==
    ASSUME ExchangeInv, [ExchangeNext]_exchange
    PROVE  /\ ExchangeInv'
           /\ [Abstract!Next]_(Abstract!vars)
           /\ Len(clientGot') > Len(clientGot) => outQueue = <<>>
<1> USE DEF Abstract!Next, Abstract!vars
<1>1. Len(clientGot) \in Nat
  BY LenProperties DEF ExchangeInv, ExchangeTypeOK
<1>2. CASE ClientReceives
  BY <1>1, <1>2, ClientStep
<1>3. CASE HostRepeats
  BY <1>1, <1>3, HostRepeatsStep DEF HostRepeats, client, server
<1>4. CASE ServerReceives
  BY <1>1, <1>4, ServerStep
<1>5. CASE Retransmit
  BY <1>1, <1>5, RetransmitStep DEF Retransmit, client, server
<1>6. CASE Lose
  BY <1>1, <1>6, LoseStep
<1>7. CASE UNCHANGED exchange
  <2>1. UNCHANGED <<client, server, requests, responses, losses>>
    BY <1>7 DEF exchange, link
  <2>2. losses' \in Nat
    BY <2>1 DEF ExchangeInv, ExchangeTypeOK
  <2>3. ExchangeInv'
    BY <2>1, <2>2, ShorterLink DEF client
  <2> QED
    BY <1>1, <2>1, <2>3 DEF client, server
<1> QED
  BY <1>2, <1>3, <1>4, <1>5, <1>6, <1>7 DEF ExchangeNext

\* Wherever an exchange gets to, both ends agree on whose turn it is and how much
\* of which message has passed, whatever the link has lost or repeated.
THEOREM ExchangeInvariance == ExchangeSpec => []ExchangeInv
BY InitExchangeInv, ExchangeStep, PTL DEF ExchangeSpec

\* A flight is not replaced before its last fragment has gone out, for every
\* script, every fragment size and every pattern of losses and repetitions.
THEOREM NoFragmentIsDropped == ExchangeSpec => FlightsGoOutWhole
<1>1. ExchangeInv /\ [ExchangeNext]_exchange =>
          [Len(clientGot') > Len(clientGot) => outQueue = <<>>]_exchange
  BY ExchangeStep
<1> QED
  BY <1>1, ExchangeInvariance, PTL DEF ExchangeSpec, FlightsGoOutWhole

\* The safety part of CarriesConversation: both sides receive each other's
\* messages whole, in order, in turn and exactly once.
THEOREM MessagesTakeTurns == ExchangeSpec => TakesTurns
<1>1. ExchangeInit => Abstract!Init
  BY DEF ExchangeInit, Abstract!Init
<1>2. ExchangeInv /\ [ExchangeNext]_exchange => [Abstract!Next]_(Abstract!vars)
  BY ExchangeStep
<1> QED
  BY <1>1, <1>2, ExchangeInvariance, PTL DEF ExchangeSpec, TakesTurns

\* A message within the limits of the reassembler has no piece refused.
LEMMA PieceIsAccepted ==
    ASSUME NEW n \in 1..Len(FromServer), n # 1,
           Len(FromServer[n]) <= MaxTotal,
           Len(Pieces(FromServer[n], ServerChunk)) <= MaxFragments,
           NEW k \in 1..Len(Said(n)), Holds(FromServer[n], k - 1)
    PROVE  ~Reject(Said(n)[k])
<1> DEFINE f == Said(n)[k]
           m == FromServer[n]
           P == Said(n)
<1>1. Carries(P, m, ServerChunk) /\ m \in Seq(Octet) /\ P = Pieces(m, ServerChunk)
  BY SaidAndAnswered
<1>2. /\ k \in Nat /\ k >= 1 /\ k <= Len(P) /\ Len(P) \in Nat /\ Len(m) \in Nat
      /\ P \in Seq(Fragment)
  BY <1>1 DEF Carries
<1>3. Len(m) <= MaxTotal /\ Len(P) <= MaxFragments
  BY <1>1
<1>4. /\ f.more <=> k < Len(P)
      /\ f.total = IF k = 1 /\ Len(P) > 1 THEN Len(m) ELSE NoTotal
      /\ Front(m, ServerChunk, k - 1) \o f.data = Front(m, ServerChunk, k)
      /\ Front(m, ServerChunk, Len(P)) = m
  BY <1>1 DEF Carries
<1>5. /\ buf = Front(m, ServerChunk, k - 1) /\ fragments = k - 1
      /\ expectedTotal = IF k - 1 = 0 THEN NoTotal ELSE Len(m)
  BY DEF Holds
<1>6. /\ Len(buf) + Len(f.data) = Len(Front(m, ServerChunk, k))
      /\ Len(buf) \in Nat /\ Len(f.data) \in Nat
  <2>1. f \in Fragment
    BY <1>2, ElementOfSeq
  <2>2. f.data \in Seq(Octet)
    BY <2>1 DEF Fragment
  <2>3. buf \in Seq(Octet)
    <3>1. k - 1 \in 0..Len(P)
      BY <1>2
    <3> QED
      BY <1>1, <1>5, <3>1 DEF Carries
  <2>4. buf \o f.data = Front(m, ServerChunk, k)
    BY <1>4, <1>5
  <2>5. Len(buf \o f.data) = Len(buf) + Len(f.data)
    BY <2>2, <2>3, ConcatProperties
  <2> QED
    BY <2>2, <2>3, <2>4, <2>5, LenProperties
<1>7. Len(Front(m, ServerChunk, k)) <= Len(m)
  BY <1>1, <1>2 DEF Carries
<1>8. WithinCount(f)
  BY <1>2, <1>3, <1>5, BoundAssumption DEF WithinCount
<1>9. WithinTotal(f)
  BY <1>2, <1>3, <1>6, <1>7, BoundAssumption, SMTT(40) DEF WithinTotal
<1>10. TotalAgrees(f)
  BY <1>2, <1>3, <1>4, <1>5 DEF TotalAgrees
<1>11. ~f.more => LengthMatches(f)
  <2>1. ASSUME ~f.more PROVE LengthMatches(f)
    <3>1. k = Len(P)
      BY <1>2, <1>4, <2>1
    <3>2. Len(buf) + Len(f.data) = Len(m)
      BY <1>4, <1>6, <3>1
    <3>3. TotalAfter(f) \in {NoTotal, Len(m)}
      BY <1>4, <1>5 DEF TotalAfter
    <3> QED
      BY <3>2, <3>3 DEF LengthMatches
  <2> QED
    BY <2>1
<1> QED
  BY <1>8, <1>9, <1>10, <1>11 DEF Reject

\* Nothing counts when a phase begins.
LEMMA NothingCounted ==
    ASSUME NEW n \in {1, 2, HandshakeMessages + 1}
    PROVE  Counted(n, 0) = {}
<1>1. n - 1 < FirstOfPhase(n) /\ n - 1 \in Int /\ FirstOfPhase(n) \in Int
  BY RoundsAssumption DEF FirstOfPhase
<1>2. FirstOfPhase(n)..(n - 1) = {} /\ 1..0 = {}
  BY <1>1
<1>3. \A x : x \notin {n} \X (1..0)
  BY <1>2
<1>4. \A x : x \notin UNION {PiecesOf(m) : m \in FirstOfPhase(n)..(n - 1)}
  BY <1>2
<1> QED
  BY <1>3, <1>4 DEF Counted

\* Each piece that is taken counts, and none has counted before.
LEMMA PieceCounts ==
    ASSUME NEW n \in Nat \ {0}, NEW k \in Nat
    PROVE  /\ Counted(n, k + 1) = Counted(n, k) \cup {<<n, k + 1>>}
           /\ <<n, k + 1>> \notin Counted(n, k)
<1> DEFINE before == UNION {PiecesOf(m) : m \in FirstOfPhase(n)..(n - 1)}
<1>1. Counted(n, k) = before \cup ({n} \X (1..k))
  BY DEF Counted
<1>2. Counted(n, k + 1) = before \cup ({n} \X (1..(k + 1)))
  BY DEF Counted
<1>3. 1..(k + 1) = 1..k \cup {k + 1} /\ k + 1 \notin 1..k
  OBVIOUS
<1>4. {n} \X (1..(k + 1)) = ({n} \X (1..k)) \cup {<<n, k + 1>>}
  BY <1>3
<1>5. <<n, k + 1>> \notin {n} \X (1..k)
  BY <1>3
<1>6. <<n, k + 1>> \notin before
  <2>1. n \notin FirstOfPhase(n)..(n - 1)
    BY RoundsAssumption DEF FirstOfPhase
  <2>2. ASSUME NEW m \in FirstOfPhase(n)..(n - 1), <<n, k + 1>> \in PiecesOf(m)
        PROVE  FALSE
    BY <2>1, <2>2 DEF PiecesOf
  <2> QED
    BY <2>2
<1> HIDE DEF before
<1> QED
  BY <1>1, <1>2, <1>4, <1>5, <1>6

\* All of a message has counted when the next one of its phase begins.
LEMMA MessageCounted ==
    ASSUME NEW n \in Nat, n > 1, n # HandshakeMessages
    PROVE  Counted(n + 1, 0) = Counted(n, Len(Pieces(FromServer[n], ServerChunk)))
<1>1. /\ FirstOfPhase(n) \in Int /\ FirstOfPhase(n) <= n
      /\ FirstOfPhase(n + 1) = FirstOfPhase(n)
  BY RoundsAssumption DEF FirstOfPhase
<1>2. FirstOfPhase(n)..((n + 1) - 1) = FirstOfPhase(n)..(n - 1) \cup {n} /\ 1..0 = {}
  BY <1>1
<1>3. UNION {PiecesOf(m) : m \in FirstOfPhase(n)..((n + 1) - 1)}
        = (UNION {PiecesOf(m) : m \in FirstOfPhase(n)..(n - 1)}) \cup PiecesOf(n)
  BY <1>2
<1>4. {n + 1} \X (1..0) = {}
  BY <1>2
<1>5. Counted(n + 1, 0) = UNION {PiecesOf(m) : m \in FirstOfPhase(n)..((n + 1) - 1)}
  BY <1>1, <1>4 DEF Counted
<1>6. Counted(n, Len(Pieces(FromServer[n], ServerChunk)))
        = (UNION {PiecesOf(m) : m \in FirstOfPhase(n)..(n - 1)}) \cup PiecesOf(n)
  BY DEF Counted, PiecesOf
<1> QED
  BY <1>3, <1>5, <1>6

\* The limit is a number, and stays while the phase does.
LEMMA LimitType ==
    ASSUME RoundsInv, limits' = limits
    PROVE  Limit \in Nat /\ Limit' \in Nat
  BY RoundsAssumption DEF RoundsInv, Limit

\* The count before and after a fragment.
LEMMA FragmentCounts ==
    ASSUME ExchangeInv, RoundsInv, ClientReceives, TakeFragment(Head(requests))
    PROVE  /\ RoundsInv' /\ ~(rounds' > Limit')
           /\ result'.tag = "Error" =>
                \E n \in 2..Len(FromServer) :
                    \/ Len(FromServer[n]) > MaxTotal
                    \/ Len(Pieces(FromServer[n], ServerChunk)) > MaxFragments
<1> DEFINE p == Head(requests)
           n == Turn
           m == FromServer[n]
<1>0. Turn' = Turn /\ limits' = limits /\ Limit \in Nat /\ Limit' \in Nat
      /\ limits \in RoundLimits
  BY LimitType DEF ClientReceives, Turn, server, RoundsInv
<1>1. /\ ~Stopped /\ rounds < Limit /\ Push(p.piece) /\ CountRound
      /\ result.tag # "Error"
  BY DEF TakeFragment, ClientReceives, Stopped
<1>2. PICK k \in 1..Len(Said(n)) :
          /\ n \in 1..Len(FromServer) /\ n # 1
          /\ SpeakingAt(n, k) /\ p.piece = Said(n)[k] /\ Holds(m, k - 1)
  BY FragmentIsNext
<1>3. /\ Len(clientGot) = n - 1 /\ fragments = k - 1
      /\ n \in Nat /\ n > 1 /\ n <= Len(FromServer) /\ k \in Nat \ {0}
      /\ Said(n) = Pieces(m, ServerChunk) /\ Len(Said(n)) \in Nat
  BY <1>2, SaidAndAnswered, ScriptAssumption, LenProperties DEF SpeakingAt, Holds
<1>4. \/ result' = Error
      \/ result' = More /\ k < Len(Said(n)) /\ Holds(m, k)'
      \/ result' = Complete(m) /\ k = Len(Said(n)) /\ fragments' = 0
  <2>1. Push(Said(n)[k])
    BY <1>1, <1>2
  <2>2. \/ result' = Error
        \/ result' = More /\ k < Len(Said(n)) /\ Holds(FromServer[n], k)'
        \/ /\ result' = Complete(FromServer[n]) /\ k = Len(Said(n))
           /\ buf' = <<>> /\ fragments' = 0 /\ expectedTotal' = NoTotal
    BY <1>0, <1>2, <2>1, PushOfAPiece
  <2> QED
    BY <2>2, Zenon
<1>5. Error.tag = "Error" /\ More.tag = "More" /\ Complete(m).tag = "Complete"
  BY DEF Error, More, Complete
<1>6. IsFiniteSet(Now) /\ rounds = Cardinality(Now) /\ rounds \in Nat /\ Now = Counted(n, k - 1)
  BY <1>1, <1>3 DEF RoundsInv, Now
<1>7. IsFiniteSet(Counted(n, k)) /\ Cardinality(Counted(n, k)) = rounds + 1
  <2>1. /\ Counted(n, k) = Now \cup {<<n, k>>} /\ <<n, k>> \notin Now
    <3>1. k - 1 \in Nat /\ (k - 1) + 1 = k /\ n \in Nat \ {0}
      BY <1>3
    <3> QED
      BY <1>6, <3>1, PieceCounts
  <2>2. /\ IsFiniteSet(Now \cup {<<n, k>>})
        /\ Cardinality(Now \cup {<<n, k>>}) = Cardinality(Now) + 1
    <3> HIDE DEF n, Now
    <3>1. IsFiniteSet(Now) /\ <<n, k>> \notin Now
      BY <1>6, <2>1
    <3> QED
      BY <3>1, FS_AddElement, ZenonT(60)
  <2> QED
    BY <1>6, <2>1, <2>2, ZenonT(60)
<1>8. CASE result' = Error
  <2>1. rounds' = rounds + 1 /\ UNCHANGED clientGot
    BY <1>1, <1>5, <1>8 DEF CountRound, TakeFragment
  <2>2. Limit' = Limit
    BY <1>0, <2>1 DEF Limit
  <2>3. Limit \in Nat
    BY <1>0
  <2>4. Reject(p.piece)
    BY <1>1, <1>5, <1>8 DEF Push, Accumulate, Finish, More, Complete
  <2>5. Len(m) > MaxTotal \/ Len(Pieces(m, ServerChunk)) > MaxFragments
    <3>1. Len(m) \in Nat /\ Len(Pieces(m, ServerChunk)) \in Nat
      BY <1>2, <1>3, SaidAndAnswered, LenProperties
    <3>2. ~(Len(m) <= MaxTotal /\ Len(Pieces(m, ServerChunk)) <= MaxFragments)
      BY <1>2, <2>4, PieceIsAccepted
    <3> QED
      BY <3>1, <3>2, BoundAssumption
  <2>6. RoundsInv'
    BY <1>0, <1>5, <1>6, <1>8, <2>1 DEF RoundsInv, Stopped
  <2> QED
    BY <1>1, <1>2, <1>3, <1>6, <2>1, <2>2, <2>3, <2>5, <2>6
<1>9. CASE result' = More /\ k < Len(Said(n)) /\ Holds(m, k)'
  <2>1. rounds' = rounds + 1 /\ UNCHANGED clientGot
    BY <1>1, <1>5, <1>9 DEF CountRound, TakeFragment
  <2>2. Limit' = Limit /\ Limit \in Nat
    BY <1>0, <2>1 DEF Limit
  <2>3. Now' = Counted(n, k)
    <3>1. fragments' = k /\ Len(clientGot') + 1 = n
      BY <1>3, <1>9, <2>1 DEF Holds
    <3> QED
      BY <3>1 DEF Now, Counted, FirstOfPhase, PiecesOf, Pieces, Piece, NoTotal
  <2>4. RoundsInv'
    BY <1>0, <1>6, <1>7, <2>1, <2>3 DEF RoundsInv
  <2> QED
    BY <1>1, <1>5, <1>6, <1>9, <2>1, <2>2, <2>4
<1>10. CASE result' = Complete(m) /\ k = Len(Said(n)) /\ fragments' = 0
  <2>1. clientGot' = Append(clientGot, result'.message)
    BY <1>5, <1>10 DEF TakeFragment
  <2>2. Len(clientGot') = n
    <3>1. Len(clientGot') = Len(clientGot) + 1
      <4>1. clientGot \in Seq(Seq(Octet)) /\ m \in Seq(Octet) /\ result'.message = m
        BY <1>2, <1>10, SaidAndAnswered DEF Complete, ExchangeInv, ExchangeTypeOK
      <4> QED
        BY <2>1, <4>1, AppendProperties
    <3> QED
      BY <1>3, <3>1
  <2>3. Now' = Counted(n + 1, 0)
    BY <1>10, <2>2 DEF Now, Counted, FirstOfPhase, PiecesOf, Pieces, Piece, NoTotal
  <2>4. Limit' \in Nat
    BY <1>0
  <2>5. CASE n = HandshakeMessages
    <3>1. rounds' = 0
      BY <1>1, <1>5, <1>10, <2>2, <2>5 DEF CountRound
    <3>2. Now' = {}
      BY <2>3, <2>5, NothingCounted
    <3>3. RoundsInv'
      BY <1>0, <3>1, <3>2, FS_EmptySet DEF RoundsInv
    <3> QED
      BY <1>5, <1>10, <2>4, <3>1, <3>3
  <2>6. CASE n # HandshakeMessages
    <3>1. rounds' = rounds + 1
      BY <1>1, <2>2, <2>6 DEF CountRound
    <3>2. Limit' = Limit
      <4>1. n - 1 < HandshakeMessages <=> n < HandshakeMessages
        BY <1>3, <2>6, RoundsAssumption
      <4> QED
        BY <1>0, <1>3, <2>2, <4>1 DEF Limit
    <3>3. Now' = Counted(n, k)
      BY <1>3, <1>10, <2>3, <2>6, MessageCounted
    <3>4. RoundsInv'
      BY <1>0, <1>6, <1>7, <3>1, <3>3 DEF RoundsInv
    <3> QED
      BY <1>1, <1>5, <1>6, <1>10, <2>4, <3>1, <3>2, <3>4
  <2> QED
    BY <2>5, <2>6
<1> QED
  BY <1>4, <1>8, <1>9, <1>10

\* The counts that stop the client are those of the server's own pieces.
LEMMA RoundsStep ==
    ASSUME ExchangeInv, RoundsInv, NoFalseAlarm, [ExchangeNext]_exchange
    PROVE  RoundsInv' /\ NoFalseAlarm'
<1>0. limits' = limits /\ Limit \in Nat /\ Limit' \in Nat /\ limits' \in RoundLimits
  <2>1. limits' = limits
    BY DEF ExchangeNext, ClientReceives, HostRepeats, ServerReceives, Retransmit, Lose,
           exchange, client
  <2> QED
    BY <2>1, LimitType DEF RoundsInv
<1>1. ASSUME ClientReceives, TakeFragment(Head(requests))
      PROVE  RoundsInv' /\ NoFalseAlarm'
  BY <1>1, FragmentCounts DEF NoFalseAlarm, Pieces, Piece, NoTotal
<1>2. ASSUME ClientReceives, TakeStart(Head(requests))
      PROVE  RoundsInv' /\ NoFalseAlarm'
  <2>1. /\ clientGot = <<>> /\ clientGot' = <<FromServer[1]>> /\ fragments = 0
        /\ UNCHANGED <<rx, rounds>> /\ ~Stopped
    BY <1>2, StartStep DEF TakeStart, ClientReceives
  <2>2. fragments' = 0 /\ Len(clientGot) + 1 = 1 /\ Len(clientGot') + 1 = 2
        /\ UNCHANGED result
    BY <2>1 DEF rx, vars, state
  <2>3. Now = {} /\ Now' = {}
    <3>1. Now = Counted(1, 0)
      BY <2>1, <2>2 DEF Now
    <3>2. Now' = Counted(2, 0)
      BY <2>2 DEF Now, Counted, FirstOfPhase, PiecesOf, Pieces, Piece, NoTotal
    <3> QED
      BY <3>1, <3>2, NothingCounted
  <2>4. rounds = 0 /\ rounds' = 0
    BY <2>1, <2>3, FS_EmptySet DEF RoundsInv
  <2>5. ~(rounds' > Limit') /\ result'.tag # "Error"
    BY <1>0, <2>1, <2>2, <2>4 DEF Stopped
  <2> QED
    BY <1>0, <2>3, <2>4, <2>5, FS_EmptySet DEF RoundsInv, NoFalseAlarm
<1>3. ASSUME ClientReceives, NextOutFragment(Head(requests))
      PROVE  RoundsInv' /\ NoFalseAlarm'
  <2>1. UNCHANGED <<fragments, result, rounds, clientGot>>
    BY <1>3 DEF NextOutFragment, rx, vars, state
  <2> QED
    BY <1>0, <2>1 DEF RoundsInv, NoFalseAlarm, Now, Limit, Stopped,
              Counted, FirstOfPhase, PiecesOf, Pieces, Piece, NoTotal
<1>4. ASSUME ClientReceives, StopAtLimit(Head(requests))
      PROVE  RoundsInv' /\ NoFalseAlarm'
  <2>1. UNCHANGED <<fragments, result, clientGot>> /\ rounds' = rounds + 1
    BY <1>4 DEF StopAtLimit, rx, vars, state
  <2>2. rounds = Limit /\ result.tag # "Error" /\ rounds = Cardinality(Now) /\ rounds \in Nat
    <3>1. ~Stopped /\ rounds >= Limit
      BY <1>4 DEF StopAtLimit, ClientReceives
    <3>2. Limit \in Nat
      BY <1>0
    <3> QED
      BY <3>1, <3>2 DEF RoundsInv, Stopped
  <2>3. Limit' = Limit /\ Now' = Now
    BY <1>0, <2>1 DEF Limit, Now, Counted, FirstOfPhase, PiecesOf, Pieces, Piece, NoTotal
  <2>4. rounds' > Limit' /\ Cardinality(Now') = Limit'
    <3>1. rounds' > Limit'
      <4>1. rounds + 1 > rounds
        BY <2>2
      <4>2. rounds' = rounds + 1 /\ Limit' = rounds
        BY <2>1, <2>2, <2>3, Zenon
      <4> QED
        BY <4>1, <4>2, Zenon
    <3>2. Cardinality(Now') = Cardinality(Now)
      BY <2>3
    <3> QED
      BY <2>2, <2>3, <3>1, <3>2
  <2>5. RoundsInv'
    BY <1>0, <2>1, <2>2, <2>4 DEF RoundsInv, Stopped
  <2>6. NoFalseAlarm'
    BY <2>1, <2>2, <2>4 DEF NoFalseAlarm, Now
  <2> QED
    BY <2>5, <2>6
<1>5. CASE HostRepeats \/ ServerReceives \/ Retransmit \/ Lose \/ UNCHANGED exchange
  <2>1. UNCHANGED <<fragments, result, rounds, clientGot>>
    <3>1. UNCHANGED client
      BY <1>5 DEF HostRepeats, ServerReceives, Retransmit, Lose, exchange
    <3> QED
      BY <3>1 DEF client, rx, vars, state
  <2> QED
    BY <1>0, <2>1 DEF RoundsInv, NoFalseAlarm, Now, Limit, Stopped,
              Counted, FirstOfPhase, PiecesOf, Pieces, Piece, NoTotal
<1> QED
  BY <1>1, <1>2, <1>3, <1>4, <1>5 DEF ExchangeNext, ClientReceives

\* The client stops only for a server that has overstepped a limit, for every
\* script, every limit and every pattern of losses and repetitions.
THEOREM NoAlarmIsFalse == ExchangeSpec => []NoFalseAlarm
<1>1. ExchangeInit => RoundsInv /\ NoFalseAlarm
  <2> SUFFICES ASSUME ExchangeInit PROVE RoundsInv /\ NoFalseAlarm
    OBVIOUS
  <2>1. rounds = 0 /\ clientGot = <<>> /\ fragments = 0 /\ result.tag # "Error"
    BY DEF ExchangeInit, Init, More
  <2>2. Now = {}
    <3>1. Now = Counted(1, 0)
      BY <2>1 DEF Now
    <3> QED
      BY <3>1, NothingCounted
  <2>3. ~(rounds > Limit) /\ limits \in RoundLimits
    BY <2>1, RoundsAssumption DEF Limit, ExchangeInit
  <2> QED
    BY <2>1, <2>2, <2>3, FS_EmptySet DEF RoundsInv, NoFalseAlarm
<1>2. ExchangeInv /\ RoundsInv /\ NoFalseAlarm /\ [ExchangeNext]_exchange
        => RoundsInv' /\ NoFalseAlarm'
  BY RoundsStep
<1> QED
  BY <1>1, <1>2, ExchangeInvariance, PTL DEF ExchangeSpec
=============================================================================
