----------------------- MODULE TransmiticStream_proofs -----------------------
(***************************************************************************)
(* Proofs about the streams, for any identities, versions and NONCE_MAX:   *)
(* no nonce is used for two encryptions and every read decrypts; a session *)
(* is a behaviour of EncryptedStream, whoever has a stream has matched its *)
(* peer, and the two ends never wait for each other.                       *)
(***************************************************************************)
EXTENDS TransmiticStream, SequenceTheorems, TLAPS

-----------------------------------------------------------------------------
(* EncryptedStream.                                                        *)

Live(e) == pc[e] # "closed"
Writing(e) == pc[e] \in {"write", "write_payload"}

\* The frame after which the reader takes the turn.
TurnEnd(f) == ~ f.payload /\ f.last

\* The nonce an end has come to, with the frames it has not read yet.
Reach(e) == nonce[e] + Len(wire[e])

\* Everything encrypted so far lies below what a living end has reached or has
\* before it on the wire; two living ends reach equally far.
Fresh == \A e \in Ends : Live(e) => \A n \in encrypted : n < Reach(e)
InStep == \A e \in Ends : Live(e) /\ Live(Peer(e)) => Reach(e) = Reach(Peer(e))

\* The frames before a living end carry consecutive nonces, from its own on.
Consecutive ==
  \A e \in Ends : Live(e) => \A i \in 1 .. Len(wire[e]) : wire[e][i].nonce = nonce[e] + i - 1

\* Who writes has read everything, and its peer does not write.
OneWriter == \A e \in Ends : Writing(e) => wire[e] = <<>> /\ ~ Writing(Peer(e))

\* Only one direction has frames under way, and a frame that ends the turn is the last
\* of them and was written by an end that has gone over to reading.
OneWay == \A e \in Ends : wire[e] = <<>> \/ wire[Peer(e)] = <<>>
EndsLast ==
  \A e \in Ends : \A i \in 1 .. Len(wire[e]) :
    TurnEnd(wire[e][i]) => i = Len(wire[e]) /\ pc[Peer(e)] \in {"read", "closed"}

\* Payloads follow the headers that announce them, on the wire, from what is read to
\* the wire, and from the wire to what is written next.
Expects(e) == IF pc[e] = "read_payload" THEN "payload" ELSE "header"
KindsOnWire ==
  \A e \in Ends : Live(e) =>
    /\ \A i \in 1 .. Len(wire[e]) - 1 :
         wire[e][i].payload <=> wire[e][i + 1].kind = "payload"
    /\ wire[e] # <<>> => wire[e][1].kind = Expects(e)
KindsWritten ==
  \A e \in Ends : Live(e) /\ Writing(Peer(e)) =>
    IF wire[e] = <<>>
    THEN pc[e] = (IF pc[Peer(e)] = "write_payload" THEN "read_payload" ELSE "read")
    ELSE wire[e][Len(wire[e])].payload <=> pc[Peer(e)] = "write_payload"

\* A payload announces nothing.
PayloadsEnd ==
  \A e \in Ends : \A i \in 1 .. Len(wire[e]) :
    wire[e][i].kind = "payload" => ~ wire[e][i].payload

IInv ==
  /\ TypeOK /\ Fresh /\ InStep /\ Consecutive /\ OneWriter /\ OneWay /\ EndsLast
  /\ KindsOnWire /\ KindsWritten /\ PayloadsEnd

-----------------------------------------------------------------------------
\* There are two ends, each the peer of the other.
LEMMA PeerFacts ==
  \A e \in Ends : /\ Peer(e) \in Ends /\ Peer(e) # e /\ Peer(Peer(e)) = e
                  /\ \A d \in Ends : d = e \/ d = Peer(e)
BY DEF Ends, Peer

\* What Append and Tail do to a wire, position by position.
LEMMA AppendFacts ==
  ASSUME NEW S, NEW s \in Seq(S), NEW x \in S
  PROVE  /\ Append(s, x) \in Seq(S)
         /\ Append(s, x) # <<>>
         /\ Len(Append(s, x)) = Len(s) + 1
         /\ \A i \in 1 .. Len(s) : Append(s, x)[i] = s[i]
         /\ Append(s, x)[Len(s) + 1] = x
OBVIOUS

LEMMA TailFacts ==
  ASSUME NEW S, NEW s \in Seq(S), s # <<>>
  PROVE  /\ Tail(s) \in Seq(S)
         /\ Len(s) \in Nat \ {0}
         /\ Len(Tail(s)) = Len(s) - 1
         /\ \A i \in 1 .. Len(s) - 1 : Tail(s)[i] = s[i + 1]
         /\ Head(s) = s[1]
         /\ s[1] \in S
OBVIOUS

\* increment_nonce keeps the counters within their limit.
LEMMA IncrementType ==
  ASSUME nonce \in [Ends -> 0 .. NONCE_MAX], NEW e \in Ends, NEW next,
         increment_nonce(e, next)
  PROVE  nonce' \in [Ends -> 0 .. NONCE_MAX]
PROOF
  <1>1. CASE nonce[e] >= NONCE_MAX
    BY <1>1 DEF increment_nonce
  <1>2. CASE ~ (nonce[e] >= NONCE_MAX)
    <2>1. nonce' = [nonce EXCEPT ![e] = nonce[e] + 1]
      BY <1>2 DEF increment_nonce
    <2>2. nonce[e] + 1 \in 0 .. NONCE_MAX
      BY <1>2, NonceMaxAssumption
    <2> QED
      BY <2>1, <2>2
  <1> QED
    BY <1>1, <1>2

\* Writing a frame, as write_message and write_payload do, keeps the invariant.
LEMMA SendKeeps ==
  ASSUME IInv, NEW e \in Ends, NEW kind, NEW payload \in BOOLEAN, NEW last \in BOOLEAN,
         Writing(e),
         kind = (IF pc[e] = "write" THEN "header" ELSE "payload"),
         kind = "payload" => ~ payload,
         Send(e, kind, payload, last),
         increment_nonce(e, IF payload THEN "write_payload"
                            ELSE IF last THEN "read" ELSE "write"),
         more' \in [Ends -> BOOLEAN]
  PROVE  IInv'
PROOF
  <1> DEFINE p == Peer(e)
             f == [nonce |-> nonce[e], kind |-> kind, payload |-> payload, last |-> last]
             next == IF payload THEN "write_payload" ELSE IF last THEN "read" ELSE "write"
  <1>1. /\ p \in Ends /\ p # e /\ Peer(p) = e /\ \A d \in Ends : d = e \/ d = p
    BY PeerFacts
  <1>2. /\ nonce \in [Ends -> 0 .. NONCE_MAX] /\ pc \in [Ends -> PCs]
        /\ wire \in [Ends -> Seq(Frame)] /\ encrypted \in SUBSET (0 .. NONCE_MAX)
    BY DEF IInv, TypeOK
  <1>3. f \in Frame
    BY <1>2 DEF Frame
  <1>4. wire' = [wire EXCEPT ![p] = Append(@, f)] /\ encrypted' = encrypted \cup {nonce[e]}
    BY DEF Send
  <1>5. wire[e] = <<>> /\ ~ Writing(p)
    BY DEF IInv, OneWriter
  <1>6. wire'[e] = <<>> /\ wire'[p] = Append(wire[p], f)
    BY <1>1, <1>2, <1>4, <1>5
  <1>7. /\ wire[p] \in Seq(Frame) /\ wire'[p] \in Seq(Frame) /\ Len(wire[p]) \in Nat
        /\ wire'[p] # <<>>
        /\ Len(wire'[p]) = Len(wire[p]) + 1
        /\ \A i \in 1 .. Len(wire[p]) : wire'[p][i] = wire[p][i]
        /\ wire'[p][Len(wire[p]) + 1] = f
    BY <1>1, <1>2, <1>3, <1>6, AppendFacts
  <1>8. pc'[p] = pc[p] /\ nonce'[p] = nonce[p] /\ nonce[e] \in Nat /\ nonce[p] \in Nat
    BY <1>1, <1>2 DEF increment_nonce
  <1>9. \/ nonce[e] >= NONCE_MAX /\ pc'[e] = "closed" /\ nonce'[e] = nonce[e]
        \/ nonce[e] < NONCE_MAX /\ pc'[e] = next /\ nonce'[e] = nonce[e] + 1
    BY <1>1, <1>2, NonceMaxAssumption DEF increment_nonce
  <1>10. Live(e) /\ (Live(p) => nonce[e] = nonce[p] + Len(wire[p]))
    BY <1>1, <1>5, <1>7, <1>8 DEF IInv, InStep, Reach, Live, Writing
  <1>11. TypeOK'
    <2>1. nonce' \in [Ends -> 0 .. NONCE_MAX]
      BY <1>2, IncrementType
    <2>2. pc' \in [Ends -> PCs]
      BY <1>2 DEF increment_nonce, PCs
    <2>3. wire' \in [Ends -> Seq(Frame)]
      BY <1>1, <1>2, <1>4, <1>6, <1>7
    <2> QED
      BY <1>2, <1>4, <2>1, <2>2, <2>3 DEF TypeOK
  <1>12. Fresh' /\ InStep'
    <2>1. Live(e)' => \A n \in encrypted' : n < Reach(e)'
      BY <1>2, <1>4, <1>5, <1>6, <1>8, <1>9, <1>10 DEF IInv, Fresh, Live, Reach
    <2>2. Live(p)' => \A n \in encrypted' : n < Reach(p)'
      BY <1>1, <1>2, <1>4, <1>7, <1>8, <1>10 DEF IInv, Fresh, Live, Reach
    <2>3. Live(e)' /\ Live(p)' => Reach(e)' = Reach(p)'
      BY <1>5, <1>6, <1>7, <1>8, <1>9, <1>10 DEF Live, Reach
    <2> QED
      BY <1>1, <2>1, <2>2, <2>3 DEF Fresh, InStep
  <1>13. Consecutive'
    <2>1. ASSUME Live(p)', NEW i \in 1 .. Len(wire'[p])
          PROVE  wire'[p][i].nonce = nonce'[p] + i - 1
      <3>0. Live(p)
        BY <1>8, <2>1 DEF Live
      <3>1. CASE i \in 1 .. Len(wire[p])
        BY <1>1, <1>7, <1>8, <3>0, <3>1 DEF IInv, Consecutive
      <3>2. CASE i = Len(wire[p]) + 1
        BY <1>7, <1>8, <1>10, <3>0, <3>2
      <3> QED
        BY <1>7, <3>1, <3>2
    <2>2. \A i \in 1 .. Len(wire'[e]) : FALSE
      BY <1>6
    <2> QED
      BY <1>1, <2>1, <2>2 DEF Consecutive
  <1>14. OneWriter' /\ OneWay'
    BY <1>1, <1>5, <1>6, <1>8 DEF OneWriter, OneWay, Writing
  <1>15. EndsLast'
    <2>1. ASSUME NEW i \in 1 .. Len(wire'[p]), TurnEnd(wire'[p][i])
          PROVE  i = Len(wire'[p]) /\ pc'[e] \in {"read", "closed"}
      <3>1. i = Len(wire[p]) + 1
        BY <1>1, <1>7, <2>1 DEF IInv, EndsLast, Writing
      <3>2. ~ payload /\ last
        BY <1>7, <2>1, <3>1 DEF TurnEnd
      <3> QED
        BY <1>7, <1>9, <3>1, <3>2
    <2> QED
      BY <1>1, <1>6, <2>1 DEF EndsLast
  <1>16. KindsOnWire'
    <2>1. ASSUME Live(p)', NEW i \in 1 .. Len(wire'[p]) - 1
          PROVE  wire'[p][i].payload <=> wire'[p][i + 1].kind = "payload"
      <3>0. Live(p)
        BY <1>8, <2>1 DEF Live
      <3>1. CASE i < Len(wire[p])
        BY <1>1, <1>7, <3>0, <3>1 DEF IInv, KindsOnWire
      <3>2. CASE i = Len(wire[p])
        <4>1. wire[p] # <<>>
          BY <1>7, <3>2
        <4>2. wire[p][Len(wire[p])].payload <=> pc[e] = "write_payload"
          BY <1>1, <3>0, <4>1 DEF IInv, KindsWritten
        <4> QED
          BY <1>7, <3>2, <4>2 DEF Writing
      <3> QED
        BY <1>7, <3>1, <3>2
    <2>2. ASSUME Live(p)'
          PROVE  wire'[p][1].kind = Expects(p)'
      <3>0. Live(p)
        BY <1>8, <2>2 DEF Live
      <3>1. CASE wire[p] = <<>>
        <4>1. pc[p] = (IF pc[e] = "write_payload" THEN "read_payload" ELSE "read")
          BY <1>1, <3>0, <3>1 DEF IInv, KindsWritten
        <4>2. wire'[p][1] = f
          BY <1>7, <3>1
        <4> QED
          BY <1>8, <4>1, <4>2 DEF Expects, Writing
      <3>2. CASE wire[p] # <<>>
        BY <1>1, <1>7, <1>8, <3>0, <3>2 DEF IInv, KindsOnWire, Expects
      <3> QED
        BY <3>1, <3>2
    <2>3. wire'[e] = <<>> /\ Len(wire'[e]) = 0
      BY <1>6
    <2>4. \A i \in 1 .. Len(wire'[e]) - 1 : FALSE
      BY <2>3
    <2> SUFFICES ASSUME NEW d \in Ends, Live(d)'
                 PROVE  /\ \A i \in 1 .. Len(wire'[d]) - 1 :
                             wire'[d][i].payload <=> wire'[d][i + 1].kind = "payload"
                        /\ wire'[d] # <<>> => wire'[d][1].kind = Expects(d)'
      BY DEF KindsOnWire
    <2>5. CASE d = e
      BY <2>3, <2>4, <2>5
    <2>6. CASE d = p
      BY <2>1, <2>2, <2>6
    <2> QED
      BY <1>1, <2>5, <2>6
  <1>17. KindsWritten'
    <2>1. ASSUME Writing(e)'
          PROVE  wire'[p][Len(wire'[p])].payload <=> pc'[e] = "write_payload"
      BY <1>7, <1>9, <2>1 DEF Writing
    <2> QED
      BY <1>1, <1>5, <1>7, <1>8, <2>1 DEF KindsWritten, Writing
  <1>18. PayloadsEnd'
    BY <1>1, <1>6, <1>7 DEF IInv, PayloadsEnd
  <1> QED
    BY <1>11, <1>12, <1>13, <1>14, <1>15, <1>16, <1>17, <1>18 DEF IInv

\* Reading a frame, as the two halves of read do, keeps the invariant.
LEMMA ReadKeeps ==
  ASSUME IInv, NEW e \in Ends,
         pc[e] \in {"read", "read_payload"}, wire[e] # <<>>,
         wire' = [wire EXCEPT ![e] = Tail(@)],
         increment_nonce(e, IF Head(wire[e]).payload THEN "read_payload"
                            ELSE IF Head(wire[e]).last THEN "write" ELSE "read"),
         UNCHANGED <<more, encrypted>>
  PROVE  IInv'
PROOF
  <1> DEFINE p == Peer(e)
             f == wire[e][1]
             next == IF f.payload THEN "read_payload" ELSE IF f.last THEN "write" ELSE "read"
  <1>1. /\ p \in Ends /\ p # e /\ Peer(p) = e /\ \A d \in Ends : d = e \/ d = p
    BY PeerFacts
  <1>2. /\ nonce \in [Ends -> 0 .. NONCE_MAX] /\ pc \in [Ends -> PCs]
        /\ wire \in [Ends -> Seq(Frame)] /\ encrypted \in SUBSET (0 .. NONCE_MAX)
        /\ more \in [Ends -> BOOLEAN]
    BY DEF IInv, TypeOK
  <1>3. wire'[e] = Tail(wire[e]) /\ wire'[p] = wire[p]
    BY <1>1, <1>2
  <1>4. /\ wire[e] \in Seq(Frame) /\ wire'[e] \in Seq(Frame)
        /\ Len(wire[e]) \in Nat \ {0}
        /\ Len(wire'[e]) = Len(wire[e]) - 1
        /\ \A i \in 1 .. Len(wire[e]) - 1 : wire'[e][i] = wire[e][i + 1]
        /\ Head(wire[e]) = f
        /\ f \in Frame
    BY <1>2, <1>3, TailFacts
  <1>5. wire[p] = <<>>
    BY <1>1 DEF IInv, OneWay
  <1>6. pc'[p] = pc[p] /\ nonce'[p] = nonce[p] /\ nonce[e] \in Nat /\ nonce[p] \in Nat
    BY <1>1, <1>2 DEF increment_nonce
  <1>7. increment_nonce(e, next)
    BY <1>4
  <1>8. \/ nonce[e] >= NONCE_MAX /\ pc'[e] = "closed" /\ nonce'[e] = nonce[e]
        \/ nonce[e] < NONCE_MAX /\ pc'[e] = next /\ nonce'[e] = nonce[e] + 1
    BY <1>1, <1>2, <1>7, NonceMaxAssumption DEF increment_nonce
  <1>9. Live(e) /\ (Live(e)' => Reach(e)' = Reach(e)) /\ Reach(p)' = Reach(p)
    BY <1>3, <1>4, <1>6, <1>8 DEF Live, Reach
  <1>10. Live(p)' <=> Live(p)
    BY <1>6 DEF Live
  <1>11. TypeOK'
    <2>1. nonce' \in [Ends -> 0 .. NONCE_MAX]
      BY <1>2, IncrementType
    <2>2. pc' \in [Ends -> PCs]
      BY <1>2, <1>7 DEF increment_nonce, PCs
    <2>3. wire' \in [Ends -> Seq(Frame)]
      BY <1>2, <1>3, <1>4
    <2> QED
      BY <1>2, <2>1, <2>2, <2>3 DEF TypeOK
  <1>12. Fresh' /\ InStep'
    <2>1. Fresh'
      BY <1>1, <1>9, <1>10 DEF IInv, Fresh
    <2>2. InStep'
      BY <1>1, <1>9, <1>10 DEF IInv, InStep
    <2> QED
      BY <2>1, <2>2
  <1>13. Consecutive'
    <2>1. ASSUME Live(e)', NEW i \in 1 .. Len(wire'[e])
          PROVE  wire'[e][i].nonce = nonce'[e] + i - 1
      <3>1. i + 1 \in 1 .. Len(wire[e]) /\ i \in 1 .. Len(wire[e]) - 1
        BY <1>4
      <3>2. wire[e][i + 1].nonce = nonce[e] + (i + 1) - 1
        BY <1>9, <3>1 DEF IInv, Consecutive
      <3>3. nonce'[e] = nonce[e] + 1
        BY <1>8, <2>1 DEF Live
      <3> QED
        BY <1>4, <1>6, <3>1, <3>2, <3>3
    <2>2. \A i \in 1 .. Len(wire'[p]) : FALSE
      BY <1>3, <1>5
    <2> QED
      BY <1>1, <2>1, <2>2 DEF Consecutive
  <1>14. ASSUME TurnEnd(f)
         PROVE  wire'[e] = <<>> /\ pc[p] \in {"read", "closed"}
    <2>1. 1 \in 1 .. Len(wire[e])
      BY <1>4
    <2>2. 1 = Len(wire[e]) /\ pc[p] \in {"read", "closed"}
      BY <1>14, <2>1 DEF IInv, EndsLast
    <2> QED
      BY <1>4, <2>2, EmptySeq
  <1>15. Writing(e)' => TurnEnd(f)
    BY <1>4, <1>8 DEF Writing, TurnEnd
  <1>16. OneWriter' /\ OneWay'
    <2>1. Writing(p)' => wire'[p] = <<>> /\ ~ Writing(e)'
      <3>1. Writing(p)' => Writing(p)
        BY <1>6 DEF Writing
      <3> QED
        BY <1>3, <1>5, <1>14, <1>15, <3>1 DEF Writing
    <2>2. Writing(e)' => wire'[e] = <<>> /\ ~ Writing(p)'
      BY <1>6, <1>14, <1>15 DEF Writing
    <2> QED
      BY <1>1, <1>3, <1>5, <2>1, <2>2 DEF OneWriter, OneWay
  <1>17. EndsLast'
    <2>1. ASSUME NEW i \in 1 .. Len(wire'[e]), TurnEnd(wire'[e][i])
          PROVE  i = Len(wire'[e]) /\ pc'[p] \in {"read", "closed"}
      <3>1. i + 1 \in 1 .. Len(wire[e]) /\ i \in 1 .. Len(wire[e]) - 1
        BY <1>4
      <3>2. i + 1 = Len(wire[e]) /\ pc[p] \in {"read", "closed"}
        BY <1>4, <2>1, <3>1 DEF IInv, EndsLast
      <3> QED
        BY <1>4, <1>6, <3>2
    <2>2. \A i \in 1 .. Len(wire'[p]) : FALSE
      BY <1>3, <1>5
    <2> QED
      BY <1>1, <2>1, <2>2 DEF EndsLast
  <1>18. KindsOnWire'
    <2> SUFFICES ASSUME NEW d \in Ends, Live(d)'
                 PROVE  /\ \A i \in 1 .. Len(wire'[d]) - 1 :
                             wire'[d][i].payload <=> wire'[d][i + 1].kind = "payload"
                        /\ wire'[d] # <<>> => wire'[d][1].kind = Expects(d)'
      BY DEF KindsOnWire
    <2>1. ASSUME d = e, NEW i \in 1 .. Len(wire'[e]) - 1
          PROVE  wire'[e][i].payload <=> wire'[e][i + 1].kind = "payload"
      <3>1. /\ i + 1 \in 1 .. Len(wire[e]) - 1
            /\ i \in 1 .. Len(wire[e]) - 1
        BY <1>4
      <3>2. wire[e][i + 1].payload <=> wire[e][i + 1 + 1].kind = "payload"
        BY <1>9, <3>1 DEF IInv, KindsOnWire
      <3> QED
        BY <1>4, <3>1, <3>2
    <2>2. ASSUME d = e, wire'[e] # <<>>
          PROVE  wire'[e][1].kind = Expects(e)'
      <3>1. 1 \in 1 .. Len(wire[e]) - 1
        BY <1>4, <2>2, EmptySeq
      <3>2. f.payload <=> wire'[e][1].kind = "payload"
        BY <1>4, <1>9, <3>1 DEF IInv, KindsOnWire
      <3>3. pc'[e] = next
        BY <1>8, <2>2 DEF Live
      <3>4. wire'[e][1] \in Frame
        BY <1>4, <3>1
      <3>5. wire'[e][1].kind \in {"header", "payload"}
        BY <3>4 DEF Frame
      <3> QED
        BY <3>2, <3>3, <3>5 DEF Expects
    <2>3. wire'[p] = <<>> /\ \A i \in 1 .. Len(wire'[p]) - 1 : FALSE
      BY <1>3, <1>5
    <2> QED
      BY <1>1, <2>1, <2>2, <2>3
  <1>19. KindsWritten'
    <2>1. ASSUME Live(e)', Writing(p)', wire'[e] = <<>>
          PROVE  pc'[e] = (IF pc'[p] = "write_payload" THEN "read_payload" ELSE "read")
      <3>1. Writing(p)
        BY <1>6, <2>1 DEF Writing
      <3>2. Len(wire[e]) = 1
        <4>1. Len(wire'[e]) = 0
          BY <2>1
        <4> QED
          BY <1>4, <4>1
      <3>3. f.payload <=> pc[p] = "write_payload"
        BY <1>1, <1>9, <3>1, <3>2 DEF IInv, KindsWritten
      <3>4. ~ TurnEnd(f)
        BY <1>14, <3>1 DEF Writing
      <3>5. pc'[e] = next
        BY <1>8, <2>1 DEF Live
      <3> QED
        BY <1>6, <3>3, <3>4, <3>5 DEF TurnEnd
    <2>2. ASSUME Live(e)', Writing(p)', wire'[e] # <<>>
          PROVE  wire'[e][Len(wire'[e])].payload <=> pc'[p] = "write_payload"
      <3>1. Writing(p)
        BY <1>6, <2>2 DEF Writing
      <3>2. wire[e][Len(wire[e])].payload <=> pc[p] = "write_payload"
        BY <1>1, <1>9, <3>1 DEF IInv, KindsWritten
      <3>3. Len(wire'[e]) \in 1 .. Len(wire[e]) - 1
        BY <1>4, <2>2, EmptySeq
      <3>4. wire'[e][Len(wire'[e])] = wire[e][Len(wire[e])]
        BY <1>4, <3>3
      <3> QED
        BY <1>6, <3>2, <3>4
    <2>3. ASSUME Live(p)', Writing(e)'
          PROVE  wire'[p] = <<>> /\ pc'[p] = "read" /\ pc'[e] = "write"
      BY <1>3, <1>5, <1>6, <1>8, <1>14, <1>15, <2>3 DEF Live, Writing
    <2> QED
      BY <1>1, <2>1, <2>2, <2>3 DEF KindsWritten
  <1>20. PayloadsEnd'
    <2>1. ASSUME NEW i \in 1 .. Len(wire'[e]), wire'[e][i].kind = "payload"
          PROVE  ~ wire'[e][i].payload
      <3>1. i + 1 \in 1 .. Len(wire[e]) /\ i \in 1 .. Len(wire[e]) - 1
        BY <1>4
      <3> QED
        BY <1>4, <2>1, <3>1 DEF IInv, PayloadsEnd
    <2>2. \A i \in 1 .. Len(wire'[p]) : FALSE
      BY <1>3, <1>5
    <2> QED
      BY <1>1, <2>1, <2>2 DEF PayloadsEnd
  <1> QED
    BY <1>11, <1>12, <1>13, <1>16, <1>17, <1>18, <1>19, <1>20 DEF IInv

\* Dropping the stream keeps the invariant.
LEMMA CloseKeeps ==
  ASSUME IInv, NEW e \in Ends, Close(e)
  PROVE  IInv'
PROOF
  <1>1. UNCHANGED <<nonce, wire, more, encrypted>> /\ pc' = [pc EXCEPT ![e] = "closed"]
    BY DEF Close
  <1>2. pc \in [Ends -> PCs] /\ pc' \in [Ends -> PCs]
    BY <1>1 DEF IInv, TypeOK, PCs
  <1>3. \A d \in Ends : pc'[d] = IF d = e THEN "closed" ELSE pc[d]
    BY <1>1, <1>2
  <1>4. \A d \in Ends : (Live(d)' => Live(d) /\ pc'[d] = pc[d])
                        /\ (Writing(d)' => Writing(d) /\ pc'[d] = pc[d])
    BY <1>3 DEF Live, Writing
  <1>5. \A d \in Ends : Peer(d) \in Ends
    BY PeerFacts
  <1>6. TypeOK' /\ Fresh' /\ InStep' /\ Consecutive' /\ OneWay' /\ PayloadsEnd'
    BY <1>1, <1>2, <1>4, <1>5
       DEF IInv, TypeOK, Fresh, InStep, Consecutive, OneWay, PayloadsEnd, Reach
  <1>7. OneWriter' /\ EndsLast'
    BY <1>1, <1>3, <1>4, <1>5 DEF IInv, OneWriter, EndsLast
  <1>8. KindsOnWire' /\ KindsWritten'
    BY <1>1, <1>4, <1>5 DEF IInv, KindsOnWire, KindsWritten, Expects
  <1> QED
    BY <1>6, <1>7, <1>8 DEF IInv

LEMMA InitInvariant == Init => IInv
PROOF
  <1> SUFFICES ASSUME Init PROVE IInv
    OBVIOUS
  <1>1. \A e \in Ends : /\ nonce[e] = 0 /\ wire[e] = <<>> /\ Len(wire[e]) = 0
                        /\ pc[e] = (IF e = "connector" THEN "write" ELSE "read")
    BY DEF Init
  <1>2. TypeOK
    BY NonceMaxAssumption DEF Init, TypeOK, PCs
  <1>3. \A e \in Ends : \A i \in 1 .. Len(wire[e]) : FALSE
    BY <1>1
  <1>4. \A e \in Ends : \A i \in 1 .. Len(wire[e]) - 1 : FALSE
    BY <1>1
  <1>5. Fresh /\ InStep
    BY <1>1, PeerFacts DEF Init, Fresh, InStep, Reach
  <1>6. OneWriter /\ OneWay /\ KindsWritten
    BY <1>1, PeerFacts DEF OneWriter, OneWay, KindsWritten, Writing, Ends, Peer
  <1> QED
    BY <1>1, <1>2, <1>3, <1>4, <1>5, <1>6
       DEF IInv, Consecutive, EndsLast, KindsOnWire, PayloadsEnd

LEMMA StepInvariant == IInv /\ [Next]_vars => IInv'
PROOF
  <1> SUFFICES ASSUME IInv, [Next]_vars PROVE IInv'
    OBVIOUS
  <1>0. /\ wire \in [Ends -> Seq(Frame)] /\ more \in [Ends -> BOOLEAN]
    BY DEF IInv, TypeOK
  <1>1. ASSUME NEW e \in Ends, NEW payload \in BOOLEAN, NEW last \in BOOLEAN,
               write_message(e, payload, last)
        PROVE  IInv'
    <2>1. /\ Writing(e) /\ "header" = (IF pc[e] = "write" THEN "header" ELSE "payload")
          /\ Send(e, "header", payload, last)
          /\ more' \in [Ends -> BOOLEAN]
      BY <1>0, <1>1 DEF write_message, Writing
    <2>2. increment_nonce(e, IF payload THEN "write_payload"
                             ELSE IF last THEN "read" ELSE "write")
      <3>1. AfterWrite(~ last) = IF last THEN "read" ELSE "write"
        BY DEF AfterWrite
      <3> QED
        BY <1>1, <3>1 DEF write_message
    <2> QED
      BY <2>1, <2>2, SendKeeps
  <1>2. ASSUME NEW e \in Ends, write_payload(e)
        PROVE  IInv'
    <2>1. /\ Writing(e) /\ "payload" = (IF pc[e] = "write" THEN "header" ELSE "payload")
          /\ Send(e, "payload", FALSE, ~ more[e])
          /\ more' \in [Ends -> BOOLEAN] /\ (~ more[e]) \in BOOLEAN
      BY <1>0, <1>2 DEF write_payload, Writing
    <2>2. increment_nonce(e, IF FALSE THEN "write_payload"
                             ELSE IF ~ more[e] THEN "read" ELSE "write")
      <3>1. AfterWrite(more[e]) = IF ~ more[e] THEN "read" ELSE "write"
        BY <1>0 DEF AfterWrite
      <3> QED
        BY <1>2, <3>1 DEF write_payload
    <2> QED
      BY <2>1, <2>2, SendKeeps
  <1>3. ASSUME NEW e \in Ends, read_header(e)
        PROVE  IInv'
    BY <1>3, ReadKeeps DEF read_header, AfterRead
  <1>4. ASSUME NEW e \in Ends, read_payload(e)
        PROVE  IInv'
    <2>1. /\ 1 \in 1 .. Len(wire[e]) /\ Head(wire[e]) = wire[e][1]
      BY <1>0, <1>4, TailFacts DEF read_payload
    <2>2. wire[e][1].kind = "payload"
      BY <1>4 DEF read_payload, IInv, KindsOnWire, Live, Expects
    <2>3. ~ Head(wire[e]).payload
      BY <2>1, <2>2 DEF IInv, PayloadsEnd
    <2>4. increment_nonce(e, IF Head(wire[e]).payload THEN "read_payload"
                             ELSE IF Head(wire[e]).last THEN "write" ELSE "read")
      BY <1>4, <2>3 DEF read_payload, AfterRead
    <2> QED
      BY <1>4, <2>4, ReadKeeps DEF read_payload
  <1>5. ASSUME NEW e \in Ends, Close(e)
        PROVE  IInv'
    BY <1>5, CloseKeeps
  <1>6. CASE UNCHANGED vars
    <2>1. UNCHANGED <<nonce, pc, wire, more, encrypted>>
      BY <1>6 DEF vars
    <2>2. (TypeOK /\ OneWriter /\ OneWay /\ EndsLast)'
      BY <2>1 DEF IInv, TypeOK, OneWriter, OneWay, EndsLast, Writing
    <2>3. (Fresh /\ InStep /\ Consecutive)'
      BY <2>1 DEF IInv, Fresh, InStep, Consecutive, Live, Reach
    <2>4. (KindsOnWire /\ KindsWritten /\ PayloadsEnd)'
      BY <2>1 DEF IInv, KindsOnWire, KindsWritten, PayloadsEnd, Live, Writing, Expects
    <2> QED
      BY <2>2, <2>3, <2>4 DEF IInv
  <1> QED
    BY <1>1, <1>2, <1>3, <1>4, <1>5, <1>6 DEF Next, EndNext

\* The invariant gives the properties that TLC checks.
LEMMA InvariantImplies == IInv => TypeOK /\ NonceNeverReused /\ ReadsDecrypt
PROOF
  <1> SUFFICES ASSUME IInv PROVE TypeOK /\ NonceNeverReused /\ ReadsDecrypt
    OBVIOUS
  <1>1. TypeOK
    BY DEF IInv
  <1>2. NonceNeverReused
    <2> SUFFICES ASSUME NEW e \in Ends, Writing(e)
                 PROVE  nonce[e] \notin encrypted
      BY DEF NonceNeverReused, Writing
    <2>1. Len(wire[e]) = 0
      BY DEF IInv, OneWriter
    <2>2. \A n \in encrypted : n < nonce[e] + 0
      BY <2>1 DEF IInv, Fresh, Live, Writing, Reach
    <2> QED
      BY <1>1, <2>2 DEF TypeOK
  <1>3. ReadsDecrypt
    <2> SUFFICES ASSUME NEW e \in Ends, wire[e] # <<>>, pc[e] \in {"read", "read_payload"}
                 PROVE  Decrypts(e) /\ Head(wire[e]).kind = Expects(e)
      BY DEF ReadsDecrypt, Expects
    <2>1. 1 \in 1 .. Len(wire[e]) /\ Head(wire[e]) = wire[e][1] /\ nonce[e] \in Nat
      BY <1>1, TailFacts DEF TypeOK
    <2>2. Live(e)
      BY DEF Live
    <2>3. wire[e][1].nonce = nonce[e] + 1 - 1
      BY <2>1, <2>2 DEF IInv, Consecutive
    <2> QED
      BY <2>1, <2>2, <2>3 DEF IInv, KindsOnWire, Decrypts
  <1> QED
    BY <1>1, <1>2, <1>3

\* encrypted_stream.rs: IInv is an invariant of every behaviour of two ends that take
\* turns, whatever NONCE_MAX is.
THEOREM Invariant == Spec => []IInv
  BY InitInvariant, StepInvariant, PTL DEF Spec

\* The variables keep their types; in particular no counter passes NONCE_MAX.
THEOREM TypeCorrect == Spec => []TypeOK
  BY Invariant, InvariantImplies, PTL

\* The nonce under which write_message or write_payload is about to encrypt was never
\* used by either end, up to and including the last one before "Nonce maxed".
THEOREM NonceSafety == Spec => []NonceNeverReused
  BY Invariant, InvariantImplies, PTL

\* read finds the frame encrypted under the nonce it expects, a header where it expects
\* one and a payload where the header announced one.
THEOREM ReadSafety == Spec => []ReadsDecrypt
  BY Invariant, InvariantImplies, PTL

-----------------------------------------------------------------------------
(* TransmiticStream: the session, handshake and all.                       *)

C == "connector"
A == "acceptor"

\* How far the two ends have come: of the handshake's eight steps one at most is
\* possible, and what has been sent and not yet received is one message at most.
Progress ==
  \/ stage[C] = 0 /\ stage[A] = 0 /\ mail[C] = <<>> /\ mail[A] = <<>>
  \/ stage[C] = 1 /\ stage[A] = 0 /\ mail[C] = <<>> /\ mail[A] = <<Header(major[C])>>
  \/ stage[C] = 1 /\ stage[A] = 1 /\ mail[C] = <<>> /\ mail[A] = <<>>
  \/ stage[C] = 1 /\ stage[A] = 2 /\ mail[C] = <<Header(major[A])>> /\ mail[A] = <<>>
  \/ stage[C] = 2 /\ stage[A] = 2 /\ mail[C] = <<>> /\ mail[A] = <<>>
  \/ stage[C] = 3 /\ stage[A] = 2 /\ mail[C] = <<>> /\ mail[A] = <<Key(id[C])>>
  \/ stage[C] = 3 /\ stage[A] = 3 /\ mail[C] = <<>> /\ mail[A] = <<>>
  \/ stage[C] = 3 /\ stage[A] = 4 /\ mail[C] = <<Key(id[A])>> /\ mail[A] = <<>>
  \/ stage[C] = 4 /\ stage[A] = 4 /\ mail[C] = <<>> /\ mail[A] = <<>>

\* What an end knows of its peer once it has received the header, and the key.
Known ==
  /\ stage[A] >= 1 => major[A] = major[C]
  /\ stage[A] >= 3 => matched[A] = id[C] /\ matched[A] \in Elements(shared_users[A])
  /\ stage[C] >= 4 => matched[C] = id[A] /\ matched[C] \in Elements(shared_users[C])

\* While neither of two living ends writes, the frame that ends the turn is under way.
TurnUnderWay ==
  \A e \in Ends :
    Live(e) /\ Live(Peer(e)) /\ ~ Writing(e) /\ ~ Writing(Peer(e)) =>
      \E d \in Ends : wire[d] # <<>> /\ TurnEnd(wire[d][Len(wire[d])])

SInv == SessionTypeOK /\ IInv /\ TurnUnderWay /\ Progress /\ Known

-----------------------------------------------------------------------------
\* A step of the session is a step of the stream or leaves it alone.
LEMMA SessionStep == [SessionNext]_<<vars, handshake>> => [Next]_vars
BY DEF SessionNext, send_transmitic_header, receive_transmitic_header, send_diffie_helman_key,
       receive_diffie_helman_key, Refuse, Abandon, Converse, Next, EndNext

\* transmitic_stream.rs, get_encrypted_stream: whatever the handshake does, the frames on
\* the connection are those of a behaviour of EncryptedStream.
THEOREM SessionImplementsStream == SessionSpec => Spec
BY SessionStep, PTL DEF SessionSpec, SessionInit, Spec

-----------------------------------------------------------------------------
(* The turn is never lost.                                                   *)

\* A frame that ends the turn, written last, is what TurnUnderWay asks for.
LEMMA SendTurn ==
  ASSUME IInv, NEW e \in Ends, NEW kind \in {"header", "payload"},
         NEW payload \in BOOLEAN, NEW last \in BOOLEAN, Send(e, kind, payload, last)
  PROVE  /\ wire'[Peer(e)] # <<>>
         /\ wire'[Peer(e)][Len(wire'[Peer(e)])].payload = payload
         /\ wire'[Peer(e)][Len(wire'[Peer(e)])].last = last
PROOF
  <1> DEFINE f == [nonce |-> nonce[e], kind |-> kind, payload |-> payload, last |-> last]
  <1>1. wire[Peer(e)] \in Seq(Frame) /\ f \in Frame /\ Peer(e) \in Ends
    BY PeerFacts DEF IInv, TypeOK, Frame
  <1>2. wire'[Peer(e)] = Append(wire[Peer(e)], f)
    BY <1>1 DEF Send, IInv, TypeOK
  <1> HIDE DEF f
  <1>3. /\ Append(wire[Peer(e)], f) # <<>>
        /\ Len(Append(wire[Peer(e)], f)) = Len(wire[Peer(e)]) + 1
        /\ Append(wire[Peer(e)], f)[Len(wire[Peer(e)]) + 1] = f
    BY <1>1, AppendFacts
  <1> QED
    BY <1>2, <1>3 DEF f

\* What an end does after a frame: it writes on, unless the frame ends the turn.
LEMMA IncrementPc ==
  ASSUME IInv, NEW e \in Ends, NEW next, increment_nonce(e, next)
  PROVE  pc' = [pc EXCEPT ![e] = "closed"] \/ pc' = [pc EXCEPT ![e] = next]
BY DEF increment_nonce

LEMMA WriteTurn ==
  ASSUME IInv, TurnUnderWay, NEW e \in Ends, NEW kind \in {"header", "payload"},
         NEW payload \in BOOLEAN, NEW last \in BOOLEAN, NEW next,
         Send(e, kind, payload, last), increment_nonce(e, next),
         payload \/ ~ last => next \in {"write", "write_payload"}
  PROVE  TurnUnderWay'
PROOF
  <1> SUFFICES ASSUME NEW d \in Ends, (Live(d) /\ Live(Peer(d)))',
                      (~ Writing(d) /\ ~ Writing(Peer(d)))'
               PROVE  (\E x \in Ends : wire[x] # <<>> /\ TurnEnd(wire[x][Len(wire[x])]))'
    BY DEF TurnUnderWay
  <1>1. d = e \/ Peer(d) = e
    BY PeerFacts
  <1>2. pc'[e] # "closed" /\ pc'[e] \notin {"write", "write_payload"}
    BY <1>1 DEF Live, Writing
  <1>3. pc' = [pc EXCEPT ![e] = next]
    BY <1>2, IncrementPc DEF IInv, TypeOK
  <1>4. ~ payload /\ last
    BY <1>2, <1>3 DEF IInv, TypeOK
  <1>5. Peer(e) \in Ends
    BY PeerFacts
  <1> QED
    BY <1>4, <1>5, SendTurn DEF TurnEnd

LEMMA ReadTurn ==
  ASSUME IInv, TurnUnderWay, NEW e \in Ends, NEW next,
         ~ Writing(e), Live(e), wire[e] # <<>>,
         wire' = [wire EXCEPT ![e] = Tail(@)], increment_nonce(e, next),
         TurnEnd(Head(wire[e])) => next = "write"
  PROVE  TurnUnderWay'
PROOF
  <1> SUFFICES ASSUME NEW d \in Ends, (Live(d) /\ Live(Peer(d)))',
                      (~ Writing(d) /\ ~ Writing(Peer(d)))'
               PROVE  (\E x \in Ends : wire[x] # <<>> /\ TurnEnd(wire[x][Len(wire[x])]))'
    BY DEF TurnUnderWay
  <1>1. d = e \/ Peer(d) = e
    BY PeerFacts
  <1>2. pc'[e] # "closed" /\ pc'[e] \notin {"write", "write_payload"}
    BY <1>1 DEF Live, Writing
  <1>3. pc' = [pc EXCEPT ![e] = next] /\ next # "write"
    BY <1>2, IncrementPc DEF IInv, TypeOK
  <1>4. Peer(e) \in Ends /\ Peer(e) # e /\ pc'[Peer(e)] = pc[Peer(e)]
    BY <1>3, PeerFacts DEF IInv, TypeOK
  <1>5. Live(Peer(e)) /\ ~ Writing(Peer(e))
    BY <1>1, <1>4, PeerFacts DEF Live, Writing
  <1>6. PICK x \in Ends : wire[x] # <<>> /\ TurnEnd(wire[x][Len(wire[x])])
    BY <1>5 DEF TurnUnderWay
  <1>7. x = e
    BY <1>6, PeerFacts DEF IInv, OneWay
  <1>8. wire[e] \in Seq(Frame) /\ wire'[e] = Tail(wire[e])
    BY DEF IInv, TypeOK
  <1>9. /\ Tail(wire[e]) \in Seq(Frame)
        /\ Len(wire[e]) \in Nat \ {0}
        /\ Len(Tail(wire[e])) = Len(wire[e]) - 1
        /\ \A i \in 1 .. Len(wire[e]) - 1 : Tail(wire[e])[i] = wire[e][i + 1]
        /\ Head(wire[e]) = wire[e][1]
    BY <1>8, TailFacts
  <1>10. Len(wire[e]) # 1
    <2> SUFFICES ASSUME Len(wire[e]) = 1 PROVE FALSE
      OBVIOUS
    <2>1. TurnEnd(wire[e][1])
      BY <1>6, <1>7
    <2>2. TurnEnd(Head(wire[e]))
      BY <2>1, <1>9
    <2> QED
      BY <2>2, <1>3
  <1> DEFINE n == Len(wire[e])
  <1>11. n \in Nat /\ n # 0 /\ n # 1
    BY <1>9, <1>10
  <1>12. n - 1 \in 1 .. n - 1 /\ n - 1 + 1 = n /\ n - 1 # 0
    <2> HIDE DEF n
    <2> QED
      BY <1>11
  <1>13. Tail(wire[e])[n - 1] = wire[e][n - 1 + 1]
    BY <1>9, <1>12
  <1>14. Tail(wire[e]) # <<>> /\ Len(Tail(wire[e])) = n - 1
    BY <1>9, <1>12
  <1>15. Tail(wire[e])[Len(Tail(wire[e]))] = wire[e][Len(wire[e])]
    BY <1>12, <1>13, <1>14
  <1> QED
    BY <1>6, <1>7, <1>8, <1>14, <1>15

LEMMA TurnInit == Init => TurnUnderWay
BY DEF Init, TurnUnderWay, Ends, Peer, Live, Writing

LEMMA TurnStep == IInv /\ TurnUnderWay /\ [Next]_vars => TurnUnderWay'
PROOF
  <1> SUFFICES ASSUME IInv, TurnUnderWay, [Next]_vars PROVE TurnUnderWay'
    OBVIOUS
  <1>1. ASSUME NEW e \in Ends, NEW payload \in BOOLEAN, NEW last \in BOOLEAN,
               write_message(e, payload, last)
        PROVE  TurnUnderWay'
    <2> DEFINE next == IF payload THEN "write_payload" ELSE AfterWrite(~ last)
    <2>1. payload \/ ~ last => next \in {"write", "write_payload"}
      BY DEF AfterWrite
    <2>2. Send(e, "header", payload, last) /\ increment_nonce(e, next)
      BY <1>1 DEF write_message
    <2> HIDE DEF next
    <2> QED
      BY <2>1, <2>2, WriteTurn
  <1>2. ASSUME NEW e \in Ends, write_payload(e)
        PROVE  TurnUnderWay'
    <2> DEFINE next == AfterWrite(more[e])
    <2>1. more[e] \in BOOLEAN
      BY DEF IInv, TypeOK
    <2>2. FALSE \/ more[e] => next \in {"write", "write_payload"}
      BY DEF AfterWrite
    <2>3. Send(e, "payload", FALSE, ~ more[e]) /\ increment_nonce(e, next)
      BY <1>2 DEF write_payload
    <2> HIDE DEF next
    <2> QED
      BY <2>1, <2>2, <2>3, WriteTurn
  <1>3. ASSUME NEW e \in Ends, read_header(e)
        PROVE  TurnUnderWay'
    <2> DEFINE next == IF Head(wire[e]).payload THEN "read_payload"
                       ELSE AfterRead(Head(wire[e]).last)
    <2>1. TurnEnd(Head(wire[e])) => next = "write"
      BY DEF TurnEnd, AfterRead
    <2>2. /\ ~ Writing(e) /\ Live(e) /\ wire[e] # <<>>
          /\ wire' = [wire EXCEPT ![e] = Tail(@)] /\ increment_nonce(e, next)
      BY <1>3 DEF read_header, Writing, Live
    <2> HIDE DEF next
    <2> QED
      BY <2>1, <2>2, ReadTurn
  <1>4. ASSUME NEW e \in Ends, read_payload(e)
        PROVE  TurnUnderWay'
    <2> DEFINE next == AfterRead(Head(wire[e]).last)
    <2>1. TurnEnd(Head(wire[e])) => next = "write"
      BY DEF TurnEnd, AfterRead
    <2>2. /\ ~ Writing(e) /\ Live(e) /\ wire[e] # <<>>
          /\ wire' = [wire EXCEPT ![e] = Tail(@)] /\ increment_nonce(e, next)
      BY <1>4 DEF read_payload, Writing, Live
    <2> HIDE DEF next
    <2> QED
      BY <2>1, <2>2, ReadTurn
  <1>5. ASSUME NEW e \in Ends, Close(e)
        PROVE  TurnUnderWay'
    <2>1. pc' = [pc EXCEPT ![e] = "closed"] /\ pc \in [Ends -> PCs] /\ wire' = wire
      BY <1>5 DEF Close, IInv, TypeOK
    <2>2. \A d \in Ends : (Live(d) /\ Live(Peer(d)))' => d # e /\ Peer(d) # e
      BY <2>1, PeerFacts DEF Live
    <2> QED
      BY <2>2, PeerFacts DEF TurnUnderWay
  <1>6. CASE UNCHANGED vars
    BY <1>6 DEF vars, TurnUnderWay, Live, Writing
  <1> QED
    BY <1>1, <1>2, <1>3, <1>4, <1>5, <1>6 DEF Next, EndNext

-----------------------------------------------------------------------------
(* The handshake.                                                            *)

LEMMA EndFacts ==
  /\ Ends = {C, A} /\ C # A /\ Peer(C) = A /\ Peer(A) = C
  /\ Steps(C) = <<"send_header", "receive_header", "send_key", "receive_key">>
  /\ Steps(A) = <<"receive_header", "send_header", "receive_key", "send_key">>
  /\ \A e \in Ends : Len(Steps(e)) = 4
BY DEF Ends, C, A, Peer, Steps

\* Which step is made at which stage.
LEMMA AtFacts ==
  ASSUME SessionTypeOK, NEW e \in Ends, NEW step, At(e, step)
  PROVE  /\ step = "send_header" => (e = C /\ stage[e] = 0) \/ (e = A /\ stage[e] = 1)
         /\ step = "receive_header" => (e = C /\ stage[e] = 1) \/ (e = A /\ stage[e] = 0)
         /\ step = "send_key" => (e = C /\ stage[e] = 2) \/ (e = A /\ stage[e] = 3)
         /\ step = "receive_key" => (e = C /\ stage[e] = 3) \/ (e = A /\ stage[e] = 2)
PROOF
  <1>1. stage[e] \in 0 .. 4 /\ stage[e] # 4
    BY EndFacts DEF At, Open, SessionTypeOK
  <1>2. stage[e] \in {0, 1, 2, 3}
    BY <1>1
  <1> QED
    BY <1>2, EndFacts DEF At

\* A message sent or received, and the types it keeps.
LEMMA PostFacts ==
  ASSUME SessionTypeOK, NEW e \in Ends, NEW m \in Message, Post(e, m),
         mail[Peer(e)] = <<>>
  PROVE  mail' \in [Ends -> Seq(Message)] /\ mail' = [mail EXCEPT ![Peer(e)] = <<m>>]
BY PeerFacts DEF Post, SessionTypeOK

LEMMA TakeFacts ==
  ASSUME SessionTypeOK, NEW e \in Ends, NEW m, mail[e] = <<m>>,
         mail' = [mail EXCEPT ![e] = Tail(@)]
  PROVE  mail' \in [Ends -> Seq(Message)] /\ mail' = [mail EXCEPT ![e] = <<>>] /\ Head(mail[e]) = m
BY DEF SessionTypeOK

LEMMA AdvanceType ==
  ASSUME SessionTypeOK, NEW e \in Ends, stage[e] \in 0 .. 3, Advance(e)
  PROVE  /\ stage' \in [Ends -> 0 .. 4]
         /\ stage'[e] = stage[e] + 1
         /\ \A d \in Ends : d # e => stage'[d] = stage[d]
PROOF
  <1>1. stage \in [Ends -> 0 .. 4] /\ stage' = [stage EXCEPT ![e] = stage[e] + 1]
    BY DEF SessionTypeOK, Advance
  <1>2. stage[e] + 1 \in 0 .. 4
    OBVIOUS
  <1> QED
    BY <1>1, <1>2

\* The four steps of the handshake.
LEMMA SendHeaderKeeps ==
  ASSUME SInv, NEW e \in Ends, send_transmitic_header(e)
  PROVE  (stage \in [Ends -> 0 .. 4] /\ mail \in [Ends -> Seq(Message)] /\ Progress /\ Known)'
PROOF
  <1>1. (e = C /\ stage[e] = 0) \/ (e = A /\ stage[e] = 1)
    BY AtFacts DEF send_transmitic_header, SInv
  <1>2. mail[Peer(e)] = <<>> /\ Header(major[e]) \in Message
    BY <1>1, EndFacts DEF SInv, Progress, Header, Message, SessionTypeOK
  <1>3. mail' \in [Ends -> Seq(Message)] /\ mail' = [mail EXCEPT ![Peer(e)] = <<Header(major[e])>>]
    BY <1>2, PostFacts DEF SInv, send_transmitic_header
  <1>4. /\ stage' \in [Ends -> 0 .. 4] /\ stage'[e] = stage[e] + 1
        /\ \A d \in Ends : d # e => stage'[d] = stage[d]
    BY <1>1, AdvanceType DEF SInv, send_transmitic_header
  <1>5. UNCHANGED <<id, major, shared_users, matched>>
    BY DEF send_transmitic_header, identity
  <1>6. Progress'
    BY <1>1, <1>3, <1>4, <1>5, EndFacts DEF SInv, Progress, Header, SessionTypeOK
  <1>7. Known'
    BY <1>1, <1>4, <1>5, EndFacts DEF SInv, Known, Progress, SessionTypeOK
  <1> QED
    BY <1>3, <1>4, <1>6, <1>7

LEMMA ReceiveHeaderKeeps ==
  ASSUME SInv, NEW e \in Ends, receive_transmitic_header(e)
  PROVE  (stage \in [Ends -> 0 .. 4] /\ mail \in [Ends -> Seq(Message)] /\ Progress /\ Known)'
PROOF
  <1>1. (e = C /\ stage[e] = 1) \/ (e = A /\ stage[e] = 0)
    BY AtFacts DEF receive_transmitic_header, SInv
  <1>2. /\ mail[e] = <<Header(major[Peer(e)])>>
        /\ mail[Peer(e)] = <<>>
        /\ e = C => stage[C] = 1 /\ stage[A] = 2
        /\ e = A => stage[C] = 1 /\ stage[A] = 0
    <2>1. mail[e] # <<>>
      BY DEF receive_transmitic_header
    <2>2. CASE e = C
      BY <1>1, <2>1, <2>2, EndFacts DEF SInv, Progress
    <2>3. CASE e = A
      BY <1>1, <2>1, <2>3, EndFacts DEF SInv, Progress
    <2> QED
      BY <2>2, <2>3, EndFacts
  <1>3. /\ mail' \in [Ends -> Seq(Message)] /\ mail' = [mail EXCEPT ![e] = <<>>]
        /\ Header(major[Peer(e)]) = Header(major[e])
    BY <1>2, TakeFacts DEF SInv, receive_transmitic_header
  <1>4. /\ stage' \in [Ends -> 0 .. 4] /\ stage'[e] = stage[e] + 1
        /\ \A d \in Ends : d # e => stage'[d] = stage[d]
    BY <1>1, AdvanceType DEF SInv, receive_transmitic_header
  <1>5. UNCHANGED <<id, major, shared_users, matched>>
    BY DEF receive_transmitic_header, identity
  <1>6. Progress'
    <2>1. mail'[e] = <<>> /\ mail'[Peer(e)] = <<>>
      BY <1>2, <1>3, PeerFacts DEF SInv, SessionTypeOK
    <2>2. stage'[Peer(e)] = stage[Peer(e)]
      BY <1>4, PeerFacts
    <2>3. CASE e = C
      BY <1>2, <1>4, <2>1, <2>2, <2>3, EndFacts DEF Progress
    <2>4. CASE e = A
      BY <1>2, <1>4, <2>1, <2>2, <2>4, EndFacts DEF Progress
    <2> QED
      BY <2>3, <2>4, EndFacts
  <1>7. major[Peer(e)] = major[e]
    BY <1>3 DEF Header
  <1>8. Known'
    BY <1>1, <1>4, <1>5, <1>7, EndFacts DEF SInv, Known, Progress, SessionTypeOK
  <1> QED
    BY <1>3, <1>4, <1>6, <1>8

LEMMA SendKeyKeeps ==
  ASSUME SInv, NEW e \in Ends, send_diffie_helman_key(e)
  PROVE  (stage \in [Ends -> 0 .. 4] /\ mail \in [Ends -> Seq(Message)] /\ Progress /\ Known)'
PROOF
  <1>1. (e = C /\ stage[e] = 2) \/ (e = A /\ stage[e] = 3)
    BY AtFacts DEF send_diffie_helman_key, SInv
  <1>2. mail[Peer(e)] = <<>> /\ Key(id[e]) \in Message
    BY <1>1, EndFacts DEF SInv, Progress, Key, Message, SessionTypeOK
  <1>3. mail' \in [Ends -> Seq(Message)] /\ mail' = [mail EXCEPT ![Peer(e)] = <<Key(id[e])>>]
    BY <1>2, PostFacts DEF SInv, send_diffie_helman_key
  <1>4. /\ stage' \in [Ends -> 0 .. 4] /\ stage'[e] = stage[e] + 1
        /\ \A d \in Ends : d # e => stage'[d] = stage[d]
    BY <1>1, AdvanceType DEF SInv, send_diffie_helman_key
  <1>5. UNCHANGED <<id, major, shared_users, matched>>
    BY DEF send_diffie_helman_key, identity
  <1>6. Progress'
    BY <1>1, <1>3, <1>4, <1>5, EndFacts DEF SInv, Progress, Key, SessionTypeOK
  <1>7. Known'
    BY <1>1, <1>4, <1>5, EndFacts DEF SInv, Known, Progress, SessionTypeOK
  <1> QED
    BY <1>3, <1>4, <1>6, <1>7

LEMMA ReceiveKeyKeeps ==
  ASSUME SInv, NEW e \in Ends, receive_diffie_helman_key(e)
  PROVE  /\ (stage \in [Ends -> 0 .. 4] /\ mail \in [Ends -> Seq(Message)] /\ Progress /\ Known)'
         /\ matched' \in [Ends -> Ids \cup {None}]
PROOF
  <1>1. (e = C /\ stage[e] = 3) \/ (e = A /\ stage[e] = 2)
    BY AtFacts DEF receive_diffie_helman_key, SInv
  <1>2. /\ mail[e] = <<Key(id[Peer(e)])>>
        /\ mail[Peer(e)] = <<>>
        /\ e = C => stage[C] = 3 /\ stage[A] = 4
        /\ e = A => stage[C] = 3 /\ stage[A] = 2
    <2>1. mail[e] # <<>>
      BY DEF receive_diffie_helman_key
    <2>2. CASE e = C
      BY <1>1, <2>1, <2>2, EndFacts DEF SInv, Progress
    <2>3. CASE e = A
      BY <1>1, <2>1, <2>3, EndFacts DEF SInv, Progress
    <2> QED
      BY <2>2, <2>3, EndFacts
  <1>3. mail' \in [Ends -> Seq(Message)] /\ mail' = [mail EXCEPT ![e] = <<>>]
        /\ Head(mail[e]) = Key(id[Peer(e)])
    BY <1>2, TakeFacts DEF SInv, receive_diffie_helman_key
  <1>4. /\ stage' \in [Ends -> 0 .. 4] /\ stage'[e] = stage[e] + 1
        /\ \A d \in Ends : d # e => stage'[d] = stage[d]
    BY <1>1, AdvanceType DEF SInv, receive_diffie_helman_key
  <1>5. UNCHANGED <<id, major, shared_users>>
    BY DEF receive_diffie_helman_key, identity
  <1>6. Progress'
    <2>1. mail'[e] = <<>> /\ mail'[Peer(e)] = <<>>
      BY <1>2, <1>3, PeerFacts DEF SInv, SessionTypeOK
    <2>2. stage'[Peer(e)] = stage[Peer(e)]
      BY <1>4, PeerFacts
    <2>3. CASE e = C
      BY <1>2, <1>4, <2>1, <2>2, <2>3, EndFacts DEF Progress
    <2>4. CASE e = A
      BY <1>2, <1>4, <2>1, <2>2, <2>4, EndFacts DEF Progress
    <2> QED
      BY <2>3, <2>4, EndFacts
  <1>7. PICK i \in Verifying(e, id[Peer(e)]) : matched' = [matched EXCEPT ![e] = shared_users[e][i]]
    <2>1. Head(mail[e]).signer = id[Peer(e)]
      BY <1>3 DEF Key
    <2> QED
      BY <2>1 DEF receive_diffie_helman_key
  <1>8. /\ i \in DOMAIN shared_users[e] /\ shared_users[e][i] = id[Peer(e)]
        /\ id[Peer(e)] \in Ids /\ matched \in [Ends -> Ids \cup {None}]
    BY <1>7, PeerFacts DEF Verifying, SInv, SessionTypeOK
  <1>9. id[Peer(e)] \in Elements(shared_users[e])
    BY <1>8 DEF Elements
  <1>10. matched' = [matched EXCEPT ![e] = id[Peer(e)]]
    BY <1>7, <1>8
  <1>11. Known'
    BY <1>1, <1>4, <1>5, <1>8, <1>9, <1>10, EndFacts DEF SInv, Known, Progress, SessionTypeOK
  <1> QED
    BY <1>3, <1>4, <1>6, <1>8, <1>10, <1>11

LEMMA SessionInitInvariant == SessionInit => SInv
PROOF
  <1> SUFFICES ASSUME SessionInit PROVE SInv
    OBVIOUS
  <1>1. IInv /\ TurnUnderWay /\ TypeOK
    BY InitInvariant, TurnInit DEF SessionInit, IInv
  <1>2. shared_users \in [Ends -> Seq(Ids)]
    <2>1. shared_users \in [Ends -> UNION {[1 .. n -> Ids] : n \in 0 .. 2}]
      BY DEF SessionInit
    <2>2. \A n \in 0 .. 2 : [1 .. n -> Ids] \subseteq Seq(Ids)
      OBVIOUS
    <2> QED
      BY <2>1, <2>2
  <1>3. SessionTypeOK
    BY <1>1, <1>2 DEF SessionTypeOK, SessionInit
  <1>4. Progress /\ Known
    BY EndFacts DEF SessionInit, Progress, Known
  <1> QED
    BY <1>1, <1>3, <1>4 DEF SInv

LEMMA SessionStepInvariant == SInv /\ [SessionNext]_<<vars, handshake>> => SInv'
PROOF
  <1> SUFFICES ASSUME SInv, [SessionNext]_<<vars, handshake>> PROVE SInv'
    OBVIOUS
  <1>1. IInv' /\ TurnUnderWay' /\ TypeOK'
    <2>1. IInv'
      BY SessionStep, StepInvariant DEF SInv
    <2> QED
      BY <2>1, SessionStep, TurnStep DEF SInv, IInv
  <1> DEFINE Kept == /\ (stage \in [Ends -> 0 .. 4] /\ mail \in [Ends -> Seq(Message)])'
                     /\ (Progress /\ Known)'
                     /\ matched' \in [Ends -> Ids \cup {None}]
                     /\ UNCHANGED <<id, major, shared_users>>
  <1>2. Kept => SInv'
    BY <1>1 DEF SInv, SessionTypeOK
  <1>3. matched \in [Ends -> Ids \cup {None}]
    BY DEF SInv, SessionTypeOK
  <1>4. UNCHANGED handshake => Kept
    BY <1>3 DEF SInv, SessionTypeOK, handshake, identity, Progress, Known
  <1>5. ASSUME NEW e \in Ends, send_transmitic_header(e)
        PROVE  Kept
    BY <1>3, <1>5, SendHeaderKeeps DEF send_transmitic_header, identity
  <1>6. ASSUME NEW e \in Ends, receive_transmitic_header(e)
        PROVE  Kept
    BY <1>3, <1>6, ReceiveHeaderKeeps DEF receive_transmitic_header, identity
  <1>7. ASSUME NEW e \in Ends, send_diffie_helman_key(e)
        PROVE  Kept
    BY <1>3, <1>7, SendKeyKeeps DEF send_diffie_helman_key, identity
  <1>8. ASSUME NEW e \in Ends, receive_diffie_helman_key(e)
        PROVE  Kept
    BY <1>8, ReceiveKeyKeeps DEF receive_diffie_helman_key, identity
  <1> HIDE DEF Kept
  <1>9. ASSUME NEW e \in Ends, Refuse(e) \/ Abandon(e) \/ Converse(e)
        PROVE  Kept
    BY <1>4, <1>9 DEF Refuse, Abandon, Converse
  <1>10. CASE UNCHANGED <<vars, handshake>>
    BY <1>2, <1>4, <1>10
  <1> QED
    BY <1>2, <1>5, <1>6, <1>7, <1>8, <1>9, <1>10 DEF SessionNext

LEMMA PeersAgreeHolds == SInv => PeersAgree
PROOF
  <1> SUFFICES ASSUME SInv, NEW e \in Ends, Open(e)
               PROVE  /\ matched[e] = id[Peer(e)]
                      /\ matched[e] \in Elements(shared_users[e])
                      /\ major[e] = major[Peer(e)]
                      /\ e = C => matched[Peer(e)] = id[e]
    BY DEF PeersAgree, C
  <1>1. stage[e] = 4 /\ stage[C] \in 0 .. 4 /\ stage[A] \in 0 .. 4
    BY EndFacts DEF Open, SInv, SessionTypeOK
  <1>2. stage[A] = 4 /\ (e = C => stage[C] = 4)
    BY <1>1, EndFacts DEF SInv, Progress
  <1> QED
    BY <1>1, <1>2, EndFacts DEF SInv, Known

LEMMA NotStuck == SInv => NeverBothWaiting
PROOF
  <1> SUFFICES ASSUME SInv, Waiting(C), Waiting(A) PROVE FALSE
    BY EndFacts DEF NeverBothWaiting
  <1>1. stage[C] \in 0 .. 4 /\ stage[A] \in 0 .. 4
    BY EndFacts DEF SInv, SessionTypeOK
  <1>2. \/ stage[C] \in {1, 3} /\ mail[C] = <<>>
        \/ stage[C] = 4 /\ pc[C] \in {"read", "read_payload"} /\ wire[C] = <<>>
    BY AtFacts, EndFacts DEF Waiting, Open, SInv
  <1>3. \/ stage[A] \in {0, 2} /\ mail[A] = <<>>
        \/ stage[A] = 4 /\ pc[A] \in {"read", "read_payload"} /\ wire[A] = <<>>
    BY AtFacts, EndFacts DEF Waiting, Open, SInv
  <1>4. stage[C] = 4 /\ stage[A] = 4
    <2>1. \A m : <<m>> # <<>>
      OBVIOUS
    <2>2. ~ (stage[C] = 1 /\ stage[A] = 0 /\ mail[A] = <<Header(major[C])>>)
      <3> SUFFICES ASSUME stage[C] = 1 /\ stage[A] = 0, mail[A] = <<Header(major[C])>> PROVE FALSE
        OBVIOUS
      <3>1. mail[A] # <<>>
        BY <2>1
      <3> QED
        BY <1>3, <3>1
    <2>3. ~ (stage[C] = 1 /\ stage[A] = 2 /\ mail[C] = <<Header(major[A])>>)
      <3> SUFFICES ASSUME stage[C] = 1 /\ stage[A] = 2, mail[C] = <<Header(major[A])>> PROVE FALSE
        OBVIOUS
      <3>1. mail[C] # <<>>
        BY <2>1
      <3> QED
        BY <1>2, <3>1
    <2>4. ~ (stage[C] = 3 /\ stage[A] = 2 /\ mail[A] = <<Key(id[C])>>)
      <3> SUFFICES ASSUME stage[C] = 3 /\ stage[A] = 2, mail[A] = <<Key(id[C])>> PROVE FALSE
        OBVIOUS
      <3>1. mail[A] # <<>>
        BY <2>1
      <3> QED
        BY <1>3, <3>1
    <2>5. ~ (stage[C] = 3 /\ stage[A] = 4 /\ mail[C] = <<Key(id[A])>>)
      <3> SUFFICES ASSUME stage[C] = 3 /\ stage[A] = 4, mail[C] = <<Key(id[A])>> PROVE FALSE
        OBVIOUS
      <3>1. mail[C] # <<>>
        BY <2>1
      <3> QED
        BY <1>2, <3>1
    <2> QED
      BY <1>2, <1>3, <2>2, <2>3, <2>4, <2>5 DEF SInv, Progress
  <1>5. /\ pc[C] \in {"read", "read_payload"} /\ wire[C] = <<>>
        /\ pc[A] \in {"read", "read_payload"} /\ wire[A] = <<>>
    BY <1>2, <1>3, <1>4
  <1> QED
    BY <1>5, EndFacts DEF SInv, TurnUnderWay, Live, Writing

-----------------------------------------------------------------------------
\* transmitic_stream.rs and encrypted_stream.rs: SInv is an invariant of every session.
THEOREM SessionInvariant == SessionSpec => []SInv
BY SessionInitInvariant, SessionStepInvariant, PTL DEF SessionSpec

\* The variables of handshake and stream keep their types.
THEOREM SessionTypeCorrect == SessionSpec => []SessionTypeOK
<1>1. SInv => SessionTypeOK
  BY DEF SInv
<1> QED
  BY <1>1, SessionInvariant, PTL

\* An end with a stream has matched the identity its peer has signed under, and a connector
\* only has one if the acceptor has matched it in turn.
THEOREM PeersAgreement == SessionSpec => []PeersAgree
BY SessionInvariant, PeersAgreeHolds, PTL

\* In the handshake and after it, the two ends of a connection never both wait.
THEOREM NoMutualWait == SessionSpec => []NeverBothWaiting
BY SessionInvariant, NotStuck, PTL

\* No nonce is used twice in a session, whatever becomes of the handshake.
THEOREM SessionNonceSafety == SessionSpec => []NonceNeverReused
BY SessionImplementsStream, NonceSafety

\* ReadsDecrypt, of a session: from the handshake on, no read fails to decrypt.
THEOREM SessionReadSafety == SessionSpec => []ReadsDecrypt
BY SessionImplementsStream, ReadSafety
=============================================================================
