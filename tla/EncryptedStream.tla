--------------------------- MODULE EncryptedStream ---------------------------
(***************************************************************************)
(* encrypted_stream.rs: the two ends of a connection share one AES-GCM key *)
(* and each keep ONE nonce counter, which they use both to encrypt and to  *)
(* decrypt.  Nothing in EncryptedStream orders reads and writes: that no   *)
(* nonce is used for two encryptions, and that a frame is decrypted under  *)
(* the nonce it was encrypted with, rests on its callers taking turns.     *)
(*                                                                         *)
(* The callers' turns: the end that connected writes first (a downloader   *)
(* its request, an uploader in reverse mode MSG_REVERSE).  A request is    *)
(* one message and ends its writer's turn; an answer is one or more, of    *)
(* which the last (MSG_FILE_LIST_FINAL, MSG_FILE_FINISHED, or a refusal)   *)
(* ends the turn.  Either end may drop the connection at any time.         *)
(***************************************************************************)
EXTENDS Integers, Sequences

CONSTANT NONCE_MAX   \* the last nonce; 2^96 - 1 in crypto.rs

ASSUME NonceMaxAssumption == NONCE_MAX \in Nat

VARIABLES
  nonce,      \* end -> its counter
  pc,         \* end -> what it does next
  wire,       \* end -> the frames under way to it
  more,       \* end -> while it writes: are other messages of this turn to follow?
  encrypted   \* the nonces that have been used to encrypt

vars == <<nonce, pc, wire, more, encrypted>>

Ends == {"connector", "acceptor"}
Peer(e) == IF e = "connector" THEN "acceptor" ELSE "connector"

\* A frame is the header of a message, which tells whether a payload follows, or the
\* payload.  Callers know from the message whether it is the last of its writer's turn.
Frame == [nonce: 0 .. NONCE_MAX, kind: {"header", "payload"}, payload: BOOLEAN,
          last: BOOLEAN]

PCs == {"write", "write_payload", "read", "read_payload", "closed"}

Init ==
  /\ nonce = [e \in Ends |-> 0]
  /\ pc = [e \in Ends |-> IF e = "connector" THEN "write" ELSE "read"]
  /\ wire = [e \in Ends |-> <<>>]
  /\ more = [e \in Ends |-> FALSE]
  /\ encrypted = {}

\* increment_nonce: "Nonce maxed. Reconnect." is an error, and the caller drops the
\* stream; else go on to next.
increment_nonce(e, next) ==
  IF nonce[e] >= NONCE_MAX
  THEN /\ pc' = [pc EXCEPT ![e] = "closed"]
       /\ UNCHANGED nonce
  ELSE /\ nonce' = [nonce EXCEPT ![e] = @ + 1]
       /\ pc' = [pc EXCEPT ![e] = next]

\* What an end does when a whole message is written or read that did or did not end
\* the turn.
AfterWrite(again) == IF again THEN "write" ELSE "read"
AfterRead(last) == IF last THEN "write" ELSE "read"

\* Encrypt under the nonce and hand the frame to the socket.
Send(e, kind, payload, last) ==
  /\ wire' = [wire EXCEPT ![Peer(e)] =
       Append(@, [nonce |-> nonce[e], kind |-> kind, payload |-> payload, last |-> last])]
  /\ encrypted' = encrypted \cup {nonce[e]}

\* write_message: an end writes, as a caller of write does.
write_message(e, payload, last) ==
  /\ pc[e] = "write"
  /\ Send(e, "header", payload, last)
  /\ more' = [more EXCEPT ![e] = ~ last]
  /\ increment_nonce(e, IF payload THEN "write_payload" ELSE AfterWrite(~ last))

write_payload(e) ==
  /\ pc[e] = "write_payload"
  /\ Send(e, "payload", FALSE, ~ more[e])
  /\ increment_nonce(e, AfterWrite(more[e]))
  /\ UNCHANGED more

\* Decrypting fails under another nonce than the frame's.
Decrypts(e) == Head(wire[e]).nonce = nonce[e]

\* read, its first half: the header; without a payload the message is complete.
read_header(e) ==
  /\ pc[e] = "read"
  /\ wire[e] # <<>>
  /\ Decrypts(e)
  /\ wire' = [wire EXCEPT ![e] = Tail(@)]
  /\ increment_nonce(e, IF Head(wire[e]).payload THEN "read_payload"
                        ELSE AfterRead(Head(wire[e]).last))
  /\ UNCHANGED <<more, encrypted>>

\* Mutant of read_payload: the payload's nonce is not counted.
ReadPayloadUncounted(e) ==
  /\ pc[e] = "read_payload"
  /\ wire[e] # <<>>
  /\ Decrypts(e)
  /\ wire' = [wire EXCEPT ![e] = Tail(@)]
  /\ pc' = [pc EXCEPT ![e] = AfterRead(Head(wire[e]).last)]
  /\ UNCHANGED <<nonce, more, encrypted>>

\* read, its second half.
read_payload(e) ==
  /\ pc[e] = "read_payload"
  /\ wire[e] # <<>>
  /\ Decrypts(e)
  /\ wire' = [wire EXCEPT ![e] = Tail(@)]
  /\ increment_nonce(e, AfterRead(Head(wire[e]).last))
  /\ UNCHANGED <<more, encrypted>>

\* Mutant of Close: a downloader that is interrupted in the middle of an answer keeps
\* the stream and writes its next request on it.
InterruptKeepsStream(e) ==
  /\ pc[e] = "read"
  /\ pc' = [pc EXCEPT ![e] = "write"]
  /\ UNCHANGED <<nonce, wire, more, encrypted>>

\* An end drops the stream: an interrupted download, a shutdown, an error.  So does
\* one whose read_exact finds the end of the stream.
Close(e) ==
  /\ pc[e] # "closed"
  /\ pc' = [pc EXCEPT ![e] = "closed"]
  /\ UNCHANGED <<nonce, wire, more, encrypted>>

EndNext(e) ==
  \/ \E payload, last \in BOOLEAN : write_message(e, payload, last)
  \/ write_payload(e) \/ read_header(e) \/ read_payload(e) \/ Close(e)

Next == \E e \in Ends : EndNext(e)

Spec == Init /\ [][Next]_vars

-----------------------------------------------------------------------------
\* Every variable has its type.
TypeOK ==
  /\ nonce \in [Ends -> 0 .. NONCE_MAX]
  /\ pc \in [Ends -> PCs]
  /\ wire \in [Ends -> Seq(Frame)]
  /\ more \in [Ends -> BOOLEAN]
  /\ encrypted \in SUBSET (0 .. NONCE_MAX)

\* No nonce is used for two encryptions, by whichever end: an end that is about to
\* encrypt has a nonce that neither end has encrypted under.
NonceNeverReused ==
  \A e \in Ends : pc[e] \in {"write", "write_payload"} => nonce[e] \notin encrypted

\* A read never fails to decrypt, nor takes a payload for a header: the next frame was
\* encrypted under the nonce that its reader has come to and is what it expects.
ReadsDecrypt ==
  \A e \in Ends : wire[e] # <<>> =>
    /\ pc[e] = "read" => Decrypts(e) /\ Head(wire[e]).kind = "header"
    /\ pc[e] = "read_payload" => Decrypts(e) /\ Head(wire[e]).kind = "payload"
=============================================================================
