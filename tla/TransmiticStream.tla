-------------------------- MODULE TransmiticStream --------------------------
(***************************************************************************)
(* transmitic_stream.rs on top of encrypted_stream.rs: the handshake of a  *)
(* connection and the stream that comes of it.  The end that connected     *)
(* (connect) and the end that accepted (wait_for_incoming) exchange headers*)
(* and then ephemeral Diffie-Hellman keys, each signed under the private   *)
(* ID of its sender; each looks for the user whose public ID verifies the  *)
(* signature.  Whatever is not as expected is an error, and the caller     *)
(* drops the connection.  No read has a timeout.                           *)
(*                                                                         *)
(* The ends may belong to programs of different versions, may have changed *)
(* their IDs, and may know each other or not.  Once both have a stream     *)
(* they do what EncryptedStream lets them do.                              *)
(***************************************************************************)
EXTENDS EncryptedStream, FiniteSets

CONSTANTS
  Ids,      \* identities: a private ID and the public ID that belongs to it
  Majors,   \* TRAN_API_MAJOR of the programs, or what a stranger sends for it
  None      \* no user

ASSUME HandshakeAssumption == None \notin Ids

VARIABLES
  stage,          \* end -> how many steps of its handshake it has made
  mail,           \* end -> the handshake messages under way to it
  id,             \* end -> private_id_bytes, by the identity they are of
  major,          \* end -> its TRAN_API_MAJOR
  shared_users,   \* end -> the public IDs it tries, in order
  matched         \* end -> the public ID of matched_shared_user

identity == <<id, major, shared_users>>
handshake == <<stage, mail, identity, matched>>

\* Mutant of Steps: the acceptor waits for the key before it sends its header.
StepsCrossed(e) ==
  IF e = "connector"
  THEN <<"send_header", "receive_header", "send_key", "receive_key">>
  ELSE <<"receive_header", "receive_key", "send_header", "send_key">>

\* connect and wait_for_incoming.
Steps(e) ==
  IF e = "connector"
  THEN <<"send_header", "receive_header", "send_key", "receive_key">>
  ELSE <<"receive_header", "send_header", "receive_key", "send_key">>

\* get_encryption_key and get_encrypted_stream: the handshake is over.
Open(e) == stage[e] = Len(Steps(e))

At(e, step) == pc[e] # "closed" /\ ~ Open(e) /\ Steps(e)[stage[e] + 1] = step

Advance(e) == stage' = [stage EXCEPT ![e] = @ + 1]

Post(e, message) == mail' = [mail EXCEPT ![Peer(e)] = Append(@, message)]

Header(m) == [kind |-> "header", major |-> m, signer |-> None]
Key(i) == [kind |-> "key", major |-> 0, signer |-> i]

send_transmitic_header(e) ==
  /\ At(e, "send_header")
  /\ Post(e, Header(major[e]))
  /\ Advance(e)
  /\ UNCHANGED <<vars, identity, matched>>

\* Magic number and major version must be the own ones; the minor version is ignored.
receive_transmitic_header(e) ==
  /\ At(e, "receive_header")
  /\ mail[e] # <<>>
  /\ Head(mail[e]) = Header(major[e])
  /\ mail' = [mail EXCEPT ![e] = Tail(@)]
  /\ Advance(e)
  /\ UNCHANGED <<vars, identity, matched>>

send_diffie_helman_key(e) ==
  /\ At(e, "send_key")
  /\ Post(e, Key(id[e]))
  /\ Advance(e)
  /\ UNCHANGED <<vars, identity, matched>>

Elements(s) == {s[i] : i \in DOMAIN s}

\* The shared users whose public ID the signature verifies under.
Verifying(e, signer) == {i \in DOMAIN shared_users[e] : shared_users[e][i] = signer}

\* Mutant of receive_diffie_helman_key: without a match the first user is taken.
ReceiveKeyUnverified(e) ==
  /\ At(e, "receive_key")
  /\ mail[e] # <<>>
  /\ shared_users[e] # <<>>
  /\ matched' = [matched EXCEPT ![e] = Head(shared_users[e])]
  /\ mail' = [mail EXCEPT ![e] = Tail(@)]
  /\ Advance(e)
  /\ UNCHANGED <<vars, identity>>

\* The first of them is the user; there must be one.
receive_diffie_helman_key(e) ==
  /\ At(e, "receive_key")
  /\ mail[e] # <<>>
  /\ LET users == Verifying(e, Head(mail[e]).signer)
     IN  \E i \in users :
           /\ \A j \in users : i <= j
           /\ matched' = [matched EXCEPT ![e] = shared_users[e][i]]
  /\ mail' = [mail EXCEPT ![e] = Tail(@)]
  /\ Advance(e)
  /\ UNCHANGED <<vars, identity>>

\* What an end has received is not what it expects: ERR_REMOTE_ID_NOT_FOUND, or a
\* mismatch of the headers.
Unexpected(e) ==
  \/ At(e, "receive_header") /\ Head(mail[e]) # Header(major[e])
  \/ At(e, "receive_key") /\ Verifying(e, Head(mail[e]).signer) = {}

\* The error is returned and the connection dropped.
Refuse(e) ==
  /\ mail[e] # <<>>
  /\ Unexpected(e)
  /\ Close(e)
  /\ UNCHANGED handshake

\* The connection breaks, the program ends, the acceptor knows no user with the
\* address of the connector (IncomingUploader), ...
Abandon(e) ==
  /\ ~ Open(e)
  /\ Close(e)
  /\ UNCHANGED handshake

\* Both ends' reads and writes on the stream that the handshake returned.
Converse(e) ==
  /\ Open(e)
  /\ EndNext(e)
  /\ UNCHANGED handshake

\* A connector tries the one user it connects to, an acceptor the users that may
\* have the connector's address.
SessionInit ==
  /\ Init
  /\ stage = [e \in Ends |-> 0]
  /\ mail = [e \in Ends |-> <<>>]
  /\ id \in [Ends -> Ids]
  /\ major \in [Ends -> Majors]
  /\ shared_users \in
       {u \in [Ends -> UNION {[1..n -> Ids] : n \in 0..2}] :
          /\ Len(u["connector"]) = 1
          /\ \A e \in Ends : Cardinality(Elements(u[e])) = Len(u[e])}
  /\ matched = [e \in Ends |-> None]

SessionNext ==
  \E e \in Ends :
    \/ send_transmitic_header(e)
    \/ receive_transmitic_header(e)
    \/ send_diffie_helman_key(e)
    \/ receive_diffie_helman_key(e)
    \/ Refuse(e)
    \/ Abandon(e)
    \/ Converse(e)

SessionSpec == SessionInit /\ [][SessionNext]_<<vars, handshake>>

-----------------------------------------------------------------------------
Message == [kind : {"header"}, major : Majors, signer : {None}] \cup
           [kind : {"key"}, major : {0}, signer : Ids]

\* Every variable has its type, those of EncryptedStream included.
SessionTypeOK ==
  /\ TypeOK
  /\ stage \in [Ends -> 0 .. 4]
  /\ mail \in [Ends -> Seq(Message)]
  /\ id \in [Ends -> Ids]
  /\ major \in [Ends -> Majors]
  /\ shared_users \in [Ends -> Seq(Ids)]
  /\ matched \in [Ends -> Ids \cup {None}]

\* Whoever has a stream has the user that is at the other end (get_encrypted_stream
\* exits the program when there is none), runs the same version, and a connector
\* has one only after the acceptor has found its user too: a downloader that
\* reports its user online is not one that the user has just refused.
PeersAgree ==
  \A e \in Ends : Open(e) =>
    /\ matched[e] = id[Peer(e)]
    /\ matched[e] \in Elements(shared_users[e])
    /\ major[e] = major[Peer(e)]
    /\ e = "connector" => matched[Peer(e)] = id[e]

\* Waiting for a message of the handshake, or for a frame, that is not under way.
Waiting(e) ==
  \/ (At(e, "receive_header") \/ At(e, "receive_key")) /\ mail[e] = <<>>
  \/ Open(e) /\ pc[e] \in {"read", "read_payload"} /\ wire[e] = <<>>

\* The ends never wait for each other: with no timeout on any read ("TODO set read
\* timeout") both threads would be stuck until the connection breaks.
NeverBothWaiting == \E e \in Ends : ~ Waiting(e)
=============================================================================
