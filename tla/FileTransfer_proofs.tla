------------------------- MODULE FileTransfer_proofs -------------------------
(***************************************************************************)
(* Proofs about FileTransfer, for any number of files, lengths, message    *)
(* sizes, edits and interruptions: what is on disk is where it belongs,    *)
(* both ends agree on the offset, and the transfer implements Download.    *)
(*                                                                         *)
(* The invariant follows the bytes on their way: from the owner's file to  *)
(* the wire, from there to the message that was read, and to the disk.     *)
(* Each of them is at its place, counted from the end of what is before    *)
(* it.  That there is at most one file under way, and that the last        *)
(* message leaves nothing behind it, is the other half (Stage).            *)
(***************************************************************************)
EXTENDS FileTransfer, NaturalsInduction, WellFoundedInduction, TLAPS

-----------------------------------------------------------------------------
(* The inductive invariant.                                                *)

Transferring == {"first", "read", "store"}

Types ==
  /\ remote \in [Files -> Bytes \cup {NoFile}]
  /\ disk \in [Files -> Bytes \cup {NoFile}]
  /\ edits \in 0 .. MaxEdits
  /\ upload \in [file: Files, sent: Nat] \cup {None}
  /\ wire \in Messages \cup {None}
  /\ message \in Messages \cup {None}
  /\ pc \in PCs

\* What is under way belongs to the file that is being transferred, and a last message
\* has nothing behind it.
Stage ==
  /\ message # None <=> pc = "store"
  /\ pc \in Transferring => file \in Files
  /\ upload # None \/ wire # None => pc \in Transferring
  /\ upload # None => upload.file = file
  /\ message # None => message.type # "INVALID_FILE"
  /\ wire # None /\ wire.type # "CHUNK" => upload = None
  /\ message # None /\ message.type = "FINISHED" => upload = None /\ wire = None

\* The bytes were written at consecutive positions, the first of them after n others.
PlacedAfter(bytes, n) == \A k \in 1 .. Len(bytes) : bytes[k][2] = n + k

\* Bytes read and not stored yet.
Unstored == IF message = None THEN 0 ELSE Len(message.bytes)

RemoteInPlace == \A i \in Files : remote[i] # NoFile => PlacedAfter(remote[i], 0)
DiskInPlace   == \A i \in Files : disk[i] # NoFile => PlacedAfter(disk[i], 0)

WayInPlace ==
  /\ message # None => PlacedAfter(message.bytes, DiskLength)
  /\ wire # None /\ wire.type # "INVALID_FILE" =>
       PlacedAfter(wire.bytes, DiskLength + Unstored)

IInv == Types /\ Stage /\ RemoteInPlace /\ DiskInPlace /\ WayInPlace /\ OffsetsAgree

\* What the invariant and the refinement look at.
coreVars == <<remote, edits, upload, wire, pc, file, current_downloaded_bytes, message, disk>>

-----------------------------------------------------------------------------
(* Sequences of bytes.                                                     *)

\* The contents of an edited file are bytes at their places.
LEMMA ContentsInPlace ==
  ASSUME NEW e \in 0 .. MaxEdits, NEW n \in 0 .. MaxLen
  PROVE  Contents(e, n) \in Bytes /\ PlacedAfter(Contents(e, n), 0)
<1>1. \A k \in 1 .. n : <<e, k>> \in Byte
  BY SizesAssumption DEF Byte
<1>2. Contents(e, n) \in Bytes /\ Len(Contents(e, n)) = n
  BY <1>1 DEF Contents, Bytes
<1> QED
  BY <1>2 DEF Contents, PlacedAfter

\* A piece of a file whose bytes are at their places starts at its offset.
LEMMA PieceInPlace ==
  ASSUME NEW bytes \in Bytes, PlacedAfter(bytes, 0),
         NEW m \in Nat, NEW n \in Nat, n = 0 \/ m + n <= Len(bytes)
  PROVE  /\ SubSeq(bytes, m + 1, m + n) \in Bytes
         /\ Len(SubSeq(bytes, m + 1, m + n)) = n
         /\ PlacedAfter(SubSeq(bytes, m + 1, m + n), m)
<1> DEFINE piece == SubSeq(bytes, m + 1, m + n)
<1>1. piece \in Bytes /\ Len(piece) = n
  BY DEF Bytes
<1>2. ASSUME NEW k \in 1 .. n PROVE piece[k] = bytes[m + k]
  BY DEF Bytes
<1>3. ASSUME NEW k \in 1 .. n PROVE m + k \in 1 .. Len(bytes)
  BY DEF Bytes
<1> QED
  BY <1>1, <1>2, <1>3 DEF PlacedAfter

\* The beginning of bytes that are at their places.
LEMMA PrefixInPlace ==
  ASSUME NEW bytes \in Bytes, NEW m \in Nat, PlacedAfter(bytes, m), NEW n \in 0 .. Len(bytes)
  PROVE  /\ SubSeq(bytes, 1, n) \in Bytes
         /\ Len(SubSeq(bytes, 1, n)) = n
         /\ PlacedAfter(SubSeq(bytes, 1, n), m)
BY DEF PlacedAfter, Bytes

\* Bytes that are appended where the others end.
LEMMA AppendedInPlace ==
  ASSUME NEW bytes \in Bytes, NEW more \in Bytes,
         PlacedAfter(bytes, 0), PlacedAfter(more, Len(bytes))
  PROVE  /\ bytes \o more \in Bytes
         /\ Len(bytes \o more) = Len(bytes) + Len(more)
         /\ PlacedAfter(bytes \o more, 0)
<1>1. bytes \o more \in Bytes /\ Len(bytes \o more) = Len(bytes) + Len(more)
  BY DEF Bytes
<1>2. ASSUME NEW k \in 1 .. Len(bytes) + Len(more)
      PROVE  (bytes \o more)[k][2] = k
  <2>1. CASE k \in 1 .. Len(bytes)
    <3>1. (bytes \o more)[k] = bytes[k]
      BY <2>1 DEF Bytes
    <3> QED
      BY <2>1, <3>1 DEF PlacedAfter
  <2>2. CASE k \notin 1 .. Len(bytes)
    <3>1. k - Len(bytes) \in 1 .. Len(more) /\ (bytes \o more)[k] = more[k - Len(bytes)]
      BY <2>2 DEF Bytes
    <3>2. Len(bytes) \in Nat
      BY DEF Bytes
    <3> QED
      BY <3>1, <3>2 DEF PlacedAfter
  <2> QED
    BY <2>1, <2>2
<1> QED
  BY <1>1, <1>2 DEF PlacedAfter

\* Lengths on disk.
LEMMA LengthOnDisk ==
  ASSUME Types, NEW i \in Files
  PROVE  /\ Length(disk[i]) \in Nat
         /\ disk[i] # NoFile => disk[i] \in Bytes /\ Length(disk[i]) = Len(disk[i])
BY DEF Types, Length, Bytes

\* Writing the bytes of a message to the file that is being transferred.
LEMMA StoredInPlace ==
  ASSUME Types, DiskInPlace, file \in Files,
         NEW bytes \in Bytes, PlacedAfter(bytes, DiskLength)
  PROVE  /\ Stored(bytes) \in Bytes
         /\ Stored(bytes) # NoFile
         /\ Len(Stored(bytes)) = DiskLength + Len(bytes)
         /\ PlacedAfter(Stored(bytes), 0)
<1>1. CASE disk[file] = NoFile
  BY <1>1, ValuesAssumption DEF Stored, DiskLength, Length, Bytes
<1>2. CASE disk[file] # NoFile
  <2>1. disk[file] \in Bytes /\ DiskLength = Len(disk[file])
    BY <1>2 DEF Types, DiskLength, Length
  <2>2. PlacedAfter(disk[file], 0)
    BY <1>2 DEF DiskInPlace
  <2> QED
    BY <1>2, <2>1, <2>2, AppendedInPlace, ValuesAssumption DEF Stored
<1> QED
  BY <1>1, <1>2

-----------------------------------------------------------------------------
(* Steps that leave the bytes on their way alone, or none on their way.    *)

LEMMA QuietStep == IInv /\ UNCHANGED coreVars => IInv'
BY DEF IInv, Types, Stage, RemoteInPlace, DiskInPlace, WayInPlace, PlacedAfter, Unstored,
       OffsetsAgree, DiskLength, coreVars

\* After a step that leaves nothing under way, only files are left to look at.
LEMMA AtRest ==
  ASSUME IInv,
         upload' = None, wire' = None, message' = None, pc' \in PCs \ Transferring,
         UNCHANGED <<remote, edits>>,
         disk' \in [Files -> Bytes \cup {NoFile}], DiskInPlace'
  PROVE  IInv'
<1>1. Types'
  BY DEF IInv, Types
<1>2. Stage'
  BY DEF Stage, Transferring
<1>3. RemoteInPlace'
  BY DEF IInv, RemoteInPlace, PlacedAfter
<1>4. WayInPlace' /\ OffsetsAgree'
  BY DEF WayInPlace, OffsetsAgree, Transferring
<1> QED
  BY <1>1, <1>2, <1>3, <1>4 DEF IInv

\* Nothing is under way in the other states.
LEMMA NothingUnderWay ==
  IInv /\ pc \notin Transferring => upload = None /\ wire = None /\ message = None
BY DEF IInv, Stage, Transferring

LEMMA RestStep ==
  ASSUME IInv, pc \notin Transferring, UNCHANGED <<upload, wire, message>>,
         pc' \in PCs \ Transferring, UNCHANGED <<remote, edits, disk>>
  PROVE  IInv'
<1>1. disk' \in [Files -> Bytes \cup {NoFile}] /\ DiskInPlace'
  BY DEF IInv, Types, DiskInPlace, PlacedAfter
<1> QED
  BY <1>1, NothingUnderWay, AtRest

LEMMA DisconnectStep ==
  ASSUME IInv, Disconnect, pc' \in PCs \ Transferring, UNCHANGED <<remote, edits, disk>>
  PROVE  IInv'
<1>1. disk' \in [Files -> Bytes \cup {NoFile}] /\ DiskInPlace'
  BY DEF IInv, Types, DiskInPlace, PlacedAfter
<1> QED
  BY <1>1, AtRest DEF Disconnect

-----------------------------------------------------------------------------
(* The owner and the uploader.                                             *)

\* The file that is sent may change: what comes is still taken from its own place.
LEMMA EditStep ==
  ASSUME IInv, NEW i \in Files, NEW bytes \in Bytes \cup {NoFile}, Edit(i, bytes),
         bytes # NoFile => PlacedAfter(bytes, 0)
  PROVE  IInv'
<1>1. Types'
  <2>1. edits' \in 0 .. MaxEdits
    BY BoundsAssumption DEF IInv, Types, Edit
  <2> QED
    BY <2>1 DEF IInv, Types, Edit, OwnerFrame, serverVars, countVars
<1>2. RemoteInPlace'
  BY DEF IInv, Types, RemoteInPlace, Edit, PlacedAfter
<1>3. Stage' /\ DiskInPlace' /\ WayInPlace' /\ OffsetsAgree'
  BY DEF IInv, Stage, DiskInPlace, WayInPlace, OffsetsAgree, PlacedAfter, Unstored,
         DiskLength, Edit, OwnerFrame, serverVars, countVars
<1> QED
  BY <1>1, <1>2, <1>3 DEF IInv

LEMMA SetSharedStep == IInv /\ SetShared => IInv'
<1> SUFFICES ASSUME IInv, SetShared PROVE IInv'
  OBVIOUS
<1>1. edits' \in 0 .. MaxEdits
  BY BoundsAssumption DEF IInv, Types, SetShared
<1>2. Types'
  BY <1>1 DEF IInv, Types, SetShared, OwnerFrame, serverVars, countVars
<1> QED
  BY <1>2 DEF IInv, Stage, RemoteInPlace, DiskInPlace, WayInPlace, OffsetsAgree, PlacedAfter,
              Unstored, DiskLength, SetShared, OwnerFrame, serverVars, countVars

LEMMA SentMore ==
  ASSUME NEW u \in [file: Files, sent: Nat], NEW n \in Nat
  PROVE  [u EXCEPT !.sent = n] = [file |-> u.file, sent |-> n]
OBVIOUS

LEMMA ServeStep == IInv /\ Serve => IInv'
<1> SUFFICES ASSUME IInv, Serve PROVE IInv'
  OBVIOUS
<1> DEFINE sender == remote[upload.file]
<1>1. /\ upload # None /\ wire = None
      /\ upload.file = file /\ file \in Files /\ upload.sent \in Nat
      /\ sender \in Bytes /\ PlacedAfter(sender, 0)
      /\ pc \in Transferring
  BY DEF IInv, Types, Stage, RemoteInPlace, Serve
<1>2. PICK n \in 0 .. MAX_DATA_SIZE :
        LET rest == Len(sender) - upload.sent
            sent == upload.sent + n
            last == sent >= served.size[upload.file] \/ n = 0
        IN /\ IF rest <= 0 THEN n = 0 ELSE n \in 1 .. rest
           /\ wire' = [type |-> IF last THEN "FINISHED" ELSE "CHUNK",
                       bytes |-> SubSeq(sender, upload.sent + 1, sent)]
           /\ upload' = IF last THEN None ELSE [upload EXCEPT !.sent = sent]
  BY DEF Serve
<1> DEFINE piece == SubSeq(sender, upload.sent + 1, upload.sent + n)
<1>3. n \in Nat /\ Len(sender) \in Nat
  BY <1>1, SizesAssumption DEF Bytes
<1>4. n = 0 \/ upload.sent + n <= Len(sender)
  BY <1>1, <1>2, <1>3
<1>5. piece \in Bytes /\ Len(piece) = n /\ PlacedAfter(piece, upload.sent)
  BY <1>1, <1>3, <1>4, PieceInPlace
<1>6. /\ wire' \in [type: {"CHUNK", "FINISHED"}, bytes: Bytes]
      /\ wire'.bytes = piece
      /\ wire'.type # "CHUNK" => upload' = None
      /\ upload' = None \/ upload' = [file |-> file, sent |-> upload.sent + n]
  <2>1. upload \in [file: Files, sent: Nat]
    BY <1>1 DEF IInv, Types
  <2>2. upload' = None \/ upload' = [upload EXCEPT !.sent = upload.sent + n]
    BY <1>2
  <2>3. upload.sent + n \in Nat
    BY <1>1, <1>3
  <2> QED
    BY <1>1, <1>2, <1>5, <2>1, <2>2, <2>3, SentMore
<1>7. wire' \in Messages /\ wire' # None
  BY <1>6, ValuesAssumption DEF Messages
<1>8. /\ UNCHANGED <<remote, edits, pc, file, current_downloaded_bytes, message, disk>>
  BY DEF Serve, ServerFrame, ownerVars, countVars
<1>9. upload' \in [file: Files, sent: Nat] \cup {None}
  <2>1. upload.sent + n \in Nat
    BY <1>1, <1>3
  <2> QED
    BY <1>1, <1>6, <2>1
<1>10. upload' # None => upload'.file = file /\ upload'.sent = upload.sent + n
  BY <1>6
<1>11. Types'
  BY <1>7, <1>8, <1>9 DEF IInv, Types
<1>12. Stage'
  BY <1>1, <1>6, <1>8, <1>10 DEF IInv, Stage, Transferring
<1>13. RemoteInPlace' /\ DiskInPlace'
  BY <1>8 DEF IInv, RemoteInPlace, DiskInPlace, PlacedAfter
<1>14. DiskLength \in Nat /\ Unstored \in Nat
  <2>1. DiskLength \in Nat
    BY <1>1, LengthOnDisk DEF IInv, DiskLength
  <2>2. message # None => message.bytes \in Bytes
    BY DEF IInv, Types, Stage, Messages
  <2> QED
    BY <2>1, <2>2 DEF Unstored, Bytes
<1>15. upload.sent = DiskLength + Unstored
  BY <1>1, <1>14 DEF IInv, OffsetsAgree, Unstored
<1>16. DiskLength' = DiskLength /\ Unstored' = Unstored
  BY <1>8 DEF DiskLength, Unstored
<1>17. WayInPlace'
  <2>1. message' # None => PlacedAfter(message'.bytes, DiskLength')
    BY <1>8, <1>16 DEF IInv, WayInPlace, PlacedAfter
  <2>2. PlacedAfter(wire'.bytes, DiskLength' + Unstored')
    BY <1>5, <1>6, <1>15, <1>16
  <2> QED
    BY <2>1, <2>2 DEF WayInPlace, PlacedAfter
<1>18. OffsetsAgree'
  <2>1. pc' \in {"first", "read", "store"} => current_downloaded_bytes' = DiskLength'
    BY <1>8, <1>16 DEF IInv, OffsetsAgree
  <2>2. upload' # None => upload'.sent = DiskLength + n + Unstored
    BY <1>3, <1>10, <1>14, <1>15
  <2>3. wire' # None /\ Len(wire'.bytes) = n
    BY <1>5, <1>6, <1>7
  <2> QED
    BY <2>1, <2>2, <2>3, <1>16 DEF OffsetsAgree, Unstored
<1> QED
  BY <1>11, <1>12, <1>13, <1>17, <1>18 DEF IInv

LEMMA OpenFailsStep == IInv /\ OpenFails => IInv'
BY DisconnectStep DEF OpenFails, Disconnect, PCs, Transferring, ownerVars

-----------------------------------------------------------------------------
(* The downloader.                                                         *)

LEMMA FailureStep == IInv /\ (Drop \/ Crash) => IInv'
BY DisconnectStep DEF Drop, Crash, Failure, PCs, Transferring, ownerVars

LEMMA RefreshStep == IInv /\ Refresh => IInv'
BY QuietStep DEF Refresh, ClientFrame, ownerVars, serverVars, countVars, coreVars

LEMMA BetweenStep ==
  IInv /\ (Connect \/ SetEverythingFile \/ Select \/ NextListed \/ FinishDirectory) => IInv'
BY RestStep DEF Connect, SetEverythingFile, Select, NextListed, FinishDirectory, Finish, Skip,
       ClientFrame, ownerVars, serverVars, countVars, PCs, Transferring

LEMMA RefetchStep == IInv /\ Refetch => IInv'
BY DisconnectStep DEF Refetch, ClientFrame, PCs, Transferring, ownerVars

LEMMA RejectStep == IInv /\ RejectItem => IInv'
BY DisconnectStep DEF RejectItem, CheckFile, Finish, ClientFrame, PCs, Transferring, ownerVars

LEMMA PassTooLargeStep == IInv /\ PassTooLarge => IInv'
BY RestStep DEF PassTooLarge, CheckFile, Skip, ClientFrame, PCs, Transferring, ownerVars

LEMMA PassCompleteStep == IInv /\ PassComplete => IInv'
<1> SUFFICES ASSUME IInv, PassComplete PROVE IInv'
  OBVIOUS
<1>1. pc = "check" /\ upload' = None /\ wire' = None /\ message' = None
  BY NothingUnderWay DEF PassComplete, CheckFile, Transferring
<1>2. pc' \in PCs \ Transferring /\ UNCHANGED <<remote, edits>>
  BY DEF PassComplete, CheckFile, Skip, Finish, ClientFrame, ownerVars, PCs, Transferring
<1>3. disk' = [disk EXCEPT ![file] = IF @ = NoFile THEN <<>> ELSE @]
  BY DEF PassComplete
<1>4. <<>> \in Bytes /\ PlacedAfter(<<>>, 0)
  BY DEF Bytes, PlacedAfter
<1>5. disk' \in [Files -> Bytes \cup {NoFile}]
  BY <1>3, <1>4 DEF IInv, Types
<1>6. DiskInPlace'
  <2> SUFFICES ASSUME NEW i \in Files, disk'[i] # NoFile PROVE PlacedAfter(disk'[i], 0)
    BY DEF DiskInPlace, PlacedAfter
  <2>1. disk'[i] = <<>> \/ disk'[i] = disk[i]
    BY <1>3 DEF IInv, Types
  <2> QED
    BY <1>4, <2>1 DEF IInv, DiskInPlace
<1> QED
  BY <1>1, <1>2, <1>5, <1>6, AtRest

\* The uploader starts where the file on disk ends.
LEMMA RequestStep == IInv /\ Request => IInv'
<1> SUFFICES ASSUME IInv, Request PROVE IInv'
  OBVIOUS
<1>1. /\ pc = "check" /\ pc' = "first" /\ file \in Files
      /\ upload = None /\ wire = None /\ message = None
      /\ UNCHANGED <<remote, edits, file, message, disk>>
      /\ current_downloaded_bytes' = DiskLength
  BY NothingUnderWay DEF Request, CheckFile, ClientFrame, Transferring, ownerVars
<1>2. \/ wire' = [type |-> "INVALID_FILE"] /\ upload' = None
      \/ upload' = [file |-> file, sent |-> DiskLength] /\ wire' = None
  BY <1>1 DEF Request
<1>3. DiskLength \in Nat
  BY <1>1, LengthOnDisk DEF IInv, DiskLength
<1>4. Types'
  BY <1>1, <1>2, <1>3 DEF IInv, Types, Messages, PCs
<1>5. Stage'
  BY <1>1, <1>2 DEF Stage, Transferring
<1>6. RemoteInPlace' /\ DiskInPlace'
  BY <1>1 DEF IInv, RemoteInPlace, DiskInPlace, PlacedAfter
<1>7. WayInPlace'
  BY <1>1, <1>2 DEF WayInPlace
<1>8. OffsetsAgree'
  BY <1>1, <1>2, <1>3 DEF OffsetsAgree, DiskLength
<1> QED
  BY <1>4, <1>5, <1>6, <1>7, <1>8 DEF IInv

LEMMA ReadStep == IInv /\ Read => IInv'
<1> SUFFICES ASSUME IInv, Read PROVE IInv'
  OBVIOUS
<1>1. /\ pc \in {"first", "read"} /\ wire # None /\ wire' = None /\ message = None
      /\ file \in Files
      /\ UNCHANGED <<remote, edits, upload, file, current_downloaded_bytes, disk>>
  BY DEF Read, ClientFrame, ownerVars, IInv, Stage, Transferring
<1>2. CASE wire.type = "INVALID_FILE"
  <2>1. upload' = None /\ message' = None /\ pc' = "refetch"
    BY <1>1, <1>2 DEF Read, IInv, Stage
  <2>2. UNCHANGED disk /\ pc' \in PCs \ Transferring
    BY <1>1, <2>1 DEF PCs, Transferring
  <2> QED
    BY <1>1, <2>1, <2>2, DisconnectStep DEF Disconnect
<1>3. CASE wire.type # "INVALID_FILE"
  <2>1. message' = wire /\ pc' = "store"
    BY <1>3 DEF Read
  <2>2. wire \in [type: {"CHUNK", "FINISHED"}, bytes: Bytes]
    BY <1>1, <1>3 DEF IInv, Types, Messages
  <2>3. Types'
    BY <1>1, <2>1 DEF IInv, Types, PCs
  <2>4. Stage'
    BY <1>1, <1>3, <2>1, <2>2 DEF IInv, Stage, Transferring
  <2>5. RemoteInPlace' /\ DiskInPlace'
    BY <1>1 DEF IInv, RemoteInPlace, DiskInPlace, PlacedAfter
  <2>6. DiskLength \in Nat /\ Len(wire.bytes) \in Nat
    BY <1>1, <2>2, LengthOnDisk DEF IInv, DiskLength, Bytes
  <2>7. WayInPlace'
    BY <1>1, <1>3, <2>1, <2>6 DEF IInv, WayInPlace, PlacedAfter, Unstored, DiskLength
  <2>8. OffsetsAgree'
    BY <1>1, <2>1, <2>6 DEF IInv, OffsetsAgree, DiskLength
  <2> QED
    BY <2>3, <2>4, <2>5, <2>7, <2>8 DEF IInv
<1> QED
  BY <1>2, <1>3

\* What the writes of a message, whole or in part, have in common.
LEMMA Written ==
  ASSUME IInv, file \in Files,
         NEW bytes \in Bytes, PlacedAfter(bytes, DiskLength),
         disk' = [disk EXCEPT ![file] = Stored(bytes)]
  PROVE  /\ disk' \in [Files -> Bytes \cup {NoFile}]
         /\ DiskInPlace'
         /\ disk'[file] = Stored(bytes)
         /\ Length(disk'[file]) = DiskLength + Len(bytes)
<1>1. /\ Stored(bytes) \in Bytes
      /\ Stored(bytes) # NoFile
      /\ Len(Stored(bytes)) = DiskLength + Len(bytes)
      /\ PlacedAfter(Stored(bytes), 0)
  BY StoredInPlace DEF IInv
<1>2. disk' \in [Files -> Bytes \cup {NoFile}] /\ disk'[file] = Stored(bytes)
  BY <1>1 DEF IInv, Types
<1>3. DiskInPlace'
  <2> SUFFICES ASSUME NEW i \in Files, disk'[i] # NoFile PROVE PlacedAfter(disk'[i], 0)
    BY DEF DiskInPlace, PlacedAfter
  <2>1. CASE i = file
    BY <1>1, <1>2, <2>1
  <2>2. CASE i # file
    <3>1. disk'[i] = disk[i]
      BY <2>2 DEF IInv, Types
    <3> QED
      BY <3>1 DEF IInv, DiskInPlace
  <2> QED
    BY <2>1, <2>2
<1> QED
  BY <1>1, <1>2, <1>3 DEF Length

\* The message that was read: data, placed after what is on disk.
LEMMA MessageRead ==
  ASSUME IInv, pc = "store"
  PROVE  /\ file \in Files
         /\ message # None /\ message.type \in {"CHUNK", "FINISHED"}
         /\ message.bytes \in Bytes
         /\ PlacedAfter(message.bytes, DiskLength)
         /\ DiskLength \in Nat /\ Len(message.bytes) \in Nat
<1>1. file \in Files /\ message # None /\ message.type # "INVALID_FILE"
  BY DEF IInv, Stage, Transferring
<1>2. message \in [type: {"CHUNK", "FINISHED"}, bytes: Bytes]
  BY <1>1 DEF IInv, Types, Messages
<1> QED
  BY <1>1, <1>2, LengthOnDisk DEF IInv, WayInPlace, DiskLength, Bytes

LEMMA StoreStep == IInv /\ Store => IInv'
<1> SUFFICES ASSUME IInv, Store PROVE IInv'
  OBVIOUS
<1>1. /\ pc = "store" /\ UNCHANGED <<remote, edits>>
      /\ disk' = [disk EXCEPT ![file] = Stored(message.bytes)]
      /\ current_downloaded_bytes' = current_downloaded_bytes + Len(message.bytes)
  BY DEF Store, ClientFrame, ownerVars
<1>2. /\ file \in Files
      /\ message # None /\ message.type \in {"CHUNK", "FINISHED"}
      /\ message.bytes \in Bytes
      /\ PlacedAfter(message.bytes, DiskLength)
      /\ DiskLength \in Nat /\ Len(message.bytes) \in Nat
  BY <1>1, MessageRead
<1>3. /\ disk' \in [Files -> Bytes \cup {NoFile}]
      /\ DiskInPlace'
      /\ Length(disk'[file]) = DiskLength + Len(message.bytes)
  BY <1>1, <1>2, Written
<1>4. ASSUME message' = None, upload' = None, wire' = None, pc' \in {"check", "done", "offline"}
      PROVE  IInv'
  BY <1>1, <1>3, <1>4, AtRest DEF PCs, Transferring
<1>5. CASE message.type = "FINISHED" /\ current_downloaded_bytes' = TargetSize
  <2>1. upload = None /\ wire = None
    BY <1>2, <1>5 DEF IInv, Stage
  <2>2. message' = None /\ UNCHANGED <<upload, wire>> /\ pc' \in {"check", "done"}
    BY <1>5 DEF Store, Skip, Finish
  <2> QED
    BY <1>4, <2>1, <2>2
<1>6. CASE ~ (message.type = "FINISHED" <=> current_downloaded_bytes' = TargetSize)
  <2>1. Disconnect /\ pc' \in {"offline", "done"}
    BY <1>6 DEF Store, Finish
  <2> QED
    BY <1>4, <2>1 DEF Disconnect
<1>7. CASE message.type # "FINISHED" /\ current_downloaded_bytes' # TargetSize
  <2>1. message' = None /\ pc' = "read" /\ UNCHANGED <<upload, wire, file>>
    BY <1>7 DEF Store
  <2>2. DiskLength' = DiskLength + Len(message.bytes)
    BY <1>3, <2>1 DEF DiskLength
  <2>3. Types'
    BY <1>1, <1>3, <2>1 DEF IInv, Types, PCs
  <2>4. Stage'
    BY <1>1, <1>2, <2>1 DEF IInv, Stage, Transferring
  <2>5. RemoteInPlace'
    BY <1>1 DEF IInv, RemoteInPlace, PlacedAfter
  <2>6. WayInPlace'
    <3>1. DiskLength' + Unstored' = DiskLength + Unstored
      BY <1>2, <2>1, <2>2 DEF Unstored
    <3>2. wire # None /\ wire.type # "INVALID_FILE" =>
            PlacedAfter(wire.bytes, DiskLength' + Unstored')
      BY <3>1 DEF IInv, WayInPlace
    <3> QED
      BY <2>1, <3>2 DEF WayInPlace, PlacedAfter
  <2>7. OffsetsAgree'
    <3>1. current_downloaded_bytes' = DiskLength'
      BY <1>1, <2>2 DEF IInv, OffsetsAgree
    <3> DEFINE sent == IF wire = None THEN 0 ELSE Len(wire.bytes)
    <3>2. upload # None => sent \in Nat
      <4>1. upload # None /\ wire # None => wire.bytes \in Bytes
        BY DEF IInv, Stage, Types, Messages
      <4> QED
        BY <4>1 DEF Bytes
    <3>3. upload # None => upload.sent = DiskLength + sent + Len(message.bytes)
      BY <1>2 DEF IInv, OffsetsAgree
    <3>4. upload' # None => upload'.sent = DiskLength' + sent' + 0
      <4> HIDE DEF sent
      <4>1. sent' = sent
        BY <2>1 DEF sent
      <4> QED
        BY <1>2, <2>1, <2>2, <3>2, <3>3, <4>1
    <3> QED
      BY <2>1, <3>1, <3>4 DEF OffsetsAgree
  <2> QED
    BY <1>3, <2>3, <2>4, <2>5, <2>6, <2>7 DEF IInv
<1> QED
  BY <1>5, <1>6, <1>7

LEMMA StorePartStep == IInv /\ StorePart => IInv'
<1> SUFFICES ASSUME IInv, StorePart PROVE IInv'
  OBVIOUS
<1>1. /\ pc = "store" /\ pc' = "offline" /\ Disconnect /\ UNCHANGED <<remote, edits>>
  BY DEF StorePart, Failure, ownerVars
<1>2. PICK n \in 0 .. Len(message.bytes) - 1 :
        disk' = [disk EXCEPT ![file] = Stored(SubSeq(message.bytes, 1, n))]
  BY DEF StorePart
<1> DEFINE part == SubSeq(message.bytes, 1, n)
<1>3. part \in Bytes /\ PlacedAfter(part, DiskLength)
  BY <1>1, MessageRead, PrefixInPlace
<1>4. disk' \in [Files -> Bytes \cup {NoFile}] /\ DiskInPlace'
  BY <1>1, <1>2, <1>3, MessageRead, Written
<1> QED
  BY <1>1, <1>4, AtRest DEF Disconnect, PCs, Transferring

-----------------------------------------------------------------------------
(* The invariant.                                                          *)

LEMMA InitInv == Init => IInv
<1> SUFFICES ASSUME Init PROVE IInv
  OBVIOUS
<1>1. ASSUME NEW i \in Files
      PROVE  /\ remote[i] \in Bytes \cup {NoFile}
             /\ remote[i] # NoFile => PlacedAfter(remote[i], 0)
  <2>1. remote[i] \in {Contents(0, n) : n \in 0 .. MaxLen} \cup {NoFile}
    BY DEF Init
  <2>2. 0 \in 0 .. MaxEdits
    BY BoundsAssumption
  <2> QED
    BY <2>1, <2>2, ContentsInPlace
<1>2. remote \in [Files -> Bytes \cup {NoFile}] /\ RemoteInPlace
  BY <1>1 DEF Init, RemoteInPlace
<1>3. Types
  BY <1>2, BoundsAssumption DEF Init, Types, PCs
<1> QED
  BY <1>2, <1>3 DEF IInv, Init, Stage, DiskInPlace, WayInPlace, OffsetsAgree, Transferring

LEMMA OwnerStep == IInv /\ OwnerNext => IInv'
<1> SUFFICES ASSUME IInv, OwnerNext PROVE IInv'
  OBVIOUS
<1>1. CASE SetShared
  BY <1>1, SetSharedStep
<1>2. ASSUME NEW i \in ItemFiles, NEW n \in 0 .. MaxLen, Edit(i, Contents(edits + 1, n))
      PROVE  IInv'
  <2>1. i \in Files /\ edits + 1 \in 0 .. MaxEdits
    BY <1>2, FilesAssumption, BoundsAssumption DEF ItemFiles, Files, Edit, IInv, Types
  <2> QED
    BY <1>2, <2>1, ContentsInPlace, EditStep
<1>3. ASSUME NEW i \in ItemFiles, Edit(i, NoFile)
      PROVE  IInv'
  <2>1. i \in Files
    BY <1>3, FilesAssumption DEF ItemFiles, Files
  <2> QED
    BY <1>3, <2>1, EditStep
<1> QED
  BY <1>1, <1>2, <1>3 DEF OwnerNext

LEMMA StepInv == IInv /\ [Next]_vars => IInv'
<1> SUFFICES ASSUME IInv, [Next]_vars PROVE IInv'
  OBVIOUS
<1>1. CASE UNCHANGED vars
  BY <1>1, QuietStep DEF vars, ownerVars, serverVars, countVars, coreVars
<1>2. CASE OwnerNext \/ Serve \/ OpenFails
  BY <1>2, OwnerStep, ServeStep, OpenFailsStep
<1>3. CASE DownloaderNext
  BY <1>3, BetweenStep, RejectStep, PassCompleteStep, PassTooLargeStep, RequestStep, ReadStep,
     RefetchStep, StoreStep DEF DownloaderNext
<1>4. CASE FailureNext \/ Refresh
  BY <1>4, FailureStep, StorePartStep, RefreshStep DEF FailureNext
<1> QED
  BY <1>1, <1>2, <1>3, <1>4 DEF Next

\* The bytes on their way are at their places, counted from the end of what is before
\* them, and belong to one file: download_shared_file and the sending loop of run_loop.
THEOREM TransferInvariant == Spec => []IInv
BY InitInv, StepInv, PTL DEF Spec

\* download_shared_file resumes from the length on disk: however often, and whatever the
\* owner does meanwhile, no byte of a file is missing, doubled or shifted.
THEOREM PlacesAreKept == Spec => []BytesInPlace
<1>1. IInv => BytesInPlace
  BY DEF IInv, Types, DiskInPlace, PlacedAfter, BytesInPlace, Bytes
<1> QED
  BY <1>1, TransferInvariant, PTL

\* current_downloaded_bytes, the length on disk and the uploader's current_sent_bytes
\* are one number, less what is under way.
THEOREM OffsetsAlwaysAgree == Spec => []OffsetsAgree
<1>1. IInv => OffsetsAgree
  BY DEF IInv
<1> QED
  BY <1>1, TransferInvariant, PTL

-----------------------------------------------------------------------------
(* What is reported as completed is whole.  The files of a directory are   *)
(* gone through in order: those before the current one are settled.        *)

\* Sizes as a file list gives them; the list of a single file gives no other.
Sizes(l) ==
  /\ l.size \in [Files -> Nat \cup {NotListed}]
  /\ is_directory \/ \A i \in Files \ {1} : l.size[i] = NotListed

\* Every list was made from what the owner has.
ListsKnown ==
  /\ is_directory \/ \A i \in Files \ {1} : remote[i] = NoFile
  /\ Sizes(served) /\ Sizes(everything_file)
  /\ listing # None => Sizes(listing)

Settled(i) ==
  everything_file.size[i] # NotListed =>
    /\ disk[i] # NoFile
    /\ i \in reported \/ Len(disk[i]) = everything_file.size[i]

\* What is settled stays so, and a file is only transferred if its sizes agree.
InOrder ==
  /\ file \in 1 .. NumFiles + 1
  /\ pc \in {"check"} \cup Transferring => \A i \in Files : i < file => Settled(i)
  /\ pc \in Transferring => is_directory \/ expected = everything_file.size[file]
  /\ outcome = "completed" => pc = "done" /\ \A i \in Files : Settled(i)

WholeInv == ListsKnown /\ InOrder

LEMMA InitWhole == Init => WholeInv
<1> SUFFICES ASSUME Init PROVE WholeInv
  OBVIOUS
<1>1. remote \in [Files -> Bytes \cup {NoFile}]
  BY InitInv DEF IInv, Types
<1>2. is_directory \/ \A i \in Files \ {1} : remote[i] = NoFile
  BY DEF Init, ItemFiles
<1>3. Sizes(EverythingFile)
  BY <1>1, <1>2 DEF Sizes, EverythingFile, Bytes
<1>4. 1 \in 1 .. NumFiles + 1
  BY FilesAssumption
<1> QED
  BY <1>2, <1>3, <1>4, ValuesAssumption DEF Init, WholeInv, ListsKnown, InOrder, Transferring

\* A list made now gives the sizes of what the owner has.
LEMMA MadeNow ==
  ASSUME IInv, ListsKnown
  PROVE  Sizes(EverythingFile)
BY DEF IInv, Types, ListsKnown, Sizes, EverythingFile, Bytes

LEMMA ListsStep == IInv /\ ListsKnown /\ [Next]_vars => ListsKnown'
<1> SUFFICES ASSUME IInv, ListsKnown, [Next]_vars PROVE ListsKnown'
  OBVIOUS
<1> DEFINE Lists == <<is_directory, remote, served, everything_file, listing>>
<1>1. ASSUME UNCHANGED Lists PROVE ListsKnown'
  BY <1>1 DEF ListsKnown, Sizes
<1>2. ASSUME UNCHANGED <<is_directory, remote>>,
             served' \in {served, EverythingFile},
             listing' \in {listing, None, served, EverythingFile},
             \/ everything_file' = everything_file
             \/ everything_file' = listing' /\ listing' \in {served, listing} /\ listing # None
             \/ everything_file' = served
      PROVE  ListsKnown'
  BY <1>2, MadeNow DEF ListsKnown, Sizes
<1>3. CASE OwnerNext
  <2>1. ASSUME NEW i \in ItemFiles, NEW bytes, Edit(i, bytes) PROVE ListsKnown'
    BY <2>1 DEF Edit, OwnerFrame, serverVars, ListsKnown, Sizes, ItemFiles, IInv, Types
  <2>2. CASE SetShared
    BY <1>1, <2>2 DEF SetShared, OwnerFrame, serverVars
  <2> QED
    BY <1>3, <2>1, <2>2 DEF OwnerNext
<1>4. CASE Serve \/ OpenFails
  BY <1>1, <1>4 DEF Serve, ServerFrame, OpenFails, ownerVars
<1>5. CASE Connect \/ SetEverythingFile \/ Select \/ Read \/ Refetch
  <2> USE DEF ClientFrame, ownerVars, serverVars
  <2>1. CASE SetEverythingFile
    <3>1. CASE listing' = served
      BY <1>2, <2>1, <3>1 DEF SetEverythingFile
    <3>2. CASE listing # None /\ listing' = listing
      BY <1>2, <2>1, <3>2 DEF SetEverythingFile
    <3> QED
      BY <2>1, <3>1, <3>2 DEF SetEverythingFile
  <2>2. CASE Connect
    BY <1>2, <2>2 DEF Connect
  <2>3. CASE Select \/ Read
    BY <1>1, <2>3 DEF Select, Read
  <2>4. CASE Refetch
    BY <1>2, <2>4 DEF Refetch
  <2> QED
    BY <1>5, <2>1, <2>2, <2>3, <2>4
<1>6. CASE RejectItem \/ PassComplete \/ PassTooLarge \/ Request \/ NextListed
           \/ FinishDirectory \/ Store
  <2> USE DEF ClientFrame, ownerVars, serverVars, CheckFile
  <2>1. CASE RejectItem \/ PassComplete \/ PassTooLarge \/ Request
    BY <1>1, <2>1 DEF RejectItem, PassComplete, PassTooLarge, Request
  <2>2. CASE NextListed \/ FinishDirectory \/ Store
    BY <1>1, <2>2 DEF NextListed, FinishDirectory, Store
  <2> QED
    BY <1>6, <2>1, <2>2
<1>7. CASE FailureNext \/ Refresh
  BY <1>2, <1>7 DEF FailureNext, Drop, Crash, StorePart, Refresh, Failure, ClientFrame, ownerVars,
     serverVars
<1>8. CASE UNCHANGED vars
  BY <1>1, <1>8 DEF vars, ownerVars, serverVars
<1> QED
  BY <1>3, <1>4, <1>5, <1>6, <1>7, <1>8 DEF Next, DownloaderNext

\* A step that settles nothing and unsettles nothing.
LEMMA SameOrder ==
  ASSUME InOrder, UNCHANGED <<file, disk, everything_file, reported, expected, outcome, is_directory>>,
         \/ pc' = pc
         \/ pc # "done" /\ pc' \in PCs \ ({"check"} \cup Transferring)
         \/ pc \in Transferring /\ pc' \in Transferring
  PROVE  InOrder'
BY DEF InOrder, Settled, PCs, Transferring

\* The attempt is over, or begins again with the first file.
LEMMA NewOrder ==
  ASSUME InOrder, outcome # "completed", outcome' # "completed",
         pc' \notin {"check"} \cup Transferring, file' = file
  PROVE  InOrder'
BY DEF InOrder

\* The file of this step is settled and the others are left alone: it is the next one's
\* turn, or the item is one file.
LEMMA NextInOrder ==
  ASSUME IInv, WholeInv, NEW f \in Files, file = f, pc \in {"check"} \cup Transferring,
         UNCHANGED <<everything_file, is_directory>>,
         reported \subseteq reported',
         \A i \in Files \ {f} : disk'[i] = disk[i],
         Settled(f)',
         \/ pc' = "check" /\ file' = f + 1 /\ outcome' = outcome
         \/ pc' = "done" /\ file' = f /\ ~ is_directory
  PROVE  InOrder'
<1>1. f \in Nat /\ NumFiles \in Nat /\ f \in 1 .. NumFiles /\ f + 1 \in 1 .. NumFiles + 1
  BY FilesAssumption DEF Files
<1>2. ASSUME NEW i \in Files, i < f
      PROVE  Settled(i)'
  <2>1. Settled(i) /\ i # f
    BY <1>1, <1>2 DEF WholeInv, InOrder, Files
  <2> QED
    BY <2>1 DEF Settled
<1>3. ASSUME NEW i \in Files, i <= f
      PROVE  Settled(i)'
  <2>1. CASE i = f
    BY <2>1
  <2>2. CASE i < f
    BY <1>2, <2>2
  <2> QED
    BY <1>1, <1>3, <2>1, <2>2 DEF Files
<1>4. CASE pc' = "check" /\ file' = f + 1 /\ outcome' = outcome
  <2>1. outcome' # "completed"
    BY <1>4 DEF WholeInv, InOrder, Transferring
  <2>2. \A i \in Files : i < f + 1 => Settled(i)'
    BY <1>1, <1>3 DEF Files
  <2> QED
    BY <1>1, <1>4, <2>1, <2>2 DEF InOrder, Transferring
<1>5. CASE pc' = "done" /\ file' = f /\ ~ is_directory
  <2>1. ASSUME NEW i \in Files PROVE Settled(i)'
    <3>1. CASE i = 1
      <4>1. 1 <= f
        BY <1>1
      <4> QED
        BY <1>3, <3>1, <4>1
    <3>2. CASE i # 1
      <4>1. everything_file.size[i] = NotListed
        BY <1>5, <3>2 DEF WholeInv, ListsKnown, Sizes
      <4> QED
        BY <4>1 DEF Settled
    <3> QED
      BY <3>1, <3>2
  <2>2. f \in 1 .. NumFiles + 1
    BY <1>1
  <2> QED
    BY <1>5, <2>1, <2>2 DEF InOrder, Transferring
<1> QED
  BY <1>4, <1>5

LEMMA CheckOrder ==
  IInv /\ WholeInv /\ (RejectItem \/ PassComplete \/ PassTooLarge \/ Request) => InOrder'
<1> SUFFICES ASSUME IInv, WholeInv, RejectItem \/ PassComplete \/ PassTooLarge \/ Request
             PROVE  InOrder'
  OBVIOUS
<1> PICK f \in Files : f = file
  BY DEF RejectItem, PassComplete, PassTooLarge, Request, CheckFile
<1>1. /\ CheckFile /\ pc = "check" /\ f = file
      /\ everything_file.size[f] # NotListed
      /\ UNCHANGED <<is_directory, everything_file>>
  BY DEF RejectItem, PassComplete, PassTooLarge, Request, CheckFile, ClientFrame, ownerVars
<1>2. everything_file.size[f] \in Nat
  BY <1>1 DEF WholeInv, ListsKnown, Sizes
<1>3. outcome # "completed" /\ InOrder
  BY <1>1 DEF WholeInv, InOrder
<1>4. /\ DiskLength \in Nat
      /\ disk[f] = NoFile => DiskLength = 0
      /\ disk[f] # NoFile => DiskLength = Len(disk[f])
  BY <1>1, LengthOnDisk DEF IInv, DiskLength, Length
<1>5. CASE RejectItem
  <2>1. pc' = "done" /\ outcome' = "invalid" /\ UNCHANGED file
    BY <1>5 DEF RejectItem, Finish
  <2> QED
    BY <1>3, <2>1, NewOrder DEF Transferring
<1>6. CASE PassComplete
  <2>1. /\ ~ Rejected /\ DiskLength = TargetSize
        /\ disk' = [disk EXCEPT ![f] = IF @ = NoFile THEN <<>> ELSE @]
        /\ UNCHANGED reported
        /\ \/ pc' = "check" /\ file' = f + 1 /\ outcome' = outcome
           \/ pc' = "done" /\ file' = f /\ ~ is_directory
    BY <1>6 DEF PassComplete, Skip, Finish
  <2>2. DiskLength = everything_file.size[f]
    BY <2>1 DEF Rejected, TargetSize
  <2>3. disk'[f] # NoFile /\ Len(disk'[f]) = DiskLength
    <3>1. disk'[f] = IF disk[f] = NoFile THEN <<>> ELSE disk[f]
      BY <1>1, <2>1 DEF IInv, Types
    <3>2. <<>> \in Bytes
      BY DEF Bytes
    <3> QED
      BY <1>4, <3>1, <3>2, ValuesAssumption
  <2>4. Settled(f)'
    BY <1>1, <2>2, <2>3 DEF Settled
  <2>5. \A i \in Files \ {f} : disk'[i] = disk[i]
    BY <2>1 DEF IInv, Types
  <2> QED
    BY <1>1, <2>1, <2>4, <2>5, NextInOrder
<1>7. CASE PassTooLarge
  <2>1. /\ ~ Rejected /\ DiskLength > TargetSize
        /\ reported' = reported \cup {f} /\ UNCHANGED <<disk, outcome>>
        /\ pc' = "check" /\ file' = f + 1
    BY <1>7 DEF PassTooLarge, Skip
  <2>2. DiskLength > everything_file.size[f]
    BY <2>1 DEF Rejected, TargetSize
  <2>3. disk[f] # NoFile
    BY <1>2, <1>4, <2>2
  <2>4. Settled(f)'
    BY <1>1, <2>1, <2>3 DEF Settled
  <2> QED
    BY <1>1, <2>1, <2>4, NextInOrder
<1>8. CASE Request
  <2>1. /\ ~ Rejected /\ pc' = "first"
        /\ UNCHANGED <<file, disk, expected, outcome, reported>>
    BY <1>8 DEF Request, itemVars
  <2>2. is_directory \/ expected = everything_file.size[f]
    BY <2>1 DEF Rejected
  <2>3. (\A i \in Files : i < file => Settled(i))'
    BY <1>1, <1>3, <2>1 DEF InOrder, Settled
  <2> QED
    BY <1>1, <1>3, <2>1, <2>2, <2>3 DEF InOrder
<1> QED
  BY <1>5, <1>6, <1>7, <1>8

LEMMA StoreOrder == IInv /\ WholeInv /\ Store => InOrder'
<1> SUFFICES ASSUME IInv, WholeInv, Store PROVE InOrder'
  OBVIOUS
<1> PICK f \in Files : f = file
  BY MessageRead DEF Store
<1>1. /\ pc = "store" /\ pc \in Transferring /\ f = file
      /\ UNCHANGED <<is_directory, everything_file>>
      /\ disk' = [disk EXCEPT ![f] = Stored(message.bytes)]
      /\ current_downloaded_bytes' = current_downloaded_bytes + Len(message.bytes)
  BY DEF Store, ClientFrame, ownerVars, Transferring
<1>2. /\ message # None /\ message.bytes \in Bytes
      /\ PlacedAfter(message.bytes, DiskLength)
  BY <1>1, MessageRead
<1>3. InOrder /\ outcome # "completed"
  BY <1>1 DEF WholeInv, InOrder, Transferring
<1>4. \A i \in Files \ {f} : disk'[i] = disk[i]
  BY <1>1 DEF IInv, Types
<1>5. disk'[f] # NoFile /\ Len(disk'[f]) = current_downloaded_bytes'
  <2>1. Length(disk'[f]) = DiskLength + Len(message.bytes) /\ disk'[f] = Stored(message.bytes)
    BY <1>1, <1>2, Written
  <2>2. Stored(message.bytes) # NoFile
    BY <1>2, StoredInPlace DEF IInv
  <2>3. current_downloaded_bytes = DiskLength
    BY <1>1 DEF IInv, OffsetsAgree
  <2> QED
    BY <1>1, <2>1, <2>2, <2>3 DEF Length
<1>6. CASE message.type = "FINISHED" /\ current_downloaded_bytes' = TargetSize
  <2>1. /\ UNCHANGED reported
        /\ \/ pc' = "check" /\ file' = f + 1 /\ outcome' = outcome
           \/ pc' = "done" /\ file' = f /\ ~ is_directory
    BY <1>6 DEF Store, Skip, Finish
  <2>2. TargetSize = everything_file.size[f]
    BY <1>1 DEF WholeInv, InOrder, TargetSize
  <2>3. Settled(f)'
    BY <1>1, <1>5, <1>6, <2>2 DEF Settled
  <2> QED
    BY <1>1, <1>4, <2>1, <2>3, NextInOrder
<1>7. CASE ~ (message.type = "FINISHED" <=> current_downloaded_bytes' = TargetSize)
  <2>1. /\ UNCHANGED file
        /\ \/ pc' = "offline" /\ outcome' = outcome
           \/ pc' = "done" /\ outcome' = "invalid"
    BY <1>7 DEF Store, Finish
  <2> QED
    BY <1>3, <2>1, NewOrder DEF Transferring
<1>8. CASE message.type # "FINISHED" /\ current_downloaded_bytes' # TargetSize
  <2>1. pc' = "read" /\ UNCHANGED <<file, expected, outcome, reported>>
    BY <1>8 DEF Store
  <2>2. ASSUME NEW i \in Files, i < f
        PROVE  Settled(i)'
    <3>1. Settled(i) /\ i # f
      BY <1>1, <1>2, <1>3, <2>2 DEF InOrder, Files
    <3> QED
      BY <1>1, <1>4, <2>1, <3>1 DEF Settled
  <2>3. (\A i \in Files : i < file => Settled(i))'
    BY <2>1, <2>2
  <2> QED
    BY <1>1, <1>3, <2>1, <2>3 DEF InOrder
<1> QED
  BY <1>6, <1>7, <1>8

LEMMA OrderStep == IInv /\ WholeInv /\ [Next]_vars => InOrder'
<1> SUFFICES ASSUME IInv, WholeInv, [Next]_vars PROVE InOrder'
  OBVIOUS
<1> DEFINE order == <<file, disk, everything_file, reported, expected, outcome, is_directory>>
<1>1. InOrder
  BY DEF WholeInv
<1> USE DEF ClientFrame, ownerVars, itemVars, countVars
<1>2. CASE OwnerNext \/ Serve \/ Refresh
  <2>1. CASE OwnerNext
    BY <1>1, <2>1, SameOrder DEF OwnerNext, Edit, SetShared, OwnerFrame
  <2>2. CASE Serve \/ Refresh
    BY <1>1, <2>2, SameOrder DEF Serve, ServerFrame, Refresh
  <2> QED
    BY <1>2, <2>1, <2>2
<1>3. CASE OpenFails
  <2>1. pc \in Transferring /\ pc' = "offline" /\ UNCHANGED order
    BY <1>3 DEF OpenFails, IInv, Stage
  <2> QED
    BY <1>1, <2>1, SameOrder DEF Transferring, PCs
<1>4. CASE Connect \/ Refetch
  BY <1>1, <1>4, SameOrder DEF Connect, Refetch, Transferring, PCs
<1>5. CASE SetEverythingFile
  <2>1. outcome # "completed"
    BY <1>1, <1>5 DEF InOrder, SetEverythingFile
  <2> QED
    BY <1>1, <1>5, <2>1, NewOrder DEF SetEverythingFile, Transferring
<1>6. CASE Select
  <2>1. outcome # "completed" /\ pc = "select"
    BY <1>1, <1>6 DEF InOrder, Select
  <2>2. CASE everything_file.item
    <3>1. pc' = "check" /\ file' = 1 /\ outcome' = outcome
      BY <1>6, <2>2 DEF Select
    <3>2. \A i \in Files : ~ (i < 1)
      BY FilesAssumption DEF Files
    <3>3. 1 \in 1 .. NumFiles + 1
      BY FilesAssumption
    <3> QED
      BY <2>1, <3>1, <3>2, <3>3 DEF InOrder, Transferring
  <2>3. CASE ~ everything_file.item
    <3>1. pc' = "done" /\ outcome' = "invalid" /\ UNCHANGED file
      BY <1>6, <2>3 DEF Select, Finish
    <3> QED
      BY <1>1, <2>1, <3>1, NewOrder DEF Transferring
  <2> QED
    BY <2>2, <2>3
<1>7. CASE NextListed
  <2>1. /\ pc = "check" /\ pc' = "check" /\ file \in Files /\ file' = file + 1
        /\ everything_file.size[file] = NotListed
        /\ UNCHANGED <<disk, everything_file, reported, expected, outcome, is_directory>>
    BY <1>7 DEF NextListed, Skip
  <2>2. Settled(file)
    BY <2>1 DEF Settled
  <2>3. \A i \in Files : i < file + 1 => Settled(i)
    BY <1>1, <2>1, <2>2, FilesAssumption DEF InOrder, Files
  <2>4. file + 1 \in 1 .. NumFiles + 1
    BY <2>1, FilesAssumption DEF Files
  <2> QED
    BY <1>1, <2>1, <2>3, <2>4 DEF InOrder, Settled, Transferring
<1>8. CASE FinishDirectory
  <2>1. /\ pc = "check" /\ file = NumFiles + 1 /\ pc' = "done"
        /\ UNCHANGED <<file, disk, everything_file, reported>>
    BY <1>8 DEF FinishDirectory, Finish
  <2>2. \A i \in Files : i < file
    BY <2>1, FilesAssumption DEF Files
  <2>3. \A i \in Files : Settled(i)
    BY <1>1, <2>1, <2>2 DEF InOrder
  <2> QED
    BY <1>1, <2>1, <2>3 DEF InOrder, Settled, Transferring
<1>9. CASE RejectItem \/ PassComplete \/ PassTooLarge \/ Request \/ Store
  BY <1>9, CheckOrder, StoreOrder
<1>10. CASE Read
  <2>1. /\ pc \in Transferring /\ UNCHANGED order
        /\ pc' \in Transferring \/ pc' \in PCs \ ({"check"} \cup Transferring)
    BY <1>10 DEF Read, Transferring, PCs
  <2> QED
    BY <1>1, <2>1, SameOrder DEF Transferring
<1>11. CASE FailureNext
  <2>1. pc # "done" /\ pc' = "offline" /\ UNCHANGED <<file, outcome>>
    BY <1>11 DEF FailureNext, Drop, Crash, StorePart
  <2>2. outcome # "completed"
    BY <1>1, <2>1 DEF InOrder
  <2> QED
    BY <1>1, <2>1, <2>2, NewOrder DEF Transferring
<1>12. CASE UNCHANGED vars
  BY <1>1, <1>12, SameOrder DEF vars
<1> QED
  BY <1>2, <1>3, <1>4, <1>5, <1>6, <1>7, <1>8, <1>9, <1>10, <1>11, <1>12
     DEF Next, DownloaderNext

\* What download_shared_file reports as completed is there in full, however often it was
\* interrupted and whatever the owner did: each file has the size that the list gave,
\* or was reported as invalid.
THEOREM CompletedIsWhole == Spec => []CompletedWhole
<1>1. WholeInv => CompletedWhole
  BY DEF WholeInv, InOrder, Settled, CompletedWhole
<1>2. IInv /\ WholeInv /\ [Next]_vars => WholeInv'
  BY ListsStep, OrderStep DEF WholeInv
<1> QED
  BY <1>1, <1>2, InitWhole, TransferInvariant, PTL DEF Spec

-----------------------------------------------------------------------------
(* A directory's size: the sizes of its files, added up one after the      *)
(* other.  Induction is by minimal counterexample, from the                *)
(* well-foundedness of < on Nat.                                           *)

\* A set of naturals that is not empty has a least element.
LEMMA NatMin ==
  ASSUME NEW T \in SUBSET Nat, T # {}
  PROVE  \E n \in T : \A m \in T : n <= m
<1>1. PICK x \in T : \A y \in T : ~ (<<y, x>> \in OpToRel(<, Nat))
  BY WFMin, NatLessThanWellFounded
<1>2. \A a, b \in Nat : a < b => <<a, b>> \in OpToRel(<, Nat)
  BY DEF OpToRel
<1>3. ASSUME NEW y \in T PROVE x <= y
  <2>1. x \in Nat /\ y \in Nat
    OBVIOUS
  <2>2. ~ (y < x)
    BY <1>1, <1>2, <2>1
  <2> QED
    BY <2>1, <2>2
<1> QED
  BY <1>3

\* What a file adds to the size of its directory.
ListedSize(l, i) == IF l.size[i] = NotListed THEN 0 ELSE l.size[i]

\* The i-th value of SizesAdded's recursive function F, and the functions on 0 .. k that
\* obey its equation.
SumStep(l, F, i) == IF i = 0 THEN 0 ELSE F[i - 1] + ListedSize(l, i)

Sums(l, k) == {F \in [0 .. k -> Nat] : \A i \in 0 .. k : F[i] = SumStep(l, F, i)}

ListSizes(l) == l.size \in [Files -> Nat \cup {NotListed}]

LEMMA ListedSizeType ==
  ASSUME NEW l, ListSizes(l), NEW i \in Files
  PROVE  ListedSize(l, i) \in Nat
BY DEF ListSizes, ListedSize, NotListed

\* There is one for every k.
LEMMA SumExists ==
  ASSUME NEW l, ListSizes(l), NEW k \in 0 .. NumFiles
  PROVE  Sums(l, k) # {}
<1> DEFINE T == {j \in 0 .. NumFiles : Sums(l, j) = {}}
<1>1. SUFFICES ASSUME T # {} PROVE FALSE
  OBVIOUS
<1>2. PICK n \in T : \A m \in T : n <= m
  <2>1. T \in SUBSET Nat
    BY FilesAssumption
  <2> HIDE DEF T
  <2> QED
    BY <1>1, <2>1, NatMin
<1>3. n \in 0 .. NumFiles /\ n \in Nat /\ NumFiles \in Nat /\ Sums(l, n) = {}
  BY <1>2, FilesAssumption
<1>4. CASE n = 0
  <2>1. [i \in 0 .. 0 |-> 0] \in Sums(l, 0)
    BY DEF Sums, SumStep
  <2> QED
    BY <1>3, <1>4, <2>1
<1>5. CASE n # 0
  <2>1. n - 1 \in 0 .. NumFiles /\ n - 1 \notin T
    BY <1>2, <1>3, <1>5
  <2>2. PICK F \in [0 .. n - 1 -> Nat] : \A i \in 0 .. n - 1 : F[i] = SumStep(l, F, i)
    BY <2>1 DEF Sums
  <2> DEFINE v == F[n - 1] + ListedSize(l, n)
             G == [i \in 0 .. n |-> IF i = n THEN v ELSE F[i]]
  <2>3. v \in Nat
    <3>1. n \in Files /\ F[n - 1] \in Nat
      BY <1>3, <1>5, <2>2 DEF Files
    <3> QED
      BY <3>1, ListedSizeType
  <2>4. G \in [0 .. n -> Nat]
    <3> HIDE DEF v
    <3>1. \A i \in 0 .. n : i # n => i \in 0 .. n - 1
      BY <1>3
    <3> QED
      BY <2>2, <2>3, <3>1
  <2>5. ASSUME NEW i \in 0 .. n PROVE G[i] = SumStep(l, G, i)
    <3>1. CASE i = n
      <4>1. G[i] = v /\ G[i - 1] = F[n - 1]
        BY <1>3, <1>5, <3>1
      <4> HIDE DEF G
      <4> QED
        BY <1>5, <3>1, <4>1 DEF SumStep
    <3>2. CASE i # n
      <4>1. i \in 0 .. n - 1 /\ G[i] = F[i]
        BY <1>3, <3>2
      <4>2. i # 0 => G[i - 1] = F[i - 1]
        BY <1>3, <3>2
      <4>3. F[i] = SumStep(l, F, i)
        BY <2>2, <4>1
      <4> HIDE DEF G
      <4> QED
        BY <4>1, <4>2, <4>3 DEF SumStep
    <3> QED
      BY <3>1, <3>2
  <2>6. G \in Sums(l, n)
    <3> HIDE DEF G
    <3> QED
      BY <2>4, <2>5 DEF Sums
  <2> QED
    BY <1>3, <2>6
<1> QED
  BY <1>4, <1>5

\* process_shared_file adds the sizes up.
LEMMA SizesAddedRun ==
  ASSUME NEW l, ListSizes(l)
  PROVE  /\ SizesAdded(l) \in [0 .. NumFiles -> Nat]
         /\ SizesAdded(l)[0] = 0
         /\ \A i \in Files : SizesAdded(l)[i] = SizesAdded(l)[i - 1] + ListedSize(l, i)
<1> DEFINE H == SizesAdded(l)
<1>1. PICK F : F \in Sums(l, NumFiles)
  BY SumExists, FilesAssumption
<1>2. F = [i \in 0 .. NumFiles |-> IF i = 0 THEN 0 ELSE F[i - 1] +
                                     IF l.size[i] = NotListed THEN 0 ELSE l.size[i]]
  BY <1>1 DEF Sums, SumStep, ListedSize
<1>3. H = [i \in 0 .. NumFiles |-> IF i = 0 THEN 0 ELSE H[i - 1] +
                                     IF l.size[i] = NotListed THEN 0 ELSE l.size[i]]
  BY <1>2 DEF SizesAdded
<1> HIDE DEF H
<1>4. H[0] = 0
  BY <1>3, FilesAssumption
<1>5. \A i \in Files : H[i] = H[i - 1] + ListedSize(l, i)
  <2> SUFFICES ASSUME NEW i \in Files PROVE H[i] = H[i - 1] + ListedSize(l, i)
    OBVIOUS
  <2>1. i \in 0 .. NumFiles /\ i # 0
    BY FilesAssumption DEF Files
  <2> QED
    BY <1>3, <2>1 DEF ListedSize
<1> DEFINE T == {j \in 0 .. NumFiles : H[j] \notin Nat}
<1>6. T = {}
  <2>1. SUFFICES ASSUME T # {} PROVE FALSE
    OBVIOUS
  <2>2. PICK n \in T : \A m \in T : n <= m
    <3>1. T \in SUBSET Nat
      BY FilesAssumption
    <3> HIDE DEF T
    <3> QED
      BY <2>1, <3>1, NatMin
  <2>3. n \in 0 .. NumFiles /\ NumFiles \in Nat /\ H[n] \notin Nat
    BY <2>2, FilesAssumption
  <2>4. n # 0
    BY <1>4, <2>3
  <2>5. n - 1 \in 0 .. NumFiles /\ n - 1 \notin T /\ n \in Files
    BY <2>2, <2>3, <2>4 DEF Files
  <2>6. H[n - 1] \in Nat /\ ListedSize(l, n) \in Nat
    BY <2>5, ListedSizeType
  <2> QED
    BY <1>5, <2>3, <2>5, <2>6
<1>7. H \in [0 .. NumFiles -> Nat]
  <2>1. \A j \in 0 .. NumFiles : H[j] \in Nat
    BY <1>6
  <2> QED
    BY <1>3, <2>1
<1> QED
  BY <1>4, <1>5, <1>7 DEF H

\* No part of a directory is larger than the whole.
LEMMA PartsOfTotal ==
  ASSUME NEW l, ListSizes(l), NEW i \in 0 .. NumFiles
  PROVE  SizesAdded(l)[i] <= TotalSize(l)
<1> DEFINE H == SizesAdded(l)
           T == {j \in 0 .. NumFiles : ~ (H[NumFiles - j] <= H[NumFiles])}
<1>1. /\ NumFiles \in Nat
      /\ H \in [0 .. NumFiles -> Nat]
      /\ \A j \in Files : H[j] = H[j - 1] + ListedSize(l, j)
  BY SizesAddedRun, FilesAssumption
<1> HIDE DEF H
<1>2. T = {}
  <2>1. SUFFICES ASSUME T # {} PROVE FALSE
    OBVIOUS
  <2>2. PICK n \in T : \A m \in T : n <= m
    <3>1. T \in SUBSET Nat
      BY FilesAssumption
    <3> HIDE DEF T
    <3> QED
      BY <2>1, <3>1, NatMin
  <2>3. n \in 0 .. NumFiles /\ ~ (H[NumFiles - n] <= H[NumFiles])
    BY <2>2
  <2>4. n # 0
    BY <1>1, <2>3
  <2>5. n - 1 \in 0 .. NumFiles /\ n - 1 \notin T
    BY <1>1, <2>2, <2>3, <2>4
  <2>6. H[NumFiles - (n - 1)] <= H[NumFiles]
    BY <2>5
  <2> DEFINE j == NumFiles - (n - 1)
  <2>7. j \in Files /\ j - 1 = NumFiles - n /\ NumFiles - n \in 0 .. NumFiles
    BY <1>1, <2>3, <2>4 DEF Files
  <2>8. H[j] = H[j - 1] + ListedSize(l, j) /\ ListedSize(l, j) \in Nat
    BY <1>1, <2>7, ListedSizeType
  <2> HIDE DEF j
  <2>9. H[j - 1] \in Nat /\ H[NumFiles] \in Nat /\ H[j] <= H[NumFiles]
    BY <1>1, <2>6, <2>7 DEF j
  <2> QED
    BY <2>3, <2>7, <2>8, <2>9
<1>3. NumFiles - i \in 0 .. NumFiles /\ NumFiles - (NumFiles - i) = i
  BY <1>1
<1>4. H[i] <= H[NumFiles]
  BY <1>2, <1>3
<1> QED
  BY <1>4 DEF TotalSize, H

-----------------------------------------------------------------------------
(* Types: what is left of them are the lists, whose sizes are those of     *)
(* files on the owner's disk, the counts and the report.                   *)

ListTypes ==
  /\ is_directory \in BOOLEAN /\ shared \in BOOLEAN
  /\ \A i \in Files : remote[i] # NoFile => Len(remote[i]) <= MaxLen
  /\ served \in Listing /\ everything_file \in Listing
  /\ listing \in Listing \cup {None}

CountTypes ==
  /\ expected \in Nat
  /\ current_downloaded_bytes \in Nat /\ active_downloaded_current_bytes \in Nat
  /\ outcome \in {None, "completed", "invalid"}
  /\ reported \in SUBSET Files
  /\ failures \in 0 .. MaxFailures

TypeInv == ListTypes /\ CountTypes

\* A list made now is one: get_everything_file.
LEMMA MadeListing ==
  ASSUME Types, ListTypes
  PROVE  EverythingFile \in Listing
<1>1. ASSUME NEW i \in Files
      PROVE  (IF shared /\ remote[i] # NoFile THEN Len(remote[i]) ELSE NotListed)
               \in NotListed .. MaxLen
  <2>1. remote[i] # NoFile => Len(remote[i]) \in Nat /\ Len(remote[i]) <= MaxLen
    BY DEF Types, ListTypes, Bytes
  <2> QED
    BY <2>1, SizesAssumption DEF NotListed
<1>2. (shared /\ (is_directory \/ remote[1] # NoFile)) \in BOOLEAN
  OBVIOUS
<1> QED
  BY <1>1, <1>2 DEF EverythingFile, Listing

\* The sizes of an edited file's contents.
LEMMA ContentsLength ==
  ASSUME NEW e, NEW n \in 0 .. MaxLen
  PROVE  Len(Contents(e, n)) <= MaxLen
<1>1. n \in Nat /\ n <= MaxLen
  BY SizesAssumption
<1>2. Contents(e, n) \in Seq({e} \X (1 .. n)) /\ DOMAIN Contents(e, n) = 1 .. n
  BY <1>1 DEF Contents
<1>3. Len(Contents(e, n)) = n
  BY <1>1, <1>2
<1> QED
  BY <1>1, <1>3

LEMMA InitTypes == Init => TypeInv
<1> SUFFICES ASSUME Init PROVE TypeInv
  OBVIOUS
<1>1. Types /\ WholeInv
  BY InitInv, InitWhole DEF IInv
<1>2. ASSUME NEW i \in Files, remote[i] # NoFile PROVE Len(remote[i]) <= MaxLen
  <2>1. PICK n \in 0 .. MaxLen : remote[i] = Contents(0, n)
    BY <1>2 DEF Init
  <2> QED
    BY <2>1, ContentsLength
<1>3. EverythingFile \in Listing
  <2>1. ASSUME NEW i \in Files
        PROVE  (IF shared /\ remote[i] # NoFile THEN Len(remote[i]) ELSE NotListed)
                 \in NotListed .. MaxLen
    <3>1. remote[i] # NoFile => Len(remote[i]) \in Nat /\ Len(remote[i]) <= MaxLen
      BY <1>1, <1>2 DEF Types, Bytes
    <3> QED
      BY <3>1, SizesAssumption DEF NotListed
  <2>2. (shared /\ (is_directory \/ remote[1] # NoFile)) \in BOOLEAN
    OBVIOUS
  <2> QED
    BY <2>1, <2>2 DEF EverythingFile, Listing
<1>4. ListTypes
  BY <1>2, <1>3 DEF Init, ListTypes
<1>5. TotalSize(EverythingFile) \in Nat
  <2>1. Sizes(EverythingFile)
    BY <1>1 DEF Init, WholeInv, ListsKnown
  <2> QED
    BY <2>1, SizesAddedRun, FilesAssumption DEF Sizes, ListSizes, TotalSize
<1> QED
  BY <1>4, <1>5, BoundsAssumption DEF Init, TypeInv, CountTypes

LEMMA ListTypesStep == IInv /\ ListTypes /\ [Next]_vars => ListTypes'
<1> SUFFICES ASSUME IInv, ListTypes, [Next]_vars PROVE ListTypes'
  OBVIOUS
<1> DEFINE owned == <<is_directory, shared, remote>>
           lists == <<served, everything_file, listing>>
<1>1. EverythingFile \in Listing
  BY MadeListing DEF IInv
<1>2. ASSUME UNCHANGED owned, UNCHANGED lists PROVE ListTypes'
  BY <1>2 DEF ListTypes
<1>3. ASSUME UNCHANGED owned,
             served' \in {served, EverythingFile},
             listing' \in {listing, None, served, EverythingFile},
             \/ everything_file' = everything_file
             \/ everything_file' = served
             \/ listing # None /\ everything_file' = listing
      PROVE  ListTypes'
  <2>1. listing # None => listing \in Listing
    BY DEF ListTypes
  <2>2. UNCHANGED <<remote, is_directory, shared>>
    BY <1>3
  <2>3. served' \in Listing /\ listing' \in Listing \cup {None}
    BY <1>1, <1>3 DEF ListTypes
  <2>4. everything_file' \in Listing
    <3>1. CASE everything_file' = everything_file
      BY <3>1 DEF ListTypes
    <3>2. CASE everything_file' = served
      BY <3>2 DEF ListTypes
    <3>3. CASE listing # None /\ everything_file' = listing
      BY <2>1, <3>3
    <3> QED
      BY <1>3, <3>1, <3>2, <3>3
  <2> QED
    BY <2>2, <2>3, <2>4 DEF ListTypes
<1> USE DEF ClientFrame, ServerFrame, ownerVars, serverVars, countVars, itemVars
<1>4. CASE OwnerNext
  <2>1. ASSUME NEW i \in ItemFiles, NEW bytes, Edit(i, bytes),
               bytes # NoFile => Len(bytes) <= MaxLen
        PROVE  ListTypes'
    <3>1. \A j \in Files : remote'[j] = remote[j] \/ remote'[j] = bytes
      BY <2>1 DEF Edit, IInv, Types
    <3> QED
      BY <2>1, <3>1 DEF Edit, OwnerFrame, ListTypes
  <2>2. CASE SetShared
    BY <2>2 DEF SetShared, OwnerFrame, ListTypes
  <2>3. ASSUME NEW i \in ItemFiles, Edit(i, NoFile) PROVE ListTypes'
    BY <2>1, <2>3
  <2>4. ASSUME NEW i \in ItemFiles, NEW n \in 0 .. MaxLen, Edit(i, Contents(edits + 1, n))
        PROVE  ListTypes'
    <3>1. Len(Contents(edits + 1, n)) <= MaxLen
      BY ContentsLength
    <3> QED
      BY <2>1, <2>4, <3>1
  <2> QED
    BY <1>4, <2>2, <2>3, <2>4 DEF OwnerNext
<1>5. CASE Serve \/ OpenFails \/ Select \/ Read
  BY <1>2, <1>5 DEF Serve, OpenFails, Select, Read
<1>6. CASE RejectItem \/ PassComplete \/ PassTooLarge \/ Request
  BY <1>2, <1>6 DEF RejectItem, PassComplete, PassTooLarge, Request, CheckFile
<1>7. CASE NextListed \/ FinishDirectory \/ Store
  BY <1>2, <1>7 DEF NextListed, FinishDirectory, Store
<1>8. CASE Connect \/ Refetch \/ Refresh
  <2>1. /\ UNCHANGED owned /\ UNCHANGED everything_file
        /\ served' \in {served, EverythingFile}
        /\ listing' \in {listing, served, EverythingFile}
    BY <1>8 DEF Connect, Refetch, Refresh
  <2> QED
    BY <1>3, <2>1
<1>9. CASE SetEverythingFile
  <2>1. UNCHANGED <<owned, served>> /\ everything_file' = listing'
    BY <1>9 DEF SetEverythingFile
  <2>2. listing' = served \/ (listing # None /\ listing' = listing)
    BY <1>9 DEF SetEverythingFile
  <2> QED
    BY <1>3, <2>1, <2>2
<1>10. CASE FailureNext
  <2>1. /\ UNCHANGED owned /\ UNCHANGED <<served, everything_file>>
        /\ listing' \in {listing, None}
    BY <1>10 DEF FailureNext, Drop, Crash, StorePart, Failure
  <2> QED
    BY <1>3, <2>1
<1>11. CASE UNCHANGED vars
  BY <1>2, <1>11 DEF vars
<1> QED
  BY <1>4, <1>5, <1>6, <1>7, <1>8, <1>9, <1>10, <1>11 DEF Next, DownloaderNext

LEMMA CountTypesStep == IInv /\ CountTypes /\ [Next]_vars => CountTypes'
<1> SUFFICES ASSUME IInv, CountTypes, [Next]_vars PROVE CountTypes'
  OBVIOUS
<1> DEFINE counts == <<current_downloaded_bytes, active_downloaded_current_bytes>>
<1>1. ASSUME UNCHANGED counts, UNCHANGED itemVars, UNCHANGED failures PROVE CountTypes'
  BY <1>1 DEF CountTypes, itemVars
<1> USE DEF ClientFrame, ServerFrame, ownerVars, serverVars, countVars
<1>2. CASE OwnerNext \/ Serve \/ OpenFails \/ Refresh
  <2>1. CASE OwnerNext
    BY <1>1, <2>1 DEF OwnerNext, Edit, SetShared, OwnerFrame
  <2> QED
    BY <1>1, <1>2, <2>1 DEF Serve, OpenFails, Refresh
<1>3. CASE Connect \/ SetEverythingFile \/ NextListed \/ Read \/ Refetch
  BY <1>1, <1>3 DEF Connect, SetEverythingFile, NextListed, Read, Refetch
<1>4. CASE Select \/ FinishDirectory
  BY <1>4 DEF Select, FinishDirectory, Finish, CountTypes
<1>5. CASE RejectItem \/ PassComplete \/ PassTooLarge \/ Request
  <2>1. /\ CheckFile /\ UNCHANGED <<expected, failures>>
        /\ outcome' \in {outcome, "completed", "invalid"}
        /\ reported' \in {reported, reported \cup {file}}
    BY <1>5 DEF RejectItem, PassComplete, PassTooLarge, Request, CheckFile, Finish, itemVars
  <2>2. file \in Files /\ DiskLength \in Nat
    BY <2>1, LengthOnDisk DEF CheckFile, IInv, DiskLength
  <2>3. DiskLength \in Nat /\ TotalLength \in Nat
    BY <2>2 DEF CountTypes, TotalLength
  <2> QED
    BY <2>1, <2>2, <2>3 DEF CheckFile, CountTypes
<1>6. CASE Store
  <2>1. /\ file \in Files /\ Len(message.bytes) \in Nat
    BY <1>6, MessageRead DEF Store
  <2>2. /\ current_downloaded_bytes' = current_downloaded_bytes + Len(message.bytes)
        /\ active_downloaded_current_bytes' =
             active_downloaded_current_bytes + Len(message.bytes)
        /\ UNCHANGED <<expected, failures>>
        /\ outcome' \in {outcome, "completed", "invalid"}
        /\ reported' \in {reported, reported \cup {file}}
    BY <1>6 DEF Store, Finish
  <2> QED
    BY <2>1, <2>2 DEF CountTypes
<1>7. CASE FailureNext
  <2>1. failures' \in 0 .. MaxFailures
    BY <1>7, BoundsAssumption DEF FailureNext, Drop, Crash, StorePart, Failure, CountTypes
  <2>2. UNCHANGED counts /\ UNCHANGED itemVars
    BY <1>7 DEF FailureNext, Drop, Crash, StorePart
  <2> QED
    BY <2>1, <2>2 DEF CountTypes, itemVars
<1>8. CASE UNCHANGED vars
  BY <1>1, <1>8 DEF vars
<1> QED
  BY <1>2, <1>3, <1>4, <1>5, <1>6, <1>7, <1>8 DEF Next, DownloaderNext

\* Every variable keeps its type: the lists that get_everything_file makes, the sums of
\* their sizes, the counts of bytes, and the report.
THEOREM TransferTypes == Spec => []TypeOK
<1>1. IInv /\ WholeInv /\ TypeInv => TypeOK
  BY DEF IInv, Types, WholeInv, InOrder, TypeInv, ListTypes, CountTypes, TypeOK
<1>2. IInv /\ WholeInv /\ [Next]_vars => WholeInv'
  BY ListsStep, OrderStep DEF WholeInv
<1>3. IInv /\ TypeInv /\ [Next]_vars => TypeInv'
  BY ListTypesStep, CountTypesStep DEF TypeInv
<1> QED
  BY <1>1, <1>2, <1>3, InitWhole, InitTypes, TransferInvariant, PTL DEF Spec

-----------------------------------------------------------------------------
(* What the owner has not touched is not rejected.  As long as nothing is  *)
(* edited every list is the same one, no file on disk is longer than its   *)
(* listed size, the count of a directory's bytes stays below the sum of    *)
(* the sizes gone through, and the uploader's last message is the one that *)
(* completes the file.                                                     *)

SameLists ==
  /\ shared = TRUE
  /\ \A i \in Files : remote[i] = NoFile <=> i \notin ItemFiles
  /\ served = EverythingFile /\ everything_file = EverythingFile
  /\ listing # None => listing = EverythingFile
  /\ expected = TotalSize(EverythingFile)

InBounds ==
  /\ \A i \in Files : Length(disk[i]) <= ListedSize(everything_file, i)
  /\ pc = "check" => active_downloaded_current_bytes <= SizesAdded(everything_file)[file - 1]
  /\ pc \in Transferring =>
       active_downloaded_current_bytes <= SizesAdded(everything_file)[file - 1] + DiskLength

\* What the file that is being transferred has with n bytes after those on disk: no more
\* than its size, and exactly its size after the last message.
Reaches(m, n) ==
  /\ DiskLength + n <= everything_file.size[file]
  /\ m.type = "FINISHED" <=> DiskLength + n = everything_file.size[file]

EndsAgree ==
  /\ pc \in Transferring => everything_file.size[file] # NotListed
  /\ upload # None => upload.sent < everything_file.size[file]
  /\ wire # None =>
       wire.type # "INVALID_FILE" /\ Reaches(wire, Unstored + Len(wire.bytes))
  /\ message # None => Reaches(message, Len(message.bytes))

Calm == SameLists /\ InBounds /\ EndsAgree /\ outcome # "invalid" /\ reported = {}

Untouched == edits = 0 => Calm

CalmTypes == IInv /\ WholeInv /\ TypeInv

\* The list of a single file has one size, and that is the sum.
LEMMA SingleTotal ==
  ASSUME NEW l, ListSizes(l), \A i \in Files \ {1} : l.size[i] = NotListed
  PROVE  TotalSize(l) = ListedSize(l, 1)
<1> DEFINE H == SizesAdded(l)
           T == {j \in 0 .. NumFiles : j # 0 /\ H[j] # ListedSize(l, 1)}
<1>1. /\ NumFiles \in Nat /\ NumFiles # 0 /\ 1 \in Files
      /\ H \in [0 .. NumFiles -> Nat] /\ H[0] = 0
      /\ \A j \in Files : H[j] = H[j - 1] + ListedSize(l, j)
  BY SizesAddedRun, FilesAssumption DEF Files
<1> HIDE DEF H
<1>2. T = {}
  <2>1. SUFFICES ASSUME T # {} PROVE FALSE
    OBVIOUS
  <2>2. PICK n \in T : \A m \in T : n <= m
    <3>1. T \in SUBSET Nat
      BY <1>1
    <3> HIDE DEF T
    <3> QED
      BY <2>1, <3>1, NatMin
  <2>3. n \in 0 .. NumFiles /\ n # 0 /\ H[n] # ListedSize(l, 1) /\ n \in Files
    BY <1>1, <2>2 DEF Files
  <2>4. H[n] = H[n - 1] + ListedSize(l, n)
    BY <1>1, <2>3
  <2>5. CASE n = 1
    BY <1>1, <2>3, <2>4, <2>5, ListedSizeType
  <2>6. CASE n # 1
    <3>1. n - 1 \in 0 .. NumFiles /\ n - 1 # 0 /\ n - 1 \notin T
      BY <1>1, <2>2, <2>3, <2>6
    <3>2. H[n - 1] = ListedSize(l, 1) /\ ListedSize(l, n) = 0
      BY <2>3, <2>6, <3>1 DEF ListedSize
    <3>3. H[n - 1] \in Nat
      BY <1>1, <3>1
    <3> QED
      BY <2>3, <2>4, <3>2, <3>3
  <2> QED
    BY <2>5, <2>6
<1>3. NumFiles \in 0 .. NumFiles
  BY <1>1
<1> QED
  BY <1>1, <1>2, <1>3 DEF TotalSize, H

\* The list of an item that is as its owner made it.
LEMMA CalmLists ==
  ASSUME CalmTypes, SameLists
  PROVE  /\ ListSizes(everything_file)
         /\ everything_file.item = TRUE /\ served.size = everything_file.size
         /\ expected = TotalSize(everything_file) /\ expected \in Nat
         /\ \A i \in Files : /\ remote[i] # NoFile =>
                                  everything_file.size[i] = Len(remote[i])
                             /\ everything_file.size[i] = NotListed => remote[i] = NoFile
         /\ ~ is_directory => \A i \in Files \ {1} : everything_file.size[i] = NotListed
<1>1. ListSizes(everything_file)
  BY DEF CalmTypes, WholeInv, ListsKnown, Sizes, ListSizes
<1>2. everything_file.item = TRUE
  <2>1. 1 \in Files /\ 1 \in ItemFiles
    BY FilesAssumption DEF Files, ItemFiles
  <2> QED
    BY <2>1 DEF SameLists, EverythingFile
<1>3. \A i \in Files : remote[i] # NoFile => Len(remote[i]) \in Nat
  BY DEF CalmTypes, IInv, Types, Bytes
<1>4. \A i \in Files : /\ remote[i] # NoFile => everything_file.size[i] = Len(remote[i])
                       /\ everything_file.size[i] = NotListed => remote[i] = NoFile
  BY <1>3 DEF SameLists, EverythingFile, NotListed
<1>5. ~ is_directory => \A i \in Files \ {1} : everything_file.size[i] = NotListed
  BY DEF CalmTypes, WholeInv, ListsKnown, Sizes
<1> QED
  BY <1>1, <1>2, <1>4, <1>5 DEF SameLists, CalmTypes, TypeInv, CountTypes

\* The comparisons of download_shared_file, on such an item: the file on disk is no longer
\* than it should be, and the directory neither.
LEMMA CalmSizes ==
  ASSUME CalmTypes, Calm, NEW f \in Files, file = f, everything_file.size[f] # NotListed
  PROVE  /\ TargetSize = everything_file.size[f] /\ TargetSize \in Nat
         /\ DiskLength \in Nat /\ DiskLength <= TargetSize
         /\ \A a \in Nat : a <= SizesAdded(everything_file)[f - 1] =>
              a + DiskLength <= expected
         /\ SizesAdded(everything_file)[f - 1] \in Nat
         /\ SizesAdded(everything_file)[f] =
              SizesAdded(everything_file)[f - 1] + everything_file.size[f]
         /\ ~ is_directory => expected = everything_file.size[f]
<1> DEFINE H == SizesAdded(everything_file)
<1>1. /\ ListSizes(everything_file) /\ expected = TotalSize(everything_file)
      /\ ~ is_directory => \A i \in Files \ {1} : everything_file.size[i] = NotListed
  BY CalmLists DEF Calm
<1>2. /\ ListedSize(everything_file, f) = everything_file.size[f]
      /\ everything_file.size[f] \in Nat
  BY <1>1 DEF ListedSize, ListSizes
<1>3. /\ H \in [0 .. NumFiles -> Nat] /\ H[f] = H[f - 1] + everything_file.size[f]
  BY <1>1, <1>2, SizesAddedRun
<1>4. f \in 0 .. NumFiles /\ f - 1 \in 0 .. NumFiles
  BY FilesAssumption DEF Files
<1>5. H[f] <= expected /\ H[f] \in Nat /\ H[f - 1] \in Nat /\ expected \in Nat
  <2>1. H[f] <= TotalSize(everything_file)
    BY <1>1, <1>4, PartsOfTotal
  <2> QED
    BY <1>1, <1>3, <1>4, <2>1, CalmLists DEF Calm
<1>6. ~ is_directory => expected = everything_file.size[f]
  <2> SUFFICES ASSUME ~ is_directory PROVE expected = everything_file.size[f]
    OBVIOUS
  <2>1. f = 1
    BY <1>1
  <2> QED
    BY <1>1, <1>2, <2>1, SingleTotal
<1>7. TargetSize = everything_file.size[f]
  BY <1>6 DEF TargetSize
<1>8. DiskLength \in Nat /\ DiskLength <= everything_file.size[f]
  <2>1. DiskLength \in Nat
    BY LengthOnDisk DEF CalmTypes, IInv, DiskLength
  <2> QED
    BY <1>2, <2>1 DEF Calm, InBounds, DiskLength
<1>9. \A a \in Nat : a <= H[f - 1] => a + DiskLength <= expected
  <2> HIDE DEF H
  <2> QED
    BY <1>2, <1>3, <1>5, <1>8
<1> QED
  BY <1>2, <1>3, <1>5, <1>6, <1>7, <1>8, <1>9

\* The lists stay the same while the owner does nothing.
LEMMA KeptLists ==
  ASSUME SameLists, UNCHANGED <<ownerVars, expected>>,
         served' \in {served, EverythingFile},
         listing' \in {listing, None, served, EverythingFile},
         \/ everything_file' = everything_file
         \/ everything_file' = served
         \/ listing # None /\ everything_file' = listing
  PROVE  SameLists' /\ everything_file' = everything_file
<1>1. EverythingFile' = EverythingFile /\ ItemFiles' = ItemFiles
  BY DEF EverythingFile, ItemFiles, ownerVars
<1>2. TotalSize(EverythingFile)' = TotalSize(EverythingFile)
  BY <1>1 DEF TotalSize, SizesAdded
<1> QED
  BY <1>1, <1>2 DEF SameLists, ownerVars

\* Nothing is under way.
LEMMA CalmAtRest ==
  ASSUME SameLists', everything_file' = everything_file,
         upload' = None, wire' = None, message' = None, pc' \notin Transferring,
         \A i \in Files : Length(disk'[i]) <= ListedSize(everything_file, i),
         pc' = "check" =>
           active_downloaded_current_bytes' <= SizesAdded(everything_file)[file' - 1],
         outcome' # "invalid", reported' = {}
  PROVE  Calm'
<1>1. SizesAdded(everything_file)' = SizesAdded(everything_file)
  BY DEF SizesAdded
<1>2. InBounds'
  BY <1>1 DEF InBounds, Length, ListedSize
<1>3. EndsAgree'
  BY DEF EndsAgree
<1> QED
  BY <1>2, <1>3 DEF Calm

\* Nothing that Calm looks at but the lists has changed.
LEMMA CalmQuiet ==
  ASSUME Calm, SameLists', everything_file' = everything_file,
         UNCHANGED <<upload, wire, message, pc, disk, file, active_downloaded_current_bytes,
                     outcome, reported>>
  PROVE  Calm'
BY DEF Calm, InBounds, EndsAgree, Reaches, Unstored, DiskLength, Length, ListedSize, SizesAdded

\* The steps between two files, and those that end a connection.
LEMMA CalmBetween ==
  ASSUME CalmTypes, Calm, UNCHANGED edits,
         \/ OpenFails \/ Drop \/ Crash \/ Refetch \/ Connect \/ SetEverythingFile
         \/ Select \/ NextListed \/ FinishDirectory
  PROVE  Calm'
<1> USE DEF ClientFrame, ownerVars, serverVars, countVars, itemVars
<1>1. /\ UNCHANGED <<is_directory, remote, shared, edits, expected, disk, reported>>
      /\ served' \in {served, EverythingFile}
      /\ listing' \in {listing, None, served, EverythingFile}
      /\ \/ everything_file' = everything_file
         \/ everything_file' = served
         \/ listing # None /\ everything_file' = listing
  BY DEF OpenFails, Drop, Crash, Refetch, Connect, SetEverythingFile, Select, NextListed,
         FinishDirectory, Failure, Finish
<1>2. SameLists' /\ everything_file' = everything_file
  BY <1>1, KeptLists DEF Calm
<1>3. pc' \notin Transferring /\ upload' = None /\ wire' = None /\ message' = None
  <2>1. pc' \notin Transferring
    BY DEF OpenFails, Drop, Crash, Refetch, Connect, SetEverythingFile, Select, NextListed,
           FinishDirectory, Finish, Skip, Transferring
  <2>2. CASE OpenFails \/ Drop \/ Crash \/ Refetch
    BY <2>1, <2>2 DEF OpenFails, Drop, Crash, Refetch, Disconnect
  <2>3. CASE Connect \/ SetEverythingFile \/ Select \/ NextListed \/ FinishDirectory
    <3>1. pc \notin Transferring /\ UNCHANGED <<upload, wire, message>>
      BY <2>3 DEF Connect, SetEverythingFile, Select, NextListed, FinishDirectory, Transferring
    <3> QED
      BY <2>1, <3>1, NothingUnderWay DEF CalmTypes
  <2> QED
    BY <2>2, <2>3
<1>4. outcome' # "invalid" /\ reported' = {}
  <2>1. everything_file.item
    BY CalmLists DEF Calm
  <2> QED
    BY <1>1, <2>1 DEF OpenFails, Drop, Crash, Refetch, Connect, SetEverythingFile, Select,
                      NextListed, FinishDirectory, Finish, Calm
<1>5. pc' = "check" =>
        active_downloaded_current_bytes' <= SizesAdded(everything_file)[file' - 1]
  <2> DEFINE H == SizesAdded(everything_file)
  <2>1. /\ H \in [0 .. NumFiles -> Nat] /\ H[0] = 0
        /\ \A i \in Files : H[i] = H[i - 1] + ListedSize(everything_file, i)
    BY CalmLists, SizesAddedRun DEF Calm
  <2> HIDE DEF H
  <2>2. CASE Select /\ pc' = "check"
    <3>1. file' = 1 /\ active_downloaded_current_bytes' = 0
      BY <2>2 DEF Select, Finish
    <3> QED
      BY <2>1, <3>1 DEF H
  <2>3. CASE NextListed
    <3>1. /\ pc = "check" /\ file \in Files /\ file' = file + 1
          /\ everything_file.size[file] = NotListed
          /\ UNCHANGED active_downloaded_current_bytes
      BY <2>3 DEF NextListed, Skip
    <3>2. H[file] = H[file - 1] + 0 /\ file - 1 \in 0 .. NumFiles /\ file' - 1 = file
      BY <2>1, <3>1, FilesAssumption DEF ListedSize, Files
    <3>3. H[file] = H[file - 1]
      BY <2>1, <3>2
    <3> QED
      BY <3>1, <3>2, <3>3 DEF Calm, InBounds, H
  <2>4. CASE pc' = "check" /\ ~ Select /\ ~ NextListed
    BY <2>4 DEF OpenFails, Drop, Crash, Refetch, Connect, SetEverythingFile, FinishDirectory,
                Finish
  <2> QED
    BY <2>2, <2>3, <2>4
<1>6. \A i \in Files : Length(disk'[i]) <= ListedSize(everything_file, i)
  BY <1>1 DEF Calm, InBounds
<1> QED
  BY <1>2, <1>3, <1>4, <1>5, <1>6, CalmAtRest

\* RejectItem and PassTooLarge are impossible, and the file counts with its size.
LEMMA CalmCheck ==
  ASSUME CalmTypes, Calm, RejectItem \/ PassComplete \/ PassTooLarge \/ Request
  PROVE  Calm'
<1> DEFINE H == SizesAdded(everything_file)
<1> PICK f \in Files : f = file
  BY DEF RejectItem, PassComplete, PassTooLarge, Request, CheckFile
<1>1. /\ CheckFile /\ pc = "check" /\ everything_file.size[f] # NotListed
      /\ UNCHANGED <<ownerVars, served, listing, everything_file>>
      /\ active_downloaded_current_bytes' = TotalLength
      /\ upload = None /\ wire = None /\ message = None
  BY NothingUnderWay
     DEF RejectItem, PassComplete, PassTooLarge, Request, CheckFile, ClientFrame, Transferring,
         CalmTypes
<1>2. /\ TargetSize = everything_file.size[f] /\ TargetSize \in Nat
      /\ DiskLength \in Nat /\ DiskLength <= TargetSize
      /\ \A a \in Nat : a <= H[f - 1] => a + DiskLength <= expected
      /\ H[f - 1] \in Nat /\ H[f] = H[f - 1] + everything_file.size[f]
      /\ ~ is_directory => expected = everything_file.size[f]
  BY <1>1, CalmSizes
<1> HIDE DEF H
<1>3. active_downloaded_current_bytes \in Nat /\ active_downloaded_current_bytes <= H[f - 1]
  BY <1>1 DEF Calm, InBounds, CalmTypes, TypeInv, CountTypes, H
<1>4. TotalLength <= expected /\ TotalLength <= H[f] /\ TotalLength = active_downloaded_current_bytes + DiskLength
  BY <1>2, <1>3 DEF TotalLength
<1>5. ~ Rejected
  <2>1. expected \in Nat /\ TotalLength \in Nat
    BY <1>2, <1>3, <1>4 DEF CalmTypes, TypeInv, CountTypes
  <2> QED
    BY <1>2, <1>4, <2>1 DEF Rejected
<1>6. CASE PassComplete
  <2>1. /\ disk' = [disk EXCEPT ![f] = IF @ = NoFile THEN <<>> ELSE @]
        /\ UNCHANGED <<upload, wire, message, reported, expected>>
        /\ \/ pc' = "check" /\ file' = f + 1 /\ outcome' = outcome
           \/ pc' = "done" /\ outcome' = "completed"
    BY <1>6 DEF PassComplete, Skip, Finish
  <2>2. SameLists' /\ everything_file' = everything_file
    BY <1>1, <2>1, KeptLists DEF Calm
  <2>3. ASSUME NEW i \in Files PROVE Length(disk'[i]) <= ListedSize(everything_file, i)
    <3>1. disk'[i] = disk[i] \/ (disk[i] = NoFile /\ disk'[i] = <<>>)
      BY <2>1 DEF CalmTypes, IInv, Types
    <3>2. Length(disk'[i]) = Length(disk[i])
      BY <3>1 DEF Length
    <3> QED
      BY <3>2 DEF Calm, InBounds
  <2>4. pc' = "check" => active_downloaded_current_bytes' <= H[file' - 1]
    <3>1. pc' = "check" => file' = f + 1
      BY <2>1
    <3>2. pc' = "check" => file' - 1 = f
      BY <3>1, FilesAssumption DEF Files
    <3> QED
      BY <1>1, <1>4, <3>2
  <2>5. pc' \notin Transferring /\ outcome' # "invalid" /\ reported' = {}
    BY <2>1 DEF Transferring, Calm
  <2> QED
    BY <1>1, <2>1, <2>2, <2>3, <2>4, <2>5, CalmAtRest DEF H
<1>7. CASE Request
  <2>1. /\ pc' = "first" /\ UNCHANGED <<file, message, disk, expected, outcome, reported>>
        /\ DiskLength < TargetSize
        /\ served.size[f] # NotListed =>
             upload' = [file |-> f, sent |-> DiskLength] /\ wire' = wire
    BY <1>7 DEF Request, itemVars
  <2>2. served.size[f] # NotListed
    BY <1>1, CalmLists DEF Calm
  <2>3. SameLists' /\ everything_file' = everything_file
    BY <1>1, <2>1, KeptLists DEF Calm
  <2>4. InBounds'
    <3>1. H' = H /\ DiskLength' = DiskLength
      BY <2>1, <2>3 DEF H, SizesAdded, DiskLength
    <3>2. active_downloaded_current_bytes' <= H[f - 1] + DiskLength
      BY <1>1, <1>2, <1>3, <1>4
    <3>3. pc' # "check" /\ file' = f
      BY <2>1
    <3>4. \A i \in Files : Length(disk'[i]) <= ListedSize(everything_file', i)
      BY <2>1, <2>3 DEF Calm, InBounds
    <3> QED
      BY <3>1, <3>2, <3>3, <3>4 DEF InBounds, H
  <2>5. EndsAgree'
    BY <1>1, <1>2, <2>1, <2>2, <2>3 DEF EndsAgree
  <2> QED
    BY <2>1, <2>3, <2>4, <2>5 DEF Calm
<1>8. CASE RejectItem
  BY <1>5, <1>8 DEF RejectItem
<1>9. CASE PassTooLarge
  BY <1>2, <1>9 DEF PassTooLarge
<1> QED
  BY <1>6, <1>7, <1>8, <1>9

\* The uploader says FINISHED with the last byte of the listed size.
LEMMA CalmServe ==
  ASSUME CalmTypes, Calm, Serve
  PROVE  Calm'
<1> PICK f \in Files : f = file
  BY DEF Serve, CalmTypes, IInv, Stage
<1> DEFINE sender == remote[f]
           size == everything_file.size[f]
<1>1. /\ upload # None /\ wire = None /\ upload.file = f /\ upload.sent \in Nat
      /\ sender \in Bytes /\ sender # NoFile /\ pc \in Transferring
      /\ upload \in [file: Files, sent: Nat]
  BY DEF CalmTypes, IInv, Types, Stage, Serve
<1>2. /\ UNCHANGED <<ownerVars, served, pc, listing, everything_file, countVars, disk, itemVars>>
  BY DEF Serve, ServerFrame
<1>3. size = Len(sender) /\ size \in Nat /\ served.size[f] = size /\ upload.sent < size
  <2>1. size = Len(sender) /\ served.size[f] = size
    BY <1>1, CalmLists DEF Calm
  <2> QED
    BY <1>1, <2>1 DEF Calm, EndsAgree, Bytes
<1> HIDE DEF size
<1>4. PICK n \in 0 .. MAX_DATA_SIZE :
        LET rest == Len(sender) - upload.sent
            sent == upload.sent + n
            last == sent >= served.size[f] \/ n = 0
        IN /\ IF rest <= 0 THEN n = 0 ELSE n \in 1 .. rest
           /\ wire' = [type |-> IF last THEN "FINISHED" ELSE "CHUNK",
                       bytes |-> SubSeq(sender, upload.sent + 1, sent)]
           /\ upload' = IF last THEN None ELSE [upload EXCEPT !.sent = sent]
  BY <1>1 DEF Serve
<1>5. n \in Nat /\ n # 0 /\ upload.sent + n <= size
  BY <1>1, <1>3, <1>4, SizesAssumption
<1> DEFINE last == upload.sent + n >= size
<1>6. /\ wire' = [type |-> IF last THEN "FINISHED" ELSE "CHUNK",
                  bytes |-> SubSeq(sender, upload.sent + 1, upload.sent + n)]
      /\ upload' = IF last THEN None ELSE [upload EXCEPT !.sent = upload.sent + n]
  BY <1>3, <1>4, <1>5
<1>7. Len(SubSeq(sender, upload.sent + 1, upload.sent + n)) = n
  <2>1. PlacedAfter(sender, 0)
    BY <1>1 DEF CalmTypes, IInv, RemoteInPlace
  <2> QED
    BY <1>1, <1>3, <1>5, <2>1, PieceInPlace
<1>8. /\ wire'.type = "FINISHED" <=> upload.sent + n = size
      /\ wire'.type # "INVALID_FILE"
      /\ Len(wire'.bytes) = n
      /\ upload' # None => upload'.sent < size
  <2>1. upload.sent + n \in Nat
    BY <1>1, <1>5
  <2>2. last <=> upload.sent + n = size
    BY <1>3, <1>5, <2>1
  <2>3. ~ last => upload'.sent = upload.sent + n
    <3>1. [upload EXCEPT !.sent = upload.sent + n] = [file |-> upload.file, sent |-> upload.sent + n]
      BY <1>1, <2>1, SentMore
    <3> QED
      BY <1>6, <3>1
  <2>4. wire'.type = IF last THEN "FINISHED" ELSE "CHUNK"
    BY <1>6
  <2>5. Len(wire'.bytes) = n
    BY <1>6, <1>7
  <2>6. upload' # None => ~ last
    BY <1>6
  <2>7. upload.sent + n >= size \/ upload.sent + n < size
    BY <1>3, <2>1
  <2>8. upload' # None => upload'.sent < size
    BY <2>3, <2>6, <2>7
  <2> HIDE DEF last
  <2> QED
    BY <2>2, <2>4, <2>5, <2>8
<1>9. DiskLength + (Unstored + n) = upload.sent + n /\ Unstored \in Nat /\ DiskLength \in Nat
  <2>1. DiskLength \in Nat
    BY LengthOnDisk DEF CalmTypes, IInv, DiskLength
  <2>2. message # None => message.bytes \in Bytes
    BY DEF CalmTypes, IInv, Types, Stage, Messages
  <2>3. Unstored \in Nat
    BY <2>2 DEF Unstored, Bytes
  <2>4. upload.sent = DiskLength + Unstored
    BY <1>1, <2>1, <2>3 DEF CalmTypes, IInv, OffsetsAgree, Unstored
  <2> QED
    BY <1>5, <2>1, <2>3, <2>4
<1>10. SameLists' /\ everything_file' = everything_file
  BY <1>2, KeptLists DEF Calm, itemVars
<1>11. InBounds'
  BY <1>2, <1>10 DEF Calm, InBounds, DiskLength, countVars, SizesAdded, ListedSize
<1>12. EndsAgree'
  <2>1. /\ Unstored' = Unstored /\ DiskLength' = DiskLength /\ file' = f /\ message' = message
        /\ everything_file'.size[file'] = size
    BY <1>2, <1>10 DEF Unstored, DiskLength, countVars, size
  <2>2. Reaches(wire, Unstored + Len(wire.bytes))'
    BY <1>5, <1>8, <1>9, <2>1 DEF Reaches
  <2>3. message' # None => Reaches(message, Len(message.bytes))'
    BY <1>10, <2>1 DEF Calm, EndsAgree, Reaches
  <2>4. pc' \in Transferring => everything_file'.size[file'] # NotListed
    BY <1>2, <1>10, <2>1 DEF Calm, EndsAgree
  <2> QED
    BY <1>8, <2>1, <2>2, <2>3, <2>4 DEF EndsAgree
<1> QED
  BY <1>2, <1>10, <1>11, <1>12 DEF Calm, itemVars

LEMMA CalmRead ==
  ASSUME CalmTypes, Calm, Read
  PROVE  Calm'
<1>1. /\ pc \in Transferring /\ wire # None /\ wire' = None /\ message = None
      /\ wire.type # "INVALID_FILE"
      /\ UNCHANGED <<ownerVars, served, everything_file, file, active_downloaded_current_bytes,
                     disk, itemVars>>
  BY DEF Read, ClientFrame, CalmTypes, IInv, Stage, Transferring, Calm, EndsAgree
<1>2. message' = wire /\ pc' = "store" /\ UNCHANGED <<upload, listing>>
  BY <1>1 DEF Read
<1>3. SameLists' /\ everything_file' = everything_file
  BY <1>1, <1>2, KeptLists DEF Calm, itemVars
<1>4. InBounds'
  BY <1>1, <1>2, <1>3 DEF Calm, InBounds, DiskLength, SizesAdded, ListedSize, Transferring
<1>5. EndsAgree'
  <2>1. Reaches(wire, Unstored + Len(wire.bytes)) /\ Unstored = 0
    BY <1>1 DEF Calm, EndsAgree, Unstored
  <2>2. Len(wire.bytes) \in Nat
    BY <1>1 DEF CalmTypes, IInv, Types, Messages, Bytes
  <2>3. Reaches(wire, Len(wire.bytes))
    BY <2>1, <2>2
  <2>4. Reaches(message, Len(message.bytes))'
    BY <1>1, <1>2, <2>3 DEF Reaches, DiskLength
  <2> QED
    BY <1>1, <1>2, <1>3, <2>4 DEF Calm, EndsAgree, Transferring
<1> QED
  BY <1>1, <1>3, <1>4, <1>5 DEF Calm, itemVars

\* Both ends agree that the file is complete, or that it is not.
LEMMA CalmStore ==
  ASSUME CalmTypes, Calm, Store
  PROVE  Calm'
<1> DEFINE H == SizesAdded(everything_file)
<1> PICK f \in Files : f = file
  BY MessageRead DEF Store, CalmTypes
<1>1. /\ pc = "store" /\ pc \in Transferring
      /\ UNCHANGED <<ownerVars, served, listing, everything_file, expected>>
      /\ disk' = [disk EXCEPT ![f] = Stored(message.bytes)]
      /\ current_downloaded_bytes' = current_downloaded_bytes + Len(message.bytes)
      /\ active_downloaded_current_bytes' =
           active_downloaded_current_bytes + Len(message.bytes)
  BY DEF Store, ClientFrame, Transferring, Finish
<1>2. /\ message # None /\ message.type \in {"CHUNK", "FINISHED"}
      /\ message.bytes \in Bytes /\ PlacedAfter(message.bytes, DiskLength)
      /\ DiskLength \in Nat /\ Len(message.bytes) \in Nat
  BY <1>1, MessageRead DEF CalmTypes
<1>3. /\ disk' \in [Files -> Bytes \cup {NoFile}]
      /\ Length(disk'[f]) = DiskLength + Len(message.bytes)
  BY <1>1, <1>2, Written DEF CalmTypes
<1>4. everything_file.size[f] # NotListed
  BY <1>1 DEF Calm, EndsAgree
<1>5. /\ TargetSize = everything_file.size[f] /\ TargetSize \in Nat
      /\ H[f - 1] \in Nat /\ H[f] = H[f - 1] + everything_file.size[f]
  BY <1>4, CalmSizes
<1> HIDE DEF H
<1>6. /\ DiskLength + Len(message.bytes) <= TargetSize
      /\ message.type = "FINISHED" <=> DiskLength + Len(message.bytes) = TargetSize
  BY <1>2, <1>5 DEF Calm, EndsAgree, Reaches
<1>7. current_downloaded_bytes' = DiskLength + Len(message.bytes)
  BY <1>1 DEF CalmTypes, IInv, OffsetsAgree
<1>8. SameLists' /\ everything_file' = everything_file
  BY <1>1, KeptLists DEF Calm
<1>9. ASSUME NEW i \in Files PROVE Length(disk'[i]) <= ListedSize(everything_file, i)
  <2>1. CASE i = f
    BY <1>3, <1>4, <1>5, <1>6, <2>1 DEF ListedSize
  <2>2. CASE i # f
    <3>1. disk'[i] = disk[i]
      BY <1>1, <2>2 DEF CalmTypes, IInv, Types
    <3> QED
      BY <3>1 DEF Calm, InBounds
  <2> QED
    BY <2>1, <2>2
<1>10. /\ active_downloaded_current_bytes \in Nat
       /\ active_downloaded_current_bytes' <= H[f - 1] + (DiskLength + Len(message.bytes))
  <2>1. active_downloaded_current_bytes <= H[f - 1] + DiskLength
    BY <1>1 DEF Calm, InBounds, H
  <2>2. active_downloaded_current_bytes \in Nat
    BY DEF CalmTypes, TypeInv, CountTypes
  <2> QED
    BY <1>1, <1>2, <1>5, <2>1, <2>2
<1>11. CASE message.type = "FINISHED"
  <2>1. current_downloaded_bytes' = TargetSize
    BY <1>6, <1>7, <1>11
  <2>2. /\ message' = None /\ UNCHANGED <<upload, wire, reported>>
        /\ \/ pc' = "check" /\ file' = f + 1 /\ outcome' = outcome
           \/ pc' = "done" /\ outcome' = "completed"
    BY <1>11, <2>1 DEF Store, Skip, Finish
  <2>3. upload = None /\ wire = None
    BY <1>2, <1>11 DEF CalmTypes, IInv, Stage
  <2>4. pc' = "check" => active_downloaded_current_bytes' <= H[file' - 1]
    <3>1. pc' = "check" => file' = f + 1
      BY <2>2
    <3>3. pc' = "check" => file' - 1 = f
      BY <3>1, FilesAssumption DEF Files
    <3>2. active_downloaded_current_bytes' <= H[f]
      BY <1>5, <1>6, <1>10, <1>11
    <3> QED
      BY <3>2, <3>3
  <2>5. pc' \notin Transferring /\ outcome' # "invalid" /\ reported' = {}
    BY <2>2 DEF Transferring, Calm
  <2> QED
    BY <1>8, <1>9, <2>2, <2>3, <2>4, <2>5, CalmAtRest DEF H
<1>12. CASE message.type # "FINISHED"
  <2>1. current_downloaded_bytes' # TargetSize
    BY <1>6, <1>7, <1>12
  <2>2. message' = None /\ pc' = "read" /\ UNCHANGED <<upload, wire, file, outcome, reported>>
    BY <1>12, <2>1 DEF Store
  <2>3. DiskLength' = DiskLength + Len(message.bytes) /\ H' = H /\ file' = f
    BY <1>3, <1>8, <2>2 DEF DiskLength, H, SizesAdded
  <2>4. InBounds'
    <3>1. \A i \in Files : Length(disk'[i]) <= ListedSize(everything_file', i)
      BY <1>8, <1>9
    <3>2. active_downloaded_current_bytes' <= SizesAdded(everything_file)'[file' - 1] + DiskLength'
      BY <1>10, <2>3 DEF H
    <3> QED
      BY <2>2, <3>1, <3>2 DEF InBounds
  <2>5. EndsAgree'
    <3>1. Unstored = Len(message.bytes) /\ Unstored' = 0
      BY <1>2, <2>2 DEF Unstored
    <3>2. ASSUME wire' # None
          PROVE  wire'.type # "INVALID_FILE" /\ Reaches(wire, Unstored + Len(wire.bytes))'
      <4>1. wire # None /\ wire' = wire
        BY <2>2, <3>2
      <4>2. wire.type # "INVALID_FILE" /\ Reaches(wire, Len(message.bytes) + Len(wire.bytes))
        BY <3>1, <4>1 DEF Calm, EndsAgree
      <4>3. Len(wire.bytes) \in Nat
        BY <4>1, <4>2 DEF CalmTypes, IInv, Types, Messages, Bytes
      <4>4. DiskLength' + (Unstored' + Len(wire'.bytes))
              = DiskLength + (Len(message.bytes) + Len(wire.bytes))
        <5>1. DiskLength \in Nat /\ Len(message.bytes) \in Nat
          BY <1>2
        <5>2. Unstored' + Len(wire'.bytes) = Len(wire.bytes)
          BY <3>1, <4>1, <4>3
        <5>3. DiskLength' = DiskLength + Len(message.bytes)
          BY <2>3
        <5>4. (DiskLength + Len(message.bytes)) + Len(wire.bytes)
                = DiskLength + (Len(message.bytes) + Len(wire.bytes))
          <6>1. \A a, b, c \in Nat : (a + b) + c = a + (b + c)
            OBVIOUS
          <6> QED
            BY <4>3, <5>1, <6>1, Zenon
        <5> QED
          BY <5>2, <5>3, <5>4, Zenon
      <4> QED
        BY <1>8, <2>3, <4>1, <4>2, <4>4 DEF Reaches
    <3> QED
      BY <1>1, <1>8, <2>2, <2>3, <3>2 DEF Calm, EndsAgree, Transferring
  <2> QED
    BY <1>8, <2>2, <2>4, <2>5 DEF Calm
<1> QED
  BY <1>11, <1>12

LEMMA CalmStorePart ==
  ASSUME CalmTypes, Calm, StorePart
  PROVE  Calm'
<1> PICK f \in Files : f = file
  BY MessageRead DEF StorePart, CalmTypes
<1>1. /\ pc = "store" /\ pc' = "offline" /\ Disconnect
      /\ UNCHANGED <<ownerVars, served, everything_file, itemVars>>
      /\ listing' \in {listing, None}
  BY DEF StorePart, Failure
<1>2. PICK n \in 0 .. Len(message.bytes) - 1 :
        disk' = [disk EXCEPT ![f] = Stored(SubSeq(message.bytes, 1, n))]
  BY DEF StorePart
<1> DEFINE part == SubSeq(message.bytes, 1, n)
<1>3. /\ message # None /\ message.bytes \in Bytes /\ PlacedAfter(message.bytes, DiskLength)
      /\ DiskLength \in Nat /\ Len(message.bytes) \in Nat /\ n \in 0 .. Len(message.bytes)
  BY <1>1, MessageRead DEF CalmTypes
<1>4. part \in Bytes /\ PlacedAfter(part, DiskLength) /\ Len(part) = n
  BY <1>3, PrefixInPlace
<1> HIDE DEF part
<1>5. Length(disk'[f]) = DiskLength + n
  BY <1>2, <1>4, Written DEF CalmTypes, part
<1>6. SameLists' /\ everything_file' = everything_file
  BY <1>1, KeptLists DEF Calm, itemVars
<1>7. ASSUME NEW i \in Files PROVE Length(disk'[i]) <= ListedSize(everything_file, i)
  <2>1. CASE i = f
    <3>1. /\ everything_file.size[f] # NotListed
          /\ DiskLength + Len(message.bytes) <= everything_file.size[f]
      BY <1>1, <1>3 DEF Calm, EndsAgree, Reaches, Transferring
    <3>2. everything_file.size[f] \in Nat
      BY <3>1, CalmSizes
    <3> QED
      BY <1>3, <1>5, <2>1, <3>1, <3>2 DEF ListedSize
  <2>2. CASE i # f
    <3>1. disk'[i] = disk[i]
      BY <1>2, <2>2 DEF CalmTypes, IInv, Types
    <3> QED
      BY <3>1 DEF Calm, InBounds
  <2> QED
    BY <2>1, <2>2
<1>8. outcome' # "invalid" /\ reported' = {}
  BY <1>1 DEF Calm, itemVars
<1> QED
  BY <1>1, <1>6, <1>7, <1>8, CalmAtRest DEF Disconnect, Transferring

LEMMA InitUntouched == Init => Untouched
<1> SUFFICES ASSUME Init PROVE Calm
  BY DEF Untouched
<1>1. IInv /\ WholeInv
  BY InitInv, InitWhole
<1>2. SameLists
  BY DEF Init, SameLists
<1>3. ASSUME NEW i \in Files PROVE Length(disk[i]) <= ListedSize(everything_file, i)
  <2>1. Length(disk[i]) = 0
    BY DEF Init, Length
  <2>2. ListedSize(everything_file, i) \in Nat
    BY <1>1, ListedSizeType DEF WholeInv, ListsKnown, Sizes, ListSizes
  <2> QED
    BY <2>1, <2>2
<1>4. InBounds /\ EndsAgree
  BY <1>3 DEF Init, InBounds, EndsAgree, Transferring
<1> QED
  BY <1>2, <1>4, ValuesAssumption DEF Init, Calm

LEMMA UntouchedStep == CalmTypes /\ Untouched /\ [Next]_vars => Untouched'
<1> SUFFICES ASSUME CalmTypes, Untouched, [Next]_vars, edits' = 0 PROVE Calm'
  BY DEF Untouched
<1>1. ~ OwnerNext /\ edits' = edits
  <2>1. edits \in Nat
    BY BoundsAssumption DEF CalmTypes, IInv, Types
  <2>2. ~ OwnerNext
    BY <2>1 DEF OwnerNext, Edit, SetShared
  <2> QED
    BY <2>2 DEF Next, Serve, ServerFrame, OpenFails, DownloaderNext, FailureNext, Refresh, Connect,
       SetEverythingFile, Select, RejectItem, PassComplete, PassTooLarge, Request, NextListed,
       FinishDirectory, Read, Refetch, Store, Drop, Crash, StorePart, CheckFile, Failure,
       ClientFrame, ownerVars, vars
<1>2. Calm
  BY <1>1 DEF Untouched
<1>3. CASE Refresh \/ UNCHANGED vars
  <2>1. /\ UNCHANGED <<ownerVars, served, everything_file, upload, wire, message, pc, disk, file,
                       active_downloaded_current_bytes, expected, outcome, reported>>
        /\ listing' \in {listing, EverythingFile}
    BY <1>3 DEF Refresh, ClientFrame, vars, serverVars, countVars, itemVars
  <2>2. SameLists' /\ everything_file' = everything_file
    BY <1>2, <2>1, KeptLists DEF Calm
  <2> QED
    BY <1>2, <2>1, <2>2, CalmQuiet
<1>4. CASE OpenFails \/ Drop \/ Crash \/ Refetch \/ Connect \/ SetEverythingFile
           \/ Select \/ NextListed \/ FinishDirectory
  BY <1>1, <1>2, <1>4, CalmBetween
<1>5. CASE RejectItem \/ PassComplete \/ PassTooLarge \/ Request
  BY <1>2, <1>5, CalmCheck
<1>6. CASE Serve \/ Read \/ Store \/ StorePart
  BY <1>2, <1>6, CalmServe, CalmRead, CalmStore, CalmStorePart
<1> QED
  BY <1>1, <1>3, <1>4, <1>5, <1>6 DEF Next, DownloaderNext, FailureNext

\* An item that its owner has not touched is never rejected, nor any of its files: dropped
\* connections, restarts, short reads and partial writes alone never make the sizes that
\* download_shared_file compares disagree.
THEOREM UntouchedIsNotRejected == Spec => []RejectedOnlyIfChanged
<1>1. Untouched => RejectedOnlyIfChanged
  BY DEF Untouched, Calm, RejectedOnlyIfChanged
<1>2. IInv /\ WholeInv /\ [Next]_vars => WholeInv'
  BY ListsStep, OrderStep DEF WholeInv
<1>3. IInv /\ TypeInv /\ [Next]_vars => TypeInv'
  BY ListTypesStep, CountTypesStep DEF TypeInv
<1>4. IInv /\ WholeInv /\ TypeInv /\ Untouched /\ [Next]_vars => Untouched'
  BY UntouchedStep DEF CalmTypes
<1> QED
  BY <1>1, <1>2, <1>3, <1>4, InitWhole, InitTypes, InitUntouched, TransferInvariant, PTL DEF Spec

-----------------------------------------------------------------------------
(* The refinement.                                                         *)

LEMMA InitRefines == Init => Abstract!Init
BY DEF Init, Abstract!Init, Attempt, BytesOnDisk, Abstract!Absent

\* A step that leaves the disk and the report alone, and the attempt's state as it is.
LEMMA Stutters ==
  ASSUME UNCHANGED <<disk, outcome>>, Attempt' = Attempt
  PROVE  UNCHANGED Abstract!vars
BY DEF Abstract!vars, BytesOnDisk

\* A write to one file, at its end, is what Extend allows.
LEMMA WriteExtends ==
  ASSUME Types, NEW i \in Files, NEW bytes \in Bytes,
         disk' = [disk EXCEPT ![i] = bytes],
         Len(bytes) >= Length(disk[i])
  PROVE  Abstract!Extend
<1>1. bytes # NoFile /\ Len(bytes) \in Nat
  BY ValuesAssumption DEF Bytes
<1>2. BytesOnDisk' = [BytesOnDisk EXCEPT ![i] = Len(bytes)]
  BY <1>1 DEF BytesOnDisk, Types
<1>3. BytesOnDisk'[i] = Len(bytes)
  BY <1>2 DEF BytesOnDisk
<1>4. Len(bytes) >= BytesOnDisk[i]
  BY <1>1 DEF BytesOnDisk, Length
<1> QED
  BY <1>1, <1>2, <1>3, <1>4 DEF Abstract!Extend

LEMMA KeptExtends == UNCHANGED disk => Abstract!Extend
BY DEF Abstract!Extend, BytesOnDisk

LEMMA OutsideRefines ==
  IInv /\ (OwnerNext \/ Serve \/ Refresh \/ Connect \/ SetEverythingFile \/ UNCHANGED vars) =>
    UNCHANGED Abstract!vars
<1>1. ASSUME OwnerNext PROVE UNCHANGED Abstract!vars
  <2>1. UNCHANGED <<disk, outcome, pc>>
    BY <1>1 DEF OwnerNext, Edit, SetShared, OwnerFrame, itemVars
  <2> QED
    BY <2>1, Stutters DEF Attempt
<1>2. ASSUME Serve \/ Refresh PROVE UNCHANGED Abstract!vars
  BY <1>2, Stutters DEF Serve, ServerFrame, Refresh, itemVars, Attempt
<1>3. ASSUME Connect \/ SetEverythingFile PROVE UNCHANGED Abstract!vars
  BY <1>3, Stutters DEF Connect, SetEverythingFile, itemVars, Attempt
<1>4. ASSUME UNCHANGED vars PROVE UNCHANGED Abstract!vars
  BY <1>4, Stutters DEF vars, itemVars, Attempt
<1> QED
  BY <1>1, <1>2, <1>3, <1>4

\* Begin, or Refuse if the item is no longer shared.
LEMMA SelectRefines == Select => Abstract!Next
<1> SUFFICES ASSUME Select PROVE Abstract!Next
  OBVIOUS
<1>1. Attempt = "none" /\ BytesOnDisk' = BytesOnDisk
  BY DEF Select, Attempt, BytesOnDisk
<1>2. CASE everything_file.item
  <2>1. Attempt' = "under_way" /\ outcome' = outcome
    BY <1>2 DEF Select, Attempt
  <2> QED
    BY <1>1, <2>1 DEF Abstract!Next, Abstract!Begin
<1>3. CASE ~ everything_file.item
  <2>1. Attempt' = "over" /\ outcome' = "invalid"
    BY <1>3 DEF Select, Finish, Attempt
  <2> QED
    BY <1>1, <2>1 DEF Abstract!Next, Abstract!Refuse
<1> QED
  BY <1>2, <1>3

\* What a step of an attempt may do: go on, end with the report, or break off.
LEMMA AttemptStep ==
  ASSUME Attempt = "under_way", Abstract!Extend,
         \/ Attempt' = "under_way" /\ UNCHANGED outcome
         \/ Attempt' = "none" /\ UNCHANGED outcome
         \/ Attempt' = "over" /\ outcome' \in {"completed", "invalid"}
  PROVE  Abstract!Next
BY DEF Abstract!Next, Abstract!Progress, Abstract!Break, Abstract!Report

LEMMA CheckRefines ==
  IInv /\ (RejectItem \/ PassComplete \/ PassTooLarge \/ Request \/ NextListed
           \/ FinishDirectory) => Abstract!Next
<1>1. ASSUME RejectItem PROVE Abstract!Next
  BY <1>1, AttemptStep, KeptExtends DEF RejectItem, CheckFile, Finish, Attempt
<1>2. ASSUME PassTooLarge PROVE Abstract!Next
  BY <1>2, AttemptStep, KeptExtends DEF PassTooLarge, CheckFile, Skip, Attempt
<1>3. ASSUME Request PROVE Abstract!Next
  BY <1>3, AttemptStep, KeptExtends DEF Request, CheckFile, itemVars, Attempt
<1>4. ASSUME NextListed PROVE Abstract!Next
  BY <1>4, AttemptStep, KeptExtends DEF NextListed, Skip, itemVars, Attempt
<1>5. ASSUME FinishDirectory PROVE Abstract!Next
  BY <1>5, AttemptStep, KeptExtends DEF FinishDirectory, Finish, Attempt
<1>6. ASSUME IInv, PassComplete PROVE Abstract!Next
  <2>1. /\ Attempt = "under_way"
        /\ \/ Attempt' = "under_way" /\ UNCHANGED outcome
           \/ Attempt' = "over" /\ outcome' = "completed"
    BY <1>6 DEF PassComplete, CheckFile, Skip, Finish, Attempt
  <2>2. /\ file \in Files
        /\ disk' = [disk EXCEPT ![file] = IF @ = NoFile THEN <<>> ELSE @]
    BY <1>6 DEF PassComplete, CheckFile
  <2>3. Abstract!Extend
    <3>1. CASE disk[file] = NoFile
      <4>1. disk' = [disk EXCEPT ![file] = <<>>] /\ Length(disk[file]) = 0
        BY <2>2, <3>1 DEF Length
      <4>2. <<>> \in Bytes /\ Len(<<>>) >= Length(disk[file])
        BY <4>1 DEF Bytes
      <4>3. Types
        BY <1>6 DEF IInv
      <4> QED
        BY <2>2, <4>1, <4>2, <4>3, WriteExtends
    <3>2. CASE disk[file] # NoFile
      <4>1. disk' = disk
        BY <1>6, <2>2, <3>2 DEF IInv, Types
      <4> QED
        BY <4>1, KeptExtends
    <3> QED
      BY <3>1, <3>2
  <2> QED
    BY <2>1, <2>3, AttemptStep
<1> QED
  BY <1>1, <1>2, <1>3, <1>4, <1>5, <1>6

LEMMA WayRefines ==
  IInv /\ (Read \/ Refetch \/ OpenFails) => Abstract!Next
<1>1. ASSUME Read PROVE Abstract!Next
  BY <1>1, AttemptStep, KeptExtends DEF Read, itemVars, Attempt
<1>2. ASSUME Refetch PROVE Abstract!Next
  BY <1>2, AttemptStep, KeptExtends DEF Refetch, itemVars, Attempt
<1>3. ASSUME IInv, OpenFails PROVE Abstract!Next
  <2>1. pc \in Transferring
    BY <1>3 DEF OpenFails, IInv, Stage
  <2> QED
    BY <1>3, <2>1, AttemptStep, KeptExtends DEF OpenFails, itemVars, Attempt, Transferring
<1> QED
  BY <1>1, <1>2, <1>3

\* Break, or nothing if no attempt is under way.
LEMMA FailureRefines ==
  IInv /\ (Drop \/ Crash) => Abstract!Next \/ UNCHANGED Abstract!vars
<1> SUFFICES ASSUME IInv, Drop \/ Crash PROVE Abstract!Next \/ UNCHANGED Abstract!vars
  OBVIOUS
<1>1. pc # "done" /\ pc' = "offline" /\ UNCHANGED <<disk, outcome>>
  BY DEF Drop, Crash, itemVars
<1>2. Attempt' = "none" /\ Attempt \in {"none", "under_way"}
  BY <1>1 DEF Attempt
<1> QED
  BY <1>1, <1>2, AttemptStep, KeptExtends, Stutters

LEMMA StoreRefines == IInv /\ (Store \/ StorePart) => Abstract!Next
<1> SUFFICES ASSUME IInv, Store \/ StorePart PROVE Abstract!Next
  OBVIOUS
<1>1. Attempt = "under_way" /\ pc = "store"
  BY DEF Store, StorePart, Attempt
<1>2. PICK bytes \in Bytes :
        PlacedAfter(bytes, DiskLength) /\ disk' = [disk EXCEPT ![file] = Stored(bytes)]
  <2>1. CASE Store
    BY <1>1, <2>1, MessageRead DEF Store
  <2>2. CASE StorePart
    <3>1. PICK n \in 0 .. Len(message.bytes) - 1 :
            disk' = [disk EXCEPT ![file] = Stored(SubSeq(message.bytes, 1, n))]
      BY <2>2 DEF StorePart
    <3> DEFINE part == SubSeq(message.bytes, 1, n)
    <3>2. /\ message.bytes \in Bytes /\ PlacedAfter(message.bytes, DiskLength)
          /\ DiskLength \in Nat /\ n \in 0 .. Len(message.bytes)
      BY <1>1, MessageRead
    <3>3. part \in Bytes /\ PlacedAfter(part, DiskLength)
      BY <3>2, PrefixInPlace
    <3> QED
      BY <3>1, <3>3
  <2> QED
    BY <2>1, <2>2
<1>3. Abstract!Extend
  <2>1. /\ Stored(bytes) \in Bytes /\ Len(Stored(bytes)) = DiskLength + Len(bytes)
    BY <1>1, <1>2, MessageRead, StoredInPlace DEF IInv
  <2>2. file \in Files /\ DiskLength \in Nat /\ Len(bytes) \in Nat
    BY <1>1, MessageRead DEF Bytes
  <2>3. Len(Stored(bytes)) >= Length(disk[file])
    BY <2>1, <2>2 DEF DiskLength
  <2> QED
    BY <1>2, <2>1, <2>2, <2>3, WriteExtends DEF IInv
<1>4. CASE Store
  <2>1. \/ Attempt' = "under_way" /\ UNCHANGED outcome
        \/ Attempt' = "none" /\ UNCHANGED outcome
        \/ Attempt' = "over" /\ outcome' \in {"completed", "invalid"}
    BY <1>4 DEF Store, Skip, Finish, Attempt
  <2> QED
    BY <1>1, <1>3, <2>1, AttemptStep
<1>5. CASE StorePart
  <2>1. Attempt' = "none" /\ UNCHANGED outcome
    BY <1>5 DEF StorePart, itemVars, Attempt
  <2> QED
    BY <1>1, <1>3, <2>1, AttemptStep
<1> QED
  BY <1>4, <1>5

LEMMA StepRefines == IInv /\ [Next]_vars => [Abstract!Next]_(Abstract!vars)
<1> SUFFICES ASSUME IInv, [Next]_vars PROVE Abstract!Next \/ UNCHANGED Abstract!vars
  OBVIOUS
<1>1. CASE OwnerNext \/ Serve \/ Refresh \/ UNCHANGED vars
  BY <1>1, OutsideRefines
<1>2. CASE DownloaderNext
  BY <1>2, OutsideRefines, SelectRefines, CheckRefines, WayRefines, StoreRefines
     DEF DownloaderNext
<1>3. CASE OpenFails \/ FailureNext
  BY <1>3, WayRefines, FailureRefines, StoreRefines DEF FailureNext
<1> QED
  BY <1>1, <1>2, <1>3 DEF Next

\* download_shared_file and what runs around it keep Download's promises: files only ever
\* grow, one at a time and while an attempt is under way; what was written survives every
\* interruption; and the item is reported once, after which nothing is written.
THEOREM TransferImplementsDownload == Spec => ImplementsDownload
BY InitRefines, StepRefines, TransferInvariant, PTL DEF Spec, ImplementsDownload, Abstract!Spec
=============================================================================
