---------------------------- MODULE FileTransfer ----------------------------
(***************************************************************************)
(* One queue item on its way from an uploader's disk to a downloader's:    *)
(* download_shared_file (outgoing_downloader.rs) against the branch of     *)
(* run_loop for MSG_FILE_SELECTION_CONTINUE (incoming_uploader.rs).  The   *)
(* item is a file or a directory of files.  Downloads resume: a file on    *)
(* disk is taken for the beginning of the remote one, and the remote end   *)
(* is asked to go on from its length.                                      *)
(*                                                                         *)
(* Four views of the sizes have to agree, and are taken at different       *)
(* times: expected (in the queue file since the user selected the item),   *)
(* listing (the downloader's cached file list), served (the list that the  *)
(* uploader made when the connection began) and the file itself.           *)
(*                                                                         *)
(* A byte is the number of the edit that wrote it and its position.        *)
(***************************************************************************)
EXTENDS Integers, Sequences

CONSTANTS
  NumFiles,     \* files of a directory
  MaxLen,       \* bound: length of a remote file
  MAX_DATA_SIZE,\* bytes in a message
  MaxEdits,     \* bound: times the owner changes what is shared
  MaxFailures,  \* bound: times the download is interrupted
  NoFile, None

ASSUME FilesAssumption == NumFiles \in Nat \ {0}
ASSUME SizesAssumption == MaxLen \in Nat /\ MAX_DATA_SIZE \in Nat \ {0}
ASSUME BoundsAssumption == MaxEdits \in Nat /\ MaxFailures \in Nat

VARIABLES
  is_directory,\* is the item a directory of NumFiles files, or a single file?
  \* the owner's disk and configuration
  remote,      \* file -> its bytes, or NoFile
  shared,      \* is the item shared with the downloading user?
  edits,
  \* the uploader thread
  served,      \* its everything_file
  upload,      \* the file it sends and how far it is (current_sent_bytes), or None
  \* the connection: the message under way to the downloader, or None
  wire,
  \* the downloader thread
  pc,
  listing,     \* refresh_data: the cached file list, or None
  everything_file, \* the copy of it that run works with
  expected,    \* queue_download.file_size
  file,        \* the subfile that is being downloaded
  current_downloaded_bytes, active_downloaded_current_bytes,
  message,     \* what encrypted_stream.read has returned
  disk,        \* file -> bytes, or NoFile
  outcome,     \* what the item was reported as, or None
  reported,    \* subfiles reported invalid
  failures

ownerVars  == <<is_directory, remote, shared, edits>>
serverVars == <<served, upload, wire>>
countVars  == <<file, current_downloaded_bytes, active_downloaded_current_bytes, message>>
itemVars   == <<expected, outcome, reported>>
vars == <<ownerVars, serverVars, pc, listing, everything_file, countVars, disk, itemVars,
          failures>>

Files == 1 .. NumFiles
ItemFiles == IF is_directory THEN Files ELSE {1}
Byte == (0 .. MaxEdits) \X (1 .. MaxLen)
Bytes == Seq(Byte)

\* What a file of n bytes holds after edit e.
Contents(e, n) == [k \in 1 .. n |-> <<e, k>>]

\* A file list, as far as the item goes: whether it is in there, and its files' sizes.
NotListed == -1
Listing == [item: BOOLEAN, size: [Files -> NotListed .. MaxLen]]

\* Lengths on a disk: metadata().len(), or 0 if the file does not exist.
Length(bytes) == IF bytes = NoFile THEN 0 ELSE Len(bytes)

\* A directory's file_size: the sizes of its files are added up, one after the other.
SizesAdded(l) ==
  LET file_size[i \in 0 .. NumFiles] ==
        IF i = 0 THEN 0
        ELSE file_size[i - 1] + IF l.size[i] = NotListed THEN 0 ELSE l.size[i]
  IN file_size

TotalSize(l) == SizesAdded(l)[NumFiles]

\* get_everything_file: what is missing on the owner's disk is skipped.
EverythingFile ==
  [item |-> shared /\ (is_directory \/ remote[1] # NoFile),
   size |-> [i \in Files |-> IF shared /\ remote[i] # NoFile THEN Len(remote[i])
                                                              ELSE NotListed]]

Messages == [type: {"CHUNK", "FINISHED"}, bytes: Bytes] \cup [type: {"INVALID_FILE"}]

\* What stands for no file, no message and no report is none of these.
ASSUME ValuesAssumption ==
  NoFile \notin Bytes /\ None \notin Messages /\ None \notin {"completed", "invalid"}

PCs == {"offline", "listing", "select", "check", "first", "read", "store", "refetch", "done"}

\* The user has selected the item in a file list that was up to date.
Init ==
  /\ is_directory \in BOOLEAN
  /\ remote \in [Files -> {Contents(0, n) : n \in 0 .. MaxLen} \cup {NoFile}]
  /\ \A i \in Files : remote[i] = NoFile <=> i \notin ItemFiles
  /\ shared = TRUE /\ edits = 0
  /\ served = EverythingFile /\ upload = None /\ wire = None
  /\ pc = "offline"
  /\ listing = EverythingFile /\ everything_file = EverythingFile
  /\ expected = TotalSize(EverythingFile)
  /\ file = 1 /\ current_downloaded_bytes = 0 /\ active_downloaded_current_bytes = 0
  /\ message = None
  /\ disk = [i \in Files |-> NoFile]
  /\ outcome = None /\ reported = {}
  /\ failures = 0

-----------------------------------------------------------------------------
(* The owner of the files.                                                 *)

OwnerFrame ==
  UNCHANGED <<is_directory, serverVars, pc, listing, everything_file, countVars, disk,
              itemVars, failures>>

\* A file gets new contents, or is deleted.  (Deleting one that the uploader has open
\* is left out: the operating system refuses, or keeps it until it is closed.)
Edit(i, bytes) ==
  /\ edits < MaxEdits
  /\ ~ (bytes = NoFile /\ upload # None /\ upload.file = i)
  /\ edits' = edits + 1
  /\ remote' = [remote EXCEPT ![i] = bytes]
  /\ UNCHANGED shared
  /\ OwnerFrame

\* remove_file_from_sharing and add_files; the connections this ends are Drop steps.
SetShared ==
  /\ edits < MaxEdits
  /\ edits' = edits + 1
  /\ shared' = ~ shared
  /\ UNCHANGED remote
  /\ OwnerFrame

-----------------------------------------------------------------------------
(* The uploader: the reads of its file may be short.                       *)

ServerFrame ==
  UNCHANGED <<ownerVars, served, pc, listing, everything_file, countVars, disk, itemVars,
              failures>>

\* One iteration of the sending loop: read, decide whether it is the last, write.
Serve ==
  /\ upload # None /\ wire = None
  /\ remote[upload.file] # NoFile
  /\ LET rest == Len(remote[upload.file]) - upload.sent
     IN \E n \in 0 .. MAX_DATA_SIZE :
          /\ IF rest <= 0 THEN n = 0 ELSE n \in 1 .. rest
          /\ LET sent == upload.sent + n
                 last == sent >= served.size[upload.file] \/ n = 0
             IN /\ wire' = [type |-> IF last THEN "FINISHED" ELSE "CHUNK",
                            bytes |-> SubSeq(remote[upload.file], upload.sent + 1, sent)]
                /\ upload' = IF last THEN None ELSE [upload EXCEPT !.sent = sent]
  /\ ServerFrame

\* The file is gone since the list was made: an error, and the connection ends.
OpenFails ==
  /\ upload # None
  /\ remote[upload.file] = NoFile
  /\ pc' = "offline"
  /\ upload' = None /\ wire' = None /\ message' = None
  /\ UNCHANGED <<ownerVars, served, listing, everything_file, file,
                 current_downloaded_bytes, active_downloaded_current_bytes, disk, itemVars,
                 failures>>

-----------------------------------------------------------------------------
(* The downloader.                                                         *)

ClientFrame == UNCHANGED <<ownerVars, failures>>

Failure ==
  /\ failures < MaxFailures
  /\ failures' = failures + 1
  /\ UNCHANGED ownerVars

\* The connection is gone: an error of either end, or stop_downloading after a poll
\* of the channels.  What was on the wire, or read and not stored, goes with it.
Disconnect == upload' = None /\ wire' = None /\ message' = None

Drop ==
  /\ pc \notin {"offline", "done"}
  /\ pc' = "offline"
  /\ Disconnect
  /\ Failure
  /\ UNCHANGED <<served, listing, everything_file, file, current_downloaded_bytes,
                 active_downloaded_current_bytes, disk, itemVars>>

\* The program ends and starts again; the queue file keeps the item and expected.
Crash ==
  /\ pc # "done"
  /\ pc' = "offline"
  /\ Disconnect
  /\ listing' = None
  /\ Failure
  /\ UNCHANGED <<served, everything_file, file, current_downloaded_bytes,
                 active_downloaded_current_bytes, disk, itemVars>>

\* A refresh of the user interface replaces the cached file list.
Refresh ==
  /\ pc # "done"
  /\ listing' = EverythingFile
  /\ ClientFrame
  /\ UNCHANGED <<serverVars, pc, everything_file, countVars, disk, itemVars>>

\* A connection: a new uploader thread takes its file list.
Connect ==
  /\ pc = "offline"
  /\ pc' = "listing"
  /\ served' = EverythingFile
  /\ ClientFrame
  /\ UNCHANGED <<upload, wire, listing, everything_file, countVars, disk, itemVars>>

\* set_everything_file(false): fetch the list if there is none, or if the connection
\* began with MSG_REVERSE.
SetEverythingFile ==
  /\ pc = "listing"
  /\ pc' = "select"
  /\ \/ listing' = served
     \/ listing # None /\ UNCHANGED listing
  /\ everything_file' = listing'
  /\ ClientFrame
  /\ UNCHANGED <<serverVars, countVars, disk, itemVars>>

\* The item leaves the queue and is reported.
Finish(as) ==
  /\ outcome' = as
  /\ pc' = "done"
  /\ UNCHANGED expected

\* Mutant of Select: the count of bytes goes on from the last attempt.
SelectKeepsCount ==
  /\ pc = "select"
  /\ everything_file.item
  /\ pc' = "check"
  /\ file' = 1
  /\ ClientFrame
  /\ UNCHANGED <<serverVars, listing, everything_file, current_downloaded_bytes,
                 active_downloaded_current_bytes, message, disk, itemVars>>

\* Mutant of Select: the files of a directory are counted from 0.
SelectFromZero ==
  /\ pc = "select"
  /\ everything_file.item
  /\ pc' = "check"
  /\ file' = 0
  /\ active_downloaded_current_bytes' = 0
  /\ ClientFrame
  /\ UNCHANGED <<serverVars, listing, everything_file, current_downloaded_bytes, message,
                 disk, itemVars>>

\* run: the item is looked up in the file list.
Select ==
  /\ pc = "select"
  /\ ClientFrame
  /\ UNCHANGED <<serverVars, listing, everything_file, current_downloaded_bytes, message,
                 disk, reported>>
  /\ \/ /\ ~ everything_file.item        \* "No longer shared with you"
        /\ Finish("invalid")
        /\ UNCHANGED <<file, active_downloaded_current_bytes>>
     \/ /\ everything_file.item
        /\ pc' = "check" /\ file' = 1
        /\ active_downloaded_current_bytes' = 0
        /\ UNCHANGED <<expected, outcome>>

\* The size the downloader takes a file to have.
TargetSize == IF is_directory THEN everything_file.size[file] ELSE expected

\* download_shared_file, its first half: sizes are compared before the uploader is
\* asked for anything.
DiskLength == Length(disk[file])
TotalLength == active_downloaded_current_bytes + DiskLength

CheckFile ==
  /\ pc = "check"
  /\ file \in Files /\ everything_file.size[file] # NotListed
  /\ current_downloaded_bytes' = DiskLength
  /\ active_downloaded_current_bytes' = TotalLength
  /\ ClientFrame
  /\ UNCHANGED <<served, listing, everything_file>>

\* "Directory is larger than expected"; "Expected file size has changed", "File is
\* larger than expected".
Rejected ==
  IF is_directory THEN TotalLength > expected
  ELSE expected # everything_file.size[file] \/ DiskLength > expected

RejectItem ==
  /\ CheckFile
  /\ Rejected
  /\ Finish("invalid")
  /\ Disconnect
  /\ UNCHANGED <<file, disk, reported>>

Skip == pc' = "check" /\ file' = file + 1

\* Mutant of PassComplete: an empty file is not created.
PassWithoutCreate ==
  /\ CheckFile
  /\ ~ Rejected
  /\ DiskLength = TargetSize
  /\ IF is_directory THEN Skip /\ UNCHANGED <<expected, outcome>>
     ELSE Finish("completed") /\ UNCHANGED file
  /\ UNCHANGED <<upload, wire, message, disk, reported>>

\* The file is complete, or it is empty and is created.
PassComplete ==
  /\ CheckFile
  /\ ~ Rejected
  /\ DiskLength = TargetSize
  /\ disk' = [disk EXCEPT ![file] = IF @ = NoFile THEN <<>> ELSE @]
  /\ IF is_directory THEN Skip /\ UNCHANGED <<expected, outcome>>
     ELSE Finish("completed") /\ UNCHANGED file
  /\ UNCHANGED <<upload, wire, message, reported>>

\* "Directory subfile is larger than expected": on to the next.
PassTooLarge ==
  /\ CheckFile
  /\ ~ Rejected
  /\ DiskLength > TargetSize
  /\ reported' = reported \cup {file}
  /\ Skip
  /\ UNCHANGED <<upload, wire, message, disk, expected, outcome>>

\* Mutant of Request: the position asked for is that of the last byte on disk.
RequestOverlaps ==
  /\ CheckFile
  /\ ~ Rejected
  /\ DiskLength < TargetSize
  /\ pc' = "first"
  /\ upload' = [file |-> file, sent |-> IF DiskLength = 0 THEN 0 ELSE DiskLength - 1]
  /\ UNCHANGED <<wire, file, message, disk, itemVars>>

\* MSG_FILE_SELECTION_CONTINUE: the uploader is asked to go on from the length on
\* disk, and looks the file up in its list.
Request ==
  /\ CheckFile
  /\ ~ Rejected
  /\ DiskLength < TargetSize
  /\ pc' = "first"
  /\ IF served.size[file] = NotListed
     THEN wire' = [type |-> "INVALID_FILE"] /\ UNCHANGED upload
     ELSE upload' = [file |-> file, sent |-> DiskLength] /\ UNCHANGED wire
  /\ UNCHANGED <<file, message, disk, itemVars>>

\* A file that the list does not name is not in the directory.
NextListed ==
  /\ pc = "check"
  /\ file \in Files /\ everything_file.size[file] = NotListed
  /\ Skip
  /\ ClientFrame
  /\ UNCHANGED <<serverVars, listing, everything_file, current_downloaded_bytes,
                 active_downloaded_current_bytes, message, disk, itemVars>>

\* run: "Download was _not_ interrupted, therefore it completed".
FinishDirectory ==
  /\ pc = "check"
  /\ file = NumFiles + 1
  /\ Finish("completed")
  /\ ClientFrame
  /\ UNCHANGED <<serverVars, listing, everything_file, countVars, disk, reported>>

\* encrypted_stream.read.  "Everything file out of date. Get a new copy.", then fail.
Read ==
  /\ pc \in {"first", "read"}
  /\ wire # None
  /\ wire' = None
  /\ ClientFrame
  /\ UNCHANGED <<served, everything_file, file, current_downloaded_bytes,
                 active_downloaded_current_bytes, disk, itemVars>>
  /\ \/ /\ wire.type = "INVALID_FILE"       \* only ever the first answer
        /\ pc' = "refetch"
        /\ UNCHANGED <<upload, listing, message>>
     \/ /\ wire.type # "INVALID_FILE"
        /\ message' = wire
        /\ pc' = "store"
        /\ UNCHANGED <<upload, listing>>

\* Mutant of Refetch: the new file list is not stored.
RefetchForgets ==
  /\ pc = "refetch"
  /\ pc' = "offline"
  /\ Disconnect
  /\ ClientFrame
  /\ UNCHANGED <<served, listing, everything_file, file, current_downloaded_bytes,
                 active_downloaded_current_bytes, disk, itemVars>>

\* set_everything_file(true), on the same connection; then run fails.
Refetch ==
  /\ pc = "refetch"
  /\ listing' = served
  /\ pc' = "offline"
  /\ Disconnect
  /\ ClientFrame
  /\ UNCHANGED <<served, everything_file, file, current_downloaded_bytes,
                 active_downloaded_current_bytes, disk, itemVars>>

\* Mutant of Stored: the file that is there is opened as if it were new.
StoredTruncates(bytes) == bytes

\* The file, opened at its end or created, with these bytes written to it.
Stored(bytes) == IF disk[file] = NoFile THEN bytes ELSE disk[file] \o bytes

\* write_all of the payload; then both ends agree that the file is complete, or
\* disagree, or neither says so.
Store ==
  /\ pc = "store"
  /\ ClientFrame
  /\ UNCHANGED <<served, listing, everything_file>>
  /\ disk' = [disk EXCEPT ![file] = Stored(message.bytes)]
  /\ current_downloaded_bytes' = current_downloaded_bytes + Len(message.bytes)
  /\ active_downloaded_current_bytes' = active_downloaded_current_bytes + Len(message.bytes)
  /\ LET is_remote_finished == message.type = "FINISHED"
         is_local_finished  == current_downloaded_bytes' = TargetSize
     IN \/ /\ is_remote_finished /\ is_local_finished
           /\ message' = None
           /\ UNCHANGED <<upload, wire, reported>>
           /\ IF is_directory THEN Skip /\ UNCHANGED <<expected, outcome>>
              ELSE Finish("completed") /\ UNCHANGED file
        \/ /\ is_remote_finished # is_local_finished
           /\ reported' = reported \cup {file}
           /\ Disconnect
           /\ UNCHANGED file
           /\ IF is_directory THEN pc' = "offline" /\ UNCHANGED <<expected, outcome>>
              ELSE Finish("invalid")
        \/ /\ ~ is_remote_finished /\ ~ is_local_finished
           /\ message' = None
           /\ pc' = "read"
           /\ UNCHANGED <<upload, wire, file, expected, outcome, reported>>

\* The program ends, or the disk is full, in the middle of write_all.
StorePart ==
  /\ pc = "store"
  /\ \E n \in 0 .. Len(message.bytes) - 1 :
       disk' = [disk EXCEPT ![file] = Stored(SubSeq(message.bytes, 1, n))]
  /\ \/ listing' = None
     \/ UNCHANGED listing
  /\ pc' = "offline"
  /\ Disconnect
  /\ Failure
  /\ UNCHANGED <<served, everything_file, file, current_downloaded_bytes,
                 active_downloaded_current_bytes, itemVars>>

-----------------------------------------------------------------------------
OwnerNext ==
  \/ \E i \in ItemFiles : \/ \E n \in 0 .. MaxLen : Edit(i, Contents(edits + 1, n))
                          \/ Edit(i, NoFile)
  \/ SetShared

DownloaderNext ==
  \/ Connect \/ SetEverythingFile \/ Select
  \/ RejectItem \/ PassComplete \/ PassTooLarge \/ Request \/ NextListed \/ FinishDirectory
  \/ Read \/ Refetch \/ Store

FailureNext == Drop \/ Crash \/ StorePart

Next == OwnerNext \/ Serve \/ OpenFails \/ DownloaderNext \/ FailureNext \/ Refresh

Spec == Init /\ [][Next]_vars

\* Both threads are scheduled and the network delivers (that the download is not
\* interrupted for ever is in MaxFailures).
FairSpec ==
  /\ Spec
  /\ WF_vars(DownloaderNext) /\ WF_vars(Serve \/ OpenFails)

-----------------------------------------------------------------------------
(* Properties.                                                             *)

\* Every variable has its type.
TypeOK ==
  /\ is_directory \in BOOLEAN
  /\ remote \in [Files -> Bytes \cup {NoFile}] /\ shared \in BOOLEAN
  /\ edits \in 0 .. MaxEdits
  /\ served \in Listing
  /\ upload \in [file: Files, sent: Nat] \cup {None}
  /\ wire \in Messages \cup {None}
  /\ pc \in PCs
  /\ listing \in Listing \cup {None} /\ everything_file \in Listing
  /\ expected \in Nat
  /\ file \in 1 .. NumFiles + 1
  /\ current_downloaded_bytes \in Nat /\ active_downloaded_current_bytes \in Nat
  /\ message \in Messages \cup {None}
  /\ disk \in [Files -> Bytes \cup {NoFile}]
  /\ outcome \in {None, "completed", "invalid"}
  /\ reported \in SUBSET Files
  /\ failures \in 0 .. MaxFailures

\* However often a download is interrupted, restarted in the middle of a write and
\* resumed, and whatever the owner does, every byte on disk is where it was in the
\* remote file: none is missing, doubled or shifted.
BytesInPlace ==
  \A i \in Files : disk[i] # NoFile =>
    \A k \in DOMAIN disk[i] : disk[i][k][2] = k

\* An item reported as completed is whole: each of its files exists, the empty ones
\* too, and has the size that the file list gave or was reported as invalid.
CompletedWhole ==
  outcome = "completed" =>
    \A i \in Files : everything_file.size[i] # NotListed =>
      /\ disk[i] # NoFile
      /\ i \in reported \/ Len(disk[i]) = everything_file.size[i]

\* Nothing is rejected that the owner has not touched: interruptions, short reads and
\* restarts alone never make the sizes disagree.
RejectedOnlyIfChanged ==
  edits = 0 => outcome # "invalid" /\ reported = {}

\* While the uploader has more to send, the downloader's count of bytes is the offset
\* of what it reads next, and its file on disk ends there.
OffsetsAgree ==
  /\ pc \in {"first", "read", "store"} => current_downloaded_bytes = DiskLength
  /\ upload # None =>
       upload.sent = DiskLength
         + (IF wire = None THEN 0 ELSE Len(wire.bytes))
         + (IF message = None THEN 0 ELSE Len(message.bytes))

\* Every item is reported in the end: a file always, a directory if its owner leaves
\* it as it is (ChangedIsRejected below says what happens otherwise).
ItemSettles == [](is_directory => edits = 0) => <>(outcome # None)

-----------------------------------------------------------------------------
(* The refinement.                                                         *)

\* Where the downloader stands, seen from its queue.
Attempt ==
  CASE pc \in {"offline", "listing", "select"} -> "none"
    [] pc = "done" -> "over"
    [] OTHER -> "under_way"

BytesOnDisk == [i \in Files |-> IF disk[i] = NoFile THEN -1 ELSE Len(disk[i])]

Abstract == INSTANCE Download WITH attempt <- Attempt, have <- BytesOnDisk

\* The transfer implements what Download promises: the disk is written to only while an
\* attempt is under way, one file at a time and only at its end; whatever is
\* interrupted keeps what it had; and the report is made once, with the item's
\* removal from the queue, after which nothing is written any more.
ImplementsDownload == Abstract!Spec

-----------------------------------------------------------------------------
(* What a comment in the code says and the code does not do.               *)

\* run_loop, of a file that ends before its listed size: "that would only happen if
\* expectations of the shared_file and actual file changed, which the client will
\* reject anyway".  The item would then be over.
ChangedIsRejected == (reported # {}) ~> (outcome # None)
=============================================================================
