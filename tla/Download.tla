------------------------------ MODULE Download ------------------------------
(***************************************************************************)
(* What the downloads of one queue item promise, whatever files, sizes and *)
(* messages they are made of; FileTransfer implements it.  An attempt is   *)
(* one visit of SingleDownloader::run to download_shared_file, the control *)
(* point "transfer" of Downloader, whose TransferStep, TransferDone and    *)
(* TransferError are Progress, Report and Break here.                      *)
(***************************************************************************)
EXTENDS Integers

CONSTANTS
  Files,   \* the files that the item consists of
  None     \* not reported yet

VARIABLES
  attempt, \* "none", "under_way", or "over" once the item has left the queue
  have,    \* file -> bytes on the downloader's disk, Absent if it does not exist
  outcome  \* what the item was reported as

vars == <<attempt, have, outcome>>

Absent == -1

Init ==
  /\ attempt = "none"
  /\ have = [i \in Files |-> Absent]
  /\ outcome = None

\* At most one file is created or made longer, and the others are left alone.
Extend ==
  \/ UNCHANGED have
  \/ \E i \in Files : /\ have'[i] \in Nat /\ have'[i] >= have[i]
                      /\ have' = [have EXCEPT ![i] = have'[i]]

Begin ==
  /\ attempt = "none"
  /\ attempt' = "under_way"
  /\ UNCHANGED <<have, outcome>>

Progress ==
  /\ attempt = "under_way"
  /\ Extend
  /\ UNCHANGED <<attempt, outcome>>

\* The attempt ends before the item does; what it wrote is kept.
Break ==
  /\ attempt = "under_way"
  /\ attempt' = "none"
  /\ Extend
  /\ UNCHANGED outcome

\* The item leaves the queue, together with the report of it.
Report ==
  /\ attempt = "under_way"
  /\ attempt' = "over"
  /\ Extend
  /\ outcome' \in {"completed", "invalid"}

\* It leaves the queue without an attempt: the owner no longer shares it.
Refuse ==
  /\ attempt = "none"
  /\ attempt' = "over"
  /\ outcome' = "invalid"
  /\ UNCHANGED have

Next == Begin \/ Progress \/ Break \/ Report \/ Refuse

Spec == Init /\ [][Next]_vars
=============================================================================
