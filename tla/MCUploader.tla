----------------------------- MODULE MCUploader -----------------------------
(* Small instances of Uploader for TLC. *)
EXTENDS Uploader, TLC

\* Users are interchangeable in Uploader.
Symmetry == Permutations(Users)
=============================================================================
