---------------------------- MODULE MCDownloader ----------------------------
(* Small instances of Downloader for TLC. *)
EXTENDS Downloader, TLC

\* Paths are interchangeable: nothing in Downloader tells one from another.
Symmetry == Permutations(Paths)
=============================================================================
