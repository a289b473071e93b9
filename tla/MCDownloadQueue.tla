-------------------------- MODULE MCDownloadQueue --------------------------
(* Small instances of DownloadQueue for TLC: the symmetry of the worker
   identities and of the books, sound for the runs without liveness. *)
EXTENDS DownloadQueue, TLC

Symmetry == Permutations(Tasks) \cup Permutations(Ids)
=============================================================================
