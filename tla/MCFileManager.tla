--------------------------- MODULE MCFileManager ---------------------------
(* Symmetry of FileManager's instances: windows and the slots of           *)
(* notification goroutines are interchangeable.  Used by safety runs only. *)
EXTENDS FileManager, TLC

Symmetry == Permutations(Wins) \cup Permutations(Notifiers)
=============================================================================
