-------------------------- MODULE MCJournalRotation --------------------------
(* Model-checking instance of JournalRotation.                             *)
EXTENDS JournalRotation, TLC

ActorSymmetry == Permutations(Entry) \cup Permutations(Servers)
=============================================================================
