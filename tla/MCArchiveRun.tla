----------------------------- MODULE MCArchiveRun -----------------------------
(* Two hosts and three operations over two plans that share an object: one of *)
(* a single object (the limit of the unified caller) and one of all of them   *)
(* (two, the limit of knownKeyArchive).                                       *)
EXTENDS ArchiveRun, SequencesExt

Whole == CHOOSE n \in Intents : TRUE
SharedPlan ==
  [n \in Intents |-> IF n = Whole THEN SetToSeq(Keys) ELSE <<CHOOSE k \in Keys : TRUE>>]
=============================================================================
