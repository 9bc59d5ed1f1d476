--------------------- MODULE MCSessionPersistenceQueue ---------------------
(* The persistence queue on small instances. *)
EXTENDS SessionPersistenceQueue, TLC

\* Sessions are interchangeable; used where safety alone is checked.
KeySymmetry == Permutations(Keys)
=============================================================================
