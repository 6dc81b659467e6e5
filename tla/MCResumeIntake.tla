--------------------------- MODULE MCResumeIntake ---------------------------
(* Values for the constants of ResumeIntake.  Handlers are interchangeable, *)
(* and so are clients and the keys that no legacy row has.                  *)
EXTENDS ResumeIntake, TLC

Symmetry == Permutations(Handler) \cup Permutations(Client) \cup Permutations(Key \ LegacyKey)
=============================================================================
