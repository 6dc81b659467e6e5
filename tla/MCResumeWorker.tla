--------------------------- MODULE MCResumeWorker ---------------------------
(* Values for the constants of ResumeWorker, and its properties on them.   *)
EXTENDS ResumeWorkerProperties, TLC

CONSTANTS t1, t2, p1, p2, i1, i2, alice, bob, nobody, cv, v1

MCRequest(client, mode, approved) ==
  [client |-> client, content |-> cv, mode |-> mode, approved |-> approved]

MCAi       == MCRequest(alice, "ai", TRUE)
MCTemplate == MCRequest(alice, "template", FALSE)
MCBob      == MCRequest(bob, "ai", TRUE)
MCRefused  == MCRequest(bob, "ai", FALSE)
MCLegacy   == MCRequest(nobody, "template", FALSE)

OnlyAi   == {MCAi}
AllKinds == {MCAi, MCBob, MCTemplate, MCRefused}

SameRelease == [p \in Process |-> v1]

\* Tasks are interchangeable, and so are processes of one release.
Symmetry == Permutations(Task) \cup Permutations(Process)
=============================================================================
