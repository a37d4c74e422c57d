------------------------------ MODULE MCPolicy -------------------------------
(* Instances of Policy for TLC: the kinds of job a .cfg cannot write.        *)
EXTENDS Policy, TLC

CONSTANTS s1, s2, s3, s4, x, y, z

Job(agent, priority, vram, minutes) ==
  [agent |-> agent, priority |-> priority, vram |-> vram, minutes |-> minutes]

\* A long job and two short equal ones of one agent, and one of another, of low
\* priority, that needs the whole card.
MixedKinds == s1 :> Job(x, 50, 1, 60) @@ s2 :> Job(x, 55, 1, 30)
              @@ s3 :> Job(x, 55, 1, 30) @@ s4 :> Job(z, 45, 3, 30)

\* The highest priority against the lowest, one at a time.
ExtremeKinds == s1 :> Job(x, 100, 1, 30) @@ s2 :> Job(y, 100, 1, 30) @@ s3 :> Job(z, 0, 1, 30)
=============================================================================
