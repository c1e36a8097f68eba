------------------------ MODULE TwoPhaseGeneratorMC ------------------------
(***************************************************************************)
(* The two searches for two sentences with two beams each, and for three   *)
(* sentences with one; and the single search of the same sizes.            *)
(***************************************************************************)
EXTENDS TwoPhaseGenerator

MCSizes == {[two_phase |-> two_phase, bsz |-> z[1], beam_size |-> z[2], max_len |-> z[3]] :
              two_phase \in BOOLEAN, z \in {<<2, 2, 2>>, <<3, 1, 3>>}}

\* Candidates after the first beam_size that go on are never looked at: one list stands for
\* all that differ in them only.
Canonical(l, b) ==
  \A j \in 2 .. 2 * b :
    Cardinality({k \in 1 .. j - 1 : ~l[k][2]}) >= b => l[j] = l[j - 1]

MCShapes == [b \in 1 .. 2 |-> {l \in Lists(b) : Canonical(l, b)}]
=============================================================================
