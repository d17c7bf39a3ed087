---------------------------- MODULE MCEpistemic ----------------------------
(* One validation alone, with three judges or with the number it finds, and two at a    *)
(* time, with equal numbers of judges or with different ones.                           *)
EXTENDS Epistemic

CONSTANTS f0, f1, f2, g2, f3

MCJudges == f0 :> 0 @@ f1 :> 1 @@ f2 :> 2 @@ g2 :> 2 @@ f3 :> 3
MCTogether == {{f0}, {f3}, {f2, g2}, {f1, f2}}
MCMarks == {<<0, 0>>, <<100, 60>>, <<80, 81>>}
MCEmbeddings == {<<>>, <<0>>, <<6>>, <<10>>}
=============================================================================
