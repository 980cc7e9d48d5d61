------------------------------- MODULE MCBake -------------------------------
(***************************************************************************)
(* Small instances of Bake.                                                *)
(***************************************************************************)
EXTENDS Bake

\* No argument, a new overlay with a comma after it, and one twice, with one
\* that config.txt names already.
Lists == {<<>>, <<"lcd", "">>, <<"dwc2", "lcd", "lcd">>}

\* What PITREZOR_DTO holds in the environment.
Nothing == {<<>>}
=============================================================================
