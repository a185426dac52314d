----------------------------- MODULE MCPartialFile -----------------------------
(***************************************************************************)
(* Values for the constants of PartialFile.  One kind of byte is enough:   *)
(* only lengths matter to this component.                                  *)
(***************************************************************************)
EXTENDS PartialFile, TLC

MCByte == {"b"}

\* The empty message, one shorter than the interval and one longer than it.
MCChunks == {<<>>, <<"b">>, <<"b", "b", "b">>}

MCSymmetry == Permutations(Writers) \cup Permutations(Inodes)
===============================================================================
