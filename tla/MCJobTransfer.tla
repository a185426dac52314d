----------------------------- MODULE MCJobTransfer -----------------------------
(***************************************************************************)
(* Values for the constants of JobTransfer: files whose bytes all differ,  *)
(* so that a lost, repeated or foreign byte shows.                         *)
(***************************************************************************)
EXTENDS JobTransfer, TLC

CONSTANTS A, B, a1, a2, a3, b1, b2

MCByte == {a1, a2, a3, b1, b2}
MCChunks == {<<x>> : x \in MCByte}

\* Two short files, or one that spans a checkpoint interval.
TwoFiles == (A :> <<a1, a2>>) @@ (B :> <<b1, b2>>)
OneFile == A :> <<a1, a2, a3>>

MCInbox == FrontendMessages

MCSymmetry == Permutations(Handlers) \cup Permutations(Inodes)
===============================================================================
