------------------------------- MODULE UploadLog -------------------------------
(***************************************************************************)
(* What webrtc/chunker.py promises the rest of the engine about the upload *)
(* under <job_id>.partial, with files, descriptors and writers left out:   *)
(* an append-only log whose promised prefix no failure takes away.         *)
(***************************************************************************)
EXTENDS Integers

VARIABLES
  length,   \* bytes a reader of the path finds
  promised  \* the largest offset a checkpoint message has confirmed

Init == length = 0 /\ promised = 0

\* Bytes are added, or more of the bytes that are there is confirmed.
Extend ==
  /\ length' \in Nat
  /\ length' >= length
  /\ promised' \in promised .. length'

\* A failure takes bytes that were not promised.
Lose ==
  /\ length' \in Nat
  /\ promised <= length' /\ length' <= length
  /\ promised' = promised

\* The upload is refused, cleaned up or handed to the pipeline as a whole.
Discard == length' = 0 /\ promised' = 0

Next == Extend \/ Lose \/ Discard

Spec == Init /\ [][Next]_<<length, promised>>
===============================================================================
