------------------------------ MODULE MCInboundJob ------------------------------
(***************************************************************************)
(* Values for the constants of InboundJob.                                 *)
(***************************************************************************)
EXTENDS InboundJob, TLC

MCByte == {"b"}

\* The empty message, and two that reach the checkpoint interval (2) in a
\* different number of steps.
MCChunks == {<<>>, <<"b">>, <<"b", "b">>}

\* Everything a client of one file can send.
OneFileInbox ==
       [kind : {"chunk"}, bytes : {<<>>, <<"b", "b">>}]
  \cup [kind : {"job_init"}, sha : Shas]
  \cup [kind : {"audio_eof"}]
  \cup [kind : {"resume_query"}, sha : Shas \cup {NoSha}]

\* What a client that never misbehaves sends, in any order.
PlainInbox ==
       [kind : {"chunk"}, bytes : {<<"b">>}]
  \cup [kind : {"job_init"}, sha : Shas]
  \cup [kind : {"audio_eof"}]
  \cup [kind : {"resume_query"}, sha : Shas]

\* All kinds of message.
FullInbox == Messages

MCSymmetry == Permutations(Handlers) \cup Permutations(Inodes)
=================================================================================
