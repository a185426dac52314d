------------------------------- MODULE MCPipeline -------------------------------
(***************************************************************************)
(* Pipeline for TLC: at most MaxSegments segments and MaxTurns turns in a  *)
(* recording of MaxTime seconds.                                           *)
(***************************************************************************)
EXTENDS Pipeline

CONSTANTS MaxTime, MaxSegments, MaxTurns

\* Segments follow each other; a segment may be empty.
MCTranscripts ==
  {s \in SeqOf([start : 0 .. MaxTime, end : 0 .. MaxTime], MaxSegments) :
     /\ \A i \in DOMAIN s : s[i].start <= s[i].end
     /\ \A i \in DOMAIN s : i > 1 => s[i - 1].end <= s[i].start}

\* Turns are sorted by start, and may overlap.
MCDiarizations ==
  {s \in SeqOf([start : 0 .. MaxTime, end : 0 .. MaxTime, speaker : Labels], MaxTurns) :
     /\ \A k \in DOMAIN s : s[k].start < s[k].end
     /\ \A k \in DOMAIN s : k > 1 => s[k - 1].start <= s[k].start}

MCBuilds == SUBSET Repairs
AsIs == {{}}
Repaired == {Repairs}
================================================================================
