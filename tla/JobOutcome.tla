------------------------------ MODULE JobOutcome ------------------------------
(***************************************************************************)
(* What the engine owes the client of each data channel, whatever else     *)
(* happens to the job: the audio is taken once, goes through one pipeline, *)
(* and is answered by at most one verdict, which says how far it came.     *)
(* An answer to a lost channel is dropped; audio that was taken may be     *)
(* abandoned when its handler or the engine is stopped.                    *)
(***************************************************************************)
CONSTANTS Handlers

VARIABLES
  phase,    \* how far the audio of each channel has come
  verdicts  \* what each client was told

Phases == {"uploading", "taken", "queued", "reading", "judged", "over"}

Init ==
  /\ phase = [h \in Handlers |-> "uploading"]
  /\ verdicts = [h \in Handlers |-> <<>>]

\* A step of one upload, with the verdicts that may come with it.
Step(h, from, to, said) ==
  /\ phase[h] = from
  /\ phase' = [phase EXCEPT ![h] = to]
  /\ verdicts' \in {verdicts} \cup {[verdicts EXCEPT ![h] = <<v>>] : v \in said}

Take(h) == Step(h, "uploading", "taken", {})
Refuse(h) == Step(h, "uploading", "over", {"no_audio_received", "finalize_failed"})
Queue(h) == Step(h, "taken", "queued", {})
Reject(h) == Step(h, "queued", "over", {"file_too_large"})
Read(h) == Step(h, "queued", "reading", {})
GiveUp(h) == Step(h, "queued", "judged", {"pipeline_failed"})
Judge(h) == Step(h, "reading", "judged", {"pipeline_failed", "result"})
CleanUp(h) == Step(h, "judged", "over", {})

Abandon ==
  /\ phase' \in [Handlers -> Phases]
  /\ \A h \in Handlers :
       phase'[h] = phase[h] \/ (phase[h] # "uploading" /\ phase'[h] = "over")
  /\ UNCHANGED verdicts

Next ==
  \/ Abandon
  \/ \E h \in Handlers :
       \/ Take(h) \/ Refuse(h) \/ Queue(h) \/ Reject(h)
       \/ Read(h) \/ GiveUp(h) \/ Judge(h) \/ CleanUp(h)

Spec == Init /\ [][Next]_<<phase, verdicts>>
===============================================================================
