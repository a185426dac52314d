-------------------------------- MODULE Pipeline --------------------------------
(***************************************************************************)
(* _DefaultPipelineModule.run_pipeline of handler.py with the stages of    *)
(* pipeline/: ffmpeg, whisper-cli, pyannote and the merge, the files they  *)
(* pass to each other and the processes they leave behind.                 *)
(*                                                                         *)
(* Calls come one after the other, for one job id: a client may upload     *)
(* again, and with another file, after a call that failed.  The files are  *)
(* named after the job, so a call finds what an earlier one left.          *)
(***************************************************************************)
EXTENDS Merge, FiniteSets

CONSTANTS
  Audios,       \* the files a client uploads under the job id
  NoAudio,
  Transcripts,  \* the segments whisper-cli may find
  Diarizations, \* the turns diarize() may return, sorted by start
  Builds,       \* which of Repairs are made: {{}} is the code as it is
  Faults,       \* "spawn", "ffmpeg", "whisper", "json", "pyannote", "cancel", "crash"
  AwaitStrays,  \* whether a call waits for the processes of earlier ones
  MaxCalls      \* bound: calls of run_pipeline

(***************************************************************************)
(* What run_pipeline needs to get past the import, the check of the VAD    *)
(* model and the first progress line (handler.py:506, :524 and :528).      *)
(***************************************************************************)
Repairs == {"run_diarize", "vad_model", "awaitable"}

ASSUME BuildsAssumption == Builds \subseteq SUBSET Repairs
ASSUME PipelineFaultsAssumption ==
  Faults \subseteq {"spawn", "ffmpeg", "whisper", "json", "pyannote", "cancel", "crash"}
ASSUME MergedAssumption ==
  Transcripts \subseteq Seq(Segments) /\ Diarizations \subseteq Seq(Turns)
ASSUME CallsAssumption == MaxCalls \in Nat

VARIABLES
  build,    \* the repairs that are made
  calls,    \* bound: calls so far
  audio,    \* the upload of the present call
  pc,       \* the await the call is at
  wav,      \* <job>.norm.wav: whose, and whether it is whole
  json,     \* <job>.norm.json: whose, whether it parses, its segments
  whisper,  \* the whisper-cli of the present call
  strays,   \* child processes that no call waits for
  cut,      \* history: a cancellation hit the clean-up of the present call
  asr,      \* what transcribe_subprocess returned
  diar,     \* what diarize returned
  payload   \* what run_pipeline returned

files == <<wav, json>>
results == <<asr, diar, payload>>
vars == <<build, calls, audio, pc, files, whisper, strays, cut, results>>

Ended == {"idle", "done", "failed"}
Alive == {"running", "written", "stopping", "killed"}

NoWav == [of |-> NoAudio, whole |-> FALSE]
NoJson == [of |-> NoAudio, parses |-> FALSE, segments |-> <<>>]
NoAsr == [of |-> NoAudio, segments |-> <<>>]
NoDiar == [of |-> NoAudio, turns |-> <<>>]
NoPayload == [speakers |-> <<>>, segments |-> <<>>]

WavFiles == {NoWav} \union [of : Audios, whole : BOOLEAN]

JsonFiles ==
  {NoJson} \union [of : Audios, parses : {TRUE}, segments : Transcripts]
           \union [of : Audios, parses : {FALSE}, segments : {<<>>}]

TypeOK ==
  /\ build \in Builds
  /\ calls \in 0 .. MaxCalls
  /\ audio \in Audios \union {NoAudio}
  /\ pc \in Ended \union {"normalize", "read", "reap", "kill", "load", "diarize"}
  /\ wav \in WavFiles
  /\ json \in JsonFiles
  /\ whisper \in {"none", "exit0", "exited"} \union Alive
  /\ strays \subseteq [program : {"ffmpeg", "whisper"}, of : Audios]
  /\ cut \in BOOLEAN
  /\ asr \in {NoAsr} \union [of : Audios, segments : Transcripts]
  /\ diar \in {NoDiar} \union [of : Audios, turns : Diarizations]
  /\ DOMAIN payload.segments = (IF pc = "done" THEN DOMAIN asr.segments ELSE {})

Init ==
  /\ build \in Builds
  /\ calls = 0
  /\ audio = NoAudio
  /\ pc = "idle"
  /\ wav = NoWav
  /\ json = NoJson
  /\ whisper = "none"
  /\ strays = {}
  /\ cut = FALSE
  /\ asr = NoAsr
  /\ diar = NoDiar
  /\ payload = NoPayload

--------------------------------------------------------------------------------
(***************************************************************************)
(* The call, from one await to the next.                                   *)
(***************************************************************************)

Called(a) ==
  /\ pc \in Ended
  /\ AwaitStrays => strays = {}
  /\ calls < MaxCalls
  /\ calls' = calls + 1
  /\ audio' = a
  /\ whisper' = "none"
  /\ cut' = FALSE
  /\ asr' = NoAsr
  /\ diar' = NoDiar
  /\ payload' = NoPayload
  /\ UNCHANGED <<build, files, strays>>

\* The import of a name diarize.py does not define, or no ffmpeg to start.
CallRaises(a) ==
  /\ Called(a)
  /\ "run_diarize" \notin build \/ "spawn" \in Faults
  /\ pc' = "failed"

Call(a) ==
  /\ Called(a)
  /\ "run_diarize" \in build
  /\ pc' = "normalize"

\* ffmpeg that fails may have opened its output, truncating what was there.
NormalizeFails ==
  /\ pc = "normalize"
  /\ "ffmpeg" \in Faults
  /\ wav' \in {wav, [of |-> audio, whole |-> FALSE]}
  /\ pc' = "failed"
  /\ UNCHANGED <<build, calls, audio, json, whisper, strays, cut, results>>

Normalized ==
  /\ pc = "normalize"
  /\ wav' = [of |-> audio, whole |-> TRUE]
  /\ UNCHANGED <<build, calls, audio, json, strays, cut, results>>

NormalizeEnds ==
  /\ Normalized
  /\ "vad_model" \in build
  /\ whisper' = "running"
  /\ pc' = "read"

\* Without a VAD model transcribe_subprocess raises before it starts anything.
TranscribeRaises ==
  /\ Normalized
  /\ "vad_model" \notin build \/ "spawn" \in Faults
  /\ pc' = "failed"
  /\ UNCHANGED whisper

\* The finally of the read loop: SIGTERM, then ten seconds.
Terminate ==
  /\ whisper' = "stopping"
  /\ pc' = "reap"

\* `await on_progress(...)` of a callback that returns None, at the first line
\* with a time.
ProgressRaises ==
  /\ pc = "read"
  /\ whisper = "running"
  /\ "awaitable" \notin build
  /\ Terminate
  /\ UNCHANGED <<build, calls, audio, files, strays, cut, results>>

\* The end of stdout and the exit: a failure leaves the JSON that may be there.
TranscribeFails ==
  /\ pc = "read"
  /\ whisper = "exited" \/ (whisper = "exit0" /\ ~json.parses)
  /\ pc' = "failed"
  /\ UNCHANGED <<build, calls, audio, files, whisper, strays, cut, results>>

\* The exit code is not looked at.
TranscribeEnds_AnyExit ==
  /\ pc = "read"
  /\ whisper \in {"exit0", "exited"}
  /\ json.parses
  /\ asr' = [of |-> json.of, segments |-> json.segments]
  /\ json' = NoJson
  /\ pc' = "load"
  /\ UNCHANGED <<build, calls, audio, wav, whisper, strays, cut, diar, payload>>

TranscribeEnds ==
  /\ pc = "read"
  /\ whisper = "exit0"
  /\ json.parses
  /\ asr' = [of |-> json.of, segments |-> json.segments]
  /\ json' = NoJson
  /\ pc' = "load"
  /\ UNCHANGED <<build, calls, audio, wav, whisper, strays, cut, diar, payload>>

\* wait_for() returns, and the exception goes on.
ReapEnds ==
  /\ pc \in {"reap", "kill"}
  /\ whisper \notin Alive
  /\ pc' = "failed"
  /\ UNCHANGED <<build, calls, audio, files, whisper, strays, cut, results>>

\* The exception of wait_for() is not caught.
ReapTimesOut_Raises ==
  /\ pc = "reap"
  /\ whisper \in Alive
  /\ pc' = "failed"
  /\ UNCHANGED <<build, calls, audio, files, whisper, strays, cut, results>>

\* wait() again, but no kill().
ReapTimesOut_Waits ==
  /\ pc = "reap"
  /\ whisper \in Alive
  /\ pc' = "kill"
  /\ UNCHANGED <<build, calls, audio, files, whisper, strays, cut, results>>

ReapTimesOut ==
  /\ pc = "reap"
  /\ whisper \in Alive
  /\ whisper' = "killed"
  /\ pc' = "kill"
  /\ UNCHANGED <<build, calls, audio, files, strays, cut, results>>

PyannoteLoads ==
  /\ pc = "load"
  /\ pc' = "diarize"
  /\ UNCHANGED <<build, calls, audio, files, whisper, strays, cut, results>>

\* No weights, no token, or a pipeline that is not on the CPU.
LoadFails ==
  /\ pc = "load"
  /\ "pyannote" \in Faults
  /\ pc' = "failed"
  /\ UNCHANGED <<build, calls, audio, files, whisper, strays, cut, results>>

DiarizeFails ==
  /\ pc = "diarize"
  /\ "pyannote" \in Faults
  /\ pc' = "failed"
  /\ UNCHANGED <<build, calls, audio, files, whisper, strays, cut, results>>

\* diarize(), the merge and the deletion of the WAV.
DiarizeEnds(turns) ==
  /\ pc = "diarize"
  /\ diar' = [of |-> wav.of, turns |-> turns]
  /\ payload' = MergeToPayload(asr.segments, turns)
  /\ wav' = NoWav
  /\ pc' = "done"
  /\ UNCHANGED <<build, calls, audio, json, whisper, strays, cut, asr>>

\* The child of the present call that is left when nothing waits for it.
Stray ==
  IF pc = "normalize" THEN {[program |-> "ffmpeg", of |-> audio]}
  ELSE IF whisper \in Alive \ {"killed"} THEN {[program |-> "whisper", of |-> wav.of]}
  ELSE {}

\* CancelledError at the await.  Only the read loop looks after its process,
\* and no await of its finally is protected.
Cancel ==
  /\ "cancel" \in Faults
  /\ pc \notin Ended
  /\ cut' = (pc \in {"reap", "kill"})
  /\ IF pc = "read" /\ whisper \in Alive
       THEN Terminate /\ UNCHANGED strays
       ELSE pc' = "failed" /\ strays' = strays \union Stray /\ UNCHANGED whisper
  /\ UNCHANGED <<build, calls, audio, files, results>>

\* The engine dies; its children do not.
Crash ==
  /\ "crash" \in Faults
  /\ pc \notin Ended
  /\ pc' = "failed"
  /\ whisper' = "none"
  /\ strays' = strays \union Stray
  /\ UNCHANGED <<build, calls, audio, files, cut, results>>

--------------------------------------------------------------------------------
(***************************************************************************)
(* The processes (external): whisper-cli writes its JSON before it ends    *)
(* with 0, and may ignore SIGTERM.                                         *)
(***************************************************************************)

JsonOf(a) ==
  [of : {a}, parses : {TRUE}, segments : Transcripts]
    \union (IF "json" \in Faults THEN {[of |-> a, parses |-> FALSE, segments |-> <<>>]}
            ELSE {})

WhisperWrites ==
  /\ pc \notin Ended
  /\ whisper \in {"running", "stopping"}
  /\ json' \in JsonOf(wav.of)
  /\ whisper' = IF whisper = "running" THEN "written" ELSE whisper
  /\ UNCHANGED <<build, calls, audio, pc, wav, strays, cut, results>>

WhisperEnds ==
  /\ pc \notin Ended
  /\ \/ whisper = "written" /\ whisper' = "exit0"
     \/ whisper \in {"running", "written"} /\ "whisper" \in Faults /\ whisper' = "exited"
     \/ whisper = "stopping" /\ whisper' = "exited"
  /\ UNCHANGED <<build, calls, audio, pc, files, strays, cut, results>>

WhisperKilled ==
  /\ pc \notin Ended
  /\ whisper = "killed"
  /\ whisper' = "exited"
  /\ UNCHANGED <<build, calls, audio, pc, files, strays, cut, results>>

StrayEnds(p) ==
  /\ p \in strays
  /\ strays' = strays \ {p}
  /\ \/ UNCHANGED files
     \/ /\ p.program = "ffmpeg"
        /\ wav' = [of |-> p.of, whole |-> TRUE]
        /\ UNCHANGED json
     \/ /\ p.program = "whisper"
        /\ json' \in JsonOf(p.of)
        /\ UNCHANGED wav
  /\ UNCHANGED <<build, calls, audio, pc, whisper, cut, results>>

--------------------------------------------------------------------------------
Next ==
  \/ \E a \in Audios : Call(a) \/ CallRaises(a)
  \/ NormalizeFails \/ NormalizeEnds \/ TranscribeRaises
  \/ ProgressRaises \/ TranscribeFails \/ TranscribeEnds
  \/ ReapEnds \/ ReapTimesOut
  \/ PyannoteLoads \/ LoadFails \/ DiarizeFails
  \/ \E turns \in Diarizations : DiarizeEnds(turns)
  \/ Cancel \/ Crash
  \/ WhisperWrites \/ WhisperEnds \/ WhisperKilled
  \/ \E p \in strays : StrayEnds(p)

Spec == Init /\ [][Next]_vars

\* The event loop runs the call, its timer ends, and SIGKILL is obeyed.
FairSpec ==
  /\ Spec
  /\ WF_vars(ReapEnds) /\ WF_vars(ReapTimesOut) /\ WF_vars(WhisperKilled)

--------------------------------------------------------------------------------
(***************************************************************************)
(* Properties                                                              *)
(***************************************************************************)

\* A transcript that is returned was made, both halves of it, from the upload
\* of this very call, whatever earlier calls of the job left on disk.
ResultIsOwn == pc = "done" => asr.of = audio /\ diar.of = audio

\* When a call is over its whisper-cli is too, unless a cancellation hit the
\* clean-up itself (or the engine died): whisper-cli holds the memory of the
\* GPU, which the next call needs.
WhisperReaped ==
  pc \in {"done", "failed"} /\ ~cut => whisper \notin Alive

\* A call that has given up on whisper-cli ends, even if it ignores SIGTERM.
AbandonedCallEnds == pc = "reap" ~> pc \in Ended

\* Every segment is given the speaker with the longest turn in it, every
\* speaker one number.
TagIsMaxOverlap ==
  pc = "done" => TaggedByLongest(payload, asr.segments, diar.turns)

\* Numbers are given in the order in which speakers first speak, without gaps,
\* and the list of speakers has those that do.
SpeakersNumbered == pc = "done" => NumberedByAppearance(payload)

\* A call nothing goes wrong with returns a transcript.
Delivers == pc # "failed"

\* A call that is over leaves no copy of the audio or of the transcript.
IntermediatesGo == pc \in Ended => wav = NoWav /\ json = NoJson

\* Of all speakers, the one a segment is tagged with talks longest in it.
TagTalksMost == pc = "done" => TaggedByTotal(asr.segments, diar.turns)
================================================================================
