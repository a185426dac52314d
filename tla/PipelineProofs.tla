----------------------------- MODULE PipelineProofs -----------------------------
(***************************************************************************)
(* The calls of run_pipeline, for any uploads, transcripts and             *)
(* diarizations, any number of calls and any failures.                     *)
(***************************************************************************)
EXTENDS Pipeline, WellFoundedInduction, TLAPS

\* What a call has in hand at each of its awaits: an upload, the WAV that was made
\* of it or that a stray process has put in its place, and whisper-cli while it is
\* being read or reaped.
InHand ==
  /\ pc \notin Ended => audio \in Audios
  /\ pc \in {"read", "reap", "kill", "load", "diarize"} => wav.of \in Audios
  /\ pc = "normalize" => whisper = "none"
  /\ pc = "load" \/ pc = "diarize" => whisper = "exit0"

CallInv == TypeOK /\ InHand

LEMMA NoFiles == NoWav \in WavFiles /\ NoJson \in JsonFiles
  BY DEF WavFiles, JsonFiles

LEMMA WholeWav ==
  ASSUME NEW a \in Audios, NEW whole \in BOOLEAN
  PROVE  [of |-> a, whole |-> whole] \in WavFiles
  BY DEF WavFiles

LEMMA ParsedJson ==
  ASSUME NEW j \in JsonFiles, j.parses
  PROVE  j.of \in Audios /\ j.segments \in Transcripts
<1>1. CASE j = NoJson
  BY <1>1 DEF NoJson
<1>2. CASE j \in [of : Audios, parses : {TRUE}, segments : Transcripts]
  BY <1>2
<1>3. CASE j \in [of : Audios, parses : {FALSE}, segments : {<<>>}]
  <2>1. j.parses = FALSE
    BY <1>3
  <2> QED
    BY <2>1
<1> QED
  BY <1>1, <1>2, <1>3 DEF JsonFiles

\* What whisper-cli writes is a JSON file of the upload it was started on.
LEMMA JsonOfTyped ==
  ASSUME NEW a \in Audios, NEW j \in JsonOf(a)
  PROVE  j.of = a /\ j \in JsonFiles
<1>1. CASE j \in [of : {a}, parses : {TRUE}, segments : Transcripts]
  BY <1>1 DEF JsonFiles
<1>2. CASE j = [of |-> a, parses |-> FALSE, segments |-> <<>>]
  <2>1. j \in [of : Audios, parses : {FALSE}, segments : {<<>>}]
    BY <1>2
  <2> QED
    BY <1>2, <2>1 DEF JsonFiles
<1> QED
  BY <1>1, <1>2 DEF JsonOf

\* The merge keeps the segments of the transcript, one by one.
LEMMA MergeKeepsSegments ==
  ASSUME NEW asrSegments, NEW turns
  PROVE  DOMAIN MergeToPayload(asrSegments, turns).segments = DOMAIN asrSegments
  BY DEF MergeToPayload

LEMMA StrayTyped ==
  ASSUME CallInv, pc \notin Ended
  PROVE  Stray \subseteq [program : {"ffmpeg", "whisper"}, of : Audios]
<1>1. audio \in Audios
  BY DEF CallInv, InHand
<1>2. CASE pc = "normalize"
  BY <1>1, <1>2 DEF Stray
<1>3. CASE pc # "normalize"
  <2>1. wav.of \in Audios
    BY <1>3 DEF CallInv, InHand, TypeOK, Ended
  <2> QED
    BY <1>3, <2>1 DEF Stray
<1> QED
  BY <1>2, <1>3

LEMMA CallInvKept ==
  ASSUME CallInv, [Next]_vars
  PROVE  CallInv'
<1>0. TypeOK /\ InHand
  BY DEF CallInv
<1>1. ASSUME NEW a \in Audios, Call(a) \/ CallRaises(a) PROVE CallInv'
  <2>1. /\ pc' \in {"normalize", "failed"} /\ audio' = a /\ whisper' = "none" /\ cut' = FALSE
        /\ asr' = NoAsr /\ diar' = NoDiar /\ payload' = NoPayload
        /\ calls < MaxCalls /\ calls' = calls + 1 /\ UNCHANGED <<build, wav, json, strays>>
    BY <1>1 DEF Call, CallRaises, Called, files
  <2>2. calls' \in 0 .. MaxCalls
    BY <1>0, <2>1, CallsAssumption DEF TypeOK
  <2>3. DOMAIN NoPayload.segments = {}
    BY DEF NoPayload
  <2>4. TypeOK'
    BY <1>0, <2>1, <2>2, <2>3, NoFiles DEF TypeOK, Ended
  <2>5. InHand'
    BY <2>1 DEF InHand, Ended
  <2> QED
    BY <2>4, <2>5 DEF CallInv
<1>2. ASSUME NormalizeFails \/ NormalizeEnds \/ TranscribeRaises PROVE CallInv'
  <2>1. /\ pc = "normalize" /\ audio \in Audios
        /\ pc' \in {"read", "failed"} /\ whisper' \in {"none", "running"}
        /\ UNCHANGED <<build, calls, audio, json, strays, cut, asr, diar, payload>>
    BY <1>0, <1>2 DEF NormalizeFails, NormalizeEnds, TranscribeRaises, Normalized,
       results,
       InHand, Ended
  <2>2. /\ wav' \in {wav, [of |-> audio, whole |-> FALSE], [of |-> audio, whole |-> TRUE]}
        /\ pc' = "read" => wav' = [of |-> audio, whole |-> TRUE]
    BY <1>2 DEF NormalizeFails, NormalizeEnds, TranscribeRaises, Normalized
  <2>3. wav' \in WavFiles
    BY <1>0, <2>1, <2>2, WholeWav DEF TypeOK
  <2>4. TypeOK'
    BY <1>0, <2>1, <2>3 DEF TypeOK, Ended, Alive
  <2>5. InHand'
    BY <2>1, <2>2 DEF InHand, Ended
  <2> QED
    BY <2>4, <2>5 DEF CallInv
<1>3. ASSUME ProgressRaises \/ TranscribeFails \/ ReapEnds \/ ReapTimesOut PROVE CallInv'
  <2>1. /\ pc \in {"read", "reap", "kill"} /\ pc' \in {"reap", "kill", "failed"}
        /\ whisper' \in {whisper, "stopping", "killed"}
        /\ UNCHANGED <<build, calls, audio, wav, json, strays, cut, asr, diar, payload>>
    BY <1>3 DEF ProgressRaises, TranscribeFails, ReapEnds, ReapTimesOut, Terminate,
       files, results
  <2>2. TypeOK'
    BY <1>0, <2>1 DEF TypeOK, Ended, Alive
  <2>3. InHand'
    BY <1>0, <2>1 DEF InHand, Ended
  <2> QED
    BY <2>2, <2>3 DEF CallInv
<1>4. ASSUME TranscribeEnds PROVE CallInv'
  <2>1. /\ pc = "read" /\ pc' = "load" /\ whisper = "exit0" /\ json.parses /\ json' = NoJson
        /\ asr' = [of |-> json.of, segments |-> json.segments]
        /\ UNCHANGED <<build, calls, audio, wav, whisper, strays, cut, diar, payload>>
    BY <1>4 DEF TranscribeEnds
  <2>2. asr' \in [of : Audios, segments : Transcripts]
    BY <1>0, <2>1, ParsedJson DEF TypeOK
  <2>3. TypeOK'
    BY <1>0, <2>1, <2>2, NoFiles DEF TypeOK, Ended
  <2>4. InHand'
    BY <1>0, <2>1 DEF InHand, Ended
  <2> QED
    BY <2>3, <2>4 DEF CallInv
<1>5. ASSUME PyannoteLoads \/ LoadFails \/ DiarizeFails PROVE CallInv'
  <2>1. /\ pc \in {"load", "diarize"} /\ pc' \in {"diarize", "failed"}
        /\ UNCHANGED <<build, calls, audio, wav, json, whisper, strays, cut, asr, diar, payload>>
    BY <1>5 DEF PyannoteLoads, LoadFails, DiarizeFails, files, results
  <2>2. TypeOK'
    BY <1>0, <2>1 DEF TypeOK, Ended
  <2>3. InHand'
    BY <1>0, <2>1 DEF InHand, Ended
  <2> QED
    BY <2>2, <2>3 DEF CallInv
<1>6. ASSUME NEW turns \in Diarizations, DiarizeEnds(turns) PROVE CallInv'
  <2>1. /\ pc = "diarize" /\ pc' = "done" /\ diar' = [of |-> wav.of, turns |-> turns]
        /\ payload' = MergeToPayload(asr.segments, turns) /\ wav' = NoWav
        /\ UNCHANGED <<build, calls, audio, json, whisper, strays, cut, asr>>
    BY <1>6 DEF DiarizeEnds
  <2>2. diar' \in [of : Audios, turns : Diarizations]
    BY <1>0, <2>1 DEF InHand
  <2>3. DOMAIN payload'.segments = DOMAIN asr'.segments
    BY <2>1, MergeKeepsSegments
  <2>4. TypeOK'
    BY <1>0, <2>1, <2>2, <2>3, NoFiles DEF TypeOK, Ended
  <2>5. InHand'
    BY <2>1 DEF InHand, Ended
  <2> QED
    BY <2>4, <2>5 DEF CallInv
<1>7. ASSUME Cancel \/ Crash PROVE CallInv'
  <2>1. /\ pc \notin Ended /\ pc' \in {"reap", "failed"} /\ (pc' = "reap" => pc = "read")
        /\ whisper' \in {whisper, "stopping", "none"}
        /\ strays' \in {strays, strays \union Stray}
        /\ UNCHANGED <<build, calls, audio, wav, json, asr, diar, payload>>
    BY <1>0, <1>7 DEF Cancel, Crash, Terminate, files, results
  <2>2. strays' \subseteq [program : {"ffmpeg", "whisper"}, of : Audios]
    BY <1>0, <2>1, StrayTyped DEF TypeOK
  <2>3. cut' \in BOOLEAN
    <3>1. cut' = cut \/ cut' = (pc \in {"reap", "kill"})
      BY <1>7 DEF Cancel, Crash
    <3>2. cut \in BOOLEAN
      BY <1>0 DEF TypeOK
    <3>3. (pc \in {"reap", "kill"}) \in BOOLEAN
      OBVIOUS
    <3> QED
      BY <3>1, <3>2, <3>3
  <2>4. TypeOK'
    BY <1>0, <2>1, <2>2, <2>3 DEF TypeOK, Ended, Alive
  <2>5. InHand'
    BY <1>0, <2>1 DEF InHand, Ended
  <2> QED
    BY <2>4, <2>5 DEF CallInv
<1>8. ASSUME WhisperWrites PROVE CallInv'
  <2>1. /\ pc \notin Ended /\ whisper \in {"running", "stopping"} /\ json' \in JsonOf(wav.of)
        /\ whisper' \in {"written", "stopping"}
        /\ UNCHANGED <<build, calls, audio, pc, wav, strays, cut, asr, diar, payload>>
    BY <1>8 DEF WhisperWrites, results
  <2>2. wav.of \in Audios /\ pc \in {"read", "reap", "kill"}
    BY <1>0, <2>1 DEF InHand, TypeOK, Ended
  <2>3. TypeOK'
    BY <1>0, <2>1, <2>2, JsonOfTyped DEF TypeOK, Alive
  <2>4. InHand'
    BY <1>0, <2>1, <2>2 DEF InHand
  <2> QED
    BY <2>3, <2>4 DEF CallInv
<1>9. ASSUME WhisperEnds \/ WhisperKilled PROVE CallInv'
  <2>1. /\ pc \notin Ended /\ whisper \in Alive /\ whisper' \in {"exit0", "exited"}
        /\ UNCHANGED <<build, calls, audio, pc, wav, json, strays, cut, asr, diar, payload>>
    BY <1>9 DEF WhisperEnds, WhisperKilled, files, results, Alive
  <2>2. pc \in {"read", "reap", "kill"}
    BY <1>0, <2>1 DEF InHand, TypeOK, Ended, Alive
  <2>3. TypeOK'
    BY <1>0, <2>1 DEF TypeOK
  <2>4. InHand'
    BY <1>0, <2>1, <2>2 DEF InHand
  <2> QED
    BY <2>3, <2>4 DEF CallInv
<1>10. ASSUME NEW p \in strays, StrayEnds(p) PROVE CallInv'
  <2>1. /\ p.of \in Audios /\ strays' \subseteq strays
        /\ UNCHANGED <<build, calls, audio, pc, whisper, cut, asr, diar, payload>>
    BY <1>0, <1>10 DEF StrayEnds, results, TypeOK
  <2>2. wav' \in {wav, [of |-> p.of, whole |-> TRUE]} /\ (json' = json \/ json' \in JsonOf(p.of))
    BY <1>10 DEF StrayEnds, files
  <2>3. wav' \in WavFiles
    BY <1>0, <2>1, <2>2, WholeWav DEF TypeOK
  <2>4. TypeOK'
    BY <1>0, <2>1, <2>2, <2>3, JsonOfTyped DEF TypeOK
  <2>5. InHand'
    BY <1>0, <2>1, <2>2 DEF InHand
  <2> QED
    BY <2>4, <2>5 DEF CallInv
<1>11. CASE UNCHANGED vars
  <2>1. TypeOK'
    BY <1>0, <1>11 DEF TypeOK, vars, files, results
  <2>2. InHand'
    BY <1>0, <1>11 DEF InHand, vars, files
  <2> QED
    BY <2>1, <2>2 DEF CallInv
<1> QED
  BY <1>1, <1>2, <1>3, <1>4, <1>5, <1>6, <1>7, <1>8, <1>9, <1>10, <1>11 DEF Next

LEMMA CallInvHolds == Spec => []CallInv
<1>1. Init => CallInv
  <2>1. DOMAIN NoPayload.segments = {}
    BY DEF NoPayload
  <2>2. ASSUME Init PROVE TypeOK
    <3>1. /\ build \in Builds /\ calls = 0 /\ audio = NoAudio /\ pc = "idle" /\ whisper = "none"
          /\ strays = {} /\ asr = NoAsr /\ diar = NoDiar /\ payload = NoPayload
          /\ wav \in WavFiles /\ json \in JsonFiles
      BY <2>2, NoFiles DEF Init
    <3>2. cut \in BOOLEAN
      BY <2>2 DEF Init
    <3>3. calls \in 0 .. MaxCalls
      BY <3>1, CallsAssumption
    <3> QED
      BY <2>1, <3>1, <3>2, <3>3 DEF TypeOK, Ended
  <2>3. Init => InHand
    BY DEF Init, InHand, Ended
  <2> QED
    BY <2>2, <2>3 DEF CallInv
<1> QED
  BY <1>1, CallInvKept, PTL DEF Spec

\* Every step of a call keeps the files, the processes and the results in the
\* shapes the next stage relies on, and the payload has a segment for each of the
\* transcript's, whatever strays and earlier calls left: TypeOK.
THEOREM PipelineTyped == Spec => []TypeOK
<1>1. CallInv => TypeOK
  BY DEF CallInv
<1> QED
  BY <1>1, CallInvHolds, PTL

-------------------------------------------------------------------------------
(***************************************************************************)
(* No whisper-cli outlives its call.                                       *)
(***************************************************************************)
LEMMA ReapedKept ==
  ASSUME CallInv, WhisperReaped, [Next]_vars
  PROVE  WhisperReaped'
<1>0. /\ pc = "normalize" => whisper = "none"
      /\ pc = "load" \/ pc = "diarize" => whisper = "exit0"
  BY DEF CallInv, InHand
<1> SUFFICES ASSUME pc' \in {"done", "failed"}, ~cut' PROVE whisper' \notin Alive
  BY DEF WhisperReaped
<1>1. ASSUME NEW a \in Audios, Call(a) \/ CallRaises(a) PROVE whisper' \notin Alive
  BY <1>1 DEF Call, CallRaises, Called, Alive
<1>2. ASSUME NormalizeFails \/ NormalizeEnds \/ TranscribeRaises PROVE whisper' \notin Alive
  BY <1>0, <1>2 DEF NormalizeFails, NormalizeEnds, TranscribeRaises, Normalized, Alive
<1>3. ASSUME ProgressRaises \/ ReapTimesOut \/ PyannoteLoads PROVE FALSE
  BY <1>3 DEF ProgressRaises, ReapTimesOut, PyannoteLoads, Terminate
<1>4. ASSUME TranscribeFails \/ TranscribeEnds \/ ReapEnds PROVE whisper' \notin Alive
  BY <1>4 DEF TranscribeFails, TranscribeEnds, ReapEnds, Alive
<1>5. ASSUME \/ LoadFails \/ DiarizeFails \/ \E turns \in Diarizations : DiarizeEnds(turns)
      PROVE  whisper' \notin Alive
  BY <1>0, <1>5 DEF LoadFails, DiarizeFails, DiarizeEnds, Alive
<1>6. ASSUME Cancel PROVE whisper' \notin Alive
  <2>1. pc \notin Ended /\ pc \notin {"reap", "kill"}
    BY <1>6 DEF Cancel
  <2>2. CASE pc = "read" /\ whisper \in Alive
    BY <1>6, <2>2 DEF Cancel, Terminate
  <2>3. CASE ~(pc = "read" /\ whisper \in Alive)
    <3>1. whisper' = whisper
      BY <1>6, <2>3 DEF Cancel
    <3> QED
      BY <1>0, <2>1, <2>3, <3>1 DEF CallInv, TypeOK, Alive
  <2> QED
    BY <2>2, <2>3
<1>7. ASSUME Crash PROVE whisper' \notin Alive
  BY <1>7 DEF Crash, Alive
<1>8. ASSUME WhisperWrites \/ WhisperEnds \/ WhisperKilled PROVE FALSE
  BY <1>8 DEF WhisperWrites, WhisperEnds, WhisperKilled, Ended
<1>9. ASSUME UNCHANGED <<pc, cut, whisper>> PROVE whisper' \notin Alive
  BY <1>9 DEF WhisperReaped
<1>10. ASSUME NEW p \in strays, StrayEnds(p) PROVE whisper' \notin Alive
  BY <1>9, <1>10 DEF StrayEnds
<1>11. CASE UNCHANGED vars
  BY <1>9, <1>11 DEF vars
<1> QED
  BY <1>1, <1>2, <1>3, <1>4, <1>5, <1>6, <1>7, <1>8, <1>10, <1>11 DEF Next

\* When a call is over, by its last line, an exception or a cancellation, its
\* whisper-cli is over too, unless a cancellation hit the clean-up itself:
\* WhisperReaped.
THEOREM WhisperIsReaped == Spec => []WhisperReaped
<1>1. Init => WhisperReaped
  BY DEF Init, WhisperReaped
<1>2. CallInv /\ WhisperReaped /\ [Next]_vars => WhisperReaped'
  BY ReapedKept
<1> QED
  BY <1>1, <1>2, CallInvHolds, PTL DEF Spec

-------------------------------------------------------------------------------
(***************************************************************************)
(* A transcript is made from the upload of its call.                       *)
(***************************************************************************)

\* Where the upload of the present call is in what the call has made so far, when
\* no process of an earlier call is left to change it.
Own ==
  /\ pc \notin Ended => strays = {}
  /\ pc \in {"read", "load", "diarize"} => wav.of = audio
  /\ pc = "read" /\ whisper \in {"written", "exit0"} => json.of = audio
  /\ pc \in {"load", "diarize", "done"} => asr.of = audio
  /\ pc = "done" => diar.of = audio

LEMMA OwnKept ==
  ASSUME AwaitStrays, CallInv, Own, [Next]_vars
  PROVE  Own'
<1>0. InHand
  BY DEF CallInv
<1>1. ASSUME NEW a \in Audios, Call(a) \/ CallRaises(a) PROVE Own'
  BY <1>1 DEF Call, CallRaises, Called, Own, Ended
<1>2. ASSUME NormalizeFails \/ NormalizeEnds \/ TranscribeRaises PROVE Own'
  BY <1>0, <1>2 DEF NormalizeFails, NormalizeEnds, TranscribeRaises, Normalized, Own,
     Ended
<1>3. ASSUME ProgressRaises \/ TranscribeFails \/ ReapEnds \/ ReapTimesOut PROVE Own'
  BY <1>3 DEF ProgressRaises, TranscribeFails, ReapEnds, ReapTimesOut, Terminate, Own,
     Ended
<1>4. ASSUME TranscribeEnds PROVE Own'
  BY <1>4 DEF TranscribeEnds, Own, Ended
<1>5. ASSUME PyannoteLoads \/ LoadFails \/ DiarizeFails PROVE Own'
  BY <1>5 DEF PyannoteLoads, LoadFails, DiarizeFails, files, results, Own, Ended
<1>6. ASSUME NEW turns \in Diarizations, DiarizeEnds(turns) PROVE Own'
  BY <1>6 DEF DiarizeEnds, Own, Ended
<1>7. ASSUME Cancel PROVE Own'
  BY <1>7 DEF Cancel, Terminate, Own, Ended
<1>8. ASSUME Crash PROVE Own'
  BY <1>8 DEF Crash, Own, Ended
<1>9. ASSUME WhisperWrites PROVE Own'
  <2>1. /\ json' \in JsonOf(wav.of) /\ pc \in {"read", "reap", "kill"}
        /\ UNCHANGED <<audio, pc, wav, strays, asr, diar>>
    BY <1>0, <1>9 DEF WhisperWrites, results, CallInv, TypeOK, InHand, Ended
  <2>2. json'.of = wav.of
    BY <1>0, <2>1, JsonOfTyped DEF InHand
  <2> QED
    BY <2>1, <2>2 DEF Own, Ended
<1>10. ASSUME WhisperEnds \/ WhisperKilled PROVE Own'
  BY <1>0, <1>10 DEF WhisperEnds, WhisperKilled, files, results, Own, InHand, Ended
<1>11. ASSUME NEW p \in strays, StrayEnds(p) PROVE Own'
  <2>1. pc \in Ended
    BY <1>11 DEF Own
  <2> QED
    BY <1>11, <2>1 DEF StrayEnds, results, Own, Ended
<1>12. CASE UNCHANGED vars
  BY <1>12 DEF vars, files, results, Own
<1> QED
  BY <1>1, <1>2, <1>3, <1>4, <1>5, <1>6, <1>7, <1>8, <1>9, <1>10, <1>11, <1>12 DEF Next

\* If no call starts while a process of an earlier one still runs, a transcript
\* that is returned was made, both halves of it, from the upload of its own call,
\* whatever failures, cancellations and crashes left on disk: ResultIsOwn.
THEOREM ResultIsItsOwn == AwaitStrays => (Spec => []ResultIsOwn)
<1> SUFFICES ASSUME AwaitStrays PROVE Spec => []ResultIsOwn
  OBVIOUS
<1>1. Init => Own
  BY DEF Init, Own, Ended
<1>2. CallInv /\ Own /\ [Next]_vars => Own'
  BY OwnKept
<1>3. Own => ResultIsOwn
  BY DEF Own, ResultIsOwn
<1> QED
  BY <1>1, <1>2, <1>3, CallInvHolds, PTL DEF Spec

-------------------------------------------------------------------------------
(***************************************************************************)
(* Folds.  A fold of the library is a recursive function on sets of        *)
(* indices, that is, some function that solves its equation.  That there   *)
(* is one is proved by induction, which is the well-foundedness of < on    *)
(* Nat put to use on the set of the numbers for which a formula holds.     *)
(***************************************************************************)

\* Induction over the natural numbers, for a set of them.
LEMMA Induction ==
  ASSUME NEW S, 0 \in S, \A n \in Nat : n \in S => n + 1 \in S
  PROVE  Nat \subseteq S
<1> DEFINE Less == OpToRel(<, Nat)
<1> SUFFICES ASSUME Nat \ S # {} PROVE FALSE
  OBVIOUS
<1>1. IsWellFoundedOn(Less, Nat)
  BY NatLessThanWellFounded
<1>2. PICK x \in Nat \ S : \A y \in Nat \ S : <<y, x>> \notin Less
  <2> HIDE DEF Less
  <2> QED BY <1>1, WFMin
<1>3. x # 0 /\ x - 1 \in Nat /\ x - 1 < x
  OBVIOUS
<1>4. <<x - 1, x>> \in Less
  BY <1>3 DEF OpToRel
<1>5. x - 1 \in S
  BY <1>2, <1>3, <1>4
<1> QED
  BY <1>3, <1>5

\* f folds step over the indices up to k, the largest last, from base.
IsFold(f, base, step, k) ==
  f = [s \in SUBSET (1 .. k) |-> IF s = {} THEN base ELSE step[<<f[s \ {Max(s)}], Max(s)>>]]

LEMMA LastIsMax ==
  ASSUME NEW k \in Nat, NEW s \in SUBSET (1 .. k + 1), k + 1 \in s
  PROVE  Max(s) = k + 1
<1>1. \A x \in s : (\A y \in s : x >= y) <=> x = k + 1
  OBVIOUS
<1> QED
  BY <1>1 DEF Max

LEMMA MaxIsElement ==
  ASSUME NEW n \in Nat, NEW s \in SUBSET (1 .. n), s # {}
  PROVE  Max(s) \in s
<1> DEFINE Topped(k) == \A t \in SUBSET (1 .. k) : t # {} => \E x \in t : \A y \in t : x >= y
           S == {k \in Nat : Topped(k)}
<1>1. Topped(0)
  <2>1. \A t \in SUBSET (1 .. 0) : t = {}
    OBVIOUS
  <2> QED
    BY <2>1
<1>2. ASSUME NEW k \in Nat, Topped(k) PROVE Topped(k + 1)
  <2> SUFFICES ASSUME NEW t \in SUBSET (1 .. k + 1), t # {}
               PROVE  \E x \in t : \A y \in t : x >= y
    OBVIOUS
  <2>1. CASE k + 1 \in t
    BY <2>1
  <2>2. CASE k + 1 \notin t
    <3>1. t \in SUBSET (1 .. k)
      BY <2>2
    <3> QED
      BY <1>2, <3>1
  <2> QED
    BY <2>1, <2>2
<1>3. Nat \subseteq S
  <2> HIDE DEF Topped
  <2>1. 0 \in S /\ \A k \in Nat : k \in S => k + 1 \in S
    BY <1>1, <1>2
  <2> HIDE DEF S
  <2> QED
    BY <2>1, Induction
<1>4. \E x \in s : \A y \in s : x >= y
  BY <1>3
<1> QED
  BY <1>4 DEF Max

\* Every step on a set R has a fold over every number of indices.
LEMMA FoldExists ==
  ASSUME NEW n \in Nat, NEW R, NEW base \in R, NEW step \in [R \X (1 .. n) -> R]
  PROVE  \E f \in [SUBSET (1 .. n) -> R] : IsFold(f, base, step, n)
<1> DEFINE Exists(k) == \E f \in [SUBSET (1 .. k) -> R] : IsFold(f, base, step, k)
           S == {k \in Nat : k <= n => Exists(k)}
<1>1. 0 \in S
  <2> DEFINE f == [s \in SUBSET (1 .. 0) |-> base]
  <2>1. \A s \in SUBSET (1 .. 0) : s = {}
    OBVIOUS
  <2>2. f \in [SUBSET (1 .. 0) -> R] /\ IsFold(f, base, step, 0)
    BY <2>1 DEF IsFold
  <2> QED
    BY <2>2
<1>2. ASSUME NEW k \in Nat, k \in S PROVE k + 1 \in S
  <2> SUFFICES ASSUME k + 1 <= n PROVE Exists(k + 1)
    <3> HIDE DEF Exists
    <3> QED OBVIOUS
  <2>6. Exists(k)
    <3> HIDE DEF Exists
    <3>1. k <= n
      OBVIOUS
    <3> QED BY <1>2, <3>1
  <2>1. PICK f \in [SUBSET (1 .. k) -> R] : IsFold(f, base, step, k)
    BY <2>6
  <2> DEFINE g == [s \in SUBSET (1 .. k + 1) |->
                     IF k + 1 \in s THEN step[<<f[s \ {k + 1}], k + 1>>] ELSE f[s]]
  <2>2. \A s \in SUBSET (1 .. k + 1) : s \ {k + 1} \in SUBSET (1 .. k)
    OBVIOUS
  <2>3. g \in [SUBSET (1 .. k + 1) -> R]
    <3> SUFFICES ASSUME NEW s \in SUBSET (1 .. k + 1) PROVE g[s] \in R
      OBVIOUS
    <3>1. CASE k + 1 \in s
      <4>1. <<f[s \ {k + 1}], k + 1>> \in R \X (1 .. n)
        BY <2>2
      <4> QED
        BY <3>1, <4>1
    <3>2. CASE k + 1 \notin s
      <4>1. s \in SUBSET (1 .. k)
        BY <2>2, <3>2
      <4> QED
        BY <3>2, <4>1
    <3> QED
      BY <3>1, <3>2
  <2>4. ASSUME NEW s \in SUBSET (1 .. k + 1)
        PROVE  g[s] = IF s = {} THEN base ELSE step[<<g[s \ {Max(s)}], Max(s)>>]
    <3>1. CASE k + 1 \in s
      <4>1. Max(s) = k + 1
        BY <3>1, LastIsMax
      <4>2. g[s \ {k + 1}] = f[s \ {k + 1}]
        BY <2>2
      <4> QED
        BY <3>1, <4>1, <4>2
    <3>2. CASE k + 1 \notin s
      <4>1. s \in SUBSET (1 .. k)
        BY <2>2, <3>2
      <4>2. s \ {Max(s)} \in SUBSET (1 .. k + 1) /\ s \ {Max(s)} \in SUBSET (1 .. k)
        BY <4>1
      <4>3. g[s] = f[s] /\ g[s \ {Max(s)}] = f[s \ {Max(s)}]
        BY <3>2, <4>1, <4>2
      <4>4. f[s] = IF s = {} THEN base ELSE step[<<f[s \ {Max(s)}], Max(s)>>]
        BY <2>1, <4>1 DEF IsFold
      <4> QED
        BY <4>3, <4>4
    <3> QED
      BY <3>1, <3>2
  <2>5. IsFold(g, base, step, k + 1)
    <3> HIDE DEF g
    <3> QED
      BY <2>3, <2>4 DEF IsFold
  <2> QED
    BY <2>3, <2>5
<1>3. Nat \subseteq S
  <2> HIDE DEF S
  <2> QED
    BY <1>1, <1>2, Induction
<1>4. Exists(n)
  <2> HIDE DEF Exists
  <2> QED BY <1>3
<1> QED
  BY <1>4


-------------------------------------------------------------------------------
(***************************************************************************)
(* _max_overlap: the longest turn.                                         *)
(***************************************************************************)

Names == Labels \union {Unknown}
Bests == [speaker : Names, overlap : Nat]

\* One iteration of the loop, what it starts from, and the fold of MaxOverlap.
Better(seg, turn, best) ==
  IF Improves(Overlap(seg, turn), best)
    THEN [speaker |-> turn.speaker, overlap |-> Overlap(seg, turn)] ELSE best

Nobody == [speaker |-> Unknown, overlap |-> 0]

Best(seg, turns) == CHOOSE f : f =
  [s \in SUBSET DOMAIN turns |->
    IF s = {} THEN Nobody ELSE Better(seg, turns[Max(s)], f[s \ {Max(s)}])]

LEMMA MaxOverlapIsBest ==
  ASSUME NEW seg, NEW turns
  PROVE  MaxOverlap(seg, turns) = Best(seg, turns)[DOMAIN turns].speaker
  BY DEF MaxOverlap, FoldLeft, MapThenFoldSet, Better, Nobody, Best

LEMMA OverlapTyped ==
  ASSUME NEW seg \in Segments, NEW turn \in Turns
  PROVE  Overlap(seg, turn) \in Nat
  BY DEF Segments, Turns, Overlap

LEMMA BetterTyped ==
  ASSUME NEW seg \in Segments, NEW turn \in Turns, NEW best \in Bests
  PROVE  Better(seg, turn, best) \in Bests
<1>1. turn.speaker \in Names
  BY DEF Turns, Names
<1> QED
  BY <1>1, OverlapTyped DEF Better, Bests

\* The indices of a prefix, and the last of them.
LEMMA Prefix ==
  ASSUME NEW n \in Nat, NEW k \in 1 .. n
  PROVE  /\ 1 .. k \in SUBSET (1 .. n)
         /\ 1 .. k # {}
         /\ Max(1 .. k) = k
         /\ (1 .. k) \ {k} = 1 .. k - 1
<1>1. k \in 1 .. k
  OBVIOUS
<1>2. \A x \in 1 .. k : (\A y \in 1 .. k : x >= y) <=> x = k
  OBVIOUS
<1>3. Max(1 .. k) = k
  BY <1>1, <1>2 DEF Max
<1> QED
  BY <1>1, <1>3

\* best and best_overlap after each iteration, from those before it.
LEMMA BestSteps ==
  ASSUME NEW seg \in Segments, NEW turns \in Seq(Turns)
  PROVE  /\ Best(seg, turns)[1 .. 0] = Nobody
         /\ \A k \in 1 .. Len(turns) :
              Best(seg, turns)[1 .. k] = Better(seg, turns[k], Best(seg, turns)[1 .. k - 1])
<1> DEFINE n == Len(turns)
           step == [p \in Bests \X (1 .. n) |-> Better(seg, turns[p[2]], p[1])]
           Solves(f) == f =
             [s \in SUBSET DOMAIN turns |->
                IF s = {} THEN Nobody ELSE Better(seg, turns[Max(s)], f[s \ {Max(s)}])]
<1>1. n \in Nat /\ DOMAIN turns = 1 .. n /\ \A k \in 1 .. n : turns[k] \in Turns
  OBVIOUS
<1>2. Nobody \in Bests
  BY DEF Nobody, Bests, Names
<1>3. step \in [Bests \X (1 .. n) -> Bests]
  BY <1>1, BetterTyped
<1>4. PICK f \in [SUBSET (1 .. n) -> Bests] : IsFold(f, Nobody, step, n)
  <2> HIDE DEF step, n
  <2> QED BY <1>1, <1>2, <1>3, FoldExists
<1>5. Solves(f)
  <2>1. \A s \in SUBSET (1 .. n) : s # {} => Max(s) \in 1 .. n
    BY <1>1, MaxIsElement
  <2>2. \A s \in SUBSET (1 .. n) : s # {} =>
          step[<<f[s \ {Max(s)}], Max(s)>>] = Better(seg, turns[Max(s)], f[s \ {Max(s)}])
    <3> SUFFICES ASSUME NEW s \in SUBSET (1 .. n), s # {}
                 PROVE  step[<<f[s \ {Max(s)}], Max(s)>>]
                          = Better(seg, turns[Max(s)], f[s \ {Max(s)}])
      OBVIOUS
    <3>1. <<f[s \ {Max(s)}], Max(s)>> \in Bests \X (1 .. n)
      BY <2>1
    <3> QED
      BY <3>1
  <2> HIDE DEF step, n
  <2> QED
    BY <1>1, <1>4, <2>2 DEF IsFold
<1>6. Solves(Best(seg, turns))
  <2> HIDE DEF Solves
  <2>1. Best(seg, turns) = CHOOSE g : Solves(g)
    BY DEF Best, Solves
  <2> QED
    BY <1>5, <2>1
<1>7. Best(seg, turns)[1 .. 0] = Nobody
  BY <1>1, <1>6
<1>8. ASSUME NEW k \in 1 .. n
      PROVE  Best(seg, turns)[1 .. k] = Better(seg, turns[k], Best(seg, turns)[1 .. k - 1])
  <2>1. /\ 1 .. k \in SUBSET DOMAIN turns
        /\ 1 .. k # {}
        /\ Max(1 .. k) = k
        /\ (1 .. k) \ {k} = 1 .. k - 1
    BY <1>1, Prefix
  <2> QED
    BY <1>6, <2>1
<1> QED
  BY <1>7, <1>8

\* best is the turn that overlaps the segment longest among the first k, the first
\* one if there are several.
Leads(best, k, seg, turns) ==
  /\ \A m \in 1 .. k : Overlap(seg, turns[m]) <= best.overlap
  /\ best.overlap = 0 => best.speaker = Unknown
  /\ best.overlap > 0 =>
       \E m \in 1 .. k :
         /\ turns[m].speaker = best.speaker
         /\ Overlap(seg, turns[m]) = best.overlap
         /\ \A l \in 1 .. m - 1 : Overlap(seg, turns[l]) < best.overlap

LEMMA BestLeads ==
  ASSUME NEW seg \in Segments, NEW turns \in Seq(Turns)
  PROVE  \A k \in 0 .. Len(turns) :
           Best(seg, turns)[1 .. k] \in Bests /\ Leads(Best(seg, turns)[1 .. k], k, seg, turns)
<1> DEFINE n == Len(turns)
           best(k) == Best(seg, turns)[1 .. k]
           S == {k \in Nat : k <= n => best(k) \in Bests /\ Leads(best(k), k, seg, turns)}
<1>1. n \in Nat /\ \A k \in 1 .. n : turns[k] \in Turns
  OBVIOUS
<1>2. best(0) = Nobody /\ \A k \in 1 .. n : best(k) = Better(seg, turns[k], best(k - 1))
  BY BestSteps
<1>3. best(0) \in Bests /\ Leads(best(0), 0, seg, turns)
  BY <1>2 DEF Nobody, Bests, Names, Leads
<1>4. ASSUME NEW k \in Nat, k + 1 <= n, best(k) \in Bests, Leads(best(k), k, seg, turns)
      PROVE  best(k + 1) \in Bests /\ Leads(best(k + 1), k + 1, seg, turns)
  <2> DEFINE turn == turns[k + 1]
             o == Overlap(seg, turn)
  <2>1. turn \in Turns /\ o \in Nat
    BY <1>1, <1>4, OverlapTyped
  <2>2. best(k + 1) = Better(seg, turn, best(k))
    BY <1>1, <1>2, <1>4
  <2>3. best(k + 1) \in Bests
    BY <1>4, <2>1, <2>2, BetterTyped
  <2>4. \A m \in 1 .. k : Overlap(seg, turns[m]) \in Nat
    BY <1>1, <1>4, OverlapTyped
  <2>5. best(k).overlap \in Nat
    BY <1>4 DEF Bests
  <2> HIDE DEF best
  <2>6. CASE o > best(k).overlap
    <3>1. best(k + 1).speaker = turn.speaker /\ best(k + 1).overlap = o
      BY <2>2, <2>6 DEF Better, Improves
    <3>2. \A m \in 1 .. k : Overlap(seg, turns[m]) < o
      BY <1>4, <2>1, <2>4, <2>5, <2>6 DEF Leads
    <3>3. o > 0
      BY <2>1, <2>5, <2>6
    <3> HIDE DEF o
    <3>4. \A m \in 1 .. k + 1 : Overlap(seg, turns[m]) <= o
      BY <2>1, <3>2, <2>4 DEF o
    <3>5. k + 1 \in 1 .. k + 1 /\ Overlap(seg, turns[k + 1]) = o /\ (k + 1) - 1 = k
      BY DEF o
    <3> QED
      BY <2>3, <3>1, <3>2, <3>3, <3>4, <3>5 DEF Leads
  <2>7. CASE ~(o > best(k).overlap)
    <3>1. best(k + 1) = best(k)
      BY <2>2, <2>7 DEF Better, Improves
    <3>2. o <= best(k).overlap
      BY <2>1, <2>5, <2>7
    <3>3. \A m \in 1 .. k + 1 : Overlap(seg, turns[m]) <= best(k).overlap
      BY <1>4, <3>2 DEF Leads
    <3> QED
      BY <1>4, <3>1, <3>3 DEF Leads
  <2> QED
    BY <2>6, <2>7
<1>5. Nat \subseteq S
  <2> HIDE DEF best
  <2>1. 0 \in S
    BY <1>3
  <2>2. ASSUME NEW k \in Nat, k \in S PROVE k + 1 \in S
    BY <1>1, <1>4, <2>2
  <2> HIDE DEF S
  <2> QED
    BY <2>1, <2>2, Induction
<1> QED
  <2> HIDE DEF best
  <2>1. \A k \in 0 .. n : best(k) \in Bests /\ Leads(best(k), k, seg, turns)
    BY <1>1, <1>5
  <2> QED
    BY <2>1 DEF best

LEMMA MaxOverlapIsLongest ==
  ASSUME NEW seg \in Segments, NEW turns \in Seq(Turns)
  PROVE  /\ MaxOverlap(seg, turns) \in Names
         /\ IsLongest(MaxOverlap(seg, turns), seg, turns)
<1> DEFINE n == Len(turns)
           best == Best(seg, turns)[1 .. n]
<1>1. n \in Nat /\ DOMAIN turns = 1 .. n /\ \A k \in 1 .. n : Overlap(seg, turns[k]) \in Nat
  BY OverlapTyped
<1>2. best \in Bests /\ Leads(best, n, seg, turns)
  BY <1>1, BestLeads
<1>3. MaxOverlap(seg, turns) = best.speaker
  BY <1>1, MaxOverlapIsBest
<1> HIDE DEF best, n
<1>4. best.speaker \in Names /\ best.overlap \in Nat
  BY <1>2 DEF Bests
<1>5. CASE best.overlap = 0
  BY <1>1, <1>2, <1>3, <1>4, <1>5 DEF Leads, IsLongest
<1>6. CASE best.overlap > 0
  BY <1>1, <1>2, <1>3, <1>4, <1>6 DEF Leads, IsLongest
<1> QED
  BY <1>4, <1>3, <1>5, <1>6

-------------------------------------------------------------------------------
(***************************************************************************)
(* merge_to_payload: the numbers.                                          *)
(***************************************************************************)

\* One iteration of the loop, and the fold of Numbered.
Noted(known, label) == IF Contains(known, label) THEN known ELSE Append(known, label)

Notes(raw) == CHOOSE f : f =
  [s \in SUBSET DOMAIN raw |->
    IF s = {} THEN <<>> ELSE Noted(f[s \ {Max(s)}], raw[Max(s)])]

LEMMA NumberedIsNotes ==
  ASSUME NEW raw
  PROVE  Numbered(raw) = Notes(raw)[DOMAIN raw]
  BY DEF Numbered, FoldLeft, MapThenFoldSet, Noted, Notes

\* speaker_map after each iteration, from the one before it.
LEMMA NotesSteps ==
  ASSUME NEW raw \in Seq(Names)
  PROVE  /\ Notes(raw)[1 .. 0] = <<>>
         /\ \A k \in 1 .. Len(raw) :
              Notes(raw)[1 .. k] = Noted(Notes(raw)[1 .. k - 1], raw[k])
<1> DEFINE n == Len(raw)
           step == [p \in Seq(Names) \X (1 .. n) |-> Noted(p[1], raw[p[2]])]
           Solves(f) == f =
             [s \in SUBSET DOMAIN raw |->
                IF s = {} THEN <<>> ELSE Noted(f[s \ {Max(s)}], raw[Max(s)])]
<1>1. n \in Nat /\ DOMAIN raw = 1 .. n /\ \A k \in 1 .. n : raw[k] \in Names
  OBVIOUS
<1>2. <<>> \in Seq(Names)
  OBVIOUS
<1>3. step \in [Seq(Names) \X (1 .. n) -> Seq(Names)]
  <2> SUFFICES ASSUME NEW known \in Seq(Names), NEW k \in 1 .. n
               PROVE  Noted(known, raw[k]) \in Seq(Names)
    OBVIOUS
  <2>1. Append(known, raw[k]) \in Seq(Names)
    BY <1>1
  <2> QED
    BY <2>1 DEF Noted
<1>4. PICK f \in [SUBSET (1 .. n) -> Seq(Names)] : IsFold(f, <<>>, step, n)
  <2> HIDE DEF step, n
  <2> QED BY <1>1, <1>2, <1>3, FoldExists
<1>5. Solves(f)
  <2>1. \A s \in SUBSET (1 .. n) : s # {} => Max(s) \in 1 .. n
    BY <1>1, MaxIsElement
  <2>2. \A s \in SUBSET (1 .. n) : s # {} =>
          step[<<f[s \ {Max(s)}], Max(s)>>] = Noted(f[s \ {Max(s)}], raw[Max(s)])
    <3> SUFFICES ASSUME NEW s \in SUBSET (1 .. n), s # {}
                 PROVE  step[<<f[s \ {Max(s)}], Max(s)>>] = Noted(f[s \ {Max(s)}], raw[Max(s)])
      OBVIOUS
    <3>1. <<f[s \ {Max(s)}], Max(s)>> \in Seq(Names) \X (1 .. n)
      BY <2>1
    <3> QED
      BY <3>1
  <2> HIDE DEF step, n
  <2> QED
    BY <1>1, <1>4, <2>2 DEF IsFold
<1>6. Solves(Notes(raw))
  <2> HIDE DEF Solves
  <2>1. Notes(raw) = CHOOSE g : Solves(g)
    BY DEF Notes, Solves
  <2> QED
    BY <1>5, <2>1
<1>7. Notes(raw)[1 .. 0] = <<>>
  BY <1>1, <1>6
<1>8. ASSUME NEW k \in 1 .. n
      PROVE  Notes(raw)[1 .. k] = Noted(Notes(raw)[1 .. k - 1], raw[k])
  <2>1. /\ 1 .. k \in SUBSET DOMAIN raw
        /\ 1 .. k # {}
        /\ Max(1 .. k) = k
        /\ (1 .. k) \ {k} = 1 .. k - 1
    BY <1>1, Prefix
  <2> QED
    BY <1>6, <2>1
<1> QED
  BY <1>7, <1>8

\* known lists the first k labels of raw, each once, in the order of appearance.
Lists(known, k, raw) ==
  /\ \A l, m \in DOMAIN known : known[l] = known[m] => l = m
  /\ \A i \in 1 .. k : \E m \in DOMAIN known : known[m] = raw[i]
  /\ \A m \in DOMAIN known : \E i \in 1 .. k : known[m] = raw[i]
  /\ \A i \in 1 .. k, l, m \in DOMAIN known :
       known[m] = raw[i] /\ l < m => \E j \in 1 .. i - 1 : raw[j] = known[l]

LEMMA NotedLists ==
  ASSUME NEW k \in Nat, NEW known \in Seq(Names), NEW raw \in Seq(Names),
         k + 1 <= Len(raw), Lists(known, k, raw)
  PROVE  /\ Noted(known, raw[k + 1]) \in Seq(Names)
         /\ Lists(Noted(known, raw[k + 1]), k + 1, raw)
<1> DEFINE label == raw[k + 1]
           next == Noted(known, label)
           N == Len(known)
<1>1. label \in Names /\ N \in Nat /\ DOMAIN known = 1 .. N
  OBVIOUS
<1>2. /\ \A l, m \in 1 .. N : known[l] = known[m] => l = m
      /\ \A i \in 1 .. k : \E m \in 1 .. N : known[m] = raw[i]
      /\ \A m \in 1 .. N : \E i \in 1 .. k : known[m] = raw[i]
      /\ \A i \in 1 .. k, l, m \in 1 .. N :
           known[m] = raw[i] /\ l < m => \E j \in 1 .. i - 1 : raw[j] = known[l]
  BY <1>1, Zenon DEF Lists
<1>3. CASE Contains(known, label)
  <2>1. next = known
    BY <1>3 DEF Noted
  <2>2. \E m \in 1 .. N : known[m] = raw[k + 1]
    BY <1>3 DEF Contains
  <2> HIDE DEF next, N, label
  <2>3. \A i \in 1 .. k + 1 : i \in 1 .. k \/ i = k + 1
    OBVIOUS
  <2>4. \A i \in 1 .. k + 1 : \E m \in 1 .. N : known[m] = raw[i]
    BY <1>2, <2>2, <2>3, Zenon
  <2>5. \A m \in 1 .. N : \E i \in 1 .. k + 1 : known[m] = raw[i]
    BY <1>2
  <2>6. \A i \in 1 .. k + 1, l, m \in 1 .. N :
          known[m] = raw[i] /\ l < m => \E j \in 1 .. i - 1 : raw[j] = known[l]
    <3> SUFFICES ASSUME NEW i \in 1 .. k + 1, NEW l \in 1 .. N, NEW m \in 1 .. N,
                        known[m] = raw[i], l < m
                 PROVE  \E j \in 1 .. i - 1 : raw[j] = known[l]
      OBVIOUS
    <3>1. CASE i \in 1 .. k
      BY <1>2, <3>1
    <3>2. CASE i = k + 1
      <4>1. i - 1 = k
        BY <3>2
      <4> QED
        BY <1>2, <4>1
    <3> QED
      BY <2>3, <3>1, <3>2
  <2>7. Lists(known, k + 1, raw)
    <3>1. \A l, m \in DOMAIN known : known[l] = known[m] => l = m
      BY <1>1, <1>2, Zenon
    <3>2. \A i \in 1 .. k + 1 : \E m \in DOMAIN known : known[m] = raw[i]
      BY <1>1, <2>4, Zenon
    <3>3. \A m \in DOMAIN known : \E i \in 1 .. k + 1 : known[m] = raw[i]
      BY <1>1, <2>5, Zenon
    <3>4. \A i \in 1 .. k + 1, l, m \in DOMAIN known :
            known[m] = raw[i] /\ l < m => \E j \in 1 .. i - 1 : raw[j] = known[l]
      BY <1>1, <2>6, Zenon
    <3> QED
      BY <3>1, <3>2, <3>3, <3>4, Zenon DEF Lists
  <2> QED
    BY <2>1, <2>7 DEF next, label
<1>4. CASE ~Contains(known, label)
  <2>1. next = Append(known, label)
    BY <1>4 DEF Noted
  <2>2. /\ next \in Seq(Names)
        /\ DOMAIN next = 1 .. N + 1
        /\ \A m \in 1 .. N : next[m] = known[m]
        /\ next[N + 1] = label
    BY <1>1, <2>1
  <2>3. \A m \in 1 .. N : known[m] # label
    BY <1>4 DEF Contains
  <2>4. label = raw[k + 1]
    OBVIOUS
  <2> HIDE DEF next, N, label
  <2>5. /\ \A m \in 1 .. N + 1 : m \in 1 .. N \/ m = N + 1
        /\ \A m \in 1 .. N : m \in 1 .. N + 1
        /\ N + 1 \in 1 .. N + 1
    BY <1>1
  <2>6. /\ \A i \in 1 .. k + 1 : i \in 1 .. k \/ i = k + 1
        /\ \A i \in 1 .. k : i \in 1 .. k + 1
        /\ k + 1 \in 1 .. k + 1
    OBVIOUS
  <2>7. \A l, m \in 1 .. N + 1 : next[l] = next[m] => l = m
    <3> SUFFICES ASSUME NEW l \in 1 .. N + 1, NEW m \in 1 .. N + 1, next[l] = next[m]
                 PROVE  l = m
      OBVIOUS
    <3>1. CASE l \in 1 .. N /\ m \in 1 .. N
      BY <1>2, <2>2, <3>1, Zenon
    <3>2. CASE l = N + 1 \/ m = N + 1
      BY <2>2, <2>3, <2>5, <3>2, Zenon
    <3> QED
      BY <2>5, <3>1, <3>2, Zenon
  <2>8. ASSUME NEW i \in 1 .. k + 1 PROVE \E m \in 1 .. N + 1 : next[m] = raw[i]
    <3>1. CASE i \in 1 .. k
      <4>1. PICK m \in 1 .. N : known[m] = raw[i]
        BY <1>2, <3>1, Zenon
      <4>2. m \in 1 .. N + 1 /\ next[m] = raw[i]
        BY <2>2, <2>5, <4>1, Zenon
      <4> QED
        BY <4>2
    <3>2. CASE i = k + 1
      BY <2>2, <2>4, <2>5, <3>2, Zenon
    <3> QED
      BY <2>6, <3>1, <3>2, Zenon
  <2>9. ASSUME NEW m \in 1 .. N + 1 PROVE \E i \in 1 .. k + 1 : next[m] = raw[i]
    <3>1. CASE m \in 1 .. N
      <4>1. PICK i \in 1 .. k : known[m] = raw[i]
        BY <1>2, <3>1, Zenon
      <4>2. i \in 1 .. k + 1 /\ next[m] = raw[i]
        BY <2>2, <2>6, <3>1, <4>1, Zenon
      <4> QED
        BY <4>2
    <3>2. CASE m = N + 1
      BY <2>2, <2>4, <2>6, <3>2, Zenon
    <3> QED
      BY <2>5, <3>1, <3>2, Zenon
  <2>10. \A i \in 1 .. k + 1, l, m \in 1 .. N + 1 :
           next[m] = raw[i] /\ l < m => \E j \in 1 .. i - 1 : raw[j] = next[l]
    <3> SUFFICES ASSUME NEW i \in 1 .. k + 1, NEW l \in 1 .. N + 1, NEW m \in 1 .. N + 1,
                        next[m] = raw[i], l < m
                 PROVE  \E j \in 1 .. i - 1 : raw[j] = next[l]
      OBVIOUS
    <3>1. l \in 1 .. N
      BY <1>1
    <3>2. next[l] = known[l]
      BY <2>2, <3>1
    <3>3. CASE i = k + 1
      <4>1. i - 1 = k
        BY <3>3
      <4> QED
        BY <1>2, <3>1, <3>2, <4>1
    <3>4. CASE i \in 1 .. k
      <4>1. PICK p \in 1 .. N : known[p] = raw[i]
        BY <1>2, <3>4
      <4>2. m = p
        BY <2>2, <2>5, <2>7, <4>1, Zenon
      <4> QED
        BY <1>2, <3>1, <3>2, <3>4, <4>1, <4>2
    <3> QED
      BY <2>6, <3>3, <3>4
  <2>11. next \in Seq(Names) /\ Lists(next, k + 1, raw)
    BY <2>2, <2>7, <2>8, <2>9, <2>10, Zenon DEF Lists
  <2> QED
    BY <2>11 DEF next, label
<1> QED
  BY <1>3, <1>4

LEMMA NumberedLists ==
  ASSUME NEW raw \in Seq(Names)
  PROVE  Numbered(raw) \in Seq(Names) /\ Lists(Numbered(raw), Len(raw), raw)
<1> DEFINE n == Len(raw)
           known(k) == Notes(raw)[1 .. k]
           S == {k \in Nat : k <= n => known(k) \in Seq(Names) /\ Lists(known(k), k, raw)}
<1>1. n \in Nat /\ DOMAIN raw = 1 .. n
  OBVIOUS
<1>2. known(0) = <<>> /\ \A k \in 1 .. n : known(k) = Noted(known(k - 1), raw[k])
  BY NotesSteps
<1> HIDE DEF known
<1>3. known(0) \in Seq(Names) /\ Lists(known(0), 0, raw)
  <2>1. <<>> \in Seq(Names) /\ DOMAIN <<>> = {} /\ 1 .. 0 = {}
    OBVIOUS
  <2>2. Lists(<<>>, 0, raw)
    BY <2>1, Zenon DEF Lists
  <2> QED
    BY <1>2, <2>1, <2>2
<1>4. ASSUME NEW k \in Nat, k + 1 <= n, known(k) \in Seq(Names), Lists(known(k), k, raw)
      PROVE  known(k + 1) \in Seq(Names) /\ Lists(known(k + 1), k + 1, raw)
  <2>1. known(k + 1) = Noted(known(k), raw[k + 1])
    BY <1>1, <1>2, <1>4
  <2> QED
    BY <1>4, <2>1, NotedLists
<1>5. Nat \subseteq S
  <2>1. 0 \in S
    BY <1>3
  <2>2. ASSUME NEW k \in Nat, k \in S PROVE k + 1 \in S
    BY <1>1, <1>4, <2>2
  <2> HIDE DEF S
  <2> QED
    BY <2>1, <2>2, Induction
<1>6. known(n) \in Seq(Names) /\ Lists(known(n), n, raw)
  BY <1>1, <1>5
<1> QED
  BY <1>1, <1>6, NumberedIsNotes DEF known

\* merge_to_payload, for every transcript and every diarization, of any length and in
\* any order: each segment has the speaker of the longest turn in it, the first of
\* equally long ones, no two speakers share a number, and numbers are given without
\* gaps in the order in which the speakers first speak.
THEOREM MergeTagsAndNumbers ==
  ASSUME NEW asrs \in Seq(Segments), NEW turns \in Seq(Turns)
  PROVE  /\ TaggedByLongest(MergeToPayload(asrs, turns), asrs, turns)
         /\ NumberedByAppearance(MergeToPayload(asrs, turns))
<1> DEFINE n == Len(asrs)
           raw == [i \in DOMAIN asrs |-> MaxOverlap(asrs[i], turns)]
           known == Numbered(raw)
           N == Len(known)
           p == MergeToPayload(asrs, turns)
           id(i) == p.segments[i].speaker
<1>1. n \in Nat /\ DOMAIN asrs = 1 .. n /\ \A i \in 1 .. n : asrs[i] \in Segments
  OBVIOUS
<1>2. \A i \in 1 .. n : raw[i] \in Names /\ IsLongest(raw[i], asrs[i], turns)
  BY <1>1, MaxOverlapIsLongest
<1>3. raw \in Seq(Names) /\ Len(raw) = n
  BY <1>1, <1>2
<1>4. known \in Seq(Names) /\ Lists(known, n, raw)
  <2> HIDE DEF raw, n
  <2> QED BY <1>3, NumberedLists
<1>5. N \in Nat /\ DOMAIN known = 1 .. N
  <2> HIDE DEF known
  <2> QED BY <1>4
<1>6. /\ \A l, m \in 1 .. N : known[l] = known[m] => l = m
      /\ \A i \in 1 .. n : \E m \in 1 .. N : known[m] = raw[i]
      /\ \A m \in 1 .. N : \E i \in 1 .. n : known[m] = raw[i]
      /\ \A i \in 1 .. n, l, m \in 1 .. N :
           known[m] = raw[i] /\ l < m => \E j \in 1 .. i - 1 : raw[j] = known[l]
  <2> HIDE DEF known, raw, n, N
  <2> QED BY <1>4, <1>5, Zenon DEF Lists
<1>7. /\ p.speakers = [m \in 1 .. N |-> m - 1]
      /\ DOMAIN p.segments = 1 .. n
      /\ \A i \in 1 .. n : id(i) = (CHOOSE m \in DOMAIN known : known[m] = raw[i]) - 1
  <2>1. /\ p.speakers = [m \in DOMAIN known |-> m - 1]
        /\ p.segments = [i \in DOMAIN asrs |->
                           [start |-> asrs[i].start, end |-> asrs[i].end,
                            speaker |-> (CHOOSE m \in DOMAIN known : known[m] = raw[i]) - 1]]
    BY DEF MergeToPayload
  <2> HIDE DEF known, raw, n, N, p
  <2>2. p.speakers = [m \in 1 .. N |-> m - 1]
    BY <1>5, <2>1
  <2>3. DOMAIN p.segments = 1 .. n
    BY <1>1, <2>1
  <2>4. \A i \in 1 .. n : id(i) = (CHOOSE m \in DOMAIN known : known[m] = raw[i]) - 1
    BY <1>1, <2>1
  <2> QED BY <2>2, <2>3, <2>4
<1> HIDE DEF known, raw, n, N, p
<1>8. \A i \in 1 .. n : id(i) \in 0 .. N - 1 /\ known[id(i) + 1] = raw[i]
  <2> SUFFICES ASSUME NEW i \in 1 .. n
               PROVE  id(i) \in 0 .. N - 1 /\ known[id(i) + 1] = raw[i]
    OBVIOUS
  <2> DEFINE m == CHOOSE m \in DOMAIN known : known[m] = raw[i]
  <2>1. m \in 1 .. N /\ known[m] = raw[i]
    BY <1>5, <1>6
  <2>2. id(i) = m - 1
    BY <1>7
  <2> HIDE DEF m, id
  <2>3. id(i) + 1 = m
    BY <2>1, <2>2, <1>5
  <2> QED
    BY <2>1, <2>2, <2>3, <1>5
<1>9. Ids(p) = {id(i) : i \in 1 .. n}
  BY <1>7 DEF Ids
<1> HIDE DEF id
<1>10. TaggedByLongest(p, asrs, turns)
  <2> DEFINE name == [m \in Ids(p) |-> known[m + 1]]
  <2>1. \A m \in Ids(p) : m \in 0 .. N - 1 /\ known[m + 1] \in Names
    BY <1>2, <1>8, <1>9
  <2>2. name \in [Ids(p) -> Labels \union {Unknown}]
    BY <2>1 DEF Names
  <2>3. \A l, m \in Ids(p) : name[l] = name[m] => l = m
    <3> SUFFICES ASSUME NEW l \in Ids(p), NEW m \in Ids(p), known[l + 1] = known[m + 1]
                 PROVE  l = m
      OBVIOUS
    <3>1. l + 1 \in 1 .. N /\ m + 1 \in 1 .. N /\ l \in Int /\ m \in Int
      BY <1>5, <2>1
    <3>2. l + 1 = m + 1
      BY <1>6, <3>1
    <3> QED
      BY <3>1, <3>2
  <2>4. \A i \in DOMAIN asrs : IsLongest(name[p.segments[i].speaker], asrs[i], turns)
    BY <1>1, <1>2, <1>8, <1>9 DEF id
  <2> HIDE DEF name
  <2> QED
    BY <2>2, <2>3, <2>4 DEF TaggedByLongest
<1>11. NumberedByAppearance(p)
  <2>1. ToSet(p.speakers) = Ids(p)
    <3>1. ToSet(p.speakers) = 0 .. N - 1
      <4>1. DOMAIN p.speakers = 1 .. N /\ \A m \in 1 .. N : p.speakers[m] = m - 1
        BY <1>7
      <4>2. \A m \in 0 .. N - 1 : m + 1 \in 1 .. N /\ m = (m + 1) - 1
        BY <1>5
      <4>3. \A m \in 1 .. N : m - 1 \in 0 .. N - 1
        BY <1>5
      <4>4. ToSet(p.speakers) \subseteq 0 .. N - 1
        BY <4>1, <4>3 DEF ToSet
      <4>5. ASSUME NEW m \in 0 .. N - 1 PROVE m \in ToSet(p.speakers)
        <5>1. m + 1 \in DOMAIN p.speakers /\ p.speakers[m + 1] = m
          BY <4>1, <4>2
        <5> QED
          BY <5>1 DEF ToSet
      <4> QED
        BY <4>4, <4>5
    <3>2. Ids(p) \subseteq 0 .. N - 1
      BY <1>8, <1>9
    <3>3. ASSUME NEW m \in 0 .. N - 1 PROVE m \in Ids(p)
      <4>1. m + 1 \in 1 .. N
        BY <1>5
      <4>2. PICK i \in 1 .. n : known[m + 1] = raw[i]
        BY <1>6, <4>1
      <4>3. id(i) \in 0 .. N - 1 /\ id(i) + 1 \in 1 .. N /\ known[id(i) + 1] = raw[i]
        BY <1>5, <1>8
      <4>4. id(i) + 1 = m + 1
        BY <1>6, <4>1, <4>2, <4>3
      <4>5. id(i) = m
        BY <4>3, <4>4
      <4> QED
        BY <1>9, <4>5
    <3> QED
      BY <3>1, <3>2, <3>3
  <2>2. \A m \in DOMAIN p.speakers : p.speakers[m] = m - 1
    BY <1>7
  <2>3. ASSUME NEW i \in 1 .. n, NEW m \in 0 .. id(i) - 1
        PROVE  \E j \in 1 .. i - 1 : id(j) = m
    <3>1. id(i) \in 0 .. N - 1 /\ id(i) + 1 \in 1 .. N /\ known[id(i) + 1] = raw[i]
      BY <1>5, <1>8
    <3>2. m + 1 \in 1 .. N /\ m + 1 < id(i) + 1 /\ m \in Int
      BY <1>5, <3>1
    <3>3. PICK j \in 1 .. i - 1 : raw[j] = known[m + 1]
      BY <1>6, <3>1, <3>2
    <3>4. j \in 1 .. n
      BY <1>1
    <3>5. id(j) \in 0 .. N - 1 /\ id(j) + 1 \in 1 .. N /\ known[id(j) + 1] = raw[j]
      BY <1>5, <1>8, <3>4
    <3>6. id(j) + 1 = m + 1
      BY <1>6, <3>2, <3>3, <3>5
    <3>7. id(j) = m
      BY <3>2, <3>5, <3>6
    <3> QED
      BY <3>7
  <2> QED
    BY <1>7, <2>1, <2>2, <2>3 DEF NumberedByAppearance, id
<1> QED
  BY <1>10, <1>11 DEF p

-------------------------------------------------------------------------------
(***************************************************************************)
(* What a call that is over returns.                                       *)
(***************************************************************************)
Merged ==
  pc = "done" => /\ asr.segments \in Seq(Segments)
                 /\ diar.turns \in Seq(Turns)
                 /\ payload = MergeToPayload(asr.segments, diar.turns)

LEMMA MergedKept ==
  ASSUME CallInv, Merged, [Next]_vars
  PROVE  Merged'
<1>1. ASSUME UNCHANGED results, pc' # "done" \/ pc' = pc PROVE Merged'
  BY <1>1 DEF Merged, results
<1>2. ASSUME pc' # "done" PROVE Merged'
  BY <1>2 DEF Merged
<1>3. ASSUME NEW a \in Audios, Call(a) \/ CallRaises(a) PROVE Merged'
  BY <1>2, <1>3 DEF Call, CallRaises
<1>4. ASSUME NormalizeFails \/ NormalizeEnds \/ TranscribeRaises PROVE Merged'
  BY <1>2, <1>4 DEF NormalizeFails, NormalizeEnds, TranscribeRaises
<1>5. ASSUME ProgressRaises \/ TranscribeFails \/ TranscribeEnds PROVE Merged'
  BY <1>2, <1>5 DEF ProgressRaises, Terminate, TranscribeFails, TranscribeEnds
<1>6. ASSUME ReapEnds \/ ReapTimesOut \/ PyannoteLoads \/ LoadFails \/ DiarizeFails
      PROVE  Merged'
  BY <1>2, <1>6 DEF ReapEnds, ReapTimesOut, PyannoteLoads, LoadFails, DiarizeFails
<1>7. ASSUME NEW turns \in Diarizations, DiarizeEnds(turns) PROVE Merged'
  <2>1. /\ asr' = asr /\ diar'.turns = turns
        /\ payload' = MergeToPayload(asr.segments, turns)
    BY <1>7 DEF DiarizeEnds
  <2>2. turns \in Seq(Turns)
    BY MergedAssumption
  <2>3. asr.segments \in Seq(Segments)
    <3>1. asr \in {NoAsr} \union [of : Audios, segments : Transcripts]
      BY DEF CallInv, TypeOK
    <3>2. CASE asr = NoAsr
      BY <3>2 DEF NoAsr
    <3>3. CASE asr \in [of : Audios, segments : Transcripts]
      BY <3>3, MergedAssumption
    <3> QED
      BY <3>1, <3>2, <3>3
  <2> QED
    BY <2>1, <2>2, <2>3 DEF Merged
<1>8. ASSUME Cancel \/ Crash PROVE Merged'
  BY <1>2, <1>8 DEF Cancel, Crash, Terminate
<1>9. ASSUME WhisperWrites \/ WhisperEnds \/ WhisperKilled PROVE Merged'
  BY <1>1, <1>9 DEF WhisperWrites, WhisperEnds, WhisperKilled
<1>10. ASSUME NEW p \in strays, StrayEnds(p) PROVE Merged'
  BY <1>1, <1>10 DEF StrayEnds
<1>11. CASE UNCHANGED vars
  BY <1>1, <1>11 DEF vars
<1> QED
  BY <1>3, <1>4, <1>5, <1>6, <1>7, <1>8, <1>9, <1>10, <1>11 DEF Next

LEMMA MergedHolds == Spec => []Merged
<1>1. Init => Merged
  BY DEF Init, Merged
<1> QED
  BY <1>1, CallInvHolds, MergedKept, PTL DEF Spec

\* Every segment of a result has the speaker with the longest turn in it, and every
\* speaker one number: TagIsMaxOverlap.
THEOREM TagsAreLongest == Spec => []TagIsMaxOverlap
<1>1. Merged => TagIsMaxOverlap
  BY MergeTagsAndNumbers DEF Merged, TagIsMaxOverlap
<1> QED
  BY <1>1, MergedHolds, PTL

\* The numbers of a result follow the order in which the speakers first speak, and
\* the list of speakers names those that do: SpeakersNumbered.
THEOREM NumbersByAppearance == Spec => []SpeakersNumbered
<1>1. Merged => SpeakersNumbered
  BY MergeTagsAndNumbers DEF Merged, SpeakersNumbered
<1> QED
  BY <1>1, MergedHolds, PTL
================================================================================
