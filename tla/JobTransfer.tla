------------------------------ MODULE JobTransfer ------------------------------
(***************************************************************************)
(* InboundJob driven by the frontend of one job, which reconnects and      *)
(* resumes (RTC-06).  The frontend is not in this repository: it is        *)
(* modelled from the exchange webrtc/handler.py answers and protocol/      *)
(* messages.py describes.  On each channel it asks where to resume, sends  *)
(* the rest of its file from the offset it was told, then audio_eof.       *)
(***************************************************************************)
EXTENDS InboundJob

CONSTANTS
  Source,    \* Source[f]: the bytes of the file whose sha256_hex is f
  InitFirst  \* is job_init sent before the resume_query, or only when the
             \* answer is 0 and the upload starts afresh?

ASSUME SourceAssumption == \A f \in Shas : Source[f] \in Seq(Byte)
ASSUME InitFirstAssumption == InitFirst \in BOOLEAN

\* What the frontend may send: the announcement, the question, and every file byte
\* by byte.
FrontendMessages ==
       [kind : {"job_init", "resume_query"}, sha : Shas]
  \cup (UNION {{[kind |-> "chunk", bytes |-> <<Source[f][n]>>] : n \in 1..Len(Source[f])} :
               f \in Shas})
  \cup [kind : {"audio_eof"}]

ASSUME FrontendAssumption == FrontendMessages \subseteq Inbox

VARIABLES
  plan,  \* what the frontend does next on each channel
  src,   \* the file it uploads there
  pos    \* the offset of the next byte it sends

frontend == <<plan, src, pos>>
allVars == <<vars, frontend>>

Plans == {"away", "init", "ask", "wait", "send", "over"}

TransferTypeOK ==
  /\ TypeOK
  /\ plan \in [Handlers -> Plans]
  /\ src \in [Handlers -> Shas]
  /\ pos \in [Handlers -> Nat]

TransferInit ==
  /\ Init
  /\ plan = [h \in Handlers |-> "away"]
  /\ src \in [Handlers -> Shas]
  /\ pos = [h \in Handlers |-> 0]

Then(h, from, to) ==
  /\ plan[h] = from
  /\ plan' = [plan EXCEPT ![h] = to]

Connects(h) ==
  /\ Then(h, "away", IF InitFirst THEN "init" ELSE "ask")
  /\ Bind(h)
  /\ UNCHANGED <<src, pos>>

SendsInit(h) ==
  /\ Then(h, "init", IF InitFirst THEN "ask" ELSE "send")
  /\ Receive(h, [kind |-> "job_init", sha |-> src[h]])
  /\ UNCHANGED <<src, pos>>

SendsQuery(h) ==
  /\ Then(h, "ask", "wait")
  /\ Receive(h, [kind |-> "resume_query", sha |-> src[h]])
  /\ UNCHANGED <<src, pos>>

HearsOffset(h) ==
  /\ resumed[h] # NoReply
  /\ Then(h, "wait", IF resumed[h] = 0 /\ ~InitFirst THEN "init" ELSE "send")
  /\ pos' = [pos EXCEPT ![h] = resumed[h]]
  /\ UNCHANGED <<vars, src>>

SendsByte(h) ==
  /\ pos[h] < Len(Source[src[h]])
  /\ Then(h, "send", "send")
  /\ Receive(h, [kind |-> "chunk", bytes |-> <<Source[src[h]][pos[h] + 1]>>])
  /\ pos' = [pos EXCEPT ![h] = @ + 1]
  /\ UNCHANGED src

SendsEof(h) ==
  /\ pos[h] >= Len(Source[src[h]])
  /\ Then(h, "send", "over")
  /\ Receive(h, [kind |-> "audio_eof"])
  /\ UNCHANGED <<src, pos>>

Frontend(h) ==
  \/ Connects(h) \/ SendsInit(h) \/ SendsQuery(h)
  \/ HearsOffset(h) \/ SendsByte(h) \/ SendsEof(h)

TransferNext ==
  \/ \E h \in Handlers : Frontend(h)
  \/ /\ \/ \E h \in Handlers : Engine(h) \/ Interruption(h)
        \/ EngineCrash
        \/ PowerLoss
     /\ UNCHANGED frontend

TransferSpec == TransferInit /\ [][TransferNext]_allVars

FairTransfer ==
  /\ TransferSpec
  /\ \A h \in Handlers : WF_allVars(ConsumerStep(h) /\ UNCHANGED frontend)
  /\ \A h \in Handlers : WF_allVars(PipelineStep(h) /\ UNCHANGED frontend)

-------------------------------------------------------------------------------
(***************************************************************************)
(* Properties.                                                             *)
(***************************************************************************)

\* test_resume_protocol.py:14: the pipeline receives the full reassembled
\* file, each byte once and in its place, however often the upload was
\* interrupted and resumed.
PipelineGetsSource == \A h \in Handlers : input[h] # <<>> => input[h] = Source[src[h]]

\* messages.py:132: the bytes in .partial belong to the file the sidecar names;
\* a resume it lets through cannot splice two files.
PartialIsPrefix ==
  partialEnt # NoInode /\ sidecar \in Shas =>
    /\ Len(data[partialEnt]) <= Len(Source[sidecar])
    /\ \A n \in 1..Len(data[partialEnt]) : data[partialEnt][n] = Source[sidecar][n]

\* handler.py:282: "No audio bytes received before end-of-file." is said only
\* of an upload of which the engine holds nothing.
NoAudioMeansNone ==
  [][\A h \in Handlers :
       verdicts'[h] # verdicts[h] /\ verdicts'[h] = <<"no_audio_received">>
         => PF!PartialSize = 0]_allVars
===============================================================================
