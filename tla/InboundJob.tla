------------------------------- MODULE InboundJob -------------------------------
(***************************************************************************)
(* webrtc/handler.py: the InboundJobHandlers of one job_id.                *)
(*                                                                         *)
(* A handler is one data channel's consumer task, its inbound queue and,   *)
(* after audio_eof, a pipeline task.  Everything runs on one asyncio loop, *)
(* so an action is the code between two awaits that really suspend: the    *)
(* consumer waiting for a message ("ready") or for emit_state("transcrib-  *)
(* ing") ("emit"), and the awaits of _run_pipeline (the values of task).   *)
(* All handlers share the paths of the job: <job_id>.partial and <job_id>  *)
(* (PartialFile) and the sidecar <job_id>.meta.json.                       *)
(***************************************************************************)
EXTENDS Integers, Sequences

CONSTANTS
  Handlers,            \* InboundJobHandler objects made for the job_id
  Inodes, NoInode, Byte, CheckpointInterval, MaxBytes,  \* as in PartialFile
  Chunks,              \* binary messages, none above _MAX_CHUNK_BYTES
  Shas,                \* valid SHA-256 strings
  NoSha,               \* a sha256_hex that is missing or empty
  NotText,             \* a sha256_hex that is not a string
  NoSidecar,           \* there is no <job_id>.meta.json
  Unreadable,          \* there is one, but no JSON can be read from it
  QueueMax,            \* _INBOUND_QUEUE_MAXSIZE
  MaxInbound,          \* MAX_INBOUND_FILE_BYTES
  Inbox,               \* the messages a client may send
  MaxDeliveries,       \* bound of the model: messages sent per channel
  Admission,           \* when another handler may start: "always", "when_closed"
                       \* (the channels before it are, and what they had queued
                       \* is handled), or "when_done"
  Faults               \* which failures the environment has; "disk": a call of
                       \* open(), write() or fsync() raises; "full": one of close()

ASSUME HandlerInodeAssumption == NoInode \notin Inodes
ASSUME HandlerFileAssumption ==
  CheckpointInterval \in Nat \ {0} /\ Chunks \subseteq Seq(Byte)
ASSUME ShasAssumption == {NoSha, NotText, NoSidecar, Unreadable} \cap Shas = {}
ASSUME LimitsAssumption == {QueueMax, MaxInbound, MaxDeliveries, MaxBytes} \subseteq Nat
ASSUME FaultsAssumption == Faults \subseteq {"drop", "close", "disk", "crash", "power",
                                        "close_raises", "unheard", "full"}
ASSUME AdmissionAssumption == Admission \in {"always", "when_closed", "when_done"}

Messages ==
       [kind : {"chunk"}, bytes : Chunks]
  \cup [kind : {"job_init"}, sha : Shas]
  \cup [kind : {"audio_eof"}]
  \cup [kind : {"resume_query"}, sha : Shas \cup {NoSha, NotText}]
  \cup [kind : {"other"}]  \* ping, and all that is dropped or ignored

ASSUME InboxAssumption == Inbox \subseteq Messages

VARIABLES
  data, synced, used, partialEnt, finalEnt, writer, acked, owing,  \* as in
              \* PartialFile; writer[h] is h._writer, with phase "absent" for None
  sidecar,    \* the sha256_hex in <job_id>.meta.json
  chan,       \* the data channel of each handler
  queue,      \* _queue
  sent,       \* messages the client has sent on each channel
  consumer,   \* where _consume is
  eofSeen,    \* _eof_seen
  task,       \* where _run_pipeline is
  input,      \* what the pipeline has read from audio_path
  shown,      \* the last state broadcast to the frontend
  started,    \* history: pipelines each handler has kicked
  verdicts,   \* history: results and errors each client was sent
  resumed     \* history: the last byte_offset each client was sent

files == <<data, synced, used, partialEnt, finalEnt, acked, owing>>
disk == <<files, writer, sidecar>>
link == <<chan, sent>>
consuming == <<queue, consumer, eofSeen>>
pipeline == <<task, input, started>>
told == <<verdicts, resumed>>
vars == <<disk, link, consuming, pipeline, shown, told>>

PF == INSTANCE PartialFile WITH Writers <- Handlers

NoReply == -1
Active == {"started", "loading", "running", "finishing"}
Busy == {"transcribing", "loading_model"}

Verdicts == {"no_audio_received", "finalize_failed", "file_too_large", "pipeline_failed",
             "result"}

TypeOK ==
  /\ PF!TypeOK
  /\ sidecar \in Shas \cup {NoSidecar, Unreadable}
  /\ chan \in [Handlers -> {"new", "open", "closed"}]
  /\ queue \in [Handlers -> Seq(Messages)]
  /\ sent \in [Handlers -> Nat]
  /\ consumer \in [Handlers -> {"none", "ready", "emit", "stopped"}]
  /\ eofSeen \in [Handlers -> BOOLEAN]
  /\ task \in [Handlers -> Active \cup {"none", "ended"}]
  /\ input \in [Handlers -> Seq(Byte)]
  /\ shown \in Busy \cup {"idle"}
  /\ started \in [Handlers -> Nat]
  /\ verdicts \in [Handlers -> Seq(Verdicts)]
  /\ resumed \in [Handlers -> Nat \cup {NoReply}]

Init ==
  /\ PF!Init
  /\ sidecar = NoSidecar
  /\ chan = [h \in Handlers |-> "new"]
  /\ queue = [h \in Handlers |-> <<>>]
  /\ sent = [h \in Handlers |-> 0]
  /\ consumer = [h \in Handlers |-> "none"]
  /\ eofSeen = [h \in Handlers |-> FALSE]
  /\ task = [h \in Handlers |-> "none"]
  /\ input = [h \in Handlers |-> <<>>]
  /\ shown = "idle"
  /\ started = [h \in Handlers |-> 0]
  /\ verdicts = [h \in Handlers |-> <<>>]
  /\ resumed = [h \in Handlers |-> NoReply]

-------------------------------------------------------------------------------
(***************************************************************************)
(* _safe_send: nothing reaches the client once the channel is closed.      *)
(***************************************************************************)
SendVerdict(h, v) ==
  verdicts' = IF chan[h] = "open" THEN [verdicts EXCEPT ![h] = Append(@, v)] ELSE verdicts

SendResumeState(h, offset) ==
  resumed' = IF chan[h] = "open" THEN [resumed EXCEPT ![h] = offset] ELSE resumed

\* emit_state: the frontend hears it, unless the signaling client has no channel
\* or the broadcast on it fails, which emit() swallows.
Show(value) ==
  shown' \in {value} \cup (IF "unheard" \in Faults THEN {shown} ELSE {})

(***************************************************************************)
(* The channel.                                                            *)
(***************************************************************************)

\* A handler whose channel is gone, whose consumer was cancelled and whose
\* pipeline, if any, is over.
Done(h) == chan[h] = "closed" /\ consumer[h] = "stopped" /\ task[h] \notin Active

\* A consumer that was woken, and handles what is queued without suspending.
Draining(h) == consumer[h] = "ready" /\ queue[h] # <<>>

Bind(h) ==
  /\ chan[h] = "new"
  /\ \A g \in Handlers :
       \/ chan[g] = "new"
       \/ Admission = "always"
       \/ Admission = "when_closed" /\ chan[g] = "closed" /\ ~Draining(g)
       \/ Done(g)
  /\ chan' = [chan EXCEPT ![h] = "open"]
  /\ consumer' = [consumer EXCEPT ![h] = "ready"]
  /\ UNCHANGED <<disk, sent, queue, eofSeen, pipeline, shown, told>>

\* _on_message: a full queue drops the message and closes the channel, unless
\* channel.close() raises, which is swallowed.
Receive(h, m) ==
  /\ chan[h] = "open"
  /\ consumer[h] # "none"
  /\ sent[h] < MaxDeliveries
  /\ sent' = [sent EXCEPT ![h] = @ + 1]
  /\ \/ /\ Len(queue[h]) < QueueMax
        /\ queue' = [queue EXCEPT ![h] = Append(@, m)]
        /\ UNCHANGED chan
     \/ /\ Len(queue[h]) >= QueueMax
        /\ \/ chan' = [chan EXCEPT ![h] = "closed"]
           \/ "close_raises" \in Faults /\ UNCHANGED chan
        /\ UNCHANGED queue
  /\ UNCHANGED <<disk, consumer, eofSeen, pipeline, shown, told>>

ChannelLost(h) ==
  /\ "drop" \in Faults
  /\ chan[h] = "open"
  /\ chan' = [chan EXCEPT ![h] = "closed"]
  /\ UNCHANGED <<disk, sent, consuming, pipeline, shown, told>>

\* close(), which a channel-close handler calls: the consumer is cancelled at
\* the await it is in, and what is queued is never handled.
CloseHandler(h) ==
  /\ "close" \in Faults
  /\ chan[h] = "closed"
  /\ consumer[h] \in {"ready", "emit"}
  /\ consumer' = [consumer EXCEPT ![h] = "stopped"]
  /\ UNCHANGED <<disk, link, queue, eofSeen, pipeline, shown, told>>

-------------------------------------------------------------------------------
(***************************************************************************)
(* _consume: one queued message per step.  The code handles all that is    *)
(* queued in one go, unless emit_state suspends it, so steps of others     *)
(* between two messages are more than it can show.                         *)
(***************************************************************************)
Consume(h, kind) ==
  /\ consumer[h] = "ready"
  /\ queue[h] # <<>>
  /\ Head(queue[h]).kind = kind
  /\ queue' = [queue EXCEPT ![h] = Tail(@)]

\* A writer left closed by a failed finalize raises ValueError, which the
\* consumer logs: the chunk is lost.
HandleChunk(h) ==
  /\ Consume(h, "chunk")
  /\ LET bytes == Head(queue[h]).bytes IN
       \/ /\ writer[h].phase = "absent"
          /\ \E i \in PF!OpenTargets :
               PF!LinkPartial(i) /\ PF!AppendChunk(h, PF!OpenedOn(i), bytes)
       \/ /\ writer[h].phase = "open"
          /\ PF!AppendChunk(h, writer[h], bytes)
          /\ UNCHANGED <<used, partialEnt>>
       \/ /\ writer[h].phase = "closed"
          /\ UNCHANGED <<data, synced, used, partialEnt, writer, acked, owing>>
  /\ UNCHANGED <<finalEnt, sidecar, link, consumer, eofSeen, pipeline, shown, told>>

\* os.open fails, or write() raises: the consumer logs the OSError.  The writer, made
\* now or before, stays, and what is left of the chunk in its buffer.
HandleChunkFails(h) ==
  /\ "disk" \in Faults
  /\ Consume(h, "chunk")
  /\ LET bytes == Head(queue[h]).bytes IN
       \/ /\ writer[h].phase = "absent"
          /\ UNCHANGED <<data, synced, used, partialEnt, writer, acked, owing>>
       \/ /\ writer[h].phase = "absent"
          /\ \E i \in PF!OpenTargets :
               PF!LinkPartial(i) /\ PF!AppendRaises(h, PF!OpenedOn(i), bytes)
       \/ /\ writer[h].phase = "open"
          /\ PF!AppendRaises(h, writer[h], bytes)
          /\ UNCHANGED <<used, partialEnt>>
  /\ UNCHANGED <<finalEnt, sidecar, link, consumer, eofSeen, pipeline, shown, told>>

HandleJobInit(h) ==
  /\ Consume(h, "job_init")
  /\ sidecar' = Head(queue[h]).sha
  /\ UNCHANGED <<files, writer, link, consumer, eofSeen, pipeline, shown, told>>

\* The OSError branch: the file could not be opened, or was truncated and then
\* not written.
HandleJobInitFails(h) ==
  /\ "disk" \in Faults
  /\ Consume(h, "job_init")
  /\ sidecar' \in {sidecar, Unreadable}
  /\ UNCHANGED <<files, writer, link, consumer, eofSeen, pipeline, shown, told>>

\* Mutants: an error nobody is told of, and audio nobody announces.
EofOnEmpty_Silent(h) ==
  /\ writer[h].phase = "open"
  /\ PF!Tell(h) = 0
  /\ PF!UnlinkPartial
  /\ PF!SetPhase(h, "closed")
  /\ UNCHANGED <<data, owing, finalEnt, consumer, shown, verdicts>>

EofOnAudio_NotShown(h) ==
  /\ writer[h].phase = "open"
  /\ PF!Tell(h) > 0
  /\ PF!CloseFlushes(h)
  /\ PF!RenameToFinal
  /\ writer' = [writer EXCEPT ![h] = PF!NoWriter]
  /\ consumer' = [consumer EXCEPT ![h] = "emit"]
  /\ UNCHANGED <<shown, verdicts>>

\* _handle_audio_eof by the state the writer is in.
EofWithoutWriter(h) ==
  /\ writer[h].phase = "absent"
  /\ SendVerdict(h, "no_audio_received")
  /\ UNCHANGED <<data, owing, partialEnt, finalEnt, writer, consumer, shown>>

EofOnEmpty(h) ==
  /\ writer[h].phase = "open"
  /\ PF!Tell(h) = 0
  /\ PF!UnlinkPartial
  /\ PF!SetPhase(h, "closed")
  /\ SendVerdict(h, "finalize_failed")
  /\ UNCHANGED <<data, owing, finalEnt, consumer, shown>>

\* An OSError, of _fp.close() or (FileNotFoundError) of os.replace, is not the
\* RuntimeError that is answered: only the consumer catches it.
EofCloseRaises(h) ==
  /\ "full" \in Faults
  /\ writer[h].phase = "open"
  /\ PF!CloseRaises(h)
  /\ PF!SetPhase(h, "closed")
  /\ UNCHANGED <<partialEnt, finalEnt, consumer, shown, verdicts>>

EofOnMissing(h) ==
  /\ writer[h].phase = "open"
  /\ PF!Tell(h) > 0
  /\ partialEnt = NoInode
  /\ PF!CloseFlushes(h)
  /\ PF!SetPhase(h, "closed")
  /\ UNCHANGED <<partialEnt, finalEnt, consumer, shown, verdicts>>

EofOnAudio(h) ==
  /\ writer[h].phase = "open"
  /\ PF!Tell(h) > 0
  /\ PF!CloseFlushes(h)
  /\ PF!RenameToFinal
  /\ writer' = [writer EXCEPT ![h] = PF!NoWriter]
  /\ Show("transcribing")
  /\ consumer' = [consumer EXCEPT ![h] = "emit"]
  /\ UNCHANGED verdicts

Finalizes(h) ==
  \/ EofWithoutWriter(h) \/ EofOnEmpty(h) \/ EofCloseRaises(h) \/ EofOnMissing(h)
  \/ EofOnAudio(h)

\* Mutant: CR-04 undone, _eof_seen is set but not tested.
HandleEof_Repeats(h) ==
  /\ Consume(h, "audio_eof")
  /\ eofSeen' = [eofSeen EXCEPT ![h] = TRUE]
  /\ Finalizes(h)
  /\ UNCHANGED <<synced, used, acked, sidecar, link, pipeline, resumed>>

HandleEof(h) ==
  /\ Consume(h, "audio_eof")
  /\ ~eofSeen[h]
  /\ eofSeen' = [eofSeen EXCEPT ![h] = TRUE]
  /\ Finalizes(h)
  /\ UNCHANGED <<synced, used, acked, sidecar, link, pipeline, resumed>>

HandleDuplicateEof(h) ==
  /\ Consume(h, "audio_eof")
  /\ eofSeen[h]
  /\ UNCHANGED <<disk, link, consumer, eofSeen, pipeline, shown, told>>

\* emit_state("transcribing") has returned.
KickPipeline(h) ==
  /\ consumer[h] = "emit"
  /\ consumer' = [consumer EXCEPT ![h] = "ready"]
  /\ task' = [task EXCEPT ![h] = "started"]
  /\ started' = [started EXCEPT ![h] = @ + 1]
  /\ UNCHANGED <<disk, link, queue, eofSeen, input, shown, told>>

\* stored_sha256; an unreadable sidecar stands for the empty string.
Stored == IF sidecar = Unreadable THEN NoSha ELSE sidecar

\* Mutant: CR-02 undone, the hash is not compared.
Matches_Always(sha) == TRUE

Matches(sha) == sidecar = NoSidecar \/ sha = Stored

\* Mutant: without a live writer the last checkpoint is reported, as with one.
HandleResumeAccept_FromCheckpoint(h) ==
  /\ Consume(h, "resume_query")
  /\ Matches(Head(queue[h]).sha)
  /\ SendResumeState(h, IF writer[h].phase = "absent" THEN PF!Boundary(PF!PartialSize)
                                                      ELSE PF!CurrentOffset(h))
  /\ UNCHANGED <<disk, link, consumer, eofSeen, pipeline, shown, verdicts>>

HandleResumeAccept(h) ==
  /\ Consume(h, "resume_query")
  /\ Matches(Head(queue[h]).sha)
  /\ SendResumeState(h, IF writer[h].phase = "absent" THEN PF!PartialSize
                                                      ELSE PF!CurrentOffset(h))
  /\ UNCHANGED <<disk, link, consumer, eofSeen, pipeline, shown, verdicts>>

\* The hash differs, and the refusal begins.
Refuses(h) ==
  /\ Consume(h, "resume_query")
  /\ ~Matches(Head(queue[h]).sha)
  /\ Head(queue[h]).sha # NotText
  /\ UNCHANGED <<synced, used, finalEnt, acked, link, consumer, eofSeen, pipeline, shown,
                 verdicts>>

\* Mutants: the refusal forgets the .partial, forgets the live writer, or empties
\* the sidecar instead of deleting it.
HandleResumeRefuse_KeepsPartial(h) ==
  /\ Refuses(h)
  /\ PF!CloseFlushes(h)
  /\ sidecar' = NoSidecar
  /\ writer' = [writer EXCEPT ![h] = PF!NoWriter]
  /\ SendResumeState(h, 0)
  /\ UNCHANGED partialEnt

HandleResumeRefuse_KeepsWriter(h) ==
  /\ Refuses(h)
  /\ PF!UnlinkPartial
  /\ sidecar' = NoSidecar
  /\ SendResumeState(h, 0)
  /\ UNCHANGED <<data, owing, writer>>

HandleResumeRefuse_EmptiesSidecar(h) ==
  /\ Refuses(h)
  /\ PF!UnlinkPartial
  /\ PF!CloseFlushes(h)
  /\ sidecar' = NoSha
  /\ writer' = [writer EXCEPT ![h] = PF!NoWriter]
  /\ SendResumeState(h, 0)

HandleResumeRefuse(h) ==
  /\ Refuses(h)
  /\ PF!UnlinkPartial
  /\ PF!CloseFlushes(h)
  /\ sidecar' = NoSidecar
  /\ writer' = [writer EXCEPT ![h] = PF!NoWriter]
  /\ SendResumeState(h, 0)

\* The cleanup() of the live writer raises: it is not forgotten, nor is a reply sent.
HandleResumeRefuseRaises(h) ==
  /\ "full" \in Faults
  /\ Refuses(h)
  /\ PF!UnlinkPartial
  /\ PF!CloseRaises(h)
  /\ PF!SetPhase(h, "closed")
  /\ sidecar' = NoSidecar
  /\ UNCHANGED resumed

\* Slicing client_sha256 for the log raises before anything is deleted.
HandleResumeRaises(h) ==
  /\ Consume(h, "resume_query")
  /\ ~Matches(Head(queue[h]).sha)
  /\ Head(queue[h]).sha = NotText
  /\ UNCHANGED <<disk, link, consumer, eofSeen, pipeline, shown, told>>

HandleOther(h) ==
  /\ Consume(h, "other")
  /\ UNCHANGED <<disk, link, consumer, eofSeen, pipeline, shown, told>>

ConsumerStep(h) ==
  \/ HandleChunk(h) \/ HandleChunkFails(h)
  \/ HandleJobInit(h) \/ HandleJobInitFails(h)
  \/ HandleEof(h) \/ HandleDuplicateEof(h) \/ KickPipeline(h)
  \/ HandleResumeAccept(h) \/ HandleResumeRefuse(h) \/ HandleResumeRefuseRaises(h)
  \/ HandleResumeRaises(h)
  \/ HandleOther(h)

-------------------------------------------------------------------------------
(***************************************************************************)
(* _run_pipeline.                                                          *)
(***************************************************************************)
At(h, from, to) ==
  /\ task[h] = from
  /\ task' = [task EXCEPT ![h] = to]

FinalSize == IF finalEnt = NoInode THEN 0 ELSE Len(data[finalEnt])

\* Mutants: the early return forgets the audio, or the engine's state.
PipelineTooLarge_KeepsAudio(h) ==
  /\ At(h, "started", "ended")
  /\ FinalSize > MaxInbound
  /\ SendVerdict(h, "file_too_large")
  /\ Show("idle")
  /\ UNCHANGED <<disk, link, consuming, input, started, resumed>>

PipelineTooLarge_StaysBusy(h) ==
  /\ At(h, "started", "ended")
  /\ FinalSize > MaxInbound
  /\ finalEnt' = NoInode
  /\ SendVerdict(h, "file_too_large")
  /\ UNCHANGED <<data, synced, used, partialEnt, acked, owing, writer, sidecar, link,
                 consuming, input, started, shown, resumed>>

\* Mutant: the guard tells the client, and does not return.
PipelineTooLarge_GoesOn(h) ==
  /\ At(h, "started", "loading")
  /\ FinalSize > MaxInbound
  /\ SendVerdict(h, "file_too_large")
  /\ UNCHANGED <<disk, link, consuming, input, started, shown, resumed>>

\* The size guard returns before the try whose finally cleans up.
PipelineTooLarge(h) ==
  /\ At(h, "started", "ended")
  /\ FinalSize > MaxInbound
  /\ finalEnt' = NoInode
  /\ SendVerdict(h, "file_too_large")
  /\ Show("idle")
  /\ UNCHANGED <<data, synced, used, partialEnt, acked, owing, writer, sidecar, link,
                 consuming, input, started, resumed>>

PipelineLoads(h) ==
  /\ At(h, "started", "loading")
  /\ FinalSize <= MaxInbound
  /\ Show("loading_model")
  /\ UNCHANGED <<disk, link, consuming, input, started, told>>

\* run_pipeline opens audio_path.
PipelineReads(h) ==
  /\ At(h, "loading", "running")
  /\ finalEnt # NoInode
  /\ input' = [input EXCEPT ![h] = data[finalEnt]]
  /\ UNCHANGED <<disk, link, consuming, started, shown, told>>

PipelineSucceeds(h) ==
  /\ At(h, "running", "finishing")
  /\ SendVerdict(h, "result")
  /\ Show("idle")
  /\ UNCHANGED <<disk, link, consuming, input, started, resumed>>

\* Any stage may raise; there is nothing to read when audio_path is gone.
PipelineFails(h) ==
  /\ At(h, "loading", "finishing") \/ At(h, "running", "finishing")
  /\ SendVerdict(h, "pipeline_failed")
  /\ Show("idle")
  /\ UNCHANGED <<disk, link, consuming, input, started, resumed>>

\* _cleanup(audio_path), after emit_state("idle") has returned.
PipelineCleans(h) ==
  /\ At(h, "finishing", "ended")
  /\ finalEnt' = NoInode
  /\ PF!CloseFlushes(h)
  /\ PF!UnlinkPartial
  /\ writer' = [writer EXCEPT ![h] = PF!NoWriter]
  /\ sidecar' = NoSidecar
  /\ UNCHANGED <<synced, used, acked, link, consuming, input, started, shown, told>>

\* The close() of a writer made after audio_eof raises: the rest is not deleted.
PipelineCleansRaises(h) ==
  /\ "full" \in Faults
  /\ At(h, "finishing", "ended")
  /\ finalEnt' = NoInode
  /\ PF!CloseRaises(h)
  /\ PF!SetPhase(h, "closed")
  /\ UNCHANGED <<synced, used, partialEnt, acked, sidecar, link, consuming, input, started,
                 shown, told>>

PipelineStep(h) ==
  \/ PipelineTooLarge(h) \/ PipelineLoads(h) \/ PipelineReads(h)
  \/ PipelineSucceeds(h) \/ PipelineFails(h) \/ PipelineCleans(h) \/ PipelineCleansRaises(h)

-------------------------------------------------------------------------------
(***************************************************************************)
(* A handler that waits for nothing any more is collected, and with it its *)
(* writer, whose file object the interpreter closes.                       *)
(***************************************************************************)
Idle(h) ==
  /\ chan[h] = "closed"
  /\ \/ consumer[h] = "stopped"
     \/ consumer[h] = "ready" /\ queue[h] = <<>>
  /\ task[h] \notin Active

WriterCollected(h) ==
  /\ Idle(h)
  /\ writer[h].phase = "open" /\ writer[h].buf # <<>>
  /\ \/ PF!CloseFlushes(h)
     \/ "full" \in Faults /\ PF!CloseRaises(h)
  /\ PF!SetPhase(h, "closed")
  /\ UNCHANGED <<synced, used, partialEnt, finalEnt, acked, sidecar, link, consuming, pipeline,
                 shown, told>>

(***************************************************************************)
(* The engine's process dies and is started again; with the machine, the   *)
(* sidecar, which is never fsynced, may be gone or torn as well.           *)
(***************************************************************************)
Dies ==
  /\ writer' = [h \in Handlers |-> PF!NoWriter]
  /\ chan' = [h \in Handlers |-> IF chan[h] = "new" THEN "new" ELSE "closed"]
  /\ consumer' = [h \in Handlers |-> IF consumer[h] = "none" THEN "none" ELSE "stopped"]
  /\ queue' = [h \in Handlers |-> <<>>]
  /\ task' = [h \in Handlers |-> IF task[h] \in Active THEN "ended" ELSE task[h]]
  /\ UNCHANGED <<used, partialEnt, finalEnt, acked, sent, eofSeen, input, started, shown, told>>

EngineCrash ==
  /\ "crash" \in Faults
  /\ Dies
  /\ UNCHANGED <<data, synced, owing, sidecar>>

PowerLoss ==
  /\ "power" \in Faults
  /\ Dies
  /\ PF!LoseUnsynced
  /\ sidecar' \in {sidecar, NoSidecar} \cup (IF sidecar = NoSidecar THEN {} ELSE {Unreadable})

Engine(h) == ConsumerStep(h) \/ PipelineStep(h)

Interruption(h) == ChannelLost(h) \/ CloseHandler(h) \/ WriterCollected(h)

Environment(h) == Bind(h) \/ Interruption(h)

Next ==
  \/ \E h \in Handlers :
       \/ Engine(h)
       \/ Environment(h)
       \/ \E m \in Inbox : Receive(h, m)
  \/ EngineCrash
  \/ PowerLoss

Spec == Init /\ [][Next]_vars

\* The event loop runs every task that can run, emit_state returns and a
\* pipeline stage ends: each handler's two tasks keep moving.
Fairness == \A h \in Handlers : WF_vars(ConsumerStep(h)) /\ WF_vars(PipelineStep(h))

LiveSpec == Spec /\ Fairness

-------------------------------------------------------------------------------
(***************************************************************************)
(* Properties.                                                             *)
(***************************************************************************)

\* CR-04: however often audio_eof is repeated, and whatever is sent after it,
\* a handler starts one pipeline and gives its client one verdict.
OneVerdict == \A h \in Handlers : started[h] <= 1 /\ Len(verdicts[h]) <= 1

\* Whatever handlers of one job do at once, the path <job_id>.partial is a log:
\* bytes are only appended, what a checkpoint has confirmed stays through crashes
\* and power loss, and the log goes as a whole (the promise of chunker.py:152,
\* kept by handlers that never learn of each other).
UploadIsLog == PF!Log!Spec

\* However the chunks of handlers interleave, and whichever of them reopens the
\* file, less than one checkpoint interval of it is at risk.
LittleAtRisk == PF!AtRiskBounded

\* How far the upload of a handler has come.
Phase(h) ==
  CASE ~eofSeen[h] -> "uploading"
    [] consumer[h] = "emit" -> "taken"
    [] task[h] \in {"started", "loading"} -> "queued"
    [] task[h] = "running" -> "reading"
    [] task[h] = "finishing" -> "judged"
    [] OTHER -> "over"

Outcome == INSTANCE JobOutcome WITH phase <- [h \in Handlers |-> Phase(h)]

\* The handlers implement JobOutcome: whatever is sent, lost, cancelled or
\* crashes, the audio of a channel is taken once, and the one verdict its client
\* may get fits how far it came (a "result" only after the audio was read).
ImplementsJobOutcome == Outcome!Spec

\* Finalized audio always has an owner that is still going to delete it: a
\* consumer about to kick its pipeline, or a pipeline that has not cleaned up.
FinalOwned ==
  finalEnt # NoInode => \E h \in Handlers : consumer[h] = "emit" \/ task[h] \in Active

\* handler.py:425: a frontend that sees "idle" is not looking at an engine that
\* transcribes (one handler at a time).
IdleMeansIdle ==
  shown = "idle" =>
    \A h \in Handlers : consumer[h] # "emit" /\ task[h] \notin Active \ {"finishing"}

\* A handler that is still consuming appends to the file the path .partial
\* names: no byte goes to a file that was deleted or renamed under its writer
\* (one handler at a time, any failure of the previous ones).
WritesLand ==
  \A h \in Handlers :
    writer[h].phase = "open" /\ consumer[h] # "stopped" => writer[h].ino = partialEnt

\* A client is never told to resume beyond the end of the file a new chunk
\* would be appended to (one handler at a time).
ResumeWithinFile ==
  [][\A h \in Handlers : resumed'[h] # resumed[h] => resumed'[h] <= PF!PartialSize']_vars

\* A client is never told to resume below an offset a checkpoint has confirmed
\* for the file it resumes, across failures and handlers (one handler at a time).
ResumeKeepsCheckpoint ==
  [][\A h \in Handlers :
       resumed'[h] # resumed[h] /\ partialEnt' # NoInode
         => acked[partialEnt'] <= resumed'[h]]_vars

\* handler.py:307: "If they don't match (different file, or no sidecar), return
\* offset=0".
NoSidecarNoResume ==
  [][\A h \in Handlers :
       resumed'[h] # resumed[h] /\ sidecar = NoSidecar => resumed'[h] = 0]_vars

\* An audio_eof that was taken is answered by one of the verdicts, unless the
\* channel is lost first.
EofAnswered ==
  \A h \in Handlers : eofSeen[h] ~> (verdicts[h] # <<>> \/ chan[h] = "closed")

\* handler.py:8 and :422 (D-08): the frontend is brought back to "idle".
BackToIdle == shown # "idle" ~> shown = "idle"
=================================================================================
