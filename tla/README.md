# transcribe-engine in TLA+

The engine is a desktop program.  A browser frontend finds it through a
Realtime channel (signaling), uploads an audio file over a WebRTC data channel,
and gets the transcript back over the same channel.  This directory models the
parts whose correctness depends on an order of events: the upload and its
resumption, the job around it, the watchdog and the run loop of the signaling
connection, the identity of the engine from its key file to its pairing, the
download of models at first launch, and the transcription with the processes
and files it uses.

`PROJECT.json` lists components, runs, the source lines of every definition,
hazards and theorems.

## Inventory

| component | state | operations | interacts with | what is hard | what makes it correct |
|---|---|---|---|---|---|
| `webrtc/chunker.py` PartialFileWriter | `<job>.partial`, `<job>`, bytes received, last fsync | open, write, current_offset, finalize, cleanup | file system; handler | crash between write and fsync; a write, fsync or close that raises halfway; a file reopened by another writer; a failed rename | a reported checkpoint survives; less than an interval at risk |
| `webrtc/handler.py` InboundJobHandler | writer, queue, consumer task, eof flag, sidecar `<job>.meta.json`, final audio, pipeline task | bind, close, on_message, job_init, chunk, audio_eof, resume_query, ping, _run_pipeline, _cleanup | data channel, writer, signaling.emit_state, another handler of the same job through the file names | a new channel while the old handler's pipeline runs and cleans up; a chunk that cannot be written; cancellation at an await; a full queue | one verdict per job; the pipeline gets the file that was sent; the frontend comes back to idle; no audio stays behind |
| `signaling/keepalive.py` | task, last pong, fired flag | start, record_pong, stop | client.on_dead, the channel | latencies, a ping that raises, the strict deadline | a live peer is never declared dead, a dead one is |
| `signaling/client.py`, `reconnect.py`, `token.py` | socket, channel, paired user, failures in a row | run, emit_*, on_dead, clear pairing | token service, Realtime server, tray | failures between any two steps; cancellation; the park loop | one socket at a time; the link comes back; unpaired only when confirmed |
| `signaling/dispatcher.py` | none | one route per message | record_pong, emit, callbacks as tasks | order of offer and candidate tasks | - |
| `webrtc/peer.py` | that of aiortc | offer, candidate, close | aiortc | - | - |
| `protocol/messages.py` | none | parse | - | - | - |
| `picker_server.py`, `download/`, `models.toml` | PickerState, `.partial` and model files | start-download, thread, progress, shutdown | browser, HTTP server, State, main() | threads on one file; disconnects; process end; a hash that is a placeholder | a file with a model's name is the model; a part is kept |
| `state.py` | state.json | load, save, migrate | picker, main, pairing | truncate then write; two State objects | what was reported is recorded; the file can be loaded |
| `__main__.py` | the State object, the picker | boot, wait, tray | all of the above | polling a state that threads change | the wait ends |
| `pairing/` | `keypair.bin`, the State object's fields, pairing code | load or generate, sign, pair_init_post, fresh code | frontend API, State, signaling client | a crash between any two writes; a lost answer, a late request | the key that was paired is found again; the card shows a code that is on file; pairing comes to an end |
| `pipeline/`, `_DefaultPipelineModule` | `.norm.wav`, `.norm.json`, ffmpeg, whisper-cli, pyannote | normalize, transcribe, diarize, merge | handler, child processes | a failing stage, cancellation, files and processes that an earlier call left | the transcript is of this upload; whisper-cli does not outlive its call; merge picks the longest turn |
| `platform/`, `tray.py`, `logging_setup.py` | none of interest | probing, paths, menu | - | - | - |

## Modules

| module | models | proofs |
|---|---|---|
| `UploadLog` | abstract: an upload is a sequence of bytes of which a growing prefix is promised | |
| `PartialFile` | the writers and the two paths of chunker.py, as the handler uses them; crash and power loss | `PartialFileProofs` |
| `JobOutcome` | abstract: the phases of one upload, from the first byte to its end, with at most one verdict | |
| `InboundJob` | extends `PartialFile` with the handlers of one job: queue, consumer, messages, pipeline task, sidecar | `InboundJobProofs`, `InboundSequentialProofs` |
| `JobTransfer` | extends `InboundJob` with the frontend (external): it asks for the offset and sends the rest | `JobTransferProofs` |
| `Keepalive` | keepalive.py in discrete time | `KeepaliveProofs` |
| `SignalingClient` | the run loop of client.py with the outcomes of token.py and the delays of reconnect.py | |
| `Pairing` | extends `SignalingClient` with the key file, state.json, pair_init.py and a fresh code, and the process starts around them | `PairingProofs` |
| `ModelDownload` | picker threads, resumable.py, state.json and main()'s wait | `ModelDownloadProofs` |
| `Merge` | merge.py as operators, and what its payload is for in other words | `PipelineProofs` |
| `Pipeline` | extends `Merge` with run_pipeline, its stages, their files and their processes | `PipelineProofs` |

`MC*` modules only name the finite values TLC is given.

### PartialFile

`partialEnt` and `finalEnt` are the inodes at `<job>.partial` and `<job>`;
`data[i]` is the content of an inode and `synced[i]` the prefix that has been
fsynced.  A writer keeps its descriptor, so it may write to an inode no path
names any more.  `acked[i]` (history) is the highest checkpoint reported.
`AppendChunk` is one call of `write()`: the append, and the fsync and report
when a boundary is passed.

`AppendRaises` is the same call when a system call of it fails.  The write, or the
flush, may have put any beginning of the bytes into the file (`Spill`), and what is
left may stay in the buffer of the file object (`buf`), in front of the next chunk;
an fsync that fails has all bytes in the file and `_last_checkpoint_offset` where it
was, so that the next write tries again.  `close()` writes the buffer (`CloseFlushes`)
or raises (`CloseRaises`), and the descriptor is closed either way.  `owing` (history)
has the files to which a failed call, or a close(), has added bytes that no checkpoint
has covered since; `AtRiskBounded` is about the others.

`EngineCrash` closes the writers and loses their buffers; `PowerLoss` also
cuts every file to some length that is at least its synced prefix.  Directory
operations (create, rename, unlink) are taken as durable when they return: the
code has no fsync of a directory, and the model does not claim anything about
losing one.  An fsync that succeeds is taken to cover the whole file, even after one
that failed.  `unlink()` does not fail, nor do `fdopen()` and `seek()` on a file that
could be opened.

### InboundJob and JobTransfer

One asyncio task runs at a time and only gives way at an `await` that waits.
A step of a model is therefore at most what runs between two such awaits:
`HandleChunk`, `HandleJobInit` and each of the
outcomes of `resume_query` are one step;
`audio_eof` is two, because `emit_state("transcribing")` is awaited between
`finalize()` and the creation of the pipeline task; the pipeline has a step per
await.  `CloseHandler` cancels the consumer at its await, `queue.get()` or
`emit_state`.  Handlers of one job share only files.

`_consume` does not give way between two messages that are queued:
`asyncio.Queue.get()` returns at once, and of the handlers only that of `audio_eof`
awaits anything.  `Consume` takes one message per step, and so lets steps of others
in between that the code never shows.  For what holds this is on the safe side, for
a counterexample it is not: `Admission = "when_closed"`, which the violated runs use,
therefore opens a channel only when those before it are closed and no consumer is
in the middle of its queue (`Draining`).  One that waits for `emit_state` may well
have messages queued.

`Admission` says when a channel may be opened for the job while another handler
exists: `"always"`, once the old channel is closed as above, or once nothing of the
old handler runs (`"when_done"`).
The code itself never prevents an overlap.

With the fault `"disk"` an open, a write or an fsync may raise, and with `"full"` a
close() that has something left to write.  The consumer catches what a chunk raises
(handler.py:166) and goes on with the writer as it is (`HandleChunkFails`); a close()
that raises ends `audio_eof`, a refused resume or the clean-up where it stands
(`EofCloseRaises`, `HandleResumeRefuseRaises`, `PipelineCleansRaises`).  A handler
that waits for nothing is collected, and its file object closed (`WriterCollected`).
The channel object is external: a
full queue calls its `close()`, after which (an assumption about aiortc) no more
messages are delivered unless `close()` raised.  `shown` is the last state that
the frontend heard; with the fault `"unheard"` an emitted state may be dropped,
as client.py:242 does without a channel.

`JobOutcome` says what one handler is for in six phases: it takes in, has it
all, waits for the pipeline, is judged and is over, and only from the queue to
the verdict can it be told one.  `InboundJob!Outcome` maps a handler's consumer,
eof flag and pipeline task to these phases, and `ImplementsJobOutcome` says that
every step of the engine is one of them or none.

In `JobTransfer` each handler has its file (`Source`), the client sends
`resume_query` (or `job_init` first), waits for the offset and sends from there,
`audio_eof` at the end.  This is how tests/test_resume_protocol.py drives the
engine; the frontend is not in this repository.  `FrontendMessages` is all it may
send, and `Inbox` has to contain it.

### Keepalive and SignalingClient

`Keepalive` counts time in ticks.  Every latency is a constant and a deadline is
a bound past which `Tick` is disabled.  `SignalingClient` abstracts from time:
the delay curve is an index that stops at its end, the token exchange ends with
a token, with 404, or with any other failure, and the keepalive appears as
`DeclareDead` and `PingRaises`.

Nobody but a page on the channel answers a ping, so that `DeclareAlone` may
close a link that works.  The pongs themselves come through the dispatcher,
which drops what is no message.

### Pairing

`stage` is what the engine is about to do: find its key (`"key"`), write a new
one, save the State (`"save"`, `"saving"`: emptied and then written), ask for a
nonce, post the code, open the pair page, wait for its user, run the client.
pair_init.py:18 names an "engine state machine" that does these things in turn;
it is not in the repository, and its part is external: it saves the State right
after the key was generated (`SaveFirst`), tries again after an error, takes
another code after a 409 or when the card has expired, opens the page only after
a POST that was answered, and runs the client when the State is paired.  What
each step does is the code's.  `filed` and `card` are the keys the frontend API
has on file under the code in hand and the one in the browser; a POST that
timed out may still arrive (`late`).  `bound` is what the token service has
paired, and `device` of `SignalingClient` is whether the key in hand is among
it.  `Serve` is any step of that module.  `Dies` leaves files and services and
forgets the rest.

### ModelDownload

Threads are operating system threads; each file operation is a step.  `from`
is what `stat()` found, `inode` the file that is open, `snapshot` the list that
`asdict()` has copied.  Saving is two steps, truncation and write.
`Overlap` says which downloads may run together; the code itself never prevents
any.  `"tiers"` is never two of one tier, `"none"` never two, and `"handoff"` in
addition none on the first picker once it has reported done: its page leaves for
/done then (progress.html:33), but the server takes requests until main() has
loaded the State again (`__main__.py:83`, the shutdown is at :85).
`Pinned` are the tiers whose sha256 in models.toml is the hash of the model.  That
of best is `TBD-PIN-FROM-FIRST-DOWNLOAD` (:43), which no file has: `Verify` sends
every file of such a tier to `Discard` (`HashMatches`), and it is never installed.
Hashing the file is one step, and `"tray"` stands for all pickers of the tray.

### Merge and Pipeline

`MergeToPayload` folds over segments and turns as the loops of merge.py do;
`TaggedByLongest` and `NumberedByAppearance` say the result without a loop.
In `Pipeline`, `pc` is the await a call of run_pipeline is at, `wav` and `json`
are its two intermediate files with the upload they were made from, `whisper`
is the state of its child, and `strays` are children nothing waits for: ffmpeg
after a cancellation, whisper-cli after a second one or a process end.  Calls of
one job id follow each other, so that a call finds what an earlier one left.
`AwaitStrays` says whether a call may start while an earlier child still runs.

run_pipeline as it stands cannot return a transcript: handler.py:506 imports
`run_diarize`, which diarize.py does not define; :524 passes no VAD model, which
transcribe.py:136 refuses; and :528 passes a callback that cannot be awaited.
`build` is the set of these that are supplied, chosen at the start: the empty
set is the code as it is, and what each later step does is still its code.

## Runs

| run | question | bounds |
|---|---|---|
| `partial_file` | Do two writers on one path, with crashes, keep what was promised, and implement `UploadLog`? | 4 bytes, interval 2: two boundaries, chunks that end on, before and after one, writes, fsyncs and closes that raise with any number of bytes written |
| `inbound_job` | Can two handlers of one job at once give two verdicts, or leave audio without an owner? | 3 deliveries per channel, queue of 1: overflow, and a repeated eof, both happen; chunks of one unit, interval 2: two handlers reach a boundary together; calls on files raise; no cancellation or crash |
| `inbound_job_sequential` | With every failure, cancellation and power loss, but one handler at a time, is what the client is told right, does each handler implement `JobOutcome`, and the path `UploadLog`? | as above with two files: what one handler leaves is what the next finds; no close() that raises, which would refute `ResumeWithinFile` (see below) |
| `inbound_job_live` | Is every audio_eof answered and the frontend brought back to idle? | 4 deliveries of every kind of message, writes that raise; no cancellation or crash, and no close() that raises |
| `job_transfer` | Does the pipeline get exactly the file of a client that asks first? | two files of 2 bytes each under one job id, three channels, interval 2; no call on a file raises |
| `keepalive` | Is a live peer kept, and a dead one found while the watchdog lives? | the smallest intervals in which every latency at its bound just fits: ping every 5 ticks, dead after 7, one tick of lateness, one for a send, 4 for a round trip; a ping may raise |
| `pairing` | Is the key that was paired kept and found again, is the card on file, does pairing end; is there one socket, does every attempt end, is "connected" true while the watchdog lives? | three starts: one that generates, one that finds the key, and one after a key was deleted; seven troubles of any kind: five failures of the token in a row (`MaxTokenFailures`) and two more, or the whole delay curve (`CurveLength`) |
| `model_download` | Does main() go on, with two downloads of one tier at once? | one tier, whose hash is pinned, two threads, three downloads, models of two chunks: a part, a whole, and one beyond |
| `model_download_one` | One at a time, as the page asks for them (`"handoff"`): is a model file always whole, a part that can be verified kept and a finished tier recorded? | as above, with the three tiers of models.toml, of which best is not pinned: it is downloaded, and deleted, beside the others |
| `pipeline` | Is a transcript of the present upload, does whisper-cli end with its call, is the merge what it says? | two calls, two uploads, 3 segments and 3 turns of 2 speakers in 2 s: equal overlaps, empty and unheard segments, a speaker who comes back |
| `job_transfer_overlap` | (violated) is every audio_eof answered when the client connects again while the pipeline of its lost channel runs? | one file, two channels one after the other, queue of 1 |
| `signaling_client_reconnect` | (violated) does a lost link come back? | the client alone, as in `pairing` |

The bounds are constants of the modules: `MaxBytes`, `MaxDeliveries`,
`MaxInbound` and `QueueMax`, `MaxTroubles`, `MaxStarts`, `MaxCalls`.  They cut
off how often something is done; TLC takes every action within them.  Each
property has a mutant: an operator next to the definition it changes, named
`<definition>_<slip>`, which makes the property fail.

`InboundJobPower.cfg` is no run, but passes (about a minute): `UploadIsLog` and
`LittleAtRisk` for two handlers at once, with calls on files that raise, close()
among them, crashes and power loss at any step, of which `inbound_job_sequential` is the case without overlap and the theorems
`UploadsAreLogs` and `AtRiskIsLittle` the case of any number.

`CHECK_DEADLOCK FALSE` is set where the system really stops: when the bounded
input is used up, or the engine has ended.

The trace of `job_transfer_overlap`: the channel of h1 is lost after `audio_eof`, and
its pipeline takes its time.  The frontend, which has no result, opens h2 for the job,
is told 0 and uploads again.  The pipeline of h1 ends, and `_cleanup` unlinks
`<job>.partial` (handler.py:449), which h2 is writing.  The `audio_eof` of h2 finds no
file to rename; FileNotFoundError is no RuntimeError (:290), and the client, whose
channel is open, hears nothing more.

### Where code and documentation disagree

The two violated runs are findings in `PROJECT.json`.  These configurations
show further disagreements, each with TLC's shortest counterexample:

| configuration | violated | in short |
|---|---|---|
| `PartialFileDurable.cfg` | `OffsetIsDurable` | chunker.py:105 takes the size of a reopened file for fsynced; :159 says "Return the last durably-fsynced byte offset." |
| `InboundJobOrphan.cfg` | `FinalOwned` | close() at handler.py:300: no pipeline, audio left, frontend left in "transcribing"; :8 promises idle and cleanup |
| `InboundJobNoSidecar.cfg` | `NoSidecarNoResume` | handler.py:307 says offset 0 without a sidecar; :316 skips the check |
| `InboundJobUnheard.cfg` | `BackToIdle` | an "idle" that emit() drops (client.py:242) leaves the frontend in "transcribing"; handler.py:8 promises idle |
| `JobTransferSplice.cfg` | `PartialIsPrefix` | job_init of another file rebinds the sidecar (handler.py:251) of an existing .partial |
| `JobTransferResumeAtEnd.cfg` | `NoAudioMeansNone` | a client that resumes at the end is told that no audio was received (handler.py:274) |
| `JobTransferOverlap.cfg` with `Shas = {A, B}`, `TwoFiles` and `PipelineGetsSource` | `PipelineGetsSource` | the next channel's upload, of another file, is renamed over the audio that the pipeline of the last one has yet to read (chunker.py:193); tests/test_resume_protocol.py:14 promises "the full 10 MB reassembled file" |
| `JobTransferSplice.cfg` with `InitFirst = FALSE`, `Faults = {"disk"}` and `PipelineGetsSource` | `PipelineGetsSource` | a chunk that cannot be written is logged (handler.py:166) and the next ones are appended after the gap |
| `InboundJobLive.cfg` with `"full"` among the `Faults` | `EofAnswered` | what a failed write left is still in the buffer: the close() of finalize() raises OSError, which is not caught at handler.py:290 |
| `InboundJobSequential.cfg` with `"full"` among the `Faults` | `ResumeWithinFile` | a refused resume whose close() raises has deleted the .partial, but not forgotten the writer (handler.py:336): asked again, the handler answers with the `current_offset()` of the file that is gone (:345) |
| `KeepaliveRaise.cfg` | `DeathDetected` | a ping that raises ends the watchdog (keepalive.py:75) |
| `SignalingClientUnpaired.cfg` | `UnpairedIsConfirmed` | five transient failures end the engine as unpaired (client.py:134); :50 says "confirmed" |
| `SignalingClientEmit.cfg` | `EmitNeedsSubscription` | `_channel` is set before, and kept after, the subscription (client.py:161); :240 says no-op |
| `SignalingClientAlone.cfg` | `WorkingLinkKept` | with no page open nobody answers the pings, and the watchdog closes a link that works (keepalive.py:76) |
| `SignalingClientUnpaired.cfg` with `SpecWithRoute` and `Faults = {"route"}` | `UnpairedIsConfirmed` | a 404 of another cause than "device_not_found" ends the engine as unpaired (token.py:191) |
| `PairingUnsaved.cfg` | `UnpairedIsSaved` | run() clears the State and ends (client.py:124, :262) without the save token.py:66 asks for: the next start is paired again |
| `PairingLateSave.cfg` | `PairingKept` | a caller that saves the State only when it is paired loses the key in a crash before that: ed25519.py:60 generates another |
| `PairingStale.cfg` | `PairingKept` | a download thread of the first launch saves its old State (__main__.py:83, picker_server.py:243), which names no key |
| `ModelDownloadTwice.cfg` | `ModelsVerified` | two downloads of a tier share the .partial (picker_server.py:205) |
| `ModelDownloadCut.cfg` | `PartKept` | an early end of the body deletes the part (resumable.py:47, :61) |
| `ModelDownloadOne.cfg` with `EveryPartKept` | `EveryPartKept` | the sha256 of best is a placeholder (models.toml:43): the whole model is deleted as "corrupt" (resumable.py:61) at every attempt; models.toml:3 and :9 say "Every entry pins ... sha256: post-download verification" |
| `ModelDownloadTwice.cfg` with `Overlap = "tiers"` | `DoneIsRemembered` | the older list is saved last (picker_server.py:243) |
| `ModelDownloadStale.cfg` | `DoneIsRemembered` | a second download on the first picker, after its done and before the reload (`__main__.py:83`), is missing from the State of the tray, which saves over it: one tier that main() reloads, one it misses and one saved over it, hence possible once best is pinned |
| `ModelDownloadUnsaved.cfg` | `DoneIsRemembered` | append before a save that fails (picker_server.py:242) |
| `ModelDownloadTorn.cfg` | `RangeSatisfiable` | a process that ends before the rename leaves a whole .partial, and every later attempt asks for an empty range (resumable.py:36); :22 says "Re-entrant on disconnect" |
| `ModelDownloadTorn.cfg` | `StateLoads` | truncate, then write (state.py:79): an empty state.json ends every later start |
| `PipelineAsIs.cfg` | `Delivers` | a call nothing goes wrong with fails (handler.py:506, :524, :528) |
| `PipelineLeftovers.cfg` | `IntermediatesGo` | a stage that fails leaves the .norm.wav, or the .norm.json (handler.py:542, transcribe.py:209); lifecycle.py:24 says the worker's outer finally deletes it |
| `PipelineStrays.cfg` | `ResultIsOwn` | after a crash, ffmpeg of the old call still writes the file that the next call reads |
| `PipelineTotals.cfg` | `TagTalksMost` | merge.py:66 compares single turns, not what a speaker says in all; :57 says "maximally overlaps" |

Where a row names a property or a constant that the configuration does not have,
it takes the place of the one it has.  `JobTransferResumeAtEnd.cfg` with
`InitFirst = TRUE`, `"crash"` and `"power"` passes for `PipelineGetsSource`.

## Fairness

`LiveSpec` of `InboundJob`: weak fairness of each consumer and each pipeline
task.  The event loop runs every ready task, and every await of them ends:
`queue.get()` when there is a message, `emit_state` because a send ends or
raises, the pipeline because its stages end.  Nothing is assumed about
channels, clients or cancellation.

`Keepalive` states deadlines and needs no fairness but that time passes.

`SignalingClient` and `Pairing`: weak fairness of the run loop's own steps and of the death
of a lost link, which the watchdog declares within a bound; nothing of the
network's, so that "every attempt ends" rests on the timeouts the calls have.
`PairingLive` adds the engine's steps up to the card; the user, a renewed code
and late requests may never come.

`FairSpec` of `ModelDownload`: weak fairness of each thread and of the poll.
`urlopen()` has no timeout (resumable.py:38), so this assumes that a server
answers or the connection fails.

`FairSpec` of `Pipeline`: weak fairness of the clean-up of an abandoned call: the
event loop's timer ends, and a killed process dies.  Nothing is assumed of a
process that was only asked to end, nor of the stages.

## Proofs

`PartialFileProofs` proves for every set of writers, inodes, bytes and chunks,
every checkpoint interval and every bound, from the named assumptions of
`PartialFile` alone:

- `PartialFileTyped`: the type invariant;
- `CheckpointsSurvive`: `AckedSurvives`;
- `LossBounded`: `AtRiskBounded`;
- `UploadLogImplemented`: `ImplementsUploadLog`, the refinement of `UploadLog`.

None of these is inductive.  `IInv` adds what they rest on: an inode no path
has named is empty (`FreshEmpty`, `PathsUsed`), so that creating a file cannot
lose a checkpoint; a checkpoint never lies above the synced prefix
(`AckedSynced`), which is what makes a power loss harmless; and a writer has not
counted an interval that is not synced (`WritersOK`), which two writers of one
file keep, since each appends at the end and a sync is of the whole file.  The
proof that a step preserves it has a step per action, and the refinement follows
from `IInv` and the step.  `AppendKeeps` and `AppendExtends` are stated for any
descriptor in order (`Stands`), open before the step or opened by it (`Reaches`),
so that they hold of `InboundJob` too.

`KeepaliveProofs` proves, for every interval, threshold and latency (natural
numbers, with pings some time apart):

- `KeepaliveTyped`: the type invariant;
- `LivePeerKept`: `NoFalseDeath`, which asks of them that pongs come before the
  next ping and a round within the threshold (`InTime`);
- `DeadLinkDetected`: `WatchdogDetects`.

What the code compares with its threshold is the time since the last pong, and
that says nothing by itself about the ping it is waiting for.  `IInv` therefore
measures both from the start of the round: no round starts with a pong that is
late (`RoundsBounded`), and on a link that is up the pong of the last ping is in
or still under way, and then as old as the round (`PongOfRound`).

`PairingProofs` proves, for every number of starts, troubles and token failures
and every backoff curve:

- `PairingTyped`: the type invariant;
- `OneLinkEver` and `LiveChannel`: `OneLink` and `EmitsOnLive` of the client;
- `PostedIsOnFile`: `CardOnFile`;
- `CrashKeepsPairing` and `UnpairedForCause`: `PairingKept` and `NotTurnedAway`,
  both under `SaveFirst`, without which `PairingLateSave.cfg` refutes them.

`ClientInv` is inductive for the client alone, so `Serve` needs one lemma
(`ClientKept`).  A socket that is open is the one the channel is on
(`LinkServed`); that is why no new token is fetched with a socket open.
`PairingKept` speaks of keys that are paired, but a key may be paired by
a page that outlives the engine that posted it.  `IdentityKept` therefore speaks
of all keys anybody outside has heard of (`Traces`): keypair.bin is that key and
state.json names it, and the key in hand has left no trace before the save is
through.  `DiesKeeps` is the crash, once for all the stages it can hit.

`InboundJobProofs` proves, for every set of handlers, inodes, bytes and messages
and every limit, from the named assumptions of `InboundJob`:

- `HandlersTyped`: the type invariant;
- `VerdictOnce`: `OneVerdict`;
- `FinalAudioOwned`: `FinalOwned`, without `close()` and ends of the process
  (`InboundJobOrphan.cfg` refutes it with one);
- `JobOutcomeImplemented`: `ImplementsJobOutcome`, the refinement of `JobOutcome`;
- `UploadsAreLogs`: `UploadIsLog`, the refinement of `UploadLog` by any number of
  handlers at once;
- `AtRiskIsLittle`: `LittleAtRisk`, which goes with it.

The types need the invariant of the files, `IInv` of `PartialFileProofs`, and that
only a writer that is open has a buffer (`WritersTidy`); together they are `Typed`.
`Staged` says what each handler has done at each point of its course: before an
eof nothing was started and nothing said, a consumer in `emit` has said nothing,
a pipeline that runs has said nothing, and so on.  The verdict is then counted by
place, not by event.  The refinement follows from a table (`PhaseTable`): each
action moves one handler along at most one edge of `JobOutcome`.

The last two need nothing to be repeated: `InboundJobProofs` instantiates
`PartialFileProofs`.  A handler opens its writer and writes in one step, which is no
step of `PartialFile`; but `StepOfFiles` says that to the files every step is quiet,
a reboot or one write through a descriptor in order, and for these the lemmas of
`PartialFileProofs` hold (its assumptions follow from those of `InboundJob`,
`FileAssumptions`).

`InboundSequentialProofs` is about handlers that take turns (`Admission =
"when_done"`; the violated runs show what goes wrong when they do not):

- `IdleIsIdle`: `IdleMeansIdle`, when every broadcast is heard;
- `AppendsLand`: `WritesLand`;
- `ResumesWithinFile`, `ResumesAtCheckpoint`: the action properties
  `ResumeWithinFile` and `ResumeKeepsCheckpoint`, through writes that raise, crashes
  and power loss.  The first needs that no close() raises (no `"full"`).

`TakingTurns` says that all handlers but one are dormant, and `AllPlaced` that the
writer of a handler that still consumes is, while open, on the inode `.partial`
names, and that its last fsync is never below a checkpoint of that inode; one that
was closed and may still be asked has no fsync to report, unless a close() raised.
What one handler leaves behind is then what the next one finds.

`JobTransferProofs` proves, for every file, set of handlers and set of messages:

- `TransferIsInbound`: `TransferSpec` implies `Spec`.  The frontend is one of the
  clients `InboundJob` allows, and all that is proved above holds of its uploads;
- `TransferTyped`: the type invariant (`TransferTypeOK`), which no run repeats;
- `PartialBeginsItsFile` and `PipelinesGetTheirSource`: `PartialIsPrefix` and
  `PipelineGetsSource`, both under `TurnTaking`.

`TurnTaking` names three hypotheses.  Handlers take turns: `JobTransferOverlap.cfg`
shows two that do not.  The frontend asks before it announces
(`InitFirst = FALSE`): `JobTransferSplice.cfg` shows one that does not.  And
`Faults` are lost channels, `close()`, ends of the process and broadcasts nobody
hears.  Left out are a call on a file that raises and a `channel.close()` that
raises after a full queue dropped a message (each loses a chunk on a channel that
stays open, and the next ones are appended all the same), and a stop of
the machine, which can lose the sidecar and keep the `.partial`.  Without calls that
raise no buffer ever holds anything (`NothingLeft`).

Neither property is inductive: what `.partial` will hold depends on what is queued.
`Uploading` follows one upload through it.  `FilesFit`: `.partial` begins the file
of its sidecar and an inode nobody has used is empty.  `Stand`: a consuming handler
asks, waits, announces or uploads, and its queue holds exactly the bytes that
follow those in `.partial` (`Follows`), up to where the frontend is if the channel
is open.  `Gets`: what the pipeline finds under the final name, and has read, is the
source.  A handler that ends leaves `FilesFit` for the next one, and the answer to
`resume_query` is the size of `.partial` until that handler writes; this is where
taking turns is needed.

`PipelineProofs` proves, for any uploads, transcripts, diarizations and bounds:

- `PipelineTyped`: the type invariant, for which `InHand` says what a call has at
  each await;
- `WhisperIsReaped`: `WhisperReaped`, with every failure and cancellation;
- `ResultIsItsOwn`: `ResultIsOwn` if no call starts while a child of an earlier one
  runs (`PipelineStrays.cfg` refutes it otherwise).  `Own` follows the upload
  through `.norm.wav` and `.norm.json`: a file an earlier call left is never read
  before it has been written again;
- `MergeTagsAndNumbers`: for every transcript and every diarization, what
  `MergeToPayload` returns satisfies both descriptions of it, `TaggedByLongest` (the
  single turn that overlaps a segment longest, not what a speaker says in all, which
  `PipelineTotals.cfg` refutes) and `NumberedByAppearance`;
- `TagsAreLongest` and `NumbersByAppearance`: `TagIsMaxOverlap` and
  `SpeakersNumbered`, since every payload a call holds was merged (`Merged`).

The two loops of merge.py are folds, and a fold is some solution of a recursive
equation.  That there is one is `FoldExists`, by `Induction`: a set that contains
0 and the successor of each of its elements contains Nat, which is the
well-foundedness of < and has no operator for a parameter.  `Leads` and `Lists` are
the invariants of the loops: the best turn so far leads the turns so far, and the
numbers so far list the tags so far.  The times have to be numbers, and the turns
and segments what the stages give (`MergedAssumption`); nothing is asked of their
order, and turns may overlap.

`ModelDownloadProofs` proves, for every set of threads, tiers and inodes and every
length of a model:

- `DownloadsTyped`: the type invariant, with `Settled`: a thread that writes at a
  position has received that many chunks;
- `ModelsAreVerified`: `ModelsVerified`, without two downloads of one tier at once.
  `Downloading`: no `.partial` is a model or another `.partial` (`PartsApart`), a
  thread writes to its own, and what it has hashed stays what it renames (`Holds`);
- `PartsAreKept`: the action property `PartKept`, of the tiers in `Pinned`, when in
  addition a body that ends is whole.  `Resumable`: at each step the `.partial` is the part received so far,
  or is no part and cannot become one;
- `DoneStaysRecorded`: `DoneIsRemembered`, for `"handoff"` and a state.json that can
  be written.  `Remembering`: the one State object in use contains all that was
  reported done, and outside of a save state.json is that list.

The proof of the last one did not go through for one download at a time alone:
`Recording` asks that no thread runs for a picker that has reported done, and
`ModelDownloadStale.cfg` is the counterexample without that.

Only model-checked is liveness under fairness, which is out of the provers' reach:
`EofAnswered`, `BackToIdle`, `RetryEnds`, `ShownLinkServed`, `PairingProceeds`,
`PickerEnds` and `AbandonedCallEnds` (and `ReconnectsAfterLoss`, which is refuted).

## Plan

1. (done) `PartialFile`, `InboundJob`, `JobTransfer`; `Keepalive`,
   `SignalingClient`; `ModelDownload`; `Merge`, `Pipeline`; proofs of `PartialFile`.
2. (done) `JobOutcome`, which `InboundJob` implements; `Pairing`; proofs of
   `Keepalive` and `Pairing`.
3. (done) Proofs of `InboundJob`, `Pipeline`, `ModelDownload` and `JobTransfer`.
   (done) Proofs of `Merge`, for all inputs; `UploadLog`, which `InboundJob` implements.
4. The dispatcher's tasks, when callbacks for them exist.

## Not modelled

The content of messages, SDP and audio; the pages of the picker and its
progress counters; HF tokens; GPU probing; the tray; logging; the schema
migration of state.json, which `main()` does not call; the server side of
pairing and tokens beyond what is on file there; the words and the progress messages of a transcription,
`release_models` and `cleanup_job_files`, which nothing calls.  `InboundJob` lets
the pipeline succeed or fail, as a module that is given to the handler may.

`dispatcher.py` and `peer.py` have no state of their own.  What could go wrong
between them (a candidate whose task runs before its offer's, an answer taken for
an offer because both are "description", two offers at once) depends on
callbacks that no code of the repository supplies, and on what aiortc keeps.
