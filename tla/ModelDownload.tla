----------------------------- MODULE ModelDownload -----------------------------
(***************************************************************************)
(* picker_server.py, download/resumable.py, state.py and the wait of       *)
(* __main__.py: the threads that download models, the .partial and model   *)
(* files of the cache, state.json and the copies of it in memory.          *)
(*                                                                         *)
(* A model is the sequence of its Length chunks; a file is a sequence of   *)
(* chunk numbers, 0 for a hole.  The threads are operating system threads: *)
(* each file operation and each assignment another thread reads is a step. *)
(* An exception is part of the step that raises it, with the except branch *)
(* of _run_download.                                                       *)
(***************************************************************************)
EXTENDS Integers, Sequences, FiniteSets

CONSTANTS
  Threads,     \* download threads
  Tiers,       \* the tiers of models.toml
  Pinned,      \* those whose sha256 there is the hash of the model, not a placeholder
  Inodes, NoInode,  \* as many as MaxStarts: a download makes at most one file
  Length,      \* chunks of a model
  Overlap,     \* which downloads may run at once: "any", of different "tiers", "none",
               \* or "handoff": none, nor any on a picker that has reported done
  Faults,      \* "drop", "short", "ignore_range", "save", "crash"
  MaxStarts    \* bound: downloads started

ASSUME LengthAssumption == Length \in Nat \ {0}
ASSUME OverlapAssumption == Overlap \in {"handoff", "none", "tiers", "any"}
ASSUME DownloadAssumption ==
  NoInode \notin Inodes /\ Tiers # {} /\ MaxStarts \in Nat
ASSUME PinnedAssumption == Pinned \subseteq Tiers
ASSUME DownloadFaultsAssumption ==
  Faults \subseteq {"drop", "short", "ignore_range", "save", "crash"}

(***************************************************************************)
(* "first" is the picker of the first launch, whose State object is the    *)
(* one main() loaded first; "tray" stands for the pickers of the tray,     *)
(* which get the object main() holds by then.                              *)
(***************************************************************************)
Pickers == {"first", "tray"}

VARIABLES
  main,      \* main(): "off", "wait" for the picker, or "tray"
  objects,   \* installed_models of each picker's State object
  shown,     \* PickerState.state of each picker
  stored,    \* state.json
  threads,   \* the _run_download of each thread
  files,     \* content of each inode, <<>> when it is not in use
  partial,   \* the inode at <dest>.partial
  dest,      \* the inode at <dest>
  starts,    \* bound: downloads started so far
  recorded   \* history: tiers reported done since the last --reset-models

disk == <<files, partial, dest>>
vars == <<main, objects, shown, stored, threads, files, partial, dest, starts, recorded>>

Whole == [i \in 1 .. Length |-> i]

\* state.json: a text that parses and its installed_models, or what a save that
\* did not end, or two at once, can leave.
Json(models) == [text |-> "json", models |-> models]
Empty == [text |-> "empty", models |-> {}]
Garbled == [text |-> "garbled", models |-> {}]
Readable == stored.text = "json"

Idle == [pc |-> "idle", picker |-> "first", tier |-> CHOOSE t \in Tiers : TRUE,
         from |-> 0, inode |-> NoInode, mode |-> "wb", next |-> 1, pos |-> 0,
         snapshot |-> {}]

Steps == {"idle", "begin", "stat", "request", "read", "verify", "discard",
          "replace", "record", "save", "write", "finish"}

ThreadState ==
  [pc : Steps, picker : Pickers, tier : Tiers, from : Nat, inode : Inodes \union {NoInode},
   mode : {"ab", "wb"}, next : 1 .. Length + 1, pos : 0 .. Length, snapshot : SUBSET Tiers]

StateFiles == {Json(models) : models \in SUBSET Tiers} \union {Empty, Garbled}

TypeOK ==
  /\ main \in {"off", "wait", "tray"}
  /\ objects \in [Pickers -> SUBSET Tiers]
  /\ shown \in [Pickers -> {"idle", "downloading", "verifying", "done", "error"}]
  /\ stored \in StateFiles
  /\ threads \in [Threads -> ThreadState]
  /\ files \in [Inodes -> Seq(0 .. Length)]
  /\ partial \in [Tiers -> Inodes \union {NoInode}]
  /\ dest \in [Tiers -> Inodes \union {NoInode}]
  /\ starts \in 0 .. MaxStarts
  /\ recorded \in SUBSET Tiers

Init ==
  /\ main = "off"
  /\ objects = [p \in Pickers |-> {}]
  /\ shown = [p \in Pickers |-> "idle"]
  /\ stored = Json({})                     \* no state.json: State()
  /\ threads = [t \in Threads |-> Idle]
  /\ files = [i \in Inodes |-> <<>>]
  /\ partial = [k \in Tiers |-> NoInode]
  /\ dest = [k \in Tiers |-> NoInode]
  /\ starts = 0
  /\ recorded = {}

--------------------------------------------------------------------------------
(***************************************************************************)
(* main()                                                                  *)
(***************************************************************************)

\* The process ends: daemon threads stop where they are, files stay.
Dies ==
  /\ main' = "off"
  /\ objects' = [p \in Pickers |-> {}]
  /\ shown' = [p \in Pickers |-> "idle"]
  /\ threads' = [t \in Threads |-> Idle]
  /\ UNCHANGED <<stored, disk, starts, recorded>>

\* State.load(), then the picker if no model is installed.  A state.json that
\* is no JSON makes load() raise: main() ends before anything else.
Boot ==
  /\ main = "off"
  /\ Readable
  /\ main' = IF stored.models = {} THEN "wait" ELSE "tray"
  /\ objects' = [p \in Pickers |-> stored.models]
  /\ UNCHANGED <<shown, stored, threads, disk, starts, recorded>>

\* --reset-models: a process that only empties the list; the models stay.
ResetModels ==
  /\ main = "off"
  /\ Readable
  /\ stored' \in {Json({})} \union (IF "crash" \in Faults THEN {Empty} ELSE {})
  /\ recorded' = {}
  /\ UNCHANGED <<main, objects, shown, threads, disk, starts>>

\* The poll of picker_state: an error ends the engine, and so does a
\* state.json that cannot be loaded again.
PollEnds ==
  /\ main = "wait"
  /\ shown["first"] = "error" \/ (shown["first"] = "done" /\ ~Readable)
  /\ Dies

PollDone ==
  /\ main = "wait"
  /\ shown["first"] = "done"
  /\ Readable
  /\ main' = "tray"
  /\ objects' = [objects EXCEPT !["tray"] = stored.models]
  /\ UNCHANGED <<shown, stored, threads, disk, starts, recorded>>

\* Quit of the tray, or (with the fault) the death of the process at any moment.
Quit ==
  /\ main # "off"
  /\ main = "tray" \/ "crash" \in Faults
  /\ Dies

--------------------------------------------------------------------------------
(***************************************************************************)
(* _run_download() and download_resumable()                                *)
(***************************************************************************)

Running == {t \in Threads : threads[t].pc # "idle"}

MayStart(p, tier) ==
  \/ Overlap = "any"
  \/ Overlap = "tiers" /\ \A t \in Running : threads[t].tier # tier
  \/ Overlap \in {"none", "tiers"} /\ Running = {}
  \/ Overlap = "handoff" /\ Running = {} /\ (p = "first" => shown[p] # "done")

Goto(t, pc) == threads' = [threads EXCEPT ![t].pc = pc]

\* Mutant: the except branch logs, and leaves PickerState as it is.
Fails_Silently(t) ==
  /\ threads' = [threads EXCEPT ![t] = Idle]
  /\ UNCHANGED shown

\* The except branch of _run_download.
Fails(t) ==
  /\ threads' = [threads EXCEPT ![t] = Idle]
  /\ shown' = [shown EXCEPT ![threads[t].picker] = "error"]

\* POST /start-download: a new thread, whatever else is running.
StartDownload(t, p, tier) ==
  /\ main = (IF p = "first" THEN "wait" ELSE "tray")
  /\ starts < MaxStarts
  /\ threads[t].pc = "idle"
  /\ MayStart(p, tier)
  /\ threads' = [threads EXCEPT ![t] = [Idle EXCEPT !.pc = "begin", !.picker = p, !.tier = tier]]
  /\ starts' = starts + 1
  /\ UNCHANGED <<main, objects, shown, stored, disk, recorded>>

Begin(t) ==
  /\ threads[t].pc = "begin"
  /\ Goto(t, "stat")
  /\ shown' = [shown EXCEPT ![threads[t].picker] =
                 IF dest[threads[t].tier] # NoInode THEN "verifying" ELSE "downloading"]
  /\ UNCHANGED <<main, objects, stored, disk, starts, recorded>>

\* What partial.stat() finds.
ResumeFrom(tier) == IF partial[tier] = NoInode THEN 0 ELSE Len(files[partial[tier]])

StatPartial(t) ==
  /\ threads[t].pc = "stat"
  /\ threads' = [threads EXCEPT ![t].pc = "request", ![t].from = ResumeFrom(threads[t].tier)]
  /\ UNCHANGED <<main, objects, shown, stored, disk, starts, recorded>>

\* The first chunk of the answers a server may give to a range from `from`: 206
\* with the rest, or 200 with everything when it ignores the range.  None when
\* nothing is left to send: 416.
FirstChunks(from) ==
  (IF from < Length THEN {from + 1} ELSE {})
    \union (IF from > 0 /\ "ignore_range" \in Faults THEN {1} ELSE {})

InUse == {partial[k] : k \in Tiers} \union {dest[k] : k \in Tiers}
           \union {threads[t].inode : t \in Threads}

\* The answer is there: open(partial, "ab" or "wb"); "wb" empties the file.
RequestAnswered(t) ==
  LET th == threads[t] IN
  /\ th.pc = "request"
  /\ \E first \in FirstChunks(th.from), i \in Inodes :
       /\ IF partial[th.tier] = NoInode THEN i \notin InUse ELSE i = partial[th.tier]
       /\ partial' = [partial EXCEPT ![th.tier] = i]
       /\ files' = IF th.from = 0 \/ partial[th.tier] = NoInode
                   THEN [files EXCEPT ![i] = <<>>] ELSE files
       /\ threads' = [threads EXCEPT ![t].pc = "read", ![t].inode = i, ![t].next = first,
                        ![t].mode = IF th.from > 0 THEN "ab" ELSE "wb"]
  /\ UNCHANGED <<main, objects, shown, stored, dest, starts, recorded>>

\* urlopen() raises: no connection, or 416 for a range past the end.
RequestFails(t) ==
  /\ threads[t].pc = "request"
  /\ "drop" \in Faults \/ FirstChunks(threads[t].from) = {}
  /\ Fails(t)
  /\ UNCHANGED <<main, objects, stored, disk, starts, recorded>>

\* A write at position pos of a file that may be shorter by now.
WriteAt(content, pos, chunk) ==
  [k \in 1 .. IF Len(content) > pos THEN Len(content) ELSE pos + 1 |->
     IF k = pos + 1 THEN chunk ELSE IF k <= Len(content) THEN content[k] ELSE 0]

Written(th) ==
  IF th.mode = "ab" THEN Append(files[th.inode], th.next)
                    ELSE WriteAt(files[th.inode], th.pos, th.next)

\* Mutant: the loop does not stop at the end of the body.
ReadChunk_PastTheEnd(t) ==
  LET th == threads[t] IN
  /\ th.pc = "read"
  /\ files' = [files EXCEPT ![th.inode] = Written(th)]
  /\ threads' = [threads EXCEPT ![t].next = th.next + 1, ![t].pos = th.pos + 1]
  /\ UNCHANGED <<main, objects, shown, stored, partial, dest, starts, recorded>>

ReadChunk(t) ==
  LET th == threads[t] IN
  /\ th.pc = "read"
  /\ th.next <= Length
  /\ files' = [files EXCEPT ![th.inode] = Written(th)]
  /\ threads' = [threads EXCEPT ![t].next = th.next + 1, ![t].pos = th.pos + 1]
  /\ UNCHANGED <<main, objects, shown, stored, partial, dest, starts, recorded>>

\* read() returns b"": the body is complete, or the server closed early, which
\* http.client does not tell apart.
BodyEnds(t) ==
  /\ threads[t].pc = "read"
  /\ threads[t].next > Length \/ "short" \in Faults
  /\ threads' = [threads EXCEPT ![t].pc = "verify", ![t].inode = NoInode]
  /\ UNCHANGED <<main, objects, shown, stored, disk, starts, recorded>>

\* Mutant: a connection that is reset in the middle discards the part.
BodyFails_Discards(t) ==
  /\ threads[t].pc = "read"
  /\ threads[t].next <= Length
  /\ "drop" \in Faults
  /\ partial' = [partial EXCEPT ![threads[t].tier] = NoInode]
  /\ Fails(t)
  /\ UNCHANGED <<main, objects, stored, files, dest, starts, recorded>>

\* read() raises: the connection is reset.
BodyFails(t) ==
  /\ threads[t].pc = "read"
  /\ threads[t].next <= Length
  /\ "drop" \in Faults
  /\ Fails(t)
  /\ UNCHANGED <<main, objects, stored, disk, starts, recorded>>

\* Is the hash of a file the one that models.toml has for the tier?
HashMatches(tier, content) == tier \in Pinned /\ content = Whole

\* Mutant: only the newly downloaded bytes are hashed.
Verify_NewBytes(t) ==
  LET th == threads[t]  there == partial[th.tier] IN
  /\ th.pc = "verify"
  /\ there # NoInode
  /\ Goto(t, IF HashMatches(th.tier, SubSeq(files[there], th.from + 1, Len(files[there])))
             THEN "replace" ELSE "discard")
  /\ UNCHANGED <<main, objects, shown, stored, disk, starts, recorded>>

\* The hash of the file that is at .partial now, read in one step.
Verify(t) ==
  LET th == threads[t]  there == partial[th.tier] IN
  /\ th.pc = "verify"
  /\ there # NoInode
  /\ Goto(t, IF HashMatches(th.tier, files[there]) THEN "replace" ELSE "discard")
  /\ UNCHANGED <<main, objects, shown, stored, disk, starts, recorded>>

\* partial.unlink(), and the mismatch is raised.
Discard(t) ==
  LET th == threads[t] IN
  /\ th.pc = "discard"
  /\ partial[th.tier] # NoInode
  /\ partial' = [partial EXCEPT ![th.tier] = NoInode]
  /\ Fails(t)
  /\ UNCHANGED <<main, objects, stored, files, dest, starts, recorded>>

\* os.replace(partial, dest)
Replace(t) ==
  LET th == threads[t] IN
  /\ th.pc = "replace"
  /\ partial[th.tier] # NoInode
  /\ dest' = [dest EXCEPT ![th.tier] = partial[th.tier]]
  /\ partial' = [partial EXCEPT ![th.tier] = NoInode]
  /\ Goto(t, "record")
  /\ UNCHANGED <<main, objects, shown, stored, files, starts, recorded>>

\* open(), unlink() or replace() of a .partial that another thread took away.
PartialGone(t) ==
  /\ threads[t].pc \in {"verify", "discard", "replace"}
  /\ partial[threads[t].tier] = NoInode
  /\ Fails(t)
  /\ UNCHANGED <<main, objects, stored, disk, starts, recorded>>

--------------------------------------------------------------------------------
(***************************************************************************)
(* The record in state.json                                                *)
(***************************************************************************)

\* Mutant: append() and save() in the other order: the list is saved without the tier.
Record_SavesFirst(t) ==
  LET th == threads[t]  list == objects[th.picker] IN
  /\ th.pc = "record"
  /\ IF th.tier \in list
     THEN /\ Goto(t, "finish")
          /\ UNCHANGED objects
     ELSE /\ objects' = [objects EXCEPT ![th.picker] = list \union {th.tier}]
          /\ threads' = [threads EXCEPT ![t].pc = "save", ![t].snapshot = list]
  /\ UNCHANGED <<main, shown, stored, disk, starts, recorded>>

\* installed_models.append(), and asdict() of the object; or neither when this
\* object already has the tier.
Record(t) ==
  LET th == threads[t]  list == objects[th.picker] IN
  /\ th.pc = "record"
  /\ IF th.tier \in list
     THEN /\ Goto(t, "finish")
          /\ UNCHANGED objects
     ELSE /\ objects' = [objects EXCEPT ![th.picker] = list \union {th.tier}]
          /\ threads' = [threads EXCEPT ![t].pc = "save", ![t].snapshot = list \union {th.tier}]
  /\ UNCHANGED <<main, shown, stored, disk, starts, recorded>>

\* path.write_text(): the file is emptied when it is opened ...
SaveOpens(t) ==
  /\ threads[t].pc = "save"
  /\ stored' = Empty
  /\ Goto(t, "write")
  /\ UNCHANGED <<main, objects, shown, disk, starts, recorded>>

\* What a write at the start of the file leaves: a longer text under a shorter
\* one shows behind it.
Overwritten(old, new) ==
  {out \in {Json(new), Garbled} :
     /\ out = Garbled => old # Empty /\ ~(old.text = "json" /\ old.models \subseteq new)
     /\ out = Json(new) => ~(old.text = "json" /\ new \subseteq old.models /\ new # old.models)}

\* ... and written later.
SaveWrites(t) ==
  /\ threads[t].pc = "write"
  /\ stored' \in Overwritten(stored, threads[t].snapshot)
  /\ Goto(t, "finish")
  /\ UNCHANGED <<main, objects, shown, disk, starts, recorded>>

\* open() or write() raises OSError.
SaveFails(t) ==
  /\ threads[t].pc \in {"save", "write"}
  /\ "save" \in Faults
  /\ Fails(t)
  /\ UNCHANGED <<main, objects, stored, disk, starts, recorded>>

Finish(t) ==
  LET th == threads[t] IN
  /\ th.pc = "finish"
  /\ shown' = [shown EXCEPT ![th.picker] = "done"]
  /\ threads' = [threads EXCEPT ![t] = Idle]
  /\ recorded' = recorded \union {th.tier}
  /\ UNCHANGED <<main, objects, stored, disk, starts>>

--------------------------------------------------------------------------------
ThreadStep(t) ==
  \/ Begin(t) \/ StatPartial(t)
  \/ RequestAnswered(t) \/ RequestFails(t)
  \/ ReadChunk(t) \/ BodyEnds(t) \/ BodyFails(t)
  \/ Verify(t) \/ Discard(t) \/ Replace(t) \/ PartialGone(t)
  \/ Record(t) \/ SaveOpens(t) \/ SaveWrites(t) \/ SaveFails(t) \/ Finish(t)

Next ==
  \/ Boot \/ ResetModels \/ PollEnds \/ PollDone \/ Quit
  \/ \E t \in Threads, p \in Pickers, tier \in Tiers : StartDownload(t, p, tier)
  \/ \E t \in Threads : ThreadStep(t)

Spec == Init /\ [][Next]_vars

\* A thread that can go on does, and main() polls twice a second.
FairSpec ==
  /\ Spec
  /\ \A t \in Threads : WF_vars(ThreadStep(t))
  /\ WF_vars(PollEnds \/ PollDone)

--------------------------------------------------------------------------------
(***************************************************************************)
(* Properties                                                              *)
(***************************************************************************)

\* A file under a model's own name is the model, whole and verified, and
\* nothing changes it afterwards (download_resumable's hash and os.replace).
ModelsVerified == \A k \in Tiers : dest[k] # NoInode => files[dest[k]] = Whole

\* What the picker reported as done is in state.json whenever that can be read.
DoneIsRemembered == Readable => recorded \subseteq stored.models

\* state.json can be read whenever the engine is started.
StateLoads == main = "off" => Readable

\* No attempt asks for a range past the end of the model, which every server
\* refuses and every later attempt asks for again.
RangeSatisfiable == \A t \in Threads : threads[t].pc = "request" => threads[t].from < Length

\* A .partial that is a part of the model is given up only for the model.
Kept(k) ==
  /\ partial[k] # NoInode
  /\ \E n \in 0 .. Length : files[partial[k]] = SubSeq(Whole, 1, n)
  /\ partial'[k] = NoInode
  => dest'[k] = partial[k]

\* The next attempt goes on from what the ones before it left (resumable.py:22), for
\* every tier whose model can be verified at all.
PartKept == [][\A k \in Pinned : Kept(k)]_vars

\* models.toml:3 and :9: "Every entry pins ... sha256: post-download verification",
\* so what resumable.py:61 deletes as "corrupt" is never a model that is whole.
EveryPartKept == [][\A k \in Tiers : Kept(k)]_vars

\* main() does not wait for the picker forever once a download has been started.
PickerEnds == (main = "wait" /\ Running # {}) ~> main # "wait"

================================================================================
