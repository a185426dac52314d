------------------------------ MODULE PartialFile ------------------------------
(***************************************************************************)
(* webrtc/chunker.py: PartialFileWriter over the temp directory.           *)
(*                                                                         *)
(* All writers of this module work on the same job_id, hence on the same   *)
(* two paths: <job_id>.partial and <job_id> (path_final).  A path names an *)
(* inode or nothing.  Inodes are kept apart from paths because a writer    *)
(* keeps its descriptor when the path is unlinked or renamed under it.     *)
(*                                                                         *)
(* Bytes are counted in an arbitrary unit; CheckpointInterval and the      *)
(* lengths of Chunks are in that unit.  write() flushes, so a written byte *)
(* survives the engine's process (EngineCrash), but only an fsynced one    *)
(* survives the machine (PowerLoss).                                       *)
(*                                                                         *)
(* A system call of write() or close() may raise.  What it had not written *)
(* may stay in the buffer of the file object, which the next write() or    *)
(* close() writes first.  An fsync that succeeds is taken to cover all     *)
(* that is in the file, whatever an earlier one that failed has left.      *)
(***************************************************************************)
EXTENDS Integers, Sequences

CONSTANTS
  Writers,             \* PartialFileWriter objects of one job_id
  Inodes,              \* names of files; each file made is given a fresh one
  NoInode,             \* what a path that does not exist names
  Byte,                \* contents of one unit
  Chunks,              \* the byte sequences write() may be given
  CheckpointInterval,  \* checkpoint_interval
  MaxBytes             \* bound of the model on the length of a file

ASSUME NoInodeAssumption == NoInode \notin Inodes
ASSUME IntervalAssumption == CheckpointInterval \in Nat \ {0}
ASSUME ChunksAssumption == Chunks \subseteq Seq(Byte)
ASSUME MaxBytesAssumption == MaxBytes \in Nat

VARIABLES
  data,       \* data[i]: the bytes of inode i, page cache included
  synced,     \* synced[i]: length of the prefix that is on stable storage
  used,       \* inodes handed out so far
  partialEnt, \* the inode <job_id>.partial names
  finalEnt,   \* the inode <job_id> (path_final) names
  writer,     \* the state of each PartialFileWriter object
  acked,      \* history: acked[i] is the largest checkpoint offset write()
              \* has returned for inode i
  owing       \* history: inodes to which a call that raised has added bytes, or
              \* a close() what it had left, with no checkpoint since

disk == <<data, synced, used, partialEnt, finalEnt, owing>>
vars == <<data, synced, used, partialEnt, finalEnt, writer, acked, owing>>

Phases == {"absent", "open", "closed", "finalized"}

\* ino, pos: the inode and the position of the descriptor; buf: what a call that
\* raised has left in the buffer of _fp; ckpt: _last_checkpoint_offset;
\* fsync: _last_fsync_offset; phase "finalized": the flag _finalized.
WriterState ==
  [phase : Phases, ino : Inodes \cup {NoInode}, pos : Nat, buf : Seq(Byte),
   ckpt : Nat, fsync : Nat]

NoWriter ==
  [phase |-> "absent", ino |-> NoInode, pos |-> 0, buf |-> <<>>, ckpt |-> 0, fsync |-> 0]

TypeOK ==
  /\ data \in [Inodes -> Seq(Byte)]
  /\ synced \in [Inodes -> Nat]
  /\ used \in SUBSET Inodes
  /\ partialEnt \in Inodes \cup {NoInode}
  /\ finalEnt \in Inodes \cup {NoInode}
  /\ writer \in [Writers -> WriterState]
  /\ acked \in [Inodes -> Nat]
  /\ owing \in SUBSET Inodes

Init ==
  /\ data = [i \in Inodes |-> <<>>]
  /\ synced = [i \in Inodes |-> 0]
  /\ used = {}
  /\ partialEnt = NoInode
  /\ finalEnt = NoInode
  /\ writer = [w \in Writers |-> NoWriter]
  /\ acked = [i \in Inodes |-> 0]
  /\ owing = {}

-------------------------------------------------------------------------------
(***************************************************************************)
(* The operators the actions, here and in InboundJob, are built from.      *)
(***************************************************************************)

\* Mutant: the offset of the last byte instead of the length.
Boundary_LastByte(offset) == ((offset - 1) \div CheckpointInterval) * CheckpointInterval

\* (offset // checkpoint_interval) * checkpoint_interval
Boundary(offset) == (offset \div CheckpointInterval) * CheckpointInterval

PartialSize == IF partialEnt = NoInode THEN 0 ELSE Len(data[partialEnt])

\* os.open(partial, O_CREAT | O_APPEND): the file that is there, or a fresh one.
OpenTargets == IF partialEnt = NoInode THEN Inodes \ used ELSE {partialEnt}

\* Mutant: the interval that is being filled counts as checkpointed.
OpenedOn_NextBoundary(i) ==
  LET start == Len(data[i])
  IN  [phase |-> "open", ino |-> i, pos |-> start, buf |-> <<>>,
       ckpt |-> Boundary(start) + CheckpointInterval, fsync |-> start]

\* The writer just constructed on inode i: every byte already in the file is
\* taken for durable, whatever has been fsynced.
OpenedOn(i) ==
  LET start == Len(data[i])
  IN  [phase |-> "open", ino |-> i, pos |-> start, buf |-> <<>>,
       ckpt |-> Boundary(start), fsync |-> start]

LinkPartial(i) == partialEnt' = i /\ used' = used \cup {i}

\* tell() once bytes have been written by st: O_APPEND puts them at the end of the
\* inode; without any there is no system call, and the descriptor is where it was.
OffsetAfter(st, bytes) ==
  IF bytes = <<>> THEN st.pos ELSE Len(data[st.ino]) + Len(bytes)

\* Mutant: fsync is called before the chunk is flushed.
AppendChunk_SyncsFirst(w, st, chunk) ==
  LET i == st.ino
      bytes == st.buf \o chunk
      offset == OffsetAfter(st, bytes)
      crossed == Boundary(offset) > st.ckpt
  IN  /\ data' = [data EXCEPT ![i] = @ \o bytes]
      /\ synced' = [synced EXCEPT ![i] = IF crossed THEN Len(data[i]) ELSE @]
      /\ acked' = [acked EXCEPT ![i] = IF crossed /\ offset > @ THEN offset ELSE @]
      /\ owing' = IF crossed THEN owing \ {i} ELSE owing
      /\ writer' = [writer EXCEPT ![w] =
           [st EXCEPT !.pos = offset,
                      !.buf = <<>>,
                      !.ckpt = IF crossed THEN Boundary(offset) ELSE @,
                      !.fsync = IF crossed THEN offset ELSE @]]

\* write(chunk) by w, whose state before the call is st.
AppendChunk(w, st, chunk) ==
  LET i == st.ino
      bytes == st.buf \o chunk
      offset == OffsetAfter(st, bytes)
      crossed == Boundary(offset) > st.ckpt
      moved == [st EXCEPT !.pos = offset, !.buf = <<>>]
  IN  /\ data' = [data EXCEPT ![i] = @ \o bytes]
      /\ \/ /\ ~crossed
            /\ writer' = [writer EXCEPT ![w] = moved]
            /\ UNCHANGED <<synced, acked, owing>>
         \/ /\ crossed
            /\ synced' = [synced EXCEPT ![i] = Len(data[i]) + Len(bytes)]
            /\ writer' = [writer EXCEPT ![w] =
                            [moved EXCEPT !.ckpt = Boundary(offset), !.fsync = offset]]
            /\ acked' = [acked EXCEPT ![i] = IF offset > @ THEN offset ELSE @]
            /\ owing' = owing \ {i}

\* The first n of bytes reach inode i, and no fsync follows them.
Spill(i, bytes, n) ==
  \/ /\ n = 0
     /\ UNCHANGED <<data, owing>>
  \/ /\ n > 0
     /\ data' = [data EXCEPT ![i] = @ \o SubSeq(bytes, 1, n)]
     /\ owing' = owing \cup {i}

\* A system call of the _fp.write() or the flush() raises.  What was not written
\* stays in the buffer, but for a chunk that _fp.write() had not yet taken in.
FlushRaises(w, st, chunk) ==
  LET bytes == st.buf \o chunk
  IN  \E n \in 0..Len(bytes) - 1 :
        \E left \in {SubSeq(bytes, n + 1, Len(bytes)), SubSeq(st.buf, n + 1, Len(st.buf))} :
          /\ Spill(st.ino, bytes, n)
          /\ writer' = [writer EXCEPT ![w] =
               [st EXCEPT !.pos = IF n = 0 THEN @ ELSE Len(data[st.ino]) + n, !.buf = left]]

\* The fsync raises: nothing is noted, so the next write() tries it again.
FsyncRaises(w, st, chunk) ==
  LET bytes == st.buf \o chunk
      offset == OffsetAfter(st, bytes)
  IN  /\ Boundary(offset) > st.ckpt
      /\ Spill(st.ino, bytes, Len(bytes))
      /\ writer' = [writer EXCEPT ![w] = [st EXCEPT !.pos = offset, !.buf = <<>>]]

\* write(chunk) by w raises OSError.
AppendRaises(w, st, chunk) ==
  /\ FlushRaises(w, st, chunk) \/ FsyncRaises(w, st, chunk)
  /\ UNCHANGED <<synced, acked>>

\* _fp.close() writes what is in the buffer, or raises; closed it is either way.
CloseFlushes(w) == Spill(writer[w].ino, writer[w].buf, Len(writer[w].buf))
CloseRaises(w) == \E n \in 0..Len(writer[w].buf) - 1 : Spill(writer[w].ino, writer[w].buf, n)

\* Mutants: the boundary below the fsynced offset, and the one above it.
CurrentOffset_Boundary(w) == writer[w].ckpt
CurrentOffset_NextBoundary(w) == writer[w].ckpt + CheckpointInterval

\* current_offset()
CurrentOffset(w) == writer[w].fsync

\* self.path.unlink(missing_ok=True)
UnlinkPartial == partialEnt' = NoInode

\* os.replace(self.path, self.path_final); it fails when there is no .partial.
RenameToFinal ==
  /\ partialEnt # NoInode
  /\ finalEnt' = partialEnt
  /\ partialEnt' = NoInode

\* _fp.tell()
Tell(w) == writer[w].pos + Len(writer[w].buf)

\* A descriptor that is closed writes no more.
SetPhase(w, phase) == writer' = [writer EXCEPT ![w].phase = phase, ![w].buf = <<>>]

-------------------------------------------------------------------------------
(***************************************************************************)
(* The actions of a writer.                                                *)
(***************************************************************************)

\* Mutant: the file is opened for writing instead of for appending.
Open_Truncates(w) ==
  /\ writer[w].phase = "absent"
  /\ \E i \in OpenTargets :
       /\ LinkPartial(i)
       /\ data' = [data EXCEPT ![i] = <<>>]
       /\ synced' = [synced EXCEPT ![i] = 0]
       /\ writer' = [writer EXCEPT ![w] = [NoWriter EXCEPT !.phase = "open", !.ino = i]]
  /\ UNCHANGED <<finalEnt, acked, owing>>

Open(w) ==
  /\ writer[w].phase = "absent"
  /\ \E i \in OpenTargets :
       /\ LinkPartial(i)
       /\ writer' = [writer EXCEPT ![w] = OpenedOn(i)]
  /\ UNCHANGED <<data, synced, finalEnt, acked, owing>>

\* The bound of the model: the file has room for the buffer of w and for chunk.
Room(w, chunk) ==
  Len(data[writer[w].ino]) + Len(writer[w].buf) + Len(chunk) <= MaxBytes

Write(w) ==
  /\ writer[w].phase = "open"
  /\ \E chunk \in Chunks :
       /\ Room(w, chunk)
       /\ AppendChunk(w, writer[w], chunk) \/ AppendRaises(w, writer[w], chunk)
  /\ UNCHANGED <<used, partialEnt, finalEnt>>

\* finalize() of a writer positioned at 0: unlink, RuntimeError.
FinalizeEmpty(w) ==
  /\ writer[w].phase = "open"
  /\ Tell(w) = 0
  /\ UnlinkPartial
  /\ SetPhase(w, "closed")
  /\ UNCHANGED <<data, synced, used, finalEnt, acked, owing>>

\* finalize(), or cleanup(), when the close() raises: the .partial stays.
CloseFails(w) ==
  /\ writer[w].phase = "open"
  /\ Room(w, <<>>)
  /\ CloseRaises(w)
  /\ SetPhase(w, "closed")
  /\ UNCHANGED <<synced, used, partialEnt, finalEnt, acked>>

\* finalize() when .partial is gone: os.replace raises FileNotFoundError after
\* the descriptor was closed.
FinalizeMissing(w) ==
  /\ writer[w].phase = "open"
  /\ Tell(w) > 0 /\ Room(w, <<>>)
  /\ partialEnt = NoInode
  /\ CloseFlushes(w)
  /\ SetPhase(w, "closed")
  /\ UNCHANGED <<synced, used, partialEnt, finalEnt, acked>>

FinalizeRenames(w) ==
  /\ writer[w].phase = "open"
  /\ Tell(w) > 0 /\ Room(w, <<>>)
  /\ CloseFlushes(w)
  /\ RenameToFinal
  /\ SetPhase(w, "finalized")
  /\ UNCHANGED <<synced, used, acked>>

\* cleanup(); idempotent, and allowed after finalize().
Cleanup(w) ==
  /\ writer[w].phase # "absent"
  /\ \/ /\ writer[w].phase = "open" /\ Room(w, <<>>)
        /\ CloseFlushes(w)
        /\ SetPhase(w, "closed")
     \/ /\ writer[w].phase # "open"
        /\ UNCHANGED <<data, owing, writer>>
  /\ UnlinkPartial
  /\ UNCHANGED <<synced, used, finalEnt, acked>>

\* The owner of a writer that is closed forgets it.
Release(w) ==
  /\ writer[w].phase \in {"closed", "finalized"}
  /\ writer' = [writer EXCEPT ![w] = NoWriter]
  /\ UNCHANGED <<disk, acked>>

\* The pipeline that was given path_final deletes it.
ConsumeFinal ==
  /\ finalEnt # NoInode
  /\ finalEnt' = NoInode
  /\ UNCHANGED <<data, synced, used, partialEnt, writer, acked, owing>>

-------------------------------------------------------------------------------
(***************************************************************************)
(* Failures.                                                               *)
(***************************************************************************)

\* What a reboot leaves of each file: at least the fsynced prefix, and all of
\* what is left is then on stable storage.
LoseUnsynced ==
  \E kept \in [Inodes -> 0..MaxBytes] :
    /\ \A i \in Inodes : synced[i] <= kept[i] /\ kept[i] <= Len(data[i])
    /\ data' = [i \in Inodes |-> SubSeq(data[i], 1, kept[i])]
    /\ synced' = kept
    /\ owing' = {}

EngineCrash ==
  /\ writer' = [w \in Writers |-> NoWriter]
  /\ UNCHANGED <<disk, acked>>

PowerLoss ==
  /\ LoseUnsynced
  /\ writer' = [w \in Writers |-> NoWriter]
  /\ UNCHANGED <<used, partialEnt, finalEnt, acked>>

Next ==
  \/ \E w \in Writers :
       \/ Open(w)
       \/ Write(w)
       \/ FinalizeEmpty(w)
       \/ CloseFails(w)
       \/ FinalizeMissing(w)
       \/ FinalizeRenames(w)
       \/ Cleanup(w)
       \/ Release(w)
  \/ ConsumeFinal
  \/ EngineCrash
  \/ PowerLoss

Spec == Init /\ [][Next]_vars

-------------------------------------------------------------------------------
(***************************************************************************)
(* Properties.                                                             *)
(***************************************************************************)

\* A checkpoint offset the frontend was told is never lost again: the file
\* that was checkpointed is at least that long in every later state, power
\* losses and other writers of the same path included (CR-01: fsync before the
\* offset is returned).
AckedSurvives == \A i \in Inodes : acked[i] <= Len(data[i])

\* Less than one checkpoint interval of a file is ever at risk, however many
\* writers append to it and in whatever order, across reopens: the fsynced
\* prefix reaches the last interval boundary below the file's length.  A call that
\* raised puts more at risk, but only until the next checkpoint of any writer.
AtRiskBounded == \A i \in Inodes \ owing : Boundary(Len(data[i])) <= synced[i]

\* chunker.py:159 and :162 of current_offset(): "Return the last
\* durably-fsynced byte offset ... We only report what is on disk, not what is
\* in the OS page cache."
OffsetIsDurable ==
  \A w \in Writers :
    writer[w].phase = "open" => CurrentOffset(w) <= synced[writer[w].ino]

\* What the rest of the engine may rely on: UploadLog, read off the path
\* <job_id>.partial.  A write through a descriptor whose file is no longer at
\* that path is a stuttering step.
PartialAcked == IF partialEnt = NoInode THEN 0 ELSE acked[partialEnt]

Log == INSTANCE UploadLog WITH length <- PartialSize, promised <- PartialAcked
ImplementsUploadLog == Log!Spec
===============================================================================
