---------------------------- MODULE InboundJobProofs ----------------------------
(***************************************************************************)
(* The handlers of one job, for any number of them, any messages and any   *)
(* limits.                                                                 *)
(***************************************************************************)
EXTENDS InboundJob, TLAPS

\* What is proved of PartialFile is used here: a handler that opens its writer and
\* writes in one step is no step of PartialFile, but what it does to the files is a
\* write through a descriptor in order.
PFP == INSTANCE PartialFileProofs WITH Writers <- Handlers

LEMMA FileAssumptions ==
  /\ NoInode \notin Inodes
  /\ CheckpointInterval \in Nat \ {0}
  /\ Chunks \subseteq Seq(Byte)
  /\ MaxBytes \in Nat
  BY HandlerInodeAssumption, HandlerFileAssumption, LimitsAssumption

\* The part of TypeOK that is not about the temp directory.
ControlTyped ==
  /\ sidecar \in Shas \cup {NoSidecar, Unreadable}
  /\ chan \in [Handlers -> {"new", "open", "closed"}]
  /\ queue \in [Handlers -> Seq(Messages)]
  /\ sent \in [Handlers -> Nat]
  /\ consumer \in [Handlers -> {"none", "ready", "emit", "stopped"}]
  /\ eofSeen \in [Handlers -> BOOLEAN]
  /\ task \in [Handlers -> Active \cup {"none", "ended"}]
  /\ input \in [Handlers -> Seq(Byte)]
  /\ shown \in Busy \cup {"idle"}
  /\ started \in [Handlers -> Nat]
  /\ verdicts \in [Handlers -> Seq(Verdicts)]
  /\ resumed \in [Handlers -> Nat \cup {NoReply}]

\* A live writer has not reported beyond its position; any other has nothing left to
\* write.
Tidy(st) ==
  /\ st.phase = "open" => st.fsync <= st.pos
  /\ st.phase # "open" => st.buf = <<>>

WritersTidy == \A h \in Handlers : Tidy(writer[h])

Typed == TypeOK /\ PFP!IInv /\ WritersTidy

-------------------------------------------------------------------------------
(***************************************************************************)
(* The operators of PartialFile, in the two instances of it.               *)
(***************************************************************************)
LEMMA SameState ==
  /\ PFP!TypeOK <=> PF!TypeOK
  /\ PFP!WriterState = PF!WriterState
  /\ PFP!NoWriter = PF!NoWriter
  /\ PFP!OpenTargets = PF!OpenTargets
  /\ \A i : PFP!OpenedOn(i) = PF!OpenedOn(i)
<1>1. PFP!WriterState = PF!WriterState
  BY DEF PFP!WriterState, PF!WriterState, PFP!Phases, PF!Phases
<1>2. PFP!TypeOK <=> PF!TypeOK
  BY <1>1 DEF PFP!TypeOK, PF!TypeOK
<1>3. PFP!NoWriter = PF!NoWriter
  BY DEF PFP!NoWriter, PF!NoWriter
<1>4. PFP!OpenTargets = PF!OpenTargets
  BY DEF PFP!OpenTargets, PF!OpenTargets
<1>5. \A i : PFP!OpenedOn(i) = PF!OpenedOn(i)
  BY DEF PFP!OpenedOn, PF!OpenedOn, PFP!Boundary, PF!Boundary
<1>. QED
  BY <1>1, <1>2, <1>3, <1>4, <1>5

LEMMA SameCalls ==
  /\ \A i : PFP!LinkPartial(i) <=> PF!LinkPartial(i)
  /\ \A h, st, bytes : PFP!AppendChunk(h, st, bytes) <=> PF!AppendChunk(h, st, bytes)
  /\ \A h, st, bytes : PFP!AppendRaises(h, st, bytes) <=> PF!AppendRaises(h, st, bytes)
  /\ \A h : PFP!CloseFlushes(h) <=> PF!CloseFlushes(h)
  /\ \A h : PFP!CloseRaises(h) <=> PF!CloseRaises(h)
  /\ \A h, phase : PFP!SetPhase(h, phase) <=> PF!SetPhase(h, phase)
  /\ PFP!LoseUnsynced <=> PF!LoseUnsynced
<1>1. \A i : PFP!LinkPartial(i) <=> PF!LinkPartial(i)
  BY DEF PFP!LinkPartial, PF!LinkPartial
<1>2. \A h, st, bytes : PFP!AppendChunk(h, st, bytes) <=> PF!AppendChunk(h, st, bytes)
  BY DEF PFP!AppendChunk, PF!AppendChunk, PFP!OffsetAfter, PF!OffsetAfter, PFP!Boundary,
     PF!Boundary
<1>3. \A h, st, bytes : PFP!AppendRaises(h, st, bytes) <=> PF!AppendRaises(h, st, bytes)
  BY DEF PFP!AppendRaises, PF!AppendRaises, PFP!FlushRaises, PF!FlushRaises,
     PFP!FsyncRaises,
     PF!FsyncRaises, PFP!Spill, PF!Spill, PFP!OffsetAfter, PF!OffsetAfter, PFP!Boundary,
     PF!Boundary
<1>4. \A h : PFP!CloseFlushes(h) <=> PF!CloseFlushes(h)
  BY DEF PFP!CloseFlushes, PF!CloseFlushes, PFP!Spill, PF!Spill
<1>5. \A h : PFP!CloseRaises(h) <=> PF!CloseRaises(h)
  BY DEF PFP!CloseRaises, PF!CloseRaises, PFP!Spill, PF!Spill
<1>6. \A h, phase : PFP!SetPhase(h, phase) <=> PF!SetPhase(h, phase)
  BY DEF PFP!SetPhase, PF!SetPhase
<1>7. PFP!LoseUnsynced <=> PF!LoseUnsynced
  BY DEF PFP!LoseUnsynced, PF!LoseUnsynced
<1>. QED
  BY <1>1, <1>2, <1>3, <1>4, <1>5, <1>6, <1>7

LEMMA NoWriterTidy ==
  /\ PF!NoWriter \in PF!WriterState /\ PF!NoWriter.phase = "absent"
  /\ PF!NoWriter.buf = <<>> /\ PF!NoWriter.fsync = 0
<1>1. <<>> \in Seq(Byte)
  OBVIOUS
<1>. QED
  BY <1>1 DEF PF!NoWriter, PF!WriterState, PF!Phases

\* What Typed says, part by part.
LEMMA TypedFiles ==
  ASSUME Typed
  PROVE  /\ ControlTyped /\ PF!TypeOK
         /\ \A i \in Inodes : /\ data[i] \in Seq(Byte) /\ Len(data[i]) \in Nat
                              /\ acked[i] \in Nat /\ acked[i] <= Len(data[i])
         /\ \A h \in Handlers :
              /\ writer[h] \in PF!WriterState /\ Tidy(writer[h])
              /\ writer[h].phase = "open" => PFP!Stands(writer[h])
<1>1. ControlTyped /\ PF!TypeOK /\ PFP!TypeOK
  BY DEF Typed, TypeOK, ControlTyped, PFP!IInv
<1>2. ASSUME NEW i \in Inodes
      PROVE  /\ data[i] \in Seq(Byte) /\ Len(data[i]) \in Nat
             /\ acked[i] \in Nat /\ acked[i] <= Len(data[i])
  <2>1. data[i] \in Seq(Byte) /\ acked[i] \in Nat /\ synced[i] \in Nat
    BY <1>1 DEF PF!TypeOK
  <2>2. acked[i] <= synced[i] /\ synced[i] <= Len(data[i])
    BY DEF Typed, PFP!IInv, PFP!AckedSynced
  <2>. QED
    BY <2>1, <2>2
<1>3. ASSUME NEW h \in Handlers
      PROVE  /\ writer[h] \in PF!WriterState /\ Tidy(writer[h])
             /\ writer[h].phase = "open" => PFP!Stands(writer[h])
  <2>1. writer[h] \in PFP!WriterState /\ PFP!WriterOK(writer[h]) /\ used \subseteq Inodes
    BY <1>1 DEF Typed, PFP!IInv, PFP!WritersOK, PFP!TypeOK
  <2>. QED
    BY <2>1, SameState DEF Typed, WritersTidy, PFP!WriterOK, PFP!Stands
<1>. QED
  BY <1>1, <1>2, <1>3

-------------------------------------------------------------------------------
(***************************************************************************)
(* Typing.                                                                 *)
(***************************************************************************)

\* A message is what its kind says.
LEMMA MessageFields ==
  ASSUME NEW m \in Messages
  PROVE  /\ m.kind = "chunk" => m.bytes \in Chunks
         /\ m.kind = "job_init" => m.sha \in Shas
  BY DEF Messages

LEMMA Consumed ==
  ASSUME ControlTyped, NEW h \in Handlers, NEW kind, Consume(h, kind)
  PROVE  /\ queue' \in [Handlers -> Seq(Messages)]
         /\ Head(queue[h]) \in Messages /\ Head(queue[h]).kind = kind
  BY DEF ControlTyped, Consume

LEMMA Told ==
  ASSUME ControlTyped, NEW h \in Handlers, NEW v \in Verdicts, SendVerdict(h, v)
  PROVE  verdicts' \in [Handlers -> Seq(Verdicts)]
  BY DEF ControlTyped, SendVerdict

LEMMA Shows ==
  ASSUME ControlTyped, NEW value \in Busy \cup {"idle"}, Show(value)
  PROVE  shown' \in Busy \cup {"idle"}
  BY DEF ControlTyped, Show

LEMMA OffsetNat ==
  ASSUME PF!TypeOK, NEW h \in Handlers
  PROVE  PF!PartialSize \in Nat /\ PF!CurrentOffset(h) \in Nat
<1>1. PF!CurrentOffset(h) \in Nat
  BY DEF PF!TypeOK, PF!CurrentOffset, PF!WriterState
<1>2. PF!PartialSize \in Nat
  <2>1. CASE partialEnt = NoInode
    BY <2>1 DEF PF!PartialSize
  <2>2. CASE partialEnt # NoInode
    <3>1. data[partialEnt] \in Seq(Byte)
      BY <2>2 DEF PF!TypeOK
    <3> QED
      BY <2>2, <3>1 DEF PF!PartialSize
  <2> QED
    BY <2>1, <2>2
<1> QED
  BY <1>1, <1>2

LEMMA ControlKept ==
  ASSUME Typed, [Next]_vars
  PROVE  ControlTyped'
<1>0. ControlTyped /\ PF!TypeOK
  BY TypedFiles
<1>1. ASSUME NEW h \in Handlers, Bind(h) PROVE ControlTyped'
  BY <1>0, <1>1 DEF ControlTyped, Bind, Active, Busy, Verdicts, NoReply, disk, files,
     link, consuming, pipeline, told
<1>2. ASSUME NEW h \in Handlers, ChannelLost(h) PROVE ControlTyped'
  BY <1>0, <1>2 DEF ControlTyped, ChannelLost, Active, Busy, Verdicts, NoReply, disk,
     files, link, consuming, pipeline, told
<1>3. ASSUME NEW h \in Handlers, CloseHandler(h) PROVE ControlTyped'
  BY <1>0, <1>3 DEF ControlTyped, CloseHandler, Active, Busy, Verdicts, NoReply, disk,
     files, link, consuming, pipeline, told
<1>4. ASSUME NEW h \in Handlers, HandleChunk(h) PROVE ControlTyped'
  BY <1>0, <1>4, Consumed DEF ControlTyped, HandleChunk, Active, Busy, Verdicts,
     NoReply, disk, files, link, consuming, pipeline, told
<1>5. ASSUME NEW h \in Handlers, HandleChunkFails(h) PROVE ControlTyped'
  BY <1>0, <1>5, Consumed DEF ControlTyped, HandleChunkFails, Active, Busy, Verdicts,
     NoReply, disk, files, link, consuming, pipeline, told
<1>6. ASSUME NEW h \in Handlers, HandleJobInit(h) PROVE ControlTyped'
  BY <1>0, <1>6, Consumed, MessageFields DEF ControlTyped, HandleJobInit, Active,
     Busy, Verdicts, NoReply, disk, files, link, consuming, pipeline, told
<1>7. ASSUME NEW h \in Handlers, HandleJobInitFails(h) PROVE ControlTyped'
  BY <1>0, <1>7, Consumed DEF ControlTyped, HandleJobInitFails, Active, Busy,
     Verdicts, NoReply, disk, files, link, consuming, pipeline, told
<1>8. ASSUME NEW h \in Handlers, HandleEof(h) PROVE ControlTyped'
  BY <1>0, <1>8, Consumed, Told, Shows DEF ControlTyped, HandleEof, Finalizes,
     EofWithoutWriter, EofOnEmpty, EofCloseRaises, EofOnMissing, EofOnAudio, Active, Busy,
     Verdicts, NoReply, disk, files, link, consuming, pipeline, told
<1>9. ASSUME NEW h \in Handlers, HandleDuplicateEof(h) PROVE ControlTyped'
  BY <1>0, <1>9, Consumed DEF ControlTyped, HandleDuplicateEof, Active, Busy,
     Verdicts, NoReply, disk, files, link, consuming, pipeline, told
<1>10. ASSUME NEW h \in Handlers, KickPipeline(h) PROVE ControlTyped'
  BY <1>0, <1>10 DEF ControlTyped, KickPipeline, Active, Busy, Verdicts, NoReply,
     disk, files, link, consuming, pipeline, told
<1>11. ASSUME NEW h \in Handlers, HandleResumeAccept(h) PROVE ControlTyped'
  BY <1>0, <1>11, Consumed, OffsetNat DEF ControlTyped, HandleResumeAccept,
     SendResumeState, Active, Busy, Verdicts, NoReply, disk, files, link, consuming,
     pipeline, told
<1>12. ASSUME NEW h \in Handlers, HandleResumeRefuse(h) PROVE ControlTyped'
  BY <1>0, <1>12, Consumed DEF ControlTyped, HandleResumeRefuse, Refuses,
     SendResumeState,
     Active, Busy, Verdicts, NoReply, disk, files, link, consuming, pipeline, told
<1>13. ASSUME NEW h \in Handlers, HandleResumeRaises(h) PROVE ControlTyped'
  BY <1>0, <1>13, Consumed DEF ControlTyped, HandleResumeRaises, SendResumeState,
     Active, Busy, Verdicts, NoReply, disk, files, link, consuming, pipeline, told
<1>14. ASSUME NEW h \in Handlers, HandleOther(h) PROVE ControlTyped'
  BY <1>0, <1>14, Consumed DEF ControlTyped, HandleOther, Active, Busy, Verdicts,
     NoReply, disk, files, link, consuming, pipeline, told
<1>15. ASSUME NEW h \in Handlers, PipelineTooLarge(h) PROVE ControlTyped'
  BY <1>0, <1>15, Told, Shows DEF ControlTyped, PipelineTooLarge, At, Active, Busy,
     Verdicts, NoReply, disk, files, link, consuming, pipeline, told
<1>16. ASSUME NEW h \in Handlers, PipelineLoads(h) PROVE ControlTyped'
  BY <1>0, <1>16, Shows DEF ControlTyped, PipelineLoads, At, Active, Busy, Verdicts,
     NoReply, disk, files, link, consuming, pipeline, told
<1>17. ASSUME NEW h \in Handlers, PipelineReads(h) PROVE ControlTyped'
  <2>1. data[finalEnt] \in Seq(Byte)
    BY <1>0, <1>17 DEF PF!TypeOK, PipelineReads
  <2> QED
    BY <1>0, <1>17, <2>1 DEF ControlTyped, PipelineReads, At, Active, disk, files,
       link, consuming, told
<1>18. ASSUME NEW h \in Handlers, PipelineSucceeds(h) PROVE ControlTyped'
  BY <1>0, <1>18, Told, Shows DEF ControlTyped, PipelineSucceeds, At, Active, Busy,
     Verdicts, NoReply, disk, files, link, consuming, pipeline, told
<1>19. ASSUME NEW h \in Handlers, PipelineFails(h) PROVE ControlTyped'
  BY <1>0, <1>19, Told, Shows DEF ControlTyped, PipelineFails, At, Active, Busy,
     Verdicts, NoReply, disk, files, link, consuming, pipeline, told
<1>20. ASSUME NEW h \in Handlers, PipelineCleans(h) PROVE ControlTyped'
  BY <1>0, <1>20 DEF ControlTyped, PipelineCleans, At, Active, Busy, Verdicts,
     NoReply, disk, files, link, consuming, pipeline, told
<1>21. ASSUME NEW h \in Handlers, NEW m \in Inbox, Receive(h, m) PROVE ControlTyped'
  <2>1. m \in Messages
    BY InboxAssumption
  <2>2. queue' \in [Handlers -> Seq(Messages)]
    <3>1. Append(queue[h], m) \in Seq(Messages)
      BY <1>0, <2>1 DEF ControlTyped
    <3> QED
      BY <1>0, <1>21, <3>1 DEF ControlTyped, Receive
  <2>3. chan' \in [Handlers -> {"new", "open", "closed"}]
    BY <1>0, <1>21 DEF ControlTyped, Receive
  <2>4. sent' \in [Handlers -> Nat]
    BY <1>0, <1>21 DEF ControlTyped, Receive
  <2>5. UNCHANGED <<sidecar, consumer, eofSeen, task, input, started, shown, verdicts, resumed>>
    BY <1>21 DEF Receive, disk, pipeline, told
  <2> QED
    BY <1>0, <2>2, <2>3, <2>4, <2>5 DEF ControlTyped
<1>22. CASE EngineCrash
  BY <1>0, <1>22 DEF ControlTyped, EngineCrash, Dies, Active, told
<1>23. CASE PowerLoss
  BY <1>0, <1>23 DEF ControlTyped, PowerLoss, Dies, Active, told
<1>24. CASE UNCHANGED vars
  BY <1>0, <1>24 DEF ControlTyped, vars, disk, files, link, consuming, pipeline, told
<1>25. ASSUME NEW h \in Handlers, HandleResumeRefuseRaises(h) PROVE ControlTyped'
  BY <1>0, <1>25, Consumed DEF ControlTyped, HandleResumeRefuseRaises, Refuses,
     Active, Busy,
     Verdicts, NoReply, disk, files, link, consuming, pipeline, told
<1>26. ASSUME NEW h \in Handlers, PipelineCleansRaises(h) PROVE ControlTyped'
  BY <1>0, <1>26 DEF ControlTyped, PipelineCleansRaises, At, Active, Busy, Verdicts,
     NoReply,
     disk, files, link, consuming, pipeline, told
<1>27. ASSUME NEW h \in Handlers, WriterCollected(h) PROVE ControlTyped'
  BY <1>0, <1>27 DEF ControlTyped, WriterCollected, Active, Busy, Verdicts, NoReply,
     disk,
     files, link, consuming, pipeline, told
<1> QED
  BY <1>1, <1>2, <1>3, <1>4, <1>5, <1>6, <1>7, <1>8, <1>9, <1>10, <1>11, <1>12, <1>13,
     <1>14, <1>15, <1>16, <1>17, <1>18, <1>19, <1>20, <1>21, <1>22, <1>23, <1>24, <1>25,
     <1>26, <1>27
     DEF Next, Engine, Environment, Interruption, ConsumerStep, PipelineStep

-------------------------------------------------------------------------------
(***************************************************************************)
(* The temp directory.                                                     *)
(***************************************************************************)

\* A step without a write(): files only grow, by what a close() writes, names only
\* go, and a writer stays as it is or is put out of use.
Quiet ==
  /\ PFP!Grows
  /\ UNCHANGED <<synced, used, acked>>
  /\ partialEnt' \in {partialEnt, NoInode}
  /\ finalEnt' \in {finalEnt, partialEnt, NoInode}
  /\ writer' \in [Handlers -> PFP!WriterState]
  /\ \A h \in Handlers :
       writer'[h] = writer[h] \/ (writer'[h].phase # "open" /\ writer'[h].buf = <<>>)

\* A call of write(bytes), on the writer the handler has or on the one it opens.
Calls(h, st, bytes) ==
  /\ UNCHANGED finalEnt
  /\ \/ st = writer[h] /\ writer[h].phase = "open" /\ UNCHANGED <<used, partialEnt>>
     \/ \E i \in PF!OpenTargets : st = PF!OpenedOn(i) /\ PF!LinkPartial(i)
  /\ PF!AppendChunk(h, st, bytes) \/ ("disk" \in Faults /\ PF!AppendRaises(h, st, bytes))

LEMMA CallInOrder ==
  ASSUME Typed, NEW h \in Handlers, NEW st, NEW bytes \in Chunks, Calls(h, st, bytes)
  PROVE  /\ bytes \in Seq(Byte)
         /\ PFP!Stands(st) /\ st.fsync <= st.pos /\ PFP!Reaches(st.ino)
         /\ PFP!AppendChunk(h, st, bytes) \/ PFP!AppendRaises(h, st, bytes)
         /\ finalEnt' \in used' \cup {NoInode}
         /\ \/ partialEnt' = partialEnt
            \/ partialEnt = NoInode /\ partialEnt' \in Inodes \ used
<1>0. /\ PF!TypeOK /\ PFP!TypeOK /\ PFP!PathsUsed /\ PFP!AtRiskBounded
      /\ bytes \in Seq(Byte)
  BY TypedFiles, FileAssumptions DEF Typed, PFP!IInv
<1>1. PFP!AppendChunk(h, st, bytes) \/ PFP!AppendRaises(h, st, bytes)
  BY SameCalls DEF Calls
<1>2. CASE st = writer[h] /\ writer[h].phase = "open" /\ UNCHANGED <<used, partialEnt>>
  <2>1. PFP!Stands(writer[h]) /\ Tidy(writer[h])
    BY <1>2, TypedFiles
  <2>2. PFP!WriterOK(writer[h])
    BY DEF Typed, PFP!IInv, PFP!WritersOK
  <2>3. PFP!Reaches(st.ino)
    BY <1>2, <2>2 DEF PFP!Reaches, PFP!WriterOK
  <2>4. finalEnt' \in used' \cup {NoInode}
    BY <1>0, <1>2 DEF Calls, PFP!PathsUsed
  <2>. QED
    BY <1>0, <1>1, <1>2, <2>1, <2>3, <2>4 DEF Tidy
<1>3. ASSUME NEW i \in PF!OpenTargets, st = PF!OpenedOn(i), PF!LinkPartial(i)
      PROVE  /\ PFP!Stands(st) /\ st.fsync <= st.pos /\ PFP!Reaches(st.ino)
             /\ finalEnt' \in used' \cup {NoInode}
             /\ \/ partialEnt' = partialEnt
                \/ partialEnt = NoInode /\ partialEnt' \in Inodes \ used
  <2>1. i \in Inodes
    BY <1>0 DEF PF!OpenTargets, PF!TypeOK
  <2>2. PFP!Stands(st) /\ st.ino = i
    BY <1>0, <1>3, <2>1, SameState, FileAssumptions, PFP!OpenedOnOK
  <2>3. st.fsync <= st.pos
    <3>1. st.fsync = Len(data[i]) /\ st.pos = Len(data[i])
      BY <1>3 DEF PF!OpenedOn
    <3>2. Len(data[i]) \in Nat
      BY <2>1, TypedFiles
    <3>. QED
      BY <3>1, <3>2
  <2>4. PFP!Reaches(st.ino)
    BY <1>3, <2>2, SameState, SameCalls DEF PFP!Reaches
  <2>5. finalEnt' \in used' \cup {NoInode}
    BY <1>0, <1>3 DEF Calls, PFP!PathsUsed, PF!LinkPartial
  <2>6. \/ partialEnt' = partialEnt
        \/ partialEnt = NoInode /\ partialEnt' \in Inodes \ used
    BY <1>3 DEF PF!OpenTargets, PF!LinkPartial
  <2>. QED
    BY <2>2, <2>3, <2>4, <2>5, <2>6
<1>. QED
  BY <1>0, <1>1, <1>2, <1>3 DEF Calls

\* A step after which the writer of h, whose close() was called or which had nothing
\* left to write, is out of use.
LEMMA ShutQuiet ==
  ASSUME Typed, NEW h \in Handlers,
         UNCHANGED <<data, owing>> \/ PF!CloseFlushes(h) \/ PF!CloseRaises(h),
         UNCHANGED <<synced, used, acked>>,
         partialEnt' \in {partialEnt, NoInode},
         finalEnt' \in {finalEnt, partialEnt, NoInode},
         PF!SetPhase(h, "closed") \/ writer' = [writer EXCEPT ![h] = PF!NoWriter]
  PROVE  Quiet
<1>0. PFP!TypeOK /\ PFP!FreshEmpty /\ PFP!IInv /\ used \subseteq used'
  BY DEF Typed, PFP!IInv
<1>1. PFP!Grows
  <2>1. CASE UNCHANGED <<data, owing>>
    BY <1>0, <2>1, FileAssumptions, PFP!UnchangedGrows
  <2>2. CASE writer[h].phase = "open" /\ (PF!CloseFlushes(h) \/ PF!CloseRaises(h))
    BY <1>0, <2>2, SameCalls, FileAssumptions, PFP!CloseGrows
  <2>3. CASE writer[h].phase # "open" /\ (PF!CloseFlushes(h) \/ PF!CloseRaises(h))
    <3>1. writer[h].buf = <<>>
      BY <2>3 DEF Typed, WritersTidy, Tidy
    <3>2. Len(<<>>) = 0 /\ 0..(0 - 1) = {}
      OBVIOUS
    <3>3. UNCHANGED <<data, owing>>
      BY <2>3, <3>1, <3>2 DEF PF!CloseFlushes, PF!CloseRaises, PF!Spill
    <3>. QED
      BY <2>1, <3>3
  <2>. QED
    BY <2>1, <2>2, <2>3
<1>2. /\ writer' \in [Handlers -> PFP!WriterState]
      /\ \A g \in Handlers :
           writer'[g] = writer[g] \/ (writer'[g].phase # "open" /\ writer'[g].buf = <<>>)
  <2>1. CASE PF!SetPhase(h, "closed")
    <3>1. writer' = [writer EXCEPT ![h] = [writer[h] EXCEPT !.phase = "closed", !.buf = <<>>]]
      BY <1>0, <2>1 DEF PF!SetPhase, PFP!TypeOK
    <3> DEFINE shut == [writer[h] EXCEPT !.phase = "closed", !.buf = <<>>]
    <3>2. <<>> \in Seq(Byte) /\ writer[h] \in PFP!WriterState
      BY <1>0 DEF PFP!TypeOK
    <3>3. shut \in PFP!WriterState /\ shut.phase = "closed" /\ shut.buf = <<>>
      BY <3>2 DEF PFP!WriterState, PFP!Phases
    <3> HIDE DEF shut
    <3>. QED
      BY <1>0, <3>1, <3>3 DEF PFP!TypeOK, shut
  <2>2. CASE writer' = [writer EXCEPT ![h] = PF!NoWriter]
    BY <1>0, <2>2, NoWriterTidy, SameState DEF PFP!TypeOK
  <2>. QED
    BY <2>1, <2>2
<1>. QED
  BY <1>1, <1>2 DEF Quiet

\* What a step of the handlers is to the files.
LEMMA StepOfFiles ==
  ASSUME Typed, [Next]_vars
  PROVE  \/ Quiet
         \/ PFP!PowerLoss
         \/ \E h \in Handlers, bytes \in Chunks : \E st : Calls(h, st, bytes)
<1>0. PF!TypeOK /\ ControlTyped /\ PFP!TypeOK /\ PFP!FreshEmpty
  BY TypedFiles DEF Typed, PFP!IInv
<1>1. ASSUME UNCHANGED <<data, synced, used, acked, owing, partialEnt, writer>>,
             finalEnt' \in {finalEnt, NoInode}
      PROVE  Quiet
  <2>1. PFP!Grows
    BY <1>0, <1>1, FileAssumptions, PFP!UnchangedGrows
  <2>. QED
    BY <1>0, <1>1, <2>1 DEF PFP!TypeOK, Quiet
<1>2. ASSUME NEW h \in Handlers, HandleChunk(h) \/ HandleChunkFails(h)
      PROVE  Quiet \/ \E bytes \in Chunks : \E st : Calls(h, st, bytes)
  <2> DEFINE bytes == Head(queue[h]).bytes
  <2>1. bytes \in Chunks
    BY <1>0, <1>2, Consumed, MessageFields DEF HandleChunk, HandleChunkFails
  <2>2. (\E st : Calls(h, st, bytes)) \/ UNCHANGED <<files, writer>>
    <3>1. CASE HandleChunk(h)
      BY <3>1 DEF HandleChunk, Calls, files
    <3>2. CASE HandleChunkFails(h)
      BY <3>2 DEF HandleChunkFails, Calls, files
    <3>. QED
      BY <1>2, <3>1, <3>2
  <2> HIDE DEF bytes
  <2>3. UNCHANGED <<files, writer>> => Quiet
    BY <1>1 DEF files
  <2>. QED
    BY <2>1, <2>2, <2>3
<1>3. ASSUME NEW h \in Handlers, HandleEof(h) PROVE Quiet
  <2>1. UNCHANGED <<synced, used, acked>>
    BY <1>3 DEF HandleEof
  <2>2. CASE EofWithoutWriter(h)
    BY <1>1, <2>1, <2>2 DEF EofWithoutWriter
  <2>3. CASE EofOnEmpty(h)
    BY <2>1, <2>3, ShutQuiet DEF EofOnEmpty, PF!UnlinkPartial
  <2>4. CASE EofCloseRaises(h) \/ EofOnMissing(h)
    BY <2>1, <2>4, ShutQuiet DEF EofCloseRaises, EofOnMissing
  <2>5. CASE EofOnAudio(h)
    BY <2>1, <2>5, ShutQuiet DEF EofOnAudio, PF!RenameToFinal
  <2>. QED
    BY <1>3, <2>2, <2>3, <2>4, <2>5 DEF HandleEof, Finalizes
<1>4. ASSUME NEW h \in Handlers, HandleResumeRefuse(h) \/ HandleResumeRefuseRaises(h)
      PROVE  Quiet
  BY <1>4, ShutQuiet DEF HandleResumeRefuse, HandleResumeRefuseRaises, Refuses,
     PF!UnlinkPartial
<1>5. ASSUME NEW h \in Handlers, PipelineTooLarge(h) PROVE Quiet
  BY <1>1, <1>5 DEF PipelineTooLarge
<1>6. ASSUME NEW h \in Handlers, PipelineCleans(h) \/ PipelineCleansRaises(h) PROVE Quiet
  BY <1>6, ShutQuiet DEF PipelineCleans, PipelineCleansRaises, PF!UnlinkPartial
<1>7. CASE EngineCrash
  <2>1. /\ UNCHANGED <<data, synced, used, acked, owing, partialEnt, finalEnt>>
        /\ writer' = [h \in Handlers |-> PF!NoWriter]
    BY <1>7 DEF EngineCrash, Dies
  <2>2. PFP!Grows
    BY <1>0, <2>1, FileAssumptions, PFP!UnchangedGrows
  <2>. QED
    BY <2>1, <2>2, NoWriterTidy, SameState DEF Quiet
<1>8. CASE PowerLoss
  BY <1>8, SameState, SameCalls DEF PowerLoss, Dies, PFP!PowerLoss
<1>9. ASSUME NEW h \in Handlers,
             Bind(h) \/ ChannelLost(h) \/ CloseHandler(h) \/ \E m \in Inbox : Receive(h, m)
      PROVE  Quiet
  BY <1>1, <1>9 DEF Bind, ChannelLost, CloseHandler, Receive, disk, files
<1>10. ASSUME NEW h \in Handlers, WriterCollected(h) PROVE Quiet
  BY <1>10, ShutQuiet DEF WriterCollected
<1>11. ASSUME NEW h \in Handlers,
              \/ HandleJobInit(h) \/ HandleJobInitFails(h)
              \/ HandleDuplicateEof(h) \/ KickPipeline(h)
              \/ HandleResumeAccept(h) \/ HandleResumeRaises(h) \/ HandleOther(h)
       PROVE  Quiet
  BY <1>1, <1>11 DEF HandleJobInit, HandleJobInitFails, HandleDuplicateEof,
     KickPipeline,
     HandleResumeAccept, HandleResumeRaises, HandleOther, disk, files
<1>12. ASSUME NEW h \in Handlers,
              \/ PipelineLoads(h) \/ PipelineReads(h) \/ PipelineSucceeds(h) \/ PipelineFails(h)
       PROVE  Quiet
  BY <1>1, <1>12 DEF PipelineLoads, PipelineReads, PipelineSucceeds, PipelineFails,
     disk, files
<1>13. CASE UNCHANGED vars
  BY <1>1, <1>13 DEF vars, disk, files
<1>. QED
  BY <1>2, <1>3, <1>4, <1>5, <1>6, <1>7, <1>8, <1>9, <1>10, <1>11, <1>12, <1>13
     DEF Next, Engine, Environment, Interruption, ConsumerStep, PipelineStep

\* A step without a write() keeps what is true of the files, and takes no byte and
\* no promise back.
LEMMA QuietKept ==
  ASSUME Typed, Quiet
  PROVE  /\ PFP!IInv' /\ WritersTidy'
         /\ \A j \in Inodes : Len(data[j]) <= Len(data'[j]) /\ acked[j] <= acked'[j]
<1>1. /\ PFP!IInv'
      /\ \A j \in Inodes : Len(data[j]) <= Len(data'[j]) /\ acked[j] <= acked'[j]
  BY FileAssumptions, PFP!CloseKeeps DEF Quiet, Typed
<1>2. WritersTidy'
  BY DEF WritersTidy, Tidy, Quiet, Typed
<1>. QED
  BY <1>1, <1>2

\* So does one with a write(), whether it returns or raises.
LEMMA CallFiles ==
  ASSUME Typed, NEW h \in Handlers, NEW st, NEW bytes \in Chunks, Calls(h, st, bytes)
  PROVE  /\ PFP!IInv' /\ WritersTidy'
         /\ \A j \in Inodes : Len(data[j]) <= Len(data'[j]) /\ acked[j] <= acked'[j]
<1>0. /\ bytes \in Seq(Byte) /\ PFP!IInv
      /\ PFP!Stands(st) /\ st.fsync <= st.pos /\ PFP!Reaches(st.ino)
      /\ PFP!AppendChunk(h, st, bytes) \/ PFP!AppendRaises(h, st, bytes)
      /\ finalEnt' \in used' \cup {NoInode}
  BY CallInOrder DEF Typed
<1>1. CASE PFP!AppendChunk(h, st, bytes)
  <2>1. /\ PFP!IInv'
        /\ \A j \in Inodes : Len(data[j]) <= Len(data'[j]) /\ acked[j] <= acked'[j]
    BY <1>0, <1>1, FileAssumptions, PFP!AppendKeeps
  <2>2. /\ writer'[h].phase = "open" /\ writer'[h].fsync <= writer'[h].pos
        /\ \A v \in Handlers \ {h} : writer'[v] = writer[v]
    BY <1>0, <1>1, FileAssumptions, PFP!AppendReports
  <2>3. WritersTidy'
    BY <2>2 DEF Typed, WritersTidy, Tidy
  <2>. QED
    BY <2>1, <2>3
<1>2. CASE PFP!AppendRaises(h, st, bytes)
  <2>1. /\ PFP!IInv'
        /\ \A j \in Inodes : Len(data[j]) <= Len(data'[j]) /\ acked[j] <= acked'[j]
    BY <1>0, <1>2, FileAssumptions, PFP!RaiseKeeps
  <2>2. PICK new \in PFP!WriterState :
          /\ writer' = [writer EXCEPT ![h] = new]
          /\ new.phase = "open" /\ new.fsync = st.fsync
          /\ st.pos <= new.pos
    BY <1>0, <1>2, FileAssumptions, PFP!RaiseGrows
  <2>3. new.fsync <= new.pos
    <3>1. st.fsync \in Nat /\ st.pos \in Nat /\ new.pos \in Nat
      BY <1>0 DEF PFP!Stands, PFP!WriterState
    <3>. QED
      BY <1>0, <2>2, <3>1
  <2>4. writer'[h] = new /\ \A v \in Handlers \ {h} : writer'[v] = writer[v]
    BY <1>0, <2>2 DEF PFP!IInv, PFP!TypeOK
  <2>5. WritersTidy'
    BY <2>2, <2>3, <2>4 DEF Typed, WritersTidy, Tidy
  <2>. QED
    BY <2>1, <2>5
<1>. QED
  BY <1>0, <1>1, <1>2

LEMMA FilesKept ==
  ASSUME Typed, [Next]_vars
  PROVE  PFP!IInv' /\ WritersTidy'
<1>1. CASE PFP!PowerLoss
  <2>1. PFP!IInv'
    BY <1>1, FileAssumptions, PFP!PowerLossKeeps DEF Typed
  <2>2. WritersTidy'
    BY <1>1, NoWriterTidy, SameState DEF PFP!PowerLoss, WritersTidy, Tidy
  <2>. QED
    BY <2>1, <2>2
<1>. QED
  BY <1>1, StepOfFiles, QuietKept, CallFiles

LEMMA InitTyped == Init => Typed
<1> SUFFICES ASSUME Init PROVE Typed
  OBVIOUS
<1>1. PF!Init
  BY DEF Init
<1>2. PFP!Init
  BY <1>1, SameState DEF PF!Init, PFP!Init
<1>3. PFP!IInv
  BY <1>2, FileAssumptions, PFP!InitEstablishes
<1>4. PF!TypeOK
  BY <1>3, SameState DEF PFP!IInv
<1>5. WritersTidy
  BY <1>1, NoWriterTidy DEF PF!Init, WritersTidy, Tidy
<1>6. ControlTyped
  BY DEF Init, ControlTyped, Active, Busy, NoReply
<1>. QED
  BY <1>3, <1>4, <1>5, <1>6 DEF Typed, TypeOK, ControlTyped

LEMMA TypedKept ==
  ASSUME Typed, [Next]_vars
  PROVE  Typed'
<1>1. PFP!IInv' /\ WritersTidy' /\ ControlTyped'
  BY ControlKept, FilesKept
<1>2. PF!TypeOK'
  <2>1. PFP!IInv' => PFP!TypeOK'
    BY DEF PFP!IInv
  <2>2. PFP!TypeOK' => PF!TypeOK'
    BY SameState, PTL
  <2>. QED
    BY <1>1, <2>1, <2>2
<1>. QED
  BY <1>1, <1>2 DEF Typed, TypeOK, ControlTyped

LEMMA AlwaysTyped == Spec => []Typed
<1>1. Typed /\ [Next]_vars => Typed'
  BY TypedKept
<1>. QED
  BY InitTyped, <1>1, PTL DEF Spec

\* The handlers of a job keep their state, the job's two paths and the sidecar in
\* the shapes the code relies on, whatever is sent, lost or crashes: TypeOK.
THEOREM HandlersTyped == Spec => []TypeOK
<1>1. Typed => TypeOK
  BY DEF Typed
<1>. QED
  BY <1>1, AlwaysTyped, PTL

-------------------------------------------------------------------------------
(***************************************************************************)
(* One pipeline and one verdict.                                           *)
(***************************************************************************)

\* How far a handler is, and what it has therefore started and said.
Stage(h) ==
  /\ chan[h] = "new" => consumer[h] = "none"
  /\ ~eofSeen[h] => consumer[h] # "emit" /\ task[h] = "none" /\ verdicts[h] = <<>>
  /\ consumer[h] = "emit" => task[h] = "none" /\ verdicts[h] = <<>>
  /\ started[h] = (IF task[h] = "none" THEN 0 ELSE 1)
  /\ task[h] \in {"started", "loading", "running"} => verdicts[h] = <<>>
  /\ Len(verdicts[h]) <= 1

Staged == \A h \in Handlers : Stage(h)

Staging == ControlTyped /\ Staged

\* A first verdict is the only one of its client, or is dropped.
LEMMA SaidOnce ==
  ASSUME ControlTyped, NEW h \in Handlers, NEW v \in Verdicts, SendVerdict(h, v),
         verdicts[h] = <<>>
  PROVE  /\ verdicts' \in {verdicts, [verdicts EXCEPT ![h] = <<v>>]}
         /\ Len(verdicts'[h]) <= 1
         /\ \A g \in Handlers \ {h} : verdicts'[g] = verdicts[g]
<1>1. Append(verdicts[h], v) = <<v>> /\ Len(<<v>>) = 1 /\ Len(verdicts[h]) = 0
  OBVIOUS
<1>2. verdicts' \in {verdicts, [verdicts EXCEPT ![h] = <<v>>]}
  BY <1>1 DEF SendVerdict
<1>3. CASE verdicts' = verdicts
  BY <1>1, <1>2, <1>3
<1>4. CASE verdicts' = [verdicts EXCEPT ![h] = <<v>>]
  <2>1. verdicts'[h] = <<v>> /\ \A g \in Handlers \ {h} : verdicts'[g] = verdicts[g]
    BY <1>4 DEF ControlTyped
  <2> QED
    BY <1>1, <1>2, <2>1
<1> QED
  BY <1>2, <1>3, <1>4

\* A step of one handler that leaves the others where they are.
LEMMA OneMoves ==
  ASSUME Staging, NEW h \in Handlers, Stage(h)',
         \A g \in Handlers \ {h} :
           /\ chan'[g] = chan[g] /\ consumer'[g] = consumer[g] /\ eofSeen'[g] = eofSeen[g]
           /\ task'[g] = task[g] /\ started'[g] = started[g] /\ verdicts'[g] = verdicts[g]
  PROVE  Staged'
<1>1. ASSUME NEW g \in Handlers PROVE Stage(g)'
  <2>1. CASE g = h
    BY <2>1
  <2>2. CASE g # h
    <3>1. Stage(g)
      BY DEF Staging, Staged
    <3> QED
      BY <2>2, <3>1 DEF Stage
  <2> QED
    BY <2>1, <2>2
<1> QED
  BY <1>1 DEF Staged

LEMMA StagedKept ==
  ASSUME Staging, [Next]_vars
  PROVE  Staged'
<1>0. ControlTyped /\ \A h \in Handlers : Stage(h)
  BY DEF Staging, Staged
<1>1. ASSUME UNCHANGED <<chan, consumer, eofSeen, task, started, verdicts>> PROVE Staged'
  BY <1>0, <1>1 DEF Staged, Stage
<1>2. ASSUME NEW h \in Handlers, Environment(h) PROVE Staged'
  <2>1. UNCHANGED <<eofSeen, task, started, verdicts>>
    BY <1>2 DEF Environment, Interruption, Bind, ChannelLost, CloseHandler,
       WriterCollected,
       consuming, pipeline, told
  <2>2. \A g \in Handlers \ {h} : chan'[g] = chan[g] /\ consumer'[g] = consumer[g]
    BY <1>0, <1>2 DEF Environment, Interruption, Bind, ChannelLost, CloseHandler,
       WriterCollected, consuming, link, ControlTyped
  <2>3. consumer'[h] # "emit" \/ consumer'[h] = consumer[h]
    BY <1>0, <1>2 DEF Environment, Interruption, Bind, ChannelLost, CloseHandler,
       WriterCollected, consuming, ControlTyped
  <2>4. chan'[h] # "new"
    BY <1>0, <1>2 DEF Environment, Interruption, Bind, ChannelLost, CloseHandler,
       WriterCollected, Idle, link, ControlTyped
  <2>5. Stage(h)'
    BY <1>0, <2>1, <2>3, <2>4 DEF Stage
  <2> QED
    BY <2>1, <2>2, <2>5, OneMoves
<1>3. ASSUME NEW h \in Handlers, NEW m \in Inbox, Receive(h, m) PROVE Staged'
  <2>1. UNCHANGED <<consumer, eofSeen, task, started, verdicts>>
    BY <1>3 DEF Receive, pipeline, told
  <2>2. chan'[h] # "new" /\ \A g \in Handlers \ {h} : chan'[g] = chan[g]
    BY <1>0, <1>3 DEF Receive, ControlTyped
  <2>3. Stage(h)'
    BY <1>0, <2>1, <2>2 DEF Stage
  <2> QED
    BY <2>1, <2>2, <2>3, OneMoves
<1>4. ASSUME NEW h \in Handlers, HandleEof(h) PROVE Staged'
  <2>1. /\ ~eofSeen[h] /\ consumer[h] = "ready" /\ eofSeen' = [eofSeen EXCEPT ![h] = TRUE]
        /\ UNCHANGED <<chan, task, started>>
    BY <1>4 DEF HandleEof, Consume, link, pipeline
  <2>2. /\ task[h] = "none" /\ verdicts[h] = <<>> /\ started[h] = 0 /\ chan[h] # "new"
        /\ Len(<<>>) = 0
    BY <1>0, <2>1 DEF Stage
  <2>3. /\ Len(verdicts'[h]) <= 1
        /\ consumer'[h] = "emit" => verdicts'[h] = <<>>
        /\ \A g \in Handlers \ {h} : verdicts'[g] = verdicts[g] /\ consumer'[g] = consumer[g]
    <3>1. CASE EofWithoutWriter(h)
      BY <1>0, <2>1, <2>2, <3>1, SaidOnce DEF EofWithoutWriter, Verdicts
    <3>2. CASE EofOnEmpty(h)
      BY <1>0, <2>1, <2>2, <3>2, SaidOnce DEF EofOnEmpty, Verdicts
    <3>3. CASE EofCloseRaises(h) \/ EofOnMissing(h)
      BY <2>1, <2>2, <3>3 DEF EofCloseRaises, EofOnMissing
    <3>4. CASE EofOnAudio(h)
      BY <1>0, <2>2, <3>4 DEF EofOnAudio, ControlTyped
    <3> QED
      BY <1>4, <3>1, <3>2, <3>3, <3>4 DEF HandleEof, Finalizes
  <2>4. eofSeen'[h] /\ \A g \in Handlers \ {h} : eofSeen'[g] = eofSeen[g]
    BY <1>0, <2>1 DEF ControlTyped
  <2>5. Stage(h)'
    BY <2>1, <2>2, <2>3, <2>4 DEF Stage
  <2> QED
    BY <2>1, <2>3, <2>4, <2>5, OneMoves
<1>5. ASSUME NEW h \in Handlers, KickPipeline(h) PROVE Staged'
  <2>1. /\ consumer[h] = "emit" /\ task' = [task EXCEPT ![h] = "started"]
        /\ consumer' = [consumer EXCEPT ![h] = "ready"]
        /\ started' = [started EXCEPT ![h] = started[h] + 1]
        /\ UNCHANGED <<chan, eofSeen, verdicts>>
    BY <1>5 DEF KickPipeline, link, told
  <2>2. task[h] = "none" /\ verdicts[h] = <<>> /\ started[h] = 0 /\ chan[h] # "new"
    BY <1>0, <2>1 DEF Stage
  <2>3. eofSeen[h]
    BY <1>0, <2>1 DEF Stage
  <2>4. task'[h] = "started" /\ consumer'[h] = "ready" /\ started'[h] = 1
    BY <1>0, <2>1, <2>2 DEF ControlTyped
  <2>5. Stage(h)'
    BY <1>0, <2>1, <2>2, <2>3, <2>4 DEF Stage
  <2> QED
    BY <1>0, <2>1, <2>5, OneMoves DEF ControlTyped
<1>6. ASSUME NEW h \in Handlers, PipelineStep(h) PROVE Staged'
  <2>1. UNCHANGED <<chan, consumer, eofSeen, started>>
    BY <1>6 DEF PipelineStep, PipelineTooLarge, PipelineLoads, PipelineReads,
       PipelineSucceeds, PipelineFails, PipelineCleans, PipelineCleansRaises, link, consuming
  <2>2. /\ task[h] \in Active /\ task'[h] # "none"
        /\ \A g \in Handlers \ {h} : task'[g] = task[g]
    BY <1>0, <1>6 DEF PipelineStep, PipelineTooLarge, PipelineLoads, PipelineReads,
       PipelineSucceeds, PipelineFails, PipelineCleans, PipelineCleansRaises, At, Active,
       ControlTyped
  <2>3. /\ Len(verdicts'[h]) <= 1
        /\ task'[h] \in {"started", "loading", "running"} => verdicts'[h] = <<>>
        /\ \A g \in Handlers \ {h} : verdicts'[g] = verdicts[g]
    <3>1. CASE PipelineTooLarge(h) \/ PipelineSucceeds(h) \/ PipelineFails(h)
      <4>1. task[h] \in {"started", "loading", "running"} /\ task'[h] \in {"ended", "finishing"}
        BY <1>0, <3>1 DEF PipelineTooLarge, PipelineSucceeds, PipelineFails, At,
           ControlTyped
      <4>2. verdicts[h] = <<>>
        BY <1>0, <4>1 DEF Stage
      <4>3. PICK v \in Verdicts : SendVerdict(h, v)
        BY <3>1 DEF PipelineTooLarge, PipelineSucceeds, PipelineFails, Verdicts
      <4> QED
        BY <1>0, <4>1, <4>2, <4>3, SaidOnce
    <3>2. CASE \/ PipelineLoads(h) \/ PipelineReads(h) \/ PipelineCleans(h)
               \/ PipelineCleansRaises(h)
      <4>1. verdicts' = verdicts
        BY <3>2 DEF PipelineLoads, PipelineReads, PipelineCleans,
           PipelineCleansRaises, told
      <4>2. task'[h] \in {"started", "loading", "running"} => task[h] \in {"started", "loading"}
        BY <1>0, <3>2 DEF PipelineLoads, PipelineReads, PipelineCleans,
           PipelineCleansRaises, At, ControlTyped
      <4> QED
        BY <1>0, <4>1, <4>2 DEF Stage
    <3> QED
      BY <1>6, <3>1, <3>2 DEF PipelineStep
  <2>4. Stage(h)'
    BY <1>0, <2>1, <2>2, <2>3 DEF Stage, Active
  <2> QED
    BY <2>1, <2>2, <2>3, <2>4, OneMoves
<1>7. CASE EngineCrash \/ PowerLoss
  <2>1. Dies
    BY <1>7 DEF EngineCrash, PowerLoss
  <2>2. UNCHANGED <<eofSeen, started, verdicts>>
    BY <2>1 DEF Dies, told
  <2>3. ASSUME NEW h \in Handlers PROVE Stage(h)'
    <3>1. /\ chan'[h] = IF chan[h] = "new" THEN "new" ELSE "closed"
          /\ consumer'[h] = IF consumer[h] = "none" THEN "none" ELSE "stopped"
          /\ task'[h] = IF task[h] \in Active THEN "ended" ELSE task[h]
      BY <2>1 DEF Dies
    <3>2. task[h] \in Active \cup {"none", "ended"}
      BY <1>0 DEF ControlTyped
    <3> QED
      BY <1>0, <2>2, <3>1, <3>2 DEF Stage, Active
  <2> QED
    BY <2>3 DEF Staged
<1>8. ASSUME NEW h \in Handlers,
             \/ HandleChunk(h) \/ HandleChunkFails(h)
             \/ HandleJobInit(h) \/ HandleJobInitFails(h) \/ HandleDuplicateEof(h)
             \/ HandleResumeAccept(h) \/ HandleResumeRefuse(h)
             \/ HandleResumeRefuseRaises(h) \/ HandleResumeRaises(h) \/ HandleOther(h)
      PROVE  Staged'
  BY <1>1, <1>8 DEF HandleChunk, HandleChunkFails, HandleJobInit, HandleJobInitFails,
     HandleDuplicateEof, HandleResumeAccept, HandleResumeRefuse, HandleResumeRefuseRaises, Refuses,
     HandleResumeRaises, HandleOther, link, pipeline, told
<1>9. CASE UNCHANGED vars
  BY <1>1, <1>9 DEF vars, link, consuming, pipeline, told
<1> QED
  BY <1>2, <1>3, <1>4, <1>5, <1>6, <1>7, <1>8, <1>9 DEF Next, Engine, ConsumerStep

LEMMA InitStaged == Init => Staged
<1>1. ASSUME Init, NEW h \in Handlers PROVE Stage(h)
  <2>1. /\ chan[h] = "new" /\ consumer[h] = "none" /\ task[h] = "none" /\ started[h] = 0
        /\ verdicts[h] = <<>>
    BY <1>1 DEF Init
  <2>2. Len(verdicts[h]) = 0
    BY <2>1
  <2> QED
    BY <2>1, <2>2 DEF Stage
<1> QED
  BY <1>1 DEF Staged

LEMMA AllStaged == Spec => [](Typed /\ Staged)
<1>1. Typed => ControlTyped
  BY TypedFiles
<1>2. Typed /\ Staged /\ [Next]_vars => Typed' /\ Staged'
  BY <1>1, TypedKept, StagedKept DEF Staging
<1> QED
  BY InitTyped, InitStaged, <1>2, PTL DEF Spec

\* However often audio_eof is repeated, and whatever follows it, a handler starts
\* at most one pipeline and its client gets at most one verdict (CR-04, the
\* _eof_seen test): OneVerdict.
THEOREM VerdictOnce == Spec => []OneVerdict
<1>1. Typed /\ Staged => OneVerdict
  <2>1. ASSUME NEW h \in Handlers, Stage(h) PROVE started[h] <= 1 /\ Len(verdicts[h]) <= 1
    <3>1. started[h] \in {0, 1} /\ Len(verdicts[h]) <= 1
      BY <2>1 DEF Stage
    <3> QED
      BY <3>1
  <2> QED
    BY <2>1 DEF Staged, OneVerdict
<1> QED
  BY <1>1, AllStaged, PTL

-------------------------------------------------------------------------------
(***************************************************************************)
(* Finalized audio has an owner.                                           *)
(***************************************************************************)
Owns(h) == consumer[h] = "emit" \/ task[h] \in Active

LEMMA OwnedKept ==
  ASSUME {"close", "crash", "power"} \cap Faults = {}, Staging, FinalOwned, [Next]_vars
  PROVE  FinalOwned'
<1> SUFFICES ASSUME finalEnt' # NoInode PROVE \E h \in Handlers : Owns(h)'
  BY DEF FinalOwned, Owns
<1>0. ControlTyped /\ \A h \in Handlers : Stage(h)
  BY DEF Staging, Staged
<1>1. finalEnt # NoInode => \E h \in Handlers : Owns(h)
  BY DEF FinalOwned, Owns
<1>2. ASSUME NEW h \in Handlers, EofOnAudio(h), UNCHANGED task PROVE Owns(h)'
  BY <1>0, <1>2 DEF EofOnAudio, Owns, ControlTyped
<1>3. ASSUME finalEnt' = finalEnt, UNCHANGED <<consumer, task>>
      PROVE  \E h \in Handlers : Owns(h)'
  BY <1>1, <1>3 DEF Owns
<1>4. ASSUME NEW h \in Handlers, HandleEof(h) PROVE \E g \in Handlers : Owns(g)'
  <2>1. UNCHANGED task
    BY <1>4 DEF HandleEof, pipeline
  <2>2. EofOnAudio(h) \/ (finalEnt' = finalEnt /\ UNCHANGED consumer)
    BY <1>4 DEF HandleEof, Finalizes, EofWithoutWriter, EofOnEmpty, EofCloseRaises,
       EofOnMissing
  <2> QED
    BY <1>2, <1>3, <2>1, <2>2
<1>5. ASSUME NEW h \in Handlers, KickPipeline(h) PROVE Owns(h)'
  BY <1>0, <1>5 DEF KickPipeline, Owns, Active, ControlTyped
<1>6. ASSUME NEW h \in Handlers,
             PipelineTooLarge(h) \/ PipelineCleans(h) \/ PipelineCleansRaises(h)
      PROVE  FALSE
  BY <1>6 DEF PipelineTooLarge, PipelineCleans, PipelineCleansRaises
<1>7. ASSUME NEW h \in Handlers,
             \/ PipelineLoads(h) \/ PipelineReads(h) \/ PipelineSucceeds(h) \/ PipelineFails(h)
      PROVE  Owns(h)'
  BY <1>0, <1>7 DEF PipelineLoads, PipelineReads, PipelineSucceeds, PipelineFails, At,
     Owns, Active,
     ControlTyped
<1>8. ASSUME NEW h \in Handlers, Bind(h) PROVE \E g \in Handlers : Owns(g)'
  <2>1. consumer[h] = "none"
    BY <1>0, <1>8 DEF Bind, Stage
  <2>2. /\ consumer' = [consumer EXCEPT ![h] = "ready"]
        /\ UNCHANGED <<finalEnt, task>>
    BY <1>8 DEF Bind, disk, files, pipeline
  <2>3. PICK g \in Handlers : Owns(g)
    BY <1>1, <2>2
  <2>4. g # h \/ task[g] \in Active
    BY <2>1, <2>3 DEF Owns
  <2> QED
    BY <1>0, <2>2, <2>3, <2>4 DEF Owns, ControlTyped
<1>9. ASSUME NEW h \in Handlers,
             \/ HandleChunk(h) \/ HandleChunkFails(h)
             \/ HandleJobInit(h) \/ HandleJobInitFails(h) \/ HandleDuplicateEof(h)
             \/ HandleResumeAccept(h) \/ HandleResumeRefuse(h)
             \/ HandleResumeRefuseRaises(h) \/ HandleResumeRaises(h) \/ HandleOther(h)
             \/ ChannelLost(h) \/ WriterCollected(h) \/ \E m \in Inbox : Receive(h, m)
      PROVE  \E g \in Handlers : Owns(g)'
  BY <1>3, <1>9 DEF HandleChunk, HandleChunkFails, HandleJobInit, HandleJobInitFails,
     HandleDuplicateEof, HandleResumeAccept, HandleResumeRefuse, HandleResumeRefuseRaises, Refuses,
     HandleResumeRaises, HandleOther, ChannelLost, WriterCollected, Receive, disk, files,
     consuming, pipeline
<1>10. ~ EngineCrash /\ ~ PowerLoss /\ \A h \in Handlers : ~ CloseHandler(h)
  BY DEF EngineCrash, PowerLoss, CloseHandler
<1>11. CASE UNCHANGED vars
  BY <1>3, <1>11 DEF vars, disk, files, consuming, pipeline
<1> QED
  BY <1>4, <1>5, <1>6, <1>7, <1>8, <1>9, <1>10, <1>11
     DEF Next, Engine, Environment, Interruption, ConsumerStep, PipelineStep

\* While the engine lives and no handler is stopped, finalized audio always has a
\* consumer about to kick its pipeline, or a pipeline that has yet to clean up, the
\* size guard's early return included: FinalOwned.
THEOREM FinalAudioOwned ==
  {"close", "crash", "power"} \cap Faults = {} => (Spec => []FinalOwned)
<1> SUFFICES ASSUME {"close", "crash", "power"} \cap Faults = {} PROVE Spec => []FinalOwned
  OBVIOUS
<1>1. Init => FinalOwned
  BY DEF Init, PF!Init, FinalOwned
<1>2. Typed /\ Staged /\ FinalOwned /\ [Next]_vars => FinalOwned'
  BY OwnedKept, TypedFiles DEF Staging
<1> QED
  BY <1>1, <1>2, AllStaged, PTL DEF Spec

-------------------------------------------------------------------------------
(***************************************************************************)
(* The handlers implement JobOutcome.                                      *)
(***************************************************************************)

\* Phase by the fields it is read off.
PhaseTable ==
  \A h \in Handlers :
    /\ ~eofSeen[h] => Phase(h) = "uploading"
    /\ consumer[h] = "emit" => Phase(h) = "taken"
    /\ task[h] \in {"started", "loading"} => Phase(h) = "queued"
    /\ task[h] = "running" => Phase(h) = "reading"
    /\ task[h] = "finishing" => Phase(h) = "judged"
    /\ eofSeen[h] /\ consumer[h] # "emit" /\ task[h] \in {"none", "ended"} => Phase(h) = "over"
    /\ Phase(h) \in Outcome!Phases

LEMMA Tabled == Staging => PhaseTable
<1> SUFFICES ASSUME Staging, NEW h \in Handlers
             PROVE  /\ ~eofSeen[h] => Phase(h) = "uploading"
                    /\ consumer[h] = "emit" => Phase(h) = "taken"
                    /\ task[h] \in {"started", "loading"} => Phase(h) = "queued"
                    /\ task[h] = "running" => Phase(h) = "reading"
                    /\ task[h] = "finishing" => Phase(h) = "judged"
                    /\ eofSeen[h] /\ consumer[h] # "emit" /\ task[h] \in {"none", "ended"}
                         => Phase(h) = "over"
                    /\ Phase(h) \in Outcome!Phases
  BY DEF PhaseTable
<1>1. /\ ~eofSeen[h] => consumer[h] # "emit" /\ task[h] = "none"
      /\ consumer[h] = "emit" => task[h] = "none"
      /\ task[h] \in Active \cup {"none", "ended"}
  BY DEF Staging, Staged, Stage, ControlTyped
<1> QED
  BY <1>1 DEF Phase, Outcome!Phases, Active

\* A step of one handler is a step of the upload of its channel.
LEMMA OnePhaseMoves ==
  ASSUME NEW h \in Handlers, NEW to, NEW said, Phase(h)' = to,
         \A g \in Handlers \ {h} :
           eofSeen'[g] = eofSeen[g] /\ consumer'[g] = consumer[g] /\ task'[g] = task[g],
         verdicts' \in {verdicts} \cup {[verdicts EXCEPT ![h] = <<v>>] : v \in said}
  PROVE  Outcome!Step(h, Phase(h), to, said)
<1>1. \A g \in Handlers \ {h} : Phase(g)' = Phase(g)
  BY DEF Phase
<1>2. [g \in Handlers |-> Phase(g)]' = [[g \in Handlers |-> Phase(g)] EXCEPT ![h] = to]
  BY <1>1
<1> QED
  BY <1>2 DEF Outcome!Step

OutcomeVars == <<[h \in Handlers |-> Phase(h)], verdicts>>

LEMMA StepOfOutcome ==
  ASSUME Staging, Staging', [Next]_vars
  PROVE  [Outcome!Next]_OutcomeVars
<1>0. ControlTyped /\ \A h \in Handlers : Stage(h)
  BY DEF Staging, Staged
<1>1. PhaseTable /\ PhaseTable'
  <2>1. PhaseTable
    BY Tabled
  <2>2. Staging' => PhaseTable'
    BY Tabled, PTL
  <2> QED
    BY <2>1, <2>2
<1>2. ASSUME UNCHANGED <<eofSeen, consumer, task, verdicts>> PROVE [Outcome!Next]_OutcomeVars
  BY <1>2 DEF Phase, OutcomeVars
<1>3. ASSUME NEW h \in Handlers, HandleEof(h) PROVE Outcome!Take(h) \/ Outcome!Refuse(h)
  <2>1. /\ ~eofSeen[h] /\ eofSeen' = [eofSeen EXCEPT ![h] = TRUE] /\ UNCHANGED task
        /\ consumer[h] = "ready"
    BY <1>3 DEF HandleEof, Consume, pipeline
  <2>2. /\ Phase(h) = "uploading" /\ task'[h] = "none" /\ verdicts[h] = <<>> /\ eofSeen'[h]
        /\ \A g \in Handlers \ {h} : eofSeen'[g] = eofSeen[g]
    BY <1>0, <1>1, <2>1 DEF PhaseTable, Stage, ControlTyped
  <2> DEFINE said == {"no_audio_received", "finalize_failed"}
  <2>3. CASE EofOnAudio(h)
    <3>1. /\ consumer'[h] = "emit" /\ verdicts' = verdicts
          /\ \A g \in Handlers \ {h} : consumer'[g] = consumer[g]
      BY <1>0, <2>3 DEF EofOnAudio, ControlTyped
    <3>2. Phase(h)' = "taken"
      BY <1>1, <3>1 DEF PhaseTable
    <3> QED
      BY <2>1, <2>2, <3>1, <3>2, OnePhaseMoves DEF Outcome!Take
  <2>4. CASE \/ EofWithoutWriter(h) \/ EofOnEmpty(h) \/ EofCloseRaises(h)
             \/ EofOnMissing(h)
    <3>1. consumer' = consumer
      BY <2>4 DEF EofWithoutWriter, EofOnEmpty, EofCloseRaises, EofOnMissing
    <3>2. verdicts' \in {verdicts} \cup {[verdicts EXCEPT ![h] = <<v>>] : v \in said}
      BY <1>0, <2>2, <2>4, SaidOnce DEF EofWithoutWriter, EofOnEmpty, EofCloseRaises,
         EofOnMissing, Verdicts
    <3>3. Phase(h)' = "over"
      BY <1>1, <2>1, <2>2, <3>1 DEF PhaseTable
    <3>4. \A g \in Handlers \ {h} :
            eofSeen'[g] = eofSeen[g] /\ consumer'[g] = consumer[g] /\ task'[g] = task[g]
      BY <2>1, <2>2, <3>1
    <3> HIDE DEF said
    <3>5. Outcome!Step(h, Phase(h), "over", said)
      BY <3>2, <3>3, <3>4, OnePhaseMoves
    <3> QED
      BY <2>2, <3>5 DEF Outcome!Refuse, said
  <2> QED
    BY <1>3, <2>3, <2>4 DEF HandleEof, Finalizes
<1>4. ASSUME NEW h \in Handlers, KickPipeline(h) PROVE Outcome!Queue(h)
  <2>1. /\ consumer[h] = "emit" /\ task'[h] = "started"
        /\ UNCHANGED <<eofSeen, verdicts>>
        /\ \A g \in Handlers \ {h} : task'[g] = task[g] /\ consumer'[g] = consumer[g]
    BY <1>0, <1>4 DEF KickPipeline, told, ControlTyped
  <2>2. Phase(h) = "taken" /\ Phase(h)' = "queued"
    BY <1>1, <2>1 DEF PhaseTable
  <2> QED
    BY <2>1, <2>2, OnePhaseMoves DEF Outcome!Queue
<1>5. ASSUME NEW h \in Handlers, NEW from, NEW to, At(h, from, to), UNCHANGED <<eofSeen, consumer>>
      PROVE  /\ task[h] = from /\ task'[h] = to /\ eofSeen'[h] = eofSeen[h]
             /\ \A g \in Handlers \ {h} :
                  eofSeen'[g] = eofSeen[g] /\ consumer'[g] = consumer[g] /\ task'[g] = task[g]
  BY <1>0, <1>5 DEF At, ControlTyped
<1>6. ASSUME NEW h \in Handlers, PipelineTooLarge(h) PROVE Outcome!Reject(h)
  <2>1. At(h, "started", "ended") /\ UNCHANGED <<eofSeen, consumer>> /\ SendVerdict(h, "file_too_large")
    BY <1>6 DEF PipelineTooLarge, consuming
  <2>2. eofSeen[h] /\ consumer[h] # "emit" /\ verdicts[h] = <<>> /\ task[h] = "started"
    BY <1>0, <2>1 DEF Stage, At
  <2>3. Phase(h) = "queued" /\ Phase(h)' = "over"
    BY <1>1, <1>5, <2>1, <2>2 DEF PhaseTable
  <2>4. verdicts' \in {verdicts, [verdicts EXCEPT ![h] = <<"file_too_large">>]}
    BY <1>0, <2>1, <2>2, SaidOnce DEF Verdicts
  <2> QED
    BY <1>5, <2>1, <2>3, <2>4, OnePhaseMoves DEF Outcome!Reject
<1>7. ASSUME NEW h \in Handlers, PipelineLoads(h) PROVE UNCHANGED OutcomeVars
  <2>1. At(h, "started", "loading") /\ UNCHANGED <<eofSeen, consumer, verdicts>>
    BY <1>7 DEF PipelineLoads, consuming, told
  <2>2. Phase(h) = "queued" /\ Phase(h)' = "queued"
    BY <1>1, <1>5, <2>1 DEF PhaseTable
  <2>3. \A g \in Handlers : Phase(g)' = Phase(g)
    BY <1>5, <2>1, <2>2 DEF Phase
  <2> QED
    BY <2>1, <2>3 DEF OutcomeVars
<1>8. ASSUME NEW h \in Handlers, PipelineReads(h) PROVE Outcome!Read(h)
  <2>1. At(h, "loading", "running") /\ UNCHANGED <<eofSeen, consumer, verdicts>>
    BY <1>8 DEF PipelineReads, consuming, told
  <2>2. Phase(h) = "queued" /\ Phase(h)' = "reading"
    BY <1>1, <1>5, <2>1 DEF PhaseTable
  <2> QED
    BY <1>5, <2>1, <2>2, OnePhaseMoves DEF Outcome!Read
<1>9. ASSUME NEW h \in Handlers, PipelineSucceeds(h) PROVE Outcome!Judge(h)
  <2>1. At(h, "running", "finishing") /\ UNCHANGED <<eofSeen, consumer>> /\ SendVerdict(h, "result")
    BY <1>9 DEF PipelineSucceeds, consuming
  <2>2. Phase(h) = "reading" /\ Phase(h)' = "judged"
    BY <1>1, <1>5, <2>1 DEF PhaseTable
  <2>3. verdicts[h] = <<>>
    BY <1>0, <2>1 DEF Stage, At
  <2>4. verdicts' \in {verdicts, [verdicts EXCEPT ![h] = <<"result">>]}
    BY <1>0, <2>1, <2>3, SaidOnce DEF Verdicts
  <2> QED
    BY <1>5, <2>1, <2>2, <2>4, OnePhaseMoves DEF Outcome!Judge
<1>10. ASSUME NEW h \in Handlers, PipelineFails(h) PROVE Outcome!GiveUp(h) \/ Outcome!Judge(h)
  <2>1. UNCHANGED <<eofSeen, consumer>> /\ SendVerdict(h, "pipeline_failed")
    BY <1>10 DEF PipelineFails, consuming
  <2>2. task[h] \in {"loading", "running"}
    BY <1>10 DEF PipelineFails, At
  <2>3. verdicts[h] = <<>>
    BY <1>0, <2>2 DEF Stage
  <2>4. verdicts' \in {verdicts, [verdicts EXCEPT ![h] = <<"pipeline_failed">>]}
    BY <1>0, <2>1, <2>3, SaidOnce DEF Verdicts
  <2>5. CASE At(h, "loading", "finishing")
    <3>1. Phase(h) = "queued" /\ Phase(h)' = "judged"
      BY <1>1, <1>5, <2>1, <2>5 DEF PhaseTable
    <3> QED
      BY <1>5, <2>1, <2>4, <2>5, <3>1, OnePhaseMoves DEF Outcome!GiveUp
  <2>6. CASE At(h, "running", "finishing")
    <3>1. Phase(h) = "reading" /\ Phase(h)' = "judged"
      BY <1>1, <1>5, <2>1, <2>6 DEF PhaseTable
    <3> QED
      BY <1>5, <2>1, <2>4, <2>6, <3>1, OnePhaseMoves DEF Outcome!Judge
  <2> QED
    BY <1>10, <2>5, <2>6 DEF PipelineFails
<1>11. ASSUME NEW h \in Handlers, PipelineCleans(h) \/ PipelineCleansRaises(h)
       PROVE  Outcome!CleanUp(h)
  <2>1. At(h, "finishing", "ended") /\ UNCHANGED <<eofSeen, consumer, verdicts>>
    BY <1>11 DEF PipelineCleans, PipelineCleansRaises, consuming, told
  <2>2. eofSeen[h] /\ consumer[h] # "emit"
    BY <1>0, <2>1 DEF Stage, At
  <2>3. Phase(h) = "judged" /\ Phase(h)' = "over"
    BY <1>1, <1>5, <2>1, <2>2 DEF PhaseTable
  <2> QED
    BY <1>5, <2>1, <2>3, OnePhaseMoves DEF Outcome!CleanUp
<1>12. ASSUME \A h \in Handlers :
                Phase(h)' = Phase(h) \/ (Phase(h) # "uploading" /\ Phase(h)' = "over"),
              UNCHANGED verdicts
       PROVE  Outcome!Abandon
  <2>1. \A h \in Handlers : Phase(h)' \in Outcome!Phases
    BY <1>1 DEF PhaseTable
  <2> QED
    BY <1>12, <2>1 DEF Outcome!Abandon, Outcome!Phases
<1>13. CASE EngineCrash \/ PowerLoss
  <2>1. Dies
    BY <1>13 DEF EngineCrash, PowerLoss
  <2>2. UNCHANGED <<eofSeen, verdicts>>
    BY <2>1 DEF Dies, told
  <2>3. ASSUME NEW h \in Handlers
        PROVE  Phase(h)' = Phase(h) \/ (Phase(h) # "uploading" /\ Phase(h)' = "over")
    <3>1. /\ consumer'[h] = IF consumer[h] = "none" THEN "none" ELSE "stopped"
          /\ task'[h] = IF task[h] \in Active THEN "ended" ELSE task[h]
          /\ eofSeen'[h] = eofSeen[h] /\ task[h] \in Active \cup {"none", "ended"}
      BY <1>0, <2>1, <2>2 DEF Dies, ControlTyped
    <3>2. CASE ~eofSeen[h]
      BY <1>1, <3>1, <3>2 DEF PhaseTable
    <3>3. CASE eofSeen[h]
      <4>1. Phase(h)' = "over"
        BY <1>1, <3>1, <3>3 DEF PhaseTable, Active
      <4>2. Phase(h) # "uploading"
        BY <1>0, <1>1, <3>1, <3>3 DEF PhaseTable, Active
      <4> QED
        BY <4>1, <4>2
    <3> QED
      BY <3>2, <3>3
  <2> QED
    BY <1>12, <2>2, <2>3 DEF Outcome!Next
<1>14. ASSUME NEW h \in Handlers, CloseHandler(h) PROVE Outcome!Abandon
  <2>1. /\ consumer' = [consumer EXCEPT ![h] = "stopped"] /\ consumer[h] \in {"ready", "emit"}
        /\ UNCHANGED <<eofSeen, task, verdicts>>
    BY <1>14 DEF CloseHandler, pipeline, told
  <2>2. \A g \in Handlers \ {h} : Phase(g)' = Phase(g)
    BY <1>0, <2>1 DEF Phase, ControlTyped
  <2>3. consumer'[h] = "stopped"
    BY <1>0, <2>1 DEF ControlTyped
  <2>4. CASE consumer[h] = "ready"
    BY <1>12, <2>1, <2>2, <2>3, <2>4 DEF Phase
  <2>5. CASE consumer[h] = "emit"
    <3>1. eofSeen[h] /\ task[h] = "none"
      BY <1>0, <2>5 DEF Stage
    <3>2. Phase(h) = "taken" /\ Phase(h)' = "over"
      BY <1>1, <2>1, <2>3, <2>5, <3>1 DEF PhaseTable
    <3> QED
      BY <1>12, <2>1, <2>2, <3>2
  <2> QED
    BY <2>1, <2>4, <2>5
<1>15. ASSUME NEW h \in Handlers, Bind(h) PROVE [Outcome!Next]_OutcomeVars
  <2>1. /\ consumer' = [consumer EXCEPT ![h] = "ready"] /\ consumer[h] = "none"
        /\ UNCHANGED <<eofSeen, task, verdicts>>
    BY <1>0, <1>15 DEF Bind, pipeline, told, Stage
  <2>2. \A g \in Handlers : Phase(g)' = Phase(g)
    BY <1>0, <2>1 DEF Phase, ControlTyped
  <2> QED
    BY <2>1, <2>2 DEF OutcomeVars
<1>16. ASSUME NEW h \in Handlers,
             \/ HandleChunk(h) \/ HandleChunkFails(h)
             \/ HandleJobInit(h) \/ HandleJobInitFails(h) \/ HandleDuplicateEof(h)
             \/ HandleResumeAccept(h) \/ HandleResumeRefuse(h)
             \/ HandleResumeRefuseRaises(h) \/ HandleResumeRaises(h) \/ HandleOther(h)
             \/ ChannelLost(h) \/ WriterCollected(h) \/ \E m \in Inbox : Receive(h, m)
      PROVE  [Outcome!Next]_OutcomeVars
  BY <1>2, <1>16 DEF HandleChunk, HandleChunkFails, HandleJobInit, HandleJobInitFails,
     HandleDuplicateEof, HandleResumeAccept, HandleResumeRefuse, HandleResumeRefuseRaises, Refuses,
     HandleResumeRaises, HandleOther, ChannelLost, WriterCollected, Receive, consuming,
     pipeline, told
<1>17. CASE UNCHANGED vars
  BY <1>2, <1>17 DEF vars, consuming, pipeline, told
<1> QED
  BY <1>3, <1>4, <1>6, <1>7, <1>8, <1>9, <1>10, <1>11, <1>13, <1>14, <1>15, <1>16, <1>17
     DEF Next, Engine, Environment, Interruption, ConsumerStep, PipelineStep,
        Outcome!Next

\* Whatever is sent, lost, cancelled or crashes, the audio of a channel is taken
\* once and goes through one pipeline, and the one verdict its client may get fits
\* how far it came: ImplementsJobOutcome.
THEOREM JobOutcomeImplemented == Spec => ImplementsJobOutcome
<1>1. Init => Outcome!Init
  <2>1. Init => \A h \in Handlers : Phase(h) = "uploading"
    BY DEF Init, Phase
  <2> QED
    BY <2>1 DEF Init, Outcome!Init
<1>2. Typed => ControlTyped
  BY TypedFiles
<1>3. (Typed /\ Staged) /\ (Typed /\ Staged)' /\ [Next]_vars
        => [Outcome!Next]_<<[h \in Handlers |-> Phase(h)], verdicts>>
  <2>1. (Typed /\ Staged)' => Staging'
    BY <1>2, PTL DEF Staging
  <2> QED
    BY <1>2, <2>1, StepOfOutcome DEF Staging, OutcomeVars
<1> QED
  BY <1>1, <1>3, AllStaged, PTL DEF Spec, ImplementsJobOutcome, Outcome!Spec

-------------------------------------------------------------------------------
(***************************************************************************)
(* The upload as a log.                                                    *)
(***************************************************************************)

\* However the chunks of overlapping handlers interleave on the file of a job
\* (chunker.py:149), it is synced up to the last interval boundary below its length,
\* unless a call that raised has added to it since its last checkpoint.
THEOREM AtRiskIsLittle == Spec => []LittleAtRisk
<1>1. Typed => LittleAtRisk
  BY DEF Typed, PFP!IInv, PFP!AtRiskBounded, LittleAtRisk, PF!AtRiskBounded,
     PF!Boundary,
     PFP!Boundary
<1>. QED
  BY <1>1, AlwaysTyped, PTL

\* A step of the handlers is a step of UploadLog, or none.
LEMMA StepOfLog ==
  ASSUME Typed, [Next]_vars
  PROVE  [PF!Log!Next]_<<PF!PartialSize, PF!PartialAcked>>
<1>0. PFP!IInv /\ PFP!IInv'
  BY FilesKept DEF Typed
<1>1. ASSUME [PFP!Log!Next]_PFP!LogVars
      PROVE  [PF!Log!Next]_<<PF!PartialSize, PF!PartialAcked>>
  BY <1>1 DEF PFP!LogVars, PFP!Log!Next, PFP!Log!Extend, PFP!Log!Lose, PFP!Log!Discard,
     PF!Log!Next, PF!Log!Extend, PF!Log!Lose, PF!Log!Discard, PF!PartialSize,
     PFP!PartialSize, PF!PartialAcked, PFP!PartialAcked
<1>2. CASE Quiet
  <2>1. /\ \A j \in Inodes : Len(data[j]) <= Len(data'[j]) /\ acked[j] <= acked'[j]
        /\ partialEnt' \in {partialEnt, NoInode}
    BY <1>2, QuietKept DEF Quiet
  <2>. QED
    BY <1>0, <1>1, <2>1, FileAssumptions, PFP!GrowthExtends
<1>3. CASE PFP!PowerLoss
  BY <1>0, <1>1, <1>3, FileAssumptions, PFP!PowerLossLoses
<1>4. ASSUME NEW h \in Handlers, NEW bytes \in Chunks, NEW st, Calls(h, st, bytes)
      PROVE  [PF!Log!Next]_<<PF!PartialSize, PF!PartialAcked>>
  <2>1. /\ \A j \in Inodes : Len(data[j]) <= Len(data'[j]) /\ acked[j] <= acked'[j]
        /\ \/ partialEnt' \in {partialEnt, NoInode}
           \/ partialEnt = NoInode /\ partialEnt' \in Inodes \ used
    BY <1>4, CallFiles, CallInOrder
  <2>. QED
    BY <1>0, <1>1, <2>1, FileAssumptions, PFP!GrowthExtends
<1>. QED
  BY <1>2, <1>3, <1>4, StepOfFiles

\* Whatever the handlers of one job do at once, the path <job_id>.partial keeps the
\* contract of UploadLog: what a checkpoint has confirmed (chunker.py:152) stays
\* until the upload as a whole is discarded.
THEOREM UploadsAreLogs == Spec => UploadIsLog
<1>1. Init => PF!Log!Init
  BY DEF Init, PF!Init, PF!Log!Init, PF!PartialSize, PF!PartialAcked
<1>2. Typed /\ [Next]_vars => [PF!Log!Next]_<<PF!PartialSize, PF!PartialAcked>>
  BY StepOfLog
<1>. QED
  BY <1>1, <1>2, AlwaysTyped, PTL DEF Spec, UploadIsLog, PF!Log!Spec
===============================================================================
