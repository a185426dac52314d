------------------------- MODULE InboundSequentialProofs -------------------------
(***************************************************************************)
(* The handlers of one job that take turns: another starts only when the   *)
(* channels, the consumers and the pipelines of those before it are over   *)
(* (Admission = "when_done"), whatever fails in between.                   *)
(***************************************************************************)
EXTENDS InboundJobProofs

\* A handler that is not yet, or no longer, at work takes no step but Bind.
Dormant(h) == chan[h] = "new" \/ Done(h)

\* Nothing has happened yet to a handler whose channel is new.
Fresh ==
  \A h \in Handlers :
    chan[h] = "new" => consumer[h] = "none" /\ task[h] = "none" /\ writer[h] = PF!NoWriter

Solo == \A g, h \in Handlers : g = h \/ Dormant(g) \/ Dormant(h)

\* Where the writer of a handler that still consumes stands: on the file the path
\* .partial names, if it names one, and not before its last checkpoint.  One that is
\* closed has reported nothing, unless a close() has raised or nobody can ask any more.
Placed(h) ==
  consumer[h] # "stopped" =>
    /\ writer[h].phase \in {"absent", "open", "closed"}
    /\ writer[h].phase = "open" => writer[h].ino = partialEnt
    /\ writer[h].phase # "absent" /\ partialEnt # NoInode =>
         writer[h].ino = partialEnt /\ acked[partialEnt] <= writer[h].fsync
    /\ /\ writer[h].phase = "closed"
       /\ "full" \notin Faults
       /\ chan[h] = "open" \/ queue[h] # <<>>
       => writer[h].fsync = 0

AllPlaced == \A h \in Handlers : Placed(h)

TakingTurns == Typed /\ Staged /\ Fresh /\ Solo

-------------------------------------------------------------------------------
(***************************************************************************)
(* One handler at a time.                                                  *)
(***************************************************************************)

\* What a handler at work and a dormant one look like.
LEMMA AtWork ==
  ASSUME TakingTurns, NEW h \in Handlers,
         \/ Engine(h) \/ ChannelLost(h) \/ CloseHandler(h) \/ \E m \in Inbox : Receive(h, m)
  PROVE  /\ ~Dormant(h) /\ chan[h] # "new"
         /\ \A g \in Handlers \ {h} : Dormant(g)
<1>1. Fresh /\ Solo
  BY DEF TakingTurns
<1>2. consumer[h] \in {"ready", "emit"} \/ task[h] \in Active \/ chan[h] = "open"
  BY DEF Engine, ConsumerStep, Consume, HandleChunk, HandleChunkFails, HandleJobInit,
     HandleJobInitFails, HandleEof, HandleDuplicateEof, KickPipeline, HandleResumeAccept,
     HandleResumeRefuse, HandleResumeRefuseRaises, Refuses, HandleResumeRaises, HandleOther,
     PipelineStep, PipelineTooLarge, PipelineLoads, PipelineReads, PipelineSucceeds,
     PipelineFails, PipelineCleans, PipelineCleansRaises, At, Active, ChannelLost, CloseHandler,
     Receive
<1>3. ~Dormant(h)
  BY <1>1, <1>2 DEF Fresh, Dormant, Done, Active
<1> QED
  BY <1>1, <1>3 DEF Solo, Dormant

\* A dormant handler's state when another takes a step.
LEMMA TurnKept ==
  ASSUME TakingTurns, NEW h \in Handlers,
         \A g \in Handlers \ {h} : Dormant(g),
         \A g \in Handlers \ {h} :
           /\ chan'[g] = chan[g] /\ consumer'[g] = consumer[g] /\ task'[g] = task[g]
           /\ writer'[g] = writer[g],
         chan'[h] # "new"
  PROVE  Fresh' /\ Solo'
<1>1. Fresh /\ Solo
  BY DEF TakingTurns
<1>2. Fresh'
  BY <1>1 DEF Fresh
<1>3. \A g \in Handlers \ {h} : Dormant(g)'
  BY DEF Dormant, Done
<1> QED
  BY <1>2, <1>3 DEF Solo

\* A step of a handler moves nothing of the others.
LEMMA OthersStay ==
  ASSUME ControlTyped, PF!TypeOK, NEW h \in Handlers,
         Engine(h) \/ Environment(h) \/ \E m \in Inbox : Receive(h, m)
  PROVE  \A g \in Handlers \ {h} :
           /\ chan'[g] = chan[g] /\ consumer'[g] = consumer[g] /\ task'[g] = task[g]
           /\ writer'[g] = writer[g] /\ resumed'[g] = resumed[g]
<1>0. /\ chan \in [Handlers -> {"new", "open", "closed"}]
      /\ consumer \in [Handlers -> {"none", "ready", "emit", "stopped"}]
      /\ task \in [Handlers -> Active \cup {"none", "ended"}]
      /\ writer \in [Handlers -> PF!WriterState]
      /\ resumed \in [Handlers -> Nat \cup {NoReply}]
  BY DEF ControlTyped, PF!TypeOK
<1>1. CASE \/ Bind(h) \/ ChannelLost(h) \/ CloseHandler(h)
           \/ \E m \in Inbox : Receive(h, m)
  <2>1. task' = task /\ writer' = writer /\ resumed' = resumed
    BY <1>1 DEF Bind, ChannelLost, CloseHandler, Receive, disk, pipeline, told
  <2>2. \A g \in Handlers \ {h} : chan'[g] = chan[g]
    BY <1>0, <1>1 DEF Bind, ChannelLost, CloseHandler, Receive, link
  <2>3. \A g \in Handlers \ {h} : consumer'[g] = consumer[g]
    BY <1>0, <1>1 DEF Bind, ChannelLost, CloseHandler, Receive, consuming
  <2> QED
    BY <2>1, <2>2, <2>3
<1>8. CASE WriterCollected(h)
  BY <1>0, <1>8 DEF WriterCollected, PF!SetPhase, link, consuming, pipeline, told
<1>2. CASE PipelineStep(h)
  BY <1>0, <1>2 DEF PipelineStep, PipelineTooLarge, PipelineLoads, PipelineReads,
     PipelineSucceeds, PipelineFails, PipelineCleans, PipelineCleansRaises, PF!SetPhase, At,
     disk, link, consuming, told
<1>3. CASE HandleEof(h)
  <2>1. /\ chan' = chan /\ task' = task /\ resumed' = resumed
    BY <1>3 DEF HandleEof, link, pipeline
  <2>2. \A g \in Handlers \ {h} : writer'[g] = writer[g] /\ consumer'[g] = consumer[g]
    BY <1>0, <1>3 DEF HandleEof, Finalizes, EofWithoutWriter, EofOnEmpty, EofCloseRaises,
       EofOnMissing, EofOnAudio, PF!SetPhase
  <2> QED
    BY <2>1, <2>2
<1>4. CASE HandleChunk(h) \/ HandleChunkFails(h)
  <2>1. chan' = chan /\ task' = task /\ resumed' = resumed /\ consumer' = consumer
    BY <1>4 DEF HandleChunk, HandleChunkFails, link, pipeline, told
  <2>2. \A g \in Handlers \ {h} : writer'[g] = writer[g]
    <3>1. ASSUME NEW st, NEW bytes, PF!AppendChunk(h, st, bytes)
          PROVE  \A g \in Handlers \ {h} : writer'[g] = writer[g]
      BY <1>0, <3>1 DEF PF!AppendChunk
    <3>2. ASSUME NEW st, NEW bytes, PF!AppendRaises(h, st, bytes)
          PROVE  \A g \in Handlers \ {h} : writer'[g] = writer[g]
      BY <1>0, <3>2 DEF PF!AppendRaises, PF!FlushRaises, PF!FsyncRaises
    <3>3. CASE HandleChunk(h)
      BY <3>1, <3>3 DEF HandleChunk
    <3>4. CASE HandleChunkFails(h)
      BY <3>2, <3>4 DEF HandleChunkFails
    <3> QED
      BY <1>4, <3>3, <3>4
  <2> QED
    BY <2>1, <2>2
<1>5. CASE HandleResumeAccept(h) \/ HandleResumeRefuse(h) \/ HandleResumeRefuseRaises(h)
  BY <1>0, <1>5 DEF HandleResumeAccept, HandleResumeRefuse, HandleResumeRefuseRaises, Refuses,
     PF!SetPhase, SendResumeState, disk, link, pipeline
<1>6. CASE KickPipeline(h)
  BY <1>0, <1>6 DEF KickPipeline, disk, link, told
<1>7. CASE \/ HandleJobInit(h) \/ HandleJobInitFails(h)
           \/ HandleDuplicateEof(h) \/ HandleResumeRaises(h) \/ HandleOther(h)
  BY <1>7 DEF HandleJobInit, HandleJobInitFails, HandleDuplicateEof,
     HandleResumeRaises, HandleOther, disk, link, pipeline, told
<1> QED
  BY <1>1, <1>2, <1>3, <1>4, <1>5, <1>6, <1>7, <1>8
     DEF Engine, Environment, Interruption, ConsumerStep

LEMMA TurnsKept ==
  ASSUME Admission = "when_done", TakingTurns, [Next]_vars
  PROVE  Fresh' /\ Solo'
<1>0. ControlTyped /\ PF!TypeOK /\ Fresh /\ Solo
  BY TypedFiles DEF TakingTurns
<1>1. ASSUME NEW h \in Handlers,
             \/ Engine(h) \/ ChannelLost(h) \/ CloseHandler(h) \/ \E m \in Inbox : Receive(h, m)
      PROVE  Fresh' /\ Solo'
  <2>1. chan[h] # "new" /\ \A g \in Handlers \ {h} : Dormant(g)
    BY <1>1, AtWork
  <2>2. \A g \in Handlers \ {h} :
           /\ chan'[g] = chan[g] /\ consumer'[g] = consumer[g] /\ task'[g] = task[g]
           /\ writer'[g] = writer[g]
    BY <1>0, <1>1, OthersStay DEF Environment, Interruption
  <2>3. chan'[h] # "new"
    <3>1. CASE Engine(h)
      BY <2>1, <3>1 DEF Engine, ConsumerStep, HandleChunk, HandleChunkFails,
         HandleJobInit,
         HandleJobInitFails, HandleEof, HandleDuplicateEof, KickPipeline, HandleResumeAccept,
         HandleResumeRefuse, HandleResumeRefuseRaises, Refuses, HandleResumeRaises,
         HandleOther, PipelineStep, PipelineTooLarge, PipelineLoads, PipelineReads,
         PipelineSucceeds, PipelineFails, PipelineCleans, PipelineCleansRaises, link
    <3>2. CASE ChannelLost(h) \/ CloseHandler(h) \/ \E m \in Inbox : Receive(h, m)
      BY <1>0, <2>1, <3>2 DEF ChannelLost, CloseHandler, Receive, link, ControlTyped
    <3> QED
      BY <1>1, <3>1, <3>2
  <2> QED
    BY <2>1, <2>2, <2>3, TurnKept
<1>2. ASSUME NEW h \in Handlers, Bind(h) PROVE Fresh' /\ Solo'
  <2>1. \A g \in Handlers \ {h} : Dormant(g)
    BY <1>2 DEF Bind, Dormant
  <2>2. chan'[h] # "new"
    BY <1>0, <1>2 DEF Bind, ControlTyped
  <2>3. \A g \in Handlers \ {h} :
           /\ chan'[g] = chan[g] /\ consumer'[g] = consumer[g] /\ task'[g] = task[g]
           /\ writer'[g] = writer[g]
    BY <1>0, <1>2, OthersStay DEF Environment
  <2> QED
    BY <2>1, <2>2, <2>3, TurnKept
<1>3. CASE EngineCrash \/ PowerLoss
  <2>1. ASSUME NEW h \in Handlers
        PROVE  /\ chan'[h] = IF chan[h] = "new" THEN "new" ELSE "closed"
               /\ consumer'[h] = IF consumer[h] = "none" THEN "none" ELSE "stopped"
               /\ task'[h] = IF task[h] \in Active THEN "ended" ELSE task[h]
               /\ writer'[h] = PF!NoWriter
    BY <1>3 DEF EngineCrash, PowerLoss, Dies
  <2>2. Fresh'
    BY <1>0, <2>1 DEF Fresh, Active
  <2>3. Solo'
    <3>1. SUFFICES ASSUME NEW g \in Handlers, NEW h \in Handlers, g # h
                   PROVE  Dormant(g)' \/ Dormant(h)'
      BY DEF Solo
    <3>2. ASSUME NEW i \in Handlers, consumer[i] # "none" \/ chan[i] = "new" PROVE Dormant(i)'
      BY <1>0, <2>1, <3>2 DEF Dormant, Done, Active, ControlTyped
    <3>3. Dormant(g) \/ Dormant(h)
      BY <1>0, <3>1 DEF Solo
    <3> QED
      BY <3>2, <3>3 DEF Dormant, Done
  <2> QED
    BY <2>2, <2>3
<1>4. CASE UNCHANGED vars
  <2>1. UNCHANGED <<chan, consumer, task, writer>>
    BY <1>4 DEF vars, disk, link, consuming, pipeline
  <2> QED
    BY <1>0, <2>1 DEF Fresh, Solo, Dormant, Done
<1>5. ASSUME NEW h \in Handlers, WriterCollected(h) PROVE Fresh' /\ Solo'
  <2>1. UNCHANGED <<chan, consumer, task>> /\ chan[h] # "new"
    BY <1>5 DEF WriterCollected, Idle, link, consuming, pipeline
  <2>2. \A g \in Handlers \ {h} : writer'[g] = writer[g]
    BY <1>0, <1>5, OthersStay DEF Environment, Interruption
  <2> QED
    BY <1>0, <2>1, <2>2 DEF Fresh, Solo, Dormant, Done
<1> QED
  BY <1>1, <1>2, <1>3, <1>4, <1>5 DEF Next, Environment, Interruption

LEMMA TurnsTaken ==
  ASSUME Admission = "when_done"
  PROVE  Spec => []TakingTurns
<1>1. Init => Fresh /\ Solo
  BY DEF Init, PF!Init, Fresh, Solo, Dormant
<1>2. Typed => ControlTyped
  BY TypedFiles
<1>3. TakingTurns /\ [Next]_vars => TakingTurns'
  BY <1>2, TypedKept, StagedKept, TurnsKept DEF TakingTurns, Staging
<1> QED
  BY InitTyped, InitStaged, <1>1, <1>3, PTL DEF Spec, TakingTurns

-------------------------------------------------------------------------------
(***************************************************************************)
(* What the frontend is shown.                                             *)
(***************************************************************************)
AtRest(h) == consumer[h] # "emit" /\ task[h] \notin Active \ {"finishing"}

LEMMA IdleKept ==
  ASSUME Admission = "when_done", "unheard" \notin Faults, TakingTurns, IdleMeansIdle, [Next]_vars
  PROVE  IdleMeansIdle'
<1> SUFFICES ASSUME shown' = "idle", NEW h \in Handlers PROVE AtRest(h)'
  BY DEF IdleMeansIdle, AtRest
<1>0. /\ ControlTyped /\ PF!TypeOK /\ Fresh /\ \A g \in Handlers : Stage(g)
      /\ shown = "idle" => \A g \in Handlers : AtRest(g)
  BY TypedFiles DEF TakingTurns, Staged, IdleMeansIdle, AtRest
<1>1. ASSUME shown' = shown, UNCHANGED <<consumer, task>> PROVE AtRest(h)'
  BY <1>0, <1>1 DEF AtRest
<1>2. ASSUME NEW g \in Handlers, Dormant(g) PROVE AtRest(g)
  BY <1>0, <1>2 DEF Fresh, Dormant, Done, AtRest, Active
<1>3. ASSUME NEW g \in Handlers, HandleEof(g) PROVE AtRest(h)'
  <2>1. CASE EofOnAudio(g)
    BY <2>1 DEF EofOnAudio, Show
  <2>2. CASE \/ EofWithoutWriter(g) \/ EofOnEmpty(g) \/ EofCloseRaises(g)
             \/ EofOnMissing(g)
    BY <1>1, <1>3, <2>2 DEF HandleEof, EofWithoutWriter, EofOnEmpty, EofCloseRaises,
       EofOnMissing, pipeline
  <2> QED
    BY <1>3, <2>1, <2>2 DEF HandleEof, Finalizes
<1>4. ASSUME NEW g \in Handlers, KickPipeline(g) PROVE FALSE
  BY <1>0, <1>4 DEF KickPipeline, AtRest
<1>5. ASSUME NEW g \in Handlers,
             PipelineTooLarge(g) \/ PipelineSucceeds(g) \/ PipelineFails(g)
      PROVE  AtRest(h)'
  <2>1. Engine(g)
    BY <1>5 DEF Engine, PipelineStep
  <2>2. CASE h = g
    <3>1. /\ task[g] \in Active /\ task'[g] \in {"finishing", "ended"} /\ consumer' = consumer
      BY <1>0, <1>5 DEF PipelineTooLarge, PipelineSucceeds, PipelineFails, At, Active,
         consuming,
         ControlTyped
    <3>2. consumer[g] # "emit"
      BY <1>0, <3>1 DEF Stage, Active
    <3> QED
      BY <2>2, <3>1, <3>2 DEF AtRest, Active
  <2>3. CASE h # g
    <3>1. AtRest(h)
      BY <1>2, <2>1, <2>3, AtWork
    <3>2. consumer'[h] = consumer[h] /\ task'[h] = task[h]
      BY <1>0, <2>1, <2>3, OthersStay
    <3> QED
      BY <3>1, <3>2 DEF AtRest
  <2> QED
    BY <2>2, <2>3
<1>6. ASSUME NEW g \in Handlers, PipelineLoads(g) PROVE FALSE
  BY <1>6 DEF PipelineLoads, Show
<1>7. ASSUME NEW g \in Handlers, PipelineReads(g) PROVE FALSE
  BY <1>0, <1>7 DEF PipelineReads, At, told, AtRest, Active
<1>8. ASSUME NEW g \in Handlers, PipelineCleans(g) \/ PipelineCleansRaises(g)
      PROVE  AtRest(h)'
  BY <1>0, <1>8 DEF PipelineCleans, PipelineCleansRaises, At, consuming, AtRest, Active,
     ControlTyped
<1>9. ASSUME NEW g \in Handlers, Bind(g) \/ CloseHandler(g) PROVE AtRest(h)'
  BY <1>0, <1>9 DEF Bind, CloseHandler, pipeline, AtRest, ControlTyped
<1>10. CASE EngineCrash \/ PowerLoss
  BY <1>0, <1>10 DEF EngineCrash, PowerLoss, Dies, AtRest, Active, ControlTyped
<1>11. ASSUME NEW g \in Handlers,
             \/ HandleChunk(g) \/ HandleChunkFails(g)
             \/ HandleJobInit(g) \/ HandleJobInitFails(g) \/ HandleDuplicateEof(g)
             \/ HandleResumeAccept(g) \/ HandleResumeRefuse(g)
             \/ HandleResumeRefuseRaises(g) \/ HandleResumeRaises(g) \/ HandleOther(g)
             \/ ChannelLost(g) \/ WriterCollected(g) \/ \E m \in Inbox : Receive(g, m)
      PROVE  AtRest(h)'
  BY <1>1, <1>11 DEF HandleChunk, HandleChunkFails, HandleJobInit, HandleJobInitFails,
     HandleDuplicateEof, HandleResumeAccept, HandleResumeRefuse, HandleResumeRefuseRaises,
     Refuses, HandleResumeRaises, HandleOther, ChannelLost, WriterCollected, Receive, consuming,
     pipeline
<1>12. CASE UNCHANGED vars
  BY <1>1, <1>12 DEF vars, consuming, pipeline
<1> QED
  BY <1>3, <1>4, <1>5, <1>6, <1>7, <1>8, <1>9, <1>10, <1>11, <1>12
     DEF Next, Engine, Environment, Interruption, ConsumerStep, PipelineStep

\* When handlers take turns and every broadcast is heard, a frontend that sees
\* "idle" is not looking at an engine that transcribes, whichever way the last
\* handler ended: IdleMeansIdle.
THEOREM IdleIsIdle ==
  Admission = "when_done" /\ "unheard" \notin Faults => (Spec => []IdleMeansIdle)
<1> SUFFICES ASSUME Admission = "when_done", "unheard" \notin Faults
             PROVE  Spec => []IdleMeansIdle
  OBVIOUS
<1>1. Init => IdleMeansIdle
  BY DEF Init, IdleMeansIdle, Active
<1>2. TakingTurns /\ IdleMeansIdle /\ [Next]_vars => IdleMeansIdle'
  BY IdleKept
<1> QED
  BY <1>1, <1>2, TurnsTaken, PTL DEF Spec

-------------------------------------------------------------------------------
(***************************************************************************)
(* Where the writers stand.                                                *)
(***************************************************************************)
LEMMA DormantPlaced ==
  ASSUME TakingTurns, NEW g \in Handlers, Dormant(g), consumer'[g] = consumer[g],
         writer'[g] = writer[g]
  PROVE  Placed(g)'
<1>1. consumer[g] = "stopped" \/ writer[g].phase = "absent"
  BY NoWriterTidy DEF TakingTurns, Fresh, Dormant, Done
<1> QED
  BY <1>1 DEF Placed

\* A write() leaves the writer on its file, and not before a checkpoint of it that it
\* was not before.
LEMMA CallPlaces ==
  ASSUME Typed, NEW h \in Handlers, NEW st, NEW bytes \in Chunks, Calls(h, st, bytes),
         acked[st.ino] <= st.fsync
  PROVE  /\ writer'[h].phase = "open" /\ writer'[h].ino = st.ino
         /\ acked'[st.ino] <= writer'[h].fsync
<1>0. /\ bytes \in Seq(Byte) /\ PFP!IInv /\ PFP!TypeOK
      /\ PFP!Stands(st) /\ st.fsync <= st.pos /\ PFP!Reaches(st.ino)
      /\ PFP!AppendChunk(h, st, bytes) \/ PFP!AppendRaises(h, st, bytes)
  BY CallInOrder DEF Typed, PFP!IInv
<1>1. CASE PFP!AppendChunk(h, st, bytes)
  BY <1>0, <1>1, FileAssumptions, PFP!AppendReports
<1>2. CASE PFP!AppendRaises(h, st, bytes)
  <2>1. PICK new \in PFP!WriterState :
          /\ writer' = [writer EXCEPT ![h] = new]
          /\ new.phase = "open" /\ new.ino = st.ino /\ new.fsync = st.fsync
    BY <1>0, <1>2, FileAssumptions, PFP!RaiseGrows
  <2>2. UNCHANGED acked
    BY <1>0, <1>2, FileAssumptions, PFP!RaiseGrows
  <2>3. writer'[h] = new
    BY <1>0, <2>1 DEF PFP!TypeOK
  <2> QED
    BY <2>1, <2>2, <2>3
<1> QED
  BY <1>0, <1>1, <1>2

LEMMA PlacedKept ==
  ASSUME Admission = "when_done", TakingTurns, AllPlaced, [Next]_vars
  PROVE  AllPlaced'
<1>0. /\ Typed /\ ControlTyped /\ PF!TypeOK /\ Fresh
      /\ \A g \in Handlers : /\ Placed(g) /\ Tidy(writer[g])
                             /\ writer[g].phase = "open" => PFP!Stands(writer[g])
  BY TypedFiles DEF TakingTurns, AllPlaced
<1>1. ASSUME NEW h \in Handlers, Placed(h)',
             \/ Engine(h) \/ Bind(h) \/ ChannelLost(h) \/ CloseHandler(h)
             \/ \E m \in Inbox : Receive(h, m)
      PROVE  AllPlaced'
  <2>1. \A g \in Handlers \ {h} : Dormant(g)
    BY <1>1, AtWork DEF Bind, Dormant
  <2>2. \A g \in Handlers \ {h} : consumer'[g] = consumer[g] /\ writer'[g] = writer[g]
    BY <1>0, <1>1, OthersStay DEF Environment, Interruption
  <2> QED
    BY <1>1, <2>1, <2>2, DormantPlaced DEF AllPlaced
<1>2. ASSUME NEW h \in Handlers, UNCHANGED <<writer, acked>>,
             partialEnt' \in {partialEnt, NoInode},
             writer[h].phase = "open" => partialEnt' = partialEnt,
             consumer[h] = "stopped" => consumer'[h] = "stopped",
             chan'[h] = "open" \/ queue'[h] # <<>> => chan[h] = "open" \/ queue[h] # <<>>
      PROVE  Placed(h)'
  BY <1>0, <1>2 DEF Placed
<1>3. ASSUME NEW h \in Handlers, writer' = [writer EXCEPT ![h] = PF!NoWriter] PROVE Placed(h)'
  <2>1. writer'[h] = PF!NoWriter
    BY <1>0, <1>3 DEF PF!TypeOK
  <2> QED
    BY <2>1, NoWriterTidy DEF Placed
<1>4. ASSUME NEW h \in Handlers, UNCHANGED acked, consumer[h] # "stopped",
             partialEnt' \in {partialEnt, NoInode}, PF!SetPhase(h, "closed"),
             writer[h].phase = "open",
             "full" \in Faults \/ writer[h].pos = 0 \/ (chan'[h] # "open" /\ queue'[h] = <<>>)
      PROVE  Placed(h)'
  <2>1. /\ writer'[h] = [writer[h] EXCEPT !.phase = "closed", !.buf = <<>>]
        /\ writer[h] \in PF!WriterState
    BY <1>0, <1>4 DEF PF!SetPhase, PF!TypeOK
  <2>2. writer'[h].phase = "closed" /\ writer'[h].ino = writer[h].ino
        /\ writer'[h].fsync = writer[h].fsync
    BY <2>1 DEF PF!WriterState
  <2>3. writer[h].pos = 0 => writer[h].fsync = 0
    BY <1>0, <1>4, <2>1 DEF Tidy, PF!WriterState
  <2> QED
    BY <1>0, <1>4, <2>2, <2>3 DEF Placed
<1>5. ASSUME NEW h \in Handlers, NEW kind, Consume(h, kind)
      PROVE  consumer[h] # "stopped" /\ queue[h] # <<>>
  BY <1>5 DEF Consume
<1>6. ASSUME NEW h \in Handlers, HandleChunk(h) \/ HandleChunkFails(h) PROVE Placed(h)'
  <2> DEFINE bytes == Head(queue[h]).bytes
  <2>1. bytes \in Chunks /\ consumer[h] # "stopped" /\ queue[h] # <<>>
    BY <1>0, <1>5, <1>6, Consumed, MessageFields DEF HandleChunk, HandleChunkFails
  <2>2. \/ writer[h].phase \in {"absent", "closed"} /\ UNCHANGED <<partialEnt, writer, acked>>
        \/ \E st : Calls(h, st, bytes)
    <3>1. CASE HandleChunk(h)
      BY <3>1 DEF HandleChunk, Calls
    <3>2. CASE HandleChunkFails(h)
      BY <3>2 DEF HandleChunkFails, Calls
    <3> QED
      BY <1>6, <3>1, <3>2
  <2>3. UNCHANGED <<consumer, chan>>
    BY <1>6 DEF HandleChunk, HandleChunkFails, link
  <2> HIDE DEF bytes
  <2>4. ASSUME NEW st, Calls(h, st, bytes) PROVE Placed(h)'
    <3>1. CASE st = writer[h] /\ writer[h].phase = "open" /\ UNCHANGED partialEnt
      <4>1. writer[h].ino = partialEnt /\ writer[h].ino \in Inodes
        BY <1>0, <2>1, <3>1 DEF Placed, PFP!Stands
      <4>2. acked[st.ino] <= st.fsync
        BY <1>0, <2>1, <3>1, <4>1, HandlerInodeAssumption DEF Placed
      <4> QED
        BY <1>0, <2>1, <2>4, <3>1, <4>1, <4>2, CallPlaces DEF Placed
    <3>2. ASSUME NEW i \in PF!OpenTargets, st = PF!OpenedOn(i), PF!LinkPartial(i)
          PROVE  Placed(h)'
      <4>1. i \in Inodes
        BY <1>0 DEF PF!OpenTargets, PF!TypeOK
      <4>2. st.ino = i /\ st.fsync = Len(data[i]) /\ partialEnt' = i
        BY <3>2 DEF PF!OpenedOn, PF!LinkPartial
      <4>3. acked[st.ino] <= st.fsync
        BY <1>0, <4>1, <4>2, TypedFiles
      <4>4. /\ writer'[h].phase = "open" /\ writer'[h].ino = st.ino
            /\ acked'[st.ino] <= writer'[h].fsync
        BY <1>0, <2>1, <2>4, <4>3, CallPlaces
      <4> QED
        BY <4>2, <4>4 DEF Placed
    <3> QED
      BY <2>4, <3>1, <3>2 DEF Calls
  <2> QED
    BY <1>2, <2>1, <2>2, <2>3, <2>4
<1>7. ASSUME NEW h \in Handlers, HandleEof(h) PROVE Placed(h)'
  <2>1. consumer[h] # "stopped" /\ queue[h] # <<>> /\ UNCHANGED <<acked, chan>>
    BY <1>5, <1>7 DEF HandleEof, link
  <2>2. CASE EofWithoutWriter(h)
    BY <1>2, <2>1, <2>2 DEF EofWithoutWriter
  <2>3. CASE EofOnEmpty(h)
    <3>1. writer[h].pos = 0
      <4>1. writer[h].pos + Len(writer[h].buf) = 0 /\ writer[h] \in PF!WriterState
        BY <1>0, <2>3 DEF EofOnEmpty, PF!Tell, PF!TypeOK
      <4>2. writer[h].pos \in Nat /\ writer[h].buf \in Seq(Byte)
        BY <4>1 DEF PF!WriterState
      <4>3. Len(writer[h].buf) \in Nat
        BY <4>2
      <4> QED
        BY <4>1, <4>2, <4>3
    <3> QED
      BY <1>4, <2>1, <2>3, <3>1 DEF EofOnEmpty, PF!UnlinkPartial
  <2>4. CASE EofCloseRaises(h)
    BY <1>4, <2>1, <2>4 DEF EofCloseRaises
  <2>5. CASE EofOnMissing(h)
    <3>1. writer[h].phase = "open" /\ partialEnt = NoInode
      BY <2>5 DEF EofOnMissing
    <3>2. writer[h].ino = partialEnt /\ writer[h].ino \in Inodes
      BY <1>0, <2>1, <3>1 DEF Placed, PFP!Stands
    <3> QED
      BY <3>1, <3>2, HandlerInodeAssumption
  <2>6. CASE EofOnAudio(h)
    BY <1>3, <2>6 DEF EofOnAudio
  <2> QED
    BY <1>7, <2>2, <2>3, <2>4, <2>5, <2>6 DEF HandleEof, Finalizes
<1>8. ASSUME NEW h \in Handlers, HandleResumeRefuse(h) \/ PipelineCleans(h) PROVE Placed(h)'
  BY <1>3, <1>8 DEF HandleResumeRefuse, PipelineCleans
<1>9. ASSUME NEW h \in Handlers, PF!CloseRaises(h) PROVE writer[h].phase = "open"
  <2>1. Len(<<>>) = 0 /\ 0..(0 - 1) = {}
    OBVIOUS
  <2>2. writer[h].buf # <<>>
    BY <1>9, <2>1 DEF PF!CloseRaises
  <2> QED
    BY <1>0, <2>2 DEF Tidy
<1>10. ASSUME NEW h \in Handlers, HandleResumeRefuseRaises(h) PROVE Placed(h)'
  BY <1>4, <1>5, <1>9, <1>10 DEF HandleResumeRefuseRaises, Refuses, PF!UnlinkPartial
<1>11. ASSUME NEW h \in Handlers, PipelineCleansRaises(h) PROVE Placed(h)'
  <2>1. CASE consumer[h] = "stopped"
    BY <1>11, <2>1 DEF PipelineCleansRaises, consuming, Placed
  <2>2. CASE consumer[h] # "stopped"
    BY <1>4, <1>9, <1>11, <2>2 DEF PipelineCleansRaises
  <2> QED
    BY <2>1, <2>2
<1>12. ASSUME NEW h \in Handlers,
             \/ HandleJobInit(h) \/ HandleJobInitFails(h)
             \/ HandleDuplicateEof(h) \/ HandleResumeAccept(h) \/ HandleResumeRaises(h)
             \/ HandleOther(h) \/ \E m \in Inbox : Receive(h, m)
      PROVE  Placed(h)'
  <2>1. UNCHANGED <<writer, partialEnt, acked, consumer>>
    BY <1>12 DEF HandleJobInit, HandleJobInitFails, HandleDuplicateEof, HandleResumeAccept,
       HandleResumeRaises, HandleOther, Receive, disk, files
  <2>2. chan[h] = "open" \/ queue[h] # <<>>
    BY <1>5, <1>12 DEF HandleJobInit, HandleJobInitFails, HandleDuplicateEof,
       HandleResumeAccept, HandleResumeRaises, HandleOther, Receive
  <2> QED
    BY <1>2, <2>1, <2>2
<1>13. ASSUME NEW h \in Handlers,
             \/ PipelineTooLarge(h) \/ PipelineLoads(h) \/ PipelineReads(h)
             \/ PipelineSucceeds(h) \/ PipelineFails(h)
      PROVE  Placed(h)'
  BY <1>2, <1>13 DEF PipelineTooLarge, PipelineLoads, PipelineReads, PipelineSucceeds,
     PipelineFails, disk, files, consuming, link
<1>14. ASSUME NEW h \in Handlers, KickPipeline(h) PROVE Placed(h)'
  BY <1>2, <1>14 DEF KickPipeline, disk, files, link
<1>15. ASSUME NEW h \in Handlers, Bind(h) \/ ChannelLost(h) \/ CloseHandler(h)
       PROVE  Placed(h)'
  <2>1. CASE Bind(h)
    <3>1. writer'[h].phase = "absent"
      BY <1>0, <2>1, NoWriterTidy DEF Bind, Fresh, disk
    <3> QED
      BY <3>1 DEF Placed
  <2>2. CASE ChannelLost(h)
    <3>1. chan[h] = "open"
      BY <2>2 DEF ChannelLost
    <3> QED
      BY <1>2, <2>2, <3>1 DEF ChannelLost, disk, files, consuming
  <2>3. CASE CloseHandler(h)
    BY <1>0, <1>2, <2>3 DEF CloseHandler, disk, files, link, ControlTyped
  <2> QED
    BY <1>15, <2>1, <2>2, <2>3
<1>16. ASSUME NEW h \in Handlers, WriterCollected(h) PROVE AllPlaced'
  <2>1. UNCHANGED <<partialEnt, acked, consumer, chan, queue>>
    BY <1>16 DEF WriterCollected, link, consuming
  <2>2. ASSUME NEW g \in Handlers \ {h} PROVE Placed(g)'
    <3>1. writer'[g] = writer[g]
      BY <1>0, <1>16, OthersStay DEF Environment, Interruption
    <3> QED
      BY <1>0, <2>1, <3>1 DEF Placed
  <2>3. Placed(h)'
    <3>1. CASE consumer[h] = "stopped"
      BY <2>1, <3>1 DEF Placed
    <3>2. CASE consumer[h] # "stopped"
      BY <1>4, <1>16, <2>1, <3>2 DEF WriterCollected, Idle
    <3> QED
      BY <3>1, <3>2
  <2> QED
    BY <2>2, <2>3 DEF AllPlaced
<1>17. CASE EngineCrash \/ PowerLoss
  <2>1. \A h \in Handlers : writer'[h].phase = "absent"
    BY <1>17, NoWriterTidy DEF EngineCrash, PowerLoss, Dies
  <2> QED
    BY <2>1 DEF AllPlaced, Placed
<1>18. CASE UNCHANGED vars
  BY <1>0, <1>18 DEF AllPlaced, Placed, vars, disk, files, link, consuming
<1>19. ASSUME NEW h \in Handlers, Engine(h) PROVE Placed(h)'
  BY <1>6, <1>7, <1>8, <1>10, <1>11, <1>12, <1>13, <1>14, <1>19
     DEF Engine, ConsumerStep, PipelineStep
<1> QED
  BY <1>1, <1>12, <1>15, <1>16, <1>17, <1>18, <1>19 DEF Next, Environment, Interruption

LEMMA AlwaysPlaced ==
  ASSUME Admission = "when_done"
  PROVE  Spec => [](TakingTurns /\ AllPlaced)
<1>1. Init => AllPlaced
  BY NoWriterTidy DEF Init, PF!Init, AllPlaced, Placed
<1>2. TakingTurns /\ AllPlaced /\ [Next]_vars => AllPlaced'
  BY PlacedKept
<1> QED
  BY <1>1, <1>2, TurnsTaken, PTL DEF Spec

\* When handlers take turns, one that still consumes appends to the file the path
\* .partial names, whatever became of the handlers and processes before it:
\* WritesLand.
THEOREM AppendsLand == Admission = "when_done" => (Spec => []WritesLand)
<1> SUFFICES ASSUME Admission = "when_done" PROVE Spec => []WritesLand
  OBVIOUS
<1>1. AllPlaced => WritesLand
  BY DEF AllPlaced, Placed, WritesLand
<1> QED
  BY <1>1, AlwaysPlaced, PTL

-------------------------------------------------------------------------------
(***************************************************************************)
(* What a client is told to resume from.                                   *)
(***************************************************************************)

\* An offset that is sent is one the file has, and none below its last checkpoint.
LEMMA ResumeOffset ==
  ASSUME TakingTurns, AllPlaced, [Next]_vars, NEW h \in Handlers, resumed'[h] # resumed[h]
  PROVE  /\ "full" \notin Faults => resumed'[h] <= PF!PartialSize'
         /\ partialEnt' # NoInode => acked[partialEnt'] <= resumed'[h]
<1>0. /\ ControlTyped /\ PF!TypeOK /\ Placed(h) /\ Tidy(writer[h])
      /\ writer[h] \in PF!WriterState
      /\ writer[h].phase = "open" => PFP!Stands(writer[h])
  BY TypedFiles DEF TakingTurns, AllPlaced
<1>1. HandleResumeAccept(h) \/ HandleResumeRefuse(h)
  <2>1. PICK g \in Handlers : Engine(g) \/ Environment(g) \/ \E m \in Inbox : Receive(g, m)
    BY DEF Next, EngineCrash, PowerLoss, Dies, vars, told
  <2>2. g = h
    BY <1>0, <2>1, OthersStay
  <2> QED
    BY <2>1, <2>2 DEF Engine, Environment, Interruption, ConsumerStep, PipelineStep,
       HandleChunk, HandleChunkFails, HandleJobInit, HandleJobInitFails, HandleEof,
       HandleDuplicateEof, KickPipeline, HandleResumeRefuseRaises, HandleResumeRaises,
       HandleOther, PipelineTooLarge, PipelineLoads, PipelineReads, PipelineSucceeds,
       PipelineFails, PipelineCleans, PipelineCleansRaises, Bind, ChannelLost, CloseHandler,
       WriterCollected, Receive, told
<1>2. CASE HandleResumeRefuse(h)
  <2>1. partialEnt' = NoInode /\ resumed'[h] = 0
    BY <1>0, <1>2 DEF HandleResumeRefuse, SendResumeState, PF!UnlinkPartial,
       ControlTyped
  <2> QED
    BY <2>1 DEF PF!PartialSize
<1>3. CASE HandleResumeAccept(h)
  <2>1. /\ consumer[h] = "ready" /\ queue[h] # <<>> /\ UNCHANGED <<data, partialEnt>>
        /\ resumed'[h] = IF writer[h].phase = "absent" THEN PF!PartialSize
                                                       ELSE writer[h].fsync
    BY <1>0, <1>3 DEF HandleResumeAccept, Consume, SendResumeState, PF!CurrentOffset, disk,
       files, ControlTyped
  <2>2. PF!PartialSize' = PF!PartialSize /\ PF!PartialSize \in Nat
    BY <1>0, <2>1, OffsetNat DEF PF!PartialSize
  <2>3. partialEnt # NoInode =>
          /\ partialEnt \in Inodes /\ PF!PartialSize = Len(data[partialEnt])
          /\ acked[partialEnt] <= PF!PartialSize
    BY <1>0, TypedFiles DEF TakingTurns, PF!TypeOK, PF!PartialSize
  <2>4. CASE writer[h].phase = "absent"
    BY <2>1, <2>2, <2>3, <2>4
  <2>5. CASE writer[h].phase = "open"
    <3>1. /\ writer[h].ino = partialEnt /\ partialEnt \in Inodes
          /\ writer[h].pos <= Len(data[partialEnt]) /\ writer[h].fsync <= writer[h].pos
      BY <1>0, <2>1, <2>5 DEF Placed, Tidy, PFP!Stands
    <3>2. partialEnt # NoInode
      BY <3>1, HandlerInodeAssumption
    <3>3. writer[h].pos \in Nat /\ writer[h].fsync \in Nat
      BY <1>0 DEF PF!WriterState
    <3>4. resumed'[h] = writer[h].fsync /\ acked[partialEnt] <= writer[h].fsync
      BY <1>0, <2>1, <2>5, <3>2 DEF Placed
    <3> QED
      BY <2>1, <2>2, <2>3, <3>1, <3>2, <3>3, <3>4
  <2>6. CASE writer[h].phase = "closed"
    <3>1. resumed'[h] = writer[h].fsync
      BY <2>1, <2>6
    <3>2. partialEnt # NoInode => acked[partialEnt] <= writer[h].fsync
      BY <1>0, <2>1, <2>6 DEF Placed
    <3>3. "full" \notin Faults => writer[h].fsync = 0
      BY <1>0, <2>1, <2>6 DEF Placed
    <3> QED
      BY <2>1, <2>2, <3>1, <3>2, <3>3
  <2> QED
    BY <1>0, <2>1, <2>4, <2>5, <2>6 DEF Placed
<1> QED
  BY <1>1, <1>2, <1>3

\* When handlers take turns and close() never raises, no client is told to resume
\* beyond the end of the file its next chunk would be appended to: ResumeWithinFile.
THEOREM ResumesWithinFile ==
  Admission = "when_done" /\ "full" \notin Faults => (Spec => ResumeWithinFile)
<1> SUFFICES ASSUME Admission = "when_done", "full" \notin Faults
             PROVE  Spec => ResumeWithinFile
  OBVIOUS
<1>1. TakingTurns /\ AllPlaced /\ [Next]_vars
        => [\A h \in Handlers : resumed'[h] # resumed[h] => resumed'[h] <= PF!PartialSize']_vars
  BY ResumeOffset
<1> QED
  BY <1>1, AlwaysPlaced, PTL DEF Spec, ResumeWithinFile

\* When handlers take turns, no client is told to resume below an offset that a
\* checkpoint has confirmed for the file it resumes, crashes, power losses and writes
\* that raise between the two included: ResumeKeepsCheckpoint.
THEOREM ResumesAtCheckpoint == Admission = "when_done" => (Spec => ResumeKeepsCheckpoint)
<1> SUFFICES ASSUME Admission = "when_done" PROVE Spec => ResumeKeepsCheckpoint
  OBVIOUS
<1>1. TakingTurns /\ AllPlaced /\ [Next]_vars
        => [\A h \in Handlers :
              resumed'[h] # resumed[h] /\ partialEnt' # NoInode
                => acked[partialEnt'] <= resumed'[h]]_vars
  BY ResumeOffset
<1> QED
  BY <1>1, AlwaysPlaced, PTL DEF Spec, ResumeKeepsCheckpoint
===============================================================================
