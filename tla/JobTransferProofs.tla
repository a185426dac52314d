--------------------------- MODULE JobTransferProofs ---------------------------
(***************************************************************************)
(* The uploads of one job, for any files, any number of channels and any   *)
(* length of the queue.                                                    *)
(***************************************************************************)
EXTENDS JobTransfer, InboundSequentialProofs, SequenceTheorems

FrontendTyped ==
  /\ plan \in [Handlers -> Plans]
  /\ src \in [Handlers -> Shas]
  /\ pos \in [Handlers -> Nat]

-------------------------------------------------------------------------------
(***************************************************************************)
(* The frontend is a client of InboundJob.                                 *)
(***************************************************************************)
LEMMA FrontendSends ==
  ASSUME NEW f \in Shas
  PROVE  /\ [kind |-> "job_init", sha |-> f] \in Inbox
         /\ [kind |-> "resume_query", sha |-> f] \in Inbox
         /\ \A n \in 1..Len(Source[f]) : [kind |-> "chunk", bytes |-> <<Source[f][n]>>] \in Inbox
         /\ [kind |-> "audio_eof"] \in Inbox
<1>1. /\ [kind |-> "job_init", sha |-> f] \in FrontendMessages
      /\ [kind |-> "resume_query", sha |-> f] \in FrontendMessages
      /\ [kind |-> "audio_eof"] \in FrontendMessages
  BY DEF FrontendMessages
<1>2. ASSUME NEW n \in 1..Len(Source[f])
      PROVE  [kind |-> "chunk", bytes |-> <<Source[f][n]>>] \in FrontendMessages
  BY DEF FrontendMessages
<1> QED
  BY <1>1, <1>2, FrontendAssumption

LEMMA StepOfHandlers ==
  ASSUME FrontendTyped, [TransferNext]_allVars
  PROVE  [Next]_vars
<1>1. ASSUME NEW h \in Handlers, Frontend(h) PROVE [Next]_vars
  <2>1. src[h] \in Shas /\ pos[h] \in Nat
    BY DEF FrontendTyped
  <2>2. CASE Connects(h)
    BY <2>2 DEF Connects, Next, Environment
  <2>3. CASE SendsInit(h)
    BY <2>1, <2>3, FrontendSends DEF SendsInit, Next
  <2>4. CASE SendsQuery(h)
    BY <2>1, <2>4, FrontendSends DEF SendsQuery, Next
  <2>5. CASE HearsOffset(h)
    BY <2>5 DEF HearsOffset
  <2>6. CASE SendsByte(h)
    <3>1. Len(Source[src[h]]) \in Nat
      BY <2>1, SourceAssumption
    <3>2. pos[h] + 1 \in 1..Len(Source[src[h]])
      BY <2>1, <2>6, <3>1 DEF SendsByte
    <3> QED
      BY <2>1, <2>6, <3>2, FrontendSends DEF SendsByte, Next
  <2>7. CASE SendsEof(h)
    BY <2>1, <2>7, FrontendSends DEF SendsEof, Next
  <2> QED
    BY <1>1, <2>2, <2>3, <2>4, <2>5, <2>6, <2>7 DEF Frontend
<1>2. CASE \E h \in Handlers : Engine(h) \/ Interruption(h)
  BY <1>2 DEF Next, Environment
<1>3. CASE EngineCrash \/ PowerLoss
  BY <1>3 DEF Next
<1>4. CASE UNCHANGED allVars
  BY <1>4 DEF allVars
<1> QED
  BY <1>1, <1>2, <1>3, <1>4 DEF TransferNext

LEMMA FrontendKept ==
  ASSUME ControlTyped, FrontendTyped, [TransferNext]_allVars
  PROVE  FrontendTyped'
<1>1. ASSUME NEW h \in Handlers, Frontend(h) PROVE FrontendTyped'
  <2>1. plan' \in [Handlers -> Plans]
    BY <1>1 DEF FrontendTyped, Frontend, Connects, SendsInit, SendsQuery, HearsOffset,
       SendsByte, SendsEof, Then, Plans
  <2>2. src' = src
    BY <1>1 DEF Frontend, Connects, SendsInit, SendsQuery, HearsOffset, SendsByte,
       SendsEof
  <2>3. pos' \in [Handlers -> Nat]
    <3>1. CASE HearsOffset(h)
      <4>1. resumed[h] \in Nat
        BY <3>1 DEF HearsOffset, ControlTyped
      <4> QED
        BY <3>1, <4>1 DEF HearsOffset, FrontendTyped
    <3>2. CASE SendsByte(h)
      BY <3>2 DEF SendsByte, FrontendTyped
    <3>3. CASE Connects(h) \/ SendsInit(h) \/ SendsQuery(h) \/ SendsEof(h)
      BY <3>3 DEF Connects, SendsInit, SendsQuery, SendsEof, FrontendTyped
    <3> QED
      BY <1>1, <3>1, <3>2, <3>3 DEF Frontend
  <2> QED
    BY <2>1, <2>2, <2>3 DEF FrontendTyped
<1>2. CASE UNCHANGED frontend
  BY <1>2 DEF FrontendTyped, frontend
<1> QED
  BY <1>1, <1>2 DEF TransferNext, allVars

LEMMA TransferKept ==
  ASSUME Typed, FrontendTyped, [TransferNext]_allVars
  PROVE  Typed' /\ FrontendTyped'
  BY StepOfHandlers, TypedKept, FrontendKept, TypedFiles

LEMMA TransferStarts == TransferInit => Init /\ Typed /\ FrontendTyped
  BY InitTyped DEF TransferInit, FrontendTyped, Plans

\* Whatever a resuming frontend does, the handlers see nothing that InboundJob does
\* not allow its clients: every theorem about the handlers holds of its uploads.
THEOREM TransferIsInbound == TransferSpec => Spec
<1>1. Typed /\ FrontendTyped /\ [TransferNext]_allVars => Typed' /\ FrontendTyped'
  BY TransferKept
<1>2. FrontendTyped /\ [TransferNext]_allVars => [Next]_vars
  BY StepOfHandlers
<1> QED
  BY <1>1, <1>2, TransferStarts, PTL DEF TransferSpec, Spec

\* Handlers and frontend keep their state in its shapes: TransferTypeOK.
THEOREM TransferTyped == TransferSpec => []TransferTypeOK
<1>1. Typed /\ FrontendTyped /\ [TransferNext]_allVars => Typed' /\ FrontendTyped'
  BY TransferKept
<1>2. Typed /\ FrontendTyped => TransferTypeOK
  BY DEF Typed, FrontendTyped, TransferTypeOK
<1> QED
  BY <1>1, <1>2, TransferStarts, PTL DEF TransferSpec

-------------------------------------------------------------------------------
(***************************************************************************)
(* The inductive invariant of a frontend that asks first, on handlers that *)
(* take turns.                                                             *)
(***************************************************************************)

\* What the proofs below assume: no channel overlaps another, no chunk the frontend
\* sent is dropped while its channel stays open, no call on a file raises, and no file
\* is torn by the machine.
TurnTaking ==
  /\ Admission = "when_done"
  /\ ~InitFirst
  /\ Faults \subseteq {"drop", "close", "crash", "unheard"}

Held == PF!PartialSize
Size(h) == Len(Source[src[h]])

\* The n-th message of the upload of file f, from its beginning.
Item(f, n) ==
  IF n <= Len(Source[f]) THEN [kind |-> "chunk", bytes |-> <<Source[f][n]>>]
                         ELSE [kind |-> "audio_eof"]

InitOf(h) == [kind |-> "job_init", sha |-> src[h]]
QueryOf(h) == [kind |-> "resume_query", sha |-> src[h]]

\* The files: a .partial has a sidecar, whose file it begins, and is not the
\* finalized one; a file that was not handed out is empty.
FilesFit ==
  /\ \A i \in Inodes \ used : data[i] = <<>>
  /\ partialEnt # NoInode => partialEnt \in used /\ sidecar \in Shas /\ partialEnt # finalEnt
  /\ finalEnt # NoInode => finalEnt \in used
  /\ PartialIsPrefix

\* After its first messages, the queue holds what follows the bytes in .partial, and
\* on an open channel reaches to where the frontend is.
Follows(h, first) ==
  LET next == Held + Len(queue[h]) - first IN
  /\ first <= Len(queue[h])
  /\ \A k \in 1..Len(queue[h]) : k > first => queue[h][k] = Item(src[h], Held + k - first)
  /\ next <= Size(h) + 1
  /\ chan[h] = "open" /\ plan[h] = "send" => pos[h] = next /\ next <= Size(h)
  /\ chan[h] = "open" /\ plan[h] = "over" => next = Size(h) + 1

\* How far an upload has come while its handler consumes.
Asks(h) == plan[h] = "ask" /\ queue[h] = <<>> /\ resumed[h] = NoReply

Waits(h) ==
  /\ plan[h] = "wait"
  /\ \/ resumed[h] = NoReply /\ queue[h] \in {<<>>, <<QueryOf(h)>>}
     \/ resumed[h] = Held /\ queue[h] = <<>> /\ (Held > 0 => sidecar = src[h])

Begins(h) == plan[h] = "init" /\ queue[h] = <<>> /\ pos[h] = 0 /\ Held = 0

Announces(h) ==
  /\ plan[h] \in {"send", "over"}
  /\ queue[h] # <<>> /\ queue[h][1] = InitOf(h)
  /\ Held = 0
  /\ Follows(h, 1)

Uploads(h) ==
  /\ plan[h] \in {"send", "over"}
  /\ queue[h] # <<>> \/ chan[h] = "open" => sidecar = src[h]
  /\ Follows(h, 0)

Ended(h) == queue[h] = <<>> /\ (plan[h] = "over" \/ chan[h] = "closed")

Stand(h) ==
  \/ eofSeen[h] /\ Ended(h)
  \/ /\ ~eofSeen[h]
     /\ \/ writer[h].phase = "absent" /\ (Asks(h) \/ Waits(h) \/ Begins(h) \/ Announces(h))
        \/ writer[h].phase \in {"absent", "open"} /\ Uploads(h)

Course(h) ==
  /\ chan[h] = "new" <=> plan[h] = "away"
  /\ chan[h] = "new" => queue[h] = <<>> /\ ~eofSeen[h] /\ resumed[h] = NoReply
  /\ consumer[h] \in {"ready", "emit"} => Stand(h)

\* What the pipeline of a handler has read, and what it finds when it reads.
Gets(h) ==
  /\ input[h] # <<>> => input[h] = Source[src[h]]
  /\ (consumer[h] = "emit" \/ task[h] \in {"started", "loading"}) /\ finalEnt # NoInode
       => data[finalEnt] = Source[src[h]]

Uploading == FilesFit /\ \A h \in Handlers : Course(h) /\ Gets(h)

\* No call of write() has left anything to be written later.
NothingLeft == \A h \in Handlers : writer[h].buf = <<>>

InTurn == TakingTurns /\ AllPlaced /\ NothingLeft /\ FrontendTyped

-------------------------------------------------------------------------------
(***************************************************************************)
(* Where no call raises, every write() writes all of its chunk.            *)
(***************************************************************************)
LEMMA CallWrites ==
  ASSUME Typed, NEW h \in Handlers, NEW st, NEW bytes \in Chunks, Calls(h, st, bytes),
         PF!AppendChunk(h, st, bytes)
  PROVE  /\ writer'[h].phase = "open" /\ writer'[h].buf = <<>>
         /\ \A g \in Handlers \ {h} : writer'[g] = writer[g]
<1>1. bytes \in Seq(Byte) /\ PFP!Stands(st) /\ st.fsync <= st.pos /\ PFP!IInv
  BY CallInOrder DEF Typed
<1>2. PFP!AppendChunk(h, st, bytes)
  BY SameCalls
<1> QED
  BY <1>1, <1>2, FileAssumptions, PFP!AppendReports

LEMMA NothingLeftKept ==
  ASSUME "disk" \notin Faults, Typed, NothingLeft, [Next]_vars
  PROVE  NothingLeft'
<1>1. CASE Quiet
  BY <1>1 DEF Quiet, NothingLeft
<1>2. CASE PFP!PowerLoss
  BY <1>2, NoWriterTidy, SameState DEF PFP!PowerLoss, NothingLeft
<1>3. ASSUME NEW h \in Handlers, NEW bytes \in Chunks, NEW st, Calls(h, st, bytes)
      PROVE  NothingLeft'
  BY <1>3, CallWrites DEF Calls, NothingLeft
<1> QED
  BY <1>1, <1>2, <1>3, StepOfFiles

LEMMA AlwaysNothingLeft ==
  ASSUME "disk" \notin Faults
  PROVE  Spec => []NothingLeft
<1>1. ASSUME Init PROVE NothingLeft
  <2>1. writer = [h \in Handlers |-> PF!NoWriter]
    BY <1>1 DEF Init, PF!Init
  <2> QED
    BY <2>1, NoWriterTidy DEF NothingLeft
<1>2. Typed /\ NothingLeft /\ [Next]_vars => NothingLeft'
  BY NothingLeftKept
<1>3. Typed /\ [Next]_vars => Typed'
  BY TypedKept
<1> QED
  BY <1>1, <1>2, <1>3, InitTyped, PTL DEF Spec

-------------------------------------------------------------------------------
(***************************************************************************)
(* One upload moves at a time.                                             *)
(***************************************************************************)

\* A step of a handler moves no queue, flag or input of the others.
LEMMA OthersWait ==
  ASSUME ControlTyped, NEW h \in Handlers,
         Engine(h) \/ Environment(h) \/ \E m \in Inbox : Receive(h, m)
  PROVE  \A g \in Handlers \ {h} :
           queue'[g] = queue[g] /\ eofSeen'[g] = eofSeen[g] /\ input'[g] = input[g]
<1>0. /\ queue \in [Handlers -> Seq(Messages)] /\ eofSeen \in [Handlers -> BOOLEAN]
      /\ input \in [Handlers -> Seq(Byte)]
  BY DEF ControlTyped
<1>1. \A g \in Handlers \ {h} : queue'[g] = queue[g]
  BY <1>0 DEF Engine, Environment, Interruption, Bind, ChannelLost, CloseHandler,
     WriterCollected, Receive, ConsumerStep,
     Consume, HandleChunk, HandleChunkFails, HandleJobInit, HandleJobInitFails, HandleEof,
     HandleDuplicateEof, KickPipeline, HandleResumeAccept, HandleResumeRefuse,
     HandleResumeRefuseRaises, Refuses, HandleResumeRaises, HandleOther, PipelineStep,
     PipelineTooLarge, PipelineLoads, PipelineReads, PipelineSucceeds, PipelineFails,
     PipelineCleans, PipelineCleansRaises, consuming
<1>2. \A g \in Handlers \ {h} : eofSeen'[g] = eofSeen[g]
  BY <1>0 DEF Engine, Environment, Interruption, Bind, ChannelLost, CloseHandler,
     WriterCollected, Receive, ConsumerStep,
     HandleChunk, HandleChunkFails, HandleJobInit, HandleJobInitFails, HandleEof,
     HandleDuplicateEof, KickPipeline, HandleResumeAccept, HandleResumeRefuse,
     HandleResumeRefuseRaises, Refuses, HandleResumeRaises, HandleOther, PipelineStep,
     PipelineTooLarge, PipelineLoads, PipelineReads, PipelineSucceeds, PipelineFails,
     PipelineCleans, PipelineCleansRaises, consuming
<1>3. \A g \in Handlers \ {h} : input'[g] = input[g]
  BY <1>0 DEF Engine, Environment, Interruption, Bind, ChannelLost, CloseHandler,
     WriterCollected, Receive, ConsumerStep,
     HandleChunk, HandleChunkFails, HandleJobInit, HandleJobInitFails, HandleEof,
     HandleDuplicateEof, KickPipeline, HandleResumeAccept, HandleResumeRefuse,
     HandleResumeRefuseRaises, Refuses, HandleResumeRaises, HandleOther, PipelineStep,
     PipelineTooLarge, PipelineLoads, PipelineReads, PipelineSucceeds, PipelineFails,
     PipelineCleans, PipelineCleansRaises, pipeline
<1> QED
  BY <1>1, <1>2, <1>3

\* A dormant handler's upload stays as it is.
LEMMA DormantCourse ==
  ASSUME TakingTurns, NEW g \in Handlers, Dormant(g), Course(g), Gets(g),
         /\ chan'[g] = chan[g] /\ consumer'[g] = consumer[g] /\ task'[g] = task[g]
         /\ resumed'[g] = resumed[g] /\ queue'[g] = queue[g] /\ eofSeen'[g] = eofSeen[g]
         /\ input'[g] = input[g] /\ plan'[g] = plan[g] /\ src'[g] = src[g]
  PROVE  Course(g)' /\ Gets(g)'
<1>1. consumer[g] \notin {"ready", "emit"} /\ task[g] \notin {"started", "loading"}
  BY DEF TakingTurns, Fresh, Dormant, Done, Active
<1>2. Course(g)'
  BY <1>1 DEF Course
<1>3. Gets(g)'
  BY <1>1 DEF Gets
<1> QED
  BY <1>2, <1>3

LEMMA OneUploads ==
  ASSUME TurnTaking, InTurn, Uploading, NEW h \in Handlers,
         Engine(h) \/ Environment(h) \/ \E m \in Inbox : Receive(h, m),
         src' = src, \A g \in Handlers \ {h} : plan'[g] = plan[g],
         FilesFit', Course(h)', Gets(h)'
  PROVE  Uploading'
<1>0. ControlTyped /\ PF!TypeOK /\ TakingTurns
  BY TypedFiles DEF InTurn, TakingTurns
<1>1. \A g \in Handlers \ {h} : Dormant(g)
  <2>1. CASE Bind(h)
    BY <2>1 DEF Bind, Dormant, TurnTaking
  <2>2. CASE ~Bind(h)
    <3>1. ~WriterCollected(h)
      BY DEF WriterCollected, InTurn, NothingLeft
    <3> QED
      BY <1>0, <2>2, <3>1, AtWork DEF Environment, Interruption
  <2> QED
    BY <2>1, <2>2
<1>2. ASSUME NEW g \in Handlers \ {h} PROVE Course(g)' /\ Gets(g)'
  <2>1. /\ chan'[g] = chan[g] /\ consumer'[g] = consumer[g] /\ task'[g] = task[g]
        /\ resumed'[g] = resumed[g]
    BY <1>0, OthersStay
  <2>2. queue'[g] = queue[g] /\ eofSeen'[g] = eofSeen[g] /\ input'[g] = input[g]
    BY <1>0, OthersWait
  <2>3. Course(g) /\ Gets(g)
    BY DEF Uploading
  <2> QED
    BY <1>0, <1>1, <2>1, <2>2, <2>3, DormantCourse
<1> QED
  BY <1>2 DEF Uploading

-------------------------------------------------------------------------------
(***************************************************************************)
(* Queues and files.                                                       *)
(***************************************************************************)
LEMMA TailOf ==
  ASSUME NEW S, NEW q \in Seq(S), q # <<>>
  PROVE  /\ Len(q) \in Nat \ {0} /\ Head(q) = q[1]
         /\ Tail(q) \in Seq(S) /\ Len(Tail(q)) = Len(q) - 1
         /\ \A k \in 1..Len(q) - 1 : Tail(q)[k] = q[k + 1]
<1>1. Len(q) \in Nat \ {0} /\ Head(q) = q[1]
  BY EmptySeq
<1> QED
  BY <1>1, HeadTailProperties

LEMMA SourceOf ==
  ASSUME NEW f \in Shas
  PROVE  Source[f] \in Seq(Byte) /\ Len(Source[f]) \in Nat
  BY SourceAssumption

LEMMA ItemKinds ==
  ASSUME NEW f \in Shas, NEW n \in Nat
  PROVE  /\ Item(f, n).kind = IF n <= Len(Source[f]) THEN "chunk" ELSE "audio_eof"
         /\ n <= Len(Source[f]) => Item(f, n).bytes = <<Source[f][n]>>
<1>1. CASE n <= Len(Source[f])
  BY <1>1 DEF Item
<1>2. CASE ~(n <= Len(Source[f]))
  BY <1>2 DEF Item
<1> QED
  BY <1>1, <1>2

\* How much .partial holds, and that it holds the beginning of its file.
LEMMA HeldFits ==
  ASSUME PF!TypeOK, FilesFit
  PROVE  /\ Held \in Nat
         /\ partialEnt = NoInode => Held = 0
         /\ partialEnt # NoInode =>
              /\ partialEnt \in Inodes /\ data[partialEnt] \in Seq(Byte)
              /\ Held = Len(data[partialEnt]) /\ Held <= Len(Source[sidecar])
              /\ \A n \in 1..Held : data[partialEnt][n] = Source[sidecar][n]
         /\ Held > 0 => sidecar \in Shas
<1>1. CASE partialEnt = NoInode
  BY <1>1 DEF Held, PF!PartialSize
<1>2. CASE partialEnt # NoInode
  <2>1. partialEnt \in Inodes /\ data[partialEnt] \in Seq(Byte)
    BY <1>2 DEF PF!TypeOK
  <2>2. Held = Len(data[partialEnt]) /\ Held \in Nat
    BY <1>2, <2>1 DEF Held, PF!PartialSize
  <2>3. sidecar \in Shas /\ PartialIsPrefix
    BY <1>2 DEF FilesFit
  <2> QED
    BY <1>2, <2>1, <2>2, <2>3 DEF PartialIsPrefix
<1> QED
  BY <1>1, <1>2

\* What the consumer finds at the head of its queue.
LEMMA NextItem ==
  ASSUME ControlTyped, PF!TypeOK, FrontendTyped, FilesFit, NEW h \in Handlers, Uploads(h),
         queue[h] # <<>>
  PROVE  /\ Head(queue[h]) = Item(src[h], Held + 1)
         /\ sidecar = src[h] /\ Held + Len(queue[h]) <= Size(h) + 1
         /\ Head(queue[h]).kind = IF Held < Size(h) THEN "chunk" ELSE "audio_eof"
         /\ Held < Size(h) => Head(queue[h]).bytes = <<Source[src[h]][Held + 1]>>
<1>1. /\ queue[h] \in Seq(Messages) /\ src[h] \in Shas /\ Size(h) \in Nat
  BY SourceOf DEF ControlTyped, FrontendTyped, Size
<1>2. Len(queue[h]) \in Nat \ {0} /\ Head(queue[h]) = queue[h][1]
  BY <1>1, TailOf
<1>3. Held \in Nat
  BY HeldFits
<1>4. /\ \A k \in 1..Len(queue[h]) : k > 0 => queue[h][k] = Item(src[h], Held + k - 0)
      /\ Held + Len(queue[h]) - 0 <= Size(h) + 1 /\ sidecar = src[h]
  BY DEF Uploads, Follows
<1>5. queue[h][1] = Item(src[h], Held + 1)
  <2>1. 1 \in 1..Len(queue[h]) /\ Held + 1 - 0 = Held + 1
    BY <1>2, <1>3
  <2> QED
    BY <1>4, <2>1
<1>6. Held + Len(queue[h]) <= Size(h) + 1
  BY <1>1, <1>2, <1>3, <1>4
<1>7. Held + 1 \in Nat /\ (Held + 1 <= Len(Source[src[h]]) <=> Held < Size(h))
  BY <1>1, <1>3 DEF Size
<1> QED
  BY <1>1, <1>2, <1>4, <1>5, <1>6, <1>7, ItemKinds

\* A handler that consumes is about to answer a query, to write a sidecar or to take
\* a part of the upload; nothing else is in its queue.
LEMMA AtHead ==
  ASSUME ControlTyped, PF!TypeOK, FrontendTyped, FilesFit, NEW h \in Handlers, Course(h),
         consumer[h] = "ready", queue[h] # <<>>
  PROVE  /\ ~eofSeen[h]
         /\ \/ /\ Waits(h) /\ resumed[h] = NoReply /\ queue[h] = <<QueryOf(h)>>
               /\ Head(queue[h]) = QueryOf(h) /\ writer[h].phase = "absent"
            \/ Announces(h) /\ Head(queue[h]) = InitOf(h) /\ writer[h].phase = "absent"
            \/ /\ Uploads(h) /\ Head(queue[h]).kind \in {"chunk", "audio_eof"}
               /\ writer[h].phase \in {"absent", "open"}
<1>1. Stand(h)
  BY DEF Course
<1>2. ~eofSeen[h]
  BY <1>1 DEF Stand, Ended
<1>3. CASE Uploads(h)
  BY <1>1, <1>2, <1>3, NextItem DEF Stand
<1>4. CASE ~Uploads(h)
  <2>1. writer[h].phase = "absent" /\ (Asks(h) \/ Waits(h) \/ Begins(h) \/ Announces(h))
    BY <1>1, <1>2, <1>4 DEF Stand
  <2>2. Waits(h) \/ Announces(h)
    BY <2>1 DEF Asks, Begins
  <2>3. CASE Waits(h)
    BY <1>2, <2>1, <2>3 DEF Waits
  <2>4. CASE Announces(h)
    <3>1. Head(queue[h]) = InitOf(h)
      BY <2>4, TailOf DEF Announces, ControlTyped
    <3> QED
      BY <1>2, <2>1, <2>4, <3>1
  <2> QED
    BY <2>2, <2>3, <2>4
<1> QED
  BY <1>2, <1>3, <1>4

-------------------------------------------------------------------------------
(***************************************************************************)
(* The steps of the frontend.                                              *)
(***************************************************************************)
Known(h) ==
  /\ TurnTaking /\ ControlTyped /\ PF!TypeOK /\ FrontendTyped
  /\ Typed /\ Fresh /\ Stage(h) /\ Placed(h) /\ writer[h].buf = <<>>
  /\ FilesFit /\ Course(h) /\ Gets(h)

Reached(h) == FilesFit' /\ Course(h)' /\ Gets(h)'

LEMMA FilesStay ==
  ASSUME FilesFit, UNCHANGED <<data, used, partialEnt, finalEnt, sidecar>>
  PROVE  FilesFit' /\ Held' = Held
  BY DEF FilesFit, PartialIsPrefix, Held, PF!PartialSize

LEMMA QuietGets ==
  ASSUME NEW h \in Handlers, Gets(h), UNCHANGED <<data, finalEnt, src>>,
         input'[h] = input[h], consumer'[h] = "emit" => consumer[h] = "emit",
         task'[h] \in {"started", "loading"} => task[h] \in {"started", "loading"}
  PROVE  Gets(h)'
  BY DEF Gets

\* A message reaches the end of the queue, or its channel is closed.
LEMMA Receives ==
  ASSUME NEW h \in Handlers, Known(h), NEW m \in Inbox, Receive(h, m), src' = src
  PROVE  /\ FilesFit' /\ Gets(h)' /\ Held' = Held
         /\ UNCHANGED <<writer, sidecar, consumer, eofSeen, resumed>>
         /\ chan[h] = "open" /\ queue[h] \in Seq(Messages) /\ Len(queue[h]) \in Nat
         /\ \/ /\ chan'[h] = "open" /\ queue'[h] = Append(queue[h], m)
               /\ Len(queue'[h]) = Len(queue[h]) + 1 /\ queue'[h][Len(queue[h]) + 1] = m
               /\ \A k \in 1..Len(queue[h]) : queue'[h][k] = queue[h][k]
            \/ chan'[h] = "closed" /\ queue'[h] = queue[h]
<1>1. UNCHANGED <<data, used, partialEnt, finalEnt, sidecar, writer, input, task, consumer,
                  eofSeen, resumed>>
  BY DEF Receive, disk, files, pipeline, told
<1>2. FilesFit' /\ Held' = Held
  BY <1>1, FilesStay DEF Known
<1>3. Gets(h)'
  BY <1>1, QuietGets DEF Known
<1>4. queue[h] \in Seq(Messages) /\ Len(queue[h]) \in Nat /\ m \in Messages
  BY InboxAssumption DEF Known, ControlTyped
<1>5. /\ Len(Append(queue[h], m)) = Len(queue[h]) + 1
      /\ Append(queue[h], m)[Len(queue[h]) + 1] = m
      /\ \A k \in 1..Len(queue[h]) : Append(queue[h], m)[k] = queue[h][k]
  BY <1>4, AppendProperties
<1>6. /\ chan \in [Handlers -> {"new", "open", "closed"}]
      /\ queue \in [Handlers -> Seq(Messages)] /\ "close_raises" \notin Faults
  BY DEF Known, ControlTyped, TurnTaking
<1>7. /\ chan[h] = "open"
      /\ \/ queue' = [queue EXCEPT ![h] = Append(queue[h], m)] /\ UNCHANGED chan
         \/ chan' = [chan EXCEPT ![h] = "closed"] /\ UNCHANGED queue
  BY <1>6 DEF Receive
<1>8. \/ queue'[h] = Append(queue[h], m) /\ chan'[h] = "open"
      \/ queue'[h] = queue[h] /\ chan'[h] = "closed"
  BY <1>6, <1>7
<1> QED
  BY <1>1, <1>2, <1>3, <1>4, <1>5, <1>7, <1>8

LEMMA OneMore ==
  ASSUME NEW held \in Nat, NEW n \in Nat, NEW at \in Nat, NEW first \in {0, 1},
         first <= n, at = held + n - first
  PROVE  first <= n + 1 /\ held + (n + 1) - first = at + 1
  OBVIOUS

\* The part of an upload that a message on the way continues.
LEMMA Continued ==
  ASSUME NEW h \in Handlers, Known(h), NEW m \in Inbox, Receive(h, m), src' = src,
         plan[h] = "send", plan' = [plan EXCEPT ![h] = plan'[h]], plan'[h] \in {"send", "over"},
         Stand(h), m = Item(src[h], pos[h] + 1), pos[h] <= Size(h),
         plan'[h] = "send" => pos'[h] = pos[h] + 1 /\ pos[h] < Size(h),
         plan'[h] = "over" => pos[h] >= Size(h)
  PROVE  Stand(h)'
<1>1. /\ Held' = Held
      /\ UNCHANGED <<writer, sidecar, consumer, eofSeen, resumed>>
      /\ chan[h] = "open" /\ queue[h] \in Seq(Messages) /\ Len(queue[h]) \in Nat
      /\ \/ /\ chan'[h] = "open" /\ queue'[h] = Append(queue[h], m)
            /\ Len(queue'[h]) = Len(queue[h]) + 1 /\ queue'[h][Len(queue[h]) + 1] = m
            /\ \A k \in 1..Len(queue[h]) : queue'[h][k] = queue[h][k]
         \/ chan'[h] = "closed" /\ queue'[h] = queue[h]
  BY Receives
<1>2. /\ Held \in Nat /\ pos[h] \in Nat /\ src[h] \in Shas
      /\ Size(h) \in Nat /\ Size(h)' = Size(h)
  BY HeldFits, SourceOf DEF Known, FrontendTyped, Size
<1>3. ~eofSeen[h] /\ (Announces(h) \/ Uploads(h))
  BY <1>1 DEF Stand, Ended, Asks, Waits, Begins
<1>4. ASSUME NEW first \in {0, 1}, Follows(h, first) PROVE Follows(h, first)'
  <2> DEFINE n == Len(queue[h])
  <2>1. /\ first <= n /\ pos[h] = Held + n - first
        /\ \A k \in 1..n : k > first => queue[h][k] = Item(src[h], Held + k - first)
        /\ Held + n - first <= Size(h) + 1
    BY <1>1, <1>4 DEF Follows
  <2>2. CASE chan'[h] = "closed" /\ queue'[h] = queue[h]
    BY <1>1, <1>2, <2>1, <2>2 DEF Follows
  <2>3. CASE /\ chan'[h] = "open" /\ Len(queue'[h]) = n + 1 /\ queue'[h][n + 1] = m
             /\ \A k \in 1..n : queue'[h][k] = queue[h][k]
    <3>1. first <= n + 1 /\ Held + (n + 1) - first = pos[h] + 1
      <4>1. n \in Nat /\ first <= n /\ pos[h] = Held + n - first
        BY <1>1, <2>1
      <4> HIDE DEF n
      <4> QED
        BY <1>2, <4>1, OneMore
    <3>2. ASSUME NEW k \in 1..n + 1, k > first
          PROVE  queue'[h][k] = Item(src[h], Held + k - first)
      <4>1. CASE k \in 1..n
        BY <2>1, <2>3, <3>2, <4>1
      <4>2. CASE k = n + 1
        BY <2>3, <3>1, <4>2
      <4> QED
        BY <1>1, <4>1, <4>2
    <3>3. pos[h] + 1 <= Size(h) + 1
      BY <1>2
    <3>4. plan'[h] = "send" => pos'[h] = pos[h] + 1 /\ pos[h] + 1 <= Size(h)
      BY <1>2
    <3>5. plan'[h] = "over" => pos[h] + 1 = Size(h) + 1
      BY <1>2
    <3> QED
      BY <1>1, <1>2, <2>3, <3>1, <3>2, <3>3, <3>4, <3>5 DEF Follows
  <2> QED
    BY <1>1, <2>2, <2>3
<1>5. Announces(h) => Announces(h)'
  <2>1. ASSUME queue[h] # <<>> PROVE queue'[h] # <<>> /\ queue'[h][1] = queue[h][1]
    <3>1. Len(queue[h]) \in Nat \ {0}
      BY <1>1, <2>1, TailOf
    <3> QED
      BY <1>1, <3>1
  <2> QED
    BY <1>1, <1>4, <2>1 DEF Announces, InitOf
<1>6. Uploads(h) => Uploads(h)'
  BY <1>1, <1>4 DEF Uploads
<1> QED
  BY <1>1, <1>3, <1>5, <1>6 DEF Stand

\* Each step of the frontend keeps its upload on course.
LEMMA FrontendReaches ==
  ASSUME NEW h \in Handlers, Known(h), Frontend(h)
  PROVE  Reached(h)
<1>0. /\ plan \in [Handlers -> Plans] /\ src[h] \in Shas /\ pos \in [Handlers -> Nat]
      /\ chan \in [Handlers -> {"new", "open", "closed"}]
      /\ consumer \in [Handlers -> {"none", "ready", "emit", "stopped"}]
      /\ Held \in Nat /\ Size(h) \in Nat /\ ~InitFirst /\ Course(h) /\ Gets(h) /\ FilesFit
  BY HeldFits, SourceOf DEF Known, FrontendTyped, ControlTyped, Size, TurnTaking
<1>1. src' = src
  BY DEF Frontend, Connects, SendsInit, SendsQuery, HearsOffset, SendsByte, SendsEof
<1>2. CASE Connects(h)
  <2>1. /\ plan[h] = "away" /\ plan'[h] = "ask" /\ chan[h] = "new" /\ chan'[h] = "open"
        /\ UNCHANGED <<data, used, partialEnt, finalEnt, sidecar, writer, input, task, queue,
                       eofSeen, resumed>>
        /\ consumer'[h] = "ready"
    BY <1>0, <1>2 DEF Connects, Then, Bind, disk, files, pipeline, told
  <2>2. queue[h] = <<>> /\ ~eofSeen[h] /\ resumed[h] = NoReply
    BY <1>0, <2>1 DEF Course
  <2>3. writer[h].phase = "absent"
    BY <2>1, NoWriterTidy DEF Known, Fresh
  <2>4. Stand(h)'
    BY <2>1, <2>2, <2>3 DEF Stand, Asks
  <2>5. Course(h)'
    BY <2>1, <2>4 DEF Course
  <2> QED
    BY <1>0, <1>1, <2>1, <2>5, FilesStay, QuietGets DEF Reached
<1>3. ASSUME NEW m \in Inbox, Receive(h, m), plan[h] # "away", plan'[h] # "away",
             consumer[h] \in {"ready", "emit"} => Stand(h)'
      PROVE  Reached(h)
  <2>1. /\ FilesFit' /\ Gets(h)' /\ UNCHANGED consumer /\ chan'[h] # "new"
    BY <1>1, <1>3, Receives
  <2> QED
    BY <1>3, <2>1 DEF Course, Reached
<1>4. ASSUME consumer[h] \in {"ready", "emit"} PROVE Stand(h)
  BY <1>0, <1>4 DEF Course
<1>5. CASE SendsInit(h)
  <2>1. /\ plan[h] = "init" /\ plan'[h] = "send" /\ pos' = pos
        /\ InitOf(h) \in Inbox /\ Receive(h, InitOf(h))
    BY <1>0, <1>5, FrontendSends DEF SendsInit, Then, InitOf
  <2>2. ASSUME Stand(h) PROVE Stand(h)'
    <3>1. /\ Held' = Held /\ UNCHANGED <<writer, sidecar, eofSeen>>
          /\ chan[h] = "open" /\ Len(queue[h]) \in Nat
          /\ \/ /\ chan'[h] = "open" /\ queue'[h] = Append(queue[h], InitOf(h))
                /\ Len(queue'[h]) = Len(queue[h]) + 1
                /\ queue'[h][Len(queue[h]) + 1] = InitOf(h)
             \/ chan'[h] = "closed" /\ queue'[h] = queue[h]
      BY <1>1, <2>1, Receives
    <3>2. ~eofSeen[h] /\ writer[h].phase = "absent" /\ Begins(h)
      BY <2>1, <2>2, <3>1 DEF Stand, Ended, Asks, Waits, Announces, Uploads
    <3>3. queue[h] = <<>> /\ pos[h] = 0 /\ Held = 0
      BY <3>2 DEF Begins
    <3>4. Size(h)' = Size(h) /\ InitOf(h)' = InitOf(h)
      BY <1>1 DEF Size, InitOf
    <3>5. CASE chan'[h] = "closed" /\ queue'[h] = <<>>
      BY <1>0, <2>1, <3>1, <3>2, <3>3, <3>4, <3>5 DEF Stand, Uploads, Follows
    <3>6. CASE chan'[h] = "open" /\ Len(queue'[h]) = 1 /\ queue'[h][1] = InitOf(h)
      <4>1. Follows(h, 1)'
        BY <1>0, <2>1, <3>1, <3>3, <3>4, <3>6 DEF Follows
      <4>2. Announces(h)'
        BY <2>1, <3>1, <3>3, <3>4, <3>6, <4>1 DEF Announces
      <4> QED
        BY <3>1, <3>2, <4>2 DEF Stand
    <3> QED
      BY <3>1, <3>3, <3>5, <3>6
  <2> QED
    BY <1>3, <1>4, <2>1, <2>2
<1>6. CASE SendsQuery(h)
  <2>1. /\ plan[h] = "ask" /\ plan'[h] = "wait"
        /\ QueryOf(h) \in Inbox /\ Receive(h, QueryOf(h))
    BY <1>0, <1>6, FrontendSends DEF SendsQuery, Then, QueryOf
  <2>2. ASSUME Stand(h) PROVE Stand(h)'
    <3>1. /\ UNCHANGED <<writer, eofSeen, resumed>> /\ chan[h] = "open"
          /\ queue'[h] \in {queue[h], Append(queue[h], QueryOf(h))}
      BY <1>1, <2>1, Receives
    <3>2. ~eofSeen[h] /\ writer[h].phase = "absent" /\ Asks(h)
      BY <2>1, <2>2, <3>1 DEF Stand, Ended, Waits, Begins, Announces, Uploads
    <3>3. queue[h] = <<>> /\ resumed[h] = NoReply /\ QueryOf(h)' = QueryOf(h)
      BY <1>1, <3>2 DEF Asks, QueryOf
    <3>4. Append(<<>>, QueryOf(h)) = <<QueryOf(h)>>
      OBVIOUS
    <3>5. Waits(h)'
      BY <2>1, <3>1, <3>3, <3>4 DEF Waits
    <3> QED
      BY <3>1, <3>2, <3>5 DEF Stand
  <2> QED
    BY <1>3, <1>4, <2>1, <2>2
<1>7. CASE HearsOffset(h)
  <2>1. /\ plan[h] = "wait" /\ resumed[h] # NoReply /\ UNCHANGED vars
        /\ plan'[h] = IF resumed[h] = 0 THEN "init" ELSE "send"
        /\ pos'[h] = resumed[h]
    BY <1>0, <1>7 DEF HearsOffset, Then
  <2>2. UNCHANGED <<data, used, partialEnt, finalEnt, sidecar, writer, input, task, queue,
                    eofSeen, resumed, chan, consumer>>
    BY <2>1 DEF vars, disk, files, link, consuming, pipeline, told
  <2>3. FilesFit' /\ Held' = Held /\ Gets(h)' /\ Size(h)' = Size(h)
    BY <1>0, <1>1, <2>2, FilesStay, QuietGets DEF Size
  <2>4. ASSUME Stand(h) PROVE Stand(h)'
    <3>1. CASE eofSeen[h]
      <4>1. Ended(h)
        BY <2>4, <3>1 DEF Stand
      <4>2. Ended(h)'
        BY <2>1, <2>2, <4>1 DEF Ended
      <4> QED
        BY <2>2, <3>1, <4>2 DEF Stand
    <3>2. CASE ~eofSeen[h]
      <4>1. writer[h].phase = "absent" /\ Waits(h)
        BY <2>1, <2>4, <3>2 DEF Stand, Asks, Begins, Announces, Uploads
      <4>2. resumed[h] = Held /\ queue[h] = <<>> /\ (Held > 0 => sidecar = src[h])
        BY <2>1, <4>1 DEF Waits
      <4>3. CASE Held = 0
        <5>1. Begins(h)'
          BY <2>1, <2>2, <2>3, <4>2, <4>3 DEF Begins
        <5> QED
          BY <2>2, <3>2, <4>1, <5>1 DEF Stand
      <4>4. CASE Held > 0
        <5>1. sidecar = src[h] /\ Held <= Len(Source[sidecar])
          BY <4>2, <4>4, HeldFits DEF Known
        <5>2. Held <= Size(h)
          BY <5>1 DEF Size
        <5>3. Follows(h, 0)'
          BY <1>0, <2>1, <2>2, <2>3, <4>2, <4>4, <5>2 DEF Follows
        <5>4. Uploads(h)'
          BY <1>1, <2>1, <2>2, <4>2, <4>4, <5>1, <5>3 DEF Uploads
        <5> QED
          BY <2>2, <3>2, <4>1, <5>4 DEF Stand
      <4> QED
        BY <1>0, <4>3, <4>4
    <3> QED
      BY <3>1, <3>2
  <2>5. Course(h)'
    BY <1>0, <1>4, <2>1, <2>2, <2>4 DEF Course
  <2> QED
    BY <2>3, <2>5 DEF Reached
<1>8. ASSUME plan[h] = "send", chan[h] = "open", Stand(h) PROVE pos[h] <= Size(h)
  <2>1. Follows(h, 0) \/ Follows(h, 1)
    BY <1>8 DEF Stand, Ended, Asks, Waits, Begins, Announces, Uploads
  <2> QED
    BY <1>8, <2>1 DEF Follows
<1>9. CASE SendsByte(h)
  <2> DEFINE m == [kind |-> "chunk", bytes |-> <<Source[src[h]][pos[h] + 1]>>]
  <2>1. /\ plan[h] = "send" /\ plan' = [plan EXCEPT ![h] = plan'[h]] /\ plan'[h] = "send"
        /\ pos[h] < Size(h) /\ pos'[h] = pos[h] + 1 /\ Receive(h, m) /\ chan[h] = "open"
    BY <1>0, <1>9 DEF SendsByte, Then, Size, Receive
  <2>2. pos[h] + 1 \in 1..Len(Source[src[h]])
    BY <1>0, <2>1 DEF Size
  <2>3. m \in Inbox /\ m = Item(src[h], pos[h] + 1)
    <3>1. m \in Inbox
      BY <1>0, <2>2, FrontendSends
    <3>2. pos[h] + 1 <= Len(Source[src[h]])
      BY <2>2
    <3> QED
      BY <3>1, <3>2 DEF Item
  <2> HIDE DEF m
  <2>4. pos[h] <= Size(h)
    BY <1>0, <2>1
  <2>5. Stand(h) => Stand(h)'
    BY <1>1, <2>1, <2>3, <2>4, Continued
  <2> QED
    BY <1>3, <1>4, <2>1, <2>3, <2>5
<1>10. CASE SendsEof(h)
  <2> DEFINE m == [kind |-> "audio_eof"]
  <2>1. /\ plan[h] = "send" /\ plan' = [plan EXCEPT ![h] = plan'[h]] /\ plan'[h] = "over"
        /\ pos[h] >= Size(h) /\ Receive(h, m) /\ chan[h] = "open"
    BY <1>0, <1>10 DEF SendsEof, Then, Size, Receive
  <2>2. m \in Inbox /\ m = Item(src[h], pos[h] + 1)
    <3>1. m \in Inbox
      BY <1>0, FrontendSends
    <3>2. ~(pos[h] + 1 <= Len(Source[src[h]]))
      BY <1>0, <2>1 DEF Size
    <3> QED
      BY <3>1, <3>2 DEF Item
  <2> HIDE DEF m
  <2>3. Stand(h) => Stand(h)'
    BY <1>1, <1>8, <2>1, <2>2, Continued
  <2> QED
    BY <1>3, <1>4, <2>1, <2>2, <2>3
<1> QED
  BY <1>2, <1>5, <1>6, <1>7, <1>9, <1>10 DEF Frontend

-------------------------------------------------------------------------------
(***************************************************************************)
(* The steps of a handler.                                                 *)
(***************************************************************************)

\* A writer with nothing left to write closes its file as it is.
LEMMA ClosesAsIs ==
  ASSUME NEW h \in Handlers, writer[h].buf = <<>>, PF!CloseFlushes(h)
  PROVE  UNCHANGED <<data, owing>>
<1>1. Len(<<>>) = 0
  OBVIOUS
<1> QED
  BY <1>1 DEF PF!CloseFlushes, PF!Spill

\* One message less is queued.
LEMMA Takes ==
  ASSUME NEW h \in Handlers, Known(h), NEW kind, Consume(h, kind)
  PROVE  /\ consumer[h] = "ready" /\ queue[h] # <<>> /\ queue[h] \in Seq(Messages)
         /\ Head(queue[h]).kind = kind
         /\ queue'[h] = Tail(queue[h]) /\ Len(queue[h]) \in Nat \ {0}
         /\ Len(queue'[h]) = Len(queue[h]) - 1 /\ queue'[h] \in Seq(Messages)
         /\ \A k \in 1..Len(queue[h]) - 1 : queue'[h][k] = queue[h][k + 1]
         /\ chan[h] # "new"
<1>1. /\ queue \in [Handlers -> Seq(Messages)] /\ consumer[h] = "ready" /\ queue[h] # <<>>
      /\ Head(queue[h]).kind = kind /\ queue' = [queue EXCEPT ![h] = Tail(queue[h])]
  BY DEF Known, ControlTyped, Consume
<1>2. chan[h] # "new"
  BY <1>1 DEF Known, Fresh
<1>3. queue[h] \in Seq(Messages) /\ queue'[h] = Tail(queue[h])
  BY <1>1
<1> QED
  BY <1>1, <1>2, <1>3, TailOf

LEMMA OneFurther ==
  ASSUME NEW before \in Nat, NEW after \in Nat, NEW n \in Nat \ {0}, NEW first \in {0, 1},
         after = before + 1 - first
  PROVE  /\ after + (n - 1) - 0 = before + n - first
         /\ \A k \in 1..n - 1 :
              k + 1 \in 1..n /\ k + 1 > first /\ after + k - 0 = before + (k + 1) - first
  OBVIOUS

\* The rest of an upload, when the bytes in .partial have grown by what was taken.
LEMMA FollowsOn ==
  ASSUME NEW h \in Handlers, Known(h), NEW kind, Consume(h, kind), UNCHANGED <<frontend, chan>>,
         NEW first \in {0, 1}, Follows(h, first), Held' \in Nat, Held' = Held + 1 - first
  PROVE  Follows(h, 0)'
<1> DEFINE n == Len(queue[h])
<1>1. /\ n \in Nat \ {0} /\ Len(queue'[h]) = n - 1
      /\ \A k \in 1..n - 1 : queue'[h][k] = queue[h][k + 1]
  BY Takes
<1>2. /\ Held \in Nat /\ Size(h) \in Nat /\ Size(h)' = Size(h)
      /\ src'[h] = src[h] /\ plan'[h] = plan[h] /\ pos'[h] = pos[h] /\ chan'[h] = chan[h]
  BY HeldFits, SourceOf DEF Known, FrontendTyped, Size, frontend
<1>3. /\ Held' + (n - 1) - 0 = Held + n - first
      /\ \A k \in 1..n - 1 :
           k + 1 \in 1..n /\ k + 1 > first /\ Held' + k - 0 = Held + (k + 1) - first
  <2>1. n \in Nat \ {0} /\ Held \in Nat
    BY <1>1, <1>2
  <2> HIDE DEF n
  <2> QED
    BY <2>1, OneFurther
<1>4. ASSUME NEW k \in 1..n - 1, k > 0 PROVE queue'[h][k] = Item(src[h], Held' + k - 0)
  <2>1. k + 1 \in 1..n /\ k + 1 > first /\ Held' + k - 0 = Held + (k + 1) - first
    BY <1>3
  <2>2. queue[h][k + 1] = Item(src[h], Held + (k + 1) - first)
    BY <2>1 DEF Follows
  <2> QED
    BY <1>1, <1>4, <2>1, <2>2
<1>5. /\ Held + n - first <= Size(h) + 1
      /\ chan[h] = "open" /\ plan[h] = "send" =>
           pos[h] = Held + n - first /\ Held + n - first <= Size(h)
      /\ chan[h] = "open" /\ plan[h] = "over" => Held + n - first = Size(h) + 1
  BY DEF Follows
<1>6. 0 <= n - 1
  BY <1>1
<1> HIDE DEF n
<1> QED
  BY <1>1, <1>2, <1>3, <1>4, <1>5, <1>6 DEF Follows

\* A step of a handler that still consumes, but starts no pipeline.
LEMMA StillConsumes ==
  ASSUME NEW h \in Handlers, Known(h), consumer[h] = "ready", UNCHANGED <<frontend, chan>>,
         Stand(h)'
  PROVE  Course(h)'
<1>1. chan[h] # "new" /\ plan'[h] = plan[h]
  BY DEF Known, Fresh, frontend
<1> QED
  BY <1>1 DEF Known, Course

LEMMA JobInitReaches ==
  ASSUME NEW h \in Handlers, Known(h), HandleJobInit(h), UNCHANGED frontend
  PROVE  Reached(h)
<1>0. /\ src' = src /\ plan' = plan /\ pos' = pos /\ src[h] \in Shas
  BY DEF frontend, Known, FrontendTyped
<1>1. /\ Consume(h, "job_init") /\ sidecar' = Head(queue[h]).sha
      /\ UNCHANGED <<data, used, partialEnt, finalEnt, writer, chan, consumer, eofSeen, input,
                     task, resumed>>
  BY DEF HandleJobInit, files, link, pipeline, told
<1>2. consumer[h] = "ready" /\ queue[h] # <<>> /\ Head(queue[h]).kind = "job_init"
  BY <1>1, Takes
<1>3. ~eofSeen[h] /\ writer[h].phase = "absent" /\ Announces(h) /\ Head(queue[h]) = InitOf(h)
  <2>1. QueryOf(h).kind = "resume_query"
    BY DEF QueryOf
  <2> QED
    BY <1>2, <2>1, AtHead DEF Known
<1>4. sidecar' = src[h] /\ Held' = Held /\ Held = 0
  BY <1>1, <1>3 DEF Announces, InitOf, Held, PF!PartialSize
<1>5. FilesFit'
  <2>1. partialEnt # NoInode => Len(data[partialEnt]) = 0
    BY <1>4 DEF Held, PF!PartialSize
  <2>2. Len(Source[src[h]]) \in Nat
    BY <1>0, SourceOf
  <2>3. PartialIsPrefix'
    BY <1>1, <1>4, <2>1, <2>2 DEF PartialIsPrefix
  <2> QED
    BY <1>0, <1>1, <1>4, <2>3 DEF Known, FilesFit
<1>6. Follows(h, 0)'
  <2>1. Follows(h, 1)
    BY <1>3 DEF Announces
  <2> QED
    BY <1>1, <1>4, <2>1, FollowsOn
<1>7. Stand(h)'
  BY <1>0, <1>1, <1>3, <1>4, <1>6 DEF Stand, Uploads, Announces
<1>8. Gets(h)'
  BY <1>0, <1>1, QuietGets DEF Known
<1> QED
  BY <1>1, <1>2, <1>5, <1>7, <1>8, StillConsumes DEF Reached

LEMMA ResumeReaches ==
  ASSUME NEW h \in Handlers, Known(h), HandleResumeAccept(h) \/ HandleResumeRefuse(h),
         UNCHANGED frontend
  PROVE  Reached(h)
<1>0. /\ src' = src /\ plan' = plan /\ pos' = pos /\ src[h] \in Shas /\ Held \in Nat
      /\ FilesFit /\ resumed \in [Handlers -> Nat \cup {NoReply}]
      /\ writer \in [Handlers -> PF!WriterState]
  BY HeldFits DEF frontend, Known, FrontendTyped, ControlTyped, PF!TypeOK
<1>1. /\ Consume(h, "resume_query")
      /\ UNCHANGED <<data, used, finalEnt, chan, consumer, eofSeen, input, task>>
  <2>1. CASE HandleResumeAccept(h)
    BY <2>1 DEF HandleResumeAccept, files, disk, link, pipeline
  <2>2. CASE HandleResumeRefuse(h)
    BY <2>2, ClosesAsIs DEF HandleResumeRefuse, Refuses, Known, link, pipeline
  <2> QED
    BY <2>1, <2>2
<1>2. consumer[h] = "ready" /\ queue[h] # <<>> /\ Head(queue[h]).kind = "resume_query"
  BY <1>1, Takes
<1>3. /\ ~eofSeen[h] /\ writer[h].phase = "absent" /\ Waits(h) /\ resumed[h] = NoReply
      /\ queue[h] = <<QueryOf(h)>> /\ Head(queue[h]) = QueryOf(h)
  <2>1. InitOf(h).kind = "job_init"
    BY DEF InitOf
  <2> QED
    BY <1>2, <2>1, AtHead DEF Known
<1>4. queue'[h] = <<>>
  <2>1. queue'[h] = Tail(<<QueryOf(h)>>)
    BY <1>1, <1>3, Takes
  <2> QED
    BY <2>1
<1>5. Gets(h)'
  BY <1>0, <1>1, QuietGets DEF Known
<1>6. ASSUME writer'[h].phase = "absent", resumed'[h] \in {NoReply, Held'},
             Held' > 0 => sidecar' = src[h]
      PROVE  Course(h)'
  <2>1. Waits(h)'
    BY <1>0, <1>3, <1>4, <1>6 DEF Waits
  <2>2. Stand(h)'
    BY <1>1, <1>3, <1>6, <2>1 DEF Stand
  <2> QED
    BY <1>1, <1>2, <2>2, StillConsumes
<1>7. CASE HandleResumeAccept(h)
  <2>1. UNCHANGED <<partialEnt, sidecar, writer>> /\ resumed'[h] \in {NoReply, Held}
    BY <1>0, <1>3, <1>7 DEF HandleResumeAccept, SendResumeState, files, disk, Held
  <2>2. FilesFit' /\ Held' = Held
    BY <1>0, <1>1, <2>1, FilesStay
  <2>3. ASSUME Held > 0 PROVE sidecar = src[h]
    <3>1. sidecar \in Shas
      BY <2>3, HeldFits DEF Known
    <3>2. Matches(src[h])
      BY <1>3, <1>7 DEF HandleResumeAccept, QueryOf
    <3> QED
      BY <3>1, <3>2, ShasAssumption DEF Matches, Stored
  <2> QED
    BY <1>3, <1>5, <1>6, <2>1, <2>2, <2>3 DEF Reached
<1>8. CASE HandleResumeRefuse(h)
  <2>1. /\ partialEnt' = NoInode /\ writer' = [writer EXCEPT ![h] = PF!NoWriter]
        /\ resumed'[h] \in {NoReply, 0}
    BY <1>0, <1>3, <1>8 DEF HandleResumeRefuse, SendResumeState, PF!UnlinkPartial
  <2>2. FilesFit' /\ Held' = 0
    BY <1>0, <1>1, <2>1 DEF FilesFit, PartialIsPrefix, Held, PF!PartialSize
  <2>3. writer'[h].phase = "absent"
    BY <1>0, <2>1, NoWriterTidy
  <2> QED
    BY <1>5, <1>6, <2>1, <2>2, <2>3 DEF Reached
<1> QED
  BY <1>7, <1>8

\* A .partial, or a fresh file that becomes it, grows by the next byte of its source.
LEMMA PartialGrows ==
  ASSUME PF!TypeOK, FilesFit, NEW i \in Inodes, NEW b \in Byte,
         data' = [data EXCEPT ![i] = data[i] \o <<b>>], data' \in [Inodes -> Seq(Byte)],
         partialEnt' = i, used' = used \cup {i},
         partialEnt = i \/ (partialEnt = NoInode /\ i \notin used),
         UNCHANGED <<finalEnt, sidecar>>,
         sidecar \in Shas, Held < Len(Source[sidecar]), b = Source[sidecar][Held + 1]
  PROVE  /\ FilesFit' /\ Held' = Held + 1
         /\ finalEnt # NoInode => data'[finalEnt] = data[finalEnt]
<1>1. /\ Held \in Nat /\ Len(Source[sidecar]) \in Nat
      /\ data[i] \in Seq(Byte) /\ Len(data[i]) = Held
      /\ \A n \in 1..Held : data[i][n] = Source[sidecar][n]
  <2>1. Held \in Nat /\ Len(Source[sidecar]) \in Nat /\ data[i] \in Seq(Byte)
    BY HeldFits, SourceOf DEF PF!TypeOK
  <2>2. CASE partialEnt = i
    <3>1. partialEnt # NoInode
      BY <2>2, HandlerInodeAssumption
    <3> QED
      BY <2>1, <2>2, <3>1, HeldFits
  <2>3. CASE partialEnt = NoInode /\ i \notin used
    <3>1. data[i] = <<>> /\ Held = 0
      BY <2>3, HeldFits DEF FilesFit
    <3> QED
      BY <2>1, <3>1
  <2> QED
    BY <2>1, <2>2, <2>3
<1>2. data'[i] = data[i] \o <<b>> /\ \A j \in Inodes \ {i} : data'[j] = data[j]
  BY DEF PF!TypeOK
<1>3. /\ Len(data'[i]) = Held + 1 /\ data'[i][Held + 1] = b
      /\ \A n \in 1..Held : data'[i][n] = data[i][n]
  <2>1. data'[i] = Append(data[i], b)
    BY <1>1, <1>2, AppendIsConcat
  <2>2. /\ Len(Append(data[i], b)) = Len(data[i]) + 1
        /\ \A n \in 1..Len(data[i]) : Append(data[i], b)[n] = data[i][n]
        /\ Append(data[i], b)[Len(data[i]) + 1] = b
    BY <1>1, AppendProperties
  <2> QED
    BY <1>1, <2>1, <2>2
<1>4. Held' = Held + 1
  <2>1. i # NoInode
    BY HandlerInodeAssumption
  <2> QED
    BY <1>3, <2>1 DEF Held, PF!PartialSize
<1>5. PartialIsPrefix'
  <2>1. Held + 1 <= Len(Source[sidecar])
    BY <1>1
  <2>2. \A n \in 1..Held + 1 : data'[i][n] = Source[sidecar][n]
    BY <1>1, <1>3
  <2> QED
    BY <1>3, <2>1, <2>2 DEF PartialIsPrefix
<1>6. finalEnt # NoInode => finalEnt \in used /\ finalEnt # i
  BY HandlerInodeAssumption DEF FilesFit
<1>7. FilesFit'
  <2>1. used' = used \cup {i} /\ \A j \in Inodes \ used' : data'[j] = <<>>
    BY <1>2 DEF FilesFit
  <2> QED
    BY <1>5, <1>6, <2>1 DEF FilesFit
<1>8. finalEnt # NoInode => finalEnt \in Inodes
  BY DEF PF!TypeOK
<1> QED
  BY <1>2, <1>4, <1>6, <1>7, <1>8

LEMMA ChunkReaches ==
  ASSUME NEW h \in Handlers, Known(h), HandleChunk(h), UNCHANGED frontend
  PROVE  Reached(h)
<1> DEFINE bytes == Head(queue[h]).bytes
<1>0. /\ src' = src /\ plan' = plan /\ pos' = pos /\ src[h] \in Shas
      /\ PF!TypeOK /\ FilesFit /\ ControlTyped /\ Held \in Nat
      /\ Source[src[h]] \in Seq(Byte) /\ Len(Source[src[h]]) \in Nat
      /\ Typed /\ HandleChunk(h)
  BY HeldFits, SourceOf DEF frontend, Known, FrontendTyped
<1>1. /\ Consume(h, "chunk")
      /\ UNCHANGED <<finalEnt, sidecar, chan, consumer, eofSeen, input, task, resumed>>
  BY DEF HandleChunk, link, pipeline, told
<1>2. /\ consumer[h] = "ready" /\ queue[h] # <<>> /\ Head(queue[h]).kind = "chunk"
  BY <1>1, Takes
<1>3. ~eofSeen[h] /\ writer[h].phase \in {"absent", "open"} /\ Uploads(h)
  <2>1. QueryOf(h).kind = "resume_query" /\ InitOf(h).kind = "job_init"
    BY DEF QueryOf, InitOf
  <2> QED
    BY <1>2, <2>1, AtHead DEF Known
<1>4. /\ sidecar = src[h] /\ Held < Size(h) /\ Held < Len(Source[sidecar])
      /\ bytes = <<Source[sidecar][Held + 1]>>
  BY <1>0, <1>2, <1>3, NextItem DEF Known, Size
<1>5. bytes \in Chunks /\ Source[sidecar][Held + 1] \in Byte
  <2>1. bytes \in Chunks
    BY <1>0, <1>1, <1>2, Consumed, MessageFields
  <2>2. Held + 1 \in 1..Len(Source[sidecar])
    BY <1>0, <1>4
  <2> QED
    BY <1>0, <1>4, <2>1, <2>2
<1>6. ASSUME NEW st, Calls(h, st, bytes), PF!AppendChunk(h, st, bytes), st.buf = <<>>,
             st.ino \in Inodes, partialEnt' = st.ino, used' = used \cup {st.ino},
             partialEnt = st.ino \/ (partialEnt = NoInode /\ st.ino \notin used)
      PROVE  Reached(h)
  <2>1. /\ data' = [data EXCEPT ![st.ino] = data[st.ino] \o (<<>> \o bytes)]
        /\ writer'[h].phase = "open"
    <3>1. data' = [data EXCEPT ![st.ino] = data[st.ino] \o (st.buf \o bytes)]
      BY <1>0, <1>6 DEF PF!AppendChunk, PF!TypeOK
    <3>2. writer'[h].phase = "open"
      BY <1>0, <1>5, <1>6, CallWrites
    <3> QED
      BY <1>6, <3>1, <3>2
  <2>2. /\ data' = [data EXCEPT ![st.ino] = data[st.ino] \o <<Source[sidecar][Held + 1]>>]
        /\ data' \in [Inodes -> Seq(Byte)] /\ writer'[h].phase = "open"
    <3>1. <<>> \o bytes = <<Source[sidecar][Held + 1]>>
      BY <1>4, <1>5
    <3>2. data' \in [Inodes -> Seq(Byte)]
      <4>1. data \in [Inodes -> Seq(Byte)] /\ data[st.ino] \in Seq(Byte)
        BY <1>0, <1>6 DEF PF!TypeOK
      <4>2. data[st.ino] \o <<Source[sidecar][Held + 1]>> \in Seq(Byte)
        BY <1>5, <4>1
      <4> QED
        BY <2>1, <3>1, <4>1, <4>2
    <3> QED
      BY <2>1, <3>1, <3>2
  <2>3. /\ FilesFit' /\ Held' = Held + 1
        /\ finalEnt # NoInode => data'[finalEnt] = data[finalEnt]
    BY <1>0, <1>1, <1>4, <1>5, <1>6, <2>2, PartialGrows
  <2>4. Follows(h, 0)'
    <3>1. Follows(h, 0)
      BY <1>3 DEF Uploads
    <3>2. Held' \in Nat /\ Held' = Held + 1 - 0
      BY <1>0, <2>3
    <3> QED
      BY <1>1, <3>1, <3>2, FollowsOn
  <2>5. Stand(h)'
    BY <1>0, <1>1, <1>3, <1>4, <2>2, <2>4 DEF Stand, Uploads
  <2>6. Gets(h)'
    BY <1>0, <1>1, <2>3 DEF Known, Gets
  <2> QED
    BY <1>1, <1>2, <2>3, <2>5, <2>6, StillConsumes DEF Reached
<1>7. CASE writer[h].phase = "absent"
  <2>1. PICK i \in PF!OpenTargets :
               PF!LinkPartial(i) /\ PF!AppendChunk(h, PF!OpenedOn(i), bytes)
    BY <1>7 DEF HandleChunk
  <2>2. /\ i \in Inodes /\ partialEnt' = i /\ used' = used \cup {i}
        /\ partialEnt = i \/ (partialEnt = NoInode /\ i \notin used)
    BY <1>0, <2>1 DEF PF!OpenTargets, PF!LinkPartial, PF!TypeOK
  <2>3. PF!OpenedOn(i).ino = i /\ PF!OpenedOn(i).buf = <<>>
    BY DEF PF!OpenedOn
  <2>4. Calls(h, PF!OpenedOn(i), bytes)
    BY <1>1, <2>1 DEF Calls
  <2> QED
    BY <1>6, <2>1, <2>2, <2>3, <2>4
<1>8. CASE writer[h].phase = "open"
  <2>1. PF!AppendChunk(h, writer[h], bytes) /\ UNCHANGED <<used, partialEnt>>
    BY <1>8 DEF HandleChunk
  <2>2. writer[h].ino = partialEnt /\ writer[h].ino \in Inodes /\ writer[h].buf = <<>>
    <3>1. writer[h].ino \in Inodes
      BY <1>0, <1>8, TypedFiles DEF PFP!Stands
    <3> QED
      BY <1>2, <1>8, <3>1 DEF Known, Placed
  <2>3. writer[h].ino \in used
    BY <1>0, <2>2, HandlerInodeAssumption DEF FilesFit
  <2>4. used' = used \cup {writer[h].ino} /\ partialEnt' = writer[h].ino
    BY <2>1, <2>2, <2>3
  <2>5. Calls(h, writer[h], bytes)
    BY <1>1, <1>8, <2>1 DEF Calls
  <2> QED
    BY <1>6, <2>1, <2>2, <2>4, <2>5
<1> QED
  BY <1>3, <1>7, <1>8

LEMMA SameSequence ==
  ASSUME NEW S, NEW s \in Seq(S), NEW t \in Seq(S), Len(s) = Len(t),
         \A n \in 1..Len(s) : s[n] = t[n]
  PROVE  s = t
  OBVIOUS

LEMMA OneLeft ==
  ASSUME NEW held \in Nat, NEW size \in Nat, NEW n \in Nat \ {0}, ~(held < size),
         held + n <= size + 1
  PROVE  held = size /\ n = 1
  OBVIOUS

LEMMA EofReaches ==
  ASSUME NEW h \in Handlers, Known(h), HandleEof(h), UNCHANGED frontend
  PROVE  Reached(h)
<1>0. /\ src' = src /\ plan' = plan /\ pos' = pos /\ src[h] \in Shas
      /\ PF!TypeOK /\ FilesFit /\ Held \in Nat /\ Size(h) \in Nat
      /\ chan[h] \in {"new", "open", "closed"}
      /\ eofSeen \in [Handlers -> BOOLEAN]
      /\ consumer \in [Handlers -> {"none", "ready", "emit", "stopped"}]
  BY HeldFits, SourceOf DEF frontend, Known, FrontendTyped, ControlTyped, Size
<1>1. /\ Consume(h, "audio_eof")
      /\ UNCHANGED <<data, used, sidecar, chan, input, task, resumed>>
      /\ eofSeen'[h]
  <2>1. /\ Consume(h, "audio_eof") /\ Finalizes(h) /\ "full" \notin Faults
        /\ UNCHANGED <<used, sidecar, chan, input, task, resumed>>
        /\ eofSeen'[h]
    BY <1>0 DEF HandleEof, Known, TurnTaking, link, pipeline
  <2>2. data' = data
    BY <2>1, ClosesAsIs DEF Known, Finalizes, EofWithoutWriter, EofOnEmpty,
       EofCloseRaises, EofOnMissing, EofOnAudio
  <2> QED
    BY <2>1, <2>2
<1>2. /\ consumer[h] = "ready" /\ queue[h] # <<>> /\ Head(queue[h]).kind = "audio_eof"
      /\ Len(queue[h]) \in Nat \ {0} /\ chan[h] # "new"
      /\ Len(queue'[h]) = Len(queue[h]) - 1 /\ queue'[h] \in Seq(Messages)
  BY <1>1, Takes
<1>3. ~eofSeen[h] /\ Uploads(h)
  <2>1. QueryOf(h).kind = "resume_query" /\ InitOf(h).kind = "job_init"
    BY DEF QueryOf, InitOf
  <2> QED
    BY <1>2, <2>1, AtHead DEF Known
<1>4. sidecar = src[h] /\ ~(Held < Size(h)) /\ Held + Len(queue[h]) <= Size(h) + 1
  BY <1>2, <1>3, NextItem DEF Known
<1>5. Held = Size(h) /\ Len(queue[h]) = 1
  <2>1. Held \in Nat /\ Size(h) \in Nat /\ Len(queue[h]) \in Nat \ {0}
    BY <1>0, <1>2
  <2> QED
    BY <1>4, <2>1, OneLeft
<1>6. Ended(h)'
  <2>1. queue'[h] = <<>>
    <3>1. Len(queue'[h]) = 0
      BY <1>2, <1>5
    <3> QED
      BY <1>2, <3>1, EmptySeq
  <2>2. plan[h] \in {"send", "over"} /\ Follows(h, 0)
    BY <1>3 DEF Uploads
  <2>3. chan[h] = "open" /\ plan[h] = "send" => Held + Len(queue[h]) - 0 <= Size(h)
    BY <2>2 DEF Follows
  <2>4. plan[h] = "over" \/ chan[h] = "closed"
    BY <1>0, <1>2, <1>5, <2>2, <2>3
  <2> QED
    BY <1>0, <1>1, <2>1, <2>4 DEF Ended
<1>7. Course(h)'
  <2>1. Stand(h)'
    BY <1>1, <1>6 DEF Stand
  <2> QED
    BY <1>0, <1>1, <1>2, <2>1 DEF Known, Course
<1>8. CASE EofWithoutWriter(h) \/ EofOnEmpty(h) \/ EofOnMissing(h)
  <2>1. /\ UNCHANGED <<finalEnt, consumer>> /\ partialEnt' \in {partialEnt, NoInode}
    BY <1>8 DEF EofWithoutWriter, EofOnEmpty, EofOnMissing, PF!UnlinkPartial
  <2>2. FilesFit'
    BY <1>0, <1>1, <2>1 DEF FilesFit, PartialIsPrefix
  <2>3. Gets(h)'
    BY <1>0, <1>1, <1>2, <2>1, QuietGets DEF Known
  <2> QED
    BY <1>7, <2>2, <2>3 DEF Reached
<1>9. CASE EofOnAudio(h)
  <2>1. /\ partialEnt # NoInode /\ partialEnt' = NoInode /\ finalEnt' = partialEnt
    BY <1>9 DEF EofOnAudio, PF!RenameToFinal
  <2>2. FilesFit'
    BY <1>0, <1>1, <2>1 DEF FilesFit, PartialIsPrefix
  <2>3. data[partialEnt] = Source[src[h]]
    <3>1. /\ data[partialEnt] \in Seq(Byte) /\ Len(data[partialEnt]) = Held
          /\ \A n \in 1..Held : data[partialEnt][n] = Source[src[h]][n]
      BY <1>0, <1>4, <2>1, HeldFits
    <3>2. Source[src[h]] \in Seq(Byte) /\ Len(Source[src[h]]) = Held
      BY <1>0, <1>5, SourceOf DEF Size
    <3> QED
      BY <3>1, <3>2, SameSequence
  <2>4. Gets(h)'
    BY <1>0, <1>1, <2>1, <2>3 DEF Known, Gets
  <2> QED
    BY <1>7, <2>2, <2>4 DEF Reached
<1> QED
  BY <1>8, <1>9 DEF HandleEof, Finalizes, EofCloseRaises, Known, TurnTaking

LEMMA KickReaches ==
  ASSUME NEW h \in Handlers, Known(h), KickPipeline(h), UNCHANGED frontend
  PROVE  Reached(h)
<1>1. /\ consumer[h] = "emit" /\ consumer'[h] = "ready"
      /\ UNCHANGED <<data, used, partialEnt, finalEnt, sidecar, writer, chan, queue, eofSeen,
                     input, resumed, src, plan, pos>>
  BY DEF KickPipeline, Known, ControlTyped, disk, files, link, told, frontend
<1>2. eofSeen[h] /\ Ended(h) /\ chan[h] # "new"
  BY <1>1 DEF Known, Stage, Course, Stand
<1>3. FilesFit'
  BY <1>1, FilesStay DEF Known
<1>4. Course(h)'
  <2>1. Stand(h)'
    BY <1>1, <1>2 DEF Stand, Ended
  <2> QED
    BY <1>1, <1>2, <2>1 DEF Known, Course
<1>5. Gets(h)'
  BY <1>1 DEF Known, Gets
<1> QED
  BY <1>3, <1>4, <1>5 DEF Reached

LEMMA PipelineReaches ==
  ASSUME NEW h \in Handlers, Known(h), PipelineStep(h), UNCHANGED frontend
  PROVE  Reached(h)
<1>0. /\ src' = src /\ plan' = plan /\ FilesFit /\ Gets(h)
      /\ task \in [Handlers -> Active \cup {"none", "ended"}]
      /\ input \in [Handlers -> Seq(Byte)]
  BY DEF frontend, Known, ControlTyped
<1>1. /\ task[h] \in Active
      /\ UNCHANGED <<data, used, chan, queue, consumer, eofSeen, resumed>>
  <2>1. CASE PipelineCleans(h)
    BY <2>1, ClosesAsIs DEF Known, PipelineCleans, At, Active, link, consuming, told
  <2>2. CASE ~PipelineCleans(h)
    BY <2>2 DEF PipelineStep, PipelineTooLarge, PipelineLoads, PipelineReads,
       PipelineSucceeds, PipelineFails, PipelineCleansRaises, Known, TurnTaking, At, Active,
       disk, files, link, consuming, told
  <2> QED
    BY <2>1, <2>2
<1>2. eofSeen[h] /\ consumer[h] # "emit" /\ chan[h] # "new"
  BY <1>1 DEF Known, Stage, Fresh, Active
<1>3. Course(h)'
  <2>1. consumer[h] = "ready" => Ended(h)
    BY <1>2 DEF Known, Course, Stand
  <2>2. consumer'[h] \in {"ready", "emit"} => Stand(h)'
    BY <1>0, <1>1, <1>2, <2>1 DEF Stand, Ended
  <2> QED
    BY <1>0, <1>1, <1>2, <2>2 DEF Known, Course
<1>4. ASSUME UNCHANGED <<partialEnt, finalEnt, sidecar>> PROVE FilesFit'
  BY <1>0, <1>1, <1>4, FilesStay
<1>5. CASE PipelineTooLarge(h) \/ PipelineCleans(h)
  <2>1. /\ finalEnt' = NoInode /\ input' = input
        /\ partialEnt' = NoInode \/ UNCHANGED <<partialEnt, sidecar>>
    BY <1>5 DEF PipelineTooLarge, PipelineCleans, PF!UnlinkPartial
  <2>2. FilesFit'
    <3>1. CASE partialEnt' = NoInode
      BY <1>0, <1>1, <2>1, <3>1 DEF FilesFit, PartialIsPrefix
    <3>2. CASE partialEnt' # NoInode /\ UNCHANGED <<partialEnt, sidecar>>
      BY <1>0, <1>1, <2>1, <3>2 DEF FilesFit, PartialIsPrefix
    <3> QED
      BY <2>1, <3>1, <3>2
  <2>3. Gets(h)'
    BY <1>0, <2>1 DEF Gets
  <2> QED
    BY <1>3, <2>2, <2>3 DEF Reached
<1>6. CASE PipelineLoads(h)
  <2>1. task[h] = "started" /\ UNCHANGED <<partialEnt, finalEnt, sidecar, input>>
    BY <1>6 DEF PipelineLoads, At, disk, files
  <2> QED
    BY <1>0, <1>1, <1>3, <1>4, <2>1, QuietGets DEF Reached
<1>7. CASE PipelineReads(h)
  <2>1. /\ task[h] = "loading" /\ task'[h] = "running" /\ finalEnt # NoInode
        /\ input'[h] = data[finalEnt] /\ UNCHANGED <<partialEnt, finalEnt, sidecar>>
    BY <1>0, <1>7 DEF PipelineReads, At, disk, files
  <2>2. data[finalEnt] = Source[src[h]]
    BY <1>0, <2>1 DEF Gets
  <2>3. Gets(h)'
    BY <1>0, <1>1, <1>2, <2>1, <2>2 DEF Gets
  <2> QED
    BY <1>3, <1>4, <2>1, <2>3 DEF Reached
<1>8. CASE PipelineSucceeds(h) \/ PipelineFails(h)
  <2>1. task'[h] = "finishing" /\ UNCHANGED <<partialEnt, finalEnt, sidecar, input>>
    BY <1>0, <1>8 DEF PipelineSucceeds, PipelineFails, At, disk, files
  <2> QED
    BY <1>0, <1>1, <1>3, <1>4, <2>1, QuietGets DEF Reached
<1> QED
  BY <1>5, <1>6, <1>7, <1>8 DEF PipelineStep, PipelineCleansRaises, Known, TurnTaking

\* What the frontend never sends, and what these faults never cause.
LEMMA NeverTaken ==
  ASSUME NEW h \in Handlers, Known(h),
         \/ HandleChunkFails(h) \/ HandleJobInitFails(h) \/ HandleDuplicateEof(h)
         \/ HandleResumeRefuseRaises(h) \/ HandleResumeRaises(h) \/ HandleOther(h)
         \/ WriterCollected(h)
  PROVE  FALSE
<1>1. "disk" \notin Faults /\ "full" \notin Faults /\ src[h] \in Shas
  BY DEF Known, TurnTaking, FrontendTyped
<1>2. \/ Consume(h, "audio_eof") /\ eofSeen[h]
      \/ Consume(h, "resume_query") /\ Head(queue[h]).sha = NotText
      \/ Consume(h, "other")
  BY <1>1 DEF HandleChunkFails, HandleJobInitFails, HandleDuplicateEof,
     HandleResumeRefuseRaises, HandleResumeRaises, HandleOther, WriterCollected, Known
<1>3. consumer[h] = "ready" /\ queue[h] # <<>>
  BY <1>2 DEF Consume
<1>4. /\ ~eofSeen[h]
      /\ \/ Head(queue[h]) \in {QueryOf(h), InitOf(h)}
         \/ Head(queue[h]).kind \in {"chunk", "audio_eof"}
  BY <1>3, AtHead DEF Known
<1>5. /\ QueryOf(h).kind = "resume_query" /\ QueryOf(h).sha = src[h]
      /\ InitOf(h).kind = "job_init" /\ NotText \notin Shas
  BY ShasAssumption DEF QueryOf, InitOf
<1> QED
  BY <1>1, <1>2, <1>4, <1>5 DEF Consume

LEMMA LostReaches ==
  ASSUME NEW h \in Handlers, Known(h), ChannelLost(h) \/ CloseHandler(h), UNCHANGED frontend
  PROVE  Reached(h)
<1>0. /\ chan \in [Handlers -> {"new", "open", "closed"}] /\ Course(h) /\ src' = src
      /\ consumer \in [Handlers -> {"none", "ready", "emit", "stopped"}]
      /\ plan' = plan /\ pos' = pos
  BY DEF Known, ControlTyped, frontend
<1>1. /\ UNCHANGED <<data, used, partialEnt, finalEnt, sidecar, writer, queue, eofSeen, task,
                     input, resumed>>
      /\ chan[h] # "new" /\ chan'[h] = "closed" /\ consumer'[h] \in {consumer[h], "stopped"}
  BY <1>0 DEF ChannelLost, CloseHandler, disk, files, link, consuming, pipeline, told
<1>2. FilesFit' /\ Held' = Held
  BY <1>1, FilesStay DEF Known
<1>3. Gets(h)'
  BY <1>0, <1>1, QuietGets DEF Known
<1>4. ASSUME NEW first \in {0, 1}, Follows(h, first) PROVE Follows(h, first)'
  BY <1>0, <1>1, <1>2, <1>4 DEF Follows, Size
<1>5. Stand(h) => Stand(h)'
  <2>1. /\ Asks(h) => Asks(h)'
        /\ Waits(h) => Waits(h)'
        /\ Begins(h) => Begins(h)'
    BY <1>0, <1>1, <1>2 DEF Asks, Waits, Begins, QueryOf
  <2>2. Announces(h) => Announces(h)'
    BY <1>0, <1>1, <1>2, <1>4 DEF Announces, InitOf
  <2>3. Uploads(h) => Uploads(h)'
    BY <1>0, <1>1, <1>4 DEF Uploads
  <2>4. Ended(h) => Ended(h)'
    BY <1>1 DEF Ended
  <2> QED
    BY <1>1, <2>1, <2>2, <2>3, <2>4 DEF Stand
<1>6. Course(h)'
  BY <1>0, <1>1, <1>5 DEF Course
<1> QED
  BY <1>2, <1>3, <1>6 DEF Reached

-------------------------------------------------------------------------------
(***************************************************************************)
(* Every step.                                                             *)
(***************************************************************************)
LEMMA Knows ==
  ASSUME TurnTaking, InTurn, Uploading, NEW h \in Handlers
  PROVE  Known(h)
  BY TypedFiles DEF InTurn, TakingTurns, Staged, AllPlaced, NothingLeft, Uploading, Known

\* A step that leaves everything a handler's upload depends on.
LEMMA UploadStays ==
  ASSUME NEW h \in Handlers, Course(h), Gets(h), UNCHANGED vars,
         src'[h] = src[h], plan'[h] = plan[h], pos'[h] = pos[h]
  PROVE  Course(h)' /\ Gets(h)'
<1>1. UNCHANGED <<data, partialEnt, finalEnt, sidecar, writer, chan, queue, consumer, eofSeen,
                  task, input, resumed>>
  BY DEF vars, disk, files, link, consuming, pipeline, told
<1>2. Held' = Held /\ Size(h)' = Size(h)
  BY <1>1 DEF Held, PF!PartialSize, Size
<1>3. Stand(h)' <=> Stand(h)
  BY <1>1, <1>2 DEF Stand, Ended, Asks, Waits, Begins, Announces, Uploads, Follows,
     QueryOf,
     InitOf
<1>4. Course(h)'
  BY <1>1, <1>3 DEF Course
<1>5. Gets(h)'
  BY <1>1 DEF Gets
<1> QED
  BY <1>4, <1>5

LEMMA CrashUploads ==
  ASSUME TurnTaking, InTurn, Uploading, EngineCrash, UNCHANGED frontend
  PROVE  Uploading'
<1>0. ControlTyped /\ \A h \in Handlers : Known(h)
  BY Knows, TypedFiles DEF InTurn, TakingTurns
<1>1. UNCHANGED <<data, used, partialEnt, finalEnt, sidecar, eofSeen, input, resumed, src, plan,
                  pos>>
  BY DEF EngineCrash, Dies, frontend, told
<1>2. FilesFit'
  BY <1>1, FilesStay DEF Uploading
<1>3. ASSUME NEW h \in Handlers PROVE Course(h)' /\ Gets(h)'
  <2>1. /\ consumer'[h] \in {"none", "stopped"} /\ task'[h] \notin Active /\ queue'[h] = <<>>
        /\ chan'[h] = IF chan[h] = "new" THEN "new" ELSE "closed"
    BY <1>0 DEF EngineCrash, Dies, Active
  <2>2. Course(h) /\ Gets(h)
    BY DEF Uploading
  <2>3. Course(h)'
    BY <1>1, <2>1, <2>2 DEF Course
  <2>4. Gets(h)'
    BY <1>1, <2>1, <2>2 DEF Gets, Active
  <2> QED
    BY <2>3, <2>4
<1> QED
  BY <1>2, <1>3 DEF Uploading

LEMMA UploadingKept ==
  ASSUME TurnTaking, InTurn, Uploading, [TransferNext]_allVars
  PROVE  Uploading'
<1>0. FrontendTyped
  BY DEF InTurn
<1>1. ASSUME NEW h \in Handlers, Frontend(h) PROVE Uploading'
  <2>1. Reached(h) /\ src' = src /\ \A g \in Handlers \ {h} : plan'[g] = plan[g]
    <3>1. Reached(h)
      BY <1>1, Knows, FrontendReaches
    <3>2. src' = src
      BY <1>1 DEF Frontend, Connects, SendsInit, SendsQuery, HearsOffset, SendsByte,
         SendsEof
    <3>3. \A g \in Handlers \ {h} : plan'[g] = plan[g]
      BY <1>0, <1>1 DEF Frontend, Connects, SendsInit, SendsQuery, HearsOffset,
         SendsByte,
         SendsEof, Then, FrontendTyped
    <3> QED
      BY <3>1, <3>2, <3>3
  <2>2. CASE HearsOffset(h)
    <3>1. /\ UNCHANGED vars /\ \A g \in Handlers \ {h} : pos'[g] = pos[g]
      BY <1>0, <2>2 DEF HearsOffset, FrontendTyped
    <3>2. \A g \in Handlers \ {h} : Course(g)' /\ Gets(g)'
      BY <2>1, <3>1, UploadStays DEF Uploading
    <3> QED
      BY <2>1, <3>2 DEF Reached, Uploading
  <2>3. CASE ~HearsOffset(h)
    <3>1. src[h] \in Shas /\ pos[h] \in Nat
      BY <1>0 DEF FrontendTyped
    <3>2. Environment(h) \/ \E m \in Inbox : Receive(h, m)
      <4>1. CASE Connects(h)
        BY <4>1 DEF Connects, Environment
      <4>2. CASE SendsInit(h) \/ SendsQuery(h) \/ SendsEof(h)
        BY <3>1, <4>2, FrontendSends DEF SendsInit, SendsQuery, SendsEof
      <4>3. CASE SendsByte(h)
        <5>1. pos[h] + 1 \in 1..Len(Source[src[h]])
          BY <3>1, <4>3, SourceOf DEF SendsByte
        <5> QED
          BY <3>1, <4>3, <5>1, FrontendSends DEF SendsByte
      <4> QED
        BY <1>1, <2>3, <4>1, <4>2, <4>3 DEF Frontend
    <3> QED
      BY <2>1, <3>2, OneUploads DEF Reached
  <2> QED
    BY <2>2, <2>3
<1>2. ASSUME NEW h \in Handlers, Engine(h) \/ Interruption(h), UNCHANGED frontend
      PROVE  Uploading'
  <2>1. Known(h)
    BY Knows
  <2>2. Reached(h)
    <3>1. CASE Interruption(h)
      BY <1>2, <2>1, <3>1, LostReaches, NeverTaken DEF Interruption
    <3>2. CASE PipelineStep(h)
      BY <1>2, <2>1, <3>2, PipelineReaches
    <3>3. CASE ConsumerStep(h)
      BY <1>2, <2>1, <3>3, ChunkReaches, JobInitReaches, EofReaches, KickReaches,
         ResumeReaches,
         NeverTaken DEF ConsumerStep
    <3> QED
      BY <1>2, <3>1, <3>2, <3>3 DEF Engine
  <2>3. src' = src /\ plan' = plan
    BY <1>2 DEF frontend
  <2> QED
    BY <1>2, <2>2, <2>3, OneUploads DEF Reached, Environment
<1>3. CASE EngineCrash /\ UNCHANGED frontend
  BY <1>3, CrashUploads
<1>4. ~PowerLoss
  BY DEF PowerLoss, TurnTaking
<1>5. CASE UNCHANGED allVars
  <2>1. UNCHANGED vars /\ UNCHANGED <<plan, src, pos>>
    BY <1>5 DEF allVars, frontend
  <2>2. FilesFit'
    BY <2>1, FilesStay DEF Uploading, vars, disk, files
  <2>3. \A h \in Handlers : Course(h)' /\ Gets(h)'
    BY <2>1, UploadStays DEF Uploading
  <2> QED
    BY <2>2, <2>3 DEF Uploading
<1> QED
  BY <1>1, <1>2, <1>3, <1>4, <1>5 DEF TransferNext

LEMMA UploadingStarts == TransferInit => Uploading
<1> SUFFICES ASSUME TransferInit PROVE Uploading
  OBVIOUS
<1>1. Init /\ PF!Init /\ plan = [h \in Handlers |-> "away"]
  BY DEF TransferInit, Init
<1>2. FilesFit
  BY <1>1 DEF PF!Init, FilesFit, PartialIsPrefix
<1>3. ASSUME NEW h \in Handlers PROVE Course(h) /\ Gets(h)
  BY <1>1 DEF Init, PF!Init, Course, Gets
<1> QED
  BY <1>2, <1>3 DEF Uploading

LEMMA AlwaysUploading ==
  ASSUME TurnTaking
  PROVE  TransferSpec => []Uploading
<1>1. Admission = "when_done"
  BY DEF TurnTaking
<1>2. Spec => [](TakingTurns /\ AllPlaced)
  BY <1>1, AlwaysPlaced
<1>3. Typed /\ FrontendTyped /\ [TransferNext]_allVars => Typed' /\ FrontendTyped'
  BY TransferKept
<1>4. Spec => []NothingLeft
  BY AlwaysNothingLeft DEF TurnTaking
<1>5. /\ TakingTurns /\ AllPlaced /\ NothingLeft /\ FrontendTyped /\ Uploading
      /\ [TransferNext]_allVars
      => Uploading'
  BY UploadingKept DEF InTurn
<1> QED
  BY <1>2, <1>3, <1>4, <1>5, TransferIsInbound, TransferStarts, UploadingStarts, PTL DEF
     TransferSpec

\* When handlers take turns and the frontend asks before it announces, no interrupted
\* or resumed upload splices two files: what .partial holds is the beginning of the
\* file its sidecar names (PartialIsPrefix), through lost channels, cancelled
\* consumers and crashes.
THEOREM PartialBeginsItsFile == TurnTaking => (TransferSpec => []PartialIsPrefix)
<1> SUFFICES ASSUME TurnTaking PROVE TransferSpec => []PartialIsPrefix
  OBVIOUS
<1>1. Uploading => PartialIsPrefix
  BY DEF Uploading, FilesFit
<1> QED
  BY <1>1, AlwaysUploading, PTL

\* ... and a pipeline reads the whole file of its channel, each byte once and in its
\* place, however often the upload was interrupted before: PipelineGetsSource.
THEOREM PipelinesGetTheirSource == TurnTaking => (TransferSpec => []PipelineGetsSource)
<1> SUFFICES ASSUME TurnTaking PROVE TransferSpec => []PipelineGetsSource
  OBVIOUS
<1>1. Uploading => PipelineGetsSource
  BY DEF Uploading, Gets, PipelineGetsSource
<1> QED
  BY <1>1, AlwaysUploading, PTL
===============================================================================
