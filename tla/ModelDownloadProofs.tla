--------------------------- MODULE ModelDownloadProofs ---------------------------
(***************************************************************************)
(* The downloads of any number of threads, tiers and chunks.               *)
(***************************************************************************)
EXTENDS ModelDownload, TLAPS

\* What a thread is sure of by itself: it has not written beyond the body it is
\* answered with, and writes to a file.
Settled(th) ==
  /\ th.pos < th.next
  /\ th.pc \in {"idle", "begin", "stat", "request"} => th.pos = 0
  /\ th.pc = "read" => th.inode \in Inodes

Typed == TypeOK /\ \A t \in Threads : Settled(threads[t])

-------------------------------------------------------------------------------
(***************************************************************************)
(* Typing.                                                                 *)
(***************************************************************************)
LEMMA IdleTyped == Idle \in ThreadState /\ Idle.pc = "idle" /\ Settled(Idle)
<1>1. (CHOOSE t \in Tiers : TRUE) \in Tiers
  BY DownloadAssumption
<1>2. 1 \in 1 .. Length + 1 /\ 0 \in 0 .. Length
  BY LengthAssumption
<1> QED
  BY <1>1, <1>2 DEF Idle, ThreadState, Steps, Pickers, Settled

\* A step that gives one thread a new state.
LEMMA OneMoves ==
  ASSUME threads \in [Threads -> ThreadState], NEW t \in Threads, NEW new \in ThreadState,
         threads' = [threads EXCEPT ![t] = new]
  PROVE  /\ threads' \in [Threads -> ThreadState]
         /\ threads'[t] = new
         /\ \A u \in Threads \ {t} : threads'[u] = threads[u]
  OBVIOUS

LEMMA Resumes == ASSUME Typed, NEW k \in Tiers PROVE ResumeFrom(k) \in Nat
<1>1. partial[k] # NoInode => files[partial[k]] \in Seq(0 .. Length)
  BY DEF Typed, TypeOK
<1> QED
  BY <1>1 DEF ResumeFrom

LEMMA FunctionIsSequence ==
  ASSUME NEW S, NEW n \in Nat, NEW f \in [1 .. n -> S]
  PROVE  f \in Seq(S) /\ Len(f) = n
  OBVIOUS

LEMMA ElementOf ==
  ASSUME NEW S, NEW s \in Seq(S)
  PROVE  \A k \in 1 .. Len(s) : s[k] \in S
  OBVIOUS

\* What a thread that reads the body leaves in its file.
LEMMA WrittenTyped ==
  ASSUME Typed, NEW t \in Threads, threads[t].pc = "read", threads[t].next <= Length
  PROVE  Written(threads[t]) \in Seq(0 .. Length)
<1> DEFINE content == files[threads[t].inode]
           pos == threads[t].pos
           chunk == threads[t].next
           size == IF Len(content) > pos THEN Len(content) ELSE pos + 1
<1>1. threads[t].inode \in Inodes /\ pos \in Nat /\ chunk \in 0 .. Length
  BY LengthAssumption DEF Typed, TypeOK, Settled, ThreadState
<1>2. content \in Seq(0 .. Length)
  BY <1>1 DEF Typed, TypeOK
<1>3. Append(content, chunk) \in Seq(0 .. Length)
  <2> HIDE DEF content, chunk
  <2> QED  BY <1>1, <1>2
<1>4. WriteAt(content, pos, chunk) \in Seq(0 .. Length)
  <2>1. size \in Nat
    <3> HIDE DEF content, pos
    <3> QED  BY <1>1, <1>2
  <2>2. \A k \in 1 .. size :
          (IF k = pos + 1 THEN chunk ELSE IF k <= Len(content) THEN content[k] ELSE 0)
            \in 0 .. Length
    <3> HIDE DEF content, pos, chunk, size
    <3>1. \A k \in 1 .. Len(content) : content[k] \in 0 .. Length
      BY <1>2, ElementOf
    <3>2. 0 \in 0 .. Length
      BY LengthAssumption
    <3> QED  BY <1>1, <2>1, <3>1, <3>2
  <2>3. WriteAt(content, pos, chunk) \in [1 .. size -> 0 .. Length]
    <3> HIDE DEF content, pos, chunk
    <3> QED  BY <2>2 DEF WriteAt
  <2> HIDE DEF content, pos, chunk, size
  <2> QED  BY <2>1, <2>3, FunctionIsSequence
<1> QED
  BY <1>3, <1>4 DEF Written

LEMMA InitTyped == Init => Typed
<1> SUFFICES ASSUME Init PROVE Typed
  OBVIOUS
<1>1. files \in [Inodes -> Seq(0 .. Length)]
  <2>1. <<>> \in Seq(0 .. Length)
    OBVIOUS
  <2> QED  BY <2>1 DEF Init
<1>2. stored \in StateFiles
  BY DEF Init, StateFiles
<1>3. starts \in 0 .. MaxStarts
  BY DownloadAssumption DEF Init
<1> QED
  BY <1>1, <1>2, <1>3, IdleTyped DEF Init, Typed, TypeOK, Pickers

LEMMA MainTyped ==
  ASSUME Typed, Boot \/ ResetModels \/ PollEnds \/ PollDone \/ Quit
  PROVE  Typed'
<1>1. ASSUME Readable PROVE stored.models \in SUBSET Tiers
  BY <1>1 DEF Typed, TypeOK, StateFiles, Json, Empty, Garbled, Readable
<1>2. ASSUME Dies PROVE Typed'
  BY <1>2, IdleTyped DEF Typed, TypeOK, Dies, disk, Pickers
<1>3. CASE Boot
  BY <1>1, <1>3 DEF Typed, TypeOK, Boot, disk, Pickers
<1>4. CASE ResetModels
  <2>1. stored' \in StateFiles
    BY <1>4 DEF ResetModels, StateFiles
  <2> QED  BY <2>1, <1>4 DEF Typed, TypeOK, ResetModels, disk
<1>5. CASE PollDone
  BY <1>1, <1>5 DEF Typed, TypeOK, PollDone, disk, Pickers
<1> QED
  BY <1>2, <1>3, <1>4, <1>5 DEF PollEnds, Quit

LEMMA StartTyped ==
  ASSUME Typed, NEW t \in Threads, NEW p \in Pickers, NEW tier \in Tiers,
         StartDownload(t, p, tier)
  PROVE  Typed'
<1> DEFINE new == [Idle EXCEPT !.pc = "begin", !.picker = p, !.tier = tier]
<1>1. new \in ThreadState /\ Settled(new)
  BY IdleTyped DEF ThreadState, Steps, Settled
<1>2. threads' = [threads EXCEPT ![t] = new]
  BY DEF StartDownload
<1>3. starts' \in 0 .. MaxStarts
  BY DownloadAssumption DEF Typed, TypeOK, StartDownload
<1> HIDE DEF new
<1>4. threads' \in [Threads -> ThreadState] /\ \A u \in Threads : Settled(threads'[u])
  BY <1>1, <1>2, OneMoves DEF Typed, TypeOK
<1> QED
  BY <1>3, <1>4 DEF Typed, TypeOK, StartDownload, disk

\* What a step of one thread makes of that thread.
Moved(t, new) ==
  /\ threads' \in [Threads -> ThreadState]
  /\ threads'[t] = new
  /\ \A u \in Threads \ {t} : threads'[u] = threads[u]
  /\ \A u \in Threads : Settled(threads'[u])

LEMMA Moves ==
  ASSUME Typed, NEW t \in Threads, NEW new, threads' = [threads EXCEPT ![t] = new],
         new \in ThreadState, Settled(new)
  PROVE  Moved(t, new)
  BY OneMoves DEF Typed, TypeOK, Moved

LEMMA Goes ==
  ASSUME Typed, NEW t \in Threads, NEW pc \in Steps \ {"idle", "begin", "stat", "request", "read"},
         Goto(t, pc)
  PROVE  Moved(t, [threads[t] EXCEPT !.pc = pc])
<1> DEFINE new == [threads[t] EXCEPT !.pc = pc]
<1>1. threads[t] \in ThreadState /\ Settled(threads[t])
  BY DEF Typed, TypeOK
<1>2. new \in ThreadState
  BY <1>1 DEF ThreadState
<1>3. Settled(new)
  BY <1>1 DEF ThreadState, Settled
<1>4. threads' = [threads EXCEPT ![t] = new]
  BY DEF Goto
<1> HIDE DEF new
<1> QED
  BY <1>2, <1>3, <1>4, Moves DEF new

LEMMA GivesUp ==
  ASSUME Typed, NEW t \in Threads, Fails(t)
  PROVE  Moved(t, Idle)
  BY IdleTyped, Moves DEF Fails

\* The steps before the request, which leave the thread's place in the body as it is.
LEMMA Begins ==
  ASSUME Typed, NEW t \in Threads, Begin(t)
  PROVE  Moved(t, [threads[t] EXCEPT !.pc = "stat"])
<1> DEFINE new == [threads[t] EXCEPT !.pc = "stat"]
<1>1. threads[t] \in ThreadState /\ Settled(threads[t]) /\ threads[t].pc = "begin"
  BY DEF Typed, TypeOK, Begin
<1>2. new \in ThreadState
  BY <1>1 DEF ThreadState, Steps
<1>3. Settled(new)
  BY <1>1 DEF ThreadState, Settled
<1>4. threads' = [threads EXCEPT ![t] = new]
  BY DEF Goto, Begin
<1> HIDE DEF new
<1> QED
  BY <1>2, <1>3, <1>4, Moves DEF new

LEMMA Stats ==
  ASSUME Typed, NEW t \in Threads, StatPartial(t)
  PROVE  Moved(t, [threads[t] EXCEPT !.pc = "request", !.from = ResumeFrom(threads[t].tier)])
<1> DEFINE new == [threads[t] EXCEPT !.pc = "request", !.from = ResumeFrom(threads[t].tier)]
<1>1. threads[t] \in ThreadState /\ Settled(threads[t]) /\ threads[t].pc = "stat"
  BY DEF Typed, TypeOK, StatPartial
<1>2. ResumeFrom(threads[t].tier) \in Nat
  BY <1>1, Resumes DEF ThreadState
<1>3. new \in ThreadState
  BY <1>1, <1>2 DEF ThreadState, Steps
<1>4. Settled(new)
  BY <1>1 DEF ThreadState, Settled
<1>5. threads' = [threads EXCEPT ![t] = new]
  BY DEF StatPartial
<1> HIDE DEF new
<1> QED
  BY <1>3, <1>4, <1>5, Moves DEF new

\* The answer to the request: its first chunk, and the file it goes to.
Answered(t, first, i) ==
  /\ threads[t].pc = "request"
  /\ first \in FirstChunks(threads[t].from)
  /\ IF partial[threads[t].tier] = NoInode THEN i \notin InUse ELSE i = partial[threads[t].tier]
  /\ partial' = [partial EXCEPT ![threads[t].tier] = i]
  /\ files' = IF threads[t].from = 0 \/ partial[threads[t].tier] = NoInode
              THEN [files EXCEPT ![i] = <<>>] ELSE files
  /\ Moved(t, [threads[t] EXCEPT !.pc = "read", !.inode = i, !.next = first,
                 !.mode = IF threads[t].from > 0 THEN "ab" ELSE "wb"])

LEMMA Answers ==
  ASSUME Typed, NEW t \in Threads, RequestAnswered(t)
  PROVE  \E first \in 1 .. Length, i \in Inodes : Answered(t, first, i)
<1>1. PICK first \in FirstChunks(threads[t].from), i \in Inodes :
        /\ IF partial[threads[t].tier] = NoInode THEN i \notin InUse
                                                 ELSE i = partial[threads[t].tier]
        /\ partial' = [partial EXCEPT ![threads[t].tier] = i]
        /\ files' = IF threads[t].from = 0 \/ partial[threads[t].tier] = NoInode
                    THEN [files EXCEPT ![i] = <<>>] ELSE files
        /\ threads' = [threads EXCEPT ![t].pc = "read", ![t].inode = i, ![t].next = first,
                         ![t].mode = IF threads[t].from > 0 THEN "ab" ELSE "wb"]
  BY DEF RequestAnswered
<1> DEFINE new == [threads[t] EXCEPT !.pc = "read", !.inode = i, !.next = first,
                     !.mode = IF threads[t].from > 0 THEN "ab" ELSE "wb"]
<1>2. threads[t] \in ThreadState /\ Settled(threads[t]) /\ threads[t].pc = "request"
  BY DEF Typed, TypeOK, RequestAnswered
<1>3. first \in 1 .. Length
  BY <1>2, LengthAssumption DEF FirstChunks, ThreadState
<1>4. new \in ThreadState
  <2>1. first \in 1 .. Length + 1
    BY <1>3, LengthAssumption
  <2>2. (IF threads[t].from > 0 THEN "ab" ELSE "wb") \in {"ab", "wb"}
    OBVIOUS
  <2> QED  BY <1>2, <2>1, <2>2 DEF ThreadState, Steps
<1>5. Settled(new)
  BY <1>2, <1>3 DEF ThreadState, Settled
<1>6. threads' = [threads EXCEPT ![t] = new]
  BY <1>1
<1>7. Moved(t, new)
  <2> HIDE DEF new
  <2> QED  BY <1>4, <1>5, <1>6, Moves
<1> QED
  BY <1>1, <1>2, <1>3, <1>7 DEF Answered

LEMMA Reads ==
  ASSUME Typed, NEW t \in Threads, ReadChunk(t)
  PROVE  /\ Moved(t, [threads[t] EXCEPT !.next = threads[t].next + 1, !.pos = threads[t].pos + 1])
         /\ files' = [files EXCEPT ![threads[t].inode] = Written(threads[t])]
         /\ Written(threads[t]) \in Seq(0 .. Length)
<1> DEFINE new == [threads[t] EXCEPT !.next = threads[t].next + 1, !.pos = threads[t].pos + 1]
<1>1. threads[t] \in ThreadState /\ Settled(threads[t]) /\ threads[t].pc = "read"
        /\ threads[t].next <= Length
  BY DEF Typed, TypeOK, ReadChunk
<1>2. new \in ThreadState
  <2>1. threads[t].next \in Nat /\ threads[t].pos \in Nat /\ threads[t].pos < threads[t].next
    BY <1>1 DEF ThreadState, Settled
  <2>2. threads[t].next + 1 \in 1 .. Length + 1 /\ threads[t].pos + 1 \in 0 .. Length
    BY <1>1, <2>1, LengthAssumption
  <2> QED  BY <1>1, <2>2 DEF ThreadState
<1>3. Settled(new)
  BY <1>1 DEF ThreadState, Settled
<1>4. threads' = [threads EXCEPT ![t] = new]
  BY DEF ReadChunk
<1> HIDE DEF new
<1>5. Moved(t, new)
  BY <1>2, <1>3, <1>4, Moves
<1> QED
  BY <1>1, <1>5, WrittenTyped DEF new, ReadChunk

LEMMA Ends ==
  ASSUME Typed, NEW t \in Threads, BodyEnds(t)
  PROVE  Moved(t, [threads[t] EXCEPT !.pc = "verify", !.inode = NoInode])
<1> DEFINE new == [threads[t] EXCEPT !.pc = "verify", !.inode = NoInode]
<1>1. threads[t] \in ThreadState /\ Settled(threads[t])
  BY DEF Typed, TypeOK
<1>2. new \in ThreadState
  BY <1>1 DEF ThreadState, Steps
<1>3. Settled(new)
  BY <1>1 DEF ThreadState, Settled
<1>4. threads' = [threads EXCEPT ![t] = new]
  BY DEF BodyEnds
<1> HIDE DEF new
<1> QED
  BY <1>2, <1>3, <1>4, Moves DEF new

\* append() and asdict() together.
LEMMA Records ==
  ASSUME Typed, NEW t \in Threads, Record(t), threads[t].tier \notin objects[threads[t].picker]
  PROVE  LET list == objects[threads[t].picker] \union {threads[t].tier} IN
         /\ Moved(t, [threads[t] EXCEPT !.pc = "save", !.snapshot = list])
         /\ objects' = [objects EXCEPT ![threads[t].picker] = list]
         /\ list \in SUBSET Tiers
<1> DEFINE list == objects[threads[t].picker] \union {threads[t].tier}
           new == [threads[t] EXCEPT !.pc = "save", !.snapshot = list]
<1>1. threads[t] \in ThreadState /\ Settled(threads[t])
  BY DEF Typed, TypeOK
<1>2. list \in SUBSET Tiers
  BY <1>1 DEF Typed, TypeOK, ThreadState
<1>3. objects' = [objects EXCEPT ![threads[t].picker] = list]
        /\ threads' = [threads EXCEPT ![t] = new]
  BY DEF Record
<1> HIDE DEF list
<1>4. new \in ThreadState
  BY <1>1, <1>2 DEF ThreadState, Steps
<1>5. Settled(new)
  BY <1>1 DEF ThreadState, Settled
<1> HIDE DEF new
<1>6. Moved(t, new)
  BY <1>3, <1>4, <1>5, Moves
<1> QED
  BY <1>2, <1>3, <1>6 DEF new, list

LEMMA StepTyped ==
  ASSUME Typed, NEW t \in Threads, ThreadStep(t)
  PROVE  Typed'
<1>1. threads[t] \in ThreadState /\ threads[t].tier \in Tiers /\ threads[t].picker \in Pickers
  BY DEF Typed, TypeOK, ThreadState
<1> DEFINE Same == threads' \in [Threads -> ThreadState] /\ \A u \in Threads : Settled(threads'[u])
<1>2. ASSUME Fails(t) PROVE Same /\ shown' = [shown EXCEPT ![threads[t].picker] = "error"]
  BY <1>2, GivesUp DEF Moved, Fails
<1>3. CASE Begin(t)
  <2>1. Same
    BY <1>3, Begins DEF Moved
  <2> QED  BY <1>1, <1>3, <2>1 DEF Typed, TypeOK, Begin, disk
<1>4. CASE StatPartial(t)
  <2>1. Same
    BY <1>4, Stats DEF Moved
  <2> QED  BY <1>4, <2>1 DEF Typed, TypeOK, StatPartial, disk
<1>5. CASE RequestAnswered(t)
  <2>1. PICK first \in 1 .. Length, i \in Inodes : Answered(t, first, i)
    BY <1>5, Answers
  <2>2. Same
    BY <2>1 DEF Answered, Moved
  <2>3. files' \in [Inodes -> Seq(0 .. Length)]
    <3>1. <<>> \in Seq(0 .. Length)
      OBVIOUS
    <3> QED  BY <2>1, <3>1 DEF Answered, Typed, TypeOK
  <2>4. partial' \in [Tiers -> Inodes \union {NoInode}]
    BY <2>1 DEF Answered, Typed, TypeOK
  <2> QED  BY <1>5, <2>2, <2>3, <2>4 DEF Typed, TypeOK, RequestAnswered
<1>6. CASE RequestFails(t)
  BY <1>1, <1>2, <1>6 DEF Typed, TypeOK, RequestFails, disk
<1>7. CASE ReadChunk(t)
  <2>1. Same /\ files' = [files EXCEPT ![threads[t].inode] = Written(threads[t])]
          /\ Written(threads[t]) \in Seq(0 .. Length)
    BY <1>7, Reads DEF Moved
  <2>2. files' \in [Inodes -> Seq(0 .. Length)]
    BY <2>1 DEF Typed, TypeOK
  <2> QED  BY <1>7, <2>1, <2>2 DEF Typed, TypeOK, ReadChunk
<1>8. CASE BodyEnds(t)
  <2>1. Same
    BY <1>8, Ends DEF Moved
  <2> QED  BY <1>8, <2>1 DEF Typed, TypeOK, BodyEnds, disk
<1>9. CASE BodyFails(t)
  BY <1>1, <1>2, <1>9 DEF Typed, TypeOK, BodyFails, disk
<1>10. CASE Verify(t)
  <2>1. Same
    BY <1>10, Goes DEF Verify, Moved, Steps
  <2> QED  BY <1>10, <2>1 DEF Typed, TypeOK, Verify, disk
<1>11. CASE Discard(t)
  BY <1>1, <1>2, <1>11 DEF Typed, TypeOK, Discard
<1>12. CASE Replace(t)
  <2>1. Same
    BY <1>12, Goes DEF Replace, Moved, Steps
  <2> QED  BY <1>1, <1>12, <2>1 DEF Typed, TypeOK, Replace
<1>13. CASE PartialGone(t)
  BY <1>1, <1>2, <1>13 DEF Typed, TypeOK, PartialGone, disk
<1>14. CASE Record(t)
  <2>1. CASE threads[t].tier \in objects[threads[t].picker]
    <3>1. Same /\ UNCHANGED objects
      BY <1>14, <2>1, Goes DEF Record, Moved, Steps
    <3> QED  BY <1>14, <3>1 DEF Typed, TypeOK, Record, disk
  <2>2. CASE threads[t].tier \notin objects[threads[t].picker]
    <3>1. Same
      BY <1>14, <2>2, Records DEF Moved
    <3>2. objects' \in [Pickers -> SUBSET Tiers]
      <4>1. objects' = [objects EXCEPT ![threads[t].picker] =
                          objects[threads[t].picker] \union {threads[t].tier}]
        BY <1>14, <2>2 DEF Record
      <4> QED  BY <1>1, <4>1 DEF Typed, TypeOK
    <3> QED  BY <1>14, <3>1, <3>2 DEF Typed, TypeOK, Record, disk
  <2> QED  BY <2>1, <2>2
<1>15. CASE SaveOpens(t)
  <2>1. Same
    BY <1>15, Goes DEF SaveOpens, Moved, Steps
  <2>2. stored' \in StateFiles
    BY <1>15 DEF SaveOpens, StateFiles
  <2> QED  BY <1>15, <2>1, <2>2 DEF Typed, TypeOK, SaveOpens, disk
<1>16. CASE SaveWrites(t)
  <2>1. Same
    BY <1>16, Goes DEF SaveWrites, Moved, Steps
  <2>2. threads[t].snapshot \in SUBSET Tiers
    BY DEF Typed, TypeOK, ThreadState
  <2>3. stored' \in StateFiles
    BY <1>16, <2>2 DEF SaveWrites, Overwritten, StateFiles
  <2> QED  BY <1>16, <2>1, <2>3 DEF Typed, TypeOK, SaveWrites, disk
<1>17. CASE SaveFails(t)
  BY <1>1, <1>2, <1>17 DEF Typed, TypeOK, SaveFails, disk
<1>18. CASE Finish(t)
  <2>1. Same
    BY <1>18, IdleTyped, Moves DEF Finish, Moved
  <2> QED  BY <1>1, <1>18, <2>1 DEF Typed, TypeOK, Finish, disk
<1> QED
  BY <1>3, <1>4, <1>5, <1>6, <1>7, <1>8, <1>9, <1>10, <1>11, <1>12, <1>13, <1>14,
     <1>15, <1>16, <1>17, <1>18 DEF ThreadStep

LEMMA TypedKept == Typed /\ [Next]_vars => Typed'
<1> SUFFICES ASSUME Typed, [Next]_vars PROVE Typed'
  OBVIOUS
<1>1. CASE Next
  BY <1>1, MainTyped, StartTyped, StepTyped DEF Next
<1>2. CASE UNCHANGED vars
  BY <1>2 DEF Typed, TypeOK, vars, disk, Readable
<1> QED
  BY <1>1, <1>2

LEMMA AlwaysTyped == Spec => []Typed
BY InitTyped, TypedKept, PTL DEF Spec

\* Every variable keeps its type: in particular no thread reads more chunks than
\* a model has, or writes past them (the loop of download_resumable).
THEOREM DownloadsTyped == Spec => []TypeOK
<1>1. Typed => TypeOK
  BY DEF Typed
<1> QED
  BY <1>1, AlwaysTyped, PTL

-------------------------------------------------------------------------------
(***************************************************************************)
(* A model's name is only ever given to the model.                         *)
(***************************************************************************)

\* No two downloads of one model.
OnePerTier ==
  \A t, u \in Threads :
    t # u /\ threads[t].pc # "idle" /\ threads[u].pc # "idle" => threads[t].tier # threads[u].tier

\* A .partial is no model and no other .partial.
PartsApart ==
  \A k, other \in Tiers :
    partial[k] # NoInode => /\ partial[k] # dest[other]
                            /\ other # k => partial[k] # partial[other]

\* The file of a thread is its .partial, and it is whole once it has been verified.
Holds(th) ==
  /\ th.pc = "read" => th.inode = partial[th.tier]
  /\ th.pc = "replace" => partial[th.tier] # NoInode /\ files[partial[th.tier]] = Whole

Downloading ==
  /\ OnePerTier
  /\ PartsApart
  /\ \A t \in Threads : Holds(threads[t])
  /\ ModelsVerified

LEMMA DiskTyped ==
  ASSUME Typed
  PROVE  /\ partial \in [Tiers -> Inodes \union {NoInode}]
         /\ dest \in [Tiers -> Inodes \union {NoInode}]
         /\ files \in [Inodes -> Seq(0 .. Length)]
         /\ \A t \in Threads : /\ threads[t] \in ThreadState
                              /\ threads[t].tier \in Tiers
                              /\ threads[t].picker \in Pickers
  BY DEF Typed, TypeOK, ThreadState

\* A thread downloads one model until it is idle again.
KeepsTask(t) ==
  /\ threads[t].pc # "idle"
  /\ \A u \in Threads \ {t} : threads'[u] = threads[u]
  /\ \/ threads'[t] = Idle
     \/ threads'[t].tier = threads[t].tier /\ threads'[t].picker = threads[t].picker

LEMMA TaskKept ==
  ASSUME Typed, NEW t \in Threads, ThreadStep(t)
  PROVE  KeepsTask(t)
<1>1. threads[t] \in ThreadState
  BY DiskTyped
<1>2. ASSUME Fails(t) PROVE threads'[t] = Idle /\ \A u \in Threads \ {t} : threads'[u] = threads[u]
  BY <1>2, GivesUp DEF Moved
<1>3. ASSUME NEW pc \in Steps \ {"idle", "begin", "stat", "request", "read"}, Goto(t, pc),
             threads[t].pc # "idle"
      PROVE  KeepsTask(t)
  <2>1. Moved(t, [threads[t] EXCEPT !.pc = pc])
    BY <1>3, Goes
  <2> QED  BY <1>1, <1>3, <2>1 DEF Moved, KeepsTask, ThreadState
<1>4. CASE Begin(t)
  BY <1>1, <1>4, Begins DEF Moved, KeepsTask, ThreadState, Begin
<1>5. CASE StatPartial(t)
  BY <1>1, <1>5, Stats DEF Moved, KeepsTask, ThreadState, StatPartial
<1>6. CASE RequestAnswered(t)
  <2>1. PICK first \in 1 .. Length, i \in Inodes : Answered(t, first, i)
    BY <1>6, Answers
  <2> QED  BY <1>1, <2>1 DEF Answered, Moved, KeepsTask, ThreadState
<1>7. CASE RequestFails(t) \/ BodyFails(t) \/ Discard(t) \/ PartialGone(t) \/ SaveFails(t)
  BY <1>2, <1>7 DEF KeepsTask, RequestFails, BodyFails, Discard, PartialGone, SaveFails
<1>8. CASE ReadChunk(t)
  BY <1>1, <1>8, Reads DEF Moved, KeepsTask, ThreadState, ReadChunk
<1>9. CASE BodyEnds(t)
  BY <1>1, <1>9, Ends DEF Moved, KeepsTask, ThreadState, BodyEnds
<1>10. CASE Verify(t)
  BY <1>3, <1>10 DEF Verify, Steps
<1>11. CASE Replace(t)
  BY <1>3, <1>11 DEF Replace, Steps
<1>12. CASE Record(t)
  <2>1. CASE threads[t].tier \in objects[threads[t].picker]
    BY <1>3, <1>12, <2>1 DEF Record, Steps
  <2>2. CASE threads[t].tier \notin objects[threads[t].picker]
    <3> DEFINE list == objects[threads[t].picker] \union {threads[t].tier}
    <3>1. Moved(t, [threads[t] EXCEPT !.pc = "save", !.snapshot = list])
      BY <1>12, <2>2, Records
    <3> HIDE DEF list
    <3> QED  BY <1>1, <1>12, <3>1 DEF Moved, KeepsTask, ThreadState, Record
  <2> QED  BY <2>1, <2>2
<1>13. CASE SaveOpens(t)
  BY <1>3, <1>13 DEF SaveOpens, Steps
<1>14. CASE SaveWrites(t)
  BY <1>3, <1>14 DEF SaveWrites, Steps
<1>15. CASE Finish(t)
  BY <1>15, IdleTyped, Moves DEF Finish, Moved, KeepsTask
<1> QED
  BY <1>4, <1>5, <1>6, <1>7, <1>8, <1>9, <1>10, <1>11, <1>12, <1>13, <1>14, <1>15 DEF
     ThreadStep

LEMMA TurnsKept ==
  ASSUME Typed, OnePerTier, NEW t \in Threads, ThreadStep(t)
  PROVE  OnePerTier'
  BY TaskKept, IdleTyped DEF OnePerTier, KeepsTask

\* Between the steps on the disk.
LEMMA StepOffDisk ==
  ASSUME Typed, Downloading, NEW t \in Threads, ThreadStep(t), UNCHANGED disk,
         threads'[t].pc \notin {"read", "replace"}
  PROVE  Downloading'
<1>1. OnePerTier'
  BY TurnsKept DEF Downloading
<1>2. PartsApart'
  BY DEF Downloading, PartsApart, disk
<1>3. \A u \in Threads : Holds(threads[u])'
  <2>1. \A u \in Threads \ {t} : threads'[u] = threads[u]
    BY TaskKept DEF KeepsTask
  <2> QED  BY <2>1 DEF Downloading, Holds, disk
<1>4. ModelsVerified'
  BY DEF Downloading, ModelsVerified, disk
<1> QED
  BY <1>1, <1>2, <1>3, <1>4 DEF Downloading

\* The part of one thread: no other thread is at the same model's file.
LEMMA OthersElsewhere ==
  ASSUME Typed, Downloading, NEW t \in Threads, NEW u \in Threads \ {t},
         threads[t].pc # "idle", threads[u].pc \in {"read", "replace"}
  PROVE  threads[u].tier # threads[t].tier
  BY DEF Downloading, OnePerTier

LEMMA AnswerDownloading ==
  ASSUME Typed, Downloading, NEW t \in Threads, RequestAnswered(t)
  PROVE  Downloading'
<1>1. PICK first \in 1 .. Length, i \in Inodes : Answered(t, first, i)
  BY Answers
<1> DEFINE k == threads[t].tier
<1>2. /\ k \in Tiers /\ i # NoInode
      /\ partial' = [partial EXCEPT ![k] = i]
      /\ dest' = dest
      /\ \A j \in Inodes \ {i} : files'[j] = files[j]
  BY <1>1, DiskTyped, DownloadAssumption DEF Answered, RequestAnswered
<1>3. /\ threads[t].pc = "request" /\ threads'[t].pc = "read" /\ threads'[t].inode = i
      /\ threads'[t].tier = k
      /\ \A u \in Threads \ {t} : threads'[u] = threads[u]
  BY <1>1, DiskTyped DEF Answered, Moved, ThreadState
<1>4. \A other \in Tiers : i # dest[other] /\ (other # k => i # partial[other])
  <2>1. CASE partial[k] = NoInode
    BY <1>1, <2>1 DEF Answered, InUse
  <2>2. CASE partial[k] # NoInode
    BY <1>1, <1>2, <2>2 DEF Answered, Downloading, PartsApart
  <2> QED  BY <2>1, <2>2
<1> HIDE DEF k
<1>5. OnePerTier'
  BY TurnsKept DEF Downloading, ThreadStep
<1>6. PartsApart'
  BY <1>2, <1>4, DiskTyped DEF Downloading, PartsApart
<1>7. ASSUME NEW u \in Threads PROVE Holds(threads[u])'
  <2>1. CASE u = t
    BY <1>2, <1>3, <2>1, DiskTyped DEF Holds
  <2>2. CASE u # t
    <3>1. threads[u].pc \in {"read", "replace"} => threads[u].tier # k
      BY <1>3, <2>2, OthersElsewhere DEF k
    <3>2. threads[u].tier \in Tiers
      BY DiskTyped
    <3> QED  BY <1>2, <1>3, <1>4, <2>2, <3>1, <3>2, DiskTyped DEF Downloading, Holds
  <2> QED  BY <2>1, <2>2
<1>8. ModelsVerified'
  BY <1>2, <1>4, DiskTyped DEF Downloading, ModelsVerified
<1> QED
  BY <1>5, <1>6, <1>7, <1>8 DEF Downloading

LEMMA ReadDownloading ==
  ASSUME Typed, Downloading, NEW t \in Threads, ReadChunk(t)
  PROVE  Downloading'
<1> DEFINE k == threads[t].tier
           i == threads[t].inode
<1>1. k \in Tiers /\ i = partial[k] /\ i \in Inodes /\ i # NoInode
  BY DiskTyped, DownloadAssumption DEF Typed, Settled, Downloading, Holds, ReadChunk
<1>2. partial' = partial /\ dest' = dest /\ \A j \in Inodes \ {i} : files'[j] = files[j]
  BY <1>1, DiskTyped DEF ReadChunk
<1>3. /\ threads[t].pc = "read" /\ threads'[t].pc = "read"
      /\ threads'[t].inode = i /\ threads'[t].tier = k
      /\ \A u \in Threads \ {t} : threads'[u] = threads[u]
  <2>1. threads[t] \in ThreadState /\ threads[t].pc = "read"
    BY DiskTyped DEF ReadChunk
  <2>2. Moved(t, [threads[t] EXCEPT !.next = threads[t].next + 1, !.pos = threads[t].pos + 1])
    BY Reads
  <2> QED  BY <2>1, <2>2 DEF Moved, ThreadState
<1>4. \A other \in Tiers : i # dest[other] /\ (other # k => i # partial[other])
  BY <1>1 DEF Downloading, PartsApart
<1> HIDE DEF k, i
<1>5. OnePerTier'
  BY TurnsKept DEF Downloading, ThreadStep
<1>6. PartsApart'
  BY <1>2 DEF Downloading, PartsApart
<1>7. ASSUME NEW u \in Threads PROVE Holds(threads[u])'
  <2>1. CASE u = t
    BY <1>1, <1>2, <1>3, <2>1 DEF Holds
  <2>2. CASE u # t
    <3>1. threads[u].pc \in {"read", "replace"} => threads[u].tier # k
      BY <1>3, <2>2, OthersElsewhere DEF k
    <3>2. threads[u].tier \in Tiers
      BY DiskTyped
    <3> QED  BY <1>2, <1>3, <1>4, <2>2, <3>1, <3>2, DiskTyped DEF Downloading, Holds
  <2> QED  BY <2>1, <2>2
<1>8. ModelsVerified'
  BY <1>2, <1>4, DiskTyped DEF Downloading, ModelsVerified
<1> QED
  BY <1>5, <1>6, <1>7, <1>8 DEF Downloading

LEMMA LeaveDownloading ==
  ASSUME Typed, Downloading, NEW t \in Threads, Discard(t) \/ Replace(t)
  PROVE  Downloading'
<1> DEFINE k == threads[t].tier
<1>1. /\ k \in Tiers /\ partial[k] \in Inodes /\ files' = files
      /\ partial' = [partial EXCEPT ![k] = NoInode]
  BY DiskTyped DEF Discard, Replace
<1>2. threads[t].pc # "idle" /\ threads'[t].pc \in {"idle", "record"}
        /\ \A u \in Threads \ {t} : threads'[u] = threads[u]
  <2>1. CASE Discard(t)
    BY <2>1, GivesUp, IdleTyped DEF Discard, Moved
  <2>2. CASE Replace(t)
    <3>1. threads[t] \in ThreadState /\ threads[t].pc = "replace"
      BY <2>2, DiskTyped DEF Replace
    <3>2. Moved(t, [threads[t] EXCEPT !.pc = "record"])
      BY <2>2, Goes DEF Replace, Steps
    <3> QED  BY <3>1, <3>2 DEF Moved, ThreadState
  <2> QED  BY <2>1, <2>2
<1>3. dest' = dest \/ (/\ dest' = [dest EXCEPT ![k] = partial[k]]
                       /\ files[partial[k]] = Whole)
  BY DEF Discard, Replace, Downloading, Holds
<1>4. OnePerTier'
  BY TurnsKept DEF Downloading, ThreadStep
<1>5. ASSUME NEW u \in Threads PROVE Holds(threads[u])'
  <2>1. CASE u = t
    BY <1>2, <2>1 DEF Holds
  <2>2. CASE u # t
    <3>1. threads[u].pc \in {"read", "replace"} => threads[u].tier # k
      BY <1>2, <2>2, OthersElsewhere
    <3>2. threads[u].tier \in Tiers
      BY DiskTyped
    <3> HIDE DEF k
    <3> QED  BY <1>1, <1>2, <2>2, <3>1, <3>2, DiskTyped DEF Downloading, Holds
  <2> QED  BY <2>1, <2>2
<1> HIDE DEF k
<1>6. PartsApart'
  BY <1>1, <1>3, DiskTyped DEF Downloading, PartsApart
<1>7. ModelsVerified'
  BY <1>1, <1>3, DiskTyped DEF Downloading, ModelsVerified
<1> QED
  BY <1>4, <1>5, <1>6, <1>7 DEF Downloading

LEMMA StepDownloading ==
  ASSUME Typed, Downloading, NEW t \in Threads, ThreadStep(t)
  PROVE  Downloading'
<1>1. threads[t] \in ThreadState
  BY DiskTyped
<1>2. ASSUME Fails(t) PROVE threads'[t].pc = "idle"
  BY <1>2, GivesUp, IdleTyped DEF Moved
<1>3. ASSUME NEW pc \in Steps \ {"idle", "begin", "stat", "request", "read"}, Goto(t, pc)
      PROVE  threads'[t].pc = pc
  <2>1. Moved(t, [threads[t] EXCEPT !.pc = pc])
    BY <1>3, Goes
  <2> QED  BY <1>1, <2>1 DEF Moved, ThreadState
<1>4. CASE Begin(t)
  BY <1>1, <1>4, Begins, StepOffDisk DEF Moved, ThreadState, Begin
<1>5. CASE StatPartial(t)
  <2>1. threads'[t].pc = "request"
    <3>1. threads'[t] =
            [threads[t] EXCEPT !.pc = "request", !.from = ResumeFrom(threads[t].tier)]
      BY <1>5, Stats DEF Moved
    <3> QED  BY <1>1, <3>1 DEF ThreadState
  <2> QED  BY <1>5, <2>1, StepOffDisk DEF StatPartial
<1>6. CASE RequestFails(t) \/ BodyFails(t) \/ PartialGone(t) \/ SaveFails(t)
  BY <1>2, <1>6, StepOffDisk DEF RequestFails, BodyFails, PartialGone, SaveFails
<1>7. CASE BodyEnds(t)
  <2>1. threads'[t].pc = "verify"
    <3>1. threads'[t] = [threads[t] EXCEPT !.pc = "verify", !.inode = NoInode]
      BY <1>7, Ends DEF Moved
    <3> QED  BY <1>1, <3>1 DEF ThreadState
  <2> QED  BY <1>7, <2>1, StepOffDisk DEF BodyEnds
<1>8. CASE Verify(t)
  <2>1. CASE ~HashMatches(threads[t].tier, files[partial[threads[t].tier]])
    <3>1. threads'[t].pc = "discard" /\ UNCHANGED disk
      BY <1>3, <1>8, <2>1 DEF Verify, Steps
    <3> QED  BY <3>1, StepOffDisk
  <2>2. CASE HashMatches(threads[t].tier, files[partial[threads[t].tier]])
    <3>1. Goto(t, "replace") /\ UNCHANGED disk
      BY <1>8, <2>2 DEF Verify
    <3>2. Moved(t, [threads[t] EXCEPT !.pc = "replace"])
      BY <3>1, Goes DEF Steps
    <3>3. threads'[t].pc = "replace" /\ threads'[t].tier = threads[t].tier
            /\ \A u \in Threads \ {t} : threads'[u] = threads[u]
      BY <1>1, <3>2 DEF Moved, ThreadState
    <3>4. OnePerTier'
      BY TurnsKept DEF Downloading
    <3>5. PartsApart' /\ ModelsVerified'
      BY <3>1 DEF Downloading, PartsApart, ModelsVerified, disk
    <3>6. \A u \in Threads : Holds(threads[u])'
      BY <1>8, <2>2, <3>1, <3>3 DEF Downloading, Holds, disk, Verify, HashMatches
    <3> QED  BY <3>4, <3>5, <3>6 DEF Downloading
  <2> QED  BY <2>1, <2>2
<1>9. CASE Record(t)
  <2>1. CASE threads[t].tier \in objects[threads[t].picker]
    BY <1>3, <1>9, <2>1, StepOffDisk DEF Record, Steps
  <2>2. CASE threads[t].tier \notin objects[threads[t].picker]
    <3> DEFINE list == objects[threads[t].picker] \union {threads[t].tier}
    <3>1. Moved(t, [threads[t] EXCEPT !.pc = "save", !.snapshot = list])
      BY <1>9, <2>2, Records
    <3> HIDE DEF list
    <3>2. threads'[t].pc = "save" /\ UNCHANGED disk
      BY <1>1, <1>9, <3>1 DEF Moved, ThreadState, Record
    <3> QED  BY <3>2, StepOffDisk
  <2> QED  BY <2>1, <2>2
<1>10. CASE SaveOpens(t) \/ SaveWrites(t)
  BY <1>3, <1>10, StepOffDisk DEF SaveOpens, SaveWrites, Steps
<1>11. CASE Finish(t)
  <2>1. threads'[t].pc = "idle"
    BY <1>11, IdleTyped, Moves DEF Finish, Moved
  <2> QED  BY <1>11, <2>1, StepOffDisk DEF Finish
<1> QED
  BY <1>4, <1>5, <1>6, <1>7, <1>8, <1>9, <1>10, <1>11, AnswerDownloading,
     ReadDownloading,
     LeaveDownloading DEF ThreadStep

LEMMA MainDownloading ==
  ASSUME Typed, Downloading, Boot \/ ResetModels \/ PollEnds \/ PollDone \/ Quit
  PROVE  Downloading'
<1>1. UNCHANGED disk
  BY DEF Boot, ResetModels, PollEnds, PollDone, Quit, Dies
<1>2. \A t \in Threads : threads'[t] \in {threads[t], Idle}
  BY DEF Boot, ResetModels, PollEnds, PollDone, Quit, Dies, Typed, TypeOK
<1>3. OnePerTier'
  BY <1>2, IdleTyped DEF Downloading, OnePerTier
<1>4. PartsApart' /\ ModelsVerified'
  BY <1>1 DEF Downloading, PartsApart, ModelsVerified, disk
<1>5. \A t \in Threads : Holds(threads[t])'
  BY <1>1, <1>2, IdleTyped DEF Downloading, Holds, disk
<1> QED
  BY <1>3, <1>4, <1>5 DEF Downloading

\* What a new thread starts with.
LEMMA Started ==
  ASSUME Typed, NEW t \in Threads, NEW p \in Pickers, NEW tier \in Tiers,
         StartDownload(t, p, tier)
  PROVE  /\ threads'[t].pc = "begin" /\ threads'[t].tier = tier /\ threads'[t].picker = p
         /\ \A u \in Threads \ {t} : threads'[u] = threads[u]
<1> DEFINE new == [Idle EXCEPT !.pc = "begin", !.picker = p, !.tier = tier]
<1>1. new \in ThreadState /\ new.pc = "begin" /\ new.tier = tier /\ new.picker = p
  BY IdleTyped DEF ThreadState, Steps
<1>2. threads' = [threads EXCEPT ![t] = new]
  BY DEF StartDownload
<1> HIDE DEF new
<1> QED
  BY <1>1, <1>2, OneMoves DEF Typed, TypeOK

LEMMA StartDownloading ==
  ASSUME Overlap # "any", Typed, Downloading, NEW t \in Threads, NEW p \in Pickers,
         NEW tier \in Tiers, StartDownload(t, p, tier)
  PROVE  Downloading'
<1>1. /\ threads'[t].pc = "begin" /\ threads'[t].tier = tier
      /\ \A u \in Threads \ {t} : threads'[u] = threads[u]
  BY Started
<1>2. \A u \in Threads : threads[u].pc # "idle" => threads[u].tier # tier
  BY DEF StartDownload, MayStart, Running
<1>3. UNCHANGED disk
  BY DEF StartDownload
<1>4. OnePerTier'
  BY <1>1, <1>2 DEF Downloading, OnePerTier
<1>5. PartsApart' /\ ModelsVerified'
  BY <1>3 DEF Downloading, PartsApart, ModelsVerified, disk
<1>6. \A u \in Threads : Holds(threads[u])'
  BY <1>1, <1>3 DEF Downloading, Holds, disk
<1> QED
  BY <1>4, <1>5, <1>6 DEF Downloading

LEMMA InitDownloading == Init => Downloading
  BY IdleTyped DEF Init, Downloading, OnePerTier, PartsApart, Holds, ModelsVerified

LEMMA DownloadingKept ==
  Overlap # "any" /\ Typed /\ Downloading /\ [Next]_vars => Downloading'
<1> SUFFICES ASSUME Overlap # "any", Typed, Downloading, [Next]_vars PROVE Downloading'
  OBVIOUS
<1>1. CASE Next
  BY <1>1, MainDownloading, StartDownloading, StepDownloading DEF Next
<1>2. CASE UNCHANGED vars
  BY <1>2 DEF Downloading, OnePerTier, PartsApart, Holds, ModelsVerified, vars, disk
<1> QED
  BY <1>1, <1>2

\* A model's name is only given to the model, and keeps it, whatever a server
\* answers and wherever the process dies, as long as no two downloads of the same
\* tier run at once (start_download does not see to that itself).
THEOREM ModelsAreVerified == Overlap # "any" => (Spec => []ModelsVerified)
<1> SUFFICES ASSUME Overlap # "any" PROVE Spec => []ModelsVerified
  OBVIOUS
<1>1. Downloading => ModelsVerified
  BY DEF Downloading
<1>2. Typed /\ Downloading /\ [Next]_vars => Downloading'
  BY DownloadingKept
<1> QED
  BY <1>1, <1>2, InitDownloading, AlwaysTyped, PTL DEF Spec

-------------------------------------------------------------------------------
(***************************************************************************)
(* What has been reported done is remembered.                              *)
(***************************************************************************)

\* The picker whose State object the engine goes on with.
Cur == IF main = "wait" THEN "first" ELSE "tray"

Alone == \A t, u \in Threads : threads[t].pc # "idle" /\ threads[u].pc # "idle" => t = u

\* A download belongs to that picker, which has not reported done to main(), and
\* what it saves is the list of that picker's State object.
Recording(th) ==
  /\ main # "off"
  /\ ~(main = "wait" /\ shown["first"] = "done")
  /\ th.picker = Cur
  /\ th.pc = "save" => Readable /\ recorded \subseteq stored.models /\ th.snapshot = objects[Cur]
  /\ th.pc = "write" => stored = Empty /\ th.snapshot = objects[Cur]
  /\ th.pc \in {"save", "write", "finish"} => th.tier \in objects[Cur]

Saving == \E t \in Threads : threads[t].pc \in {"save", "write"}

Remembering ==
  /\ Alone
  /\ \A t \in Threads : threads[t].pc # "idle" => Recording(threads[t])
  /\ main # "off" => recorded \subseteq objects[Cur]
  /\ main # "off" /\ ~Saving => stored = Json(objects[Cur])
  /\ DoneIsRemembered

LEMMA JsonIsItsText ==
  ASSUME Typed, Readable
  PROVE  stored = Json(stored.models)
  BY DEF Typed, TypeOK, StateFiles, Readable, Json, Empty, Garbled

LEMMA JsonReads ==
  ASSUME NEW models
  PROVE  Json(models).text = "json" /\ Json(models).models = models /\ Empty.text # "json"
  BY DEF Json, Empty

LEMMA InitRemembering == Init => Remembering
  BY IdleTyped DEF Init, Remembering, Alone, DoneIsRemembered

LEMMA MainRemembering ==
  ASSUME Typed, Remembering, Boot \/ ResetModels \/ PollEnds \/ PollDone \/ Quit
  PROVE  Remembering'
<1>1. ASSUME Dies PROVE Remembering'
  <2>1. \A t \in Threads : threads'[t].pc = "idle"
    BY <1>1, IdleTyped DEF Dies
  <2>2. DoneIsRemembered'
    BY <1>1 DEF Dies, Remembering, DoneIsRemembered, Readable
  <2> QED  BY <1>1, <2>1, <2>2 DEF Dies, Remembering, Alone
<1>2. CASE Boot
  <2>1. \A t \in Threads : threads'[t].pc = "idle"
    BY <1>2 DEF Boot, Remembering, Recording
  <2>2. stored' = stored /\ recorded' = recorded /\ objects'[Cur'] = stored.models
          /\ recorded \subseteq stored.models
    BY <1>2 DEF Boot, Remembering, DoneIsRemembered, Pickers, Cur
  <2>3. stored = Json(stored.models)
    BY <1>2, JsonIsItsText DEF Boot
  <2>4. DoneIsRemembered'
    BY <2>2 DEF DoneIsRemembered
  <2> QED  BY <2>1, <2>2, <2>3, <2>4 DEF Remembering, Alone
<1>3. CASE ResetModels
  <2>1. \A t \in Threads : threads'[t].pc = "idle"
    BY <1>3 DEF ResetModels, Remembering, Recording
  <2>2. DoneIsRemembered'
    BY <1>3 DEF ResetModels, DoneIsRemembered
  <2> QED  BY <1>3, <2>1, <2>2 DEF ResetModels, Remembering, Alone
<1>4. CASE PollDone
  <2>1. \A t \in Threads : threads'[t].pc = "idle"
    BY <1>4 DEF PollDone, Remembering, Recording
  <2>2. stored' = stored /\ recorded' = recorded /\ objects'[Cur'] = stored.models
          /\ recorded \subseteq stored.models
    BY <1>4 DEF PollDone, Remembering, DoneIsRemembered, Pickers, Cur, Typed, TypeOK
  <2>3. stored = Json(stored.models)
    BY <1>4, JsonIsItsText DEF PollDone
  <2>4. DoneIsRemembered'
    BY <2>2 DEF DoneIsRemembered
  <2> QED  BY <2>1, <2>2, <2>3, <2>4 DEF Remembering, Alone
<1> QED
  BY <1>1, <1>2, <1>3, <1>4 DEF PollEnds, Quit

LEMMA StartRemembering ==
  ASSUME Overlap = "handoff", Typed, Remembering, NEW t \in Threads, NEW p \in Pickers,
         NEW tier \in Tiers, StartDownload(t, p, tier)
  PROVE  Remembering'
<1>1. /\ threads'[t].pc = "begin" /\ threads'[t].picker = p
      /\ \A u \in Threads \ {t} : threads'[u] = threads[u]
  BY Started
<1>2. \A u \in Threads : threads[u].pc = "idle"
  BY DEF StartDownload, MayStart, Running
<1>3. p = "first" => shown[p] # "done"
  BY DEF StartDownload, MayStart
<1>4. UNCHANGED <<main, objects, shown, stored, recorded>>
  BY DEF StartDownload
<1>5. main # "off" /\ p = Cur
  BY DEF StartDownload, Pickers, Cur
<1>6. Alone'
  BY <1>1, <1>2 DEF Alone
<1>7. ~Saving /\ ~Saving'
  BY <1>1, <1>2 DEF Saving
<1>8. Recording(threads[t])'
  BY <1>1, <1>3, <1>4, <1>5 DEF Recording, Cur
<1> QED
  BY <1>1, <1>2, <1>4, <1>6, <1>7, <1>8 DEF Remembering, DoneIsRemembered, Readable, Cur

\* The one thread that runs, before and after a step of it.
LEMMA OneRuns ==
  ASSUME Typed, Remembering, NEW t \in Threads, ThreadStep(t)
  PROVE  /\ \A u \in Threads \ {t} : threads[u].pc = "idle" /\ threads'[u].pc = "idle"
         /\ Alone'
         /\ Saving <=> threads[t].pc \in {"save", "write"}
         /\ Saving' <=> threads'[t].pc \in {"save", "write"}
         /\ Recording(threads[t])
         /\ main # "off"
         /\ threads'[t].pc # "idle" => /\ threads'[t].tier = threads[t].tier
                                      /\ threads'[t].picker = threads[t].picker
<1>1. KeepsTask(t)
  BY TaskKept
<1>2. \A u \in Threads \ {t} : threads[u].pc = "idle" /\ threads'[u].pc = "idle"
  BY <1>1 DEF KeepsTask, Remembering, Alone
<1>3. Recording(threads[t]) /\ main # "off"
  BY <1>1 DEF KeepsTask, Remembering, Recording
<1>4. Alone'
  BY <1>2 DEF Alone
<1> QED
  BY <1>1, <1>2, <1>3, <1>4, IdleTyped DEF KeepsTask, Saving

\* Between the steps of the record.
LEMMA StepOffRecord ==
  ASSUME Typed, Remembering, NEW t \in Threads, ThreadStep(t),
         UNCHANGED <<main, objects, stored, recorded>>,
         threads[t].pc \notin {"save", "write"}, threads'[t].pc \notin {"save", "write"},
         threads'[t].pc = "finish" => threads[t].tier \in objects[Cur],
         threads'[t].pc # "idle" => (shown'["first"] = "done" => shown["first"] = "done")
  PROVE  Remembering'
<1>1. /\ Alone' /\ ~Saving /\ ~Saving' /\ Recording(threads[t]) /\ main # "off"
      /\ \A u \in Threads \ {t} : threads'[u].pc = "idle"
      /\ threads'[t].pc # "idle" => /\ threads'[t].tier = threads[t].tier
                                   /\ threads'[t].picker = threads[t].picker
  BY OneRuns
<1>2. ASSUME threads'[t].pc # "idle" PROVE Recording(threads[t])'
  <2>1. main' = main /\ objects' = objects
    OBVIOUS
  <2>2. threads[t].picker = Cur /\ threads'[t].picker = threads[t].picker
          /\ threads'[t].tier = threads[t].tier
    BY <1>1, <1>2 DEF Recording
  <2>3. Cur' = Cur
    BY <2>1 DEF Cur
  <2>4. ~(main' = "wait" /\ shown'["first"] = "done")
    BY <1>1, <1>2, <2>1 DEF Recording
  <2>5. threads'[t].pc = "finish" => threads'[t].tier \in objects'[Cur']
    BY <2>1, <2>2, <2>3
  <2> QED  BY <1>1, <2>1, <2>2, <2>3, <2>4, <2>5 DEF Recording
<1>3. DoneIsRemembered'
  BY DEF Remembering, DoneIsRemembered, Readable
<1> QED
  BY <1>1, <1>2, <1>3 DEF Remembering, Cur

LEMMA RecordRemembering ==
  ASSUME Typed, Remembering, NEW t \in Threads, Record(t),
         threads[t].tier \notin objects[threads[t].picker]
  PROVE  Remembering'
<1> DEFINE list == objects[threads[t].picker] \union {threads[t].tier}
<1>1. /\ Moved(t, [threads[t] EXCEPT !.pc = "save", !.snapshot = list])
      /\ objects' = [objects EXCEPT ![threads[t].picker] = list]
  BY Records
<1>2. threads[t].picker = Cur /\ Cur \in Pickers /\ ~Saving /\ main # "off"
        /\ Recording(threads[t])
  BY OneRuns DEF Recording, Record, ThreadStep, Pickers, Cur
<1>3. /\ UNCHANGED <<main, shown, stored, recorded>>
      /\ stored = Json(objects[Cur]) /\ recorded \subseteq objects[Cur]
  BY <1>2 DEF Record, Remembering
<1>4. objects'[Cur] = list /\ objects[Cur] \subseteq list /\ threads[t].tier \in list
  BY <1>1, <1>2 DEF Typed, TypeOK
<1> HIDE DEF list
<1>5. /\ threads'[t].pc = "save" /\ threads'[t].snapshot = list
      /\ threads'[t].tier = threads[t].tier /\ threads'[t].picker = threads[t].picker
  BY <1>1, DiskTyped DEF Moved, ThreadState
<1>6. Alone' /\ Saving' /\ \A u \in Threads \ {t} : threads'[u].pc = "idle"
  BY <1>5, OneRuns DEF ThreadStep
<1>7. Readable /\ stored.models = objects[Cur]
  BY <1>3, JsonReads DEF Readable
<1>8. Recording(threads[t])'
  BY <1>2, <1>3, <1>4, <1>5, <1>7 DEF Recording, Readable, Cur
<1>9. DoneIsRemembered'
  BY <1>3 DEF Remembering, DoneIsRemembered, Readable
<1> QED
  BY <1>3, <1>4, <1>6, <1>8, <1>9 DEF Remembering, Cur

LEMMA SaveRemembering ==
  ASSUME Typed, Remembering, NEW t \in Threads, SaveOpens(t) \/ SaveWrites(t)
  PROVE  Remembering'
<1>1. /\ UNCHANGED <<main, objects, shown, recorded>>
      /\ main # "off" /\ Recording(threads[t])
      /\ recorded \subseteq objects[Cur]
      /\ threads[t] \in ThreadState
  BY OneRuns, DiskTyped DEF SaveOpens, SaveWrites, ThreadStep, Remembering
<1>2. CASE SaveOpens(t)
  <2>1. Moved(t, [threads[t] EXCEPT !.pc = "write"])
    BY <1>2, Goes DEF SaveOpens, Steps
  <2>2. /\ threads'[t].pc = "write" /\ threads'[t].tier = threads[t].tier
        /\ threads'[t].picker = threads[t].picker
        /\ threads'[t].snapshot = threads[t].snapshot
    BY <1>1, <2>1 DEF Moved, ThreadState
  <2>3. stored' = Empty /\ threads[t].pc = "save"
    BY <1>2 DEF SaveOpens
  <2>4. Alone' /\ Saving' /\ \A u \in Threads \ {t} : threads'[u].pc = "idle"
    BY <1>2, <2>2, OneRuns DEF ThreadStep
  <2>5. Recording(threads[t])'
    BY <1>1, <2>2, <2>3 DEF Recording, Cur
  <2>6. DoneIsRemembered'
    BY <2>3, JsonReads DEF DoneIsRemembered, Readable
  <2> QED  BY <1>1, <2>4, <2>5, <2>6 DEF Remembering, Cur
<1>3. CASE SaveWrites(t)
  <2>1. Moved(t, [threads[t] EXCEPT !.pc = "finish"])
    BY <1>3, Goes DEF SaveWrites, Steps
  <2>2. /\ threads'[t].pc = "finish" /\ threads'[t].tier = threads[t].tier
        /\ threads'[t].picker = threads[t].picker
    BY <1>1, <2>1 DEF Moved, ThreadState
  <2>3. stored = Empty /\ threads[t].snapshot = objects[Cur] /\ threads[t].tier \in objects[Cur]
    BY <1>1, <1>3 DEF Recording, SaveWrites
  <2>4. stored' = Json(objects[Cur])
    BY <1>3, <2>3 DEF SaveWrites, Overwritten
  <2>5. Alone' /\ \A u \in Threads \ {t} : threads'[u].pc = "idle"
    BY <1>3, OneRuns DEF ThreadStep
  <2>6. Recording(threads[t])'
    BY <1>1, <2>2, <2>3 DEF Recording, Cur
  <2>7. DoneIsRemembered'
    BY <1>1, <2>4, JsonReads DEF DoneIsRemembered
  <2> QED  BY <1>1, <2>4, <2>5, <2>6, <2>7 DEF Remembering, Cur
<1> QED
  BY <1>2, <1>3

LEMMA FinishRemembering ==
  ASSUME Typed, Remembering, NEW t \in Threads, Finish(t)
  PROVE  Remembering'
<1>1. /\ UNCHANGED <<main, objects, stored>> /\ recorded' = recorded \union {threads[t].tier}
      /\ threads[t].pc = "finish" /\ threads'[t].pc = "idle"
  <2>1. threads'[t] = Idle
    BY IdleTyped, Moves DEF Finish, Moved
  <2> QED  BY <2>1, IdleTyped DEF Finish
<1>2. /\ main # "off" /\ Recording(threads[t]) /\ ~Saving /\ Alone'
      /\ \A u \in Threads : threads'[u].pc = "idle"
  BY <1>1, OneRuns DEF ThreadStep
<1>3. stored = Json(objects[Cur]) /\ recorded' \subseteq objects[Cur]
  BY <1>1, <1>2 DEF Remembering, Recording
<1>4. DoneIsRemembered'
  BY <1>1, <1>3, JsonReads DEF DoneIsRemembered
<1> QED
  BY <1>1, <1>2, <1>3, <1>4 DEF Remembering, Cur

LEMMA StepRemembering ==
  ASSUME "save" \notin Faults, Typed, Remembering, NEW t \in Threads, ThreadStep(t)
  PROVE  Remembering'
<1>1. threads[t] \in ThreadState /\ threads[t].picker = Cur
  BY OneRuns, DiskTyped DEF Recording
<1>2. ASSUME Fails(t) PROVE threads'[t].pc = "idle"
  BY <1>2, GivesUp, IdleTyped DEF Moved
<1>3. ASSUME NEW pc \in Steps \ {"idle", "begin", "stat", "request", "read"}, Goto(t, pc)
      PROVE  threads'[t].pc = pc
  <2>1. Moved(t, [threads[t] EXCEPT !.pc = pc])
    BY <1>3, Goes
  <2> QED  BY <1>1, <2>1 DEF Moved, ThreadState
<1>4. CASE Begin(t)
  <2>1. threads[t].pc = "begin" /\ threads'[t].pc = "stat"
    BY <1>1, <1>4, Begins DEF Begin, Moved, ThreadState
  <2>2. shown'["first"] = "done" => shown["first"] = "done"
    BY <1>4 DEF Begin, Typed, TypeOK
  <2> QED  BY <1>4, <2>1, <2>2, StepOffRecord DEF Begin
<1>5. CASE StatPartial(t)
  <2>1. threads'[t].pc = "request"
    <3>1. threads'[t] =
            [threads[t] EXCEPT !.pc = "request", !.from = ResumeFrom(threads[t].tier)]
      BY <1>5, Stats DEF Moved
    <3> QED  BY <1>1, <3>1 DEF ThreadState
  <2> QED  BY <1>5, <2>1, StepOffRecord DEF StatPartial
<1>6. CASE RequestAnswered(t)
  <2>1. PICK first \in 1 .. Length, i \in Inodes : Answered(t, first, i)
    BY <1>6, Answers
  <2>2. threads'[t].pc = "read"
    BY <1>1, <2>1 DEF Answered, Moved, ThreadState
  <2> QED  BY <1>6, <2>2, StepOffRecord DEF RequestAnswered
<1>7. CASE RequestFails(t) \/ BodyFails(t) \/ Discard(t) \/ PartialGone(t)
  BY <1>2, <1>7, StepOffRecord DEF RequestFails, BodyFails, Discard, PartialGone
<1>8. CASE ReadChunk(t)
  <2>1. Moved(t, [threads[t] EXCEPT !.next = threads[t].next + 1, !.pos = threads[t].pos + 1])
    BY <1>8, Reads
  <2>2. threads'[t].pc = "read"
    BY <1>1, <1>8, <2>1 DEF Moved, ThreadState, ReadChunk
  <2> QED  BY <1>8, <2>2, StepOffRecord DEF ReadChunk
<1>9. CASE BodyEnds(t)
  <2>1. threads'[t].pc = "verify"
    <3>1. threads'[t] = [threads[t] EXCEPT !.pc = "verify", !.inode = NoInode]
      BY <1>9, Ends DEF Moved
    <3> QED  BY <1>1, <3>1 DEF ThreadState
  <2> QED  BY <1>9, <2>1, StepOffRecord DEF BodyEnds
<1>10. CASE Verify(t)
  <2>1. threads'[t].pc \in {"replace", "discard"}
    BY <1>3, <1>10 DEF Verify, Steps
  <2> QED  BY <1>10, <2>1, StepOffRecord DEF Verify
<1>11. CASE Replace(t)
  <2>1. threads'[t].pc = "record"
    BY <1>3, <1>11 DEF Replace, Steps
  <2> QED  BY <1>11, <2>1, StepOffRecord DEF Replace
<1>12. CASE Record(t) /\ threads[t].tier \in objects[threads[t].picker]
  <2>1. threads'[t].pc = "finish"
    BY <1>3, <1>12 DEF Record, Steps
  <2> QED  BY <1>1, <1>12, <2>1, StepOffRecord DEF Record
<1>13. CASE Record(t) /\ threads[t].tier \notin objects[threads[t].picker]
  BY <1>13, RecordRemembering
<1>14. CASE SaveFails(t)
  BY <1>14 DEF SaveFails
<1> QED
  BY <1>4, <1>5, <1>6, <1>7, <1>8, <1>9, <1>10, <1>11, <1>12, <1>13, <1>14,
     SaveRemembering,
     FinishRemembering DEF ThreadStep

LEMMA RememberingKept ==
  Overlap = "handoff" /\ "save" \notin Faults /\ Typed /\ Remembering /\ [Next]_vars
    => Remembering'
<1> SUFFICES ASSUME Overlap = "handoff", "save" \notin Faults, Typed, Remembering, [Next]_vars
             PROVE  Remembering'
  OBVIOUS
<1>1. CASE Next
  BY <1>1, MainRemembering, StartRemembering, StepRemembering DEF Next
<1>2. CASE UNCHANGED vars
  BY <1>2 DEF Remembering, Alone, Recording, Saving, DoneIsRemembered, Readable, Cur,
     vars, disk
<1> QED
  BY <1>1, <1>2

\* What the page was told is installed is in state.json whenever that can be read,
\* through every death of the process, as long as state.json can be written and
\* the page lets one download run at a time and none after the first picker's done
\* (progress.html leaves for /done; start_download would take another).
THEOREM DoneStaysRecorded ==
  Overlap = "handoff" /\ "save" \notin Faults => (Spec => []DoneIsRemembered)
<1> SUFFICES ASSUME Overlap = "handoff", "save" \notin Faults
             PROVE  Spec => []DoneIsRemembered
  OBVIOUS
<1>1. Remembering => DoneIsRemembered
  BY DEF Remembering
<1>2. Typed /\ Remembering /\ [Next]_vars => Remembering'
  BY RememberingKept
<1> QED
  BY <1>1, <1>2, InitRemembering, AlwaysTyped, PTL DEF Spec

-------------------------------------------------------------------------------
(***************************************************************************)
(* A part of a model is kept until it is the model.                        *)
(***************************************************************************)

Part(content) == \E n \in 0 .. Length : content = SubSeq(Whole, 1, n)

LEMMA WholeIsAPart ==
  /\ Whole \in Seq(1 .. Length) /\ Len(Whole) = Length /\ SubSeq(Whole, 1, Length) = Whole
  /\ \A n \in 0 .. Length : /\ SubSeq(Whole, 1, n) \in Seq(1 .. Length)
                            /\ Len(SubSeq(Whole, 1, n)) = n
                            /\ \A j \in 1 .. n : SubSeq(Whole, 1, n)[j] = j
<1>1. Whole \in [1 .. Length -> 1 .. Length]
  BY DEF Whole
<1>2. Whole \in Seq(1 .. Length) /\ Len(Whole) = Length
  BY <1>1, LengthAssumption, FunctionIsSequence
<1>3. \A j \in 1 .. Length : Whole[j] = j
  BY DEF Whole
<1>4. ASSUME NEW n \in 0 .. Length
      PROVE  /\ SubSeq(Whole, 1, n) \in Seq(1 .. Length)
             /\ Len(SubSeq(Whole, 1, n)) = n
             /\ \A j \in 1 .. n : SubSeq(Whole, 1, n)[j] = j
  BY <1>2, <1>3, LengthAssumption
<1>5. SubSeq(Whole, 1, Length) = Whole
  BY <1>2, LengthAssumption
<1> QED
  BY <1>2, <1>4, <1>5

\* A part is what counts up from 1.
LEMMA PartCounts ==
  ASSUME NEW content \in Seq(0 .. Length)
  PROVE  Part(content) <=> /\ Len(content) <= Length
                           /\ \A j \in 1 .. Len(content) : content[j] = j
<1>1. ASSUME Part(content)
      PROVE  Len(content) <= Length /\ \A j \in 1 .. Len(content) : content[j] = j
  BY <1>1, WholeIsAPart, LengthAssumption DEF Part
<1>2. ASSUME Len(content) <= Length, \A j \in 1 .. Len(content) : content[j] = j
      PROVE  Part(content)
  <2>1. Len(content) \in 0 .. Length
    BY <1>2, LengthAssumption
  <2>2. content = SubSeq(Whole, 1, Len(content))
    <3>1. SubSeq(Whole, 1, Len(content)) \in Seq(1 .. Length)
            /\ Len(SubSeq(Whole, 1, Len(content))) = Len(content)
            /\ \A j \in 1 .. Len(content) : SubSeq(Whole, 1, Len(content))[j] = j
      BY <2>1, WholeIsAPart
    <3> HIDE DEF Whole
    <3> QED  BY <1>2, <3>1
  <2> QED  BY <2>1, <2>2 DEF Part
<1> QED
  BY <1>1, <1>2

\* What a chunk appended to a file makes of it.
LEMMA AppendedPart ==
  ASSUME NEW content \in Seq(0 .. Length), NEW chunk \in 1 .. Length
  PROVE  /\ Append(content, chunk) \in Seq(0 .. Length)
         /\ Len(Append(content, chunk)) = Len(content) + 1
         /\ Part(content) /\ chunk = Len(content) + 1 => Part(Append(content, chunk))
         /\ Part(Append(content, chunk)) => Part(content) /\ chunk = Len(content) + 1
<1> DEFINE more == Append(content, chunk)
<1>1. /\ more \in Seq(0 .. Length) /\ Len(more) = Len(content) + 1 /\ Len(content) \in Nat
      /\ more[Len(content) + 1] = chunk
      /\ \A j \in 1 .. Len(content) : more[j] = content[j]
  BY LengthAssumption
<1>2. Part(more) <=> Len(more) <= Length /\ \A j \in 1 .. Len(more) : more[j] = j
  BY <1>1, PartCounts
<1>3. Part(content) <=> Len(content) <= Length /\ \A j \in 1 .. Len(content) : content[j] = j
  BY PartCounts
<1> HIDE DEF more
<1>4. ASSUME Part(content), chunk = Len(content) + 1 PROVE Part(more)
  <2>1. Len(more) <= Length
    BY <1>1, <1>4
  <2>2. ASSUME NEW j \in 1 .. Len(more) PROVE more[j] = j
    BY <1>1, <1>3, <1>4
  <2> QED  BY <1>2, <2>1, <2>2
<1>5. ASSUME Part(more) PROVE Part(content) /\ chunk = Len(content) + 1
  BY <1>1, <1>2, <1>3, <1>5, LengthAssumption
<1> QED
  BY <1>1, <1>4, <1>5 DEF more

\* A write at the end of a file appends.
LEMMA WriteAtEnd ==
  ASSUME NEW content \in Seq(0 .. Length), NEW chunk \in 1 .. Length
  PROVE  WriteAt(content, Len(content), chunk) = Append(content, chunk)
<1> DEFINE n == Len(content)
           written == WriteAt(content, n, chunk)
           more == Append(content, chunk)
<1>1. n \in Nat /\ ~(n > n) /\ \A k \in 1 .. n : content[k] \in 0 .. Length
  <2>1. n \in Nat
    OBVIOUS
  <2>2. \A k \in 1 .. Len(content) : content[k] \in 0 .. Length
    BY ElementOf
  <2> HIDE DEF n
  <2> QED  BY <2>1, <2>2 DEF n
<1>2. written = [k \in 1 .. n + 1 |->
                   IF k = n + 1 THEN chunk ELSE IF k <= n THEN content[k] ELSE 0]
  BY <1>1 DEF WriteAt
<1>3. more \in Seq(0 .. Length) /\ Len(more) = n + 1 /\ more[n + 1] = chunk
        /\ \A k \in 1 .. n : more[k] = content[k]
  BY LengthAssumption
<1> HIDE DEF n, written, more
<1>4. /\ written \in [1 .. n + 1 -> 0 .. Length]
      /\ \A k \in 1 .. n + 1 : written[k] = IF k = n + 1 THEN chunk ELSE content[k]
  BY <1>1, <1>2, LengthAssumption
<1>5. written \in Seq(0 .. Length) /\ Len(written) = n + 1
  <2>1. n + 1 \in Nat
    BY <1>1
  <2> QED  BY <1>4, <2>1, FunctionIsSequence
<1>6. \A k \in 1 .. n + 1 : written[k] = more[k]
  BY <1>1, <1>3, <1>4
<1> QED
  BY <1>3, <1>5, <1>6 DEF n, written, more

\* What is at a thread's .partial: what it asked to be continued; then the part
\* received so far, or something that is no part and cannot become one (the whole
\* model behind what was there, when a server ignores the range).
Resumable(th) ==
  LET there == partial[th.tier] IN
  /\ th.pc = "request" => th.from = ResumeFrom(th.tier)
  /\ th.pc = "read" =>
       \/ /\ Part(files[there]) /\ Len(files[there]) = th.next - 1
          /\ th.mode = "wb" => th.pos = th.next - 1
       \/ th.mode = "ab" /\ (~Part(files[there]) \/ (th.next = 1 /\ Len(files[there]) > 0))
  /\ th.pc = "verify" /\ there # NoInode => files[there] = Whole \/ ~Part(files[there])
  /\ th.pc = "discard" /\ there # NoInode /\ th.tier \in Pinned => ~Part(files[there])

Resuming == \A t \in Threads : Resumable(threads[t])

\* A step that touches no file but that of one tier leaves the other tiers' parts.
LEMMA OthersResume ==
  ASSUME Typed, Downloading, Resuming, NEW t \in Threads, NEW u \in Threads \ {t},
         threads[t].pc # "idle", threads'[u] = threads[u],
         \A k \in Tiers \ {threads[t].tier} :
            partial'[k] = partial[k] /\ (partial[k] # NoInode => files'[partial[k]] = files[partial[k]])
  PROVE  Resumable(threads[u])'
<1> DEFINE k == threads[u].tier
<1>1. k \in Tiers /\ (threads[u].pc # "idle" => k # threads[t].tier)
  BY DiskTyped DEF Downloading, OnePerTier
<1>2. threads[u].pc = "read" => partial[k] # NoInode
  BY DownloadAssumption DEF Downloading, Holds, Typed, Settled
<1>3. CASE threads[u].pc = "idle"
  BY <1>3 DEF Resumable
<1>4. CASE threads[u].pc # "idle"
  <2>1. partial'[k] = partial[k] /\ (partial[k] # NoInode => files'[partial[k]] = files[partial[k]])
    BY <1>1, <1>4
  <2>2. ResumeFrom(k)' = ResumeFrom(k)
    BY <2>1 DEF ResumeFrom
  <2>3. Resumable(threads[u])
    BY DEF Resuming
  <2>4. partial[k] # NoInode => Part(files[partial[k]])' = Part(files[partial[k]])
    BY <2>1 DEF Part
  <2>5. threads[u].pc = "request" => threads[u].from = ResumeFrom(k)'
    BY <2>2, <2>3 DEF Resumable
  <2> QED  BY <1>2, <2>1, <2>3, <2>4, <2>5 DEF Resumable
<1> QED
  BY <1>3, <1>4

\* A step that leaves the disk alone.
LEMMA StepResumes ==
  ASSUME Typed, Downloading, Resuming, NEW t \in Threads, ThreadStep(t), UNCHANGED disk,
         Resumable(threads[t])'
  PROVE  Resuming'
<1>1. threads[t].pc # "idle" /\ \A u \in Threads \ {t} : threads'[u] = threads[u]
  BY TaskKept DEF KeepsTask
<1>2. \A u \in Threads \ {t} : Resumable(threads[u])'
  BY <1>1, OthersResume DEF disk
<1> QED
  BY <1>2 DEF Resuming

LEMMA AnswerResumes ==
  ASSUME Typed, Downloading, Resuming, NEW t \in Threads, RequestAnswered(t)
  PROVE  Resuming'
<1>1. PICK first \in 1 .. Length, i \in Inodes : Answered(t, first, i)
  BY Answers
<1> DEFINE k == threads[t].tier
           from == threads[t].from
<1>2. /\ k \in Tiers /\ i # NoInode /\ partial' = [partial EXCEPT ![k] = i]
      /\ \A j \in Inodes \ {i} : files'[j] = files[j]
      /\ files' = IF from = 0 \/ partial[k] = NoInode THEN [files EXCEPT ![i] = <<>>] ELSE files
      /\ partial[k] # NoInode => i = partial[k]
  BY <1>1, DiskTyped, DownloadAssumption DEF Answered
<1>3. /\ threads[t].pc = "request" /\ threads'[t].pc = "read" /\ threads'[t].tier = k
      /\ threads'[t].next = first /\ threads'[t].pos = 0
      /\ threads'[t].mode = IF from > 0 THEN "ab" ELSE "wb"
      /\ \A u \in Threads \ {t} : threads'[u] = threads[u]
  BY <1>1, DiskTyped DEF Answered, Moved, ThreadState, Typed, Settled
<1>4. \A other \in Tiers \ {k} : i # partial[other]
  <2>1. CASE partial[k] = NoInode
    BY <1>1, <2>1 DEF Answered, InUse
  <2>2. CASE partial[k] # NoInode
    BY <1>2, <2>2 DEF Downloading, PartsApart
  <2> QED  BY <2>1, <2>2
<1>5. \A u \in Threads \ {t} : Resumable(threads[u])'
  BY <1>2, <1>3, <1>4, OthersResume, DiskTyped
<1>6. from = ResumeFrom(k) /\ from \in Nat
  BY <1>3, DiskTyped DEF Resuming, Resumable, ThreadState
<1>7. (from < Length /\ first = from + 1) \/ (from > 0 /\ first = 1)
  BY <1>1 DEF Answered, FirstChunks
<1>8. Resumable(threads[t])'
  <2>1. partial'[k] = i
    BY <1>2, DiskTyped
  <2>2. CASE from = 0 \/ partial[k] = NoInode
    <3>1. from = 0
      BY <1>6, <2>2 DEF ResumeFrom
    <3>2. files'[i] = <<>>
      BY <1>2, <2>2, DiskTyped
    <3>3. Part(<<>>) /\ Len(<<>>) = 0
      <4>1. <<>> \in Seq(0 .. Length) /\ Len(<<>>) = 0
        OBVIOUS
      <4>2. Len(<<>>) <= Length /\ \A j \in 1 .. Len(<<>>) : <<>>[j] = j
        BY <4>1, LengthAssumption
      <4> QED  BY <4>1, <4>2, PartCounts
    <3>4. first = 1
      BY <1>7, <3>1
    <3>5. Part(files'[i]) /\ Len(files'[i]) = 0
      BY <3>2, <3>3
    <3>6. Part(files[partial[threads[t].tier]])' /\ Len(files'[partial'[threads'[t].tier]]) = 0
      BY <1>3, <2>1, <3>5 DEF Part
    <3> QED  BY <1>3, <3>4, <3>6 DEF Resumable
  <2>3. CASE from # 0 /\ partial[k] # NoInode
    <3>1. /\ from > 0 /\ files' = files /\ i = partial[k] /\ from = Len(files[i])
          /\ threads'[t].mode = "ab"
      BY <1>2, <1>3, <1>6, <2>3 DEF ResumeFrom
    <3>2. files'[partial'[threads'[t].tier]] = files[i]
      BY <1>3, <2>1, <3>1
    <3>3. CASE first = 1
      BY <1>3, <3>1, <3>2, <3>3 DEF Resumable
    <3>4. CASE first = from + 1
      <4>1. Len(files'[partial'[threads'[t].tier]]) = threads'[t].next - 1
        BY <1>3, <1>6, <3>1, <3>2, <3>4
      <4> QED  BY <1>3, <3>1, <4>1 DEF Resumable
    <3> QED  BY <1>7, <3>3, <3>4
  <2> QED  BY <2>2, <2>3
<1> QED
  BY <1>5, <1>8 DEF Resuming

LEMMA ReadResumes ==
  ASSUME Typed, Downloading, Resuming, NEW t \in Threads, ReadChunk(t)
  PROVE  Resuming'
<1> DEFINE k == threads[t].tier
           i == threads[t].inode
           next == threads[t].next
           content == files[i]
           more == Append(content, next)
<1>1. /\ k \in Tiers /\ i = partial[k] /\ i \in Inodes /\ i # NoInode
      /\ next \in 1 .. Length /\ threads[t] \in ThreadState /\ threads[t].pc = "read"
  BY DiskTyped, DownloadAssumption DEF Typed, Settled, Downloading, Holds, ReadChunk,
     ThreadState
<1>2. /\ partial' = partial /\ files'[i] = Written(threads[t])
      /\ \A j \in Inodes \ {i} : files'[j] = files[j]
  BY <1>1, DiskTyped DEF ReadChunk
<1>3. /\ threads'[t].pc = "read" /\ threads'[t].tier = k /\ threads'[t].next = next + 1
      /\ threads'[t].pos = threads[t].pos + 1 /\ threads'[t].mode = threads[t].mode
      /\ \A u \in Threads \ {t} : threads'[u] = threads[u]
  <2>1. Moved(t, [threads[t] EXCEPT !.next = threads[t].next + 1, !.pos = threads[t].pos + 1])
    BY Reads
  <2> QED  BY <1>1, <2>1 DEF Moved, ThreadState
<1>4. \A other \in Tiers \ {k} : i # partial[other]
  BY <1>1 DEF Downloading, PartsApart
<1>5. \A u \in Threads \ {t} : Resumable(threads[u])'
  BY <1>1, <1>2, <1>3, <1>4, OthersResume, DiskTyped
<1>6. content \in Seq(0 .. Length)
  BY <1>1, DiskTyped
<1>7. /\ more \in Seq(0 .. Length) /\ Len(more) = Len(content) + 1 /\ Len(content) \in Nat
      /\ Part(content) /\ next = Len(content) + 1 => Part(more)
      /\ Part(more) => Part(content) /\ next = Len(content) + 1
  <2>1. next \in 1 .. Length
    BY <1>1
  <2> HIDE DEF content, next
  <2> QED  BY <1>6, <2>1, AppendedPart
<1>8. \/ /\ Part(content) /\ Len(content) = next - 1
         /\ threads[t].mode = "wb" => threads[t].pos = next - 1
      \/ threads[t].mode = "ab" /\ (~Part(content) \/ (next = 1 /\ Len(content) > 0))
  BY <1>1 DEF Resuming, Resumable
<1>9. Written(threads[t]) = more
  <2>1. CASE threads[t].mode = "ab"
    BY <2>1 DEF Written
  <2>2. CASE threads[t].mode # "ab"
    <3>1. threads[t].pos = Len(content)
      BY <1>1, <1>8, <2>2 DEF ThreadState
    <3> QED  BY <1>1, <1>6, <2>2, <3>1, WriteAtEnd DEF Written
  <2> QED  BY <2>1, <2>2
<1>10. files'[partial'[threads'[t].tier]] = more
  BY <1>1, <1>2, <1>3, <1>9
<1> HIDE DEF more, content, next
<1>11. \/ /\ Part(more) /\ Len(more) = (next + 1) - 1
          /\ threads'[t].mode = "wb" => threads'[t].pos = (next + 1) - 1
       \/ threads'[t].mode = "ab" /\ ~Part(more)
  BY <1>1, <1>3, <1>7, <1>8
<1>12. Resumable(threads[t])'
  BY <1>3, <1>10, <1>11 DEF Resumable, Part
<1> QED
  BY <1>5, <1>12 DEF Resuming

LEMMA LeaveResumes ==
  ASSUME Typed, Downloading, Resuming, NEW t \in Threads, Discard(t) \/ Replace(t)
  PROVE  Resuming'
<1>1. threads[t].pc # "idle" /\ threads'[t].pc \in {"idle", "record"}
        /\ \A u \in Threads \ {t} : threads'[u] = threads[u]
  <2>1. CASE Discard(t)
    BY <2>1, GivesUp, IdleTyped DEF Discard, Moved
  <2>2. CASE Replace(t)
    <3>1. threads[t] \in ThreadState /\ threads[t].pc = "replace"
      BY <2>2, DiskTyped DEF Replace
    <3>2. Moved(t, [threads[t] EXCEPT !.pc = "record"])
      BY <2>2, Goes DEF Replace, Steps
    <3> QED  BY <3>1, <3>2 DEF Moved, ThreadState
  <2> QED  BY <2>1, <2>2
<1>2. files' = files /\ \A k \in Tiers \ {threads[t].tier} : partial'[k] = partial[k]
  BY DiskTyped DEF Discard, Replace
<1>3. \A u \in Threads \ {t} : Resumable(threads[u])'
  BY <1>1, <1>2, OthersResume
<1>4. Resumable(threads[t])'
  BY <1>1 DEF Resumable
<1> QED
  BY <1>3, <1>4 DEF Resuming

LEMMA StepResuming ==
  ASSUME "short" \notin Faults, Typed, Downloading, Resuming, NEW t \in Threads, ThreadStep(t)
  PROVE  Resuming'
<1>1. threads[t] \in ThreadState
  BY DiskTyped
<1>2. ASSUME threads'[t].pc \notin {"request", "read", "verify", "discard"}, UNCHANGED disk
      PROVE  Resuming'
  BY <1>2, StepResumes DEF Resumable
<1>3. ASSUME Fails(t) PROVE threads'[t].pc = "idle"
  BY <1>3, GivesUp, IdleTyped DEF Moved
<1>4. ASSUME NEW pc \in Steps \ {"idle", "begin", "stat", "request", "read"}, Goto(t, pc)
      PROVE  threads'[t].pc = pc /\ threads'[t].tier = threads[t].tier
  <2>1. Moved(t, [threads[t] EXCEPT !.pc = pc])
    BY <1>4, Goes
  <2> QED  BY <1>1, <2>1 DEF Moved, ThreadState
<1>5. CASE Begin(t)
  <2>1. threads'[t].pc = "stat"
    BY <1>1, <1>5, Begins DEF Moved, ThreadState
  <2> QED  BY <1>2, <1>5, <2>1 DEF Begin
<1>6. CASE StatPartial(t)
  <2>1. /\ threads'[t].pc = "request" /\ threads'[t].tier = threads[t].tier
        /\ threads'[t].from = ResumeFrom(threads[t].tier)
    <3>1. threads'[t] =
            [threads[t] EXCEPT !.pc = "request", !.from = ResumeFrom(threads[t].tier)]
      BY <1>6, Stats DEF Moved
    <3> QED  BY <1>1, <3>1 DEF ThreadState
  <2>2. UNCHANGED disk
    BY <1>6 DEF StatPartial
  <2>3. ResumeFrom(threads[t].tier)' = threads'[t].from
    BY <2>1, <2>2 DEF ResumeFrom, disk
  <2>4. Resumable(threads[t])'
    BY <2>1, <2>3 DEF Resumable
  <2> QED  BY <2>2, <2>4, StepResumes
<1>7. CASE RequestFails(t) \/ BodyFails(t) \/ PartialGone(t) \/ SaveFails(t)
  BY <1>2, <1>3, <1>7 DEF RequestFails, BodyFails, PartialGone, SaveFails
<1>8. CASE BodyEnds(t)
  <2> DEFINE content == files[partial[threads[t].tier]]
  <2>1. /\ threads'[t].pc = "verify" /\ threads'[t].tier = threads[t].tier
    <3>1. threads'[t] = [threads[t] EXCEPT !.pc = "verify", !.inode = NoInode]
      BY <1>8, Ends DEF Moved
    <3> QED  BY <1>1, <3>1 DEF ThreadState
  <2>2. threads[t].pc = "read" /\ threads[t].next = Length + 1 /\ UNCHANGED disk
    BY <1>1, <1>8, LengthAssumption DEF BodyEnds, ThreadState
  <2>3. content = Whole \/ ~Part(content)
    <3>1. (Part(content) /\ Len(content) = Length) \/ ~Part(content)
      BY <2>2, LengthAssumption DEF Resuming, Resumable
    <3>2. ASSUME Part(content), Len(content) = Length PROVE content = Whole
      <4>1. PICK n \in 0 .. Length : content = SubSeq(Whole, 1, n)
        BY <3>2 DEF Part
      <4>2. n = Length
        BY <3>2, <4>1, WholeIsAPart
      <4> QED  BY <4>1, <4>2, WholeIsAPart
    <3> QED  BY <3>1, <3>2
  <2>4. Resumable(threads[t])'
    BY <2>1, <2>2, <2>3 DEF Resumable, disk, Part
  <2> QED  BY <2>2, <2>4, StepResumes
<1>9. CASE Verify(t)
  <2> DEFINE there == partial[threads[t].tier]
  <2>1. threads[t].pc = "verify" /\ there # NoInode /\ UNCHANGED disk
    BY <1>9 DEF Verify
  <2>2. CASE HashMatches(threads[t].tier, files[there])
    <3>1. threads'[t].pc = "replace"
      BY <1>4, <1>9, <2>2 DEF Verify, Steps
    <3> QED  BY <1>2, <2>1, <3>1
  <2>3. CASE ~HashMatches(threads[t].tier, files[there])
    <3>1. threads'[t].pc = "discard" /\ threads'[t].tier = threads[t].tier
      BY <1>4, <1>9, <2>3 DEF Verify, Steps
    <3>2. threads[t].tier \in Pinned => ~Part(files[there])
      BY <2>1, <2>3 DEF Resuming, Resumable, HashMatches
    <3>3. Resumable(threads[t])'
      BY <2>1, <3>1, <3>2 DEF Resumable, disk, Part
    <3> QED  BY <2>1, <3>3, StepResumes
  <2> QED  BY <2>2, <2>3
<1>10. CASE Record(t)
  <2>1. CASE threads[t].tier \in objects[threads[t].picker]
    BY <1>2, <1>4, <1>10, <2>1 DEF Record, Steps
  <2>2. CASE threads[t].tier \notin objects[threads[t].picker]
    <3> DEFINE list == objects[threads[t].picker] \union {threads[t].tier}
    <3>1. Moved(t, [threads[t] EXCEPT !.pc = "save", !.snapshot = list])
      BY <1>10, <2>2, Records
    <3> HIDE DEF list
    <3>2. threads'[t].pc = "save" /\ UNCHANGED disk
      BY <1>1, <1>10, <3>1 DEF Moved, ThreadState, Record
    <3> QED  BY <1>2, <3>2
  <2> QED  BY <2>1, <2>2
<1>11. CASE SaveOpens(t) \/ SaveWrites(t)
  BY <1>2, <1>4, <1>11 DEF SaveOpens, SaveWrites, Steps
<1>12. CASE Finish(t)
  <2>1. threads'[t].pc = "idle"
    BY <1>12, IdleTyped, Moves DEF Finish, Moved
  <2> QED  BY <1>2, <1>12, <2>1 DEF Finish
<1> QED
  BY <1>5, <1>6, <1>7, <1>8, <1>9, <1>10, <1>11, <1>12, AnswerResumes, ReadResumes,
     LeaveResumes
     DEF ThreadStep

LEMMA ResumingKept ==
  "short" \notin Faults /\ Typed /\ Downloading /\ Resuming /\ [Next]_vars => Resuming'
<1> SUFFICES ASSUME "short" \notin Faults, Typed, Downloading, Resuming, [Next]_vars
             PROVE  Resuming'
  OBVIOUS
<1>1. CASE Boot \/ ResetModels \/ PollEnds \/ PollDone \/ Quit
  <2>1. UNCHANGED disk
    BY <1>1 DEF Boot, ResetModels, PollEnds, PollDone, Quit, Dies
  <2>2. \A t \in Threads : threads'[t] \in {threads[t], Idle}
    BY <1>1 DEF Boot, ResetModels, PollEnds, PollDone, Quit, Dies, Typed, TypeOK
  <2> QED  BY <2>1, <2>2, IdleTyped DEF Resuming, Resumable, ResumeFrom, disk, Part
<1>2. ASSUME NEW t \in Threads, NEW p \in Pickers, NEW tier \in Tiers, StartDownload(t, p, tier)
      PROVE  Resuming'
  <2>1. UNCHANGED disk
    BY <1>2 DEF StartDownload
  <2>2. threads'[t].pc = "begin" /\ \A u \in Threads \ {t} : threads'[u] = threads[u]
    BY <1>2, Started
  <2>3. Resumable(threads[t])'
    BY <2>2 DEF Resumable
  <2>4. ASSUME NEW u \in Threads \ {t} PROVE Resumable(threads[u])'
    <3>1. threads'[u] = threads[u] /\ Resumable(threads[u])
      BY <2>2 DEF Resuming
    <3> QED  BY <2>1, <3>1 DEF Resumable, ResumeFrom, disk, Part
  <2> QED  BY <2>3, <2>4 DEF Resuming
<1>3. CASE UNCHANGED vars
  BY <1>3 DEF Resuming, Resumable, ResumeFrom, vars, disk, Part
<1> QED
  BY <1>1, <1>2, <1>3, StepResuming DEF Next

LEMMA InitResuming == Init => Resuming
  BY IdleTyped DEF Init, Resuming, Resumable

\* A step gives up a part of a pinned model only for the model.
LEMMA PartGivenUp ==
  ASSUME Typed, Downloading, Resuming, [Next]_vars, NEW k \in Tiers, k \in Pinned,
         partial[k] # NoInode, Part(files[partial[k]]), partial'[k] = NoInode
  PROVE  dest'[k] = partial[k]
<1>1. ASSUME UNCHANGED partial PROVE FALSE
  BY <1>1
<1>2. CASE Boot \/ ResetModels \/ PollEnds \/ PollDone \/ Quit
  BY <1>1, <1>2 DEF Boot, ResetModels, PollEnds, PollDone, Quit, Dies, disk
<1>3. ASSUME NEW t \in Threads, NEW p \in Pickers, NEW tier \in Tiers, StartDownload(t, p, tier)
      PROVE  FALSE
  BY <1>1, <1>3 DEF StartDownload, disk
<1>4. ASSUME NEW t \in Threads, ThreadStep(t) PROVE dest'[k] = partial[k]
  <2>1. CASE RequestAnswered(t)
    <3>1. PICK first \in 1 .. Length, i \in Inodes : Answered(t, first, i)
      BY <2>1, Answers
    <3> QED  BY <3>1, DiskTyped, DownloadAssumption DEF Answered
  <2>2. CASE Discard(t)
    <3>1. k = threads[t].tier /\ threads[t].pc = "discard"
      BY <2>2, DiskTyped DEF Discard
    <3> QED  BY <3>1 DEF Resuming, Resumable
  <2>3. CASE Replace(t)
    <3>1. k = threads[t].tier /\ dest' = [dest EXCEPT ![k] = partial[k]]
      BY <2>3, DiskTyped DEF Replace
    <3> QED  BY <3>1, DiskTyped
  <2> QED
    BY <1>1, <1>4, <2>1, <2>2, <2>3 DEF ThreadStep, Begin, StatPartial, RequestFails,
       ReadChunk,
       BodyEnds, BodyFails, Verify, PartialGone, Record, SaveOpens, SaveWrites, SaveFails, Finish, disk
<1>5. CASE UNCHANGED vars
  BY <1>1, <1>5 DEF vars, disk
<1> QED
  BY <1>2, <1>3, <1>4, <1>5 DEF Next

LEMMA PartStep ==
  Typed /\ Downloading /\ Resuming /\ [Next]_vars =>
    [\A k \in Pinned : Kept(k)]_vars
  BY PartGivenUp, PinnedAssumption DEF Part, Kept

\* A .partial that is a part of the model is given up only for the model, through
\* every dropped connection, death of the process and answer that ignores the range,
\* as long as no two downloads of the same tier run at once and a body that ends
\* is complete (a server that closes early makes download_resumable discard it), for
\* the tiers whose hash is pinned: of any other the whole model is deleted.
THEOREM PartsAreKept == Overlap # "any" /\ "short" \notin Faults => (Spec => PartKept)
<1> SUFFICES ASSUME Overlap # "any", "short" \notin Faults PROVE Spec => PartKept
  OBVIOUS
<1>1. Typed /\ Downloading /\ [Next]_vars => Downloading'
  BY DownloadingKept
<1>2. Typed /\ Downloading /\ Resuming /\ [Next]_vars => Resuming'
  BY ResumingKept
<1>3. Spec => []Typed /\ []Downloading /\ []Resuming
  BY <1>1, <1>2, InitDownloading, InitResuming, AlwaysTyped, PTL DEF Spec
<1> QED
  BY <1>3, PartStep, PTL DEF Spec, PartKept

===============================================================================
