--------------------------- MODULE PartialFileProofs ---------------------------
(***************************************************************************)
(* Proofs about PartialFile for any writers, files, chunks, interval and   *)
(* file length: the typing, what a checkpoint guarantees, and that the     *)
(* path <job_id>.partial implements UploadLog.                             *)
(***************************************************************************)
EXTENDS PartialFile, TLAPS

\* A file nobody has created yet is empty.
FreshEmpty ==
  \A i \in Inodes \ used :
    data[i] = <<>> /\ synced[i] = 0 /\ acked[i] = 0 /\ i \notin owing

PathsUsed ==
  /\ partialEnt \in used \cup {NoInode}
  /\ finalEnt \in used \cup {NoInode}

\* What has been promised is on stable storage, and that is part of the file.
AckedSynced == \A i \in Inodes : acked[i] <= synced[i] /\ synced[i] <= Len(data[i])

\* A live descriptor stands inside its file, and the interval it counts from is on
\* stable storage, unless a call that raised has left bytes to be fsynced.
WriterOK(st) ==
  st.phase = "open" =>
    /\ st.ino \in used
    /\ st.pos <= Len(data[st.ino])
    /\ st.ckpt <= Len(data[st.ino])
    /\ st.ino \notin owing => st.ckpt <= synced[st.ino]

WritersOK == \A w \in Writers : WriterOK(writer[w])

IInv ==
  /\ TypeOK
  /\ FreshEmpty
  /\ PathsUsed
  /\ AckedSynced
  /\ AtRiskBounded
  /\ WritersOK

-------------------------------------------------------------------------------
LEMMA BoundaryBelow == \A n \in Nat : Boundary(n) \in Nat /\ Boundary(n) <= n
  BY IntervalAssumption DEF Boundary

\* A descriptor in order on its file.
Stands(st) ==
  /\ st \in WriterState
  /\ st.phase = "open"
  /\ st.ino \in Inodes
  /\ st.pos <= Len(data[st.ino])
  /\ st.ckpt <= Len(data[st.ino])
  /\ st.ino \notin owing => st.ckpt <= synced[st.ino]

\* The record a constructor builds is in order on any file whose interval boundary is
\* durable.
LEMMA OpenedOnOK ==
  ASSUME TypeOK, AtRiskBounded, NEW i \in Inodes
  PROVE  /\ Stands(OpenedOn(i))
         /\ OpenedOn(i).ino = i
         /\ OpenedOn(i).buf = <<>>
         /\ OpenedOn(i).fsync = Len(data[i])
<1>1. Len(data[i]) \in Nat
  BY DEF TypeOK
<1>2. /\ Boundary(Len(data[i])) \in Nat
      /\ Boundary(Len(data[i])) <= Len(data[i])
      /\ i \notin owing => Boundary(Len(data[i])) <= synced[i]
  BY <1>1, BoundaryBelow DEF AtRiskBounded
<1>3. OpenedOn(i) = [phase |-> "open", ino |-> i, pos |-> Len(data[i]), buf |-> <<>>,
                     ckpt |-> Boundary(Len(data[i])), fsync |-> Len(data[i])]
  BY DEF OpenedOn
<1>4. OpenedOn(i) \in WriterState
  <2>1. <<>> \in Seq(Byte)
    OBVIOUS
  <2>. QED
    BY <1>1, <1>2, <1>3, <2>1 DEF WriterState, Phases
<1>. QED
  BY <1>1, <1>2, <1>3, <1>4 DEF Stands

\* What a step that writes through a descriptor of inode i does to the names: the
\* descriptor is an old one, or the step has opened it (as InboundJob does).
Reaches(i) ==
  \/ i \in used /\ UNCHANGED <<used, partialEnt>>
  \/ i \in OpenTargets /\ LinkPartial(i)

LEMMA ReachesUsed ==
  ASSUME TypeOK, PathsUsed, NEW i \in Inodes, Reaches(i)
  PROVE  /\ i \in used' /\ used \subseteq used' /\ used' \subseteq Inodes
         /\ used' \subseteq used \cup {i} /\ partialEnt' \in {partialEnt, i}
         /\ partialEnt' \in used' \cup {NoInode}
BY DEF Reaches, LinkPartial, TypeOK, PathsUsed

-------------------------------------------------------------------------------
\* What a step without an fsync does to the files: they only grow, and one that has
\* grown is counted.
Grows ==
  /\ data' \in [Inodes -> Seq(Byte)]
  /\ owing' \in SUBSET Inodes
  /\ \A j \in Inodes :
       /\ Len(data[j]) <= Len(data'[j])
       /\ j \notin owing' => j \notin owing /\ data'[j] = data[j]
       /\ j \notin used' => j \notin owing' /\ data'[j] = data[j]

LEMMA UnchangedGrows ==
  ASSUME TypeOK, FreshEmpty, used \subseteq used', UNCHANGED <<data, owing>>
  PROVE  Grows
<1>1. ASSUME NEW j \in Inodes PROVE Len(data[j]) <= Len(data'[j])
  <2>1. Len(data[j]) \in Nat
    BY DEF TypeOK
  <2>. QED
    BY <2>1
<1>. QED
  BY <1>1 DEF Grows, TypeOK, FreshEmpty

LEMMA ConcatLength ==
  \A s, t \in Seq(Byte) : s \o t \in Seq(Byte) /\ Len(s \o t) = Len(s) + Len(t)
OBVIOUS

LEMMA SpillGrows ==
  ASSUME TypeOK, FreshEmpty, used \subseteq used',
         NEW i, NEW bytes \in Seq(Byte), NEW n \in 0..Len(bytes),
         n > 0 => i \in Inodes /\ i \in used',
         Spill(i, bytes, n)
  PROVE  /\ Grows
         /\ i \in Inodes => Len(data'[i]) = Len(data[i]) + n
         /\ n > 0 => i \in owing'
<1>0. n \in Nat /\ Len(bytes) \in Nat /\ n <= Len(bytes)
  OBVIOUS
<1>1. CASE n = 0
  <2>1. UNCHANGED <<data, owing>>
    BY <1>1 DEF Spill
  <2>2. i \in Inodes => Len(data[i]) \in Nat
    BY DEF TypeOK
  <2>. QED
    BY <1>1, <2>1, <2>2, UnchangedGrows
<1>2. CASE n > 0
  <2> DEFINE part == SubSeq(bytes, 1, n)
  <2>1. i \in Inodes /\ i \in used' /\ data[i] \in Seq(Byte) /\ Len(data[i]) \in Nat
    BY <1>2 DEF TypeOK
  <2>2. data' = [data EXCEPT ![i] = data[i] \o part] /\ owing' = owing \cup {i}
    BY <1>0, <1>2, <2>1 DEF Spill, TypeOK
  <2>3. part \in Seq(Byte) /\ Len(part) = n
    BY <1>0, <1>2
  <2> HIDE DEF part
  <2>4. data[i] \o part \in Seq(Byte) /\ Len(data[i] \o part) = Len(data[i]) + n
    BY <2>1, <2>3, ConcatLength
  <2>5. /\ data' \in [Inodes -> Seq(Byte)] /\ data'[i] = data[i] \o part
        /\ \A j \in Inodes \ {i} : data'[j] = data[j]
    BY <2>1, <2>2, <2>4 DEF TypeOK
  <2>6. ASSUME NEW j \in Inodes PROVE Len(data[j]) <= Len(data'[j])
    <3>1. Len(data[j]) \in Nat
      BY DEF TypeOK
    <3>2. CASE j = i
      <4>1. data'[j] = data[i] \o part
        BY <2>5, <3>2
      <4>. QED
        BY <1>0, <2>1, <2>4, <3>2, <4>1
    <3>3. CASE j # i
      BY <2>5, <3>1, <3>3
    <3>. QED
      BY <3>2, <3>3
  <2>7. owing' \in SUBSET Inodes /\ i \in owing'
    BY <2>1, <2>2 DEF TypeOK
  <2>. QED
    BY <2>1, <2>2, <2>4, <2>5, <2>6, <2>7 DEF Grows, FreshEmpty
<1>. QED
  BY <1>0, <1>1, <1>2

\* The invariant speaks of the disk and of live descriptors only: a step that fsyncs
\* nothing and leaves the descriptors it touches in order keeps it.
LEMMA QuietKeeps ==
  ASSUME IInv, Grows, UNCHANGED <<synced, acked>>,
         used \subseteq used', used' \subseteq Inodes,
         partialEnt' \in used' \cup {NoInode},
         finalEnt' \in used' \cup {NoInode},
         writer' \in [Writers -> WriterState],
         \A w \in Writers : writer'[w] = writer[w] \/ WriterOK(writer[w])'
  PROVE  IInv'
<1> USE DEF IInv
<1>1. TypeOK'
  BY DEF TypeOK, Grows
<1>2. ASSUME NEW j \in Inodes
      PROVE  /\ Len(data[j]) \in Nat /\ Len(data'[j]) \in Nat /\ Len(data[j]) <= Len(data'[j])
             /\ j \notin owing' => j \notin owing /\ data'[j] = data[j]
             /\ j \notin used' => j \notin owing' /\ data'[j] = data[j]
  <2>1. data[j] \in Seq(Byte) /\ data'[j] \in Seq(Byte)
    BY DEF Grows, TypeOK
  <2>. QED
    BY <2>1 DEF Grows
<1>3. FreshEmpty' /\ PathsUsed'
  BY <1>2 DEF FreshEmpty, PathsUsed
<1>4. AckedSynced'
  <2>1. SUFFICES ASSUME NEW j \in Inodes
                 PROVE  acked[j] <= synced[j] /\ synced[j] <= Len(data'[j])
    BY DEF AckedSynced
  <2>2. acked[j] <= synced[j] /\ synced[j] <= Len(data[j]) /\ synced[j] \in Nat
    BY DEF AckedSynced, TypeOK
  <2>. QED
    BY <1>2, <2>2
<1>5. AtRiskBounded'
  <2>1. SUFFICES ASSUME NEW j \in Inodes \ owing' PROVE Boundary(Len(data'[j])) <= synced[j]
    BY DEF AtRiskBounded, Boundary
  <2>. QED
    BY <1>2 DEF AtRiskBounded
<1>6. ASSUME NEW w \in Writers PROVE WriterOK(writer[w])'
  <2>1. SUFFICES ASSUME writer'[w] = writer[w], writer[w].phase = "open"
                 PROVE  /\ writer[w].ino \in used'
                        /\ writer[w].pos <= Len(data'[writer[w].ino])
                        /\ writer[w].ckpt <= Len(data'[writer[w].ino])
                        /\ writer[w].ino \notin owing' => writer[w].ckpt <= synced[writer[w].ino]
    BY DEF WriterOK
  <2> DEFINE i == writer[w].ino
  <2>2. WriterOK(writer[w]) /\ writer[w] \in WriterState
    BY DEF WritersOK, TypeOK
  <2>3. /\ i \in used /\ writer[w].pos <= Len(data[i]) /\ writer[w].ckpt <= Len(data[i])
        /\ i \notin owing => writer[w].ckpt <= synced[i]
        /\ writer[w].pos \in Nat /\ writer[w].ckpt \in Nat
    BY <2>1, <2>2 DEF WriterOK, WriterState
  <2>4. i \in Inodes
    BY <2>3 DEF TypeOK
  <2> HIDE DEF i
  <2>5. /\ i \in used' /\ writer[w].pos <= Len(data'[i]) /\ writer[w].ckpt <= Len(data'[i])
        /\ i \notin owing' => writer[w].ckpt <= synced[i]
    BY <1>2, <2>3, <2>4
  <2>. QED
    BY <2>5 DEF i
<1>. QED
  BY <1>1, <1>3, <1>4, <1>5, <1>6 DEF WritersOK

-------------------------------------------------------------------------------
\* One write() that returns keeps the invariant and only adds to the files, whatever
\* else the chunk does: the two cases are a chunk that stays below the next boundary
\* and one that reaches it.
LEMMA AppendKeeps ==
  ASSUME IInv, NEW w \in Writers, NEW st, NEW chunk \in Seq(Byte),
         Stands(st), AppendChunk(w, st, chunk), Reaches(st.ino),
         finalEnt' \in used' \cup {NoInode}
  PROVE  /\ IInv'
         /\ \A j \in Inodes : Len(data[j]) <= Len(data'[j]) /\ acked[j] <= acked'[j]
<1> DEFINE i == st.ino
           bytes == st.buf \o chunk
           size == Len(data[i]) + Len(bytes)
           offset == OffsetAfter(st, bytes)
           moved == [st EXCEPT !.pos = offset, !.buf = <<>>]
<1> USE DEF IInv
<1>1. /\ st \in WriterState /\ st.phase = "open" /\ i \in Inodes /\ used \subseteq Inodes
      /\ data[i] \in Seq(Byte) /\ bytes \in Seq(Byte)
  <2>1. st.buf \in Seq(Byte)
    BY DEF Stands, WriterState
  <2>. QED
    BY <2>1 DEF TypeOK, Stands
<1>0. /\ i \in used' /\ used \subseteq used' /\ used' \subseteq Inodes
      /\ used' \subseteq used \cup {i} /\ partialEnt' \in used' \cup {NoInode}
  BY <1>1, ReachesUsed
<1>2. /\ Len(data[i]) \in Nat /\ Len(bytes) \in Nat /\ st.pos \in Nat /\ st.ckpt \in Nat
      /\ synced[i] \in Nat /\ acked[i] \in Nat
  <2>1. Len(data[i]) \in Nat /\ Len(bytes) \in Nat
    BY <1>1
  <2>2. st.pos \in Nat /\ st.ckpt \in Nat
    BY <1>1 DEF WriterState
  <2>3. synced[i] \in Nat /\ acked[i] \in Nat
    BY <1>1 DEF TypeOK
  <2>. QED
    BY <2>1, <2>2, <2>3
<1>3. /\ st.pos <= Len(data[i]) /\ st.ckpt <= Len(data[i])
      /\ i \notin owing => st.ckpt <= synced[i]
      /\ acked[i] <= synced[i] /\ synced[i] <= Len(data[i])
      /\ i \notin owing => Boundary(Len(data[i])) <= synced[i]
  BY <1>1 DEF Stands, AckedSynced, AtRiskBounded
<1>4. data' = [data EXCEPT ![i] = data[i] \o bytes]
  BY <1>1 DEF AppendChunk, TypeOK
<1>50. \/ /\ ~(Boundary(offset) > st.ckpt)
          /\ writer' = [writer EXCEPT ![w] = moved]
          /\ UNCHANGED <<synced, acked, owing>>
       \/ /\ Boundary(offset) > st.ckpt
          /\ writer' = [writer EXCEPT ![w] =
                          [moved EXCEPT !.ckpt = Boundary(offset), !.fsync = offset]]
          /\ synced' = [synced EXCEPT ![i] = size]
          /\ acked' = [acked EXCEPT ![i] = IF offset > acked[i] THEN offset ELSE acked[i]]
          /\ owing' = owing \ {i}
  BY <1>1 DEF AppendChunk, TypeOK
<1> HIDE DEF bytes
<1>8. /\ size \in Nat /\ Len(data[i]) <= size /\ offset \in Nat /\ offset <= size
      /\ bytes # <<>> => offset = size
      /\ bytes = <<>> => offset = st.pos /\ size = Len(data[i])
  <2>1. size \in Nat /\ Len(data[i]) <= size
    BY <1>2
  <2>2. CASE bytes = <<>>
    <3>1. Len(bytes) = 0 /\ offset = st.pos
      BY <2>2 DEF OffsetAfter
    <3>. QED
      BY <1>2, <1>3, <2>1, <2>2, <3>1
  <2>3. CASE bytes # <<>>
    <3>1. offset = size
      BY <2>3 DEF OffsetAfter
    <3>. QED
      BY <2>1, <2>3, <3>1
  <2>. QED
    BY <2>1, <2>2, <2>3
<1>51. moved \in WriterState /\ moved.phase = "open" /\ moved.ino = i /\ moved.pos = offset
       /\ moved.ckpt = st.ckpt
  <2>1. <<>> \in Seq(Byte)
    OBVIOUS
  <2>. QED
    BY <1>1, <1>8, <2>1 DEF WriterState, Stands
<1>5. data[i] \o bytes \in Seq(Byte) /\ Len(data[i] \o bytes) = size
  BY <1>1
<1>6. data' \in [Inodes -> Seq(Byte)] /\ Len(data'[i]) = size
  BY <1>1, <1>4, <1>5 DEF TypeOK
<1>7. \A j \in Inodes \ {i} : data'[j] = data[j]
  BY <1>4 DEF TypeOK
<1>9. /\ Boundary(offset) \in Nat /\ Boundary(offset) <= offset
      /\ Boundary(size) \in Nat /\ Boundary(size) <= size
  BY <1>8, BoundaryBelow
<1> HIDE DEF offset, moved
<1>10. ASSUME NEW j \in Inodes
       PROVE  Len(data[j]) <= Len(data'[j]) /\ Len(data[j]) \in Nat /\ Len(data'[j]) \in Nat
  <2>1. data[j] \in Seq(Byte) /\ data'[j] \in Seq(Byte)
    BY <1>6 DEF TypeOK
  <2>2. Len(data[j]) \in Nat /\ Len(data'[j]) \in Nat
    BY <2>1
  <2>3. CASE j = i
    BY <1>6, <1>8, <2>2, <2>3
  <2>4. CASE j # i
    BY <1>7, <2>2, <2>4
  <2>. QED
    BY <2>2, <2>3, <2>4
<1>11. CASE ~(Boundary(offset) > st.ckpt)
  <2>1. writer' = [writer EXCEPT ![w] = moved] /\ UNCHANGED <<synced, acked, owing>>
    BY <1>11, <1>50
  <2>3. TypeOK'
    BY <1>0, <1>1, <1>6, <1>51, <2>1 DEF TypeOK, PathsUsed
  <2>4. FreshEmpty'
    BY <1>0, <1>1, <1>7, <2>1 DEF FreshEmpty
  <2>5. AckedSynced'
    <3>1. SUFFICES ASSUME NEW j \in Inodes
                   PROVE  acked[j] <= synced[j] /\ synced[j] <= Len(data'[j])
      BY <2>1 DEF AckedSynced
    <3>2. acked[j] <= synced[j] /\ synced[j] <= Len(data[j]) /\ synced[j] \in Nat
      BY DEF AckedSynced, TypeOK
    <3>. QED
      BY <1>10, <3>2
  <2>6. i \notin owing => Boundary(size) <= synced[i]
    <3>1. CASE bytes = <<>>
      BY <1>3, <1>8, <3>1
    <3>2. CASE bytes # <<>>
      BY <1>2, <1>3, <1>8, <1>9, <1>11, <3>2
    <3>. QED
      BY <3>1, <3>2
  <2>7. AtRiskBounded'
    <3>1. SUFFICES ASSUME NEW j \in Inodes \ owing PROVE Boundary(Len(data'[j])) <= synced'[j]
      BY <2>1 DEF AtRiskBounded, Boundary
    <3>2. CASE j = i
      BY <1>6, <2>1, <2>6, <3>2
    <3>3. CASE j # i
      BY <1>7, <2>1, <3>3 DEF AtRiskBounded
    <3>. QED
      BY <3>2, <3>3
  <2>8. ASSUME NEW v \in Writers PROVE WriterOK(writer[v])'
    <3>1. CASE v = w
      <4>1. writer'[v] = moved
        BY <2>1, <3>1 DEF TypeOK
      <4>2. SUFFICES /\ i \in used' /\ offset <= Len(data'[i]) /\ st.ckpt <= Len(data'[i])
                     /\ i \notin owing => st.ckpt <= synced[i]
        BY <1>51, <2>1, <4>1 DEF WriterOK
      <4>. QED
        BY <1>0, <1>2, <1>3, <1>6, <1>8
    <3>2. CASE v # w
      <4>1. writer'[v] = writer[v] /\ writer[v] \in WriterState /\ WriterOK(writer[v])
        BY <2>1, <3>2 DEF TypeOK, WritersOK
      <4>2. SUFFICES ASSUME writer[v].phase = "open"
                     PROVE  /\ writer[v].ino \in used'
                            /\ writer[v].pos <= Len(data'[writer[v].ino])
                            /\ writer[v].ckpt <= Len(data'[writer[v].ino])
                            /\ writer[v].ino \notin owing =>
                                 writer[v].ckpt <= synced[writer[v].ino]
        BY <2>1, <4>1 DEF WriterOK
      <4>3. /\ writer[v].ino \in used /\ writer[v].ino \in Inodes
            /\ writer[v].pos \in Nat /\ writer[v].pos <= Len(data[writer[v].ino])
            /\ writer[v].ckpt \in Nat /\ writer[v].ckpt <= Len(data[writer[v].ino])
            /\ writer[v].ino \notin owing => writer[v].ckpt <= synced[writer[v].ino]
        BY <1>1, <4>1, <4>2 DEF WriterOK, WriterState
      <4>. QED
        BY <1>0, <1>10, <4>3
    <3>. QED
      BY <3>1, <3>2
  <2>9. WritersOK' /\ PathsUsed'
    BY <1>0, <2>8 DEF WritersOK, PathsUsed
  <2>10. \A j \in Inodes : acked[j] <= acked'[j]
    BY <2>1 DEF TypeOK
  <2>. QED
    BY <1>10, <2>3, <2>4, <2>5, <2>7, <2>9, <2>10
<1>12. CASE Boundary(offset) > st.ckpt
  <2> DEFINE new == [moved EXCEPT !.ckpt = Boundary(offset), !.fsync = offset]
             top == IF offset > acked[i] THEN offset ELSE acked[i]
  <2>1. /\ writer' = [writer EXCEPT ![w] = new]
        /\ synced' = [synced EXCEPT ![i] = size]
        /\ acked' = [acked EXCEPT ![i] = top]
        /\ owing' = owing \ {i}
    BY <1>12, <1>50
  <2>2. new \in WriterState /\ new.phase = "open" /\ new.ino = i /\ new.pos = offset
        /\ new.ckpt = Boundary(offset)
    BY <1>8, <1>9, <1>51 DEF WriterState
  <2>3. top \in Nat /\ top <= size /\ acked[i] <= top
    BY <1>2, <1>3, <1>8
  <2> HIDE DEF new, top
  <2>4. synced'[i] = size /\ acked'[i] = top
    BY <1>1, <2>1 DEF TypeOK
  <2>5. \A j \in Inodes \ {i} : synced'[j] = synced[j] /\ acked'[j] = acked[j]
    BY <2>1 DEF TypeOK
  <2>6. TypeOK'
    BY <1>0, <1>1, <1>6, <1>8, <2>1, <2>2, <2>3 DEF TypeOK, PathsUsed
  <2>7. FreshEmpty'
    BY <1>0, <1>1, <1>7, <2>1, <2>5 DEF FreshEmpty
  <2>8. AckedSynced'
    <3>1. SUFFICES ASSUME NEW j \in Inodes
                   PROVE  acked'[j] <= synced'[j] /\ synced'[j] <= Len(data'[j])
      BY DEF AckedSynced
    <3>2. CASE j = i
      BY <1>6, <1>8, <2>3, <2>4, <3>2
    <3>3. CASE j # i
      BY <1>7, <2>5, <3>3 DEF AckedSynced
    <3>. QED
      BY <3>2, <3>3
  <2>9. AtRiskBounded'
    <3>1. SUFFICES ASSUME NEW j \in Inodes \ owing' PROVE Boundary(Len(data'[j])) <= synced'[j]
      BY DEF AtRiskBounded, Boundary
    <3>2. CASE j = i
      BY <1>6, <1>9, <2>4, <3>2
    <3>3. CASE j # i
      BY <1>7, <2>1, <2>5, <3>3 DEF AtRiskBounded
    <3>. QED
      BY <3>2, <3>3
  <2>10. ASSUME NEW v \in Writers PROVE WriterOK(writer[v])'
    <3>1. CASE v = w
      <4>1. writer'[v] = new
        BY <2>1, <3>1 DEF TypeOK
      <4>2. SUFFICES /\ i \in used' /\ offset <= Len(data'[i])
                     /\ Boundary(offset) <= Len(data'[i])
                     /\ Boundary(offset) <= synced'[i]
        BY <2>2, <4>1 DEF WriterOK
      <4>. QED
        BY <1>0, <1>6, <1>8, <1>9, <2>4
    <3>2. CASE v # w
      <4>1. writer'[v] = writer[v] /\ writer[v] \in WriterState /\ WriterOK(writer[v])
        BY <2>1, <3>2 DEF TypeOK, WritersOK
      <4>3. SUFFICES ASSUME writer[v].phase = "open"
                     PROVE  /\ writer[v].ino \in used'
                            /\ writer[v].pos <= Len(data'[writer[v].ino])
                            /\ writer[v].ckpt <= Len(data'[writer[v].ino])
                            /\ writer[v].ino \notin owing' =>
                                 writer[v].ckpt <= synced'[writer[v].ino]
        BY <4>1 DEF WriterOK
      <4>4. /\ writer[v].ino \in used /\ writer[v].ino \in Inodes
            /\ writer[v].pos \in Nat /\ writer[v].pos <= Len(data[writer[v].ino])
            /\ writer[v].ckpt \in Nat /\ writer[v].ckpt <= Len(data[writer[v].ino])
            /\ writer[v].ino \notin owing => writer[v].ckpt <= synced[writer[v].ino]
        BY <1>1, <4>1, <4>3 DEF WriterOK, WriterState
      <4>5. CASE writer[v].ino = i
        <5>1. /\ writer[v].pos <= Len(data[i]) /\ writer[v].ckpt <= Len(data[i])
              /\ writer[v].pos \in Nat /\ writer[v].ckpt \in Nat
          BY <4>4, <4>5
        <5>2. Len(data[i]) <= size /\ Len(data[i]) \in Nat /\ size \in Nat
          BY <1>2, <1>8
        <5>3. writer[v].pos <= size /\ writer[v].ckpt <= size
          <6> HIDE DEF size
          <6>. QED
            BY <5>1, <5>2
        <5>. QED
          BY <1>0, <1>6, <2>4, <4>5, <5>3
      <4>6. CASE writer[v].ino # i
        BY <1>0, <1>10, <2>1, <2>5, <4>4, <4>6
      <4>. QED
        BY <4>5, <4>6
    <3>. QED
      BY <3>1, <3>2
  <2>11. WritersOK' /\ PathsUsed'
    BY <1>0, <2>10 DEF WritersOK, PathsUsed
  <2>12. ASSUME NEW j \in Inodes PROVE acked[j] <= acked'[j]
    <3>1. acked[j] \in Nat
      BY DEF TypeOK
    <3>2. CASE j = i
      BY <2>3, <2>4, <3>2
    <3>3. CASE j # i
      BY <2>5, <3>1, <3>3
    <3>. QED
      BY <3>2, <3>3
  <2>. QED
    BY <1>10, <2>6, <2>7, <2>8, <2>9, <2>11, <2>12
<1>. QED
  BY <1>11, <1>12

\* What a write() that returns leaves of its writer, and what it adds to the file.
LEMMA AppendReports ==
  ASSUME IInv, NEW w \in Writers, NEW st, NEW chunk \in Seq(Byte),
         Stands(st), st.fsync <= st.pos, AppendChunk(w, st, chunk)
  PROVE  /\ writer'[w].phase = "open" /\ writer'[w].ino = st.ino /\ writer'[w].buf = <<>>
         /\ writer'[w].fsync <= writer'[w].pos
         /\ acked[st.ino] <= st.fsync => acked'[st.ino] <= writer'[w].fsync
         /\ data' = [data EXCEPT ![st.ino] = data[st.ino] \o (st.buf \o chunk)]
         /\ \A v \in Writers \ {w} : writer'[v] = writer[v]
<1> DEFINE i == st.ino
           bytes == st.buf \o chunk
           offset == OffsetAfter(st, bytes)
           moved == [st EXCEPT !.pos = offset, !.buf = <<>>]
<1>1. /\ TypeOK /\ st \in WriterState /\ st.phase = "open" /\ i \in Inodes
      /\ st.buf \in Seq(Byte) /\ bytes \in Seq(Byte)
  <2>1. st \in WriterState /\ st.phase = "open" /\ i \in Inodes /\ TypeOK
    BY DEF Stands, IInv
  <2>2. st.buf \in Seq(Byte)
    BY <2>1 DEF WriterState
  <2>. QED
    BY <2>1, <2>2
<1>2. /\ Len(data[i]) \in Nat /\ Len(bytes) \in Nat /\ st.pos \in Nat /\ st.fsync \in Nat
      /\ acked[i] \in Nat /\ synced[i] \in Nat /\ st.pos <= Len(data[i])
  <2>1. data[i] \in Seq(Byte) /\ acked[i] \in Nat /\ synced[i] \in Nat
    BY <1>1 DEF TypeOK
  <2>2. st.pos \in Nat /\ st.fsync \in Nat
    BY <1>1 DEF WriterState
  <2>. QED
    BY <1>1, <2>1, <2>2 DEF Stands
<1>3. data' = [data EXCEPT ![i] = data[i] \o bytes]
  BY <1>1 DEF AppendChunk, TypeOK
<1>4. \/ writer' = [writer EXCEPT ![w] = moved] /\ UNCHANGED acked
      \/ /\ writer' = [writer EXCEPT ![w] =
                          [moved EXCEPT !.ckpt = Boundary(offset), !.fsync = offset]]
         /\ acked' = [acked EXCEPT ![i] = IF offset > acked[i] THEN offset ELSE acked[i]]
  BY <1>1 DEF AppendChunk, TypeOK
<1>5. offset \in Nat /\ st.pos <= offset
  <2> HIDE DEF bytes
  <2>1. CASE bytes = <<>>
    BY <1>2, <2>1 DEF OffsetAfter
  <2>2. CASE bytes # <<>>
    <3>1. offset = Len(data[i]) + Len(bytes)
      BY <2>2 DEF OffsetAfter
    <3> HIDE DEF offset
    <3>. QED
      BY <1>2, <3>1
  <2>. QED
    BY <2>1, <2>2
<1> HIDE DEF bytes, offset
<1>6. CASE writer' = [writer EXCEPT ![w] = moved] /\ UNCHANGED acked
  <2>1. writer'[w] = moved
    BY <1>1, <1>6 DEF TypeOK
  <2>2. /\ moved.phase = "open" /\ moved.ino = i /\ moved.buf = <<>> /\ moved.pos = offset
        /\ moved.fsync = st.fsync
    BY <1>1 DEF WriterState
  <2>3. \A v \in Writers \ {w} : writer'[v] = writer[v]
    BY <1>1, <1>6 DEF TypeOK
  <2>4. st.fsync <= offset
    BY <1>2, <1>5
  <2>5. acked'[i] = acked[i]
    BY <1>6
  <2>6. data' = [data EXCEPT ![i] = data[i] \o (st.buf \o chunk)]
    BY <1>3 DEF bytes
  <2> HIDE DEF moved
  <2>. QED
    BY <2>1, <2>2, <2>3, <2>4, <2>5, <2>6
<1>7. CASE /\ writer' = [writer EXCEPT ![w] =
                          [moved EXCEPT !.ckpt = Boundary(offset), !.fsync = offset]]
           /\ acked' = [acked EXCEPT ![i] = IF offset > acked[i] THEN offset ELSE acked[i]]
  <2> DEFINE new == [moved EXCEPT !.ckpt = Boundary(offset), !.fsync = offset]
  <2>1. /\ writer'[w] = new
        /\ acked'[i] = IF offset > acked[i] THEN offset ELSE acked[i]
    BY <1>1, <1>7 DEF TypeOK
  <2>2. /\ new.phase = "open" /\ new.ino = i /\ new.buf = <<>> /\ new.pos = offset
        /\ new.fsync = offset
    BY <1>1 DEF WriterState
  <2>3. \A v \in Writers \ {w} : writer'[v] = writer[v]
    BY <1>1, <1>7 DEF TypeOK
  <2>4. acked[i] <= st.fsync => acked'[i] <= offset
    BY <1>2, <1>5, <2>1
  <2> HIDE DEF new
  <2>. QED
    BY <1>3, <1>5, <2>1, <2>2, <2>3, <2>4 DEF bytes
<1>. QED
  BY <1>4, <1>6, <1>7

\* What a live descriptor that a step leaves in state st has to satisfy after it.
StandsAfter(st) ==
  /\ st \in WriterState
  /\ st.ino \in used'
  /\ st.pos <= Len(data'[st.ino])
  /\ st.ckpt <= Len(data'[st.ino])
  /\ st.ino \notin owing' => st.ckpt <= synced'[st.ino]

\* One write() that raises leaves its descriptor in order and the files longer or as
\* they were.
LEMMA RaiseGrows ==
  ASSUME IInv, NEW w \in Writers, NEW st, NEW chunk \in Seq(Byte),
         Stands(st), AppendRaises(w, st, chunk), Reaches(st.ino)
  PROVE  /\ Grows
         /\ UNCHANGED <<synced, acked>>
         /\ \E new \in WriterState :
              /\ writer' = [writer EXCEPT ![w] = new]
              /\ StandsAfter(new)
              /\ new.phase = "open" /\ new.ino = st.ino /\ new.fsync = st.fsync
              /\ st.pos <= new.pos
<1> DEFINE i == st.ino
           bytes == st.buf \o chunk
<1> USE DEF IInv
<1>1. /\ st \in WriterState /\ st.phase = "open" /\ i \in Inodes
      /\ st.buf \in Seq(Byte) /\ bytes \in Seq(Byte) /\ Len(bytes) \in Nat
      /\ Len(st.buf) \in Nat
      /\ st.pos \in Nat /\ st.ckpt \in Nat /\ Len(data[i]) \in Nat
  <2>1. st \in WriterState /\ st.phase = "open" /\ i \in Inodes
    BY DEF Stands
  <2>2. st.buf \in Seq(Byte) /\ st.pos \in Nat /\ st.ckpt \in Nat /\ data[i] \in Seq(Byte)
    BY <2>1 DEF WriterState, TypeOK
  <2>. QED
    BY <2>1, <2>2
<1>2. /\ st.pos <= Len(data[i]) /\ st.ckpt <= Len(data[i])
      /\ i \notin owing => st.ckpt <= synced[i]
  BY DEF Stands
<1>3. i \in used' /\ used \subseteq used'
  BY <1>1, ReachesUsed
<1>4. UNCHANGED <<synced, acked>>
  BY DEF AppendRaises
<1>5. ASSUME NEW n \in 0..Len(bytes), NEW left \in Seq(Byte), Spill(i, bytes, n),
             writer' = [writer EXCEPT ![w] =
               [st EXCEPT !.pos = IF n = 0 THEN @ ELSE Len(data[i]) + n, !.buf = left]]
      PROVE  /\ Grows
             /\ \E new \in WriterState :
                  /\ writer' = [writer EXCEPT ![w] = new]
                  /\ StandsAfter(new)
                  /\ new.phase = "open" /\ new.ino = st.ino /\ new.fsync = st.fsync
                  /\ st.pos <= new.pos
  <2> DEFINE pos == IF n = 0 THEN st.pos ELSE Len(data[i]) + n
             new == [st EXCEPT !.pos = pos, !.buf = left]
  <2>1. n \in Nat
    OBVIOUS
  <2>2. /\ Grows /\ Len(data'[i]) = Len(data[i]) + n
        /\ n > 0 => i \in owing'
    BY <1>1, <1>3, <1>5, SpillGrows
  <2>3. n = 0 => owing' = owing
    BY <1>5, <2>1 DEF Spill
  <2>4. pos \in Nat /\ st.pos <= pos /\ pos <= Len(data'[i]) /\ st.ckpt <= Len(data'[i])
    BY <1>1, <1>2, <2>1, <2>2
  <2>5. i \notin owing' => st.ckpt <= synced'[i]
    BY <1>2, <1>4, <2>1, <2>2, <2>3
  <2>6. writer' = [writer EXCEPT ![w] = new]
    BY <1>5
  <2> HIDE DEF pos
  <2>7. /\ new \in WriterState /\ new.phase = "open" /\ new.ino = i /\ new.pos = pos
        /\ new.ckpt = st.ckpt /\ new.fsync = st.fsync
    BY <1>1, <1>5, <2>4 DEF WriterState
  <2> HIDE DEF new
  <2>8. StandsAfter(new)
    BY <1>3, <2>4, <2>5, <2>7 DEF StandsAfter
  <2>. QED
    BY <2>2, <2>4, <2>6, <2>7, <2>8
<1>6. CASE FlushRaises(w, st, chunk)
  <2>0. PICK n \in 0..Len(bytes) - 1 :
          \E left \in {SubSeq(bytes, n + 1, Len(bytes)), SubSeq(st.buf, n + 1, Len(st.buf))} :
            /\ Spill(i, bytes, n)
            /\ writer' = [writer EXCEPT ![w] =
                 [st EXCEPT !.pos = IF n = 0 THEN @ ELSE Len(data[i]) + n, !.buf = left]]
    BY <1>6 DEF FlushRaises
  <2>1. PICK left \in {SubSeq(bytes, n + 1, Len(bytes)), SubSeq(st.buf, n + 1, Len(st.buf))} :
          /\ Spill(i, bytes, n)
          /\ writer' = [writer EXCEPT ![w] =
               [st EXCEPT !.pos = IF n = 0 THEN @ ELSE Len(data[i]) + n, !.buf = left]]
    BY <2>0
  <2>2. n \in 0..Len(bytes) /\ n \in Nat
    BY <1>1, <2>1
  <2> HIDE DEF bytes
  <2>3. SubSeq(bytes, n + 1, Len(bytes)) \in Seq(Byte)
    BY <1>1, <2>2
  <2>4. SubSeq(st.buf, n + 1, Len(st.buf)) \in Seq(Byte)
    BY <1>1, <2>2
  <2>5. left \in Seq(Byte)
    BY <2>1, <2>3, <2>4
  <2>. QED
    BY <1>4, <1>5, <2>1, <2>2, <2>5
<1>7. CASE FsyncRaises(w, st, chunk)
  <2>1. /\ Spill(i, bytes, Len(bytes))
        /\ writer' = [writer EXCEPT ![w] =
             [st EXCEPT !.pos = OffsetAfter(st, bytes), !.buf = <<>>]]
    BY <1>7 DEF FsyncRaises
  <2>2. Len(bytes) \in 0..Len(bytes) /\ <<>> \in Seq(Byte)
    BY <1>1
  <2> HIDE DEF bytes
  <2>3. OffsetAfter(st, bytes) = IF Len(bytes) = 0 THEN st.pos ELSE Len(data[i]) + Len(bytes)
    BY <1>1 DEF OffsetAfter
  <2>. QED
    BY <1>4, <1>5, <2>1, <2>2, <2>3
<1>. QED
  BY <1>4, <1>6, <1>7 DEF AppendRaises

LEMMA RaiseKeeps ==
  ASSUME IInv, NEW w \in Writers, NEW st, NEW chunk \in Seq(Byte),
         Stands(st), AppendRaises(w, st, chunk), Reaches(st.ino),
         finalEnt' \in used' \cup {NoInode}
  PROVE  /\ IInv'
         /\ \A j \in Inodes : Len(data[j]) <= Len(data'[j]) /\ acked[j] <= acked'[j]
<1>1. PICK new \in WriterState :
        /\ writer' = [writer EXCEPT ![w] = new]
        /\ StandsAfter(new)
  BY RaiseGrows
<1>2. Grows /\ UNCHANGED <<synced, acked>>
  BY RaiseGrows
<1>3. TypeOK /\ st.ino \in Inodes
  BY DEF IInv, Stands
<1>4. /\ used \subseteq used' /\ used' \subseteq Inodes /\ partialEnt' \in used' \cup {NoInode}
  BY <1>3, ReachesUsed DEF IInv
<1>5. /\ writer' \in [Writers -> WriterState]
      /\ \A v \in Writers : writer'[v] = writer[v] \/ writer'[v] = new
  BY <1>1, <1>3 DEF TypeOK
<1>6. \A v \in Writers : writer'[v] = writer[v] \/ WriterOK(writer[v])'
  BY <1>1, <1>5 DEF WriterOK, StandsAfter
<1>7. IInv'
  BY <1>2, <1>4, <1>5, <1>6, QuietKeeps
<1>8. \A j \in Inodes : acked[j] <= acked'[j]
  BY <1>2, <1>3 DEF TypeOK
<1>. QED
  BY <1>2, <1>7, <1>8 DEF Grows

LEMMA WriteKeeps ==
  ASSUME IInv, NEW w \in Writers, Write(w)
  PROVE  /\ IInv'
         /\ \A j \in Inodes : Len(data[j]) <= Len(data'[j]) /\ acked[j] <= acked'[j]
         /\ UNCHANGED partialEnt
<1>1. PICK chunk \in Chunks :
        AppendChunk(w, writer[w], chunk) \/ AppendRaises(w, writer[w], chunk)
  BY DEF Write
<1>2. Stands(writer[w]) /\ Reaches(writer[w].ino)
  BY DEF Write, Stands, Reaches, IInv, TypeOK, WritersOK, WriterOK
<1>3. finalEnt' \in used' \cup {NoInode} /\ UNCHANGED partialEnt
  BY DEF Write, IInv, PathsUsed
<1>4. chunk \in Seq(Byte)
  BY ChunksAssumption
<1>. QED
  BY <1>1, <1>2, <1>3, <1>4, AppendKeeps, RaiseKeeps

-------------------------------------------------------------------------------
LEMMA SetPhaseQuiet ==
  ASSUME TypeOK, NEW w \in Writers, NEW phase \in Phases \ {"open"}, SetPhase(w, phase)
  PROVE  /\ writer' \in [Writers -> WriterState]
         /\ \A v \in Writers : writer'[v] = writer[v] \/ writer'[v].phase # "open"
<1>1. \A v \in Writers : v # w => writer'[v] = writer[v]
  BY DEF TypeOK, SetPhase
<1>2. /\ writer'[w] = [writer[w] EXCEPT !.phase = phase, !.buf = <<>>]
      /\ writer[w] \in WriterState
  BY DEF TypeOK, SetPhase
<1>3. writer'[w] \in WriterState /\ writer'[w].phase = phase
  <2>1. <<>> \in Seq(Byte)
    OBVIOUS
  <2>. QED
    BY <1>2, <2>1 DEF WriterState
<1>4. writer' \in [Writers -> WriterState]
  BY <1>2, <1>3 DEF TypeOK, SetPhase
<1>. QED
  BY <1>1, <1>3, <1>4

\* A close(), whether it raises or not, writes no more than what is in the buffer.
LEMMA CloseGrows ==
  ASSUME IInv, NEW w \in Writers, writer[w].phase = "open", used \subseteq used',
         CloseFlushes(w) \/ CloseRaises(w)
  PROVE  Grows
<1> DEFINE bytes == writer[w].buf
<1>1. /\ bytes \in Seq(Byte) /\ Len(bytes) \in Nat
      /\ writer[w].ino \in Inodes /\ writer[w].ino \in used'
  <2>1. writer[w] \in WriterState /\ WriterOK(writer[w]) /\ used \subseteq Inodes
    BY DEF IInv, TypeOK, WritersOK
  <2>2. bytes \in Seq(Byte) /\ writer[w].ino \in used
    BY <2>1 DEF WriterState, WriterOK
  <2>. QED
    BY <2>1, <2>2
<1>2. \E n \in 0..Len(bytes) : Spill(writer[w].ino, bytes, n)
  BY <1>1 DEF CloseFlushes, CloseRaises
<1> HIDE DEF bytes
<1>. QED
  BY <1>1, <1>2, SpillGrows DEF IInv

\* A step that closes writers, or drops them, and takes names away.
LEMMA CloseKeeps ==
  ASSUME IInv, Grows, UNCHANGED <<synced, used, acked>>,
         partialEnt' \in {partialEnt, NoInode},
         finalEnt' \in {finalEnt, partialEnt, NoInode},
         writer' \in [Writers -> WriterState],
         \A w \in Writers : writer'[w] = writer[w] \/ writer'[w].phase # "open"
  PROVE  /\ IInv'
         /\ \A j \in Inodes : Len(data[j]) <= Len(data'[j]) /\ acked[j] <= acked'[j]
<1>1. /\ used \subseteq used' /\ used' \subseteq Inodes
      /\ partialEnt' \in used' \cup {NoInode} /\ finalEnt' \in used' \cup {NoInode}
  BY DEF IInv, TypeOK, PathsUsed
<1>2. \A w \in Writers : writer'[w] = writer[w] \/ WriterOK(writer[w])'
  BY DEF WriterOK
<1>3. IInv'
  BY <1>1, <1>2, QuietKeeps
<1>4. \A j \in Inodes : acked[j] <= acked'[j]
  BY DEF IInv, TypeOK
<1>. QED
  BY <1>3, <1>4 DEF Grows

LEMMA OpenKeeps ==
  ASSUME IInv, NEW w \in Writers, Open(w)
  PROVE  IInv'
<1>1. PICK i \in OpenTargets : LinkPartial(i) /\ writer' = [writer EXCEPT ![w] = OpenedOn(i)]
  BY DEF Open
<1>2. UNCHANGED <<data, synced, finalEnt, acked, owing>>
  BY DEF Open
<1>3. i \in Inodes /\ TypeOK /\ PathsUsed /\ FreshEmpty
  BY <1>1 DEF OpenTargets, IInv, TypeOK
<1>4. /\ i \in used' /\ used \subseteq used' /\ used' \subseteq Inodes
      /\ partialEnt' \in used' \cup {NoInode}
  BY <1>1, <1>3, ReachesUsed DEF Reaches
<1>5. Stands(OpenedOn(i)) /\ OpenedOn(i).ino = i
  BY <1>3, OpenedOnOK DEF IInv
<1>6. Grows
  BY <1>2, <1>3, <1>4, UnchangedGrows
<1>7. /\ writer' \in [Writers -> WriterState]
      /\ \A v \in Writers : writer'[v] = writer[v] \/ writer'[v] = OpenedOn(i)
  BY <1>1, <1>3, <1>5 DEF TypeOK, Stands
<1>8. \A v \in Writers : writer'[v] = writer[v] \/ WriterOK(writer[v])'
  BY <1>2, <1>4, <1>5, <1>7 DEF WriterOK, Stands
<1>9. finalEnt' \in used' \cup {NoInode}
  BY <1>2, <1>3, <1>4 DEF PathsUsed
<1>. QED
  BY <1>2, <1>4, <1>6, <1>7, <1>8, <1>9, QuietKeeps

LEMMA NoWriterOK == NoWriter \in WriterState /\ NoWriter.phase # "open"
<1>1. <<>> \in Seq(Byte)
  OBVIOUS
<1>. QED
  BY <1>1 DEF NoWriter, WriterState, Phases

LEMMA PowerLossKeeps ==
  ASSUME IInv, PowerLoss
  PROVE  IInv'
<1> USE DEF IInv
<1>1. PICK kept \in [Inodes -> 0..MaxBytes] :
        /\ \A i \in Inodes : synced[i] <= kept[i] /\ kept[i] <= Len(data[i])
        /\ data' = [i \in Inodes |-> SubSeq(data[i], 1, kept[i])]
        /\ synced' = kept
        /\ owing' = {}
  BY DEF PowerLoss, LoseUnsynced
<1>2. /\ writer' = [w \in Writers |-> NoWriter]
      /\ UNCHANGED <<used, partialEnt, finalEnt, acked>>
  BY DEF PowerLoss
<1>3. ASSUME NEW i \in Inodes
      PROVE  /\ kept[i] \in Nat /\ data'[i] \in Seq(Byte) /\ Len(data'[i]) = kept[i]
             /\ acked[i] <= kept[i] /\ acked[i] \in Nat /\ synced[i] \in Nat
             /\ Boundary(Len(data'[i])) <= kept[i]
             /\ i \notin used => data'[i] = <<>> /\ kept[i] = 0
  <2>1. /\ kept[i] \in Nat /\ data[i] \in Seq(Byte) /\ Len(data[i]) \in Nat
        /\ synced[i] \in Nat /\ acked[i] \in Nat /\ acked[i] <= synced[i]
        /\ synced[i] <= kept[i] /\ kept[i] <= Len(data[i])
    BY <1>1, MaxBytesAssumption DEF TypeOK, AckedSynced
  <2>2. data'[i] = SubSeq(data[i], 1, kept[i])
    BY <1>1
  <2>3. data'[i] \in Seq(Byte) /\ Len(data'[i]) = kept[i]
    BY <2>1, <2>2
  <2>4. Boundary(kept[i]) <= kept[i]
    BY <2>1, BoundaryBelow
  <2>5. i \notin used => data[i] = <<>>
    BY DEF FreshEmpty
  <2>6. i \notin used => kept[i] = 0 /\ data'[i] = <<>>
    BY <2>1, <2>2, <2>3, <2>5
  <2>. QED
    BY <2>1, <2>3, <2>4, <2>6
<1>4. synced' \in [Inodes -> Nat] /\ data' \in [Inodes -> Seq(Byte)]
  BY <1>1, <1>3
<1>5. NoWriter \in WriterState /\ NoWriter.phase # "open"
  BY NoWriterOK
<1>6. TypeOK'
  BY <1>1, <1>2, <1>4, <1>5 DEF TypeOK
<1>7. FreshEmpty' /\ PathsUsed' /\ WritersOK'
  BY <1>1, <1>2, <1>3, <1>5 DEF FreshEmpty, PathsUsed, WritersOK, WriterOK
<1>8. AckedSynced' /\ AtRiskBounded'
  BY <1>1, <1>2, <1>3 DEF AckedSynced, AtRiskBounded, Boundary
<1>. QED
  BY <1>6, <1>7, <1>8

\* The steps that end the life of a descriptor, and those that leave the files alone.
Closes(w) ==
  FinalizeEmpty(w) \/ CloseFails(w) \/ FinalizeMissing(w) \/ FinalizeRenames(w) \/ Cleanup(w)

Forgets ==
  (\E w \in Writers : Release(w)) \/ ConsumeFinal \/ EngineCrash \/ UNCHANGED vars

LEMMA ClosesKeep ==
  ASSUME IInv, NEW w \in Writers, Closes(w)
  PROVE  /\ IInv'
         /\ \A j \in Inodes : Len(data[j]) <= Len(data'[j]) /\ acked[j] <= acked'[j]
         /\ partialEnt' \in {partialEnt, NoInode}
<1>0. TypeOK /\ FreshEmpty /\ {"closed", "finalized"} \subseteq Phases \ {"open"}
  BY DEF IInv, Phases
<1>1. UNCHANGED <<synced, used, acked>> /\ used \subseteq used'
  BY DEF Closes, FinalizeEmpty, CloseFails, FinalizeMissing, FinalizeRenames, Cleanup
<1>2. Grows
  <2>1. CASE UNCHANGED <<data, owing>>
    BY <1>0, <1>1, <2>1, UnchangedGrows
  <2>2. CASE writer[w].phase = "open" /\ (CloseFlushes(w) \/ CloseRaises(w))
    BY <1>1, <2>2, CloseGrows
  <2>. QED
    BY <2>1, <2>2
       DEF Closes, FinalizeEmpty, CloseFails, FinalizeMissing, FinalizeRenames, Cleanup
<1>3. /\ writer' \in [Writers -> WriterState]
      /\ \A v \in Writers : writer'[v] = writer[v] \/ writer'[v].phase # "open"
  <2>1. CASE UNCHANGED writer
    BY <1>0, <2>1 DEF TypeOK
  <2>2. CASE \E phase \in {"closed", "finalized"} : SetPhase(w, phase)
    BY <1>0, <2>2, SetPhaseQuiet
  <2>. QED
    BY <2>1, <2>2
       DEF Closes, FinalizeEmpty, CloseFails, FinalizeMissing, FinalizeRenames, Cleanup
<1>4. partialEnt' \in {partialEnt, NoInode} /\ finalEnt' \in {finalEnt, partialEnt, NoInode}
  BY DEF Closes, FinalizeEmpty, CloseFails, FinalizeMissing, FinalizeRenames, Cleanup,
         UnlinkPartial, RenameToFinal
<1>. QED
  BY <1>1, <1>2, <1>3, <1>4, CloseKeeps

LEMMA ForgetsKeeps ==
  ASSUME IInv, Forgets
  PROVE  IInv' /\ UNCHANGED <<data, partialEnt, acked>>
<1>0. TypeOK /\ FreshEmpty /\ NoWriter \in WriterState /\ NoWriter.phase # "open"
  BY NoWriterOK DEF IInv
<1>1. /\ UNCHANGED <<data, synced, used, partialEnt, acked, owing>>
      /\ finalEnt' \in {finalEnt, NoInode}
  BY DEF Forgets, Release, ConsumeFinal, EngineCrash, disk, vars
<1>2. /\ writer' \in [Writers -> WriterState]
      /\ \A v \in Writers : writer'[v] = writer[v] \/ writer'[v].phase # "open"
  BY <1>0 DEF Forgets, Release, ConsumeFinal, EngineCrash, vars, TypeOK
<1>3. Grows
  BY <1>0, <1>1, UnchangedGrows
<1>. QED
  BY <1>1, <1>2, <1>3, CloseKeeps

LEMMA InitEstablishes == Init => IInv
<1> SUFFICES ASSUME Init PROVE IInv
  OBVIOUS
<1>1. NoWriter \in WriterState /\ NoWriter.phase # "open"
  BY NoWriterOK
<1>2. TypeOK
  BY <1>1 DEF Init, TypeOK
<1>3. Boundary(0) <= 0
  BY BoundaryBelow
<1>4. FreshEmpty /\ PathsUsed /\ AckedSynced /\ AtRiskBounded
  BY <1>3 DEF Init, FreshEmpty, PathsUsed, AckedSynced, AtRiskBounded
<1>5. WritersOK
  BY <1>1 DEF Init, WritersOK, WriterOK
<1>. QED
  BY <1>2, <1>4, <1>5 DEF IInv

LEMMA StepKeeps == IInv /\ [Next]_vars => IInv'
<1> SUFFICES ASSUME IInv, [Next]_vars PROVE IInv'
  OBVIOUS
<1>0. TypeOK
  BY DEF IInv
<1>1. ASSUME NEW w \in Writers, Open(w) PROVE IInv'
  BY <1>1, OpenKeeps
<1>2. ASSUME NEW w \in Writers, Write(w) PROVE IInv'
  BY <1>2, WriteKeeps
<1>3. ASSUME NEW w \in Writers, Closes(w) PROVE IInv'
  BY <1>3, ClosesKeep
<1>4. CASE Forgets
  BY <1>4, ForgetsKeeps
<1>5. CASE PowerLoss
  BY <1>5, PowerLossKeeps
<1>6. CASE UNCHANGED vars
  BY <1>0, <1>6, ForgetsKeeps DEF vars, disk, Forgets, TypeOK
<1>. QED
  BY <1>1, <1>2, <1>3, <1>4, <1>5, <1>6 DEF Next, Closes, Forgets

\* Every reachable state satisfies the inductive invariant.
LEMMA InvariantHolds == Spec => []IInv
  BY InitEstablishes, StepKeeps, PTL DEF Spec

\* Type correctness of the component, for any constants.
THEOREM PartialFileTyped == Spec => []TypeOK
<1>1. IInv => TypeOK
  BY DEF IInv
<1>. QED
  BY <1>1, InvariantHolds, PTL

\* An offset a checkpoint has reported is never lost: chunker.py fsyncs before
\* it returns the offset, and nothing shortens a file below what was fsynced.
THEOREM CheckpointsSurvive == Spec => []AckedSurvives
<1>1. IInv => AckedSurvives
  BY DEF IInv, AckedSynced, AckedSurvives, TypeOK
<1>. QED
  BY <1>1, InvariantHolds, PTL

\* However many writers append to a file, all but the bytes above its last
\* interval boundary are on stable storage, but for a file to which a call that
\* raised has added since its last checkpoint.
THEOREM LossBounded == Spec => []AtRiskBounded
<1>1. IInv => AtRiskBounded
  BY DEF IInv
<1>. QED
  BY <1>1, InvariantHolds, PTL

-------------------------------------------------------------------------------
LogVars == <<PartialSize, PartialAcked>>

\* A step that takes no byte and no promise back extends the log, discards it or
\* starts it on a file nobody has written to.
LEMMA GrowthExtends ==
  ASSUME IInv, IInv',
         \A j \in Inodes : Len(data[j]) <= Len(data'[j]) /\ acked[j] <= acked'[j],
         \/ partialEnt' \in {partialEnt, NoInode}
         \/ partialEnt = NoInode /\ partialEnt' \in Inodes \ used
  PROVE  [Log!Next]_LogVars
<1>1. CASE partialEnt' = NoInode
  BY <1>1 DEF PartialSize, PartialAcked, Log!Next, Log!Discard
<1>2. CASE partialEnt' # NoInode
  <2> DEFINE i == partialEnt'
  <2>1. i \in Inodes
    BY <1>2 DEF IInv, TypeOK
  <2>2. PartialSize' = Len(data'[i]) /\ PartialAcked' = acked'[i]
    BY <1>2 DEF PartialSize, PartialAcked
  <2>3. /\ Len(data[i]) \in Nat /\ Len(data'[i]) \in Nat /\ acked[i] \in Nat /\ acked'[i] \in Nat
        /\ Len(data[i]) <= Len(data'[i]) /\ acked[i] <= acked'[i]
        /\ acked'[i] <= Len(data'[i])
    <3>1. /\ data[i] \in Seq(Byte) /\ data'[i] \in Seq(Byte)
          /\ acked[i] \in Nat /\ acked'[i] \in Nat
          /\ synced'[i] \in Nat
      BY <2>1 DEF IInv, TypeOK
    <3>2. acked'[i] <= synced'[i] /\ synced'[i] <= Len(data'[i])
      BY <2>1 DEF IInv, AckedSynced
    <3>. QED
      BY <2>1, <3>1, <3>2
  <2>4. PartialSize = Len(data[i]) /\ PartialAcked = acked[i]
    <3>1. CASE partialEnt = i
      BY <1>2, <3>1 DEF PartialSize, PartialAcked
    <3>2. CASE partialEnt # i
      <4>1. partialEnt = NoInode /\ i \in Inodes \ used
        BY <1>2, <3>2
      <4>2. data[i] = <<>> /\ acked[i] = 0
        BY <4>1 DEF IInv, FreshEmpty
      <4>. QED
        BY <4>1, <4>2 DEF PartialSize, PartialAcked
    <3>. QED
      BY <3>1, <3>2
  <2> HIDE DEF i
  <2>5. Log!Extend
    BY <2>2, <2>3, <2>4 DEF Log!Extend
  <2>. QED
    BY <2>5 DEF Log!Next
<1>. QED
  BY <1>1, <1>2

LEMMA PowerLossLoses ==
  ASSUME IInv, PowerLoss
  PROVE  [Log!Next]_LogVars
<1> USE DEF IInv
<1>1. PICK kept \in [Inodes -> 0..MaxBytes] :
        /\ \A i \in Inodes : synced[i] <= kept[i] /\ kept[i] <= Len(data[i])
        /\ data' = [i \in Inodes |-> SubSeq(data[i], 1, kept[i])]
  BY DEF PowerLoss, LoseUnsynced
<1>2. UNCHANGED <<partialEnt, acked>>
  BY DEF PowerLoss
<1>3. CASE partialEnt = NoInode
  BY <1>2, <1>3 DEF PartialSize, PartialAcked, LogVars
<1>4. CASE partialEnt # NoInode
  <2>1. partialEnt \in Inodes
    BY <1>4 DEF TypeOK
  <2>2. /\ data[partialEnt] \in Seq(Byte) /\ kept[partialEnt] \in Nat
        /\ acked[partialEnt] \in Nat /\ synced[partialEnt] \in Nat
        /\ acked[partialEnt] <= synced[partialEnt] /\ Len(data[partialEnt]) \in Nat
    BY <1>1, <2>1, MaxBytesAssumption DEF TypeOK, AckedSynced
  <2>3. /\ synced[partialEnt] <= kept[partialEnt]
        /\ kept[partialEnt] <= Len(data[partialEnt])
        /\ data'[partialEnt] = SubSeq(data[partialEnt], 1, kept[partialEnt])
    BY <1>1, <2>1
  <2>4. Len(data'[partialEnt]) = kept[partialEnt]
    BY <2>2, <2>3
  <2>5. /\ PartialSize = Len(data[partialEnt]) /\ PartialSize' = kept[partialEnt]
        /\ PartialAcked = acked[partialEnt] /\ PartialAcked' = acked[partialEnt]
    BY <1>2, <1>4, <2>4 DEF PartialSize, PartialAcked
  <2>. QED
    BY <2>2, <2>3, <2>5 DEF Log!Next, Log!Lose
<1>. QED
  BY <1>3, <1>4

\* Every other step extends the log, leaves it as it is or discards it.
LEMMA StepSimulates == IInv /\ [Next]_vars => [Log!Next]_LogVars
<1> SUFFICES ASSUME IInv, [Next]_vars PROVE [Log!Next]_LogVars
  OBVIOUS
<1>0. IInv'
  BY StepKeeps
<1>1. ASSUME NEW w \in Writers, Open(w) PROVE [Log!Next]_LogVars
  <2>1. PICK i \in OpenTargets : LinkPartial(i)
    BY <1>1 DEF Open
  <2>2. partialEnt' = i /\ UNCHANGED <<data, acked>> /\ i \in Inodes
    BY <1>1, <2>1 DEF Open, LinkPartial, OpenTargets, IInv, TypeOK
  <2>3. ASSUME NEW j \in Inodes
        PROVE  Len(data[j]) <= Len(data'[j]) /\ acked[j] <= acked'[j]
    <3>1. data[j] \in Seq(Byte) /\ acked[j] \in Nat
      BY DEF IInv, TypeOK
    <3>2. Len(data[j]) \in Nat
      BY <3>1
    <3>. QED
      BY <2>2, <3>1, <3>2
  <2>4. \/ partialEnt' \in {partialEnt, NoInode}
        \/ partialEnt = NoInode /\ partialEnt' \in Inodes \ used
    <3>1. CASE partialEnt = NoInode
      BY <2>1, <2>2, <3>1 DEF OpenTargets
    <3>2. CASE partialEnt # NoInode
      BY <2>1, <2>2, <3>2 DEF OpenTargets
    <3>. QED
      BY <3>1, <3>2
  <2>. QED
    BY <1>0, <2>3, <2>4, GrowthExtends
<1>2. ASSUME NEW w \in Writers, Write(w) PROVE [Log!Next]_LogVars
  BY <1>0, <1>2, WriteKeeps, GrowthExtends
<1>3. ASSUME NEW w \in Writers, Closes(w) PROVE [Log!Next]_LogVars
  BY <1>0, <1>3, ClosesKeep, GrowthExtends
<1>4. CASE Forgets
  BY <1>4, ForgetsKeeps DEF PartialSize, PartialAcked, LogVars
<1>5. CASE PowerLoss
  BY <1>5, PowerLossLoses
<1>. QED
  BY <1>1, <1>2, <1>3, <1>4, <1>5 DEF Next, Closes, Forgets

\* The temp directory keeps the contract of UploadLog: what a checkpoint has
\* promised stays, until the upload as a whole is discarded.
THEOREM UploadLogImplemented == Spec => ImplementsUploadLog
<1>1. Init => Log!Init
  BY DEF Init, Log!Init, PartialSize, PartialAcked
<1>2. IInv /\ [Next]_vars => [Log!Next]_<<PartialSize, PartialAcked>>
  BY StepSimulates DEF LogVars
<1>. QED
  BY <1>1, <1>2, InvariantHolds, PTL DEF Spec, ImplementsUploadLog, Log!Spec
===============================================================================
