--------------------------------- MODULE Merge ---------------------------------
(***************************************************************************)
(* pipeline/merge.py: segments of the transcript and turns of the          *)
(* diarization become the payload.  Times are whole numbers, a speaker id  *)
(* "S<n>" is n, and the text and the words of a segment are left out.      *)
(***************************************************************************)
EXTENDS Integers, SequencesExt

CONSTANTS Labels, Unknown  \* the labels of pyannote, "SPEAKER_UNKNOWN"

ASSUME UnknownAssumption == Unknown \notin Labels

\* What the merge reads of asr["segments"] and of diar.
Segments == [start : Int, end : Int]
Turns == [start : Int, end : Int, speaker : Labels]

Overlap(seg, turn) ==
  LET from == IF seg.start > turn.start THEN seg.start ELSE turn.start
      to == IF seg.end < turn.end THEN seg.end ELSE turn.end
  IN IF to > from THEN to - from ELSE 0

\* `>=`: of two turns that overlap a segment equally, the later one wins.
Improves_Equal(overlap, best) == overlap >= best.overlap

\* What a turn must overlap by to become the best one so far.
Improves(overlap, best) == overlap > best.overlap

MaxOverlap(seg, diar) ==
  FoldLeft(LAMBDA best, turn :
             IF Improves(Overlap(seg, turn), best)
               THEN [speaker |-> turn.speaker, overlap |-> Overlap(seg, turn)]
               ELSE best,
           [speaker |-> Unknown, overlap |-> 0], diar).speaker

\* Numbers in the order of the labels' last segments.
Numbered_LastFirst(raw) ==
  FoldLeft(LAMBDA known, label : Append(Remove(known, label), label), <<>>, raw)

\* speaker_map after the loop: the labels in the order their numbers were given.
Numbered(raw) ==
  FoldLeft(LAMBDA known, label : IF Contains(known, label) THEN known
                                 ELSE Append(known, label), <<>>, raw)

\* Segments that no turn overlaps are left out.
MergeToPayload_Heard(asr, diar) ==
  LET heard == SelectSeq(asr, LAMBDA seg : MaxOverlap(seg, diar) # Unknown)
      raw == [i \in DOMAIN heard |-> MaxOverlap(heard[i], diar)]
      known == Numbered(raw)
  IN [speakers |-> [n \in DOMAIN known |-> n - 1],
      segments |-> [i \in DOMAIN heard |->
                      [start |-> heard[i].start, end |-> heard[i].end,
                       speaker |-> (CHOOSE n \in DOMAIN known : known[n] = raw[i]) - 1]]]

MergeToPayload(asr, diar) ==
  LET raw == [i \in DOMAIN asr |-> MaxOverlap(asr[i], diar)]
      known == Numbered(raw)
  IN [speakers |-> [n \in DOMAIN known |-> n - 1],
      segments |-> [i \in DOMAIN asr |->
                      [start |-> asr[i].start, end |-> asr[i].end,
                       speaker |-> (CHOOSE n \in DOMAIN known : known[n] = raw[i]) - 1]]]

--------------------------------------------------------------------------------
(***************************************************************************)
(* What the payload is for, in other words than the loop's.                *)
(***************************************************************************)

\* The label of the longest overlap, the first of equally long ones.
IsLongest(label, seg, diar) ==
  \/ /\ label = Unknown
     /\ \A k \in DOMAIN diar : Overlap(seg, diar[k]) = 0
  \/ \E k \in DOMAIN diar :
       /\ diar[k].speaker = label
       /\ Overlap(seg, diar[k]) > 0
       /\ \A m \in DOMAIN diar : Overlap(seg, diar[m]) <= Overlap(seg, diar[k])
       /\ \A m \in 1 .. k - 1 : Overlap(seg, diar[m]) < Overlap(seg, diar[k])

Ids(payload) == {payload.segments[i].speaker : i \in DOMAIN payload.segments}

\* Every speaker number stands for one label, and every segment has the number
\* of its longest label.
TaggedByLongest(payload, asr, diar) ==
  \E name \in [Ids(payload) -> Labels \union {Unknown}] :
    /\ \A m, n \in Ids(payload) : name[m] = name[n] => m = n
    /\ \A i \in DOMAIN asr :
         IsLongest(name[payload.segments[i].speaker], asr[i], diar)

\* The numbers are 0, 1, ... in the order of first appearance, and the list of
\* speakers is exactly the numbers that segments have.
NumberedByAppearance(payload) ==
  /\ ToSet(payload.speakers) = Ids(payload)
  /\ \A n \in DOMAIN payload.speakers : payload.speakers[n] = n - 1
  /\ \A i \in DOMAIN payload.segments :
       \A n \in 0 .. payload.segments[i].speaker - 1 :
         \E j \in 1 .. i - 1 : payload.segments[j].speaker = n

\* The sum of a label's overlaps with a segment.
Talks(label, seg, diar) ==
  FoldLeft(LAMBDA sum, turn : IF turn.speaker = label THEN sum + Overlap(seg, turn)
                              ELSE sum, 0, diar)

\* Every segment has the label that talks longest in it, all turns together.
TaggedByTotal(asr, diar) ==
  \A i \in DOMAIN asr :
    \A label \in Labels :
      Talks(label, asr[i], diar) <= Talks(MaxOverlap(asr[i], diar), asr[i], diar)
================================================================================
