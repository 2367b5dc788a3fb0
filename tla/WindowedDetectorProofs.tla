----------------------- MODULE WindowedDetectorProofs -----------------------
(***************************************************************************)
(* Proofs about WindowedDetector, for windows and overlaps of any size and *)
(* for every detector: the buffer is the text from its offset on, with a   *)
(* segment for every character; every stretch of the text is searched      *)
(* whole; the units are those of what is counted; and what is counted does *)
(* not depend on the chunks.                                               *)
(***************************************************************************)
EXTENDS WindowedDetector, SequenceTheorems, FiniteSetTheorems, WellFoundedInduction, TLAPS

------------------------------------------------------------------------------
(* The window.                                                               *)

Segment == Nat \X Nat \X Nat

TypeInv ==
    /\ chunks_scanned \in Nat /\ stream_offset \in Nat /\ buffer_offset \in Nat
    /\ text \in Seq(Char) /\ remaining \in Seq(Char) /\ buffer \in Seq(Char)
    /\ segments \in Seq(Segment)
    /\ origin \in Seq(Nat)
    /\ done \in BOOLEAN

\* Where buffer and rest of the chunk are in the text.
PlaceInv ==
    /\ Len(text) = buffer_offset + Len(buffer) + Len(remaining)
    /\ stream_offset = Len(text) /\ Len(origin) = Len(text)
    /\ Len(buffer) < WINDOW_SIZE
    /\ buffer_offset > 0 => OVERLAP_SIZE <= Len(buffer)
    /\ \A p \in 1..Len(buffer) : buffer[p] = text[buffer_offset + p]
    /\ \A p \in 1..Len(remaining) : remaining[p] = text[buffer_offset + Len(buffer) + p]
    /\ done => remaining = <<>>

Covers(k, p) == segments[k][1] < p /\ p <= segments[k][2] /\ segments[k][3] = origin[p]

SegmentInv ==
    \A p \in buffer_offset + 1..Len(text) : \E k \in 1..Len(segments) : Covers(k, p)

WindowInv == TypeInv /\ PlaceInv /\ SegmentInv

LEMMA ChunkType == \A chunk \in Chunk : chunk \in Seq(Char)
BY TextAssumption DEF Chunk

\* What the two slices of the loop body make of the rest of a chunk.
LEMMA Slices ==
    ASSUME TypeInv, PlaceInv
    PROVE  /\ Fill \in Seq(Char) /\ Rest \in Seq(Char) /\ buffer \o Fill \in Seq(Char)
           /\ Len(buffer \o Fill) = Len(buffer) + Len(Fill)
           /\ Len(buffer) + Len(Fill) + Len(Rest) = Len(buffer) + Len(remaining)
           /\ Len(buffer) + Len(Fill) <= WINDOW_SIZE
           /\ Len(buffer) + Len(Fill) < WINDOW_SIZE => Rest = <<>>
           /\ \A p \in 1..Len(buffer \o Fill) : (buffer \o Fill)[p] = text[buffer_offset + p]
           /\ \A p \in 1..Len(Rest) : Rest[p] = text[buffer_offset + Len(buffer \o Fill) + p]
<1> DEFINE n == IF Room < Len(remaining) THEN Room ELSE Len(remaining)
<1>0. /\ Len(buffer) \in Nat /\ Len(remaining) \in Nat /\ buffer_offset \in Nat
      /\ WINDOW_SIZE \in Nat /\ Len(buffer) < WINDOW_SIZE
      /\ buffer \in Seq(Char) /\ remaining \in Seq(Char)
  BY WindowAssumption DEF TypeInv, PlaceInv
<1>1. /\ Room \in Nat /\ Room = WINDOW_SIZE - Len(buffer) /\ Room > 0
      /\ n \in 0..Len(remaining) /\ n <= Room /\ (n < Room => n = Len(remaining))
      /\ n < Len(remaining) => n = Room
  BY <1>0 DEF Room
<1>2. /\ Fill \in Seq(Char) /\ Len(Fill) = n /\ \A p \in 1..n : Fill[p] = remaining[p]
  <2>1. Fill = SubSeq(remaining, 1, n)
    BY DEF Fill
  <2> HIDE DEF n
  <2>2. \A i \in 1..n : remaining[i] \in Char
    BY <1>0, <1>1
  <2> QED
    BY <1>1, <2>1, <2>2, SubSeqProperties
<1>3. /\ Rest \in Seq(Char) /\ Len(Rest) = Len(remaining) - n
      /\ \A p \in 1..Len(Rest) : Rest[p] = remaining[n + p]
  <2>1. Rest = SubSeq(remaining, Room + 1, Len(remaining))
    BY DEF Rest
  <2>2. \A i \in Room + 1..Len(remaining) : remaining[i] \in Char
    BY <1>0, <1>1
  <2>3. /\ Rest \in Seq(Char)
        /\ Len(Rest) = IF Room + 1 <= Len(remaining) THEN Len(remaining) - (Room + 1) + 1 ELSE 0
        /\ \A p \in 1..Len(remaining) - (Room + 1) + 1 : Rest[p] = remaining[(Room + 1) + p - 1]
    <3>1. Room + 1 \in Int /\ Len(remaining) \in Int
      BY <1>0, <1>1
    <3> QED
      BY <2>1, <2>2, <3>1, SubSeqProperties
  <2>4. CASE Room < Len(remaining)
    <3>1. n = Room /\ Len(Rest) = Len(remaining) - Room
      BY <1>0, <1>1, <2>3, <2>4
    <3>2. \A p \in 1..Len(Rest) : p \in 1..Len(remaining) - (Room + 1) + 1 /\ (Room + 1) + p - 1 = Room + p
      BY <1>0, <1>1, <3>1
    <3> HIDE DEF n
    <3> QED
      BY <2>3, <3>1, <3>2
  <2>5. CASE ~(Room < Len(remaining))
    <3>1. n = Len(remaining) /\ Len(Rest) = 0
      BY <1>0, <1>1, <2>3, <2>5
    <3> HIDE DEF n
    <3> QED
      BY <1>0, <2>3, <3>1
  <2> QED
    BY <2>4, <2>5
<1> HIDE DEF n
<1>4. /\ buffer \o Fill \in Seq(Char) /\ Len(buffer \o Fill) = Len(buffer) + n
      /\ \A p \in 1..Len(buffer) + n :
            (buffer \o Fill)[p] = IF p <= Len(buffer) THEN buffer[p] ELSE Fill[p - Len(buffer)]
  BY <1>0, <1>2, ConcatProperties
<1>5. \A p \in 1..Len(buffer) + n : (buffer \o Fill)[p] = text[buffer_offset + p]
  <2> SUFFICES ASSUME NEW p \in 1..Len(buffer) + n
               PROVE  (buffer \o Fill)[p] = text[buffer_offset + p]
    OBVIOUS
  <2>1. CASE p <= Len(buffer)
    BY <1>0, <1>1, <1>4, <2>1 DEF PlaceInv
  <2>2. CASE ~(p <= Len(buffer))
    <3>1. p - Len(buffer) \in 1..n /\ p - Len(buffer) \in 1..Len(remaining)
      BY <1>0, <1>1, <2>2
    <3>2. remaining[p - Len(buffer)] = text[buffer_offset + Len(buffer) + (p - Len(buffer))]
      BY <3>1 DEF PlaceInv
    <3>3. buffer_offset + Len(buffer) + (p - Len(buffer)) = buffer_offset + p
      BY <1>0, <1>1
    <3> QED
      BY <1>2, <1>4, <2>2, <3>1, <3>2, <3>3
  <2> QED
    BY <2>1, <2>2
<1>6. ASSUME NEW p \in 1..Len(Rest)
      PROVE  Rest[p] = text[buffer_offset + (Len(buffer) + n) + p]
  <2>1. n + p \in 1..Len(remaining)
    BY <1>0, <1>1, <1>3
  <2>2. remaining[n + p] = text[buffer_offset + Len(buffer) + (n + p)]
    BY <2>1 DEF PlaceInv
  <2>3. buffer_offset + Len(buffer) + (n + p) = buffer_offset + (Len(buffer) + n) + p
    BY <1>0, <1>1
  <2> QED
    BY <1>3, <2>2, <2>3
<1>7. Len(buffer) + n < WINDOW_SIZE => Rest = <<>>
  <2>1. Len(buffer) + n < WINDOW_SIZE => Len(Rest) = 0
    BY <1>0, <1>1, <1>3
  <2> QED
    BY <1>3, <2>1
<1> QED
  BY <1>0, <1>1, <1>2, <1>3, <1>4, <1>5, <1>6, <1>7

\* The least element of a set of positions.
LEMMA Least ==
    ASSUME NEW S \in SUBSET Nat, S # {}
    PROVE  \E k \in S : \A l \in S : k <= l
<1>1. \E k \in S : \A l \in S : <<l, k>> \notin OpToRel(<, Nat)
  BY NatLessThanWellFounded, WFMin
<1>2. PICK k \in S : \A l \in S : <<l, k>> \notin OpToRel(<, Nat)
  BY <1>1
<1>3. \A l \in S : ~(l < k)
  BY <1>2 DEF OpToRel
<1>4. \A l \in S : k <= l
  BY <1>3
<1> QED
  BY <1>4

\* No segment that is still needed is popped, and those that stay keep their order.
LEMMA Pops ==
    ASSUME TypeInv, NEW offset \in Nat
    PROVE  /\ DropSegments(offset) \in Seq(Segment)
           /\ \A k \in 1..Len(segments) : segments[k][2] > offset =>
                 \E l \in 1..Len(DropSegments(offset)) : DropSegments(offset)[l] = segments[k]
<1> DEFINE live == {k \in 1..Len(segments) : segments[k][2] > offset}
           first == CHOOSE k \in live : \A l \in live : k <= l
<1>0. segments \in Seq(Segment) /\ Len(segments) \in Nat
  BY DEF TypeInv
<1>1. CASE live = {}
  BY <1>0, <1>1, EmptySeq DEF DropSegments
<1>2. CASE live # {}
  <2>1. first \in live /\ \A l \in live : first <= l
    <3>1. live \in SUBSET Nat
      BY <1>0
    <3>2. \E k \in live : \A l \in live : k <= l
      BY <1>2, <3>1, Least
    <3> QED
      BY <3>2
  <2>2. DropSegments(offset) = SubSeq(segments, first, Len(segments))
    BY <1>2 DEF DropSegments
  <2>3. first \in 1..Len(segments)
    BY <2>1
  <2> HIDE DEF first
  <2>4. \A i \in first..Len(segments) : segments[i] \in Segment
    BY <1>0, <2>3
  <2>5. /\ DropSegments(offset) \in Seq(Segment)
        /\ Len(DropSegments(offset)) = Len(segments) - first + 1
        /\ \A i \in 1..Len(segments) - first + 1 : DropSegments(offset)[i] = segments[first + i - 1]
    BY <1>0, <2>2, <2>3, <2>4, SubSeqProperties
  <2>6. ASSUME NEW k \in 1..Len(segments), segments[k][2] > offset
        PROVE  \E l \in 1..Len(DropSegments(offset)) : DropSegments(offset)[l] = segments[k]
    <3>1. first <= k
      BY <2>1, <2>6
    <3>2. k - first + 1 \in 1..Len(segments) - first + 1 /\ first + (k - first + 1) - 1 = k
      BY <1>0, <2>3, <3>1
    <3> QED
      BY <2>5, <3>2
  <2> QED
    BY <2>5, <2>6
<1> QED
  BY <1>1, <1>2

LEMMA WindowInit == Init => WindowInv
<1> SUFFICES ASSUME Init PROVE WindowInv
  OBVIOUS
<1>0. /\ chunks_scanned = 0 /\ stream_offset = 0 /\ buffer_offset = 0 /\ done = FALSE
      /\ remaining = <<>> /\ buffer = <<>> /\ segments = <<>> /\ text = <<>> /\ origin = <<>>
      /\ Len(<<>>) = 0 /\ \A S : <<>> \in Seq(S)
  BY EmptySeq DEF Init
<1>1. TypeInv
  BY <1>0 DEF TypeInv
<1>2. PlaceInv
  BY <1>0, WindowAssumption DEF PlaceInv
<1>3. SegmentInv
  BY <1>0 DEF SegmentInv
<1> QED
  BY <1>1, <1>2, <1>3 DEF WindowInv

LEMMA WindowChunk ==
    ASSUME WindowInv, NEW chunk \in Chunk, NextChunk(chunk)
    PROVE  WindowInv'
<1> DEFINE new == [p \in 1..Len(chunk) |-> chunks_scanned + 1]
           mark == <<stream_offset, stream_offset + Len(chunk), chunks_scanned + 1>>
<1>0. TypeInv /\ PlaceInv /\ SegmentInv /\ chunk \in Seq(Char) /\ Len(chunk) \in Nat
  BY ChunkType DEF WindowInv
<1>1. new \in Seq(Nat) /\ Len(new) = Len(chunk)
  BY <1>0 DEF TypeInv
<1>2. /\ ~done /\ remaining = <<>> /\ chunks_scanned' = chunks_scanned + 1
      /\ stream_offset' = stream_offset + Len(chunk) /\ remaining' = chunk
      /\ text' = text \o chunk /\ origin' = origin \o new
      /\ segments' = IF chunk = <<>> THEN segments ELSE Append(segments, mark)
      /\ buffer' = buffer /\ buffer_offset' = buffer_offset /\ done' = done
  BY DEF NextChunk
<1> HIDE DEF new
<1>3. /\ text' \in Seq(Char) /\ Len(text') = Len(text) + Len(chunk)
      /\ \A p \in 1..Len(text) + Len(chunk) :
            text'[p] = IF p <= Len(text) THEN text[p] ELSE chunk[p - Len(text)]
  BY <1>0, <1>2, ConcatProperties DEF TypeInv
<1>4. /\ origin' \in Seq(Nat) /\ Len(origin') = Len(origin) + Len(chunk)
      /\ \A p \in 1..Len(origin) + Len(chunk) :
            origin'[p] = IF p <= Len(origin) THEN origin[p] ELSE new[p - Len(origin)]
  <2>1. origin \in Seq(Nat)
    BY <1>0 DEF TypeInv
  <2>2. /\ origin \o new \in Seq(Nat) /\ Len(origin \o new) = Len(origin) + Len(new)
        /\ \A p \in 1..Len(origin) + Len(new) :
              (origin \o new)[p] = IF p <= Len(origin) THEN origin[p] ELSE new[p - Len(origin)]
    BY <1>1, <2>1, ConcatProperties
  <2> QED
    BY <1>1, <1>2, <2>2
<1>5. TypeInv'
  <2>1. mark \in Segment
    BY <1>0 DEF TypeInv, Segment
  <2>2. segments' \in Seq(Segment)
    BY <1>0, <1>2, <2>1 DEF TypeInv
  <2> QED
    BY <1>0, <1>2, <1>3, <1>4, <2>2 DEF TypeInv
<1>6. PlaceInv'
  <2>1. Len(text) = buffer_offset + Len(buffer) /\ Len(text) \in Nat /\ Len(buffer) \in Nat
    <3>1. Len(remaining) = 0
      BY <1>2
    <3> QED
      BY <1>0, <3>1 DEF PlaceInv, TypeInv
  <2>2. \A p \in 1..Len(buffer) : buffer[p] = text'[buffer_offset + p]
    <3>1. buffer_offset \in Nat /\ \A p \in 1..Len(buffer) : buffer[p] = text[buffer_offset + p]
      BY <1>0 DEF PlaceInv, TypeInv
    <3>2. \A p \in 1..Len(buffer) : buffer_offset + p \in 1..Len(text)
      BY <2>1, <3>1
    <3>3. \A p \in 1..Len(text) : text'[p] = text[p]
      BY <1>0, <1>3, <2>1
    <3> QED
      BY <3>1, <3>2, <3>3
  <2>3. \A p \in 1..Len(chunk) : chunk[p] = text'[buffer_offset + Len(buffer) + p]
    BY <1>0, <1>3, <2>1
  <2> QED
    BY <1>0, <1>2, <1>3, <1>4, <2>1, <2>2, <2>3 DEF PlaceInv, TypeInv
<1>7. SegmentInv'
  <2> SUFFICES ASSUME NEW p \in buffer_offset + 1..Len(text')
               PROVE  \E k \in 1..Len(segments') : Covers(k, p)'
    BY <1>2 DEF SegmentInv
  <2>0. /\ p \in Nat /\ Len(text) \in Nat /\ Len(origin) = Len(text) /\ stream_offset = Len(text)
        /\ p >= 1 /\ Len(segments) \in Nat /\ segments \in Seq(Segment) /\ buffer_offset \in Nat
        /\ chunks_scanned \in Nat
    BY <1>0, <1>3 DEF TypeInv, PlaceInv
  <2>1. CASE p <= Len(text)
    <3>1. p \in buffer_offset + 1..Len(text)
      BY <2>0, <2>1
    <3>2. PICK k \in 1..Len(segments) : Covers(k, p)
      BY <1>0, <3>1 DEF SegmentInv
    <3>3. k \in 1..Len(segments') /\ segments'[k] = segments[k]
      BY <1>2, <2>0
    <3>4. origin'[p] = origin[p]
      BY <1>0, <1>4, <2>0, <2>1
    <3> QED
      BY <3>2, <3>3, <3>4 DEF Covers
  <2>2. CASE p > Len(text)
    <3>1. /\ chunk # <<>> /\ Len(segments) + 1 \in 1..Len(segments')
          /\ segments'[Len(segments) + 1] = mark
      BY <1>0, <1>2, <1>3, <2>0, <2>2
    <3>2. p - Len(text) \in 1..Len(chunk)
      BY <1>0, <1>3, <2>0, <2>2
    <3>3. origin'[p] = chunks_scanned + 1
      BY <1>0, <1>3, <1>4, <2>0, <2>2, <3>2 DEF new
    <3>4. stream_offset < p /\ p <= stream_offset + Len(chunk)
      BY <1>0, <1>3, <2>0, <2>2
    <3> QED
      BY <3>1, <3>3, <3>4 DEF Covers
  <2> QED
    BY <2>0, <2>1, <2>2
<1> QED
  BY <1>5, <1>6, <1>7 DEF WindowInv

LEMMA WindowBuffer ==
    ASSUME WindowInv, Buffer
    PROVE  WindowInv'
<1> DEFINE full == buffer \o Fill
<1>0. /\ TypeInv /\ PlaceInv /\ SegmentInv
      /\ buffer \in Seq(Char) /\ Len(buffer) \in Nat
      /\ remaining \in Seq(Char) /\ Len(remaining) \in Nat /\ buffer_offset \in Nat
  BY DEF WindowInv, TypeInv
<1>1. /\ Len(full) < WINDOW_SIZE /\ remaining # <<>>
      /\ buffer' = full /\ remaining' = Rest /\ text' = text /\ origin' = origin
      /\ buffer_offset' = buffer_offset /\ stream_offset' = stream_offset
      /\ chunks_scanned' = chunks_scanned /\ segments' = segments /\ done' = done
  BY DEF Buffer, position
<1>2. /\ Rest \in Seq(Char) /\ full \in Seq(Char) /\ Len(full) = Len(buffer) + Len(Fill)
      /\ Len(Fill) \in Nat /\ Len(Rest) \in Nat
      /\ Len(full) + Len(Rest) = Len(buffer) + Len(remaining)
      /\ \A p \in 1..Len(full) : full[p] = text[buffer_offset + p]
      /\ \A p \in 1..Len(Rest) : Rest[p] = text[buffer_offset + Len(full) + p]
  BY <1>0, Slices
<1> HIDE DEF full
<1>3. TypeInv'
  BY <1>0, <1>1, <1>2 DEF TypeInv
<1>4. PlaceInv'
  <2>1. ~done
    BY <1>0, <1>1 DEF PlaceInv
  <2>2. Len(text) = buffer_offset + Len(full) + Len(Rest)
    <3>1. /\ Len(text) = buffer_offset + Len(buffer) + Len(remaining)
          /\ Len(full) + Len(Rest) = Len(buffer) + Len(remaining)
          /\ Len(full) = Len(buffer) + Len(Fill)
      BY <1>0, <1>2 DEF PlaceInv
    <3>2. Len(Fill) \in Nat /\ Len(Rest) \in Nat
      BY <1>2
    <3> QED
      BY <1>0, <3>1, <3>2
  <2>3. buffer_offset > 0 => OVERLAP_SIZE <= Len(full)
    BY <1>0, <1>2, WindowAssumption DEF PlaceInv
  <2>4. stream_offset = Len(text) /\ Len(origin) = Len(text)
    BY <1>0 DEF PlaceInv
  <2> QED
    BY <1>1, <1>2, <2>1, <2>2, <2>3, <2>4 DEF PlaceInv
<1>5. SegmentInv'
  BY <1>0, <1>1 DEF SegmentInv, Covers
<1> QED
  BY <1>3, <1>4, <1>5 DEF WindowInv

\* The buffer when it is full, and what is kept of it.
LEMMA FullWindow ==
    ASSUME WindowInv, Window
    PROVE  /\ Len(buffer \o Fill) = WINDOW_SIZE
           /\ buffer_offset + WINDOW_SIZE <= Len(text)
           /\ \A p \in 1..WINDOW_SIZE : (buffer \o Fill)[p] = text[buffer_offset + p]
           /\ buffer_offset' = buffer_offset + cutoff /\ cutoff \in Nat /\ cutoff > 0
           /\ buffer' \in Seq(Char) /\ Len(buffer') = OVERLAP_SIZE
           /\ \A p \in 1..OVERLAP_SIZE : buffer'[p] = text[buffer_offset + cutoff + p]
<1> DEFINE full == buffer \o Fill
<1>0. /\ TypeInv /\ PlaceInv
      /\ Len(buffer) \in Nat /\ Len(remaining) \in Nat /\ buffer_offset \in Nat
      /\ WINDOW_SIZE \in Nat /\ OVERLAP_SIZE \in Nat /\ OVERLAP_SIZE < WINDOW_SIZE
  BY WindowAssumption DEF WindowInv, TypeInv
<1>1. /\ Len(full) = WINDOW_SIZE /\ buffer' = SubSeq(full, cutoff + 1, WINDOW_SIZE)
      /\ buffer_offset' = buffer_offset + cutoff
  BY DEF Window
<1>2. /\ full \in Seq(Char) /\ Len(Rest) \in Nat /\ Len(full) = Len(buffer) + Len(Fill)
      /\ Len(full) + Len(Rest) = Len(buffer) + Len(remaining)
      /\ \A p \in 1..Len(full) : full[p] = text[buffer_offset + p]
  BY <1>0, Slices
<1> HIDE DEF full
<1>3. cutoff = WINDOW_SIZE - OVERLAP_SIZE /\ cutoff \in Nat /\ cutoff > 0 /\ cutoff + 1 \in Int
  BY <1>0 DEF cutoff
<1>4. buffer_offset + WINDOW_SIZE <= Len(text)
  BY <1>0, <1>1, <1>2 DEF PlaceInv
<1>5. /\ buffer' \in Seq(Char) /\ Len(buffer') = OVERLAP_SIZE
      /\ \A p \in 1..OVERLAP_SIZE : buffer'[p] = full[cutoff + p]
  <2>1. \A i \in cutoff + 1..WINDOW_SIZE : full[i] \in Char
    BY <1>0, <1>1, <1>2, <1>3
  <2>2. /\ SubSeq(full, cutoff + 1, WINDOW_SIZE) \in Seq(Char)
        /\ Len(SubSeq(full, cutoff + 1, WINDOW_SIZE)) =
              IF cutoff + 1 <= WINDOW_SIZE THEN WINDOW_SIZE - (cutoff + 1) + 1 ELSE 0
        /\ \A p \in 1..WINDOW_SIZE - (cutoff + 1) + 1 :
              SubSeq(full, cutoff + 1, WINDOW_SIZE)[p] = full[cutoff + 1 + p - 1]
    BY <1>0, <1>3, <2>1, SubSeqProperties
  <2>3. WINDOW_SIZE - (cutoff + 1) + 1 = OVERLAP_SIZE /\ cutoff + 1 <= WINDOW_SIZE
        /\ \A p \in 1..OVERLAP_SIZE : cutoff + 1 + p - 1 = cutoff + p
    BY <1>0, <1>3, WindowAssumption
  <2> QED
    BY <1>1, <2>2, <2>3
<1>6. \A p \in 1..OVERLAP_SIZE : full[cutoff + p] = text[buffer_offset + cutoff + p]
  <2> SUFFICES ASSUME NEW p \in 1..OVERLAP_SIZE
               PROVE  full[cutoff + p] = text[buffer_offset + cutoff + p]
    OBVIOUS
  <2>1. cutoff + p \in 1..Len(full) /\ buffer_offset + (cutoff + p) = buffer_offset + cutoff + p
    BY <1>0, <1>1, <1>3
  <2> QED
    BY <1>2, <2>1
<1> QED
  BY <1>1, <1>2, <1>3, <1>4, <1>5, <1>6 DEF full

LEMMA WindowWindow ==
    ASSUME WindowInv, Window
    PROVE  WindowInv'
<1> DEFINE full == buffer \o Fill
<1>0. /\ TypeInv /\ PlaceInv /\ SegmentInv
      /\ Len(buffer) \in Nat /\ Len(remaining) \in Nat /\ buffer_offset \in Nat
      /\ WINDOW_SIZE \in Nat /\ OVERLAP_SIZE \in Nat /\ OVERLAP_SIZE < WINDOW_SIZE
  BY WindowAssumption DEF WindowInv, TypeInv
<1>1. /\ Len(full) = WINDOW_SIZE /\ remaining # <<>>
      /\ remaining' = Rest /\ text' = text /\ origin' = origin
      /\ buffer_offset' = buffer_offset + cutoff /\ stream_offset' = stream_offset
      /\ chunks_scanned' = chunks_scanned /\ done' = done
      /\ segments' = DropSegments(buffer_offset + cutoff)
  BY DEF Window, position
<1>2. /\ Rest \in Seq(Char) /\ Len(full) = Len(buffer) + Len(Fill) /\ Len(Rest) \in Nat
      /\ Len(full) + Len(Rest) = Len(buffer) + Len(remaining)
      /\ \A p \in 1..Len(Rest) : Rest[p] = text[buffer_offset + Len(full) + p]
  BY <1>0, Slices
<1> HIDE DEF full
<1>3. /\ cutoff \in Nat /\ cutoff > 0 /\ cutoff = WINDOW_SIZE - OVERLAP_SIZE
      /\ buffer' \in Seq(Char) /\ Len(buffer') = OVERLAP_SIZE
      /\ \A p \in 1..OVERLAP_SIZE : buffer'[p] = text[buffer_offset + cutoff + p]
  BY FullWindow DEF cutoff
<1>4. /\ segments' \in Seq(Segment)
      /\ \A k \in 1..Len(segments) : segments[k][2] > buffer_offset + cutoff =>
            \E l \in 1..Len(segments') : segments'[l] = segments[k]
  <2>1. buffer_offset + cutoff \in Nat
    BY <1>0, <1>3
  <2> QED
    BY <1>0, <1>1, <2>1, Pops
<1>5. TypeInv'
  <2>1. /\ chunks_scanned' \in Nat /\ stream_offset' \in Nat /\ text' \in Seq(Char)
        /\ origin' \in Seq(Nat) /\ done' \in BOOLEAN
    BY <1>0, <1>1 DEF TypeInv
  <2>2. buffer_offset' \in Nat
    BY <1>0, <1>1, <1>3
  <2> QED
    BY <1>1, <1>2, <1>3, <1>4, <2>1, <2>2 DEF TypeInv
<1>6. PlaceInv'
  <2>1. ~done
    BY <1>0, <1>1 DEF PlaceInv
  <2>2. Len(text) = buffer_offset + cutoff + OVERLAP_SIZE + Len(Rest)
    <3>1. /\ Len(text) = buffer_offset + Len(buffer) + Len(remaining)
          /\ WINDOW_SIZE + Len(Rest) = Len(buffer) + Len(remaining)
      BY <1>0, <1>1, <1>2 DEF PlaceInv
    <3>2. Len(Rest) \in Nat /\ cutoff \in Nat /\ cutoff = WINDOW_SIZE - OVERLAP_SIZE
      BY <1>2, <1>3
    <3> QED
      BY <1>0, <3>1, <3>2
  <2>3. \A p \in 1..Len(Rest) : Rest[p] = text[buffer_offset + cutoff + OVERLAP_SIZE + p]
    <3>1. buffer_offset + Len(full) = buffer_offset + cutoff + OVERLAP_SIZE
      BY <1>0, <1>1, <1>3
    <3> QED
      BY <1>2, <3>1
  <2>4. stream_offset = Len(text) /\ Len(origin) = Len(text)
    BY <1>0 DEF PlaceInv
  <2>5. OVERLAP_SIZE < WINDOW_SIZE /\ OVERLAP_SIZE <= OVERLAP_SIZE
    BY <1>0
  <2> QED
    BY <1>1, <1>3, <2>1, <2>2, <2>3, <2>4, <2>5 DEF PlaceInv
<1>7. SegmentInv'
  <2> SUFFICES ASSUME NEW p \in buffer_offset + cutoff + 1..Len(text)
               PROVE  \E l \in 1..Len(segments') : Covers(l, p)'
    BY <1>1 DEF SegmentInv
  <2>1. p \in buffer_offset + 1..Len(text)
    BY <1>0, <1>3
  <2>2. PICK k \in 1..Len(segments) : Covers(k, p)
    BY <1>0, <2>1 DEF SegmentInv
  <2>3. segments[k][2] \in Nat
    BY <1>0 DEF TypeInv, Segment
  <2>4. segments[k][2] > buffer_offset + cutoff
    BY <1>0, <1>3, <2>2, <2>3 DEF Covers
  <2>5. PICK l \in 1..Len(segments') : segments'[l] = segments[k]
    BY <1>4, <2>4
  <2> QED
    BY <1>1, <2>2, <2>5 DEF Covers
<1> QED
  BY <1>5, <1>6, <1>7 DEF WindowInv

LEMMA WindowNext == WindowInv /\ [Next]_vars => WindowInv'
<1> SUFFICES ASSUME WindowInv, [Next]_vars PROVE WindowInv'
  OBVIOUS
<1>1. CASE UNCHANGED vars
  BY <1>1 DEF vars, position, WindowInv, TypeInv, PlaceInv, SegmentInv, Covers
<1>2. CASE Finish
  BY <1>2 DEF Finish, position, WindowInv, TypeInv, PlaceInv, SegmentInv, Covers
<1> QED
  BY <1>1, <1>2, WindowChunk, WindowBuffer, WindowWindow DEF Next

\* What is searched is the text, and every character of it is known to belong to a
\* chunk: the look-up of a match's chunk never ends the scan, and never errs.
THEOREM BufferStaysWindow == Spec => []BufferIsWindow
<1>1. WindowInv => BufferIsWindow
  <2> SUFFICES ASSUME WindowInv PROVE BufferIsWindow
    OBVIOUS
  <2>0. /\ TypeInv /\ PlaceInv /\ SegmentInv /\ text \in Seq(Char) /\ Len(text) \in Nat
        /\ buffer \in Seq(Char) /\ Len(buffer) \in Nat /\ buffer_offset \in Nat
        /\ remaining \in Seq(Char) /\ Len(remaining) \in Nat
        /\ Len(text) = buffer_offset + Len(buffer) + Len(remaining)
    BY DEF WindowInv, TypeInv, PlaceInv
  <2>1. buffer \o remaining = SubSeq(text, buffer_offset + 1, Len(text))
    <3> DEFINE rest == SubSeq(text, buffer_offset + 1, Len(text))
    <3>1. /\ buffer \o remaining \in Seq(Char)
          /\ Len(buffer \o remaining) = Len(buffer) + Len(remaining)
          /\ \A p \in 1..Len(buffer) + Len(remaining) : (buffer \o remaining)[p] =
                IF p <= Len(buffer) THEN buffer[p] ELSE remaining[p - Len(buffer)]
      BY <2>0, ConcatProperties
    <3>2. /\ rest \in Seq(Char)
          /\ Len(rest) = IF buffer_offset + 1 <= Len(text)
                         THEN Len(text) - (buffer_offset + 1) + 1 ELSE 0
          /\ \A p \in 1..Len(text) - (buffer_offset + 1) + 1 :
                rest[p] = text[buffer_offset + 1 + p - 1]
      <4>1. \A i \in buffer_offset + 1..Len(text) : text[i] \in Char
        BY <2>0
      <4>2. buffer_offset + 1 \in Int /\ Len(text) \in Int
        BY <2>0
      <4> QED
        BY <4>1, <4>2, SubSeqProperties
    <3> HIDE DEF rest
    <3>3. Len(rest) = Len(buffer) + Len(remaining)
      BY <2>0, <3>2
    <3>4. ASSUME NEW p \in 1..Len(buffer) + Len(remaining)
          PROVE  (buffer \o remaining)[p] = rest[p]
      <4>1. rest[p] = text[buffer_offset + p]
        <5>1. p \in 1..Len(text) - (buffer_offset + 1) + 1 /\ buffer_offset + 1 + p - 1 = buffer_offset + p
          BY <2>0
        <5> QED
          BY <3>2, <5>1
      <4>2. CASE p <= Len(buffer)
        <5>1. p \in 1..Len(buffer)
          BY <2>0, <4>2
        <5>2. buffer[p] = text[buffer_offset + p]
          BY <2>0, <5>1 DEF PlaceInv
        <5> QED
          BY <3>1, <4>1, <4>2, <5>2
      <4>3. CASE ~(p <= Len(buffer))
        <5>1. p - Len(buffer) \in 1..Len(remaining)
              /\ buffer_offset + Len(buffer) + (p - Len(buffer)) = buffer_offset + p
          BY <2>0, <4>3
        <5>2. remaining[p - Len(buffer)] = text[buffer_offset + Len(buffer) + (p - Len(buffer))]
          BY <2>0, <5>1 DEF PlaceInv
        <5> QED
          BY <3>1, <4>1, <4>3, <5>1, <5>2
      <4> QED
        BY <4>2, <4>3
    <3>5. buffer \o remaining = rest
      BY <3>1, <3>2, <3>3, <3>4, SeqEqual
    <3> QED
      BY <3>5 DEF rest
  <2> QED
    BY <2>0, <2>1 DEF BufferIsWindow, PlaceInv, SegmentInv, Covers
<1> QED
  BY <1>1, WindowInit, WindowNext, PTL DEF Spec

------------------------------------------------------------------------------
(* What is counted.                                                          *)

LEMMA ReduceFinds ==
    ASSUME NEW candidates, NEW to, Reduce(candidates, to)
    PROVE  /\ found' = found \cup {<<buffer_offset + c[1], buffer_offset + c[2]>> : c \in candidates}
           /\ searched' = searched \cup {<<buffer_offset, to>>}
BY DEF Reduce

\* What agrees with a part of a text is that part.
LEMMA PartOf ==
    ASSUME NEW t \in Seq(Char), NEW w \in Seq(Char), NEW offset \in Nat,
           offset + Len(w) <= Len(t),
           \A p \in 1..Len(w) : w[p] = t[offset + p]
    PROVE  w = SubSeq(t, offset + 1, offset + Len(w))
<1> DEFINE part == SubSeq(t, offset + 1, offset + Len(w))
<1>0. Len(t) \in Nat /\ Len(w) \in Nat /\ offset + 1 \in Int /\ offset + Len(w) \in Int
  OBVIOUS
<1>1. \A i \in offset + 1..offset + Len(w) : t[i] \in Char
  BY <1>0
<1>2. /\ part \in Seq(Char)
      /\ Len(part) = IF offset + 1 <= offset + Len(w) THEN offset + Len(w) - (offset + 1) + 1 ELSE 0
      /\ \A p \in 1..offset + Len(w) - (offset + 1) + 1 : part[p] = t[offset + 1 + p - 1]
  BY <1>0, <1>1, SubSeqProperties
<1> HIDE DEF part
<1>3. Len(part) = Len(w)
  BY <1>0, <1>2
<1>4. \A p \in 1..Len(w) : p \in 1..offset + Len(w) - (offset + 1) + 1 /\ offset + 1 + p - 1 = offset + p
  BY <1>0
<1>5. \A p \in 1..Len(w) : part[p] = w[p]
  BY <1>2, <1>4
<1>6. w = part
  BY <1>2, <1>3, <1>5, SeqEqual
<1> QED
  BY <1>6 DEF part

\* A part of a text is the same part of a text that goes on.
LEMMA PartStays ==
    ASSUME NEW t \in Seq(Char), NEW u \in Seq(Char), Len(t) <= Len(u),
           \A p \in 1..Len(t) : u[p] = t[p],
           NEW offset \in Nat, NEW size \in Nat, offset + size <= Len(t)
    PROVE  SubSeq(u, offset + 1, offset + size) = SubSeq(t, offset + 1, offset + size)
<1> DEFINE w == SubSeq(t, offset + 1, offset + size)
<1>0. Len(t) \in Nat /\ Len(u) \in Nat /\ offset + 1 \in Int /\ offset + size \in Int
  OBVIOUS
<1>1. \A i \in offset + 1..offset + size : t[i] \in Char
  BY <1>0
<1>2. /\ w \in Seq(Char)
      /\ Len(w) = IF offset + 1 <= offset + size THEN offset + size - (offset + 1) + 1 ELSE 0
      /\ \A p \in 1..offset + size - (offset + 1) + 1 : w[p] = t[offset + 1 + p - 1]
  BY <1>0, <1>1, SubSeqProperties
<1> HIDE DEF w
<1>3. Len(w) = size
  BY <1>0, <1>2
<1>4. \A p \in 1..size : /\ p \in 1..offset + size - (offset + 1) + 1
                         /\ offset + 1 + p - 1 = offset + p /\ offset + p \in 1..Len(t)
  BY <1>0
<1>5. \A p \in 1..Len(w) : w[p] = u[offset + p]
  <2>1. \A p \in 1..Len(w) : w[p] = t[offset + p]
    BY <1>2, <1>3, <1>4
  <2> QED
    BY <1>3, <1>4, <2>1
<1>6. offset + Len(w) <= Len(u)
  BY <1>0, <1>3
<1>7. w = SubSeq(u, offset + 1, offset + Len(w))
  BY <1>2, <1>5, <1>6, PartOf
<1> QED
  BY <1>3, <1>7 DEF w

LEMMA DetectedIn ==
    ASSUME NEW w \in Seq(Char), Len(w) <= WINDOW_SIZE
    PROVE  Detect(w) \subseteq {c \in (0..Len(w)) \X (0..Len(w)) : c[1] < c[2]}
<1>1. Len(w) \in 0..WINDOW_SIZE /\ w \in [1..Len(w) -> Char]
  BY WindowAssumption
<1> QED
  BY <1>1, DetectorAssumption

\* Spans that lie in the text.
Sound(C) ==
    /\ C \in SUBSET (Nat \X Nat) /\ IsFiniteSet(C)
    /\ \A c \in C : c[1] < c[2] /\ buffer_offset + c[2] <= Len(text)

\* The candidates of a window, which begin before its overlap, or of the rest.
LEMMA Candidates ==
    ASSUME WindowInv, Window \/ Finish
    PROVE  \E C \in SUBSET (Nat \X Nat), to \in Nat :
              Reduce(C, to) /\ Sound(C) /\ (Window => \A c \in C : c[1] < cutoff)
<1>0. /\ TypeInv /\ PlaceInv /\ text \in Seq(Char) /\ Len(text) \in Nat
      /\ buffer_offset \in Nat /\ buffer \in Seq(Char) /\ Len(buffer) \in Nat
      /\ WINDOW_SIZE \in Nat /\ Len(buffer) < WINDOW_SIZE
  BY WindowAssumption DEF WindowInv, TypeInv, PlaceInv
<1>1. ASSUME NEW w \in Seq(Char), buffer_offset + Len(w) <= Len(text), Len(w) <= WINDOW_SIZE,
             NEW C \in SUBSET Detect(w)
      PROVE  Sound(C)
  <2>1. Len(w) \in Nat /\ IsFiniteSet(0..Len(w))
    BY FS_Interval
  <2>2. IsFiniteSet((0..Len(w)) \X (0..Len(w)))
    BY <2>1, FS_Product
  <2>3. C \in SUBSET ((0..Len(w)) \X (0..Len(w))) /\ \A c \in C : c[1] < c[2]
    BY <1>1, DetectedIn
  <2>4. IsFiniteSet(C)
    BY <2>2, <2>3, FS_Subset
  <2>5. \A c \in C : c \in Nat \X Nat /\ c[2] \in 0..Len(w)
    BY <2>1, <2>3
  <2>6. \A c \in C : buffer_offset + c[2] <= Len(text)
    BY <1>0, <1>1, <2>1, <2>5
  <2> QED
    BY <2>3, <2>4, <2>5, <2>6 DEF Sound
<1>2. CASE Finish
  <2>1. /\ Len(text) = buffer_offset + Len(buffer)
        /\ Reduce(Detect(buffer), buffer_offset + Len(buffer))
    <3>1. Len(remaining) = 0
      BY <1>2 DEF Finish
    <3> QED
      BY <1>0, <1>2, <3>1 DEF PlaceInv, Finish
  <2>2. ~Window
    BY <1>2 DEF Finish, Window
  <2>3. Sound(Detect(buffer))
    BY <1>0, <1>1, <2>1
  <2> QED
    BY <1>0, <2>1, <2>2, <2>3 DEF Sound
<1>3. CASE Window
  <2> DEFINE full == buffer \o Fill
             C == Kept(Detect(full))
  <2>1. full \in Seq(Char) /\ Reduce(C, buffer_offset + WINDOW_SIZE)
    BY <1>0, <1>3, Slices DEF Window
  <2>2. Len(full) = WINDOW_SIZE /\ buffer_offset + WINDOW_SIZE <= Len(text)
    BY <1>3, FullWindow
  <2> HIDE DEF full
  <2>3. C \in SUBSET Detect(full) /\ \A c \in C : c[1] < cutoff
    BY DEF Kept
  <2> HIDE DEF C
  <2>4. Sound(C)
    BY <1>0, <1>1, <2>1, <2>2, <2>3
  <2> QED
    BY <1>0, <2>1, <2>3, <2>4 DEF Sound
<1> QED
  BY <1>2, <1>3

\* What a chunk adds to the text.
LEMMA Grows ==
    ASSUME WindowInv, NEW chunk \in Chunk, NextChunk(chunk)
    PROVE  /\ text' \in Seq(Char) /\ Len(text') \in Nat /\ Len(text) \in Nat /\ Len(text) <= Len(text')
           /\ \A p \in 1..Len(text) : text'[p] = text[p] /\ origin'[p] = origin[p]
           /\ \A p \in 1..Len(text') : p > Len(text) => origin'[p] = chunks_scanned + 1
           /\ stream_offset = Len(text) /\ stream_offset + Len(chunk) = Len(text')
           /\ Len(text) = buffer_offset + Len(buffer)
<1> DEFINE new == [p \in 1..Len(chunk) |-> chunks_scanned + 1]
<1>0. /\ TypeInv /\ PlaceInv /\ chunk \in Seq(Char) /\ Len(chunk) \in Nat
      /\ text \in Seq(Char) /\ Len(text) \in Nat /\ origin \in Seq(Nat)
      /\ Len(origin) = Len(text) /\ stream_offset = Len(text) /\ chunks_scanned \in Nat
  BY ChunkType DEF WindowInv, TypeInv, PlaceInv
<1>1. new \in Seq(Nat) /\ Len(new) = Len(chunk) /\ \A p \in 1..Len(chunk) : new[p] = chunks_scanned + 1
  BY <1>0
<1>2. text' = text \o chunk /\ origin' = origin \o new /\ remaining = <<>>
  BY DEF NextChunk
<1> HIDE DEF new
<1>3. /\ text' \in Seq(Char) /\ Len(text') = Len(text) + Len(chunk)
      /\ \A p \in 1..Len(text) + Len(chunk) :
            text'[p] = IF p <= Len(text) THEN text[p] ELSE chunk[p - Len(text)]
  BY <1>0, <1>2, ConcatProperties
<1>4. \A p \in 1..Len(text) + Len(chunk) :
            origin'[p] = IF p <= Len(text) THEN origin[p] ELSE new[p - Len(text)]
  <2>1. \A p \in 1..Len(origin) + Len(new) :
            (origin \o new)[p] = IF p <= Len(origin) THEN origin[p] ELSE new[p - Len(origin)]
    BY <1>0, <1>1, ConcatProperties
  <2> QED
    BY <1>0, <1>1, <1>2, <2>1
<1>5. ASSUME NEW p \in 1..Len(text'), p > Len(text) PROVE origin'[p] = chunks_scanned + 1
  <2>1. p - Len(text) \in 1..Len(chunk)
    BY <1>0, <1>3, <1>5
  <2> QED
    BY <1>0, <1>1, <1>3, <1>4, <1>5, <2>1
<1>6. \A p \in 1..Len(text) : text'[p] = text[p] /\ origin'[p] = origin[p]
  BY <1>0, <1>3, <1>4
<1>7. Len(text) = buffer_offset + Len(buffer)
  <2>1. Len(remaining) = 0
    BY <1>2
  <2> QED
    BY <1>0, <2>1 DEF PlaceInv, TypeInv
<1> QED
  BY <1>0, <1>3, <1>5, <1>6, <1>7

\* Until the end, what is counted begins before the buffer.
SpansInv ==
    /\ IsFiniteSet(found)
    /\ \A c \in found : /\ c \in Nat \X Nat /\ c[1] < c[2] /\ c[2] <= Len(text)
                        /\ done \/ c[1] < buffer_offset

CountInv == count = Cardinality(found)

\* As many spans as candidates.
LEMMA Shifted ==
    ASSUME NEW C \in SUBSET (Nat \X Nat), IsFiniteSet(C), NEW offset \in Nat
    PROVE  LET N == {<<offset + c[1], offset + c[2]>> : c \in C}
           IN  IsFiniteSet(N) /\ Cardinality(N) = Cardinality(C)
<1> DEFINE N == {<<offset + c[1], offset + c[2]>> : c \in C}
           f == [c \in C |-> <<offset + c[1], offset + c[2]>>]
<1>1. f \in [C -> N] /\ \A n \in N : \E c \in C : f[c] = n
  OBVIOUS
<1>2. ASSUME NEW c \in C, NEW d \in C, f[c] = f[d] PROVE c = d
  <2>1. /\ c[1] \in Nat /\ c[2] \in Nat /\ d[1] \in Nat /\ d[2] \in Nat
        /\ c = <<c[1], c[2]>> /\ d = <<d[1], d[2]>>
    OBVIOUS
  <2>2. offset + c[1] = offset + d[1] /\ offset + c[2] = offset + d[2]
    BY <1>2
  <2>3. c[1] = d[1] /\ c[2] = d[2]
    BY <2>1, <2>2
  <2> QED
    BY <2>1, <2>3
<1> HIDE DEF N, f
<1>3. f \in Bijection(C, N)
  BY <1>1, <1>2 DEF Bijection, Injection, Surjection, IsInjective
<1>4. IsFiniteSet(N) /\ Cardinality(N) = Cardinality(C)
  BY <1>3, FS_Bijection DEF ExistsBijection
<1> QED
  BY <1>4 DEF N

\* The steps that count.
LEMMA SpansReduce ==
    ASSUME WindowInv, SpansInv, CountInv, Window \/ Finish
    PROVE  SpansInv' /\ CountInv'
<1>0. /\ TypeInv /\ PlaceInv /\ text \in Seq(Char) /\ Len(text) \in Nat /\ buffer_offset \in Nat
      /\ Len(buffer) \in Nat /\ cutoff \in Nat
  BY WindowAssumption DEF WindowInv, TypeInv, cutoff
<1>1. ~done /\ text' = text
  BY <1>0 DEF Window, Finish, PlaceInv
<1>2. PICK C \in SUBSET (Nat \X Nat), to \in Nat :
              Reduce(C, to) /\ Sound(C) /\ (Window => \A c \in C : c[1] < cutoff)
  BY Candidates
<1> DEFINE N == {<<buffer_offset + c[1], buffer_offset + c[2]>> : c \in C}
<1>3. found' = found \cup N /\ count' = count + Cardinality(C)
  BY <1>2 DEF Reduce
<1>4. IsFiniteSet(N) /\ Cardinality(N) = Cardinality(C)
  BY <1>0, <1>2, Shifted DEF Sound
<1>6. ASSUME NEW c \in C
      PROVE  LET a == buffer_offset + c[1]
                 b == buffer_offset + c[2]
             IN  /\ a \in Nat /\ b \in Nat /\ a < b /\ b <= Len(text) /\ a >= buffer_offset
                 /\ done' \/ a < buffer_offset'
  <2>1. c[1] \in Nat /\ c[2] \in Nat /\ c[1] < c[2] /\ buffer_offset + c[2] <= Len(text)
    BY <1>2 DEF Sound
  <2>2. done' \/ buffer_offset + c[1] < buffer_offset'
    <3>1. CASE Finish
      BY <3>1 DEF Finish
    <3>2. CASE Window
      <4>1. buffer_offset' = buffer_offset + cutoff /\ c[1] < cutoff
        BY <1>2, <3>2 DEF Window
      <4> QED
        BY <1>0, <2>1, <4>1
    <3> QED
      BY <3>1, <3>2
  <2> QED
    BY <1>0, <2>1, <2>2
<1>7. N \cap found = {}
  <2> SUFFICES ASSUME NEW c \in C, <<buffer_offset + c[1], buffer_offset + c[2]>> \in found PROVE FALSE
    OBVIOUS
  <2>1. buffer_offset + c[1] < buffer_offset
    BY <1>1 DEF SpansInv
  <2> QED
    BY <1>0, <1>6, <2>1
<1>8. IsFiniteSet(found') /\ Cardinality(found') = Cardinality(found) + Cardinality(N)
  <2>1. /\ IsFiniteSet(found \cup N)
        /\ Cardinality(found \cup N) = Cardinality(found) + Cardinality(N) - Cardinality(found \cap N)
    BY <1>4, FS_Union DEF SpansInv
  <2>2. Cardinality(found \cap N) = 0
    <3>1. found \cap N = {}
      BY <1>7
    <3> QED
      BY <3>1, FS_EmptySet
  <2>3. Cardinality(found) \in Nat /\ Cardinality(N) \in Nat
    BY <1>4, FS_CardinalityType DEF SpansInv
  <2> QED
    BY <1>3, <2>1, <2>2, <2>3
<1>9. CountInv'
  BY <1>3, <1>4, <1>8 DEF CountInv
<1>10. ASSUME NEW c \in found'
       PROVE  /\ c \in Nat \X Nat /\ c[1] < c[2] /\ c[2] <= Len(text')
              /\ done' \/ c[1] < buffer_offset'
  <2>1. CASE c \in found
    <3>1. c \in Nat \X Nat /\ c[1] < c[2] /\ c[2] <= Len(text) /\ c[1] < buffer_offset
      BY <1>1, <2>1 DEF SpansInv
    <3>2. buffer_offset <= buffer_offset' /\ buffer_offset' \in Nat /\ c[1] \in Nat
      BY <1>0, <3>1 DEF Window, Finish
    <3> QED
      BY <1>0, <1>1, <3>1, <3>2
  <2>2. CASE c \in N
    <3>1. PICK d \in C : c = <<buffer_offset + d[1], buffer_offset + d[2]>>
      BY <2>2
    <3>2. c[1] = buffer_offset + d[1] /\ c[2] = buffer_offset + d[2]
      BY <3>1
    <3> QED
      BY <1>1, <1>6, <3>1, <3>2
  <2> QED
    BY <1>3, <2>1, <2>2
<1> QED
  BY <1>8, <1>9, <1>10 DEF SpansInv

LEMMA SpansNext == WindowInv /\ SpansInv /\ CountInv /\ [Next]_vars => SpansInv' /\ CountInv'
<1> SUFFICES ASSUME WindowInv, SpansInv, CountInv, [Next]_vars PROVE SpansInv' /\ CountInv'
  OBVIOUS
<1>1. CASE UNCHANGED vars
  BY <1>1 DEF vars, tallies, SpansInv, CountInv
<1>2. CASE Buffer
  BY <1>2 DEF Buffer, tallies, SpansInv, CountInv
<1>3. ASSUME NEW chunk \in Chunk, NextChunk(chunk) PROVE SpansInv' /\ CountInv'
  <2>1. /\ ~done /\ done' = done /\ found' = found /\ count' = count /\ buffer_offset' = buffer_offset
    BY <1>3 DEF NextChunk, tallies
  <2>2. Len(text') \in Nat /\ Len(text) \in Nat /\ Len(text) <= Len(text')
    BY <1>3, Grows
  <2>3. ASSUME NEW c \in found
        PROVE  c \in Nat \X Nat /\ c[1] < c[2] /\ c[2] <= Len(text') /\ c[1] < buffer_offset
    <3>1. c \in Nat \X Nat /\ c[2] \in Nat /\ c[1] < c[2] /\ c[2] <= Len(text) /\ c[1] < buffer_offset
      BY <2>1 DEF SpansInv
    <3> QED
      BY <2>2, <3>1
  <2> QED
    BY <2>1, <2>3 DEF SpansInv, CountInv
<1> QED
  BY <1>1, <1>2, <1>3, SpansReduce DEF Next

LEMMA SpansInit == Init => SpansInv /\ CountInv
<1> SUFFICES ASSUME Init PROVE SpansInv /\ CountInv
  OBVIOUS
<1>1. found = {} /\ count = 0
  BY DEF Init
<1> QED
  BY <1>1, FS_EmptySet DEF SpansInv, CountInv

------------------------------------------------------------------------------
(* Every stretch of the text is searched whole.                              *)

\* The window w sees the text from s past the overlap, or to the end, and what the
\* detector reports in it at s is counted.
Sees(w, s) ==
    /\ w \in Nat \X Nat /\ w[1] <= s /\ s < w[2] /\ w[2] <= Len(text)
    /\ s + OVERLAP_SIZE < w[2] \/ (done /\ w[2] = Len(text))
    /\ \A c \in Detect(SubSeq(text, w[1] + 1, w[2])) : c[1] = s - w[1] => <<s, w[1] + c[2]>> \in found

SearchedInv ==
    \A s \in Nat : s < Len(text) /\ (s < buffer_offset \/ done) => \E w \in searched : Sees(w, s)

\* What a window has seen stays seen while nothing is forgotten.
LEMMA SeesMore ==
    ASSUME NEW w, NEW s, Sees(w, s), text' = text, found \subseteq found', done => done'
    PROVE  Sees(w, s)'
BY DEF Sees

LEMMA SearchedChunk ==
    ASSUME WindowInv, SearchedInv, NEW chunk \in Chunk, NextChunk(chunk)
    PROVE  SearchedInv'
<1>0. /\ text \in Seq(Char) /\ text' \in Seq(Char) /\ Len(text) \in Nat /\ Len(text') \in Nat
      /\ Len(text) <= Len(text') /\ \A p \in 1..Len(text) : text'[p] = text[p]
      /\ Len(text) = buffer_offset + Len(buffer) /\ buffer_offset \in Nat /\ Len(buffer) \in Nat
  BY Grows DEF WindowInv, TypeInv
<1>1. /\ ~done /\ ~done' /\ found' = found /\ searched' = searched
      /\ buffer_offset' = buffer_offset
  BY DEF NextChunk, tallies
<1> SUFFICES ASSUME NEW s \in Nat, s < buffer_offset PROVE \E w \in searched : Sees(w, s)'
  BY <1>1 DEF SearchedInv
<1>2. PICK w \in searched : Sees(w, s)
  BY <1>0 DEF SearchedInv
<1>3. /\ w \in Nat \X Nat /\ w[1] \in Nat /\ w[2] \in Nat /\ w[1] <= s /\ s < w[2] /\ w[2] <= Len(text)
      /\ s + OVERLAP_SIZE < w[2]
      /\ \A c \in Detect(SubSeq(text, w[1] + 1, w[2])) : c[1] = s - w[1] => <<s, w[1] + c[2]>> \in found
  BY <1>1, <1>2 DEF Sees
<1> DEFINE size == w[2] - w[1]
<1>4. size \in Nat /\ w[1] + size = w[2]
  BY <1>3
<1> HIDE DEF size
<1>5. SubSeq(text', w[1] + 1, w[1] + size) = SubSeq(text, w[1] + 1, w[1] + size)
  BY <1>0, <1>3, <1>4, PartStays
<1>6. SubSeq(text', w[1] + 1, w[2]) = SubSeq(text, w[1] + 1, w[2])
  BY <1>4, <1>5
<1>7. w[2] <= Len(text')
  BY <1>0, <1>3
<1> QED
  BY <1>1, <1>3, <1>6, <1>7 DEF Sees

LEMMA SearchedWindow ==
    ASSUME WindowInv, SearchedInv, Window
    PROVE  SearchedInv'
<1> DEFINE full == buffer \o Fill
           w == <<buffer_offset, buffer_offset + WINDOW_SIZE>>
<1>0. /\ TypeInv /\ PlaceInv /\ text \in Seq(Char) /\ Len(text) \in Nat /\ buffer_offset \in Nat
      /\ full \in Seq(Char) /\ WINDOW_SIZE \in Nat /\ OVERLAP_SIZE \in Nat
  BY Slices, WindowAssumption DEF WindowInv, TypeInv
<1>1. ~done /\ ~done' /\ text' = text
  BY <1>0 DEF Window, PlaceInv
<1>2. /\ found' = found \cup {<<buffer_offset + c[1], buffer_offset + c[2]>> : c \in Kept(Detect(full))}
      /\ searched' = searched \cup {w}
  BY ReduceFinds DEF Window
<1>3. /\ Len(full) = WINDOW_SIZE /\ buffer_offset + WINDOW_SIZE <= Len(text)
      /\ \A p \in 1..WINDOW_SIZE : full[p] = text[buffer_offset + p]
      /\ buffer_offset' = buffer_offset + cutoff /\ cutoff \in Nat
  BY FullWindow
<1> HIDE DEF full
<1>4. full = SubSeq(text, buffer_offset + 1, buffer_offset + WINDOW_SIZE)
  BY <1>0, <1>3, PartOf
<1>5. cutoff + OVERLAP_SIZE = WINDOW_SIZE
  BY <1>0 DEF cutoff
<1> SUFFICES ASSUME NEW s \in Nat, s < Len(text), s < buffer_offset + cutoff
             PROVE  \E v \in searched' : Sees(v, s)'
  BY <1>1, <1>3 DEF SearchedInv
<1>6. CASE s < buffer_offset
  <2>1. PICK v \in searched : Sees(v, s)
    BY <1>6 DEF SearchedInv
  <2>2. Sees(v, s)'
    BY <1>1, <1>2, <2>1, SeesMore
  <2> QED
    BY <1>2, <2>2
<1>7. CASE ~(s < buffer_offset)
  <2>1. PICK v \in searched' : /\ v \in Nat \X Nat /\ v[1] = buffer_offset
                               /\ v[2] = buffer_offset + WINDOW_SIZE
    <3>1. w \in searched'
      BY <1>2
    <3>2. w \in Nat \X Nat /\ w[1] = buffer_offset /\ w[2] = buffer_offset + WINDOW_SIZE
      BY <1>0
    <3> QED
      BY <3>1, <3>2
  <2>2. /\ buffer_offset <= s /\ s + OVERLAP_SIZE < buffer_offset + WINDOW_SIZE
        /\ s < buffer_offset + WINDOW_SIZE
    BY <1>0, <1>3, <1>5, <1>7
  <2>3. ASSUME NEW c \in Detect(full), c[1] = s - buffer_offset
        PROVE  <<s, buffer_offset + c[2]>> \in found'
    <3>1. c[1] < cutoff /\ buffer_offset + c[1] = s
      BY <1>0, <1>3, <2>3
    <3>2. c \in Kept(Detect(full))
      BY <3>1 DEF Kept
    <3>3. <<buffer_offset + c[1], buffer_offset + c[2]>> \in found'
      BY <1>2, <3>2
    <3> QED
      BY <3>1, <3>3
  <2>4. Sees(v, s)'
    BY <1>1, <1>3, <1>4, <2>1, <2>2, <2>3 DEF Sees
  <2> QED
    BY <2>1, <2>4
<1> QED
  BY <1>6, <1>7

LEMMA SearchedFinish ==
    ASSUME WindowInv, SearchedInv, Finish
    PROVE  SearchedInv'
<1> DEFINE w == <<buffer_offset, buffer_offset + Len(buffer)>>
<1>0. /\ TypeInv /\ PlaceInv /\ text \in Seq(Char) /\ Len(text) \in Nat /\ buffer_offset \in Nat
      /\ buffer \in Seq(Char) /\ Len(buffer) \in Nat
  BY DEF WindowInv, TypeInv
<1>1. /\ ~done /\ done' /\ text' = text
      /\ found' = found \cup {<<buffer_offset + c[1], buffer_offset + c[2]>> : c \in Detect(buffer)}
      /\ searched' = searched \cup {w}
  BY ReduceFinds DEF Finish
<1>2. /\ Len(text) = buffer_offset + Len(buffer)
      /\ \A p \in 1..Len(buffer) : buffer[p] = text[buffer_offset + p]
  <2>1. Len(remaining) = 0
    BY DEF Finish
  <2> QED
    BY <1>0, <2>1 DEF PlaceInv
<1>3. buffer = SubSeq(text, buffer_offset + 1, buffer_offset + Len(buffer))
  BY <1>0, <1>2, PartOf
<1> SUFFICES ASSUME NEW s \in Nat, s < Len(text) PROVE \E v \in searched' : Sees(v, s)'
  BY <1>1 DEF SearchedInv
<1>4. CASE s < buffer_offset
  <2>1. PICK v \in searched : Sees(v, s)
    BY <1>4 DEF SearchedInv
  <2>2. Sees(v, s)'
    BY <1>1, <2>1, SeesMore
  <2> QED
    BY <1>1, <2>2
<1>5. CASE ~(s < buffer_offset)
  <2>1. PICK v \in searched' : v \in Nat \X Nat /\ v[1] = buffer_offset /\ v[2] = Len(text)
    <3>1. w \in searched'
      BY <1>1
    <3>2. w \in Nat \X Nat /\ w[1] = buffer_offset /\ w[2] = Len(text)
      BY <1>0, <1>2
    <3> QED
      BY <3>1, <3>2
  <2>2. buffer_offset <= s
    BY <1>0, <1>5
  <2>3. ASSUME NEW c \in Detect(buffer), c[1] = s - buffer_offset
        PROVE  <<s, buffer_offset + c[2]>> \in found'
    <3>1. buffer_offset + c[1] = s
      BY <1>0, <2>3
    <3>2. <<buffer_offset + c[1], buffer_offset + c[2]>> \in found'
      BY <1>1
    <3> QED
      BY <3>1, <3>2
  <2>4. SubSeq(text, v[1] + 1, v[2]) = buffer
    BY <1>2, <1>3, <2>1
  <2>5. Sees(v, s)'
    <3>1. v[1] <= s /\ s < v[2] /\ v[2] <= Len(text) /\ v[2] = Len(text) /\ v \in Nat \X Nat
      BY <1>0, <2>1, <2>2
    <3>2. \A c \in Detect(SubSeq(text, v[1] + 1, v[2])) :
              c[1] = s - v[1] => <<s, v[1] + c[2]>> \in found'
      BY <2>1, <2>3, <2>4
    <3> QED
      BY <1>1, <3>1, <3>2 DEF Sees
  <2> QED
    BY <2>1, <2>5
<1> QED
  BY <1>4, <1>5

LEMMA SearchedNext == WindowInv /\ SearchedInv /\ [Next]_vars => SearchedInv'
<1> SUFFICES ASSUME WindowInv, SearchedInv, [Next]_vars PROVE SearchedInv'
  OBVIOUS
<1>1. CASE UNCHANGED vars \/ Buffer
  <2>1. /\ text' = text /\ found' = found /\ searched' = searched
        /\ done' = done /\ buffer_offset' = buffer_offset
    BY <1>1 DEF vars, tallies, Buffer
  <2> QED
    BY <2>1 DEF SearchedInv, Sees
<1> QED
  BY <1>1, SearchedChunk, SearchedWindow, SearchedFinish DEF Next

\* Whatever the detector, the window, the overlap and the chunks: from every place of the
\* text some window sees as far as the overlap reaches and one character more, or to the
\* end of the text, and counts what the detector reports in it at that place.
THEOREM StretchesAreSearched == Spec => []EveryStretchSearched
<1>1. Init => SearchedInv
  <2>1. Init => Len(text) = 0
    BY DEF Init
  <2> QED
    BY <2>1 DEF SearchedInv
<1>2. SearchedInv => EveryStretchSearched
  <2> SUFFICES ASSUME SearchedInv, done, NEW s \in 0..Len(text) - 1
               PROVE  \E w \in searched :
                         /\ w[1] <= s
                         /\ s + OVERLAP_SIZE < w[2] \/ w[2] = Len(text)
                         /\ \A c \in Detect(SubSeq(text, w[1] + 1, w[2])) :
                               c[1] = s - w[1] => <<s, w[1] + c[2]>> \in found
    BY DEF EveryStretchSearched
  <2>1. s \in Nat /\ s < Len(text)
    OBVIOUS
  <2>2. PICK w \in searched : Sees(w, s)
    BY <2>1 DEF SearchedInv
  <2> QED
    BY <2>2 DEF Sees
<1> QED
  BY <1>1, <1>2, WindowInit, WindowNext, SearchedNext, PTL DEF Spec

------------------------------------------------------------------------------
(* The units.  The chunks of the text come one after the other, so that the  *)
(* units of successive candidates never go back, and a unit that differs     *)
(* from the one before has not been counted.                                 *)

OriginInv ==
    /\ \A p \in 1..Len(text) : origin[p] \in 1..chunks_scanned
    /\ \A p, q \in 1..Len(text) : p <= q => origin[p] <= origin[q]
    /\ \A k \in 1..Len(segments), p \in Nat :
          segments[k][1] < p /\ p <= segments[k][2] => p \in 1..Len(text) /\ segments[k][3] = origin[p]

\* Nothing but what there was is left of the segments.
LEMMA PopsOnly ==
    ASSUME TypeInv, NEW offset \in Nat
    PROVE  \A l \in 1..Len(DropSegments(offset)) :
              \E k \in 1..Len(segments) : DropSegments(offset)[l] = segments[k]
<1> DEFINE live == {k \in 1..Len(segments) : segments[k][2] > offset}
           first == CHOOSE k \in live : \A l \in live : k <= l
<1>0. segments \in Seq(Segment) /\ Len(segments) \in Nat
  BY DEF TypeInv
<1>1. CASE live = {}
  <2>1. DropSegments(offset) = <<>>
    BY <1>1 DEF DropSegments
  <2> QED
    BY <2>1
<1>2. CASE live # {}
  <2>1. first \in 1..Len(segments)
    <3>1. live \in SUBSET Nat /\ live \subseteq 1..Len(segments)
      BY <1>0
    <3>2. \E k \in live : \A l \in live : k <= l
      BY <1>2, <3>1, Least
    <3> QED
      BY <3>1, <3>2
  <2>2. DropSegments(offset) = SubSeq(segments, first, Len(segments))
    BY <1>2 DEF DropSegments
  <2> HIDE DEF first
  <2>3. \A i \in first..Len(segments) : segments[i] \in Segment
    BY <1>0, <2>1
  <2>4. /\ Len(DropSegments(offset)) = Len(segments) - first + 1
        /\ \A i \in 1..Len(segments) - first + 1 : DropSegments(offset)[i] = segments[first + i - 1]
    BY <1>0, <2>1, <2>2, <2>3, SubSeqProperties
  <2>5. \A i \in 1..Len(segments) - first + 1 : first + i - 1 \in 1..Len(segments)
    BY <1>0, <2>1
  <2> QED
    BY <2>4, <2>5
<1> QED
  BY <1>1, <1>2

LEMMA OriginNext == WindowInv /\ OriginInv /\ [Next]_vars => OriginInv'
<1> SUFFICES ASSUME WindowInv, OriginInv, [Next]_vars PROVE OriginInv'
  OBVIOUS
<1>0. TypeInv /\ PlaceInv /\ buffer_offset \in Nat /\ segments \in Seq(Segment) /\ chunks_scanned \in Nat
      /\ cutoff \in Nat
  BY WindowAssumption DEF WindowInv, TypeInv, cutoff
<1>1. CASE UNCHANGED vars \/ Buffer \/ Finish
  BY <1>1 DEF vars, Buffer, Finish, position, OriginInv
<1>2. CASE Window
  <2>1. /\ text' = text /\ origin' = origin /\ chunks_scanned' = chunks_scanned
        /\ segments' = DropSegments(buffer_offset + cutoff)
    BY <1>2 DEF Window, position
  <2>2. \A l \in 1..Len(segments') : \E k \in 1..Len(segments) : segments'[l] = segments[k]
    <3>1. buffer_offset + cutoff \in Nat
      BY <1>0
    <3> QED
      BY <1>0, <2>1, <3>1, PopsOnly
  <2>3. ASSUME NEW l \in 1..Len(segments'), NEW p \in Nat,
               segments'[l][1] < p, p <= segments'[l][2]
        PROVE  p \in 1..Len(text) /\ segments'[l][3] = origin[p]
    <3>1. PICK k \in 1..Len(segments) : segments'[l] = segments[k]
      BY <2>2
    <3> QED
      BY <2>3, <3>1 DEF OriginInv
  <2> QED
    BY <2>1, <2>3 DEF OriginInv
<1>3. ASSUME NEW chunk \in Chunk, NextChunk(chunk) PROVE OriginInv'
  <2>1. /\ Len(text') \in Nat /\ Len(text) \in Nat /\ Len(text) <= Len(text')
        /\ \A p \in 1..Len(text) : origin'[p] = origin[p]
        /\ \A p \in 1..Len(text') : p > Len(text) => origin'[p] = chunks_scanned + 1
        /\ stream_offset = Len(text) /\ stream_offset + Len(chunk) = Len(text')
    BY <1>3, Grows
  <2>2. chunks_scanned' = chunks_scanned + 1
    BY <1>3 DEF NextChunk
  <2>3. \A p \in 1..Len(text') : \/ p \in 1..Len(text) /\ origin'[p] = origin[p]
                                 \/ p > Len(text) /\ origin'[p] = chunks_scanned + 1
    BY <2>1
  <2>4. \A p \in 1..Len(text') : origin'[p] \in 1..chunks_scanned'
    BY <1>0, <2>2, <2>3 DEF OriginInv
  <2>5. ASSUME NEW p \in 1..Len(text'), NEW q \in 1..Len(text'), p <= q
        PROVE  origin'[p] <= origin'[q]
    <3>1. CASE q \in 1..Len(text)
      <4>1. p \in 1..Len(text)
        BY <2>1, <2>5, <3>1
      <4> QED
        BY <2>1, <2>5, <3>1, <4>1 DEF OriginInv
    <3>2. CASE q > Len(text)
      <4>1. origin'[q] = chunks_scanned + 1
        BY <2>1, <3>2
      <4> QED
        BY <1>0, <2>2, <2>4, <4>1
    <3> QED
      BY <2>1, <3>1, <3>2
  <2>6. ASSUME NEW k \in 1..Len(segments'), NEW p \in Nat,
               segments'[k][1] < p, p <= segments'[k][2]
        PROVE  p \in 1..Len(text') /\ segments'[k][3] = origin'[p]
    <3> DEFINE mark == <<stream_offset, stream_offset + Len(chunk), chunks_scanned + 1>>
    <3>1. (k \in 1..Len(segments) /\ segments'[k] = segments[k]) \/ segments'[k] = mark
      <4>1. segments' = segments \/ segments' = Append(segments, mark)
        BY <1>3 DEF NextChunk
      <4> HIDE DEF mark
      <4> QED
        BY <1>0, <4>1
    <3>2. CASE k \in 1..Len(segments) /\ segments'[k] = segments[k]
      <4>1. p \in 1..Len(text) /\ segments[k][3] = origin[p]
        BY <2>6, <3>2 DEF OriginInv
      <4> QED
        BY <2>1, <3>2, <4>1
    <3>3. CASE segments'[k] = mark
      <4>1. p > Len(text) /\ p <= Len(text')
        BY <2>1, <2>6, <3>3
      <4>2. p \in 1..Len(text')
        BY <2>1, <4>1
      <4> QED
        BY <2>1, <3>3, <4>1, <4>2
    <3> QED
      BY <3>1, <3>2, <3>3
  <2> QED
    BY <2>4, <2>5, <2>6 DEF OriginInv
<1> QED
  BY <1>1, <1>2, <1>3 DEF Next

\* The look-up of a candidate's unit finds the chunk that the character came in.
LEMMA UnitFound ==
    ASSUME WindowInv, OriginInv, NEW a \in Nat, buffer_offset <= a, a < Len(text)
    PROVE  UnitOf(a) = origin[a + 1]
<1>0. buffer_offset \in Nat /\ Len(text) \in Nat /\ segments \in Seq(Segment) /\ SegmentInv
  BY DEF WindowInv, TypeInv
<1>1. \A k \in 1..Len(segments) : segments[k][1] \in Nat /\ segments[k][2] \in Nat
  <2>1. \A k \in 1..Len(segments) : segments[k] \in Segment
    BY <1>0, ElementOfSeq
  <2> QED
    BY <2>1 DEF Segment
<1>2. \E k \in 1..Len(segments) : segments[k][1] <= a /\ a < segments[k][2]
  <2>1. a + 1 \in buffer_offset + 1..Len(text)
    BY <1>0
  <2>2. PICK k \in 1..Len(segments) : segments[k][1] < a + 1 /\ a + 1 <= segments[k][2]
    BY <1>0, <2>1 DEF SegmentInv, Covers
  <2> QED
    BY <1>1, <2>2
<1> DEFINE k == CHOOSE k \in 1..Len(segments) : segments[k][1] <= a /\ a < segments[k][2]
<1>3. k \in 1..Len(segments) /\ segments[k][1] <= a /\ a < segments[k][2]
  BY <1>2
<1>4. UnitOf(a) = segments[k][3]
  BY DEF UnitOf
<1> HIDE DEF k
<1>5. segments[k][1] < a + 1 /\ a + 1 <= segments[k][2]
  BY <1>1, <1>3
<1> QED
  BY <1>3, <1>4, <1>5 DEF OriginInv

LEMMA Greatest ==
    ASSUME NEW S \in SUBSET Nat, S # {}, NEW n \in Nat, \A x \in S : x <= n
    PROVE  Max(S) \in S /\ \A x \in S : x <= Max(S)
<1> DEFINE B == {m \in Nat : \A x \in S : x <= m}
<1>1. PICK m \in B : \A l \in B : m <= l
  BY Least
<1>2. m \in S
  <2> SUFFICES ASSUME m \notin S PROVE FALSE
    OBVIOUS
  <2>1. PICK y \in S : TRUE
    OBVIOUS
  <2>2. m - 1 \in Nat /\ \A x \in S : x <= m - 1
    <3>1. \A x \in S : x \in Nat /\ x <= m /\ x # m
      OBVIOUS
    <3>2. \A x \in S : x <= m - 1
      BY <3>1
    <3> QED
      BY <2>1, <3>1, <3>2
  <2>3. m - 1 \in B
    BY <2>2
  <2> QED
    BY <1>1, <2>3
<1>3. \E x \in S : \A y \in S : x >= y
  BY <1>2
<1>4. Max(S) \in S /\ \A y \in S : Max(S) >= y
  BY <1>3 DEF Max
<1> QED
  BY <1>4

Units == {origin[c[1] + 1] : c \in found}

UnitsInv ==
    /\ units_with_pii = Cardinality(Units)
    /\ IF found = {} THEN last_unit = 0 ELSE last_unit \in Units
    /\ \A u \in Units : u <= last_unit

\* u goes up with S, before is the value of u one step earlier, and at the first
\* step one that nothing in U is past; V is what u takes, F where it changes.
Rising(S, u, before, U, V, F) ==
    /\ S \in SUBSET Nat /\ IsFiniteSet(S)
    /\ u \in [S -> Nat] /\ before \in [S -> Nat]
    /\ \A r, s \in S : r <= s => u[r] <= u[s]
    /\ \A s \in S : before[s] <= u[s]
    /\ \A r, s \in S : r < s => u[r] <= before[s]
    /\ U \in SUBSET Nat /\ IsFiniteSet(U)
    /\ \A s \in S, v \in U : v <= before[s]
    /\ \A s \in S : before[s] \in U \cup {0} \/ \E r \in S : r < s /\ before[s] = u[r]
    /\ \A s \in S : u[s] > 0
    /\ V = {u[s] : s \in S}
    /\ F = {s \in S : u[s] # before[s]}

\* Then the changes are as many as the values that are new.
LEMMA Climbs ==
    ASSUME NEW S, NEW u, NEW before, NEW U, NEW V, NEW F, Rising(S, u, before, U, V, F)
    PROVE  Cardinality(U \cup V) = Cardinality(U) + Cardinality(F)
<1> USE DEF Rising
<1> DEFINE f == [s \in F |-> u[s]]
<1>1. IsFiniteSet(F) /\ F \subseteq S
  BY FS_Subset
<1>2. \A s \in F : before[s] < u[s]
  OBVIOUS
<1>3. \A s \in F : u[s] \in V \ U
  <2> SUFFICES ASSUME NEW s \in F, u[s] \in U PROVE FALSE
    OBVIOUS
  <2>1. u[s] <= before[s]
    OBVIOUS
  <2> QED
    BY <1>2, <2>1
<1>4. ASSUME NEW r \in F, NEW s \in F, f[r] = f[s] PROVE r = s
  <2> SUFFICES ASSUME r # s PROVE FALSE
    OBVIOUS
  <2>1. r \in Nat /\ s \in Nat /\ u[r] \in Nat /\ u[s] \in Nat /\ before[r] \in Nat /\ before[s] \in Nat
    OBVIOUS
  <2>2. CASE r < s
    <3>1. u[r] <= before[s] /\ before[s] < u[s]
      BY <1>2, <2>2
    <3> QED
      BY <1>4, <2>1, <3>1
  <2>3. CASE s < r
    <3>1. u[s] <= before[r] /\ before[r] < u[r]
      BY <1>2, <2>3
    <3> QED
      BY <1>4, <2>1, <3>1
  <2> QED
    BY <2>1, <2>2, <2>3
<1>5. ASSUME NEW v \in V \ U PROVE \E s \in F : f[s] = v
  <2> DEFINE T == {s \in S : u[s] = v}
  <2>1. PICK s \in T : \A r \in T : s <= r
    <3>1. T \in SUBSET Nat /\ T # {}
      OBVIOUS
    <3> HIDE DEF T
    <3> QED
      BY <3>1, Least
  <2>2. s \in S /\ u[s] = v /\ v > 0
    BY <2>1
  <2>3. u[s] # before[s]
    <3> SUFFICES ASSUME u[s] = before[s] PROVE FALSE
      OBVIOUS
    <3>1. before[s] \notin U \cup {0}
      BY <2>2
    <3>2. PICK r \in S : r < s /\ before[s] = u[r]
      BY <2>2, <3>1
    <3>3. r \in T
      BY <2>2, <3>2
    <3> QED
      BY <2>1, <2>2, <3>2, <3>3
  <2> QED
    BY <2>2, <2>3
<1>6. f \in [F -> V \ U]
  BY <1>3
<1> HIDE DEF f
<1>7. f \in Bijection(F, V \ U)
  BY <1>4, <1>5, <1>6 DEF Bijection, Injection, Surjection, IsInjective
<1>8. IsFiniteSet(V \ U) /\ Cardinality(V \ U) = Cardinality(F)
  BY <1>1, <1>7, FS_Bijection DEF ExistsBijection
<1>9. /\ IsFiniteSet(U \cup (V \ U))
      /\ Cardinality(U \cup (V \ U)) =
            Cardinality(U) + Cardinality(V \ U) - Cardinality(U \cap (V \ U))
  BY <1>8, FS_Union
<1>10. Cardinality(U \cap (V \ U)) = 0
  <2>1. U \cap (V \ U) = {}
    OBVIOUS
  <2> QED
    BY <2>1, FS_EmptySet
<1>11. U \cup (V \ U) = U \cup V
  OBVIOUS
<1>12. Cardinality(U) \in Nat /\ Cardinality(V \ U) \in Nat
  BY <1>8, FS_CardinalityType
<1> QED
  <2>1. \A a, b, i, n : a \in Nat /\ b \in Nat /\ i = 0 /\ n = a + b - i => n = a + b
    OBVIOUS
  <2>2. Cardinality(U \cup V) = Cardinality(U) + Cardinality(V \ U)
    BY <1>9, <1>10, <1>11, <1>12, <2>1
  <2> QED
    BY <1>8, <2>2

LEMMA UnitsReduce ==
    ASSUME WindowInv, OriginInv, SpansInv, UnitsInv, Window \/ Finish
    PROVE  UnitsInv'
<1>0. /\ TypeInv /\ PlaceInv /\ Len(text) \in Nat /\ buffer_offset \in Nat /\ chunks_scanned \in Nat
  BY DEF WindowInv, TypeInv
<1>1. ~done /\ origin' = origin
  BY <1>0 DEF Window, Finish, PlaceInv
<1>2. PICK C \in SUBSET (Nat \X Nat), to \in Nat : Reduce(C, to) /\ Sound(C)
  BY Candidates
<1> DEFINE S == {c[1] : c \in C}
           at(s) == buffer_offset + s
           u == [s \in S |-> origin[at(s) + 1]]
           before == [s \in S |-> UnitBefore(S, s)]
           V == {u[s] : s \in S}
           F == {s \in S : u[s] # before[s]}
<1>3. \A s \in S : s \in Nat /\ at(s) \in Nat /\ buffer_offset <= at(s) /\ at(s) < Len(text)
  <2> SUFFICES ASSUME NEW c \in C
               PROVE  /\ c[1] \in Nat /\ at(c[1]) \in Nat /\ buffer_offset <= at(c[1])
                      /\ at(c[1]) < Len(text)
    OBVIOUS
  <2>1. c[1] \in Nat /\ c[2] \in Nat
    OBVIOUS
  <2>2. c[1] < c[2] /\ buffer_offset + c[2] <= Len(text)
    BY <1>2 DEF Sound
  <2> QED
    BY <1>0, <2>1, <2>2
<1>4. \A s \in S : at(s) + 1 \in 1..Len(text)
  BY <1>0, <1>3
<1>5. \A s \in S : UnitOf(at(s)) = u[s]
  BY <1>3, UnitFound
<1>6. /\ u \in [S -> Nat] /\ \A s \in S : u[s] > 0
      /\ \A r, s \in S : r <= s => u[r] <= u[s]
  <2>1. \A s \in S : u[s] \in 1..chunks_scanned
    BY <1>4 DEF OriginInv
  <2>2. ASSUME NEW r \in S, NEW s \in S, r <= s PROVE u[r] <= u[s]
    <3>1. at(r) + 1 <= at(s) + 1
      BY <1>0, <1>3, <2>2
    <3>2. at(r) + 1 \in 1..Len(text) /\ at(s) + 1 \in 1..Len(text)
      BY <1>4
    <3> HIDE DEF at
    <3> QED
      BY <3>1, <3>2 DEF OriginInv
  <2>3. \A s \in S : u[s] \in Nat /\ u[s] > 0
    BY <1>0, <2>1
  <2>4. u = [s \in S |-> u[s]]
    OBVIOUS
  <2> HIDE DEF u
  <2> QED
    BY <2>2, <2>3, <2>4
<1>7. IsFiniteSet(S) /\ S \in SUBSET Nat /\ \A s \in S : s <= Len(text)
  <2>1. S \in SUBSET Nat /\ \A s \in S : s <= Len(text)
    <3>1. \A s \in S : s \in Nat /\ buffer_offset + s < Len(text)
      BY <1>3
    <3> HIDE DEF S
    <3> QED
      BY <1>0, <3>1
  <2> QED
    BY <1>0, <2>1, FS_BoundedSetOfNaturals
\* The units so far.
<1>8. /\ \A d \in found : d[1] \in Nat /\ d[1] + 1 \in 1..Len(text) /\ d[1] < buffer_offset
      /\ IsFiniteSet(found)
  <2>1. \A d \in found : /\ d[1] \in Nat /\ d[2] \in Nat /\ d[1] < buffer_offset
                          /\ d[1] < d[2] /\ d[2] <= Len(text)
    BY <1>1 DEF SpansInv
  <2> QED
    BY <1>0, <2>1 DEF SpansInv
<1>9. /\ Units \in SUBSET Nat /\ IsFiniteSet(Units)
      /\ last_unit \in Nat /\ last_unit \in Units \cup {0}
      /\ \A v \in Units : v <= last_unit
  <2>1. \A d \in found : origin[d[1] + 1] \in Nat
    BY <1>0, <1>8 DEF OriginInv
  <2>2. Units \in SUBSET Nat
    BY <2>1 DEF Units
  <2>3. IsFiniteSet(Units)
    <3> DEFINE g == [d \in found |-> origin[d[1] + 1]]
    <3>1. g \in Surjection(found, Units)
      BY DEF Surjection, Units
    <3> QED
      BY <1>8, <3>1, FS_Surjection
  <2>4. last_unit \in Units \cup {0} /\ \A v \in Units : v <= last_unit
    BY DEF UnitsInv
  <2>5. last_unit \in Nat
    BY <2>2, <2>4
  <2> QED
    BY <2>2, <2>3, <2>4, <2>5
<1>10. \A s \in S : last_unit <= u[s]
  <2> SUFFICES ASSUME NEW s \in S, last_unit \in Units PROVE last_unit <= u[s]
    BY <1>6, <1>9
  <2>1. PICK d \in found : last_unit = origin[d[1] + 1]
    BY DEF Units
  <2>2. d[1] + 1 \in 1..Len(text) /\ at(s) + 1 \in 1..Len(text) /\ d[1] + 1 <= at(s) + 1
    BY <1>0, <1>3, <1>4, <1>8
  <2> HIDE DEF at
  <2> QED
    BY <2>1, <2>2 DEF OriginInv
\* The unit before.
<1>11. ASSUME NEW s \in S
       PROVE  LET earlier == {r \in S : r < s}
              IN  \/ earlier = {} /\ before[s] = last_unit
                  \/ /\ Max(earlier) \in earlier /\ \A r \in earlier : r <= Max(earlier)
                     /\ before[s] = u[Max(earlier)]
  <2> DEFINE earlier == {r \in S : r < s}
  <2>1. CASE earlier = {}
    BY <2>1 DEF UnitBefore
  <2>2. CASE earlier # {}
    <3>1. earlier \in SUBSET Nat /\ s \in Nat /\ \A r \in earlier : r <= s
      BY <1>3
    <3> HIDE DEF earlier
    <3>2. Max(earlier) \in earlier /\ \A r \in earlier : r <= Max(earlier)
      BY <2>2, <3>1, Greatest
    <3>3. before[s] = UnitOf(at(Max(earlier)))
      BY <2>2 DEF UnitBefore, earlier
    <3>4. Max(earlier) \in S
      BY <3>2 DEF earlier
    <3> QED
      BY <1>5, <3>2, <3>3, <3>4 DEF earlier
  <2> QED
    BY <2>1, <2>2
<1> HIDE DEF S, at, u, before
<1>12. ASSUME NEW s \in S
       PROVE  /\ before[s] \in Nat /\ before[s] <= u[s] /\ last_unit <= before[s]
              /\ \A r \in S : r < s => u[r] <= before[s]
              /\ before[s] \in Units \cup {0} \/ \E r \in S : r < s /\ before[s] = u[r]
  <2> DEFINE earlier == {r \in S : r < s}
  <2>1. CASE earlier = {} /\ before[s] = last_unit
    BY <1>9, <1>10, <2>1
  <2>2. CASE /\ Max(earlier) \in earlier /\ \A r \in earlier : r <= Max(earlier)
             /\ before[s] = u[Max(earlier)]
    <3>1. Max(earlier) \in S /\ Max(earlier) < s /\ Max(earlier) <= s
      BY <1>7, <2>2
    <3>2. \A r \in S : r < s => u[r] <= u[Max(earlier)]
      BY <1>6, <2>2, <3>1
    <3> QED
      BY <1>6, <1>10, <2>2, <3>1, <3>2
  <2> QED
    BY <1>11, <2>1, <2>2
<1>13. before \in [S -> Nat]
  BY <1>12 DEF before
<1>14. \A s \in S, v \in Units : v <= before[s]
  <2> SUFFICES ASSUME NEW s \in S, NEW v \in Units PROVE v <= before[s]
    OBVIOUS
  <2>1. v \in Nat /\ v <= last_unit /\ last_unit \in Nat /\ last_unit <= before[s] /\ before[s] \in Nat
    BY <1>9, <1>12
  <2> QED
    BY <2>1
<1>15. Cardinality(Units \cup V) = Cardinality(Units) + Cardinality(F)
  <2>1. IsFiniteSet(Units) /\ Units \in SUBSET Nat
    BY <1>9
  <2>2. /\ V = {u[s] : s \in S}
        /\ F = {s \in S : u[s] # before[s]}
    OBVIOUS
  <2>3. /\ \A s \in S : before[s] <= u[s]
        /\ \A r, s \in S : r < s => u[r] <= before[s]
        /\ \A s \in S : before[s] \in Units \cup {0} \/ \E r \in S : r < s /\ before[s] = u[r]
    BY <1>12
  <2> HIDE DEF Units, V, F
  <2>4. Rising(S, u, before, Units, V, F)
    BY <1>6, <1>7, <1>13, <1>14, <2>1, <2>2, <2>3 DEF Rising
  <2> QED
    BY <2>4, Climbs
<1>16. Units' = Units \cup V
  <2>1. found' = found \cup {<<buffer_offset + c[1], buffer_offset + c[2]>> : c \in C}
    BY <1>2 DEF Reduce
  <2>2. Units' = {origin[d[1] + 1] : d \in found'}
    BY <1>1 DEF Units
  <2>3. V = {origin[buffer_offset + c[1] + 1] : c \in C}
    BY DEF S, u, at
  <2>4. {origin[d[1] + 1] : d \in {<<buffer_offset + c[1], buffer_offset + c[2]>> : c \in C}} = V
    <3> DEFINE new == {<<buffer_offset + c[1], buffer_offset + c[2]>> : c \in C}
           key(d) == origin[d[1] + 1]
           val(c) == origin[buffer_offset + c[1] + 1]
    <3>1. \A c \in C : key(<<buffer_offset + c[1], buffer_offset + c[2]>>) = val(c)
      OBVIOUS
    <3>2. V = {val(c) : c \in C}
      BY <2>3
    <3> HIDE DEF key, val
    <3>3. \A d \in new : \E c \in C : key(d) = val(c)
      BY <3>1
    <3>4. \A c \in C : \E d \in new : key(d) = val(c)
      BY <3>1
    <3> HIDE DEF new
    <3>5. {key(d) : d \in new} = {val(c) : c \in C}
      BY <3>3, <3>4
    <3> QED
      BY <3>2, <3>5 DEF key, new
  <2> QED
    BY <2>1, <2>2, <2>4 DEF Units
<1>17. units_with_pii' = units_with_pii + Cardinality(F)
  <2>1. units_with_pii' = units_with_pii +
          Cardinality({s \in S : UnitOf(buffer_offset + s) # UnitBefore(S, s)})
    BY <1>2 DEF Reduce, S
  <2>2. {s \in S : UnitOf(buffer_offset + s) # UnitBefore(S, s)} = F
    BY <1>5 DEF at, before
  <2> QED
    BY <2>1, <2>2
<1>18. last_unit' = IF S = {} THEN last_unit ELSE UnitOf(at(Max(S)))
  BY <1>2 DEF Reduce, S, at
<1>19. /\ IF found' = {} THEN last_unit' = 0 ELSE last_unit' \in Units'
       /\ \A v \in Units' : v <= last_unit'
  <2>1. CASE S = {}
    <3>1. C = {} /\ V = {}
      BY <2>1 DEF S
    <3>2. found' = found /\ last_unit' = last_unit /\ Units' = Units
      BY <1>2, <1>16, <1>18, <2>1, <3>1 DEF Reduce
    <3> QED
      BY <3>2 DEF UnitsInv
  <2>2. CASE S # {}
    <3>1. Max(S) \in S /\ \A s \in S : s <= Max(S)
      BY <1>0, <1>7, <2>2, Greatest
    <3>2. last_unit' = u[Max(S)] /\ last_unit' \in V
      BY <1>5, <1>18, <2>2, <3>1
    <3>3. \A s \in S : u[s] <= last_unit'
      BY <1>6, <3>1, <3>2
    <3>4. \A v \in Units : v <= last_unit'
      <4>1. last_unit <= u[Max(S)] /\ u[Max(S)] \in Nat
        BY <1>6, <1>10, <3>1
      <4> QED
        BY <1>9, <3>2, <4>1
    <3>5. found' # {}
      BY <1>2, <2>2 DEF Reduce, S
    <3> QED
      BY <1>16, <3>2, <3>3, <3>4, <3>5
  <2> QED
    BY <2>1, <2>2
<1>20. units_with_pii' = Cardinality(Units')
  BY <1>15, <1>16, <1>17 DEF UnitsInv
<1> QED
  BY <1>19, <1>20 DEF UnitsInv

LEMMA UnitsNext ==
    WindowInv /\ OriginInv /\ SpansInv /\ UnitsInv /\ [Next]_vars => UnitsInv'
<1> SUFFICES ASSUME WindowInv, OriginInv, SpansInv, UnitsInv, [Next]_vars PROVE UnitsInv'
  OBVIOUS
<1>1. CASE UNCHANGED vars \/ Buffer
  <2>1. /\ found' = found /\ origin' = origin
        /\ units_with_pii' = units_with_pii /\ last_unit' = last_unit
    BY <1>1 DEF vars, tallies, Buffer
  <2> QED
    BY <2>1 DEF UnitsInv, Units
<1>2. ASSUME NEW chunk \in Chunk, NextChunk(chunk) PROVE UnitsInv'
  <2>1. found' = found /\ units_with_pii' = units_with_pii /\ last_unit' = last_unit
    BY <1>2 DEF NextChunk, tallies
  <2>2. \A p \in 1..Len(text) : origin'[p] = origin[p]
    BY <1>2, Grows
  <2>3. \A d \in found : d[1] + 1 \in 1..Len(text)
    <3>1. Len(text) \in Nat
      BY DEF WindowInv, TypeInv
    <3>2. \A d \in found : /\ d[1] \in Nat /\ d[2] \in Nat
                            /\ d[1] < d[2] /\ d[2] <= Len(text)
      BY DEF SpansInv
    <3> QED
      BY <3>1, <3>2
  <2>4. \A d \in found : origin'[d[1] + 1] = origin[d[1] + 1]
    BY <2>2, <2>3
  <2>5. Units' = Units
    BY <2>1, <2>4 DEF Units
  <2> QED
    BY <2>1, <2>5 DEF UnitsInv
<1> QED
  BY <1>1, <1>2, UnitsReduce DEF Next

\* Every chunk in which something counted begins is counted as a unit, and once only,
\* although a window sees several chunks and a chunk is seen by several windows.
THEOREM UnitsAreCounted == Spec => []UnitsAreExact
<1> DEFINE I == WindowInv /\ SpansInv /\ CountInv /\ OriginInv /\ UnitsInv
<1>1. Init => I
  <2> SUFFICES ASSUME Init PROVE I
    OBVIOUS
  <2>1. SpansInv /\ CountInv
    BY SpansInit
  <2>2. OriginInv
    <3>1. Len(text) = 0 /\ Len(segments) = 0
      BY DEF Init
    <3> QED
      BY <3>1 DEF OriginInv
  <2>3. UnitsInv
    <3>1. found = {} /\ units_with_pii = 0 /\ last_unit = 0
      BY DEF Init
    <3>2. Units = {}
      BY <3>1 DEF Units
    <3> QED
      BY <3>1, <3>2, FS_EmptySet DEF UnitsInv
  <2> QED
    BY <2>1, <2>2, <2>3, WindowInit
<1>2. I /\ [Next]_vars => I'
  BY WindowNext, SpansNext, OriginNext, UnitsNext
<1>3. I => UnitsAreExact
  BY DEF UnitsInv, Units, UnitsAreExact
<1> QED
  BY <1>1, <1>2, <1>3, PTL DEF Spec

------------------------------------------------------------------------------
(* The windows.  Where they begin and what they hold depends on the text     *)
(* only, so that what is found does, whatever the chunks were.               *)

SpansIn(t, k) ==
    {<<k * cutoff + c[1], k * cutoff + c[2]>> :
        c \in {d \in Detect(SubSeq(t, k * cutoff + 1, k * cutoff + WINDOW_SIZE)) : d[1] < cutoff}}

Covered(t, n) == UNION {SpansIn(t, k) : k \in 0..n - 1}

Ending(t, n) ==
    {<<n * cutoff + c[1], n * cutoff + c[2]>> : c \in Detect(SubSeq(t, n * cutoff + 1, Len(t)))}

WindowsOf(t) ==
    IF Len(t) < WINDOW_SIZE THEN 0 ELSE (Len(t) - WINDOW_SIZE) \div cutoff + 1

WindowsInv ==
    IF done THEN found = Covered(text, WindowsOf(text)) \cup Ending(text, WindowsOf(text))
    ELSE \E n \in Nat : buffer_offset = n * cutoff /\ found = Covered(text, n)

\* The first n windows end before the rest of the text begins.
LEMMA WindowsFit ==
    ASSUME NEW n \in Nat, NEW k \in 0..n - 1
    PROVE  k * cutoff \in Nat /\ k * cutoff + WINDOW_SIZE <= n * cutoff + OVERLAP_SIZE
<1>1. cutoff \in Nat /\ WINDOW_SIZE = cutoff + OVERLAP_SIZE /\ OVERLAP_SIZE \in Nat /\ k \in Nat
  BY WindowAssumption DEF cutoff
<1>2. \A c, d, j \in Nat : /\ j * c \in Nat
                           /\ (j + 1) * c = j * c + c
                           /\ (j + d) * c = j * c + d * c
  OBVIOUS
<1> DEFINE d == n - (k + 1)
<1>3. d \in Nat /\ k + 1 \in Nat /\ n = (k + 1) + d
  BY <1>1
<1> HIDE DEF d
<1>4. n * cutoff = (k + 1) * cutoff + d * cutoff /\ d * cutoff \in Nat
  BY <1>1, <1>2, <1>3
<1>5. (k + 1) * cutoff = k * cutoff + cutoff /\ k * cutoff \in Nat
  BY <1>1, <1>2
<1> QED
  BY <1>1, <1>4, <1>5

LEMMA WindowsChunk ==
    ASSUME WindowInv, WindowsInv, NEW chunk \in Chunk, NextChunk(chunk)
    PROVE  WindowsInv'
<1>0. /\ TypeInv /\ PlaceInv /\ text \in Seq(Char) /\ Len(text) \in Nat /\ Len(buffer) \in Nat
      /\ WINDOW_SIZE \in Nat /\ OVERLAP_SIZE \in Nat /\ OVERLAP_SIZE > 0
      /\ cutoff \in Nat /\ cutoff > 0
  BY WindowAssumption DEF WindowInv, TypeInv, cutoff
<1>1. ~done /\ ~done' /\ found' = found /\ buffer_offset' = buffer_offset
  BY DEF NextChunk, tallies
<1>2. /\ text' \in Seq(Char) /\ Len(text) <= Len(text')
      /\ \A p \in 1..Len(text) : text'[p] = text[p]
      /\ Len(text) = buffer_offset + Len(buffer)
  BY Grows
<1>3. PICK n \in Nat : buffer_offset = n * cutoff /\ found = Covered(text, n)
  BY <1>1 DEF WindowsInv
<1>4. ASSUME NEW k \in 0..n - 1 PROVE SpansIn(text', k) = SpansIn(text, k)
  <2>1. k * cutoff \in Nat /\ k * cutoff + WINDOW_SIZE <= n * cutoff + OVERLAP_SIZE
    BY WindowsFit
  <2>2. buffer_offset > 0
    <3>1. WINDOW_SIZE > OVERLAP_SIZE
      BY WindowAssumption
    <3> QED
      BY <1>0, <1>3, <2>1, <3>1 DEF TypeInv
  <2>3. k * cutoff + WINDOW_SIZE <= Len(text)
    <3>1. OVERLAP_SIZE <= Len(buffer) /\ buffer_offset \in Nat
      BY <1>0, <2>2 DEF PlaceInv, TypeInv
    <3> QED
      BY <1>0, <1>2, <1>3, <2>1, <3>1
  <2>4. SubSeq(text', k * cutoff + 1, k * cutoff + WINDOW_SIZE)
            = SubSeq(text, k * cutoff + 1, k * cutoff + WINDOW_SIZE)
    BY <1>0, <1>2, <2>1, <2>3, PartStays
  <2> QED
    BY <2>4 DEF SpansIn
<1>5. Covered(text', n) = Covered(text, n)
  BY <1>4 DEF Covered
<1> QED
  BY <1>1, <1>3, <1>5 DEF WindowsInv

LEMMA WindowsWindow ==
    ASSUME WindowInv, WindowsInv, Window
    PROVE  WindowsInv'
<1> DEFINE full == buffer \o Fill
<1>0. /\ TypeInv /\ PlaceInv /\ text \in Seq(Char) /\ buffer_offset \in Nat /\ full \in Seq(Char)
  BY Slices DEF WindowInv, TypeInv
<1>1. ~done /\ ~done' /\ text' = text
  BY <1>0 DEF Window, PlaceInv
<1>2. found' = found \cup {<<buffer_offset + c[1], buffer_offset + c[2]>> : c \in Kept(Detect(full))}
  BY ReduceFinds DEF Window
<1>3. /\ Len(full) = WINDOW_SIZE /\ buffer_offset + WINDOW_SIZE <= Len(text)
      /\ \A p \in 1..WINDOW_SIZE : full[p] = text[buffer_offset + p]
      /\ buffer_offset' = buffer_offset + cutoff /\ cutoff \in Nat
  BY FullWindow
<1> HIDE DEF full
<1>4. PICK n \in Nat : buffer_offset = n * cutoff /\ found = Covered(text, n)
  BY <1>1 DEF WindowsInv
<1>5. full = SubSeq(text, buffer_offset + 1, buffer_offset + WINDOW_SIZE)
  BY <1>0, <1>3, PartOf
<1>6. Kept(Detect(full)) = {d \in Detect(full) : d[1] < cutoff}
  BY DEF Kept
<1>7. found' = found \cup SpansIn(text, n)
  BY <1>2, <1>4, <1>5, <1>6 DEF SpansIn
<1>8. Covered(text, n + 1) = Covered(text, n) \cup SpansIn(text, n)
  <2>1. \A k : k \in 0..(n + 1) - 1 <=> k \in 0..n - 1 \/ k = n
    OBVIOUS
  <2> QED
    BY <2>1 DEF Covered
<1>9. buffer_offset' = (n + 1) * cutoff /\ n + 1 \in Nat
  <2>1. \A c \in Nat : (n + 1) * c = n * c + c
    OBVIOUS
  <2> QED
    BY <1>3, <1>4, <2>1
<1> QED
  BY <1>1, <1>4, <1>7, <1>8, <1>9 DEF WindowsInv

LEMMA WindowsFinish ==
    ASSUME WindowInv, WindowsInv, Finish
    PROVE  WindowsInv'
<1>0. /\ TypeInv /\ PlaceInv /\ text \in Seq(Char) /\ Len(text) \in Nat /\ buffer_offset \in Nat
      /\ buffer \in Seq(Char) /\ Len(buffer) \in Nat
      /\ WINDOW_SIZE \in Nat /\ OVERLAP_SIZE \in Nat /\ WINDOW_SIZE = cutoff + OVERLAP_SIZE
      /\ cutoff \in Nat /\ cutoff > 0
  BY WindowAssumption DEF WindowInv, TypeInv, cutoff
<1>1. /\ ~done /\ done' /\ text' = text
      /\ found' = found \cup {<<buffer_offset + c[1], buffer_offset + c[2]>> : c \in Detect(buffer)}
  BY ReduceFinds DEF Finish
<1>2. /\ Len(text) = buffer_offset + Len(buffer) /\ Len(buffer) < WINDOW_SIZE
      /\ buffer_offset > 0 => OVERLAP_SIZE <= Len(buffer)
      /\ \A p \in 1..Len(buffer) : buffer[p] = text[buffer_offset + p]
  <2>1. Len(remaining) = 0
    BY DEF Finish
  <2> QED
    BY <1>0, <2>1 DEF PlaceInv
<1>3. PICK n \in Nat : buffer_offset = n * cutoff /\ found = Covered(text, n)
  BY <1>1 DEF WindowsInv
<1>4. WindowsOf(text) = n
  <2>1. CASE n = 0
    <3>1. buffer_offset = 0
      BY <1>0, <1>3, <2>1
    <3> QED
      BY <1>0, <1>2, <2>1, <3>1 DEF WindowsOf
  <2>2. CASE n # 0
    <3> DEFINE m == n - 1
               r == Len(buffer) - OVERLAP_SIZE
    <3>1. m \in Nat /\ n = m + 1
      BY <2>2
    <3> HIDE DEF m
    <3>2. buffer_offset = m * cutoff + cutoff /\ m * cutoff \in Nat
      <4>1. \A c \in Nat : (m + 1) * c = m * c + c /\ m * c \in Nat
        BY <3>1
      <4> QED
        BY <1>0, <1>3, <3>1, <4>1
    <3>3. r \in 0..cutoff - 1
      BY <1>0, <1>2, <3>2
    <3>4. Len(text) - WINDOW_SIZE = m * cutoff + r /\ ~(Len(text) < WINDOW_SIZE)
      BY <1>0, <1>2, <3>2, <3>3
    <3> HIDE DEF r
    <3>5. (m * cutoff + r) \div cutoff = m
      <4>1. \A c \in Nat : c > 0 => \A q \in 0..c - 1 : (m * c + q) \div c = m
        BY <3>1
      <4> QED
        BY <1>0, <3>3, <4>1
    <3> QED
      BY <3>1, <3>4, <3>5 DEF WindowsOf
  <2> QED
    BY <2>1, <2>2
<1>5. buffer = SubSeq(text, buffer_offset + 1, Len(text))
  BY <1>0, <1>2, PartOf
<1>6. found' = found \cup Ending(text, n)
  BY <1>1, <1>3, <1>5 DEF Ending
<1> QED
  BY <1>1, <1>3, <1>4, <1>6 DEF WindowsInv

LEMMA WindowsNext == WindowInv /\ WindowsInv /\ [Next]_vars => WindowsInv'
<1> SUFFICES ASSUME WindowInv, WindowsInv, [Next]_vars PROVE WindowsInv'
  OBVIOUS
<1>1. CASE UNCHANGED vars \/ Buffer
  <2>1. found' = found /\ text' = text /\ buffer_offset' = buffer_offset /\ done' = done
    BY <1>1 DEF vars, tallies, Buffer
  <2> QED
    BY <2>1 DEF WindowsInv
<1> QED
  BY <1>1, WindowsChunk, WindowsWindow, WindowsFinish DEF Next

\* What is counted is what the windows of the text hold, each up to its overlap, and
\* the rest: the same for one large chunk and for many small ones.
THEOREM CountsAreOfTheText == Spec => []ChunksDoNotMatter
<1>1. Init => WindowsInv
  <2> SUFFICES ASSUME Init PROVE WindowsInv
    OBVIOUS
  <2>1. ~done /\ found = {} /\ buffer_offset = 0 /\ cutoff \in Int
    BY WindowAssumption DEF Init, cutoff
  <2>2. 0 = 0 * cutoff
    BY <2>1
  <2>3. Covered(text, 0) = {}
    BY DEF Covered
  <2> QED
    BY <2>1, <2>2, <2>3 DEF WindowsInv
<1>2. WindowsInv /\ CountInv => ChunksDoNotMatter
  <2> SUFFICES ASSUME WindowsInv, CountInv, done PROVE ChunksDoNotMatter
    BY DEF ChunksDoNotMatter
  <2> DEFINE n == WindowsOf(text)
  <2>1. found = Covered(text, n) \cup Ending(text, n)
    BY DEF WindowsInv
  <2>2. \A k : SpansOfWindow(k) = SpansIn(text, k)
    BY DEF SpansOfWindow, SpansIn
  <2> HIDE DEF n
  <2>3. Covered(text, n) = UNION {SpansOfWindow(k) : k \in 0..n - 1}
    BY <2>2 DEF Covered
  <2> QED
    BY <2>1, <2>3 DEF ChunksDoNotMatter, CountInv, Ending, n, WindowsOf
<1> QED
  BY <1>1, <1>2, WindowInit, WindowNext, WindowsNext, SpansInit, SpansNext, PTL DEF Spec
=============================================================================
