-------------------------- MODULE WindowedDetector --------------------------
(***************************************************************************)
(* aggregate_chunks of engine/detectors/pipeline.py: text arrives in       *)
(* chunks, is searched in overlapping windows of bounded size, and only    *)
(* counts are kept.                                                        *)
(*                                                                         *)
(* The detectors are a parameter: Detect(t) is the set of spans that       *)
(* _detect reports of one type in the text t, whatever it takes them from  *)
(* (a span may depend on all of t, as the names of spaCy do, or on what    *)
(* was matched before it, as with finditer).  PatternDetector gives it a   *)
(* regular expression.  Offsets count from 0 as in the code.               *)
(***************************************************************************)
EXTENDS Integers, Sequences, FiniteSets, SequencesExt

CONSTANTS
    WINDOW_SIZE,    \* 4096 in the code
    OVERLAP_SIZE,   \* 320 in the code
    Char,           \* the characters of a text
    Detect(_),      \* the spans <<start, end>> a detector reports in a text
    MaxChunk,       \* bound: length of a chunk
    MaxText,        \* bound: length of all chunks together
    MaxChunks       \* bound: number of chunks

ASSUME WindowAssumption ==
    /\ WINDOW_SIZE \in Nat /\ OVERLAP_SIZE \in Nat
    /\ 0 < OVERLAP_SIZE /\ OVERLAP_SIZE < WINDOW_SIZE

\* The spans of a window lie in it, and none is empty.
ASSUME DetectorAssumption ==
    \A n \in 0..WINDOW_SIZE : \A t \in [1..n -> Char] :
        Detect(t) \subseteq {c \in (0..n) \X (0..n) : c[1] < c[2]}

ASSUME TextAssumption == MaxChunk \in Nat /\ MaxText \in Nat /\ MaxChunks \in Nat

VARIABLES
    chunks_scanned, stream_offset, remaining,
    buffer, buffer_offset,
    segments,           \* <<start, end, chunk>> of the text still in the buffer
    count,              \* counts[pii_type]
    units_with_pii, last_unit,
    done,
    text,               \* history: the whole text so far
    origin,             \* history: the chunk each character came in
    found,              \* history: the spans counted, in the whole text
    searched            \* history: the parts <<from, to>> of the text searched

position == <<chunks_scanned, stream_offset>>
tallies  == <<count, units_with_pii, last_unit, found, searched>>
vars     == <<position, remaining, buffer, buffer_offset, segments, tallies,
              done, text, origin>>

Chunk == UNION {[1..n -> Char] : n \in 0..MaxChunk}

cutoff == WINDOW_SIZE - OVERLAP_SIZE

------------------------------------------------------------------------------
MutUnitOfLatest(a) == segments[Len(segments)][3]

\* The chunk the character at offset a of the stream came in.
UnitOf(a) ==
    LET k == CHOOSE k \in 1..Len(segments) :
                segments[k][1] <= a /\ a < segments[k][2]
    IN  segments[k][3]

\* The unit of the candidate that comes before the one at s, in the order of starts.
UnitBefore(starts, s) ==
    LET earlier == {r \in starts : r < s}
    IN  IF earlier = {} THEN last_unit ELSE UnitOf(buffer_offset + Max(earlier))

\* reduce: every candidate counts, and its unit when it is not the one before.
\* The generator it reads has searched the text up to this offset.
Reduce(candidates, to) ==
    LET starts == {c[1] : c \in candidates} IN
    /\ count' = count + Cardinality(candidates)
    /\ units_with_pii' = units_with_pii +
          Cardinality({s \in starts : UnitOf(buffer_offset + s) # UnitBefore(starts, s)})
    /\ last_unit' = IF starts = {} THEN last_unit ELSE UnitOf(buffer_offset + Max(starts))
    /\ found' = found \cup {<<buffer_offset + c[1], buffer_offset + c[2]>> : c \in candidates}
    /\ searched' = searched \cup {<<buffer_offset, to>>}

------------------------------------------------------------------------------
Init ==
    /\ chunks_scanned = 0 /\ stream_offset = 0
    /\ remaining = <<>> /\ buffer = <<>> /\ buffer_offset = 0
    /\ segments = <<>>
    /\ count = 0 /\ units_with_pii = 0 /\ last_unit = 0
    /\ done = FALSE
    /\ text = <<>> /\ origin = <<>> /\ found = {} /\ searched = {}

\* The next chunk of the iterable; an empty one only counts as scanned.
NextChunk(chunk) ==
    /\ ~done /\ remaining = <<>>
    /\ Len(text) + Len(chunk) <= MaxText /\ chunks_scanned < MaxChunks
    /\ chunks_scanned' = chunks_scanned + 1
    /\ segments' = IF chunk = <<>> THEN segments
                   ELSE Append(segments, <<stream_offset, stream_offset + Len(chunk),
                                           chunks_scanned + 1>>)
    /\ stream_offset' = stream_offset + Len(chunk)
    /\ remaining' = chunk
    /\ text' = text \o chunk
    /\ origin' = origin \o [p \in 1..Len(chunk) |-> chunks_scanned + 1]
    /\ UNCHANGED <<buffer, buffer_offset, tallies, done>>

Room == WINDOW_SIZE - Len(buffer)

\* Both slices: what fits goes to the buffer, the rest remains.
Fill == SubSeq(remaining, 1, IF Room < Len(remaining) THEN Room ELSE Len(remaining))
Rest == SubSeq(remaining, Room + 1, Len(remaining))

\* The loop body when the buffer does not get full.
Buffer ==
    /\ remaining # <<>> /\ Len(buffer \o Fill) < WINDOW_SIZE
    /\ buffer' = buffer \o Fill
    /\ remaining' = Rest
    /\ UNCHANGED <<position, buffer_offset, segments, tallies, done, text, origin>>

MutKept(candidates) == candidates

MutKeptAtCut(candidates) == {c \in candidates : c[1] <= cutoff}

\* Candidates that start in the overlap are left to the next window.
Kept(candidates) == {c \in candidates : c[1] < cutoff}

MutDropSegments(offset) ==
    SelectSeq(segments, LAMBDA s : s[1] >= offset)

\* Segments that end before the new buffer are popped from the left.
DropSegments(offset) ==
    LET live == {k \in 1..Len(segments) : segments[k][2] > offset} IN
    IF live = {} THEN <<>>
    ELSE SubSeq(segments, CHOOSE k \in live : \A l \in live : k <= l, Len(segments))

MutWindowWithoutOverlap ==
    LET full == buffer \o Fill IN
    /\ remaining # <<>> /\ Len(full) = WINDOW_SIZE
    /\ Reduce(Detect(full), buffer_offset + WINDOW_SIZE)
    /\ buffer' = <<>>
    /\ buffer_offset' = buffer_offset + WINDOW_SIZE
    /\ segments' = DropSegments(buffer_offset + WINDOW_SIZE)
    /\ remaining' = Rest
    /\ UNCHANGED <<position, done, text, origin>>

\* The loop body when the buffer is full: detect, count, keep the overlap.
Window ==
    LET full == buffer \o Fill IN
    /\ remaining # <<>> /\ Len(full) = WINDOW_SIZE
    /\ Reduce(Kept(Detect(full)), buffer_offset + WINDOW_SIZE)
    /\ buffer' = SubSeq(full, cutoff + 1, WINDOW_SIZE)
    /\ buffer_offset' = buffer_offset + cutoff
    /\ segments' = DropSegments(buffer_offset + cutoff)
    /\ remaining' = Rest
    /\ UNCHANGED <<position, done, text, origin>>

\* The iterable is exhausted: what is left in the buffer is searched.
Finish ==
    /\ ~done /\ remaining = <<>>
    /\ Reduce(Detect(buffer), buffer_offset + Len(buffer))
    /\ done' = TRUE
    /\ UNCHANGED <<position, remaining, buffer, buffer_offset, segments, text, origin>>

Next == (\E chunk \in Chunk : NextChunk(chunk)) \/ Buffer \/ Window \/ Finish

Spec == Init /\ [][Next]_vars

------------------------------------------------------------------------------
(* What the counts must mean, whatever the chunks were.                      *)

\* The buffer is bounded and is the text from buffer_offset on, and every
\* character in it has a segment: next() in reduce finds one.
BufferIsWindow ==
    /\ Len(buffer) < WINDOW_SIZE
    /\ buffer \o remaining = SubSeq(text, buffer_offset + 1, Len(text))
    /\ \A p \in buffer_offset + 1..Len(text) :
          \E k \in 1..Len(segments) :
              /\ segments[k][1] < p /\ p <= segments[k][2]
              /\ segments[k][3] = origin[p]

\* From every place of the text, some window sees the next OVERLAP_SIZE characters and
\* the one after them, or all the rest of the text, and what the detector reports in
\* that window at that place is counted.
EveryStretchSearched ==
    done => \A s \in 0..Len(text) - 1 :
        \E w \in searched :
            /\ w[1] <= s
            /\ s + OVERLAP_SIZE < w[2] \/ w[2] = Len(text)
            /\ \A c \in Detect(SubSeq(text, w[1] + 1, w[2])) :
                  c[1] = s - w[1] => <<s, w[1] + c[2]>> \in found

\* units_with_pii is the number of chunks in which a counted span begins.
UnitsAreExact == units_with_pii = Cardinality({origin[c[1] + 1] : c \in found})

\* The counts are a function of the text: the chunks it came in do not matter, and
\* no span is counted by two windows.
SpansOfWindow(k) ==
    LET from == k * cutoff IN
    {<<from + c[1], from + c[2]>> :
        c \in {d \in Detect(SubSeq(text, from + 1, from + WINDOW_SIZE)) : d[1] < cutoff}}

ChunksDoNotMatter ==
    done => LET windows == IF Len(text) < WINDOW_SIZE THEN 0
                           ELSE (Len(text) - WINDOW_SIZE) \div cutoff + 1
                tail    == SubSeq(text, windows * cutoff + 1, Len(text))
            IN  /\ count = Cardinality(found)
                /\ found = (UNION {SpansOfWindow(k) : k \in 0..windows - 1})
                             \cup {<<windows * cutoff + c[1], windows * cutoff + c[2]>> :
                                     c \in Detect(tail)}

\* Docs/build-plan.md:386: chunk-boundary matches are counted once.
CountedOnce == done => count = Cardinality(Detect(text))
==============================================================================
