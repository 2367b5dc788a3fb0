--------------------------- MODULE PatternDetector ---------------------------
(***************************************************************************)
(* One detector of engine/detectors/pipeline.py in WindowedDetector: a     *)
(* regular expression of groups of digits, each group after the first one  *)
(* with an optional separator before it, no digit before and none after:   *)
(*                                                                         *)
(*     (?<!\d)\d{4}(?:[ -]?\d{4}){2}(?!\d)                                 *)
(*                                                                         *)
(* for AADHAAR_RE, with the checksum computed on what was matched;         *)
(* PHONE_RE has two groups of five.  finditer finds them from left to      *)
(* right, each one after the end of the one before.                        *)
(***************************************************************************)
EXTENDS WindowedDetector

CONSTANTS
    Groups,         \* 3 in AADHAAR_RE
    GroupLength     \* 4 in AADHAAR_RE

ASSUME PatternAssumption ==
    /\ Groups \in Nat \ {0} /\ GroupLength \in Nat \ {0}
    /\ Groups * GroupLength + Groups - 1 <= OVERLAP_SIZE

Digit == {"0", "1"}

------------------------------------------------------------------------------
\* The end of the group of digits that begins at p, 0 when there is none.
GroupEnd(t, p) ==
    IF p + GroupLength <= Len(t) /\ \A q \in p + 1..p + GroupLength : t[q] \in Digit
    THEN p + GroupLength ELSE 0

\* The separator is optional: the next group begins after it, if there is one.
AfterSeparator(t, p) == IF p < Len(t) /\ t[p + 1] = " " THEN p + 1 ELSE p

\* The end of the match of the pattern that begins at s, 0 when there is none.
MatchEnd(t, s) ==
    LET end[g \in 1..Groups] ==
            IF g = 1 THEN GroupEnd(t, s)
            ELSE IF end[g - 1] = 0 THEN 0 ELSE GroupEnd(t, AfterSeparator(t, end[g - 1]))
        e == end[Groups]
    IN  IF (s > 0 => t[s] \notin Digit) /\ (e < Len(t) => t[e + 1] \notin Digit) THEN e ELSE 0

\* finditer: leftmost first; the search goes on where a match ends.
FindIter(t) ==
    LET from[p \in 0..Len(t)] ==
            IF p = Len(t) THEN {}
            ELSE IF MatchEnd(t, p) = 0 THEN from[p + 1]
            ELSE {<<p, MatchEnd(t, p)>>} \cup from[MatchEnd(t, p)]
    IN  from[0]

\* _verhoeff_valid, as a sum of the digits.
ValidChecksum(t, c) == Cardinality({p \in c[1] + 1..c[2] : t[p] = "1"}) % 2 = 0

\* What fails the checksum has been matched all the same.
Candidates(t) == {c \in FindIter(t) : ValidChecksum(t, c)}

------------------------------------------------------------------------------
\* Two separators that follow one another end every match.
Unbroken(t, a, b) == \A p \in a..b - 1 : t[p] # " " \/ t[p + 1] # " "

\* What is counted differs from what the detector reports in the whole text, by matches
\* too many or matches lost, only where no break lies between the beginning of a
\* window and the match: the rest of a run that a window's cut goes through.
DiffersOnlyInCutRuns ==
    done => \A c \in (found \ Candidates(text)) \cup (Candidates(text) \ found) :
        \E w \in searched : 0 < w[1] /\ w[1] <= c[1] /\ Unbroken(text, w[1], c[1] + 1)
==============================================================================
