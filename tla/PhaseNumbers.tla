---------------------------- MODULE PhaseNumbers ----------------------------
(***************************************************************************)
(* Phase numbers of the planning tools (bin/lib/core.cjs): how they are    *)
(* ordered, normalised and matched against directory names.  A number such *)
(* as 12A.1.2 is the record [int |-> 12, letter |-> 1, decs |-> <<1, 2>>], *)
(* letter 0 standing for none.  A reference typed by a user or printed in  *)
(* a heading also remembers whether its integer is padded to two digits.   *)
(***************************************************************************)
EXTENDS Integers, Sequences

PhaseNum == [int : Nat, letter : Nat, decs : Seq(Nat)]

\* Decimals count from 1.
Counted(n) == \A i \in DOMAIN n.decs : n.decs[i] >= 1

Whole(n) == [int |-> n, letter |-> 0, decs |-> << >>]
Child(p, k) == [p EXCEPT !.decs = Append(@, k)]

\* A missing decimal segment compares as 0.
Segment(s, i) == IF i <= Len(s) THEN s[i] ELSE 0

LongerLen(s, t) == IF Len(s) < Len(t) THEN Len(t) ELSE Len(s)

\* No decimals sort before any decimals; otherwise the first segment that
\* differs decides.
DecimalsBefore(s, t) ==
    \/ s = << >> /\ t # << >>
    \/ /\ s # << >> /\ t # << >>
       /\ \E i \in 1 .. LongerLen(s, t) :
            /\ Segment(s, i) < Segment(t, i)
            /\ \A j \in 1 .. (i - 1) : Segment(s, j) = Segment(t, j)

\* comparePhaseNum(a, b) < 0
Before(a, b) ==
    \/ a.int < b.int
    \/ a.int = b.int /\ a.letter < b.letter
    \/ a.int = b.int /\ a.letter = b.letter /\ DecimalsBefore(a.decs, b.decs)

\* comparePhaseNum(a, b) = 0
SameRank(a, b) == ~Before(a, b) /\ ~Before(b, a)

(***************************************************************************)
(* References.  normalizePhaseName pads the integer, so it forgets pad.    *)
(***************************************************************************)
PhaseRef == [num : PhaseNum, pad : BOOLEAN]

Plain(p)  == [num |-> p, pad |-> FALSE]
Padded(p) == [num |-> p, pad |-> TRUE]

normalizePhaseName(ref) == Padded(ref.num)

\* The text of k starts with the text of n.
DigitPrefix(n, k) == \E e \in {1, 10, 100} : k \div e = n

\* d.startsWith(normalized): a directory number whose text starts with the
\* text of p, so 01 also matches 01.1 and 01A.
StartsWith(d, p) ==
    IF p.decs # << >>
    THEN LET n == Len(p.decs) IN
         /\ d.int = p.int /\ d.letter = p.letter
         /\ Len(d.decs) >= n
         /\ SubSeq(d.decs, 1, n - 1) = SubSeq(p.decs, 1, n - 1)
         /\ DigitPrefix(p.decs[n], d.decs[n])
    ELSE IF p.letter # 0
    THEN d.int = p.int /\ d.letter = p.letter
    ELSE d.int = p.int \/ (p.int >= 10 /\ DigitPrefix(p.int, d.int))
=============================================================================
