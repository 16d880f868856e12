--------------------------- MODULE MCSampleSorter ---------------------------
(* Small instances of SampleSorter.  Every order of arrival is explored.   *)
EXTENDS SampleSorter, TLC

\* Two samples with equal time tags, which age off the first.
TagsEqual == [s \in Sample |-> IF s = 1 THEN 0 ELSE 2]

\* The third sample ages off the ones before it, of which the last has the time
\* tag of the second; sample 4 is a jump ahead in time.
TagsJump == [s \in Sample |-> CASE s = 1 -> 0 [] s = 2 -> 1 [] s = 3 -> 4
                                [] s = 4 -> 20 [] OTHER -> 1]

UnitLength == [s \in Sample |-> 1]
Symmetry == Permutations(Producer)
MixedLength == [s \in Sample |-> 1 + (s % 2)]
=============================================================================
