------------------------ MODULE MCElectronicIssuing ------------------------
(* Small instances of ElectronicIssuing for TLC.                           *)
EXTENDS ElectronicIssuing, TLC

CONSTANTS d1, d2, d3, c1, c2, v1, v2, r1, r2

\* One range, or two of the same document type, from 1 to the run's limit.
OneRange    == {r1}
TwoRanges   == {r1, r2}
EveryRange  == [d \in Docs |-> Ranges]

FromOne == [r \in Ranges |-> 1]
UpToTwo == [r \in Ranges |-> 2]

Production   == [r \in Ranges |-> "1"]
Habilitacion == [r \in Ranges |-> "2"]
\* r1 belongs to the company's environment and r2 does not.
MixedRanges  == [r \in Ranges |-> IF r = r1 THEN "2" ELSE "1"]

FirstConsumed == {<<r1, 1>>}

Symmetric == Permutations(Docs) \cup Permutations(Confirmers) \cup Permutations(Reviewers)
=============================================================================
