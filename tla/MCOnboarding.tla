---------------------------- MODULE MCOnboarding ----------------------------
(* Small instances of Onboarding for TLC.                                  *)
EXTENDS Onboarding, TLC

CONSTANTS reviewer, people, more, ana, luis, n1, n2, r1, r2

\* One superadmin decides, while people ask for access and make accounts themselves.
Roles == [w \in Clerks |->
            CASE w = reviewer -> {"approve", "reject"}
              [] w = people -> {"submit", "register", "company", "accept"}
              [] w = more -> {"company", "invite", "accept"}]
ReviewerFails ==
  [w \in Clerks |-> IF w = reviewer THEN {"crash", "database", "mail"} ELSE {}]
Symmetric == Permutations(Prospects) \cup Permutations(Emails) \cup Permutations(Nits)
=============================================================================
