\* Two prospects, and the same two people registering, inviting and creating companies.
SPECIFICATION Spec
CONSTANTS
  reviewer = reviewer people = people more = more ana = ana luis = luis n1 = n1 n2 = n2 r1 = r1 r2 = r2
  Prospects = {r1, r2}
  Emails = {ana, luis}
  Nits = {n1, n2}
  Clerks = {reviewer, people, more}
  Duties <- Roles
  Faults <- ReviewerFails
  MaxTokens = 3
  NoProspect = NoProspect NoEmail = NoEmail NoNit = NoNit
\* Everybody may be decided on and every token given.
CHECK_DEADLOCK FALSE
SYMMETRY Symmetric
INVARIANTS ApprovedIsProvisioned OneOwner OwnerCanEnter
