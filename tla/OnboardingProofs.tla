--------------------------- MODULE OnboardingProofs ---------------------------
(* Theorems about Onboarding, for every number of prospects, addresses,    *)
(* companies and concurrent requests, every distribution of Duties and     *)
(* every choice of Faults.                                                 *)
EXTENDS Onboarding, TLAPS

Step(w) == ProspectStep(w) \/ OwnerStep(w) \/ CompanyStep(w) \/ AccountStep(w) \/ Failure(w)

\* A step of w leaves the locals of all other requests alone.
Others(w) == \A v \in Clerks \ {w} : pc'[v] = pc[v] /\ job'[v] = job[v]

\* What a step does to the request that takes it keeps the types.
Moved(w) ==
  /\ pc' \in [Clerks -> Steps] /\ job' \in [Clerks -> Jobs]
  /\ Others(w)

Ended(w) == pc'[w] = "idle" /\ job'[w] = Idle

LEMMA IdleType == Idle \in Jobs
BY DEF Idle, Jobs

LEMMA EndMoves ==
  ASSUME TypeOK, NEW w \in Clerks, End(w)
  PROVE  Moved(w) /\ Ended(w)
BY IdleType DEF TypeOK, End, Goto, Moved, Others, Steps, Ended

LEMMA GotoMoves ==
  ASSUME TypeOK, NEW w \in Clerks, NEW p \in Steps, Goto(w, p), UNCHANGED job
  PROVE  Moved(w) /\ pc'[w] = p /\ job'[w] = job[w]
BY DEF TypeOK, Goto, Moved, Others

LEMMA GoesMoves ==
  ASSUME TypeOK, NEW w \in Clerks, NEW p \in Steps, Goes(w, p)
  PROVE  Moved(w) /\ (Ended(w) \/ (pc'[w] = p /\ job'[w] = job[w]))
BY EndMoves, GotoMoves DEF Goes, Lost

LEMMA BeginMoves ==
  ASSUME TypeOK, NEW w \in Clerks, NEW p \in Steps, NEW j \in Jobs, Begin(w, p, j)
  PROVE  Moved(w) /\ UNCHANGED database /\ pc'[w] = p /\ job'[w] = j
BY DEF TypeOK, Begin, Goto, Moved, Others

LEMMA WriteTokenMoves ==
  ASSUME TypeOK, NEW w \in Clerks, NEW p \in Steps, NEW u \in Users, job[w].email \in Emails,
         WriteToken(w, u, p)
  PROVE  /\ Moved(w) /\ lastToken' \in Nat
         /\ users' \in [Emails -> Users] /\ users' = [users EXCEPT ![job[w].email] = u]
         /\ \/ Ended(w)
            \/ pc'[w] = p /\ job'[w] = [job[w] EXCEPT !.token = lastToken + 1]
<1>1. lastToken + 1 \in Nat /\ job[w] \in Jobs
  BY DEF TypeOK
<1>2. [job[w] EXCEPT !.token = lastToken + 1] \in Jobs
  BY <1>1 DEF Jobs
<1>3. CASE Goto(w, p) /\ job' = [job EXCEPT ![w].token = lastToken + 1]
  <2>1. pc'[w] = p /\ job'[w] = [job[w] EXCEPT !.token = lastToken + 1]
    BY <1>3 DEF Goto, TypeOK
  <2>2. Moved(w)
    BY <1>2, <1>3 DEF Goto, TypeOK, Moved, Others
  <2> QED
    BY <1>1, <2>1, <2>2 DEF WriteToken, TypeOK
<1> QED
  BY <1>1, <1>3, EndMoves DEF WriteToken, Lost, TypeOK

-----------------------------------------------------------------------------
(* Each action, with what it does to the request that takes it.            *)

LEMMA ProspectStepTypes ==
  ASSUME TypeOK, LocalsOK, NEW w \in Clerks, ProspectStep(w)
  PROVE  TypeOK' /\ Moved(w)
<1>1. ASSUME NEW p \in Prospects, NEW e \in Emails, NEW n \in Nits, handleSubmitProspect(w, p, e, n)
      PROVE  TypeOK' /\ Moved(w)
  BY <1>1 DEF handleSubmitProspect, Submit, TypeOK, ProspectRows, Moved, Others
<1>2. ASSUME NEW p \in Prospects, handleApproveProspect(w, p) PROVE TypeOK' /\ Moved(w)
  <2>1. [Idle EXCEPT !.prospect = p, !.email = prospects[p].email, !.nit = prospects[p].nit] \in Jobs
        /\ "user" \in Steps
    BY IdleType DEF TypeOK, ProspectRows, Idle, Jobs, Steps
  <2> QED
    BY <1>2, <2>1, BeginMoves DEF handleApproveProspect, Approve, database, TypeOK, Moved
<1>3. ASSUME NEW p \in Prospects, handleRejectProspect(w, p) PROVE TypeOK' /\ Moved(w)
  <2>1. [Idle EXCEPT !.prospect = p] \in Jobs /\ "reject" \in Steps
    BY IdleType DEF Idle, Jobs, Steps
  <2> QED
    BY <1>3, <2>1, BeginMoves DEF handleRejectProspect, Reject, database, TypeOK, Moved
<1>4. ASSUME NEW step \in {"approve", "reject"}, NEW status \in {"approved", "rejected"},
             Decide(w, step, status)
      PROVE  TypeOK' /\ Moved(w)
  <2>1. job[w].prospect \in Prospects
    BY <1>4 DEF Decide, LocalsOK, Reviewing, TypeOK, Jobs
  <2>2. prospects' \in [Prospects -> ProspectRows]
    BY <1>4, <2>1 DEF Decide, TypeOK, ProspectRows
  <2> QED
    BY <1>4, <2>2, EndMoves DEF Decide, TypeOK, Moved
<1> QED
  BY <1>1, <1>2, <1>3, <1>4 DEF ProspectStep, ApproveStatus, RejectStatus

LEMMA OwnerStepTypes ==
  ASSUME TypeOK, LocalsOK, NEW w \in Clerks, OwnerStep(w)
  PROVE  TypeOK' /\ Moved(w)
<1>1. CASE InviteOwner(w)
  <2>1. UNCHANGED database /\ Moved(w)
    BY <1>1, EndMoves, GotoMoves DEF InviteOwner, Steps
  <2> QED
    BY <2>1 DEF database, TypeOK, Moved
<1>2. CASE ListCompanyIDs(w)
  <2>1. UNCHANGED database /\ Moved(w)
    BY <1>2, EndMoves, GotoMoves DEF ListCompanyIDs, Steps
  <2> QED
    BY <2>1 DEF database, TypeOK, Moved
<1>3. [status |-> "invited", token |-> lastToken + 1] \in Users /\ "nit" \in Steps
  BY DEF TypeOK, Users, Steps
<1>4. CASE SaveOwner(w)
  <2>1. job[w].email \in Emails
    BY <1>4 DEF SaveOwner, LocalsOK
  <2>2. CASE WriteToken(w, [status |-> "invited", token |-> lastToken + 1], "nit")
    BY <1>3, <1>4, <2>1, <2>2, WriteTokenMoves DEF SaveOwner, TypeOK, Moved
  <2>3. CASE End(w) /\ UNCHANGED <<users, lastToken>>
    BY <1>4, <2>3, EndMoves DEF SaveOwner, TypeOK, Moved
  <2> QED
    BY <1>4, <2>2, <2>3 DEF SaveOwner
<1>5. CASE SetInviteToken(w)
  <2>1. job[w].email \in Emails
    BY <1>5 DEF SetInviteToken, LocalsOK
  <2>2. [users[job[w].email] EXCEPT !.token = lastToken + 1] \in Users
    BY <2>1 DEF TypeOK, Users
  <2> QED
    BY <1>3, <1>5, <2>1, <2>2, WriteTokenMoves DEF SetInviteToken, TypeOK, Moved
<1> QED
  BY <1>1, <1>2, <1>4, <1>5 DEF OwnerStep

LEMMA CompanyStepTypes ==
  ASSUME TypeOK, LocalsOK, NEW w \in Clerks, CompanyStep(w)
  PROVE  TypeOK' /\ Moved(w)
<1>1. ASSUME NEW e \in Emails, NEW n \in Nits, handleCreate(w, e, n) PROVE TypeOK' /\ Moved(w)
  <2>1. [Idle EXCEPT !.email = e, !.nit = n] \in Jobs /\ "nit" \in Steps
    BY IdleType DEF Idle, Jobs, Steps
  <2> QED
    BY <1>1, <2>1, BeginMoves DEF handleCreate, CreateCompany, database, TypeOK, Moved
<1>2. CASE GetByNIT(w)
  <2>1. UNCHANGED database /\ Moved(w)
    BY <1>2, EndMoves, GotoMoves DEF GetByNIT, Steps
  <2> QED
    BY <2>1 DEF database, TypeOK, Moved
<1>3. CASE SaveCompany(w)
  <2>1. job[w].nit \in Nits
    BY <1>3 DEF SaveCompany, LocalsOK
  <2>2. Moved(w)
    BY <1>3, EndMoves, GoesMoves DEF SaveCompany, Steps
  <2> QED
    BY <1>3, <2>1, <2>2 DEF SaveCompany, TypeOK, Moved
<1>4. CASE AddCompany(w)
  <2>1. job[w].nit \in Nits /\ job[w].email \in Emails
    BY <1>4 DEF AddCompany, LocalsOK
  <2>2. Moved(w)
    BY <1>4, GoesMoves DEF AddCompany, Steps
  <2>3. MembersWith(w, "owner") \subseteq Members
    BY <2>1 DEF MembersWith, Members, TypeOK
  <2> QED
    BY <1>4, <2>2, <2>3 DEF AddCompany, TypeOK, Moved
<1>5. CASE GetOrCreateDefault(w)
  <2>1. job[w].nit \in Nits
    BY <1>5 DEF GetOrCreateDefault, LocalsOK
  <2>2. Moved(w)
    BY <1>5, EndMoves, GoesMoves DEF GetOrCreateDefault, Steps
  <2> QED
    BY <1>5, <2>1, <2>2 DEF GetOrCreateDefault, TypeOK, Moved
<1>6. CASE SendInvitation(w)
  <2>1. [to |-> job[w].email, token |-> job[w].token] \in Mails
    BY <1>6 DEF SendInvitation, LocalsOK, TypeOK, Jobs, Mails
  <2>2. Moved(w)
    BY <1>6, EndMoves, GotoMoves DEF SendInvitation, Steps
  <2> QED
    BY <1>6, <2>1, <2>2 DEF SendInvitation, TypeOK, Moved
<1> QED
  BY <1>1, <1>2, <1>3, <1>4, <1>5, <1>6 DEF CompanyStep

LEMMA AccountStepTypes ==
  ASSUME TypeOK, LocalsOK, NEW w \in Clerks, AccountStep(w)
  PROVE  TypeOK' /\ Moved(w)
<1>1. ASSUME NEW e \in Emails
      PROVE  [Idle EXCEPT !.email = e] \in Jobs /\ {"register", "password", "invite"} \subseteq Steps
             /\ \A n \in Nits : [Idle EXCEPT !.email = e, !.nit = n] \in Jobs
  BY IdleType DEF Idle, Jobs, Steps
<1>2. ASSUME NEW e \in Emails, handleRegister(w, e) \/ handleAcceptInvite(w, e)
      PROVE TypeOK' /\ Moved(w)
  BY <1>1, <1>2, BeginMoves DEF handleRegister, Register, handleAcceptInvite, AcceptInvite,
     database, TypeOK, Moved
<1>3. ASSUME NEW e \in Emails, NEW n \in Nits, handleInvite(w, e, n) PROVE TypeOK' /\ Moved(w)
  BY <1>1, <1>3, BeginMoves DEF handleInvite, InviteUser, database, TypeOK, Moved
<1>4. [status |-> "active", token |-> 0] \in Users
      /\ [status |-> "invited", token |-> lastToken + 1] \in Users /\ "member" \in Steps
  BY DEF TypeOK, Users, Steps
<1>5. CASE SaveRegistered(w) \/ SetPassword(w)
  <2>1. users' \in [Emails -> Users]
    BY <1>4, <1>5 DEF SaveRegistered, SetPassword, TypeOK
  <2> QED
    BY <1>5, <2>1, EndMoves DEF SaveRegistered, SetPassword, TypeOK, Moved
<1>6. CASE SaveInvited(w)
  <2>1. job[w].email \in Emails
    BY <1>6 DEF SaveInvited, LocalsOK
  <2>2. CASE WriteToken(w, [status |-> "invited", token |-> lastToken + 1], "member")
    BY <1>4, <1>6, <2>1, <2>2, WriteTokenMoves DEF SaveInvited, TypeOK, Moved
  <2>3. CASE End(w) /\ UNCHANGED <<users, lastToken>>
    BY <1>6, <2>3, EndMoves DEF SaveInvited, TypeOK, Moved
  <2> QED
    BY <1>6, <2>2, <2>3 DEF SaveInvited
<1>7. CASE AddMember(w)
  <2>1. job[w].nit \in Nits /\ job[w].email \in Emails
    BY <1>7 DEF AddMember, LocalsOK
  <2>2. MembersWith(w, "member") \subseteq Members
    BY <2>1 DEF MembersWith, Members, TypeOK
  <2> QED
    BY <1>7, <2>2, EndMoves DEF AddMember, TypeOK, Moved
<1> QED
  BY <1>2, <1>3, <1>5, <1>6, <1>7 DEF AccountStep

LEMMA FailureMoves ==
  ASSUME TypeOK, NEW w \in Clerks, Failure(w)
  PROVE  TypeOK' /\ Moved(w) /\ Ended(w) /\ UNCHANGED database
BY EndMoves DEF Failure, StatementFails, Crash, Moved, database, TypeOK

LEMMA StepTypes ==
  ASSUME TypeOK, LocalsOK, NEW w \in Clerks, Step(w)
  PROVE  TypeOK' /\ Others(w)
BY ProspectStepTypes, OwnerStepTypes, CompanyStepTypes, AccountStepTypes, FailureMoves DEF Step,
   Moved

-----------------------------------------------------------------------------
(* Where a request is after its step, and where it was before.             *)

Begins(w) ==
  /\ pc[w] = "idle"
  /\ \/ pc'[w] = "idle" /\ job'[w] = job[w]
     \/ /\ \E p \in Prospects :
             /\ prospects[p].status = "pending"
             /\ \/ /\ pc'[w] = "user" /\ "approve" \in Duties[w]
                   /\ job'[w] = [Idle EXCEPT !.prospect = p, !.email = prospects[p].email,
                                             !.nit = prospects[p].nit]
                \/ /\ pc'[w] = "reject" /\ "reject" \in Duties[w]
                   /\ job'[w] = [Idle EXCEPT !.prospect = p]
     \/ \E e \in Emails :
          /\ pc'[w] \in {"register", "password"}
          /\ job'[w] = [Idle EXCEPT !.email = e]
     \/ \E e \in Emails, n \in Nits :
          /\ job'[w] = [Idle EXCEPT !.email = e, !.nit = n]
          /\ \/ pc'[w] = "nit" /\ users[e].status = "active"
             \/ pc'[w] = "invite" /\ \E m \in members : m.nit = n

Advances(w) ==
  /\ job'[w] = job[w]
  /\ \/ pc[w] = "user" /\ pc'[w] = "owner"
     \/ pc[w] = "user" /\ pc'[w] = "memberships" /\ users[job[w].email].status = "invited"
     \/ pc[w] = "memberships" /\ pc'[w] = "token"
     \/ pc[w] = "nit" /\ pc'[w] = "company"
     \/ pc[w] = "company" /\ pc'[w] = "link" /\ job[w].nit \notin companies
        /\ companies' = companies \cup {job[w].nit} /\ members' = members
     \/ pc[w] = "link" /\ pc'[w] = "warehouse" /\ members' = MembersWith(w, "owner")
     \/ pc[w] = "warehouse" /\ pc'[w] = "mail" /\ Reviewing(w)
        /\ warehouses' = warehouses \cup {job[w].nit}
     \/ pc[w] = "mail" /\ pc'[w] = "approve" /\ users' = users
        /\ mails' = mails \cup {[to |-> job[w].email, token |-> job[w].token]}

TakesToken(w) ==
  /\ job'[w] = [job[w] EXCEPT !.token = lastToken + 1]
  /\ \/ pc[w] \in {"owner", "token"} /\ pc'[w] = "nit" /\ job[w].email \in Emails
        /\ users'[job[w].email].status # "none" /\ users'[job[w].email].token = lastToken + 1
     \/ pc[w] = "invite" /\ pc'[w] = "member"

LEMMA Walks ==
  ASSUME TypeOK, LocalsOK, NEW w \in Clerks, Step(w)
  PROVE  Ended(w) \/ Begins(w) \/ Advances(w) \/ TakesToken(w)
<1>1. CASE ProspectStep(w)
  <2>1. ASSUME NEW p \in Prospects, NEW e \in Emails, NEW n \in Nits, handleSubmitProspect(w, p, e, n)
        PROVE Begins(w)
    BY <2>1 DEF handleSubmitProspect, Submit, Takes, Begins
  <2>2. ASSUME NEW p \in Prospects, handleApproveProspect(w, p) PROVE Begins(w)
    <3>1. [Idle EXCEPT !.prospect = p, !.email = prospects[p].email, !.nit = prospects[p].nit] \in Jobs
          /\ "user" \in Steps
      BY IdleType DEF TypeOK, ProspectRows, Idle, Jobs, Steps
    <3>2. pc'[w] = "user" /\ job'[w] = [Idle EXCEPT !.prospect = p, !.email = prospects[p].email,
                                                    !.nit = prospects[p].nit]
      BY <2>2, <3>1, BeginMoves DEF handleApproveProspect, Approve
    <3> QED
      BY <2>2, <3>2 DEF handleApproveProspect, Approve, Takes, Begins
  <2>3. ASSUME NEW p \in Prospects, handleRejectProspect(w, p) PROVE Begins(w)
    <3>1. [Idle EXCEPT !.prospect = p] \in Jobs /\ "reject" \in Steps
      BY IdleType DEF Idle, Jobs, Steps
    <3>2. pc'[w] = "reject" /\ job'[w] = [Idle EXCEPT !.prospect = p]
      BY <2>3, <3>1, BeginMoves DEF handleRejectProspect, Reject
    <3> QED
      BY <2>3, <3>2 DEF handleRejectProspect, Reject, Takes, Begins
  <2>4. CASE ApproveStatus(w) \/ RejectStatus(w)
    BY <2>4, EndMoves DEF ApproveStatus, RejectStatus, Decide
  <2> QED
    BY <1>1, <2>1, <2>2, <2>3, <2>4 DEF ProspectStep
<1>2. CASE OwnerStep(w)
  <2>1. CASE InviteOwner(w)
    BY <2>1, EndMoves, GotoMoves DEF InviteOwner, Steps, Advances
  <2>2. CASE ListCompanyIDs(w)
    BY <2>2, EndMoves, GotoMoves DEF ListCompanyIDs, Steps, Advances
  <2>3. "nit" \in Steps /\ [status |-> "invited", token |-> lastToken + 1] \in Users
    BY DEF Steps, TypeOK, Users
  <2>4. CASE SaveOwner(w)
    <3>1. pc[w] = "owner" /\ job[w].email \in Emails
      BY <2>4 DEF SaveOwner, LocalsOK
    <3>2. CASE End(w)
      BY <3>2, EndMoves
    <3>3. CASE WriteToken(w, [status |-> "invited", token |-> lastToken + 1], "nit")
      <4>1. users' = [users EXCEPT ![job[w].email] = [status |-> "invited", token |-> lastToken + 1]]
            /\ \/ Ended(w)
               \/ pc'[w] = "nit" /\ job'[w] = [job[w] EXCEPT !.token = lastToken + 1]
        BY <2>3, <3>1, <3>3, WriteTokenMoves
      <4>2. users'[job[w].email].status # "none" /\ users'[job[w].email].token = lastToken + 1
        BY <3>1, <4>1 DEF TypeOK
      <4> QED
        BY <3>1, <4>1, <4>2 DEF TakesToken
    <3> QED
      BY <2>4, <3>2, <3>3 DEF SaveOwner
  <2>5. CASE SetInviteToken(w)
    <3>1. pc[w] = "token" /\ job[w].email \in Emails /\ users[job[w].email].status # "none"
      BY <2>5 DEF SetInviteToken, LocalsOK
    <3> DEFINE u == [users[job[w].email] EXCEPT !.token = lastToken + 1]
    <3>2. u \in Users /\ u.status = users[job[w].email].status /\ u.token = lastToken + 1
      BY <3>1 DEF TypeOK, Users
    <3>3. WriteToken(w, u, "nit")
      BY <2>5 DEF SetInviteToken
    <3> HIDE DEF u
    <3>4. users' = [users EXCEPT ![job[w].email] = u]
          /\ \/ Ended(w)
             \/ pc'[w] = "nit" /\ job'[w] = [job[w] EXCEPT !.token = lastToken + 1]
      BY <2>3, <3>1, <3>2, <3>3, WriteTokenMoves
    <3>5. users'[job[w].email].status # "none" /\ users'[job[w].email].token = lastToken + 1
      BY <3>1, <3>2, <3>4 DEF TypeOK
    <3> QED
      BY <3>1, <3>4, <3>5 DEF TakesToken
  <2> QED
    BY <1>2, <2>1, <2>2, <2>4, <2>5 DEF OwnerStep
<1>3. CASE CompanyStep(w)
  <2>1. ASSUME NEW e \in Emails, NEW n \in Nits, handleCreate(w, e, n) PROVE Begins(w)
    <3>1. [Idle EXCEPT !.email = e, !.nit = n] \in Jobs /\ "nit" \in Steps
      BY IdleType DEF Idle, Jobs, Steps
    <3>2. pc'[w] = "nit" /\ job'[w] = [Idle EXCEPT !.email = e, !.nit = n]
      BY <2>1, <3>1, BeginMoves DEF handleCreate, CreateCompany
    <3> QED
      BY <2>1, <3>2 DEF handleCreate, CreateCompany, Takes, Begins
  <2>2. CASE GetByNIT(w)
    BY <2>2, EndMoves, GotoMoves DEF GetByNIT, Steps, Advances
  <2>3. CASE SaveCompany(w)
    BY <2>3, EndMoves, GoesMoves DEF SaveCompany, Steps, Advances
  <2>4. CASE AddCompany(w)
    BY <2>4, GoesMoves DEF AddCompany, Steps, Advances
  <2>5. CASE GetOrCreateDefault(w)
    BY <2>5, EndMoves, GoesMoves DEF GetOrCreateDefault, Steps, Advances, Reviewing
  <2>6. CASE SendInvitation(w)
    BY <2>6, EndMoves, GotoMoves DEF SendInvitation, Steps, Advances
  <2> QED
    BY <1>3, <2>1, <2>2, <2>3, <2>4, <2>5, <2>6 DEF CompanyStep
<1>4. CASE AccountStep(w)
  <2>1. ASSUME NEW e \in Emails, handleRegister(w, e) \/ handleAcceptInvite(w, e) PROVE Begins(w)
    <3>1. [Idle EXCEPT !.email = e] \in Jobs /\ "register" \in Steps /\ "password" \in Steps
      BY IdleType DEF Idle, Jobs, Steps
    <3>2. pc'[w] \in {"register", "password"} /\ job'[w] = [Idle EXCEPT !.email = e]
      BY <2>1, <3>1, BeginMoves DEF handleRegister, Register, handleAcceptInvite, AcceptInvite
    <3> QED
      BY <2>1, <3>2 DEF handleRegister, Register, handleAcceptInvite, AcceptInvite, Takes, Begins
  <2>2. ASSUME NEW e \in Emails, NEW n \in Nits, handleInvite(w, e, n) PROVE Begins(w)
    <3>1. [Idle EXCEPT !.email = e, !.nit = n] \in Jobs /\ "invite" \in Steps
      BY IdleType DEF Idle, Jobs, Steps
    <3>2. pc'[w] = "invite" /\ job'[w] = [Idle EXCEPT !.email = e, !.nit = n]
      BY <2>2, <3>1, BeginMoves DEF handleInvite, InviteUser
    <3> QED
      BY <2>2, <3>2 DEF handleInvite, InviteUser, Takes, Begins
  <2>3. CASE SaveRegistered(w) \/ SetPassword(w) \/ AddMember(w)
    BY <2>3, EndMoves DEF SaveRegistered, SetPassword, AddMember
  <2>4. CASE SaveInvited(w)
    <3>1. pc[w] = "invite" /\ job[w].email \in Emails /\ "member" \in Steps
      BY <2>4 DEF SaveInvited, LocalsOK, Steps
    <3>2. [status |-> "invited", token |-> lastToken + 1] \in Users
      BY DEF TypeOK, Users
    <3> QED
      BY <2>4, <3>1, <3>2, EndMoves, WriteTokenMoves DEF SaveInvited, TakesToken
  <2> QED
    BY <1>4, <2>1, <2>2, <2>3, <2>4 DEF AccountStep
<1>5. CASE Failure(w)
  BY <1>5, FailureMoves
<1> QED
  BY <1>1, <1>2, <1>3, <1>4, <1>5 DEF Step

-----------------------------------------------------------------------------
(* What is there stays there.                                              *)

Grows ==
  /\ \A p \in Prospects : prospects[p].status # "none" =>
       /\ prospects'[p].status # "none"
       /\ prospects'[p].email = prospects[p].email /\ prospects'[p].nit = prospects[p].nit
  /\ \A e \in Emails : /\ users[e].status # "none" => users'[e].status # "none"
                       /\ users[e].status = "active" => users'[e].status = "active"
  /\ members \subseteq members' /\ companies \subseteq companies'
  /\ warehouses \subseteq warehouses' /\ mails \subseteq mails'

LEMMA StepGrows ==
  ASSUME TypeOK, LocalsOK, NEW w \in Clerks, Step(w)
  PROVE  Grows
<1> USE DEF Grows, TypeOK, Users
<1>1. ASSUME NEW u \in Users, NEW step, WriteToken(w, u, step), job[w].email \in Emails,
             u.status = users[job[w].email].status \/ users[job[w].email].status = "none",
             u.status # "none"
      PROVE  \A e \in Emails : /\ users[e].status # "none" => users'[e].status # "none"
                               /\ users[e].status = "active" => users'[e].status = "active"
  BY <1>1 DEF WriteToken
<1>2. CASE ProspectStep(w)
  <2>1. ASSUME NEW p \in Prospects, NEW e \in Emails, NEW n \in Nits, handleSubmitProspect(w, p, e, n)
        PROVE Grows
    BY <2>1 DEF handleSubmitProspect, Submit
  <2>2. ASSUME NEW p \in Prospects, handleApproveProspect(w, p) \/ handleRejectProspect(w, p)
        PROVE Grows
    BY <2>2 DEF handleApproveProspect, Approve, handleRejectProspect, Reject, Begin, database
  <2>3. ASSUME NEW step \in {"approve", "reject"}, NEW status \in {"approved", "rejected"},
               Decide(w, step, status)
        PROVE  Grows
    <3>1. job[w].prospect \in Prospects
      BY <2>3 DEF Decide, LocalsOK, Reviewing, Jobs
    <3> QED
      BY <2>3, <3>1 DEF Decide, ProspectRows
  <2> QED
    BY <1>2, <2>1, <2>2, <2>3 DEF ProspectStep, ApproveStatus, RejectStatus
<1>3. [status |-> "invited", token |-> lastToken + 1] \in Users
  OBVIOUS
<1>4. CASE OwnerStep(w)
  <2>1. CASE InviteOwner(w) \/ ListCompanyIDs(w)
    BY <2>1 DEF InviteOwner, ListCompanyIDs, database
  <2>2. CASE SaveOwner(w)
    <3>1. job[w].email \in Emails
      BY <2>2 DEF SaveOwner, LocalsOK
    <3> QED
      BY <1>1, <1>3, <2>2, <3>1 DEF SaveOwner
  <2>3. CASE SetInviteToken(w)
    <3>1. job[w].email \in Emails /\ users[job[w].email].status # "none"
      BY <2>3 DEF SetInviteToken, LocalsOK
    <3>2. [users[job[w].email] EXCEPT !.token = lastToken + 1] \in Users
          /\ [users[job[w].email] EXCEPT !.token = lastToken + 1].status = users[job[w].email].status
      BY <3>1
    <3> QED
      BY <1>1, <2>3, <3>1, <3>2 DEF SetInviteToken
  <2> QED
    BY <1>4, <2>1, <2>2, <2>3 DEF OwnerStep
<1>5. CASE CompanyStep(w)
  <2>1. ASSUME NEW e \in Emails, NEW n \in Nits, handleCreate(w, e, n) PROVE Grows
    BY <2>1 DEF handleCreate, CreateCompany, Begin, database
  <2>2. CASE GetByNIT(w)
    BY <2>2 DEF GetByNIT, database
  <2>3. CASE SaveCompany(w) \/ AddCompany(w) \/ GetOrCreateDefault(w) \/ SendInvitation(w)
    BY <2>3 DEF SaveCompany, AddCompany, MembersWith, GetOrCreateDefault, SendInvitation
  <2> QED
    BY <1>5, <2>1, <2>2, <2>3 DEF CompanyStep
<1>6. CASE AccountStep(w)
  <2>1. ASSUME NEW e \in Emails, handleRegister(w, e) \/ handleAcceptInvite(w, e) PROVE Grows
    BY <2>1 DEF handleRegister, Register, handleAcceptInvite, AcceptInvite, Begin, database
  <2>2. ASSUME NEW e \in Emails, NEW n \in Nits, handleInvite(w, e, n) PROVE Grows
    BY <2>2 DEF handleInvite, InviteUser, Begin, database
  <2>3. CASE SaveRegistered(w) \/ SetPassword(w) \/ AddMember(w)
    BY <2>3 DEF SaveRegistered, SetPassword, AddMember, MembersWith
  <2>4. CASE SaveInvited(w)
    <3>1. job[w].email \in Emails
      BY <2>4 DEF SaveInvited, LocalsOK
    <3> QED
      BY <1>1, <1>3, <2>4, <3>1 DEF SaveInvited
  <2> QED
    BY <1>6, <2>1, <2>2, <2>3, <2>4 DEF AccountStep
<1>7. CASE Failure(w)
  BY <1>7, FailureMoves DEF database
<1> QED
  BY <1>2, <1>4, <1>5, <1>6, <1>7 DEF Step

-----------------------------------------------------------------------------
(* What a step may write.                                                  *)

LEMMA NewMember ==
  ASSUME NEW w \in Clerks, Step(w), NEW m \in members', m \notin members
  PROVE  /\ m.email = job[w].email /\ m.nit = job[w].nit
         /\ \/ pc[w] = "link" /\ m = OwnerOf(w)
            \/ pc[w] = "member" /\ m.role = "member"
<1>1. CASE AddCompany(w)
  BY <1>1 DEF AddCompany, MembersWith, OwnerOf
<1>2. CASE AddMember(w)
  BY <1>2 DEF AddMember, MembersWith
<1>3. CASE ~AddCompany(w) /\ ~AddMember(w)
  BY <1>3 DEF Step, ProspectStep, OwnerStep, CompanyStep, AccountStep, Failure,
     handleSubmitProspect, Submit, handleApproveProspect, Approve, handleRejectProspect, Reject,
     ApproveStatus, RejectStatus, Decide, InviteOwner, ListCompanyIDs, SaveOwner, SetInviteToken,
     handleCreate, CreateCompany, GetByNIT, SaveCompany, GetOrCreateDefault, SendInvitation,
     handleRegister, Register, handleAcceptInvite, AcceptInvite,
     handleInvite, InviteUser, SaveRegistered, SaveInvited, SetPassword, StatementFails, Crash,
     Begin, database
<1> QED
  BY <1>1, <1>2, <1>3

LEMMA NewWarehouse ==
  ASSUME NEW w \in Clerks, Step(w), NEW n \in warehouses', n \notin warehouses
  PROVE  pc[w] = "warehouse" /\ n = job[w].nit
<1>1. CASE GetOrCreateDefault(w)
  BY <1>1 DEF GetOrCreateDefault
<1>2. CASE ~GetOrCreateDefault(w)
  BY <1>2 DEF Step, ProspectStep, OwnerStep, CompanyStep, AccountStep, Failure,
     handleSubmitProspect, Submit, handleApproveProspect, Approve, handleRejectProspect, Reject,
     ApproveStatus, RejectStatus, Decide, InviteOwner, ListCompanyIDs, SaveOwner, SetInviteToken,
     handleCreate, CreateCompany, GetByNIT, SaveCompany, AddCompany, SendInvitation,
     handleRegister, Register, handleAcceptInvite, AcceptInvite,
     handleInvite, InviteUser, SaveRegistered, SaveInvited, AddMember, SetPassword,
     StatementFails, Crash, Begin, database
<1> QED
  BY <1>1, <1>2

\* A prospect changes when it is made and when it is decided on.
LEMMA Decisions ==
  ASSUME TypeOK, LocalsOK, NEW w \in Clerks, Step(w), NEW p \in Prospects, prospects'[p] # prospects[p]
  PROVE  \/ /\ prospects[p].status = "none" /\ prospects'[p].status = "pending"
            /\ prospects'[p].email \in Emails /\ prospects'[p].nit \in Nits
            /\ \A q \in Prospects : prospects[q].email # prospects'[p].email
            /\ \A q \in Prospects \ {p} : prospects'[q] = prospects[q]
         \/ /\ p = job[w].prospect /\ Ended(w) /\ Reviewing(w)
            /\ UNCHANGED <<users, members, warehouses, mails>>
            /\ \/ pc[w] = "approve" /\ prospects'[p].status = "approved"
               \/ pc[w] = "reject" /\ prospects'[p].status = "rejected"
<1>1. ASSUME NEW q \in Prospects, NEW e \in Emails, NEW n \in Nits, handleSubmitProspect(w, q, e, n)
      PROVE  /\ prospects[p].status = "none" /\ prospects'[p].status = "pending"
             /\ prospects'[p].email \in Emails /\ prospects'[p].nit \in Nits
             /\ \A r \in Prospects : prospects[r].email # prospects'[p].email
             /\ \A r \in Prospects \ {p} : prospects'[r] = prospects[r]
  BY <1>1 DEF handleSubmitProspect, Submit, TypeOK
<1>2. ASSUME NEW step \in {"approve", "reject"}, NEW status \in {"approved", "rejected"},
             Decide(w, step, status)
      PROVE  /\ p = job[w].prospect /\ Ended(w) /\ Reviewing(w) /\ pc[w] = step
             /\ UNCHANGED <<users, members, warehouses, mails>>
             /\ prospects'[p].status = status
  <2>1. job[w].prospect \in Prospects /\ Reviewing(w)
    BY <1>2 DEF Decide, LocalsOK, Reviewing, TypeOK, Jobs
  <2> QED
    BY <1>2, <2>1, EndMoves DEF Decide, TypeOK, ProspectRows
<1>3. ASSUME UNCHANGED prospects PROVE FALSE
  BY <1>3
<1> QED
  BY <1>1, <1>2, <1>3 DEF Step, ProspectStep, OwnerStep, CompanyStep, AccountStep, Failure,
     handleApproveProspect, Approve, handleRejectProspect, Reject,
     ApproveStatus, RejectStatus, InviteOwner, ListCompanyIDs, SaveOwner, SetInviteToken,
     handleCreate, CreateCompany, GetByNIT, SaveCompany, AddCompany, GetOrCreateDefault,
     SendInvitation, handleRegister, Register,
     handleAcceptInvite, AcceptInvite, handleInvite, InviteUser, SaveRegistered, SaveInvited,
     AddMember, SetPassword, StatementFails, Crash,
     Begin, database

\* Only a reviewer replaces the token of a user who has one.
LEMMA TokenKept ==
  ASSUME TypeOK, LocalsOK, NEW w \in Clerks, Step(w), NEW e \in Emails, users[e].status # "none",
         users'[e] # users[e], users'[e].status # "active"
  PROVE  pc[w] = "token" /\ e = job[w].email
<1>1. CASE SaveOwner(w)
  BY <1>1 DEF SaveOwner, WriteToken, TypeOK
<1>2. CASE SaveInvited(w)
  BY <1>2 DEF SaveInvited, WriteToken, TypeOK
<1>3. CASE SetInviteToken(w)
  BY <1>3 DEF SetInviteToken, WriteToken, TypeOK
<1>4. CASE SaveRegistered(w) \/ SetPassword(w)
  BY <1>4 DEF SaveRegistered, SetPassword, TypeOK
<1>5. ASSUME UNCHANGED users PROVE FALSE
  BY <1>5
<1> QED
  BY <1>1, <1>2, <1>3, <1>4, <1>5 DEF Step, ProspectStep, OwnerStep, CompanyStep, AccountStep,
     Failure, handleSubmitProspect, Submit,
     handleApproveProspect, Approve, handleRejectProspect, Reject, ApproveStatus, RejectStatus,
     Decide, InviteOwner, ListCompanyIDs,
     handleCreate, CreateCompany, GetByNIT, SaveCompany, AddCompany, GetOrCreateDefault,
     SendInvitation, handleRegister, Register,
     handleAcceptInvite, AcceptInvite, handleInvite, InviteUser, AddMember, StatementFails,
     Crash, Begin, database

-----------------------------------------------------------------------------
(* Locals and prospects.                                                   *)

\* What LocalsOK says of one request.
LocalOK(w) ==
  /\ pc[w] \notin {"idle", "reject"} => job[w].email \in Emails
  /\ pc[w] \notin {"idle", "reject", "register", "password"} => job[w].nit \in Nits
  /\ pc[w] \in {"user", "owner", "memberships", "token", "mail", "approve", "reject"} => Reviewing(w)
  /\ pc[w] \in {"idle", "register", "invite", "member", "password"} => ~Reviewing(w)
  /\ Reviewing(w) =>
       /\ Duties[w] \cap {"approve", "reject"} # {}
       /\ prospects[job[w].prospect].status # "none"
       /\ pc[w] # "reject" => /\ job[w].email = prospects[job[w].prospect].email
                              /\ job[w].nit = prospects[job[w].prospect].nit
  /\ Creating(w) \/ pc[w] \in {"memberships", "token"} => users[job[w].email].status # "none"

LEMMA LocalsStep ==
  ASSUME TypeOK, LocalsOK, ProspectInv, NEW w \in Clerks, Step(w)
  PROVE  LocalsOK'
<1>1. Grows /\ Others(w)
  BY StepGrows, StepTypes
<1>2. \A v \in Clerks : LocalOK(v)
  BY DEF LocalsOK, LocalOK
<1>3. ASSUME NEW v \in Clerks, Reviewing(v) PROVE job[v].prospect \in Prospects
  BY <1>3 DEF Reviewing, TypeOK, Jobs
<1>4. ASSUME NEW v \in Clerks, v # w PROVE LocalOK(v)'
  <2>1. pc'[v] = pc[v] /\ job'[v] = job[v] /\ LocalOK(v)
    BY <1>1, <1>2, <1>4 DEF Others
  <2> QED
    BY <1>1, <1>3, <2>1 DEF LocalOK, Grows, Reviewing, Creating
<1>5. SUFFICES LocalOK(w)'
  BY <1>4 DEF LocalsOK, LocalOK
<1>6. LocalOK(w) /\ job[w] \in Jobs
  BY <1>2 DEF TypeOK
<1>7. CASE Ended(w)
  BY <1>7 DEF Ended, Idle, LocalOK, Reviewing, Creating
<1>8. CASE Begins(w)
  <2>1. CASE pc'[w] = "idle" /\ job'[w] = job[w]
    BY <1>6, <1>8, <2>1 DEF Begins, LocalOK, Reviewing, Creating
  <2>2. ASSUME NEW p \in Prospects, prospects[p].status = "pending", pc'[w] = "user", "approve" \in Duties[w],
               job'[w] = [Idle EXCEPT !.prospect = p, !.email = prospects[p].email, !.nit = prospects[p].nit]
        PROVE  LocalOK(w)'
    <3>1. job'[w].prospect = p /\ job'[w].email = prospects[p].email /\ job'[w].nit = prospects[p].nit
      BY <2>2 DEF Idle
    <3>2. prospects[p].email \in Emails /\ prospects[p].nit \in Nits
      BY <2>2 DEF ProspectInv
    <3> QED
      BY <1>1, <2>2, <3>1, <3>2, OnboardingAssumption DEF LocalOK, Reviewing, Creating, Grows
  <2>3. ASSUME NEW p \in Prospects, prospects[p].status = "pending", pc'[w] = "reject", "reject" \in Duties[w],
               job'[w] = [Idle EXCEPT !.prospect = p]
        PROVE  LocalOK(w)'
    <3>1. job'[w].prospect = p
      BY <2>3 DEF Idle
    <3> QED
      BY <1>1, <2>3, <3>1, OnboardingAssumption DEF LocalOK, Reviewing, Creating, Grows
  <2>4. ASSUME NEW e \in Emails, pc'[w] \in {"register", "password"}, job'[w] = [Idle EXCEPT !.email = e]
        PROVE  LocalOK(w)'
    <3>1. job'[w].prospect = NoProspect /\ job'[w].email = e
      BY <2>4 DEF Idle
    <3> QED
      BY <2>4, <3>1 DEF LocalOK, Reviewing, Creating
  <2>5. ASSUME NEW e \in Emails, NEW n \in Nits, job'[w] = [Idle EXCEPT !.email = e, !.nit = n],
               pc'[w] = "invite" \/ (pc'[w] = "nit" /\ users[e].status = "active")
        PROVE  LocalOK(w)'
    <3>1. job'[w].prospect = NoProspect /\ job'[w].email = e /\ job'[w].nit = n
      BY <2>5 DEF Idle
    <3> QED
      BY <1>1, <2>5, <3>1 DEF LocalOK, Reviewing, Creating, Grows
  <2> QED
    BY <1>8, <2>1, <2>2, <2>3, <2>4, <2>5 DEF Begins
<1>9. CASE Advances(w)
  BY <1>1, <1>3, <1>6, <1>9 DEF Advances, LocalOK, Reviewing, Creating, Grows
<1>10. CASE TakesToken(w)
  <2>1. /\ job'[w].prospect = job[w].prospect /\ job'[w].email = job[w].email
        /\ job'[w].nit = job[w].nit
    BY <1>6, <1>10 DEF TakesToken, Jobs
  <2> QED
    BY <1>1, <1>3, <1>6, <1>10, <2>1 DEF TakesToken, LocalOK, Reviewing, Creating, Grows
<1> QED
  BY <1>7, <1>8, <1>9, <1>10, Walks

LEMMA ProspectInvStep ==
  ASSUME TypeOK, LocalsOK, ProspectInv, NEW w \in Clerks, Step(w)
  PROVE  ProspectInv'
<1>1. Grows
  BY StepGrows
<1>2. ASSUME NEW p \in Prospects, prospects'[p].status # "none"
      PROVE  prospects'[p].email \in Emails /\ prospects'[p].nit \in Nits
  BY <1>1, <1>2, Decisions DEF ProspectInv, Grows, Reviewing, LocalsOK
<1>3. ASSUME NEW p \in Prospects, NEW q \in Prospects, prospects'[p].status # "none",
             prospects'[q].status # "none", prospects'[p].email = prospects'[q].email, p # q
      PROVE  FALSE
  <2>1. CASE prospects[p].status # "none" /\ prospects[q].status # "none"
    BY <1>1, <1>3, <2>1 DEF ProspectInv, Grows
  <2>2. CASE prospects[p].status = "none"
    <3>1. prospects'[p] # prospects[p]
      BY <1>3, <2>2
    <3>2. prospects'[q] = prospects[q] /\ prospects[q].email # prospects'[p].email
      BY <1>3, <2>2, <3>1, Decisions DEF LocalsOK
    <3> QED
      BY <1>3, <3>2
  <2>3. CASE prospects[q].status = "none"
    <3>1. prospects'[q] # prospects[q]
      BY <1>3, <2>3
    <3>2. prospects'[p] = prospects[p] /\ prospects[p].email # prospects'[q].email
      BY <1>3, <2>3, <3>1, Decisions DEF LocalsOK
    <3> QED
      BY <1>3, <3>2
  <2> QED
    BY <2>1, <2>2, <2>3
<1> QED
  BY <1>2, <1>3 DEF ProspectInv

-----------------------------------------------------------------------------
(* Companies.                                                              *)

\* What CompanyInv says of one request.
Made(w) ==
  /\ pc[w] = "link" =>
       /\ job[w].nit \in companies
       /\ \A m \in members : m.nit # job[w].nit
       /\ \A v \in Clerks : pc[v] = "link" /\ job[v].nit = job[w].nit => v = w
  /\ pc[w] \in {"warehouse", "mail", "approve"} => OwnerOf(w) \in members
  /\ pc[w] \in {"mail", "approve"} => job[w].nit \in warehouses
  /\ pc[w] = "approve" => \E m \in mails : m.to = job[w].email
  /\ pc[w] \in {"invite", "member"} => \E m \in members : m.nit = job[w].nit

LEMMA OneOwnerStep ==
  ASSUME TypeOK, LocalsOK, CompanyInv, NEW w \in Clerks, Step(w)
  PROVE  OneOwner'
<1>1. Grows
  BY StepGrows
<1>2. OneOwner /\ Made(w)
  BY DEF CompanyInv, Made
<1>3. ASSUME NEW l \in members', NEW m \in members', l.nit = m.nit, l.role = "owner", m.role = "owner"
      PROVE  l = m
  <2>1. CASE l \in members /\ m \in members
    BY <1>2, <1>3, <2>1 DEF OneOwner
  <2>2. ASSUME NEW k \in members', k \notin members, k.role = "owner"
        PROVE  k = OwnerOf(w) /\ k.nit = job[w].nit /\ \A n \in members : n.nit # k.nit
    <3>1. k = OwnerOf(w) /\ pc[w] = "link"
      BY <2>2, NewMember
    <3> QED
      BY <1>2, <3>1 DEF Made, OwnerOf
  <2> QED
    BY <1>3, <2>1, <2>2
<1>4. ASSUME NEW m \in members' PROVE m.nit \in companies'
  <2>1. CASE m \in members
    BY <1>1, <1>2, <2>1 DEF OneOwner, Grows
  <2>2. CASE m \notin members
    <3>1. m.nit = job[w].nit /\ pc[w] \in {"link", "member"}
      BY <2>2, NewMember
    <3>2. job[w].nit \in companies
      BY <1>2, <3>1 DEF Made, OneOwner
    <3> QED
      BY <1>1, <3>1, <3>2 DEF Grows
  <2> QED
    BY <2>1, <2>2
<1>5. ASSUME NEW n \in warehouses' PROVE \E m \in members' : m.nit = n /\ m.role = "owner"
  <2>1. CASE n \in warehouses
    BY <1>1, <1>2, <2>1 DEF OneOwner, Grows
  <2>2. CASE n \notin warehouses
    <3>1. pc[w] = "warehouse" /\ n = job[w].nit
      BY <2>2, NewWarehouse
    <3>2. OwnerOf(w) \in members /\ OwnerOf(w).nit = job[w].nit /\ OwnerOf(w).role = "owner"
      BY <1>2, <3>1 DEF Made, OwnerOf
    <3> QED
      BY <1>1, <3>1, <3>2 DEF Grows
  <2> QED
    BY <2>1, <2>2
<1> QED
  BY <1>3, <1>4, <1>5 DEF OneOwner

LEMMA CompanyStepInv ==
  ASSUME TypeOK, LocalsOK, CompanyInv, NEW w \in Clerks, Step(w)
  PROVE  CompanyInv'
<1>1. Grows /\ Others(w)
  BY StepGrows, StepTypes
<1>2. OneOwner /\ \A v \in Clerks : Made(v)
  BY DEF CompanyInv, Made
<1>3. OneOwner'
  BY OneOwnerStep
<1>4. SUFFICES ASSUME NEW v \in Clerks PROVE Made(v)'
  BY <1>3 DEF CompanyInv, Made
\* Whoever comes to the link has just made the row of the company.
<1>5. ASSUME pc'[w] = "link"
      PROVE  /\ job'[w] = job[w] /\ job[w].nit \notin companies /\ members' = members
             /\ companies' = companies \cup {job[w].nit}
  <2>1. Advances(w)
    BY <1>5, Walks DEF Ended, Begins, TakesToken
  <2> QED
    BY <1>5, <2>1 DEF Advances
<1>6. CASE v # w
  <2>1. pc'[v] = pc[v] /\ job'[v] = job[v] /\ Made(v)
    BY <1>1, <1>2, <1>6 DEF Others
  <2>2. CASE pc[v] = "link"
    <3>1. job[v].nit \in companies /\ job[v].nit \in companies'
      BY <1>1, <2>1, <2>2 DEF Made, Grows
    <3>2. ASSUME NEW m \in members' PROVE m.nit # job[v].nit
      <4>1. CASE m \in members
        BY <2>1, <2>2, <4>1 DEF Made
      <4>2. CASE m \notin members
        <5>1. m.nit = job[w].nit /\ pc[w] \in {"link", "member"} /\ Made(w)
          BY <1>2, <4>2, NewMember
        <5> QED
          BY <1>6, <2>1, <2>2, <5>1 DEF Made
      <4> QED
        BY <4>1, <4>2
    <3>3. ASSUME NEW u \in Clerks, pc'[u] = "link", job'[u].nit = job'[v].nit PROVE u = v
      <4>1. CASE u = w
        BY <1>5, <2>1, <3>1, <3>3, <4>1
      <4>2. CASE u # w
        BY <1>1, <2>1, <2>2, <3>3, <4>2 DEF Made, Others
      <4> QED
        BY <4>1, <4>2
    <3> QED
      BY <2>1, <2>2, <3>1, <3>2, <3>3 DEF Made
  <2>3. CASE pc[v] # "link"
    <3>1. OwnerOf(v)' = OwnerOf(v)
      BY <2>1 DEF OwnerOf
    <3> QED
      BY <1>1, <2>1, <2>3, <3>1 DEF Made, Grows
  <2> QED
    BY <2>2, <2>3
<1>7. CASE v = w
  <2> SUFFICES Made(w)'
    BY <1>7
  <2>1. CASE Ended(w)
    BY <2>1 DEF Ended, Made
  <2>2. CASE Begins(w)
    <3>1. CASE pc'[w] \notin {"invite"}
      BY <2>2, <3>1 DEF Begins, Made
    <3>2. CASE pc'[w] = "invite"
      <4>1. PICK e \in Emails, n \in Nits : job'[w] = [Idle EXCEPT !.email = e, !.nit = n]
                                            /\ \E m \in members : m.nit = n
        BY <2>2, <3>2 DEF Begins
      <4>2. job'[w].nit = n
        BY <4>1 DEF Idle
      <4> QED
        BY <1>1, <3>2, <4>1, <4>2 DEF Made, Grows
    <3> QED
      BY <3>1, <3>2
  <2>3. CASE Advances(w)
    <3>1. job'[w] = job[w] /\ Made(w) /\ OwnerOf(w)' = OwnerOf(w)
      BY <1>2, <2>3 DEF Advances, OwnerOf
    <3>2. CASE pc'[w] = "link"
      <4>1. ASSUME NEW m \in members' PROVE m.nit # job[w].nit
        BY <1>2, <1>5, <3>2, <4>1 DEF OneOwner
      <4>2. ASSUME NEW u \in Clerks, pc'[u] = "link", job'[u].nit = job[w].nit, u # w PROVE FALSE
        <5>1. pc[u] = "link" /\ job[u].nit = job[w].nit /\ Made(u)
          BY <1>1, <1>2, <4>2 DEF Others
        <5> QED
          BY <1>5, <3>2, <5>1 DEF Made
      <4> QED
        BY <1>5, <3>1, <3>2, <4>1, <4>2 DEF Made
    <3>3. CASE pc'[w] = "warehouse"
      <4>1. pc[w] = "link" /\ members' = MembersWith(w, "owner")
        BY <2>3, <3>3 DEF Advances
      <4>2. OwnerOf(w) \in members'
        BY <3>1, <4>1 DEF Made, MembersWith, OwnerOf
      <4> QED
        BY <3>1, <3>3, <4>2 DEF Made
    <3>4. CASE pc'[w] = "mail"
      <4>1. pc[w] = "warehouse" /\ job[w].nit \in warehouses'
        BY <2>3, <3>4 DEF Advances
      <4> QED
        BY <1>1, <3>1, <3>4, <4>1 DEF Made, Grows
    <3>5. CASE pc'[w] = "approve"
      <4>1. pc[w] = "mail" /\ mails' = mails \cup {[to |-> job[w].email, token |-> job[w].token]}
        BY <2>3, <3>5 DEF Advances
      <4>2. \E m \in mails' : m.to = job[w].email
        <5> DEFINE m == [to |-> job[w].email, token |-> job[w].token]
        <5>1. m \in mails' /\ m.to = job[w].email
          BY <4>1
        <5> QED
          BY <5>1
      <4> QED
        BY <1>1, <3>1, <3>5, <4>1, <4>2 DEF Made, Grows
    <3> QED
      BY <2>3, <3>2, <3>3, <3>4, <3>5 DEF Advances, Made
  <2>4. CASE TakesToken(w)
    <3>1. job[w] \in Jobs /\ Made(w)
      BY <1>2 DEF TypeOK
    <3>2. job'[w].nit = job[w].nit /\ pc'[w] \in {"nit", "member"} /\ (pc'[w] = "member" => pc[w] = "invite")
      BY <2>4, <3>1 DEF TakesToken, Jobs
    <3> QED
      BY <1>1, <3>1, <3>2 DEF Made, Grows
  <2> QED
    BY <2>1, <2>2, <2>3, <2>4, Walks
<1> QED
  BY <1>6, <1>7

-----------------------------------------------------------------------------
(* Approval.                                                               *)

LEMMA ApprovedStep ==
  ASSUME TypeOK, LocalsOK, ProspectInv, CompanyInv, ApprovedIsProvisioned, NEW w \in Clerks, Step(w)
  PROVE  ApprovedIsProvisioned'
<1>1. Grows
  BY StepGrows
<1> SUFFICES ASSUME NEW p \in Prospects, prospects'[p].status = "approved"
             PROVE  /\ Provisioned(prospects[p].email, prospects[p].nit)'
                    /\ \E m \in mails' : m.to = prospects'[p].email
  BY DEF ApprovedIsProvisioned
\* Whatever is there now will be there.
<1>2. ASSUME Provisioned(prospects[p].email, prospects[p].nit), prospects[p].status # "none",
             \E m \in mails : m.to = prospects[p].email
      PROVE  /\ Provisioned(prospects[p].email, prospects[p].nit)'
             /\ \E m \in mails' : m.to = prospects'[p].email
  <2>1. prospects[p].email \in Emails
    BY <1>2 DEF ProspectInv
  <2> QED
    BY <1>1, <1>2, <2>1 DEF Provisioned, Grows
<1>3. CASE prospects[p].status = "approved"
  BY <1>2, <1>3 DEF ApprovedIsProvisioned
<1>4. CASE prospects[p].status # "approved"
  <2>1. p = job[w].prospect /\ pc[w] = "approve" /\ Reviewing(w)
    BY <1>4, Decisions
  <2>2. /\ job[w].email = prospects[p].email /\ job[w].nit = prospects[p].nit
        /\ prospects[p].status # "none" /\ users[job[w].email].status # "none"
    BY <2>1 DEF LocalsOK, Creating
  <2>3. OwnerOf(w) \in members /\ job[w].nit \in warehouses /\ \E m \in mails : m.to = job[w].email
    BY <2>1 DEF CompanyInv
  <2> QED
    BY <1>2, <2>2, <2>3 DEF Provisioned, OwnerOf
<1> QED
  BY <1>3, <1>4

LEMMA ReviewerStep ==
  ASSUME TypeOK, LocalsOK, ProspectInv, ApprovedIsProvisioned, OneReviewer, ReviewerInv,
         NEW w \in Clerks, Step(w)
  PROVE  ReviewerInv'
<1>1. Grows /\ Others(w)
  BY StepGrows, StepTypes
<1>2. ASSUME NEW v \in Clerks, Reviewing(v), v # w
      PROVE  ~Reviewing(w) /\ pc[w] \notin {"approve", "reject", "token"}
  BY <1>2 DEF OneReviewer, LocalsOK
<1>3. ASSUME NEW v \in Clerks, Reviewing(v)
      PROVE  job[v].prospect \in Prospects /\ prospects[job[v].prospect].status = "pending"
  BY <1>3 DEF ReviewerInv, Reviewing, TypeOK, Jobs
<1>4. OwnerCanEnter'
  <2> SUFFICES ASSUME NEW p \in Prospects, prospects'[p].status = "approved"
               PROVE  \/ users'[prospects'[p].email].status = "active"
                      \/ [to |-> prospects'[p].email, token |-> users'[prospects'[p].email].token] \in mails'
    BY DEF OwnerCanEnter
  <2>1. CASE prospects[p].status = "approved"
    <3>1. prospects'[p].email = prospects[p].email /\ prospects[p].email \in Emails
          /\ users[prospects[p].email].status # "none"
      BY <1>1, <2>1 DEF Grows, ProspectInv, ApprovedIsProvisioned, Provisioned
    <3>2. \/ users[prospects[p].email].status = "active"
          \/ [to |-> prospects[p].email, token |-> users[prospects[p].email].token] \in mails
      BY <2>1 DEF ReviewerInv, OwnerCanEnter
    <3>3. ~(pc[w] = "token" /\ job[w].email = prospects[p].email)
      <4> SUFFICES ASSUME pc[w] = "token", job[w].email = prospects[p].email PROVE FALSE
        OBVIOUS
      <4>1. Reviewing(w) /\ job[w].email = prospects[job[w].prospect].email
        BY DEF LocalsOK
      <4>2. job[w].prospect \in Prospects /\ prospects[job[w].prospect].status = "pending"
        BY <1>3, <4>1
      <4> QED
        BY <2>1, <4>1, <4>2 DEF ProspectInv
    <3>4. CASE users'[prospects[p].email] = users[prospects[p].email]
      BY <1>1, <3>1, <3>2, <3>4 DEF Grows
    <3> QED
      BY <3>1, <3>3, <3>4, TokenKept
  <2>2. CASE prospects[p].status # "approved"
    <3>1. p = job[w].prospect /\ pc[w] = "approve" /\ Reviewing(w) /\ UNCHANGED <<users, mails>>
      BY <2>2, Decisions
    <3>2. job[w].email = prospects[p].email /\ prospects'[p].email = prospects[p].email
      BY <1>1, <3>1 DEF LocalsOK, Grows
    <3>3. \/ users[job[w].email].status = "active"
          \/ [to |-> job[w].email, token |-> users[job[w].email].token] \in mails
      BY <3>1 DEF ReviewerInv, Creating
    <3> QED
      BY <3>1, <3>2, <3>3
  <2> QED
    BY <2>1, <2>2
<1>5. ASSUME NEW v \in Clerks, Reviewing(v)'
      PROVE  /\ prospects'[job'[v].prospect].status = "pending"
             /\ Creating(v)' => LET u == users'[job'[v].email] IN
                  \/ u.status = "active"
                  \/ u.token = job'[v].token
                     /\ (pc'[v] = "approve" => [to |-> job'[v].email, token |-> u.token] \in mails')
  <2>1. ASSUME Reviewing(v), prospects'[job[v].prospect] # prospects[job[v].prospect]
        PROVE  v = w /\ Ended(w)
    <3>1. job[v].prospect \in Prospects /\ prospects[job[v].prospect].status = "pending"
      BY <1>3, <2>1
    <3>2. Reviewing(w) /\ Ended(w)
      BY <2>1, <3>1, Decisions
    <3> QED
      BY <1>2, <2>1, <3>2
  <2>2. CASE v # w
    <3>1. pc'[v] = pc[v] /\ job'[v] = job[v] /\ Reviewing(v) /\ (Creating(v)' => Creating(v))
      BY <1>1, <1>5, <2>2 DEF Others, Reviewing, Creating
    <3>2. prospects'[job'[v].prospect].status = "pending"
      BY <1>3, <2>1, <2>2, <3>1
    <3>3. ASSUME Creating(v), users'[job[v].email].status # "active"
          PROVE  users'[job[v].email] = users[job[v].email]
      <4>1. job[v].email \in Emails /\ users[job[v].email].status # "none"
        BY <3>3 DEF LocalsOK, Creating
      <4>2. pc[w] # "token"
        BY <1>2, <2>2, <3>1
      <4> QED
        BY <3>3, <4>1, <4>2, TokenKept
    <3> QED
      BY <1>1, <3>1, <3>2, <3>3 DEF ReviewerInv, Grows
  <2>3. CASE v = w
    <3>1. ~Ended(w)
      BY <1>5, <2>3 DEF Ended, Idle, Reviewing
    <3>2. CASE Begins(w)
      <4>1. ASSUME job'[w] = job[w], pc[w] = "idle" PROVE FALSE
        BY <1>5, <2>3, <4>1 DEF Reviewing, LocalsOK
      <4>2. ASSUME NEW e \in Emails, job'[w] = [Idle EXCEPT !.email = e] PROVE FALSE
        BY <1>5, <2>3, <4>2 DEF Reviewing, Idle
      <4>3. ASSUME NEW e \in Emails, NEW n \in Nits, job'[w] = [Idle EXCEPT !.email = e, !.nit = n]
            PROVE  FALSE
        BY <1>5, <2>3, <4>3 DEF Reviewing, Idle
      <4>4. PICK p \in Prospects :
              /\ prospects[p].status = "pending" /\ pc'[w] \in {"user", "reject"}
              /\ \/ job'[w] = [Idle EXCEPT !.prospect = p, !.email = prospects[p].email,
                                           !.nit = prospects[p].nit]
                 \/ job'[w] = [Idle EXCEPT !.prospect = p]
        BY <3>2, <4>1, <4>2, <4>3 DEF Begins
      <4>5. job'[w].prospect = p
        BY <4>4 DEF Idle
      <4>6. prospects'[p] = prospects[p]
        BY <3>1, <4>4, Decisions
      <4>7. ~Creating(w)'
        BY <4>4 DEF Creating
      <4> QED
        BY <2>3, <4>4, <4>5, <4>6, <4>7
    <3>3. CASE Advances(w)
      <4>1. job'[w] = job[w] /\ Reviewing(w)
        BY <1>5, <2>3, <3>3 DEF Advances, Reviewing
      <4>2. prospects'[job'[w].prospect].status = "pending"
        BY <1>3, <2>1, <2>3, <3>1, <4>1
      <4>3. ASSUME Creating(w)', users'[job[w].email].status # "active"
            PROVE  /\ Creating(w) /\ users'[job[w].email] = users[job[w].email]
                   /\ pc'[w] = "approve" =>
                        [to |-> job[w].email, token |-> job[w].token] \in mails'
        <5>1. Creating(w) /\ pc[w] # "token"
          BY <3>3, <4>3 DEF Advances, Creating
        <5>2. job[w].email \in Emails /\ users[job[w].email].status # "none"
          BY <5>1 DEF LocalsOK, Creating
        <5>3. users'[job[w].email] = users[job[w].email]
          BY <4>3, <5>1, <5>2, TokenKept
        <5> QED
          BY <3>3, <5>1, <5>3 DEF Advances
      <4> QED
        BY <2>3, <4>1, <4>2, <4>3 DEF ReviewerInv
    <3>4. CASE TakesToken(w)
      <4>1. job[w] \in Jobs
        BY DEF TypeOK
      <4>2. /\ job'[w].prospect = job[w].prospect /\ job'[w].email = job[w].email
            /\ job'[w].token = lastToken + 1
        BY <3>4, <4>1 DEF TakesToken, Jobs
      <4>3. Reviewing(w)
        BY <1>5, <2>3, <4>2 DEF Reviewing
      <4>4. prospects'[job'[w].prospect].status = "pending"
        BY <1>3, <2>1, <2>3, <3>1, <4>2, <4>3
      <4>5. pc[w] # "invite"
        BY <4>3 DEF LocalsOK
      <4> QED
        BY <2>3, <3>4, <4>2, <4>4, <4>5 DEF TakesToken
    <3> QED
      BY <3>1, <3>2, <3>3, <3>4, Walks
  <2> QED
    BY <2>2, <2>3
<1> QED
  BY <1>4, <1>5 DEF ReviewerInv

-----------------------------------------------------------------------------

LEMMA InitInv ==
  ASSUME Init
  PROVE  OnboardingInv
<1> USE DEF Init
<1>1. TypeOK
  BY IdleType DEF TypeOK, ProspectRows, Users, Steps
<1>2. \A w \in Clerks : pc[w] = "idle" /\ ~Reviewing(w) /\ ~Creating(w)
  BY DEF Idle, Reviewing, Creating
<1>3. LocalsOK
  BY <1>2 DEF LocalsOK
<1>4. ProspectInv /\ ApprovedIsProvisioned
  BY DEF ProspectInv, ApprovedIsProvisioned
<1>5. CompanyInv
  BY <1>2 DEF CompanyInv, OneOwner
<1>6. ReviewerInv
  BY <1>2 DEF ReviewerInv, OwnerCanEnter
<1> QED
  BY <1>1, <1>3, <1>4, <1>5, <1>6 DEF OnboardingInv

LEMMA StepInv ==
  ASSUME OnboardingInv, [Next]_vars
  PROVE  OnboardingInv'
<1>1. ASSUME NEW w \in Clerks, Step(w) PROVE OnboardingInv'
  <2>1. TypeOK /\ LocalsOK /\ ProspectInv /\ ApprovedIsProvisioned /\ CompanyInv
    BY DEF OnboardingInv
  <2>2. TypeOK' /\ LocalsOK' /\ ProspectInv' /\ ApprovedIsProvisioned' /\ CompanyInv'
    BY <1>1, <2>1, StepTypes, LocalsStep, ProspectInvStep, ApprovedStep, CompanyStepInv
  <2>3. OneReviewer => ReviewerInv'
    BY <1>1, <2>1, ReviewerStep DEF OnboardingInv
  <2> QED
    BY <2>2, <2>3 DEF OnboardingInv, OneReviewer
<1>2. CASE UNCHANGED vars
  BY <1>2 DEF vars, OnboardingInv, TypeOK, LocalsOK, ProspectInv, ApprovedIsProvisioned,
     Provisioned,
     CompanyInv, OneOwner, OneReviewer, ReviewerInv, OwnerCanEnter, Reviewing, Creating, OwnerOf
<1> QED
  BY <1>1, <1>2 DEF Next, Step

\* The inductive invariant: what a request on its way through the four schemas has
\* already made, whatever the others do to the same people and companies.
THEOREM OnboardingInvariant == Spec => []OnboardingInv
<1>1. Init => OnboardingInv
  BY InitInv
<1>2. OnboardingInv /\ [Next]_vars => OnboardingInv'
  BY StepInv
<1> QED
  BY <1>1, <1>2, PTL DEF Spec

\* Approve is a chain of statements without a transaction, yet whoever is approved has
\* all of it.
THEOREM ApprovedIsProvisionedHolds == Spec => []ApprovedIsProvisioned
<1>1. OnboardingInv => ApprovedIsProvisioned
  BY DEF OnboardingInv
<1> QED
  BY <1>1, OnboardingInvariant, PTL

\* GetByNIT and Save are two statements, yet a company gets one owner, before anybody
\* else belongs to it.
THEOREM OneOwnerHolds == Spec => []OneOwner
<1>1. OnboardingInv => OneOwner
  BY DEF OnboardingInv, CompanyInv
<1> QED
  BY <1>1, OnboardingInvariant, PTL

\* One reviewer: the owner of an approved company holds the token that opens it.
THEOREM OwnerCanEnterHolds == Spec => []OwnerCanEnter
<1>1. OnboardingInv => OwnerCanEnter
  BY DEF OnboardingInv, ReviewerInv, OwnerCanEnter
<1> QED
  BY <1>1, OnboardingInvariant, PTL

DecidedStays ==
  OneReviewer => \A p \in Prospects : prospects[p].status \in {"approved", "rejected"} =>
    prospects'[p] = prospects[p]

\* One reviewer: what was decided stays.
THEOREM DecidedOnceHolds == Spec => DecidedOnce
<1>1. ASSUME OnboardingInv, [Next]_vars PROVE [DecidedStays]_vars
  <2>1. CASE UNCHANGED vars
    BY <2>1
  <2>2. ASSUME NEW w \in Clerks, Step(w) PROVE DecidedStays
    <3> SUFFICES ASSUME OneReviewer, NEW p \in Prospects, prospects[p].status \in {"approved", "rejected"},
                        prospects'[p] # prospects[p]
                 PROVE  FALSE
      BY DEF DecidedStays
    <3>1. p = job[w].prospect /\ Reviewing(w)
      BY <1>1, <2>2, Decisions DEF OnboardingInv
    <3> QED
      BY <1>1, <3>1 DEF OnboardingInv, ReviewerInv
  <2> QED
    BY <1>1, <2>1, <2>2 DEF Next, Step
<1> QED
  BY <1>1, OnboardingInvariant, PTL DEF Spec, DecidedOnce, DecidedStays
=============================================================================
